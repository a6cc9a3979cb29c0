----------------------------- MODULE MCCrawler ------------------------------
(***************************************************************************)
(* Instances of Crawler for TLC: sites that can answer any request with    *)
(* either of two hand-made responses, and for every short script a site    *)
(* whose only page has that script.                                        *)
(***************************************************************************)
EXTENDS Crawler, TLC

CONSTANTS ScriptLength  \* bound on the symbols of a script

Attr(name, value) == name :> value
Html(depth, tag) == Element(depth, tag, [a \in {} |-> <<>>])

Field(type, name, value) ==
  Element(2, "input", ("name" :> name) @@ ("type" :> type) @@ ("value" :> value))
Form(action) == Element(1, "form", ("action" :> action) @@ ("method" :> <<"POST">>))
Token == Field(<<"hidden">>, <<"t">>, <<RandomText, " ", "w">>)
Password == Field(<<"password">>, <<"p">>, <<>>)

\* A page with links of all kinds, a refresh and a payload as a tag.
LinkPage ==
  <<Html(1, "body"),
    Element(2, "a", Attr("href", <<"/", "w", "&", "amp;", "w">>)),
    Element(2, "a", Attr("href", <<"javascript:", Sink, "=", "'", "/", "w", "'">>)),
    Element(2, "b", Attr("onclick", <<Sink, "=", "'", "/", "w", "/", "'", Payload, "=">>)),
    Element(2, "meta", Attr("http-equiv", <<"w">>) @@ Attr("content", <<"w", "url=", "'", "/", "/", "w", "'">>)),
    Element(2, "x", Attr(Payload, <<"w">>)),
    Element(2, Payload, [a \in {} |-> <<>>]),
    Element(2, "x", Attr(Payload, <<"w">>)),
    Comment(2, <<"w", " ", "https:", "/", "/", "w", " ", "w">>)>>

\* A login form, a form with a token, a form with neither, one without action.
FormPage ==
  <<Form(<<"http:", "/", "/", "w">>), Password, Field(<<"text">>, <<"p">>, <<"w">>),
    Form(<<"/", "w">>), Token,
    Form(<<"/", "w">>), Field(<<"text">>, <<"q">>, <<"w">>),
    Element(1, "form", Attr("method", <<"GET">>)), Password>>

\* Absolute links in a text, and in what follows a script; a form without token.
TextPage ==
  <<Html(1, "script"), Text(2, <<Sink, "=", "'", "w", "'", "=">>),
    Text(1, <<"http:", "/", "/", "w">>),
    Element(1, "p", Attr(Payload, <<>>)), Text(2, <<"w", " ", "/", "/", "w">>),
    Form(<<"/", "w">>), Password>>

MissingPage == <<Html(1, "body"), Text(2, <<"w">>)>>

ScriptPage(text) == <<Html(1, "script"), Text(2, text)>>

Head1(code, headers, page) ==
  <<StatusLine(TRUE, 3, code), CR, LF>> \o headers \o <<CR, LF, Page(page)>>
Line(name, value) == <<HeaderLine(name, value), CR, LF>>
Typed(type) == Line(<<"Content-type">>, type)
Doc(doc) == [doc |-> doc, sniffed |-> "none", parses |-> TRUE]

Redirect == Line(<<"Location">>, <<"/", "/", "w">>)

\* Bare line feeds end the headers; the lines after them are not headers.
LineFeeds ==
  <<StatusLine(TRUE, 3, 200), LF, HeaderLine(<<"Content-type">>, "text/plain"), LF, LF,
    HeaderLine(<<"Location">>, <<"w">>), CR, LF, CR, LF, Page(Doc(MissingPage))>>

CoreResponse ==
  {LineFeeds,
   Head1(200, Typed("text/html"), Doc(LinkPage)),
   Head1(200, Typed("text/html"), Doc(FormPage)),
   Head1(200, Typed("text/html"), Doc(TextPage)),
   Head1(200, Typed("text/html"), Doc(MissingPage)),
   Head1(404, Typed("text/html"), Doc(MissingPage)),
   Head1(200, Typed("text/plain"), [Doc(LinkPage) EXCEPT !.sniffed = "text/html"]),
   Head1(302, Typed("image/png") \o Redirect, Doc(MissingPage)),
   Head1(301, Typed("text/html") \o Redirect, [Doc(LinkPage) EXCEPT !.parses = FALSE]),
   Head1(999, Typed("text/html"), Doc(LinkPage)),
   <<StatusLine(TRUE, 2, 200), CR, LF, CR, LF, Page(Doc(MissingPage))>>,
   <<StatusLine(TRUE, 3, 200), CR, LF, Page(Doc(LinkPage))>>}

\* Every short script, and every assignment of up to one symbol more.
ScriptSymbol == {"w", Sink, Payload, "'", "\"", "\\", "/", " "}
LiteralSymbol == {"w", Payload, "'", "\"", "\\"}
Scripts == BoundedSeq(ScriptSymbol, ScriptLength)
             \cup {<<Sink, "=">> \o t : t \in BoundedSeq(LiteralSymbol, ScriptLength + 1)}
ScriptSites == {{Head1(200, Typed("text/html"), Doc(ScriptPage(t)))} : t \in Scripts}

MCSites == {{r1, r2} : r1 \in CoreResponse, r2 \in CoreResponse} \cup ScriptSites

\* Passive tests: a redirect to a word, no redirect, a URL, and one that has an
\* empty matcher and is left out.
Condition(target, match) == [target |-> target, field |-> <<"Location">>, match |-> <<match>>]
Matcher(method, value, negative) ==
  [method |-> method, value |-> value, case_insensitive |-> FALSE, negative |-> negative,
   min |-> 0, max |-> 0]
Passive(type, conditions) == [type |-> type, matching |-> conditions]
MCPassiveTests ==
  {Passive("REDIRECT", {Condition("RESPONSE_HEADER_VALUE", Matcher("PREFIX", << <<"/", "/">> >>, FALSE))}),
   Passive("NO_REDIRECT", {Condition("RESPONSE_HEADER_VALUE", Matcher("CONTAINS", << <<"w">> >>, TRUE)),
                           Condition("REQUEST_URL", Matcher("EQUALS", << <<"/">> >>, FALSE))}),
   Passive("WORD_IN_URL", {Condition("REQUEST_URL", Matcher("CONTAINS", << <<"w">> >>, FALSE))}),
   Passive("UNUSABLE", {Condition("REQUEST_URL", Matcher("CONTAINS", <<>>, TRUE))})}

MCSeed == [url |-> <<"/">>, post |-> FALSE, params |-> <<>>, parent |-> kInvalidId, ssl |-> FALSE]
=============================================================================
