------------------------------ MODULE MCAudit -------------------------------
(***************************************************************************)
(* Scenarios of Audit for TLC: small configurations of security tests for  *)
(* one or two pages, and a page without tests for every short URL.         *)
(***************************************************************************)
EXTENDS Audit

MCSymbol ==
  Special \cup Range(Entity) \cup DOMAIN Upper \cup Range(Upper) \cup
  {"?", "h", "c", "X", "Cookie", "User-Agent", "Plusfish", "(", Nul}

CONSTANTS PathLength, QueryLength  \* bounds on the texts of a URL

Url(path, query) ==
  [valid |-> TRUE, ssl |-> FALSE, host |-> <<"h">>, port |-> 80, path |-> path, query |-> query]
PageAt(url) == [url |-> url, origin |-> InvalidUrl, form |-> <<>>]
Plain == PageAt(Url(<<"/", "a">>, <<"a", "=", "b">>))

\* A relative link, a parameter without a value, and two fields of one name.
FormPage ==
  [url |-> [Url(<<"/", "a", "/">>, <<"b", "&", "a">>) EXCEPT !.host = <<>>],
   origin |-> ParseUrl(Url(<<"/">>, NoQuery), InvalidUrl),
   form |-> <<Field(<<"a">>, <<"b">>), Field(<<"a">>, <<"&">>)>>]

Target(type, names, last) == [type |-> type, names |-> names, last_field_only |-> last]
Rule(targets, methods, encodings) ==
  [target |-> targets, method |-> methods, encoding |-> encodings, payload |-> << <<"<", "/">> >>]
OneRequest == Rule(<<Target("param", {}, FALSE)>>, <<"SET_VALUE">>, <<"NONE">>)

Matcher(method, values) ==
  [method |-> method, value |-> values, case_insensitive |-> TRUE, negative |-> FALSE,
   min |-> 0, max |-> 0]
Not(m) == [m EXCEPT !.negative = TRUE]
Duration(min, max) == [Matcher("TIMING", <<>>) EXCEPT !.min = min, !.max = max]
Body(matchers) == [target |-> "RESPONSE_BODY", field |-> <<>>, match |-> matchers]
Header(matchers) == [target |-> "RESPONSE_HEADER_VALUE", field |-> <<"X">>, match |-> matchers]
UrlHas(values) == [target |-> "REQUEST_URL", field |-> <<>>, match |-> <<Matcher("CONTAINS", values)>>]

Test(generator, serial, rule) ==
  [has_generator_rule |-> TRUE, generator |-> generator, serial |-> serial,
   has_matching_rule |-> TRUE, matching |-> rule]
Unmatched(generator, serial) ==
  [Test(generator, serial, {}) EXCEPT !.has_matching_rule = FALSE]
Passive == [Test(OneRequest, FALSE, {}) EXCEPT !.has_generator_rule = FALSE]

Timing == Test(OneRequest, TRUE, {Body(<<Duration(5, 9)>>)})

\* Serial rules about bodies, headers and URLs.
Rules ==
  {{Body(<<Matcher(m, v)>>)} :
     m \in {"CONTAINS", "EQUALS", "PREFIX", "REGEX"}, v \in {<< <<"b">> >>, << <<"c">>, <<"a">> >>}}
  \cup {{Header(<<m>>), Body(<<Matcher("CONTAINS", << <<"a">> >>), Not(Matcher("EQUALS", << <<"b">> >>))>>)} :
          m \in {Matcher("PREFIX", << <<"A">> >>), Not(Matcher("PREFIX", << <<"a">> >>))}}
  \cup {{UrlHas(<< <<"<">>, <<"%">> >>), Body(<<>>)}, {},
        {[Body(<<Matcher("EQUALS", << <<"a">> >>)>>) EXCEPT !.target = "UNSPECIFIED"]}}

Invalid ==
  {{Body(<<Matcher("NONE", << <<"a">> >>)>>)}, {Body(<<Duration(5, 5)>>)},
   {Body(<<Matcher("CONTAINS", <<>>)>>)}, {Body(<<Matcher("REGEX", <<BadRegex>>)>>)}}

WideRule ==
  Rule(<<Target("param", {}, FALSE), Target("header", {<<"Cookie">>}, FALSE),
         Target("body_param", {<<"a">>}, FALSE), Target("path", {}, TRUE), Target("UNKNOWN", {}, TRUE)>>,
       <<"APPEND_TO_VALUE">>, <<"URL">>)
DeepRule ==
  Rule(<<Target("header", {<<"User-Agent">>}, FALSE)>>,
       <<"PREFIX_VALUE", "SET_VALUE">>, <<"NONE", "HTML">>)
EmptyRule == Rule(<<Target("body_param", {}, FALSE)>>, <<"SET_VALUE">>, <<"NONE">>)

AuditScenarios ==
  {[tests |-> <<Timing>>, pages |-> <<Plain, Plain>>],
   [tests |-> <<Passive, Test(WideRule, FALSE, {UrlHas(<< <<"%", "/">> >>)})>>,
    pages |-> <<FormPage>>],
   [tests |-> <<Unmatched(EmptyRule, FALSE), Test(DeepRule, TRUE, {Body(<<Matcher("PREFIX", << <<"b">> >>)>>)}), Timing>>,
    pages |-> <<Plain>>],
   [tests |-> <<Unmatched(WideRule, TRUE)>>, pages |-> <<FormPage>>]}
  \cup {[tests |-> <<Test(OneRequest, FALSE, i), Test(OneRequest, serial, r)>>, pages |-> <<Plain>>] :
          i \in Invalid, r \in Rules, serial \in BOOLEAN}

Paths == {<<"/">> \o s : s \in BoundedSeq({"/", "a"}, PathLength)}
Queries == {NoQuery} \cup BoundedSeq({"a", "b", "=", "&"}, QueryLength)
UrlScenarios == {[tests |-> <<>>, pages |-> <<PageAt(Url(p, q))>>] : p \in Paths, q \in Queries}

MCScenarios == AuditScenarios \cup UrlScenarios

Answer(headers, body, time) ==
  [response |-> [ok |-> TRUE, headers |-> headers, body |-> body], time |-> time]
MCAnswers ==
  {Answer(<<>>, <<"b">>, 1),
   Answer(<<HeaderLine(<<"X">>, <<"a">>)>>, <<"a", Nul, "b">>, 7)}
=============================================================================
