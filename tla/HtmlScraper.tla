---------------------------- MODULE HtmlScraper -----------------------------
(***************************************************************************)
(* HtmlScraper::Parse: one walk over the parsed document, during which the *)
(* URL, XSS, form and fingerprint filters are given every node.            *)
(*                                                                         *)
(* A document is the sequence of its nodes in the order of the walk; the   *)
(* descendants of a node are the ones after it that are deeper.  Attribute *)
(* values and texts are sequences of symbols, see ScrapeUtil.              *)
(***************************************************************************)
EXTENDS ScrapeUtil, FiniteSetsExt

Element(depth, tag, attrs) ==
  [type |-> "element", depth |-> depth, tag |-> tag, attrs |-> attrs, text |-> <<>>]
Text(depth, text) ==
  [type |-> "text", depth |-> depth, tag |-> "", attrs |-> <<>>, text |-> text]
Comment(depth, text) == [Text(depth, text) EXCEPT !.type = "comment"]

\* The nodes below node k.
Below(doc, k) ==
  {j \in (k + 1)..Len(doc) : \A i \in (k + 1)..j : doc[i].depth > doc[k].depth}

\* HtmlFingerprint: how many words there are of each size.
kMaxFingerprintSize == 16
NewFingerprint == [i \in 0..(kMaxFingerprintSize - 1) |-> 0]
AddWord(fp, size) == [fp EXCEPT ![size % kMaxFingerprintSize] = @ + 1]

\* What the filters of one Parse call have collected.  A set of anchors: the
\* vector is free of duplicates.  An issue is known by its type and by the
\* node it was found at.
NewScraper ==
  [last_element |-> "", anchors |-> {}, issues |-> {}, requests |-> <<>>,
   fingerprint |-> NewFingerprint,
   form_has_password_field |-> FALSE, form_has_xsrf_token |-> FALSE]

Issue(type, k) == [type |-> type, at |-> k]

-----------------------------------------------------------------------------
(***************************************************************************)
(* GumboUrlFilter.  Links of a filter call are added one by one; a script  *)
(* URL is not a link, what it contains may be.                             *)
(***************************************************************************)
NoLinks == [anchors |-> {}, payloads |-> 0]
Links(anchors) == [NoLinks EXCEPT !.anchors = anchors]

\* The links and payloads of several scans together.
Merge(found) ==
  [anchors |-> UNION {l.anchors : l \in found},
   payloads |-> IF \E l \in found : l.payloads > 0 THEN 1 ELSE 0]

\* AddAnchor.
Resolved[v \in Seq(Symbol)] ==
  IF v # <<>> /\ Head(v) \in Script
  THEN LET js == ScrapeJs(Tail(v)) IN
       Merge({[js EXCEPT !.anchors = {}]} \cup {Resolved[a] : a \in js.anchors})
  ELSE Links({v})

\* The links go to anchors_, a payload in one of the scripts to issues_.
AddLinks(st, k, links) ==
  [st EXCEPT !.anchors = @ \cup links.anchors,
             !.issues = @ \cup IF links.payloads > 0
                               THEN {Issue("XSS_REFLECTED_JAVASCRIPT", k)} ELSE {}]

\* AddAnchorsSet, with the issues that ScrapeJs has added on the way.
AddAnchors(st, k, links) ==
  AddLinks(st, k, Merge({[links EXCEPT !.anchors = {}]}
                          \cup {Resolved[v] : v \in links.anchors}))

\* The test is "the name is a prefix of a known name".
AnchorAttribute == {"href", "src", "action", "url", "a", "h", "s", "u"}
EventHandler == {"onclick"}

PotentialUrl(v) ==
  LET j == IF v # <<>> /\ v[1] \in Scheme THEN 2 ELSE 1
  IN  Len(v) > j /\ v[j] = "/" /\ v[j + 1] = "/"

\* The links of one attribute.
AttributeLinks(name, v) ==
  LET js == IF name \in EventHandler THEN ScrapeJs(v) ELSE NoLinks IN
  Merge({[js EXCEPT !.anchors = {UnescapeHtml(a) : a \in @}],
         Links(IF name \in AnchorAttribute \/ PotentialUrl(v)
               THEN {UnescapeHtml(v)} ELSE {})})

\* ParseMeta: the URL of a refresh, which may be quoted.
MetaLinks(node) ==
  LET content == node.attrs["content"]
      at == SelectInSeq(content, LAMBDA s : s = "url=")
      url == SubSeq(content, at + 1, Len(content))
  IN  IF url # <<>> /\ Head(url) \in Quote
      THEN SubSeq(url, 2, IF Last(url) = Head(url) THEN Len(url) - 1 ELSE Len(url))
      ELSE url

IsRefresh(node) ==
  /\ node.tag = "meta"
  /\ {"content", "http-equiv"} \subseteq DOMAIN node.attrs
  /\ Contains(node.attrs["content"], "url=")

UrlFilterElement(st, k, node) ==
  LET links == IF IsRefresh(node) THEN Links({MetaLinks(node)})
               ELSE Merge({AttributeLinks(a, node.attrs[a]) : a \in DOMAIN node.attrs})
  IN  [AddAnchors(st, k, links) EXCEPT !.last_element = node.tag]

\* The text is a script if the element that was seen last is <script>.
UrlFilterText(st, k, node) ==
  AddAnchors(st, k, IF st.last_element = "script" THEN ScrapeJs(node.text)
                    ELSE Links(ScrapeUrl(node.text)))

UrlFilterComment(st, k, node) == AddAnchors(st, k, Links(ScrapeUrl(node.text)))

-----------------------------------------------------------------------------
\* The tags that Gumbo knows; every other one is GUMBO_TAG_UNKNOWN.
KnownTag == {"body", "script", "meta", "a", "b", "p", "form", "input", "textarea", "select"}

\* kTagXssPayloadRegex matches the payload as a tag without attributes.
IsTagPayload(node) == node.tag = Payload /\ DOMAIN node.attrs = {}

\* GumboXssFilter.  For an unknown tag it searches the page from that tag on,
\* and does not look at the attributes.
XssFilterElement(st, doc, k) ==
  [st EXCEPT !.issues = @ \cup
     IF doc[k].tag \notin KnownTag
     THEN IF \E j \in k..Len(doc) : IsTagPayload(doc[j])
          THEN {Issue("XSS_REFLECTED_TAG", k)} ELSE {}
     ELSE IF Payload \in DOMAIN doc[k].attrs
          THEN {Issue("XSS_REFLECTED_ATTRIBUTE", k)} ELSE {}]

\* GumboFingerprintFilter: the tag and the attribute names are words.
FingerprintElement(st, node) ==
  [st EXCEPT !.fingerprint =
     FoldSet(LAMBDA name, fp : AddWord(fp, Len(name)),
             AddWord(@, Len(node.tag)), DOMAIN node.attrs)]

\* So are the pieces of a text between blanks, if they are alphanumeric.
FingerprintText(st, node) ==
  LET Read(acc, s) ==
        IF s = " "
        THEN [fp |-> IF acc.word /\ acc.size > 0 THEN AddWord(acc.fp, acc.size) ELSE acc.fp,
              size |-> 0, word |-> TRUE]
        ELSE [acc EXCEPT !.size = @ + Len(s), !.word = @ /\ s \in Word]
      read == FoldLeft(Read, [fp |-> st.fingerprint, size |-> 0, word |-> TRUE],
                       Append(node.text, " "))
  IN  [st EXCEPT !.fingerprint = read.fp]

-----------------------------------------------------------------------------
(***************************************************************************)
(* GumboFormFilter.  A form is read as a whole when its element is given   *)
(* to the filter.                                                          *)
(***************************************************************************)
FieldTag == {"input", "textarea", "select"}

\* The named fields of the form at node k, in order.
Fields(doc, k) ==
  SelectSeq(SubSeq(doc, k + 1, k + Cardinality(Below(doc, k))),
            LAMBDA n : n.tag \in FieldTag /\ "name" \in DOMAIN n.attrs)

HasType(field, type) == "type" \in DOMAIN field.attrs /\ field.attrs["type"] = type

\* IsPotentialBase16Token or IsPotentialBase64Token: both look at the beginning
\* of the value, up to the first character that no token has.
IsPotentialXSRFToken(value) == value # <<>> /\ Head(value) = RandomText

CarriesToken(field) ==
  /\ HasType(field, <<"hidden">>)
  /\ "value" \in DOMAIN field.attrs
  /\ IsPotentialXSRFToken(field.attrs["value"])

\* SetPostParameter and SetGetParameter do not add a name twice.
Parameters(fields) ==
  LET Add(names, f) == IF Contains(names, f.attrs["name"]) THEN names
                       ELSE Append(names, f.attrs["name"])
  IN  FoldLeft(Add, <<>>, fields)

\* The form request resolved against the request of the page.
FormRequest(base, node, fields) ==
  LET url == UnescapeHtml(node.attrs["action"])
      get == "method" \in DOMAIN node.attrs /\ node.attrs["method"] = <<"GET">>
  IN  [url |-> url,
       ssl |-> IF url # <<>> /\ Head(url) \in Scheme
               THEN Head(url) = "https:" ELSE base.ssl,
       post |-> ~get /\ fields # <<>>,
       params |-> Parameters(fields)]

\* AnalyzeCurrentForm.
FormIssues(st, base, k, req) ==
  {Issue(type, k) : type \in
     (IF st.form_has_password_field /\ ~req.ssl
      THEN {"PLAINTEXT_LOGIN_FORM_TARGET"} ELSE {})
     \cup (IF st.form_has_password_field /\ ~base.ssl
           THEN {"PLAINTEXT_LOGIN_FORM"} ELSE {})
     \cup (IF st.form_has_xsrf_token THEN {} ELSE {"XSRF_PASSIVE"})}

\* Mutant: the password flag of the form before is not reset.
ReadFieldsKeepsPassword(st, fields) ==
  [st EXCEPT
     !.form_has_password_field = @ \/ \E f \in ToSet(fields) : HasType(f, <<"password">>),
     !.form_has_xsrf_token = @ \/ \E f \in ToSet(fields) : CarriesToken(f)]

\* The flags after ParseFormFieldRecursive.  Only the first of them is reset
\* at the start of a form.
ReadFields(st, fields) ==
  [st EXCEPT
     !.form_has_password_field = \E f \in ToSet(fields) : HasType(f, <<"password">>),
     !.form_has_xsrf_token = @ \/ \E f \in ToSet(fields) : CarriesToken(f)]

\* A form without an action is skipped.
FormFilterElement(st, base, doc, k) ==
  IF doc[k].tag # "form" \/ "action" \notin DOMAIN doc[k].attrs THEN st
  ELSE LET fields == Fields(doc, k)
           req == FormRequest(base, doc[k], fields)
           read == ReadFields(st, fields)
       IN  [read EXCEPT !.issues = @ \cup FormIssues(read, base, k, req),
                        !.requests = Append(@, req)]

-----------------------------------------------------------------------------
\* FilterDocumentNode: every filter, in this order, for one node.
FilterDocumentNode(st, base, doc, k) ==
  LET node == doc[k] IN
  IF node.type = "element"
  THEN FingerprintElement(
         FormFilterElement(
           XssFilterElement(
             UrlFilterElement(st, k, node), doc, k), base, doc, k), node)
  ELSE IF node.type = "text" THEN FingerprintText(UrlFilterText(st, k, node), node)
  ELSE UrlFilterComment(st, k, node)

\* HtmlScraper::Parse of the response to the request base.
Parse(base, doc) ==
  FoldLeftDomain(LAMBDA st, k : FilterDocumentNode(st, base, doc, k), NewScraper, doc)
=============================================================================
