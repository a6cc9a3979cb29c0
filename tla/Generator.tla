----------------------------- MODULE Generator ------------------------------
(***************************************************************************)
(* The requests that are sent: the fields of an HttpRequest message, how   *)
(* Request reads them from a URL and writes them to one, and how           *)
(* GenericGenerator makes the requests of a security check from a page.    *)
(*                                                                         *)
(* A URL is what GURL makes of it: a record of scheme, host, port and the  *)
(* path and the query as sequences of symbols.  A field is a record [name, *)
(* has_value, value, modified], with a text as name and value; raw_fragment,*)
(* which nothing sets, is left out.                                        *)
(***************************************************************************)
EXTENDS Naturals, Sequences, SequencesExt, FiniteSets, TLC

Field(name, value) == [name |-> name, has_value |-> TRUE, value |-> value, modified |-> FALSE]
ValuelessField(name) == [name |-> name, has_value |-> FALSE, value |-> <<>>, modified |-> FALSE]
NoQuery == <<"none">>
InvalidUrl == [valid |-> FALSE]

FieldType == {"param", "body_param", "header", "path"}

-----------------------------------------------------------------------------
(* Request.                                                                *)

\* absl::StrSplit.
StrSplit(s, separator) ==
  FoldLeft(LAMBDA parts, c : IF c = separator THEN Append(parts, <<>>)
                             ELSE Front(parts) \o <<Append(Last(parts), c)>>,
           << <<>> >>, s)

\* Mutant: the element for a trailing slash is forgotten.
PathFieldsNoTrailing(path) ==
  LET names == SelectSeq(StrSplit(path, "/"), LAMBDA s : s # <<>>)
  IN  [i \in DOMAIN names |-> Field(<<"/">>, names[i])]

\* The path elements of a URL; a trailing slash is an element of its own.
PathFields(path) ==
  LET names == SelectSeq(StrSplit(path, "/"), LAMBDA s : s # <<>>)
      fields == [i \in DOMAIN names |-> Field(<<"/">>, names[i])]
  IN  IF names = <<>> \/ Last(path) = "/" THEN Append(fields, Field(<<"/">>, <<>>)) ELSE fields

\* "a=b=c" has three parts and is a parameter without a value.
QueryField(s) ==
  LET parts == StrSplit(s, "=")
  IN  IF Len(parts) = 2 THEN Field(parts[1], parts[2]) ELSE ValuelessField(parts[1])

QueryFields(query) ==
  IF query = NoQuery THEN <<>>
  ELSE LET params == StrSplit(query, "&") IN [i \in DOMAIN params |-> QueryField(params[i])]

\* ReplaceOrAddExistingField, without its count.
ReplaceOrAddExistingField(name, value, replace, fields) ==
  IF \E i \in DOMAIN fields : fields[i].name = name
  THEN IF replace
       THEN [i \in DOMAIN fields |->
               IF fields[i].name = name
               THEN [fields[i] EXCEPT !.value = value, !.has_value = TRUE] ELSE fields[i]]
       ELSE fields
  ELSE Append(fields, Field(name, value))

\* PrepareHeaders: every request has a user agent.
PrepareHeaders(headers) ==
  ReplaceOrAddExistingField(<<"User-Agent">>, <<"Plusfish">>, FALSE, headers)

\* path() and the parameters of build_url(): the texts of the URL.
PathText(fields) ==
  FlattenSeq([i \in DOMAIN fields |-> fields[i].name \o fields[i].value])

QueryText(fields) ==
  IF fields = <<>> THEN NoQuery
  ELSE LET Pair(f) == IF f.has_value THEN f.name \o <<"=">> \o f.value ELSE f.name
       IN  FlattenSeq([i \in DOMAIN fields |->
                         (IF i = 1 THEN <<>> ELSE <<"&">>) \o Pair(fields[i])])

build_url(req) ==
  [valid |-> TRUE, ssl |-> req.ssl, host |-> req.host, port |-> req.port,
   path |-> PathText(req.path), query |-> QueryText(req.param)]

\* Request(proto): the URL and the headers are made anew.
NewRequest(proto) == [proto EXCEPT !.header = PrepareHeaders(@)]

\* ParseUrl, for a new request; GURL::Resolve takes the
\* scheme, the host and the port of the reference.
ParseUrl(url, ref) ==
  LET relative == url.valid /\ url.host = <<>>
      g == IF relative /\ ref.valid
           THEN [url EXCEPT !.ssl = ref.ssl, !.host = ref.host, !.port = ref.port] ELSE url
  IN  IF ~g.valid \/ g.host = <<>> THEN InvalidUrl
      ELSE NewRequest([valid |-> TRUE, raw_url |-> url, ssl |-> g.ssl,
                       host |-> g.host, port |-> g.port,
                       path |-> PathFields(g.path), param |-> QueryFields(g.query),
                       body_param |-> <<>>, header |-> <<>>, method |-> "GET"])

SetPostParameter(req, name, value, replace) ==
  [req EXCEPT !.method = "POST",
              !.body_param = ReplaceOrAddExistingField(name, value, replace, @)]

\* GetRequestBody.
RequestBody(req) ==
  LET Join(s, f) == (IF s = <<>> THEN s ELSE s \o <<"&">>) \o f.name \o <<"=">> \o f.value
  IN  FoldLeft(Join, <<>>, req.body_param)

-----------------------------------------------------------------------------
(* audit_util.                                                             *)

\* What encode_url_token leaves alone besides letters and digits.
kUrlEncodeIgnoreChars == {"&", "=", ";", ",", "!", "$", "?", "%"}
Special == {"/", "<", ">", "'", "\"", " ", "&", "=", "%"}
Entity == [c \in {"<", ">", "&", "\"", "'"} |->
  CASE c = "<" -> "&lt;" [] c = ">" -> "&gt;" [] c = "&" -> "&amp;"
    [] c = "\"" -> "&quot;" [] c = "'" -> "&apos;"]

\* The "%xx" of a symbol is the pair of "%" and the symbol.
encode_url_token(s) ==
  FlattenSeq([i \in DOMAIN s |->
    IF s[i] \in Special \ kUrlEncodeIgnoreChars THEN <<"%", s[i]>> ELSE <<s[i]>>])

EscapeHtml(s) == [i \in DOMAIN s |-> IF s[i] \in DOMAIN Entity THEN Entity[s[i]] ELSE s[i]]

Injected(original, payload, method) ==
  CASE method = "APPEND_TO_VALUE" -> original \o payload
    [] method = "PREFIX_VALUE"    -> payload \o original
    [] OTHER                      -> payload

GeneratePayloadString(original, payload, method, encoding) ==
  LET text == Injected(original, payload, method)
  IN  CASE encoding = "URL"  -> encode_url_token(text)
        [] encoding = "HTML" -> EscapeHtml(text)
        [] OTHER             -> text

-----------------------------------------------------------------------------
(* GenericGenerator.  A rule is a record of sequences: target, method,     *)
(* encoding and payload; a target is [type, names, last_field_only].       *)

\* The names compare without regard to case, by their lower case form.
ShouldInjectInField(target, name) ==
  target.names = {} \/ name \in target.names

\* The positions of the fields of a target that payloads go into.
TargetFields(target, fields) ==
  IF target.last_field_only THEN {Len(fields)} \ {0}
  ELSE {i \in DOMAIN fields : ShouldInjectInField(target, fields[i].name)}

\* All the values of one field, in the order of the three loops.
PayloadStrings(rule, original) ==
  LET Texts(m, e) == [p \in DOMAIN rule.payload |->
                        GeneratePayloadString(original, rule.payload[p], m, e)]
      ByEncoding(m) == FlattenSeq([e \in DOMAIN rule.encoding |-> Texts(m, rule.encoding[e])])
  IN  FlattenSeq([m \in DOMAIN rule.method |-> ByEncoding(rule.method[m])])

\* Mutant: the last payload stays in the field.
RestoreForgotten(field, original, last) == [field EXCEPT !.value = last, !.has_value = TRUE]

\* The field after its requests were made: it has a value from then on.
Restore(field, original, last) == [field EXCEPT !.value = original, !.has_value = TRUE]

\* The message with value v in field i.
MutatedMessage(message, type, i, v) ==
  LET field == [message[type][i] EXCEPT !.value = v, !.has_value = TRUE, !.modified = TRUE]
  IN  [message EXCEPT ![type] = [message[type] EXCEPT ![i] = field]]

\* The requests of one field, all made from one message.
AppendSingleMutatedFieldRequest(message, type, i, rule) ==
  LET texts == PayloadStrings(rule, message[type][i].value)
  IN  [k \in DOMAIN texts |-> NewRequest(MutatedMessage(message, type, i, texts[k]))]

\* The copy of the message when the loop reaches field i: the targeted fields
\* before it were changed and restored.
MessageAt(base, type, targets, i, rule) ==
  LET Left(f) == LET texts == PayloadStrings(rule, f.value)
                 IN  IF texts = <<>> THEN f ELSE Restore(f, f.value, Last(texts))
  IN  [base EXCEPT ![type] =
         [k \in DOMAIN @ |-> IF k \in targets /\ k < i THEN Left(@[k]) ELSE @[k]]]

\* One target: a fresh copy of the message, field by field.
AppendMutatedFieldRequests(base, target, rule) ==
  LET targets == TargetFields(target, base[target.type])
  IN  FlattenSeq([i \in DOMAIN base[target.type] |->
        IF i \in targets
        THEN AppendSingleMutatedFieldRequest(
               MessageAt(base, target.type, targets, i, rule), target.type, i, rule)
        ELSE <<>>])

Generate(base, rule) ==
  FlattenSeq([t \in DOMAIN rule.target |->
    LET target == rule.target[t]
    IN  IF target.type \in FieldType /\ base[target.type] # <<>>
        THEN AppendMutatedFieldRequests(base, target, rule) ELSE <<>>])
=============================================================================
