------------------------------- MODULE Audit --------------------------------
(***************************************************************************)
(* What the selective auditor sends and what it makes of the answers: the  *)
(* security checks (ResponseTimeCheck, and GenericSecurityCheck with its   *)
(* generator and its matcher), the runners that go through the chain of    *)
(* checks for each page, and the metadata of the data store that timing    *)
(* rules use.                                                              *)
(*                                                                         *)
(* The HTTP client accepts and answers everything here, in any order; Scan *)
(* has the same runners with a client that is disabled and loses answers.  *)
(***************************************************************************)
EXTENDS Matching, Generator, FiniteSetsExt

CONSTANTS
  Scenarios,     \* records [tests, pages]: the configuration, and the
                 \* pages as [url, origin, form]
  Symbol,        \* what texts are made of
  Answers,       \* records [response, time]: what a server may answer
  Measurements,  \* --response_time_measurements
  Threshold      \* --response_time_threshold_ms

\* The messages of the configuration files and of http_request.proto.
Text == Seq(Symbol)
RequestField ==
  [name : Text, has_value : BOOLEAN, value : Text, modified : BOOLEAN]
HeaderField == [line : {"header"}, name : Text, value : Text]
PayloadTarget == [type : STRING, names : SUBSET Text, last_field_only : BOOLEAN]
GeneratorRule ==
  [target : Seq(PayloadTarget), method : Seq(STRING), encoding : Seq(STRING),
   payload : Seq(Text)]
MatchRule ==
  [method : STRING, value : Seq(Text), case_insensitive : BOOLEAN, negative : BOOLEAN,
   min : Nat, max : Nat]
Condition == [target : STRING, field : Text, match : Seq(MatchRule)]
SecurityTest ==
  [has_generator_rule : BOOLEAN, generator : GeneratorRule, serial : BOOLEAN,
   has_matching_rule : BOOLEAN, matching : SUBSET Condition]

\* What the code itself writes into a text.
ASSUME SymbolAssumption ==
  /\ {"/", "=", "&", "?", "%", "User-Agent", "Plusfish"} \subseteq Symbol
  /\ \A c \in DOMAIN Entity : Entity[c] \in Symbol
  /\ \A c \in DOMAIN Upper : Upper[c] \in Symbol

\* With no measurement, the first runner of each page would wait for ever.
ASSUME AuditAssumption ==
  /\ Measurements \in Nat \ {0}
  /\ Threshold \in Nat
  /\ \A a \in Answers : /\ a.time \in Nat /\ a.response.ok = TRUE
                        /\ a.response.headers \in Seq(HeaderField)
                        /\ a.response.body \in Text
  /\ \A s \in Scenarios : s.tests \in Seq(SecurityTest)

VARIABLES
  pages,     \* id -> the crawled request
  checks,    \* checks_ of the selective auditor
  meta,      \* request_meta_: id -> average application time
  runners,   \* id -> the runner of the page
  audited,   \* ids of the pages a runner was made for
  answered,  \* [page, check, n, request]: all answered audit requests
  issues     \* [page, check, n]: what went to the issue callback

vars == <<pages, checks, meta, runners, audited, answered, issues>>

Id == DOMAIN pages
kInvalidId == 0

-----------------------------------------------------------------------------
\* url(): the text of the URL that is sent.
UrlText(proto) ==
  LET u == build_url(proto)
  IN  u.host \o u.path \o (IF u.query = NoQuery THEN <<>> ELSE <<"?">> \o u.query)

\* A Request object: its message, and its response once there is one.
NewAuditRequest(proto, parent, time) ==
  [proto |-> proto, url |-> UrlText(proto), parent_id |-> parent,
   response |-> NoResponse, time |-> time]

\* Without a matching rule a check never reports anything by itself.
ResponseTime == [serial |-> FALSE, has_matching_rule |-> FALSE]

\* AddSecurityTest: a test whose matchers cannot be prepared is left out.
UsableTest(test) == ~test.has_matching_rule \/ RuleIsValid(test.matching)

\* main: ResponseTimeCheck, and then the tests that have a generator.
Checks(tests) ==
  <<ResponseTime>> \o
  FlattenSeq([i \in DOMAIN tests |->
    IF tests[i].has_generator_rule /\ UsableTest(tests[i]) THEN <<tests[i]>> ELSE <<>>])

\* The message of a page.  The request of a form has its fields as parameters
\* of the body.
PageMessage(page) ==
  FoldLeft(LAMBDA req, f : SetPostParameter(req, f.name, f.value, FALSE),
           ParseUrl(page.url, page.origin), page.form)

\* A page is crawled before it is audited, so it has a response and a time.
CrawledPage(page, answer) ==
  [NewAuditRequest(PageMessage(page), kInvalidId, answer.time)
     EXCEPT !.response = answer.response]

\* Ids are valid, and only pages with a valid URL are stored.  Their messages have a
\* user agent and no field that was changed.
ASSUME PagesAssumption ==
  \A s \in Scenarios :
    /\ kInvalidId \notin DOMAIN s.pages
    /\ \A i \in DOMAIN s.pages :
         LET proto == PageMessage(s.pages[i])
         IN  /\ FieldType \cup {"host"} \subseteq DOMAIN proto
             /\ proto.host \in Text
             /\ \A type \in FieldType :
                  /\ proto[type] \in Seq(RequestField)
                  /\ \A k \in DOMAIN proto[type] : ~proto[type][k].modified
             /\ \E k \in DOMAIN proto.header : proto.header[k].name = <<"User-Agent">>

Init ==
  /\ \E s \in Scenarios :
       /\ checks = Checks(s.tests)
       /\ \E a \in [DOMAIN s.pages -> Answers] :
            pages = [i \in DOMAIN s.pages |-> CrawledPage(s.pages[i], a[i])]
  /\ meta = [i \in {} |-> 0]
  /\ runners = [i \in {} |-> <<>>]
  /\ audited = {} /\ answered = {} /\ issues = {}

-----------------------------------------------------------------------------
(* The security checks.                                                    *)

\* CreateRequests.  The copies have the time of the page until they have one.
CreateRequests(id, c) ==
  LET page == pages[id]
      protos == IF c = 1 THEN [i \in 1..Measurements |-> NewRequest(page.proto)]
                ELSE Generate(page.proto, checks[c].generator)
  IN  [i \in DOMAIN protos |-> NewAuditRequest(protos[i], id, page.time)]

\* EvaluateSingle of a generic check; without a matcher nothing matches.
EvaluateSingle(c, req, averages) ==
  checks[c].has_matching_rule /\ MatchSingle(checks[c].matching, req, averages)

Average(reqs) ==
  LET sum[i \in 0..Len(reqs)] == IF i = 0 THEN 0 ELSE sum[i - 1] + reqs[i].time
  IN  sum[Len(reqs)] \div Len(reqs)

Evaluate(c, reqs) ==
  IF c = 1 THEN Average(reqs) > Threshold
  ELSE checks[c].has_matching_rule /\ Match(checks[c].matching, ToSet(reqs), meta)

\* A map with a new entry.
Insert(map, key, value) ==
  [k \in DOMAIN map \cup {key} |-> IF k = key THEN value ELSE map[k]]

\* Mutant: the average is filed under the id of the measuring request.
AddRequestMetadataById(reqs) ==
  IF kInvalidId \in DOMAIN meta THEN meta ELSE Insert(meta, kInvalidId, Average(reqs))

\* DataStore::AddRequestMetadata, called by ResponseTimeCheck: the first value
\* of a page stays.
AddRequestMetadata(reqs) ==
  LET id == reqs[1].parent_id
  IN  IF id \in DOMAIN meta THEN meta ELSE Insert(meta, id, Average(reqs))

-----------------------------------------------------------------------------
(* SelectiveAuditor and SecurityCheckRunner.                               *)

\* Mutant: a check that generates nothing is run as well.
RunsAlways(id, c, averages) == ~(checks[c].serial /\ EvaluateSingle(c, pages[id], averages))

\* Run, with a client that accepts everything: FALSE if there is nothing to
\* send, or the page already tests positive.
Runs(id, c, averages) ==
  /\ c = 1 \/ CreateRequests(id, c) # <<>>
  /\ ~(checks[c].serial /\ EvaluateSingle(c, pages[id], averages))

\* ScheduleNextCheck: the first check from c on that runs.
ScheduleNextCheck(id, c, averages) ==
  LET runnable == {d \in c..Len(checks) : Runs(id, d, averages)}
  IN  IF runnable = {} THEN <<>>
      ELSE LET d == Min(runnable) IN
           <<[check |-> d, requests |-> CreateRequests(id, d),
              open |-> DOMAIN CreateRequests(id, d)]>>

ScheduleFirst(id) ==
  LET runner == ScheduleNextCheck(id, 1, meta) IN
  /\ id \notin audited
  /\ audited' = audited \cup {id}
  /\ runners' = IF runner = <<>> THEN runners ELSE Insert(runners, id, Head(runner))
  /\ UNCHANGED <<pages, checks, meta, answered, issues>>

\* The metadata after the response that finishes check c.
MetaAfter(c, reqs, finished) ==
  IF c = 1 /\ finished THEN AddRequestMetadata(reqs) ELSE meta

\* RequestCallback for request n, and FinishedCheckCb when it is the last: the
\* runner moves on, which may need the average that was set just now, or goes.
RequestCallback(id, n, answer) ==
  LET runner == runners[id]
      c == runner.check
      req == [runner.requests[n] EXCEPT !.response = answer.response, !.time = answer.time]
      reqs == [runner.requests EXCEPT ![n] = req]
      finished == runner.open = {n}
      hit == IF checks[c].serial THEN EvaluateSingle(c, req, meta) ELSE finished /\ Evaluate(c, reqs)
  IN  /\ id \in DOMAIN runners /\ n \in runner.open
      /\ UNCHANGED <<pages, checks, audited>>
      /\ meta' = MetaAfter(c, reqs, finished)
      /\ issues' = IF hit THEN issues \cup {[page |-> req.parent_id, check |-> c, n |-> n]}
                   ELSE issues
      /\ answered' = answered \cup {[page |-> id, check |-> c, n |-> n, request |-> req]}
      /\ runners' =
           IF ~finished
           THEN [runners EXCEPT ![id].requests = reqs, ![id].open = @ \ {n}]
           ELSE LET next == ScheduleNextCheck(id, c + 1, meta') IN
                [i \in DOMAIN runners \ (IF next = <<>> THEN {id} ELSE {}) |->
                   IF i = id THEN Head(next) ELSE runners[i]]

Next ==
  \/ \E id \in Id : ScheduleFirst(id)
  \/ \E id \in Id, answer \in Answers :
       /\ id \in DOMAIN runners
       /\ \E n \in runners[id].open : RequestCallback(id, n, answer)

Spec == Init /\ [][Next]_vars
-----------------------------------------------------------------------------
(* Properties.                                                             *)

Entries(id, c) == {e \in answered : e.page = id /\ e.check = c}
IsIssue(id, c, n) == [page |-> id, check |-> c, n |-> n] \in issues

\* The average of the measurements of a page, from the answers themselves.
AverageOf(entries) ==
  Average([n \in 1..Measurements |-> (CHOOSE e \in entries : e.n = n).request])
Baseline(id) == AverageOf(Entries(id, 1))

\* A condition on a header that may be missing: only its first match counts.
Mixed(test) ==
  \E c \in test.matching : \E i, j \in DOMAIN c.match :
    c.target = "RESPONSE_HEADER_VALUE" /\ c.match[i].negative # c.match[j].negative

\* What goes to the issue callback is what the rule of the check says of the
\* answers: of each of them if the check is serial; otherwise of all together,
\* when the last has come, and then an issue is due only if the page itself
\* does not satisfy the rule.  Timing rules are about the average of the same
\* page, whichever pages are audited at the same time.  The rule is read as
\* matching.proto defines it; rules with a Mixed condition are left out, since
\* the code then looks at one of its matches only.
IssuesFollowTheRules ==
  \A id \in Id, c \in DOMAIN checks :
    LET reached(e) == Satisfied(checks[c].matching, e.request, Baseline(id))
        all == Cardinality(Entries(id, c)) = Len(CreateRequests(id, c)) /\ Entries(id, c) # {}
        some == \E n \in 1..Len(CreateRequests(id, c)) : IsIssue(id, c, n)
        found == all /\ \E e \in Entries(id, c) : reached(e)
    IN  CASE c = 1 -> some <=> all /\ Baseline(id) > Threshold
          [] c > 1 /\ ~checks[c].has_matching_rule -> ~some
          [] c > 1 /\ checks[c].has_matching_rule /\ ~Mixed(checks[c]) ->
               IF checks[c].serial
               THEN \A e \in Entries(id, c) : IsIssue(id, c, e.n) <=> reached(e)
               ELSE /\ some => found
                    /\ found /\ ~Satisfied(checks[c].matching, pages[id], 0) => some
          [] OTHER -> TRUE

\* "Matching is first done against the original request and only if it doesn't
\* return positive; done against the responses" (CONFIGURATION.md:80-82): a
\* page that satisfies the rule of a check by itself gets no issue from it.
\* Does not hold: SecurityCheckRunner::Run looks at the page for serial checks
\* only.
PositivePagesAreNotReported ==
  \A i \in issues :
    LET test == checks[i.check] IN
    i.check > 1 /\ test.has_matching_rule /\ ~Mixed(test)
      => ~Satisfied(test.matching, pages[i.page], 0)

\* A runner always has a request to wait for; when it is gone, each check of the
\* chain was run to the end for its page, unless it had nothing to send or the
\* page tested positive before.
AuditsAreComplete ==
  /\ \A id \in DOMAIN runners : runners[id].open # {}
  /\ \A id \in audited \ DOMAIN runners : \A c \in DOMAIN checks :
       \/ Cardinality(Entries(id, c)) = Len(CreateRequests(id, c))
       \/ /\ Entries(id, c) = {}
          /\ checks[c].serial /\ checks[c].has_matching_rule
          /\ Mixed(checks[c]) \/ Satisfied(checks[c].matching, pages[id], 0)

SameField(f, g) == f.name = g.name /\ f.value = g.value /\ f.has_value = g.has_value

\* "?b" has become "?b=".
GainsEmptyValue(f, g) ==
  f.name = g.name /\ f.value = g.value /\ f.has_value /\ ~g.has_value

\* The fields that req has a payload in, as <<type, position, value>>.
Payloads(req) ==
  UNION {{<<type, i, req.proto[type][i].value>> :
            i \in {k \in DOMAIN req.proto[type] : req.proto[type][k].modified}} :
         type \in FieldType}

\* All its other fields are those of the page, but that a parameter without a
\* value may have got an empty one.
RestIsKept(id, req) ==
  \A type \in FieldType :
    /\ DOMAIN req.proto[type] = DOMAIN pages[id].proto[type]
    /\ \A k \in DOMAIN req.proto[type] :
         LET f == req.proto[type][k]
             g == pages[id].proto[type][k]
         IN  (f.modified /\ f.name = g.name) \/ SameField(f, g) \/ GainsEmptyValue(f, g)

\* The fields of one kind that target names.
Targeted(id, target) ==
  LET fields == pages[id].proto[target.type]
  IN  {i \in DOMAIN fields :
         IF target.last_field_only THEN i = Len(fields)
         ELSE target.names = {} \/ fields[i].name \in target.names}

\* All the payloads of a rule for a page.
Injections(id, rule) ==
  UNION {{<<target.type, i,
            GeneratePayloadString(pages[id].proto[target.type][i].value, p, m, e)>> :
            i \in Targeted(id, target), p \in ToSet(rule.payload),
            m \in ToSet(rule.method), e \in ToSet(rule.encoding)} :
         target \in {t \in ToSet(rule.target) : t.type \in FieldType}}

\* Those that generator.proto calls for: to append to no value is a no-op.
RequiredInjections(id, rule) ==
  {z \in Injections(id, rule) :
     LET original == pages[id].proto[z[1]][z[2]].value IN
     \E p \in ToSet(rule.payload), m \in ToSet(rule.method), e \in ToSet(rule.encoding) :
       /\ z[3] = GeneratePayloadString(original, p, m, e)
       /\ m = "APPEND_TO_VALUE" => original # <<>>}

\* Every request of a generic check has one payload in one field, which keeps its
\* name, and all its other fields say what those of the page say, although all
\* requests are made from one message that is changed and restored; between
\* them they have all the payloads that generator.proto calls for, and none
\* that no combination of target, payload, method and encoding gives.
InjectionsAreExact ==
  \A id \in DOMAIN runners :
    LET rule == checks[runners[id].check].generator
        reqs == runners[id].requests
        payloads == [n \in DOMAIN reqs |-> Payloads(reqs[n])]
    IN  /\ \A n \in DOMAIN reqs : RestIsKept(id, reqs[n])
        /\ IF runners[id].check = 1 THEN \A n \in DOMAIN reqs : payloads[n] = {}
           ELSE /\ \A n \in DOMAIN reqs : Cardinality(payloads[n]) = 1
                /\ RequiredInjections(id, rule) \subseteq UNION Range(payloads)
                /\ UNION Range(payloads) \subseteq Injections(id, rule)

\* "Copy the original value so we can restore the field to it's original state
\* later on" (generic_generator.cc:142-143): all fields but the one with the
\* payload are those of the page.  Does not hold: set_value makes has_value true
\* for good, so that "?b&a" is sent as "?b=&a=payload".
OtherFieldsAreRestored ==
  \A id \in DOMAIN runners : \A n \in DOMAIN runners[id].requests :
    \A type \in FieldType : \A k \in DOMAIN pages[id].proto[type] :
      LET f == runners[id].requests[n].proto[type][k] IN
      f.modified \/ SameField(f, pages[id].proto[type][k])

\* "Append to the existing value. When no value exists, this will be a no-op"
\* (generator.proto:54-55).  Does not hold: GeneratePayloadString appends to the
\* empty string and the request is sent.
AppendNeedsAValue ==
  \A id \in DOMAIN runners : runners[id].check > 1 =>
    \A n \in DOMAIN runners[id].requests :
      Payloads(runners[id].requests[n])
        \subseteq RequiredInjections(id, checks[runners[id].check].generator)

\* The URL that is sent for a page says what the URL it was made from says, but
\* for repeated slashes and for parameters with two equal signs; read again, it
\* gives the stored request.
UrlsAreStable ==
  \A id \in Id :
    LET proto == pages[id].proto
        raw == proto.raw_url
        url == build_url(proto)
        again == ParseUrl(url, InvalidUrl)
        Slash(path) == path # <<>> /\ Last(path) = "/"
        Names(path) == SelectSeq(path, LAMBDA c : c # "/")
    IN  /\ again = [proto EXCEPT !.raw_url = url, !.method = again.method, !.body_param = <<>>]
        /\ Names(url.path) = Names(raw.path) /\ (Slash(url.path) <=> Slash(raw.path))
        /\ \/ url.query = raw.query
           \/ \E i, j \in DOMAIN raw.query :
                i < j /\ raw.query[i] = "=" /\ raw.query[j] = "="
=============================================================================
