------------------------------ MODULE Matching ------------------------------
(***************************************************************************)
(* The response matchers: GenericResponseMatcher, ConditionMatcher and the *)
(* five kinds of matchers that MatcherFactory makes.                       *)
(*                                                                         *)
(* A text is a sequence of symbols; the symbols of Upper have a lower case *)
(* form, and Nul ends a text for the functions of <string.h>.  A match     *)
(* rule is a set of conditions [target, field, match], where match is a    *)
(* sequence of records [method, value, case_insensitive, negative, min,    *)
(* max].  The values of a rule come from a configuration file and have no  *)
(* Nul.  A request is a record with the fields url, parent_id, response    *)
(* and time, the client_time_application_usec in ms.                       *)
(***************************************************************************)
EXTENDS Response

Nul == "\\0"
Upper == [A |-> "a", B |-> "b"]
BadRegex == <<"(">>

\* c_str(): what the functions of <string.h> see of a text.
CString(s) ==
  LET end == SelectInSeq(s, LAMBDA c : c = Nul)
  IN  IF end = 0 THEN s ELSE SubSeq(s, 1, end - 1)

Lower(s) == [i \in DOMAIN s |-> IF s[i] \in DOMAIN Upper THEN Upper[s[i]] ELSE s[i]]

\* The texts that a matcher compares: in lower case if the case is ignored.
Folded(match, s) == IF match.case_insensitive THEN Lower(s) ELSE s

Find(s, part) == \E i \in 1..(Len(s) + 1) : StartsAt(s, i, part)

-----------------------------------------------------------------------------
(* MatcherInterface: Prepare and MatchAny of each matcher.                 *)

StringMethod == {"CONTAINS", "EQUALS", "PREFIX"}
Method == StringMethod \cup {"REGEX", "TIMING", "NONE"}

\* FALSE also for MatchRule_Method_NONE, for which there is no matcher.
Prepare(match) ==
  CASE match.method \in StringMethod -> match.value # <<>>
    [] match.method = "REGEX"        -> ~Contains(match.value, BadRegex)
    [] match.method = "TIMING"       -> match.min < match.max
    [] OTHER                         -> FALSE

\* RE2::PartialMatch, for expressions that are plain texts.
PartialMatch(s, re) == Find(s, re)

\* TimingMatcher: the bounds are shifted by the average of the parent of the
\* request.  meta holds AVERAGE_APPLICATION_TIME_USEC, in ms, by request id.
TimingMatchAny(match, req, meta) ==
  LET average == IF req.parent_id \in DOMAIN meta THEN meta[req.parent_id] ELSE 0
  IN  match.min + average < req.time /\ req.time < match.max + average

MatchSingleValue(match, value, content) ==
  LET v == Folded(match, value)
      c == Folded(match, CString(content))
  IN  CASE match.method = "CONTAINS" -> Find(c, v)
        [] match.method = "EQUALS"   -> c = v
        [] match.method = "PREFIX"   -> IsPrefix(v, c)
        [] match.method = "REGEX"    -> PartialMatch(Folded(match, content), v)

MatchAny(match, req, content, meta) ==
  IF match.method = "TIMING" THEN TimingMatchAny(match, req, meta)
  ELSE \E i \in DOMAIN match.value : MatchSingleValue(match, match.value[i], content)

-----------------------------------------------------------------------------
(* GenericResponseMatcher.                                                 *)

\* Init: a rule is used only if all of its matchers can be prepared.
RuleIsValid(rule) == \A c \in rule : \A i \in DOMAIN c.match : Prepare(c.match[i])

NoText == [missing |-> TRUE]
Present(s) == [missing |-> FALSE, text |-> s]

\* ConditionMatcher::Match.  The first matcher decides about a missing text.
ConditionMatch(match, req, content, meta) ==
  IF content.missing THEN match = <<>> \/ match[1].negative
  ELSE \A i \in DOMAIN match : MatchAny(match[i], req, content.text, meta) # match[i].negative

\* The text that a condition looks at.
SearchString(condition, req) ==
  CASE condition.target = "RESPONSE_BODY" -> Present(req.response.body)
    [] condition.target = "REQUEST_URL"   -> Present(req.url)
    [] condition.target = "RESPONSE_HEADER_VALUE" ->
         LET h == GetHeader(req.response.headers, condition.field)
         IN  IF h = NoHeader THEN NoText ELSE Present(h.value)

ImplementedTarget == {"RESPONSE_BODY", "REQUEST_URL", "RESPONSE_HEADER_VALUE"}

MatchSingle(rule, req, meta) ==
  /\ req.response.ok
  /\ \A c \in rule :
       /\ c.target \in ImplementedTarget
       /\ ConditionMatch(c.match, req, SearchString(c, req), meta)

Match(rule, reqs, meta) == \E r \in reqs : MatchSingle(rule, r, meta)

-----------------------------------------------------------------------------
(* What matching.proto says of a rule: the conditions, and the matches of  *)
(* a condition, are a conjunction, the values of a match a disjunction;    *)
(* nothing can be found in a text that is not there.                       *)

Occurs(match, req, text, average) ==
  IF match.method = "TIMING"
  THEN req.time - average > match.min /\ req.time - average < match.max
  ELSE LET whole == Folded(match, text.text)
           c == IF match.method = "REGEX" THEN whole ELSE CString(whole)
       IN  \E i \in DOMAIN match.value :
             LET v == Folded(match, match.value[i]) IN
             \E from \in 1..(Len(c) + 1) :
               /\ StartsAt(c, from, v)
               /\ match.method \in {"PREFIX", "EQUALS"} => from = 1
               /\ match.method = "EQUALS" => Len(v) = Len(c)

Satisfied(rule, req, average) ==
  req.response.ok /\
  \A c \in rule :
    /\ c.target \in ImplementedTarget
    /\ LET text == SearchString(c, req) IN
       \A i \in DOMAIN c.match :
         (~text.missing /\ Occurs(c.match[i], req, text, average)) # c.match[i].negative
=============================================================================
