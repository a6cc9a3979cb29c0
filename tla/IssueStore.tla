----------------------------- MODULE IssueStore -----------------------------
(***************************************************************************)
(* The issues of DataStore: AddIssueDetails, through which the crawler,    *)
(* the passive auditor, the check runners and the hidden objects finder    *)
(* report, its three limits, and the four pieces of state it keeps in      *)
(* step: the issues per request id, the issues of the Request object       *)
(* (which the reporters print), and the counters per check and per         *)
(* severity.                                                               *)
(***************************************************************************)
EXTENDS Naturals, FiniteSets

CONSTANTS
  Type,            \* IssueDetails::IssueType, one for each security check
  Severity,
  Detail,          \* the rest of an IssueDetails message
  MaxRequests,     \* bound on the requests of the datastore
  MaxIssuesPerUrl,         \* --max_issues_per_url
  MaxIssuesPerCheckPerUrl, \* --max_issues_per_check_per_url
  MaxIssuesPerCheck        \* --max_issues_per_check

ASSUME IssueStoreAssumption ==
  /\ MaxRequests \in Nat
  /\ MaxIssuesPerUrl \in Nat
  /\ MaxIssuesPerCheckPerUrl \in Nat
  /\ MaxIssuesPerCheck \in Nat

Id == 1..MaxRequests
Issue == [type : Type, severity : Severity, detail : Detail]

VARIABLES
  request_id,               \* the last id given to a request
  issue_per_id,             \* DataStore::issue_per_id_
  request_issues,           \* Request::issues_ of the request with each id
  check_issue_counters,     \* 0: the check has no counter yet
  issue_count_per_severity

vars == <<request_id, issue_per_id, request_issues, check_issue_counters,
          issue_count_per_severity>>

\* Mutant: the constructor leaves the severity counters out.
InitWithoutSeverities ==
  /\ request_id = 0
  /\ issue_per_id = [id \in Id |-> {}]
  /\ request_issues = [id \in Id |-> {}]
  /\ check_issue_counters = [t \in Type |-> 0]
  /\ issue_count_per_severity = [s \in {} |-> 0]

Init ==
  /\ request_id = 0
  /\ issue_per_id = [id \in Id |-> {}]
  /\ request_issues = [id \in Id |-> {}]
  /\ check_issue_counters = [t \in Type |-> 0]
  /\ issue_count_per_severity = [s \in Severity |-> 0]

OfType(S, t) == {i \in S : i.type = t}
Types(S) == {i.type : i \in S}

AddRequestToIdMap ==
  /\ request_id < MaxRequests
  /\ request_id' = request_id + 1
  /\ UNCHANGED <<issue_per_id, request_issues, check_issue_counters,
                 issue_count_per_severity>>

\* req->issues() is a map from issue types to sets of issues.
UrlLimitReached(id) == Cardinality(Types(request_issues[id])) = MaxIssuesPerUrl

\* Mutant: compared with > after the issue was counted by the caller.
CheckUrlLimitReachedLate(id, t) ==
  Cardinality(OfType(issue_per_id[id], t)) > MaxIssuesPerCheckPerUrl

\* Looked at only when the request has an issue already.
CheckUrlLimitReached(id, t) ==
  /\ issue_per_id[id] # {}
  /\ Cardinality(OfType(issue_per_id[id], t)) = MaxIssuesPerCheckPerUrl

\* CheckAndUpdateIssueCounters refuses: never the first issue of a check.
CheckLimitReached(t) ==
  /\ check_issue_counters[t] # 0
  /\ check_issue_counters[t] = MaxIssuesPerCheck

Accepted(id, i) ==
  /\ id <= request_id
  /\ ~UrlLimitReached(id)
  /\ i \notin issue_per_id[id]
  /\ ~CheckUrlLimitReached(id, i.type)
  /\ ~CheckLimitReached(i.type)

\* Mutant: the counters are updated before duplicates and limits are looked at.
AddIssueDetailsCountFirst(id, i) ==
  /\ check_issue_counters' =
       IF CheckLimitReached(i.type) THEN check_issue_counters
       ELSE [check_issue_counters EXCEPT ![i.type] = @ + 1]
  /\ IF Accepted(id, i)
     THEN /\ issue_count_per_severity' =
               [issue_count_per_severity EXCEPT ![i.severity] = @ + 1]
          /\ request_issues' = [request_issues EXCEPT ![id] = @ \cup {i}]
          /\ issue_per_id' = [issue_per_id EXCEPT ![id] = @ \cup {i}]
     ELSE UNCHANGED <<issue_per_id, request_issues, issue_count_per_severity>>
  /\ UNCHANGED request_id

\* Mutant: Request::AddIssue is called before the limits of the check.
AddIssueDetailsAttachFirst(id, i) ==
  /\ request_issues' =
       IF id <= request_id /\ ~UrlLimitReached(id)
       THEN [request_issues EXCEPT ![id] = @ \cup {i}] ELSE request_issues
  /\ IF Accepted(id, i)
     THEN /\ check_issue_counters' =
               [check_issue_counters EXCEPT ![i.type] = @ + 1]
          /\ issue_count_per_severity' =
               [issue_count_per_severity EXCEPT ![i.severity] = @ + 1]
          /\ issue_per_id' = [issue_per_id EXCEPT ![id] = @ \cup {i}]
     ELSE UNCHANGED <<issue_per_id, check_issue_counters,
                      issue_count_per_severity>>
  /\ UNCHANGED request_id

\* The id may be one that no request has: it can come from a response, out of
\* an injected tag.
AddIssueDetails(id, i) ==
  /\ IF Accepted(id, i)
     THEN /\ check_issue_counters' =
               [check_issue_counters EXCEPT ![i.type] = @ + 1]
          /\ issue_count_per_severity' =
               [issue_count_per_severity EXCEPT ![i.severity] = @ + 1]
          /\ request_issues' = [request_issues EXCEPT ![id] = @ \cup {i}]
          /\ issue_per_id' = [issue_per_id EXCEPT ![id] = @ \cup {i}]
     ELSE UNCHANGED <<issue_per_id, request_issues, check_issue_counters,
                      issue_count_per_severity>>
  /\ UNCHANGED request_id

Next ==
  \/ AddRequestToIdMap
  \/ \E id \in Id, i \in Issue : AddIssueDetails(id, i)

Spec == Init /\ [][Next]_vars

-----------------------------------------------------------------------------
TypeOK ==
  /\ request_id \in 0..MaxRequests
  /\ issue_per_id \in [Id -> SUBSET Issue]
  /\ request_issues \in [Id -> SUBSET Issue]
  /\ check_issue_counters \in [Type -> Nat]
  /\ issue_count_per_severity \in [Severity -> Nat]

\* The issues stored for all requests, of one type and of one severity.
StoredOfType(t) ==
  {p \in Id \X Issue : p[2] \in issue_per_id[p[1]] /\ p[2].type = t}
StoredOfSeverity(s) ==
  {p \in Id \X Issue : p[2] \in issue_per_id[p[1]] /\ p[2].severity = s}

\* However many issues were discarded in between, the counter of each check is
\* the number of its issues that were stored, and so is the counter of each
\* severity that the console prints.
CountersMatchIssues ==
  /\ \A t \in Type : check_issue_counters[t] = Cardinality(StoredOfType(t))
  /\ \A s \in Severity :
       issue_count_per_severity[s] = Cardinality(StoredOfSeverity(s))

\* The reporters read the issues from the Request objects, which hold raw
\* pointers to what issue_per_id_ owns: both have the same issues, and only
\* requests that exist have any.
ReportedIssuesAreStored ==
  \A id \in Id :
    /\ request_issues[id] = issue_per_id[id]
    /\ issue_per_id[id] # {} => id <= request_id

\* The issues of one check for one URL, those of one check over all requests
\* ("Limit the total amount of issues a single security check can report in a
\* single scan", says the flag), and the types of issues of one URL, which is
\* what --max_issues_per_url limits in the code.
CheckUrlLimitHolds ==
  \A id \in Id, t \in Type :
    Cardinality(OfType(issue_per_id[id], t)) <= MaxIssuesPerCheckPerUrl
CheckLimitHolds ==
  \A t \in Type : Cardinality(StoredOfType(t)) <= MaxIssuesPerCheck
UrlTypeLimitHolds ==
  \A id \in Id : Cardinality(Types(issue_per_id[id])) <= MaxIssuesPerUrl

\* AddIssueDetails compares counts with the three limits for equality, each
\* count kept in another place, and still none is ever exceeded.  This is less
\* than the flags promise: the limits of a check are not looked at before its
\* first issue, so that 0 means no limit, and the limit of a URL holds for the
\* types of its issues and not for the issues (UrlIssueLimitHolds).
IssueLimitsHold ==
  /\ MaxIssuesPerCheckPerUrl > 0 => CheckUrlLimitHolds
  /\ MaxIssuesPerCheck > 0 => CheckLimitHolds
  /\ UrlTypeLimitHolds

\* The flag --max_issues_per_url: "Limit the total amount of issues per URL."
\* Does not hold: the code compares the limit with the size of a map from types
\* to sets of issues.
UrlIssueLimitHolds ==
  \A id \in Id : Cardinality(issue_per_id[id]) <= MaxIssuesPerUrl
=============================================================================
