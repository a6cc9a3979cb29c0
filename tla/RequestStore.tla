---------------------------- MODULE RequestStore ----------------------------
(***************************************************************************)
(* The requests of DataStore: which are let in, the tree of pivots they    *)
(* are filed under, the limits of a pivot, the ids, and the probe queue    *)
(* from which Plusfish::Run takes them.                                    *)
(*                                                                         *)
(* A request is what Request::Equals and the pivots look at: its host, the *)
(* path segments, a tag for what is compared exactly (scheme, method and   *)
(* port), the names of its query and body parameters in order, and whether *)
(* its URL is valid.  A regex is the set of the requests whose URL it      *)
(* matches.                                                                *)
(***************************************************************************)
EXTENDS Naturals, FiniteSets, Sequences, SequencesExt

CONSTANTS
  Request,        \* [host, path, tag, params, body, valid]
  Whitelist,      \* url_whitelist_regexes_, set before the first request
  Blacklist,      \* url_blacklist_regexes_
  ChildLimit,     \* --pivot_child_limit
  RequestLimit,   \* --pivot_request_limit
  MaxRequests     \* bound on the requests stored

ASSUME RequestStoreAssumption ==
  /\ \A r \in Request :
       /\ r.host \in STRING /\ r.path \in Seq(STRING)
       /\ r.params \in Seq(STRING) /\ r.body \in Seq(STRING)
  /\ Whitelist \subseteq SUBSET Request
  /\ Blacklist \subseteq SUBSET Request
  /\ ChildLimit \in Nat
  /\ RequestLimit \in Nat
  /\ MaxRequests \in Nat

\* A pivot is known by the host and the path segments that lead to it.
Full(r) == <<r.host>> \o r.path
Chain(r) == {SubSeq(Full(r), 1, k) : k \in 1..Len(Full(r))}
Path == UNION {Chain(r) : r \in Request}

VARIABLES
  allowed_hosts,
  pivots,          \* the pivots below site_pivots_
  req_samples,     \* Pivot::req_samples_, as ids
  requests_by_id,  \* ids are the positions in this sequence
  probe_queue,     \* ids
  offered          \* history: requests given to AddRequest, their host allowed

storeVars == <<pivots, req_samples, requests_by_id, probe_queue>>
vars == <<allowed_hosts, storeVars, offered>>

Init ==
  /\ allowed_hosts = {}
  /\ pivots = {}
  /\ req_samples = [p \in Path |-> <<>>]
  /\ requests_by_id = <<>>
  /\ probe_queue = <<>>
  /\ offered = {}

-----------------------------------------------------------------------------
Names(s) == ToSet(s)

FieldNamesEqual(one, two) ==
  /\ Len(one) = Len(two)
  /\ Cardinality(Names(one) \cup Names(two)) = Len(one)

SameResource(r, s) == r.tag = s.tag /\ r.host = s.host /\ r.path = s.path

\* Mutant: the parameters in the body are not compared.
EqualsNoBody(r, s) == SameResource(r, s) /\ FieldNamesEqual(r.params, s.params)

\* Request::Equals.
Equals(r, s) ==
  /\ SameResource(r, s)
  /\ FieldNamesEqual(r.params, s.params)
  /\ FieldNamesEqual(r.body, s.body)

\* The rejections at the start of AddRequest.
InScope(hosts, r) ==
  /\ r.host \in hosts
  /\ \A regex \in Whitelist : r \in regex
  /\ \A regex \in Blacklist : r \notin regex
  /\ r.valid

Children(p) == {q \in pivots : Len(q) = Len(p) + 1 /\ IsPrefix(p, q)}

\* The deepest pivot on the way to r, once there is one for the host.
Deepest(r) ==
  LET depth == Cardinality(Chain(r) \cap pivots)
  IN  SubSeq(Full(r), 1, IF depth = 0 THEN 1 ELSE depth)

\* Mutant: compared with > instead of >=.
FitsOneMore(r) ==
  Full(r) \in pivots \/ Cardinality(Children(Deepest(r))) <= ChildLimit

\* Pivot::AddChildPivot refuses a child at most once on the way: the pivots
\* below the first missing one are new and have no children.
Fits(r) ==
  \/ Full(r) = Deepest(r)
  \/ Cardinality(Children(Deepest(r))) < ChildLimit

\* The walk down the tree in AddRequestToPivot.  A new host pivot stays even
\* if nothing fits below it.
FileUnder(r) ==
  pivots' = pivots \cup {<<r.host>>} \cup IF Fits(r) THEN Chain(r) ELSE {}

\* Mutant: the request is not compared with the samples.
PivotAcceptsRepeats(r) == Len(req_samples[Full(r)]) < RequestLimit

\* Pivot::AddRequest.
PivotAccepts(r) ==
  LET samples == req_samples[Full(r)] IN
  /\ Len(samples) < RequestLimit
  /\ \A i \in ToSet(samples) : ~Equals(requests_by_id[i], r)

\* Mutant: new requests are put in front of the queue.
StoreInFront(r) ==
  LET id == Len(requests_by_id) + 1 IN
  IF Fits(r) /\ PivotAccepts(r)
  THEN /\ req_samples' = [req_samples EXCEPT ![Full(r)] = Append(@, id)]
       /\ requests_by_id' = Append(requests_by_id, r)
       /\ probe_queue' = <<id>> \o probe_queue
  ELSE UNCHANGED <<req_samples, requests_by_id, probe_queue>>

\* The pivot keeps the request; AddRequestToIdMap gives it the next id and
\* queues it for probing.
Store(r) ==
  LET id == Len(requests_by_id) + 1 IN
  IF Fits(r) /\ PivotAccepts(r)
  THEN /\ req_samples' = [req_samples EXCEPT ![Full(r)] = Append(@, id)]
       /\ requests_by_id' = Append(requests_by_id, r)
       /\ probe_queue' = Append(probe_queue, id)
  ELSE UNCHANGED <<req_samples, requests_by_id, probe_queue>>

\* DataStore::AddRequest with the given hosts allowed.
Add(hosts, r) ==
  /\ Len(requests_by_id) < MaxRequests
  /\ IF InScope(hosts, r)
     THEN FileUnder(r) /\ Store(r)
     ELSE UNCHANGED storeVars
  /\ offered' = offered \cup {s \in {r} : s.host \in hosts}

\* Plusfish::AddURL: the host of a URL of the command line is allowed first.
\* A URL that is not valid ends the program.
AddURL(r) ==
  /\ r.valid
  /\ allowed_hosts' = allowed_hosts \cup {r.host}
  /\ Add(allowed_hosts', r)

\* A link, a form, a hidden object or a request from a file.
AddRequest(r) ==
  /\ Add(allowed_hosts, r)
  /\ UNCHANGED allowed_hosts

GetRequestFromProbeQueue ==
  /\ probe_queue # <<>>
  /\ probe_queue' = Tail(probe_queue)
  /\ UNCHANGED <<allowed_hosts, pivots, req_samples, requests_by_id, offered>>

Next ==
  \/ \E r \in Request : AddURL(r)
  \/ \E r \in Request : AddRequest(r)
  \/ GetRequestFromProbeQueue

Spec == Init /\ [][Next]_vars

-----------------------------------------------------------------------------
Id == 1..Len(requests_by_id)

TypeOK ==
  /\ allowed_hosts \subseteq {r.host : r \in Request}
  /\ pivots \subseteq Path
  /\ requests_by_id \in Seq(Request)
  /\ req_samples \in [Path -> Seq(Id)]
  /\ probe_queue \in Seq(Id)
  /\ offered \subseteq Request

\* --pivot_child_limit and --pivot_request_limit hold for every pivot of the
\* tree, also when a request creates several pivots at once.
PivotLimitsHold ==
  /\ \A p \in pivots : Cardinality(Children(p)) <= ChildLimit
  /\ \A p \in Path : Len(req_samples[p]) <= RequestLimit

\* Each stored request is handed to Plusfish::Run once, in the order of ids:
\* the queue is always the ids that have not been handed out.
ProbedOnceInOrder ==
  \A k \in DOMAIN probe_queue :
    probe_queue[k] = Len(requests_by_id) - Len(probe_queue) + k

\* Two requests ask for the same thing, whatever the values of parameters and
\* their order: the comments on Request::Equals and FieldNamesEqual.
SameRequest(r, s) ==
  /\ SameResource(r, s)
  /\ Names(r.params) = Names(s.params)
  /\ Names(r.body) = Names(s.body)

RepeatsNone(r) == IsInjective(r.params) /\ IsInjective(r.body)

\* Requests that repeat no name are stored once each, in whatever order their
\* parameters come and whatever was stored and refused before.  (A request that
\* repeats a name may be stored again: NoRequestTwice.)
NoEqualRequests ==
  \A i, j \in Id :
    /\ i # j
    /\ RepeatsNone(requests_by_id[i]) /\ RepeatsNone(requests_by_id[j])
    => ~SameRequest(requests_by_id[i], requests_by_id[j])

Stored(r) == \E i \in Id : SameRequest(requests_by_id[i], r)

\* The limits of the tree leave no place for r.
NoPlace(r) ==
  \/ Len(req_samples[Full(r)]) >= RequestLimit
  \/ \E k \in 1..Len(Full(r)) - 1 :
       /\ SubSeq(Full(r), 1, k + 1) \notin pivots
       /\ Cardinality(Children(SubSeq(Full(r), 1, k))) >= ChildLimit

\* A request with a repeated name is or was in the way: FieldNamesEqual counts.
Confused(r) ==
  \E i \in Id :
    /\ SameResource(requests_by_id[i], r)
    /\ ~RepeatsNone(requests_by_id[i]) \/ ~RepeatsNone(r)

Excluded(r) == ~r.valid \/ \E regex \in Blacklist : r \in regex

\* What AddRequest was called with, once its host was allowed, is scanned: it
\* is left out only if the regexes exclude it, if the same request is stored,
\* if a limit of the tree was reached, or if repeated names are in play.
OfferedRequestsAreStored ==
  \A r \in offered :
    \/ Excluded(r) \/ \E regex \in Whitelist : r \notin regex
    \/ Stored(r) \/ NoPlace(r) \/ Confused(r)

\* request.h on Request::Equals: "A request is equal when the URL, minus
\* parameter values, matches."  So no request is stored twice.  Does not hold:
\* one that repeats a name is not equal to itself.
NoRequestTwice ==
  \A i, j \in Id : i # j => requests_by_id[i] # requests_by_id[j]

\* request.cc on FieldNamesEqual: equal fields are those with the exact same
\* set of names.  So a request with other names is not left out.  Does not hold:
\* "x, x" and "x, y" have two names between them, and two fields each.
OtherNamesAreStored ==
  \A r \in offered :
    \/ Excluded(r) \/ \E regex \in Whitelist : r \notin regex
    \/ Stored(r) \/ NoPlace(r)

\* datastore.h on AddWhitelistRegex: "Whitelist all URLs that match this regex.
\* If one or more whitelist URLs are set; all other (non-matching) URLs are
\* implicitly blacklisted."  So a URL that one of the regexes matches is let in.
\* Does not hold: it has to match all of them.
IncludedUrlsAreStored ==
  \A r \in offered :
    \/ Excluded(r) \/ \A regex \in Whitelist : r \notin regex
    \/ Stored(r) \/ NoPlace(r) \/ Confused(r)
=============================================================================
