----------------------------- MODULE ScanProofs -----------------------------
(***************************************************************************)
(* The safety of a scan for any site, any chain of checks, any number of   *)
(* audit slots and any interleaving with signals and time limits.          *)
(***************************************************************************)
EXTENDS Scan, FiniteSetTheorems, TLAPS

Contract == INSTANCE HttpClientContractProofs WITH enabled <- client_enabled

Queued == Contract!Queued

(***************************************************************************)
(* The inductive invariant.  An audit of u goes on while a runner for u is *)
(* in the list, and while the main thread is about to schedule a check.    *)
(***************************************************************************)
AuditStep == {"create", "schedule", "next"}
AtWork(u) == u = current /\ pc \in AuditStep
Auditing(u) == u \in runners \/ AtWork(u)

Handled(u) == {r \in Requests(u, check[u]) : fate[r] = "handled"}

\* A runner in the list that is not at work has sent all its requests, and
\* waits for at least one of them.
RunnersInv ==
  \A u \in runners : ~AtWork(u) =>
    /\ completed[u] = Cardinality(Handled(u))
    /\ completed[u] < Generated[u][check[u]]
    /\ \A r \in Requests(u, check[u]) : fate[r] # "new"

\* The check at work.  Nothing is in flight while it is being scheduled.
AtWorkInv ==
  /\ pc = "probing" => n >= 1
  /\ pc \in {"create", "schedule"} => completed[current] = 0
  /\ pc = "create" => \A r \in Requests(current, check[current]) : fate[r] = "new"
  /\ pc = "schedule" =>
       /\ Generated[current][check[current]] > 0
       /\ n \in 1..(Generated[current][check[current]] + 1)
       /\ \A r \in Requests(current, check[current]) :
            /\ r.n < n => fate[r] \in {"accepted", "rejected"} /\ r \notin inflight
            /\ r.n >= n => fate[r] = "new"
  /\ pc = "next" =>
       \A r \in Requests(current, check[current]) :
         r \notin inflight /\ (client_enabled => r \notin Queued)

\* Audit requests are in flight only for the check that their runner runs, and
\* queued for another one only if the client will not start them any more.
SentInv ==
  \A r \in AuditRequest :
    /\ r \in inflight => r.url \in runners /\ check[r.url] = r.check
    /\ r \in Queued /\ (client_enabled \/ pc = "launch") =>
         Auditing(r.url) /\ check[r.url] = r.check

\* Each URL is audited once: after it was crawled, check by check.
ChainInv ==
  /\ \A i, j \in DOMAIN audit_queue : audit_queue[i] = audit_queue[j] => i = j
  /\ \A u \in ToSet(audit_queue) : fate[Crawl(u)] = "handled" /\ ~Auditing(u)
  /\ \A u \in Url : Auditing(u) => fate[Crawl(u)] = "handled"
  /\ \A r \in AuditRequest :
       \/ fate[Crawl(r.url)] # "handled"
       \/ r.url \in ToSet(audit_queue)
       \/ r.check > check[r.url]
       => fate[r] = "new"

\* What is freed is not used again.
FreedInv ==
  /\ \A u \in Url : Crawl(u) \notin freed
  /\ \A r \in freed : r.kind = "probe" => fate[r] \in {"handled", "rejected"}
  /\ \A r \in freed \cap AuditRequest :
       /\ fate[Crawl(r.url)] = "handled" /\ r.url \notin ToSet(audit_queue)
       /\ r.check < check[r.url] \/ ~Auditing(r.url)

\* No URL is lost on its way through the queues.
SeenInv ==
  /\ current \in seen \cup {NoUrl}
  /\ \A u \in Url \ seen : fate[Crawl(u)] = "new"
  /\ \A u \in seen :
       \/ fate[Crawl(u)] # "new"
       \/ u \in ToSet(probe_queue) \cup ToSet(crawl_queue)
       \/ u = current /\ pc \in {"probing", "probed"}

\* Where the loop has passed a stage, it has scheduled something if it could.
Passed ==
  \/ pc \in {"audit", "keep", "limit", "grace"}
  \/ pc \in AuditStep /\ current \notin runners

Nothing == client_enabled /\ schedule_queue = <<>>

LoopInv ==
  /\ ~scan_enabled \/ pc = "extend" => ~client_enabled
  /\ pc \in {"done", "limit", "grace", "extend"} => current = NoUrl
  /\ pc = "crawl" /\ crawl_queue = <<>> => probe_queue = <<>>
  /\ Passed /\ Nothing => probe_queue = <<>> /\ crawl_queue = <<>>
  /\ pc \in AuditStep /\ current \notin runners /\ Nothing =>
       check[current] = 1 /\ (pc = "create" \/ (pc = "schedule" /\ n = 1))
  /\ pc \in {"keep", "limit", "grace"} /\ Nothing =>
       audit_queue = <<>> \/ ~AuditSlotFree
  /\ pc = "done" /\ client_enabled =>
       /\ inflight = {} /\ schedule_queue = <<>>
       /\ probe_queue = <<>> /\ crawl_queue = <<>>
       /\ audit_queue = <<>> \/ ~AuditSlotFree

IInv ==
  /\ TypeOK
  /\ Contract!ContractInv
  /\ RunnersInv
  /\ AtWorkInv
  /\ SentInv
  /\ ChainInv
  /\ FreedInv
  /\ SeenInv
  /\ LoopInv
-----------------------------------------------------------------------------
(* The requests of a scan, as records.                                     *)

\* Every request has its kind and belongs to a URL; the three kinds are disjoint.
LEMMA RequestFacts ==
  /\ \A u \in Url : Crawl(u) \in Request /\ Crawl(u).kind = "crawl" /\ Crawl(u).url = u
  /\ \A u \in Url, i \in 1..NumProbes :
       Probe(u, i) \in Request /\ Probe(u, i).kind = "probe"
  /\ AuditRequest \subseteq Request
  /\ \A r \in Request : /\ r.url \in Url
                        /\ r.kind = "crawl" => r = Crawl(r.url)
                        /\ r.kind = "audit" <=> r \in AuditRequest
<1>1. \A u \in Url : Crawl(u) \in Request /\ Crawl(u).kind = "crawl" /\ Crawl(u).url = u
  BY DEF Crawl, Request
<1>2. \A u \in Url, i \in 1..NumProbes :
        Probe(u, i) \in Request /\ Probe(u, i).kind = "probe"
  BY DEF Probe, Request
<1>3. AuditRequest \subseteq Request
  BY DEF Request
<1>4. ASSUME NEW r \in Request
      PROVE  /\ r.url \in Url
             /\ r.kind = "crawl" => r = Crawl(r.url)
             /\ r.kind = "audit" <=> r \in AuditRequest
  <2>1. CASE r \in {Crawl(u) : u \in Url}
    BY <2>1 DEF Crawl, AuditRequest, Requests, Audit
  <2>2. CASE r \in {Probe(u, i) : u \in Url, i \in 1..NumProbes}
    BY <2>2 DEF Probe, AuditRequest, Requests, Audit
  <2>3. CASE r \in AuditRequest
    BY <2>3 DEF AuditRequest, Requests, Audit
  <2> QED BY <2>1, <2>2, <2>3 DEF Request
<1> QED BY <1>1, <1>2, <1>3, <1>4

\* An audit request is determined by its URL, its check and its number.
LEMMA AuditFacts ==
  /\ \A r \in AuditRequest : /\ r.url \in Url /\ r.check \in Check
                             /\ r.n \in 1..Generated[r.url][r.check]
                             /\ r = Audit(r.url, r.check, r.n)
                             /\ r.kind = "audit"
  /\ \A u \in Url, c \in Check : \A r :
       r \in Requests(u, c) <=> r \in AuditRequest /\ r.url = u /\ r.check = c
  /\ \A u \in Url, c \in Check : \A i \in 1..Generated[u][c] :
       /\ Audit(u, c, i) \in AuditRequest
       /\ Audit(u, c, i).url = u /\ Audit(u, c, i).check = c /\ Audit(u, c, i).n = i
<1>1. \A u, c, i : /\ Audit(u, c, i).url = u /\ Audit(u, c, i).check = c
                   /\ Audit(u, c, i).n = i /\ Audit(u, c, i).kind = "audit"
  BY DEF Audit
<1>2. \A r : r \in AuditRequest <=>
               \E u \in Url, c \in Check : \E i \in 1..Generated[u][c] : r = Audit(u, c, i)
  <2>1. \A r : r \in AuditRequest <=> \E u \in Url, c \in Check : r \in Requests(u, c)
    BY DEF AuditRequest
  <2> QED BY <2>1 DEF Requests
<1>3. \A u, c, r : r \in Requests(u, c) <=> \E i \in 1..Generated[u][c] : r = Audit(u, c, i)
  BY DEF Requests
<1>4. \A r \in AuditRequest : /\ r.url \in Url /\ r.check \in Check
                              /\ r.n \in 1..Generated[r.url][r.check]
                              /\ r = Audit(r.url, r.check, r.n)
                              /\ r.kind = "audit"
  BY <1>1, <1>2
<1>5. ASSUME NEW u \in Url, NEW c \in Check, NEW r
      PROVE  r \in Requests(u, c) <=> r \in AuditRequest /\ r.url = u /\ r.check = c
  <2>1. ASSUME r \in Requests(u, c) PROVE r \in AuditRequest /\ r.url = u /\ r.check = c
    BY <1>1, <1>2, <1>3, <2>1
  <2>2. ASSUME r \in AuditRequest, r.url = u, r.check = c PROVE r \in Requests(u, c)
    BY <1>3, <1>4, <2>2
  <2> QED BY <2>1, <2>2
<1>6. \A u \in Url, c \in Check : \A i \in 1..Generated[u][c] :
        Audit(u, c, i) \in AuditRequest
  BY <1>2
<1> QED BY <1>1, <1>4, <1>5, <1>6

\* A check has as many requests as it generates.
LEMMA RequestsSize ==
  ASSUME NEW u \in Url, NEW c \in Check
  PROVE  IsFiniteSet(Requests(u, c)) /\ Cardinality(Requests(u, c)) = Generated[u][c]
<1>1. Generated[u][c] \in Nat
  BY ScanAssumption
<1> DEFINE m == Generated[u][c]
           f == [i \in 1..m |-> Audit(u, c, i)]
<1>2. f \in Bijection(1..m, Requests(u, c))
  BY DEF Requests, Audit, Bijection, Injection, Surjection, IsInjective
<1> HIDE DEF m, f
<1>3. m \in Nat
  BY <1>1 DEF m
<1>4. 1 \in Int /\ m \in Int
  BY <1>3
<1>5. IsFiniteSet(1..m) /\ Cardinality(1..m) = IF 1 > m THEN 0 ELSE m - 1 + 1
  BY <1>4, FS_Interval
<1>6. Cardinality(1..m) = m
  BY <1>3, <1>5
<1>7. ExistsBijection(1..m, Requests(u, c))
  BY <1>2 DEF ExistsBijection
<1>8. IsFiniteSet(Requests(u, c)) /\ Cardinality(Requests(u, c)) = m
  BY <1>5, <1>6, <1>7, FS_Bijection
<1> QED BY <1>8 DEF m
\* What the steps below need of the two lemmas above.
LEMMA Shapes ==
  /\ \A u \in Url : Crawl(u) \in Request /\ Crawl(u) \notin AuditRequest
  /\ \A u, v \in Url : Crawl(u) = Crawl(v) => u = v
  /\ \A r \in AuditRequest : r \in Request /\ r.url \in Url /\ r.check \in Check
  /\ \A u \in Url, c \in Check : \A r \in Requests(u, c) :
       r \in AuditRequest /\ r \in Request /\ r.url = u /\ r.check = c
  /\ \A r \in AuditRequest : r \in Requests(r.url, r.check)
<1>1. \A u \in Url : Crawl(u) \in Request /\ Crawl(u) \notin AuditRequest
  BY RequestFacts
<1>2. \A u, v \in Url : Crawl(u) = Crawl(v) => u = v
  BY RequestFacts
<1>3. \A r \in AuditRequest : r \in Request /\ r.url \in Url /\ r.check \in Check
  BY RequestFacts, AuditFacts
<1>4. \A u \in Url, c \in Check : \A r \in Requests(u, c) :
       r \in AuditRequest /\ r \in Request /\ r.url = u /\ r.check = c
  BY <1>3, AuditFacts
<1>5. \A r \in AuditRequest : r \in Requests(r.url, r.check)
  BY AuditFacts
<1> QED BY <1>1, <1>2, <1>3, <1>4, <1>5

\* The members of two sequences put together.
LEMMA ToSetConcat ==
  ASSUME NEW S, NEW T, NEW s \in Seq(S), NEW t \in Seq(T)
  PROVE  ToSet(s \o t) = ToSet(s) \cup ToSet(t)
<1>1. /\ Len(s) \in Nat /\ Len(t) \in Nat
      /\ DOMAIN s = 1..Len(s) /\ DOMAIN t = 1..Len(t)
      /\ DOMAIN (s \o t) = 1..(Len(s) + Len(t))
      /\ \A i \in 1..(Len(s) + Len(t)) :
           (s \o t)[i] = IF i <= Len(s) THEN s[i] ELSE t[i - Len(s)]
  OBVIOUS
<1>2. ToSet(s \o t) \subseteq ToSet(s) \cup ToSet(t)
  BY <1>1 DEF ToSet
<1>3. ToSet(s) \subseteq ToSet(s \o t)
  BY <1>1 DEF ToSet
<1>4. ASSUME NEW x \in ToSet(t) PROVE x \in ToSet(s \o t)
  <2>1. PICK i \in 1..Len(t) : x = t[i]
    BY <1>1 DEF ToSet
  <2>2. Len(s) + i \in 1..(Len(s) + Len(t)) /\ (s \o t)[Len(s) + i] = x
    BY <1>1, <2>1
  <2> QED BY <1>1, <2>2 DEF ToSet
<1> QED BY <1>2, <1>3, <1>4

\* The members of a queue that grows.
LEMMA ToSetAppend ==
  ASSUME NEW S, NEW s \in Seq(S), NEW e
  PROVE  ToSet(Append(s, e)) = ToSet(s) \cup {e}
<1>1. /\ Len(s) \in Nat /\ DOMAIN s = 1..Len(s)
      /\ DOMAIN Append(s, e) = 1..(Len(s) + 1)
      /\ Append(s, e)[Len(s) + 1] = e
      /\ \A i \in 1..Len(s) : Append(s, e)[i] = s[i]
  OBVIOUS
<1> QED BY <1>1 DEF ToSet

\* The members of a queue whose head is taken.
LEMMA ToSetTail ==
  ASSUME NEW S, NEW s \in Seq(S), s # <<>>
  PROVE  /\ Head(s) \in S /\ Tail(s) \in Seq(S)
         /\ ToSet(s) = ToSet(Tail(s)) \cup {Head(s)}
<1>1. /\ Len(s) \in Nat /\ Len(s) >= 1 /\ DOMAIN s = 1..Len(s)
      /\ Head(s) = s[1] /\ Head(s) \in S /\ Tail(s) \in Seq(S)
      /\ DOMAIN Tail(s) = 1..(Len(s) - 1)
      /\ \A i \in 1..(Len(s) - 1) : Tail(s)[i] = s[i + 1]
  OBVIOUS
<1>2. ToSet(Tail(s)) \cup {Head(s)} \subseteq ToSet(s)
  BY <1>1 DEF ToSet
<1>3. ASSUME NEW x \in ToSet(s), x # Head(s) PROVE x \in ToSet(Tail(s))
  <2>1. PICK i \in 1..Len(s) : x = s[i]
    BY <1>1 DEF ToSet
  <2>2. i - 1 \in 1..(Len(s) - 1) /\ Tail(s)[i - 1] = x
    BY <1>1, <1>3, <2>1
  <2> QED BY <1>1, <2>2 DEF ToSet
<1> QED BY <1>1, <1>2, <1>3

-----------------------------------------------------------------------------
(* The initial states, and the steps that change nothing but pc.           *)

\* The client keeps its types.
LEMMA ClientTypes ==
  ASSUME Contract!ContractInv
  PROVE  /\ client_enabled \in BOOLEAN
         /\ schedule_queue \in Seq(Request)
         /\ inflight \subseteq Request
         /\ fate \in [Request -> Client!Fate]
         /\ Queued \subseteq Request
         /\ Queued = {} <=> schedule_queue = <<>>
  BY DEF Contract!ContractInv, Contract!ContractTypeOK, Contract!Fate, Contract!Final,
         Client!Fate, Client!Final, Queued, Contract!Queued

\* The same after a step.
LEMMA ClientTypesNext ==
  ASSUME Contract!ContractInv'
  PROVE  /\ client_enabled' \in BOOLEAN
         /\ schedule_queue' \in Seq(Request)
         /\ inflight' \subseteq Request
         /\ fate' \in [Request -> Client!Fate]
         /\ Queued' \subseteq Request
         /\ Queued' = {} <=> schedule_queue' = <<>>
  BY DEF Contract!ContractInv, Contract!ContractTypeOK, Contract!Fate, Contract!Final,
         Client!Fate, Client!Final, Queued, Contract!Queued

\* A scan starts with its seeds in the probe queue, and nothing else.
LEMMA InitIInv == ASSUME Init PROVE IInv
<1>1. Contract!ContractInv
  BY DEF Init, Client!ClientInit, Contract!ContractInv, Contract!ContractTypeOK,
         Contract!Queued, Contract!Fate, Contract!Final
<1>2. /\ pc = "start" /\ current = NoUrl /\ runners = {} /\ audit_queue = <<>>
      /\ inflight = {} /\ schedule_queue = <<>> /\ Queued = {} /\ freed = {}
      /\ fate = [r \in Request |-> "new"] /\ NoUrl \notin Url
      /\ scan_enabled = TRUE /\ client_enabled = TRUE
      /\ seen = ToSet(Seeds) /\ probe_queue = Seeds
  BY <1>1, ClientTypes, ScanAssumption DEF Init, Client!ClientInit
<1>3. TypeOK
  BY <1>1, <1>2, ClientTypes, ScanAssumption DEF Init, TypeOK, ToSet, Check
<1>4. RunnersInv /\ AtWorkInv
  BY <1>2 DEF RunnersInv, AtWorkInv
<1>5. SentInv /\ ChainInv /\ FreedInv
  BY <1>2, RequestFacts, AuditFacts DEF SentInv, ChainInv, FreedInv, Auditing, AtWork, AuditStep, ToSet
<1>6. SeenInv /\ LoopInv
  BY <1>2, Shapes DEF SeenInv, LoopInv, Passed, Nothing, AuditStep
<1> QED BY <1>1, <1>3, <1>4, <1>5, <1>6 DEF IInv

\* Steps of the main thread that only move pc, between stages that schedule no check.
LEMMA MoveIInv ==
  ASSUME IInv, TypeOK', LoopInv',
         UNCHANGED <<clientVars, current, queues, audit, freed>>,
         \/ pc' = pc /\ n' = n
         \/ pc \notin AuditStep /\ pc' \notin AuditStep \cup {"probing"},
         pc' = "launch" => pc = "launch" \/ client_enabled,
         pc \in {"probing", "probed"} => pc' \in {"probing", "probed"}
  PROVE  IInv'
<1>1. Contract!ContractInv' /\ Queued' = Queued
      /\ UNCHANGED <<client_enabled, schedule_queue, inflight, fate>>
  BY Contract!ClientStutter DEF IInv, clientVars, Contract!clientVars, Queued
<1>2. /\ UNCHANGED <<seen, probe_queue, crawl_queue, audit_queue, runners, check, completed>>
      /\ UNCHANGED <<current, freed>>
  BY DEF queues, audit
<1>3. \A u : AtWork(u)' <=> AtWork(u)
  BY <1>2 DEF AtWork
<1>4. RunnersInv'
  BY <1>1, <1>2, <1>3 DEF IInv, RunnersInv, Handled
<1>5. AtWorkInv'
  BY <1>1, <1>2 DEF IInv, AtWorkInv, AuditStep
<1>6. SentInv'
  BY <1>1, <1>2, <1>3 DEF IInv, SentInv, Auditing
<1>7. ChainInv'
  BY <1>1, <1>2, <1>3 DEF IInv, ChainInv, Auditing
<1>8. FreedInv'
  BY <1>1, <1>2, <1>3 DEF IInv, FreedInv, Auditing
<1>9. SeenInv'
  BY <1>1, <1>2 DEF IInv, SeenInv
<1> QED BY <1>1, <1>4, <1>5, <1>6, <1>7, <1>8, <1>9 DEF IInv

\* The loop goes on to the next stage.
LEMMA StageIInv ==
  ASSUME IInv, StartNewRequests \/ LaunchDone \/ PollDone \/ ProbesScheduled
  PROVE  IInv'
<1>1. /\ UNCHANGED <<clientVars, current, n, queues, probed, audit, freed, control>>
      /\ pc \notin AuditStep /\ pc' \notin AuditStep /\ pc' # "crawl" /\ pc' # "done" 
      /\ pc' \in {"launch", "poll", "probe", "probed"}
      /\ pc' = "launch" => client_enabled
      /\ pc \in {"probing", "probed"} <=> pc' \in {"probing", "probed"}
  BY DEF StartNewRequests, LaunchDone, PollDone, ProbesScheduled, AuditStep
<1>2. TypeOK'
  BY <1>1 DEF IInv, TypeOK, AuditStep, clientVars, queues, audit, control
<1>3. LoopInv'
  BY <1>1 DEF IInv, LoopInv, Passed, AuditStep, clientVars, queues, audit, control
<1> QED BY <1>1, <1>2, <1>3, MoveIInv

\* Time passes, or nothing happens.
LEMMA IdleIInv ==
  ASSUME IInv, TimePasses \/ UNCHANGED vars
  PROVE  IInv'
<1>1. /\ UNCHANGED <<clientVars, pc, current, n, queues, probed, audit, freed>>
      /\ UNCHANGED <<scan_enabled, interrupts>>
      /\ deadline' = deadline \/ deadline' \in {"expired", "over"}
  BY DEF TimePasses, vars, control
<1>2. TypeOK'
  BY <1>1 DEF IInv, TypeOK, clientVars, queues, audit
<1>3. LoopInv'
  BY <1>1 DEF IInv, LoopInv, Passed, Nothing, AuditSlotFree, clientVars, queues, audit
<1> QED BY <1>1, <1>2, <1>3, MoveIInv

\* The loop condition, and the end of the time limit.
LEMMA LoopIInv ==
  ASSUME IInv, KeepRunningOrShutdown \/ LimitReached \/ SetShutdownTime
  PROVE  IInv'
<1>1. /\ UNCHANGED <<clientVars, current, n, queues, probed, audit, freed, interrupts>>
      /\ pc \notin AuditStep /\ pc' \notin AuditStep
      /\ pc \in {"keep", "limit", "extend"}
      /\ pc' \in {"done", "limit", "grace", "start"}
      /\ deadline' = deadline \/ deadline' = "grace"
      /\ scan_enabled' = scan_enabled \/ (scan_enabled' = FALSE /\ ~client_enabled)
  BY DEF KeepRunningOrShutdown, LimitReached, SetShutdownTime, Repeat, AuditStep, control
<1>2. TypeOK'
  BY <1>1 DEF IInv, TypeOK, AuditStep, clientVars, queues, audit
<1>3. pc' = "done" /\ client_enabled => pc = "keep" /\ Nothing /\ inflight = {}
  BY DEF KeepRunningOrShutdown, LimitReached, SetShutdownTime, Repeat, Nothing, IInv, LoopInv
<1>4. LoopInv'
  BY <1>1, <1>3 DEF IInv, LoopInv, TypeOK, Passed, Nothing, AuditSlotFree, AuditStep, clientVars, queues, audit
<1> QED BY <1>1, <1>2, <1>4, MoveIInv
-----------------------------------------------------------------------------
(* The steps of the client.                                                *)

\* A runner goes on waiting when no request of its check is new or handled that
\* was not before.
LEMMA RunnersKept ==
  ASSUME IInv, UNCHANGED completed,
         \A u \in runners' : ~AtWork(u)' => u \in runners /\ ~AtWork(u) /\ check'[u] = check[u],
         \A r \in AuditRequest : /\ fate'[r] = "handled" <=> fate[r] = "handled"
                                 /\ fate'[r] = "new" => fate[r] = "new"
  PROVE  RunnersInv'
<1> SUFFICES ASSUME NEW u \in runners', ~AtWork(u)'
             PROVE  /\ completed'[u] = Cardinality(Handled(u)')
                    /\ completed'[u] < Generated[u][check'[u]]
                    /\ \A r \in Requests(u, check'[u]) : fate'[r] # "new"
  BY DEF RunnersInv
<1>1. /\ u \in runners /\ ~AtWork(u) /\ check'[u] = check[u] /\ completed'[u] = completed[u]
      /\ u \in Url /\ check[u] \in Check
  BY DEF IInv, TypeOK
<1>2. /\ completed[u] = Cardinality(Handled(u))
      /\ completed[u] < Generated[u][check[u]]
      /\ \A r \in Requests(u, check[u]) : fate[r] # "new"
  BY <1>1 DEF IInv, RunnersInv
<1>3. Requests(u, check[u]) \subseteq AuditRequest
  BY <1>1, Shapes
<1>4. Handled(u)' = Handled(u)
  BY <1>1, <1>3 DEF Handled
<1> QED BY <1>1, <1>2, <1>3, <1>4

\* The order of the audits is kept by a step that handles no crawled page and
\* sends no audit request.
LEMMA ChainKept ==
  ASSUME IInv, UNCHANGED <<audit_queue, check>>,
         \A u \in Url : Auditing(u)' => Auditing(u),
         \A u \in Url : fate'[Crawl(u)] = "handled" <=> fate[Crawl(u)] = "handled",
         \A r \in AuditRequest : fate[r] = "new" => fate'[r] = "new"
  PROVE  ChainInv'
<1>1. ToSet(audit_queue)' = ToSet(audit_queue) /\ ToSet(audit_queue) \subseteq Url
  BY DEF ToSet, IInv, TypeOK
<1>2. \A i, j \in DOMAIN audit_queue' : audit_queue'[i] = audit_queue'[j] => i = j
  BY DEF IInv, ChainInv
<1>3. \A u \in ToSet(audit_queue)' : fate'[Crawl(u)] = "handled" /\ ~Auditing(u)'
  BY <1>1 DEF IInv, ChainInv
<1>4. \A u \in Url : Auditing(u)' => fate'[Crawl(u)] = "handled"
  BY DEF IInv, ChainInv
<1>5. \A r \in AuditRequest :
        \/ fate'[Crawl(r.url)] # "handled"
        \/ r.url \in ToSet(audit_queue)'
        \/ r.check > check'[r.url]
        => fate'[r] = "new"
  BY <1>1, Shapes DEF IInv, ChainInv
<1> QED BY <1>2, <1>3, <1>4, <1>5 DEF ChainInv

\* A queued request goes to the network.
LEMMA LaunchIInv == ASSUME IInv, LaunchRequest PROVE IInv'
<1>1. Client!Launch
  BY DEF LaunchRequest
<1>2. Contract!Launch
  BY <1>1 DEF Client!Launch, Contract!Launch
<1>3. /\ Contract!ContractInv'
      /\ client_enabled' = client_enabled /\ fate' = fate
      /\ \E r \in Queued : /\ r \in Request /\ fate[r] = "accepted"
                           /\ Queued' = Queued \ {r}
                           /\ inflight' = inflight \cup {r}
  BY <1>2, Contract!LaunchEffect DEF IInv, Queued
<1>4. PICK r \in Queued : /\ r \in Request /\ fate[r] = "accepted"
                          /\ Queued' = Queued \ {r} /\ inflight' = inflight \cup {r}
  BY <1>3
<1>5. /\ UNCHANGED <<pc, current, n, seen, probe_queue, crawl_queue, audit_queue, probed, runners>>
      /\ UNCHANGED <<check, completed, issues, freed, scan_enabled, deadline, interrupts>>
      /\ pc = "launch"
  BY DEF LaunchRequest, queues, audit, control
<1>6. \A u : ~AtWork(u) /\ ~AtWork(u)'
  BY <1>5 DEF AtWork, AuditStep
<1>7. TypeOK'
  BY <1>3, <1>5, ClientTypesNext DEF IInv, TypeOK
<1>8. RunnersInv'
  BY <1>3, <1>5, <1>6 DEF IInv, RunnersInv, Handled
<1>9. AtWorkInv'
  BY <1>5 DEF AtWorkInv
<1>10. SentInv'
  BY <1>3, <1>4, <1>5, <1>6 DEF IInv, SentInv, Auditing
<1>11. ChainInv'
  BY <1>3, <1>5, <1>6 DEF IInv, ChainInv, Auditing
<1>12. FreedInv'
  BY <1>3, <1>5, <1>6 DEF IInv, FreedInv, Auditing
<1>13. SeenInv'
  BY <1>3, <1>5 DEF IInv, SeenInv
<1>14. LoopInv'
  BY <1>3, <1>5 DEF IInv, LoopInv, Passed, AuditStep
<1> QED BY <1>3, <1>7, <1>8, <1>9, <1>10, <1>11, <1>12, <1>13, <1>14 DEF IInv

\* A queued request is forgotten.
LEMMA DropIInv == ASSUME IInv, DropRequest PROVE IInv'
<1>1. Client!Drop
  BY DEF DropRequest
<1>2. Contract!Drop
  BY <1>1 DEF Client!Drop, Contract!Drop
<1>3. /\ Contract!ContractInv'
      /\ client_enabled' = client_enabled /\ inflight' = inflight
      /\ \E r \in Queued : /\ r \in Request /\ fate[r] = "accepted"
                           /\ Queued' = Queued \ {r}
                           /\ fate' = [fate EXCEPT ![r] = "dropped"]
  BY <1>2, Contract!DropEffect DEF IInv, Queued
<1>4. PICK r \in Queued : /\ r \in Request /\ fate[r] = "accepted"
                          /\ Queued' = Queued \ {r}
                          /\ fate' = [fate EXCEPT ![r] = "dropped"]
  BY <1>3
<1>5. /\ UNCHANGED <<current, n, seen, probe_queue, crawl_queue, audit_queue, probed, runners>>
      /\ UNCHANGED <<check, completed, issues, freed, scan_enabled, deadline, interrupts>>
      /\ pc = "launch" /\ pc' = "poll"
  BY DEF DropRequest, queues, audit, control
<1>6. \A u : ~AtWork(u) /\ ~AtWork(u)'
  BY <1>5 DEF AtWork, AuditStep
<1>7. TypeOK'
  BY <1>3, <1>5, ClientTypesNext DEF IInv, TypeOK
<1>8. /\ \A q \in Request : fate'[q] = fate[q] \/ (fate[q] = "accepted" /\ fate'[q] = "dropped")
  BY <1>4 DEF IInv, TypeOK
<1>9. RunnersInv'
  BY <1>5, <1>6, <1>8, RunnersKept, Shapes
<1>10. AtWorkInv'
  BY <1>5 DEF AtWorkInv
<1>11. SentInv'
  BY <1>3, <1>4, <1>5, <1>6 DEF IInv, SentInv, Auditing
<1>12. ChainInv'
  BY <1>5, <1>6, <1>8, Shapes, ChainKept DEF Auditing
<1>13. FreedInv'
  BY <1>5, <1>6, <1>8, Shapes DEF IInv, FreedInv, Auditing, TypeOK
<1>14. SeenInv'
  BY <1>5, <1>8, Shapes DEF IInv, SeenInv, TypeOK
<1>15. LoopInv'
  BY <1>3, <1>5 DEF IInv, LoopInv, Passed, AuditStep
<1> QED BY <1>3, <1>7, <1>9, <1>10, <1>11, <1>12, <1>13, <1>14, <1>15 DEF IInv

\* The client is disabled, by a signal or at the time limit.
LEMMA DisableIInv == ASSUME IInv, DisableClient \/ SignalHandler PROVE IInv'
<1>1. /\ UNCHANGED <<current, n, seen, probe_queue, crawl_queue, audit_queue, probed, runners>>
      /\ UNCHANGED <<check, completed, issues, freed>>
      /\ pc' = pc \/ (pc = "grace" /\ pc' = "extend")
      /\ deadline' = deadline \/ deadline' = "grace"
      /\ scan_enabled' = scan_enabled \/ scan_enabled' = FALSE
      /\ interrupts' = interrupts \/ (interrupts < MaxInterrupts /\ interrupts' = interrupts + 1)
  BY DEF DisableClient, SignalHandler, queues, audit, control
<1>2. Client!Disable \/ (~client_enabled /\ UNCHANGED clientVars)
  BY DEF DisableClient, SignalHandler
<1>3. /\ Contract!ContractInv' /\ ~client_enabled' /\ Queued' = Queued
      /\ UNCHANGED <<schedule_queue, inflight, fate>>
  <2>1. CASE Client!Disable
    <3>1. Contract!Disable
      BY <2>1 DEF Client!Disable, Contract!Disable
    <3> QED BY <3>1, Contract!DisableEffect DEF IInv, Queued
  <2>2. CASE ~client_enabled /\ UNCHANGED clientVars
    BY <2>2, Contract!ClientStutter DEF IInv, Queued, clientVars, Contract!clientVars
  <2> QED BY <1>2, <2>1, <2>2
<1>4. \A u : AtWork(u)' <=> AtWork(u)
  BY <1>1 DEF AtWork, AuditStep
<1>5. TypeOK'
  <2>1. interrupts' \in 0..MaxInterrupts
    BY <1>1, ScanAssumption DEF IInv, TypeOK
  <2>2. scan_enabled' \in BOOLEAN
    BY <1>1 DEF IInv, TypeOK
  <2> QED BY <1>1, <1>3, <2>1, <2>2, ClientTypesNext DEF IInv, TypeOK
<1>6. RunnersInv'
  BY <1>1, <1>3, <1>4 DEF IInv, RunnersInv, Handled
<1>7. AtWorkInv'
  BY <1>1, <1>3 DEF IInv, AtWorkInv
<1>8. SentInv'
  BY <1>1, <1>3, <1>4 DEF IInv, SentInv, Auditing
<1>9. ChainInv' /\ FreedInv'
  BY <1>1, <1>3, <1>4 DEF IInv, ChainInv, FreedInv, Auditing
<1>10. SeenInv'
  BY <1>1, <1>3 DEF IInv, SeenInv
<1>11. LoopInv'
  BY <1>1, <1>3 DEF IInv, LoopInv, TypeOK, Nothing
<1> QED BY <1>3, <1>5, <1>6, <1>7, <1>8, <1>9, <1>10, <1>11 DEF IInv

-----------------------------------------------------------------------------
(* Transfers that end.                                                     *)

\* The links of a page join the probe queue, each once.
LEMMA DiscoverEffect ==
  ASSUME IInv, Discover
  PROVE  /\ seen \subseteq seen' /\ seen' \subseteq Url
         /\ probe_queue' \in Seq(seen')
         /\ ToSet(probe_queue') = ToSet(probe_queue) \cup (seen' \ seen)
<1>1. PICK new \in SUBSET (Url \ seen) : \E order \in SetToSeqs(new) :
             seen' = seen \cup new /\ probe_queue' = probe_queue \o order
  BY DEF Discover
<1>2. PICK order \in SetToSeqs(new) : seen' = seen \cup new /\ probe_queue' = probe_queue \o order
  BY <1>1
<1>3. IsFiniteSet(new)
  BY FS_Subset, ScanAssumption
<1> DEFINE m == Cardinality(new)
<1>4. m \in Nat
  BY <1>3, FS_CardinalityType
<1>5. order \in [1..m -> new] /\ \A i, j \in 1..m : i # j => order[i] # order[j]
  BY DEF SetToSeqs
<1>6. IsFiniteSet(1..m) /\ Cardinality(1..m) = m
  <2>1. 1 \in Int /\ m \in Int
    BY <1>4
  <2>2. IsFiniteSet(1..m) /\ Cardinality(1..m) = IF 1 > m THEN 0 ELSE m - 1 + 1
    BY <2>1, FS_Interval
  <2> QED BY <1>4, <2>2
<1> HIDE DEF m
<1>7. order \in Injection(1..m, new)
  BY <1>5 DEF Injection, IsInjective
<1>8. order \in Surjection(1..m, new)
  <2>1. Cardinality(1..m) = Cardinality(new)
    BY <1>6 DEF m
  <2> QED BY <1>3, <1>7, <2>1, FS_Injection
<1>9. ToSet(order) = new
  BY <1>5, <1>8 DEF ToSet, Surjection
<1>10. order \in Seq(new) /\ probe_queue \in Seq(seen) /\ seen \subseteq Url
  BY <1>4, <1>5 DEF IInv, TypeOK
<1>11. probe_queue' \in Seq(seen')
  <2>1. order \in Seq(seen') /\ probe_queue \in Seq(seen')
    BY <1>2, <1>10
  <2> QED BY <1>2, <2>1
<1>12. ToSet(probe_queue \o order) = ToSet(probe_queue) \cup ToSet(order)
  BY <1>10, ToSetConcat
<1> QED BY <1>2, <1>9, <1>10, <1>11, <1>12

\* What the end of a transfer changes in the client.
LEMMA FinishFacts ==
  ASSUME IInv, NEW r \in Request, NEW end, Client!Finish(r, end)
  PROVE  /\ Contract!ContractInv'
         /\ r \in inflight /\ fate[r] = "accepted"
         /\ UNCHANGED <<client_enabled, schedule_queue>> /\ Queued' = Queued
         /\ inflight' = inflight \ {r}
         /\ fate'[r] = end
         /\ \A q \in Request : q # r => fate'[q] = fate[q]
<1>1. Contract!Finish(r, end)
  BY DEF Client!Finish, Contract!Finish
<1>2. /\ Contract!ContractInv'
      /\ r \in inflight /\ fate[r] = "accepted"
      /\ UNCHANGED <<client_enabled, schedule_queue>> /\ Queued' = Queued
      /\ inflight' = inflight \ {r}
      /\ fate' = [fate EXCEPT ![r] = end]
  BY <1>1, Contract!FinishEffect DEF IInv, Queued
<1> QED BY <1>2 DEF IInv, TypeOK

\* A transfer ends without a call of the handler, or a probe is answered.
LEMMA UncountedIInv ==
  ASSUME IInv, NEW r \in Request, FinishUnhandled(r) \/ FinishProbe(r)
  PROVE  IInv'
<1>1. PICK end : /\ Client!Finish(r, end)
                 /\ \/ end = "unhandled" /\ freed' = freed
                    \/ end = "handled" /\ r.kind = "probe" /\ freed' = freed \cup {r}
  BY DEF FinishUnhandled, FinishProbe
<1>2. /\ UNCHANGED <<pc, current, n, seen, probe_queue, crawl_queue, audit_queue, probed, runners>>
      /\ UNCHANGED <<check, completed, issues, scan_enabled, deadline, interrupts>>
      /\ pc = "poll"
  BY DEF FinishUnhandled, FinishProbe, queues, audit, control
<1>3. /\ Contract!ContractInv'
      /\ r \in inflight /\ fate[r] = "accepted"
      /\ UNCHANGED <<client_enabled, schedule_queue>> /\ Queued' = Queued
      /\ inflight' = inflight \ {r}
      /\ fate'[r] = end
      /\ \A q \in Request : q # r => fate'[q] = fate[q]
  BY <1>1, FinishFacts
<1>4. \A u : ~AtWork(u) /\ ~AtWork(u)'
  BY <1>2 DEF AtWork, AuditStep
<1>5. r.kind = "probe" => r \notin AuditRequest /\ \A u \in Url : r # Crawl(u)
  BY RequestFacts
<1>6. \A q \in AuditRequest \cup {Crawl(u) : u \in Url} :
        /\ fate'[q] = "handled" <=> fate[q] = "handled"
        /\ fate'[q] = "new" <=> fate[q] = "new"
  BY <1>1, <1>3, <1>5, Shapes
<1>7. TypeOK'
  BY <1>1, <1>2, <1>3, ClientTypesNext DEF IInv, TypeOK
<1>8. RunnersInv'
  BY <1>2, <1>4, <1>6, RunnersKept
<1>9. AtWorkInv'
  BY <1>2 DEF AtWorkInv
<1>10. SentInv'
  BY <1>2, <1>3, <1>4 DEF IInv, SentInv, Auditing
<1>11. ChainInv'
  BY <1>2, <1>4, <1>6, ChainKept DEF Auditing
<1>12. FreedInv'
  <2>1. \A u \in Url : Crawl(u) \notin freed'
    BY <1>1, <1>5 DEF IInv, FreedInv
  <2>2. \A q \in freed' : q.kind = "probe" => fate'[q] \in {"handled", "rejected"}
    BY <1>1, <1>3 DEF IInv, FreedInv, TypeOK
  <2>3. ASSUME NEW q \in freed' \cap AuditRequest
        PROVE  /\ fate'[Crawl(q.url)] = "handled" /\ q.url \notin ToSet(audit_queue')
               /\ q.check < check'[q.url] \/ ~Auditing(q.url)'
    <3>1. q \in freed \cap AuditRequest /\ q.url \in Url
      BY <1>1, <1>5, Shapes
    <3> QED BY <1>2, <1>4, <1>6, <3>1 DEF IInv, FreedInv, Auditing
  <2> QED BY <2>1, <2>2, <2>3 DEF FreedInv
<1>13. SeenInv'
  BY <1>2, <1>6 DEF IInv, SeenInv, TypeOK
<1>14. LoopInv'
  BY <1>2, <1>3 DEF IInv, LoopInv, Passed, AuditStep
<1> QED BY <1>3, <1>7, <1>8, <1>9, <1>10, <1>11, <1>12, <1>13, <1>14 DEF IInv

\* A page was fetched: its links are queued, and it may be queued for an audit.
LEMMA FinishCrawlIInv == ASSUME IInv, NEW r \in Request, FinishCrawl(r) PROVE IInv'
<1> DEFINE v == r.url
<1>1. /\ UNCHANGED <<pc, current, n, crawl_queue, probed, runners, check, completed, issues, freed>>
      /\ UNCHANGED <<scan_enabled, deadline, interrupts>>
      /\ pc = "poll" /\ v \in Url /\ r = Crawl(v)
      /\ Client!Finish(r, "handled")
      /\ audit_queue' \in {audit_queue, Append(audit_queue, v)}
      /\ Discover
  BY RequestFacts DEF FinishCrawl, audit, control
<1>2. /\ Contract!ContractInv'
      /\ r \in inflight /\ fate[r] = "accepted"
      /\ UNCHANGED <<client_enabled, schedule_queue>> /\ Queued' = Queued
      /\ inflight' = inflight \ {r}
      /\ fate'[r] = "handled"
      /\ \A q \in Request : q # r => fate'[q] = fate[q]
  BY <1>1, FinishFacts
<1>3. /\ seen \subseteq seen' /\ seen' \subseteq Url
      /\ probe_queue' \in Seq(seen')
      /\ ToSet(probe_queue') = ToSet(probe_queue) \cup (seen' \ seen)
  BY <1>1, DiscoverEffect
<1> HIDE DEF v
<1>4. \A u : ~AtWork(u) /\ ~AtWork(u)'
  BY <1>1 DEF AtWork, AuditStep
<1>5. v \in seen
  BY <1>1, <1>2 DEF IInv, SeenInv
<1>6. /\ \A u \in Url : u # v => fate'[Crawl(u)] = fate[Crawl(u)]
      /\ \A q \in AuditRequest : fate'[q] = fate[q]
      /\ fate[Crawl(v)] = "accepted" /\ fate'[Crawl(v)] = "handled"
  BY <1>1, <1>2, Shapes
<1>7. v \notin ToSet(audit_queue) /\ ~Auditing(v)
  BY <1>1, <1>6 DEF IInv, ChainInv
<1>8. audit_queue \in Seq(seen) /\ audit_queue \in Seq(seen') /\ crawl_queue \in Seq(seen')
  BY <1>3 DEF IInv, TypeOK
<1>9. /\ audit_queue' \in Seq(seen')
      /\ ToSet(audit_queue') \subseteq ToSet(audit_queue) \cup {v}
      /\ ToSet(audit_queue) \subseteq ToSet(audit_queue')
  <2>1. ToSet(Append(audit_queue, v)) = ToSet(audit_queue) \cup {v}
    BY <1>8, ToSetAppend
  <2>2. Append(audit_queue, v) \in Seq(seen')
    BY <1>3, <1>5, <1>8
  <2> QED BY <1>1, <1>8, <2>1, <2>2
<1>10. TypeOK'
  BY <1>1, <1>2, <1>3, <1>8, <1>9, ClientTypesNext DEF IInv, TypeOK
<1>11. RunnersInv'
  BY <1>1, <1>4, <1>6, RunnersKept
<1>12. AtWorkInv'
  BY <1>1 DEF AtWorkInv
<1>13. SentInv'
  BY <1>1, <1>2, <1>4 DEF IInv, SentInv, Auditing
<1>14. ChainInv'
  <2>1. \A i, j \in DOMAIN audit_queue' : audit_queue'[i] = audit_queue'[j] => i = j
    <3>1. \A i \in DOMAIN audit_queue : audit_queue[i] # v
      BY <1>7 DEF ToSet
    <3> QED BY <1>1, <1>8, <3>1 DEF IInv, ChainInv
  <2>2. \A u \in ToSet(audit_queue') : fate'[Crawl(u)] = "handled" /\ ~Auditing(u)'
    <3>1. ToSet(audit_queue) \subseteq Url
      BY DEF IInv, TypeOK, ToSet
    <3> QED BY <1>1, <1>4, <1>6, <1>7, <1>9, <3>1 DEF IInv, ChainInv, Auditing
  <2>3. \A u \in Url : Auditing(u)' => fate'[Crawl(u)] = "handled"
    BY <1>1, <1>4, <1>6 DEF IInv, ChainInv, Auditing
  <2>4. \A q \in AuditRequest :
          \/ fate'[Crawl(q.url)] # "handled"
          \/ q.url \in ToSet(audit_queue')
          \/ q.check > check'[q.url]
          => fate'[q] = "new"
    BY <1>1, <1>6, <1>9, Shapes DEF IInv, ChainInv
  <2> QED BY <2>1, <2>2, <2>3, <2>4 DEF ChainInv
<1>15. FreedInv'
  <2>1. ASSUME NEW q \in freed', q.kind = "probe" PROVE fate'[q] \in {"handled", "rejected"}
    <3>1. q \in Request /\ q # r
      BY <1>1, <2>1, RequestFacts DEF IInv, TypeOK
    <3> QED BY <1>1, <1>2, <2>1, <3>1 DEF IInv, FreedInv
  <2>2. ASSUME NEW q \in freed' \cap AuditRequest
        PROVE  /\ fate'[Crawl(q.url)] = "handled" /\ q.url \notin ToSet(audit_queue')
               /\ q.check < check'[q.url] \/ ~Auditing(q.url)'
    <3>1. q \in freed \cap AuditRequest /\ q.url \in Url
      BY <1>1, Shapes
    <3>2. fate[Crawl(q.url)] = "handled"
      BY <3>1 DEF IInv, FreedInv
    <3>3. q.url # v
      BY <1>6, <3>2
    <3> QED BY <1>1, <1>4, <1>6, <1>9, <3>1, <3>3 DEF IInv, FreedInv, Auditing
  <2> QED BY <1>1, <2>1, <2>2 DEF IInv, FreedInv
<1>16. SeenInv'
  BY <1>1, <1>3, <1>5, <1>6 DEF IInv, SeenInv, TypeOK
<1>17. LoopInv'
  BY <1>1, <1>2 DEF IInv, LoopInv, Passed, AuditStep
<1> QED BY <1>2, <1>10, <1>11, <1>12, <1>13, <1>14, <1>15, <1>16, <1>17 DEF IInv

\* A response of the check of a runner is counted.  When it is the last one, all
\* the requests of the check were answered and none is with the client any more.
LEMMA FinishAuditIInv == ASSUME IInv, NEW r \in Request, FinishAudit(r) PROVE IInv'
<1> DEFINE v == r.url
           c == check[v]
<1>1. /\ UNCHANGED <<n, crawl_queue, audit_queue, probed, runners, check, freed>>
      /\ UNCHANGED <<scan_enabled, deadline, interrupts>>
      /\ pc = "poll" /\ r.kind = "audit"
      /\ Client!Finish(r, "handled")
      /\ completed' = [completed EXCEPT ![v] = @ + 1]
      /\ issues' = issues \/ issues' = issues \cup {<<v, c>>}
      /\ LastResponse(v) => Discover /\ pc' = "next" /\ current' = v
      /\ ~LastResponse(v) => UNCHANGED <<seen, probe_queue, pc, current>>
  BY DEF FinishAudit, CountResponse, control
<1>2. /\ Contract!ContractInv'
      /\ r \in inflight /\ fate[r] = "accepted"
      /\ UNCHANGED <<client_enabled, schedule_queue>> /\ Queued' = Queued
      /\ inflight' = inflight \ {r}
      /\ fate'[r] = "handled"
      /\ \A q \in Request : q # r => fate'[q] = fate[q]
  BY <1>1, FinishFacts
<1>3. r \in AuditRequest
  BY <1>1, RequestFacts
<1>4. /\ v \in Url /\ v \in runners /\ v \in seen /\ c = r.check /\ c \in Check
      /\ r \in Requests(v, c) /\ completed[v] \in Nat /\ Generated[v][c] \in Nat
  BY <1>2, <1>3, Shapes, ScanAssumption DEF IInv, TypeOK, SentInv
<1> HIDE DEF v, c
<1>5. current = NoUrl /\ NoUrl \notin Url
  BY <1>1, ScanAssumption DEF IInv, TypeOK
<1>6. \A u \in Url : ~AtWork(u) /\ (AtWork(u)' <=> u = v /\ LastResponse(v))
  BY <1>1, <1>4, <1>5 DEF AtWork, AuditStep
<1>7. \A u \in Url : Auditing(u)' <=> Auditing(u)
  BY <1>1, <1>4, <1>6 DEF Auditing
<1>8. /\ seen \subseteq seen' /\ seen' \subseteq Url
      /\ probe_queue' \in Seq(seen')
      /\ ToSet(probe_queue') = ToSet(probe_queue) \cup (seen' \ seen)
  <2>1. CASE LastResponse(v)
    BY <1>1, <2>1, DiscoverEffect
  <2>2. CASE ~LastResponse(v)
    BY <1>1, <2>2 DEF IInv, TypeOK
  <2> QED BY <2>1, <2>2
<1>9. /\ completed[v] = Cardinality(Handled(v))
      /\ completed[v] < Generated[v][c]
      /\ \A q \in Requests(v, c) : fate[q] # "new"
  BY <1>4, <1>6 DEF IInv, RunnersInv, c
<1>10. /\ IsFiniteSet(Requests(v, c)) /\ Cardinality(Requests(v, c)) = Generated[v][c]
       /\ Requests(v, c) \subseteq Request
  BY <1>4, RequestsSize, Shapes
<1>11. /\ Handled(v)' \subseteq Requests(v, c)
       /\ Cardinality(Handled(v)') = completed[v] + 1
       /\ completed'[v] = completed[v] + 1
       /\ \A q \in Handled(v)' : fate'[q] = "handled"
  <2>1. /\ Handled(v) = {q \in Requests(v, c) : fate[q] = "handled"}
        /\ Handled(v)' = {q \in Requests(v, c) : fate'[q] = "handled"}
    BY <1>1 DEF Handled, c
  <2>2. Handled(v)' = Handled(v) \cup {r} /\ r \notin Handled(v)
    BY <1>2, <1>4, <1>10, <2>1
  <2>3. IsFiniteSet(Handled(v))
    <3>1. Handled(v) \subseteq Requests(v, c)
      BY <2>1
    <3> QED BY <1>10, <3>1, FS_Subset
  <2>4. Cardinality(Handled(v) \cup {r}) = Cardinality(Handled(v)) + 1
    BY <2>2, <2>3, FS_AddElement
  <2>5. completed'[v] = completed[v] + 1
    BY <1>1, <1>4 DEF IInv, TypeOK
  <2> QED BY <1>9, <2>1, <2>2, <2>4, <2>5
<1>12. TypeOK'
  <2>1. completed' \in [Url -> Nat] /\ issues' \subseteq Url \X Check
    BY <1>1, <1>4 DEF IInv, TypeOK
  <2>2. audit_queue' \in Seq(seen') /\ crawl_queue' \in Seq(seen') /\ runners' \subseteq seen'
    BY <1>1, <1>8 DEF IInv, TypeOK
  <2>3. /\ pc' \in {"poll", "next"} /\ current' \in Url \cup {NoUrl}
        /\ pc' = "next" <=> current' # NoUrl
    BY <1>1, <1>4, <1>5
  <2> QED BY <1>1, <1>2, <1>8, <2>1, <2>2, <2>3, ClientTypesNext DEF IInv, TypeOK
<1>13. RunnersInv'
  <2> SUFFICES ASSUME NEW u \in runners', ~AtWork(u)'
               PROVE  /\ completed'[u] = Cardinality(Handled(u)')
                      /\ completed'[u] < Generated[u][check'[u]]
                      /\ \A q \in Requests(u, check'[u]) : fate'[q] # "new"
    BY DEF RunnersInv
  <2>1. u \in Url /\ u \in runners /\ ~AtWork(u) /\ check'[u] = check[u] /\ check[u] \in Check
    BY <1>1, <1>6 DEF IInv, TypeOK
  <2>2. CASE u = v
    <3>1. completed[v] + 1 # Generated[v][c]
      BY <1>6, <2>1, <2>2 DEF LastResponse, c
    <3>2. completed'[v] < Generated[v][c]
      BY <1>4, <1>9, <1>11, <3>1
    <3>3. \A q \in Requests(v, c) : fate'[q] # "new"
      BY <1>2, <1>9, <1>10
    <3> QED BY <1>11, <2>1, <2>2, <3>2, <3>3 DEF c
  <2>3. CASE u # v
    <3>1. \A q \in Requests(u, check[u]) : q \in Request /\ q # r
      BY <2>1, <2>3, Shapes DEF v
    <3>2. Handled(u)' = Handled(u)
      BY <1>1, <1>2, <3>1 DEF Handled
    <3>3. completed'[u] = completed[u]
      BY <1>1, <2>1, <2>3 DEF IInv, TypeOK
    <3> QED BY <1>2, <2>1, <3>1, <3>2, <3>3 DEF IInv, RunnersInv
  <2> QED BY <2>2, <2>3
<1>14. AtWorkInv'
  <2> SUFFICES ASSUME pc' = "next"
               PROVE  \A q \in Requests(current', check'[current']) :
                        q \notin inflight' /\ (client_enabled' => q \notin Queued')
    BY <1>1 DEF AtWorkInv
  <2>1. LastResponse(v) /\ current' = v /\ check'[v] = c
    BY <1>1 DEF c
  <2>2. Cardinality(Handled(v)') = Cardinality(Requests(v, c))
    BY <1>10, <1>11, <2>1 DEF LastResponse, c
  <2>3. Handled(v)' = Requests(v, c)
    BY <1>10, <1>11, <2>2, FS_Subset
  <2>4. \A q \in Requests(v, c) : fate'[q] = "handled" /\ q \in Request
    BY <1>10, <1>11, <2>3
  <2>5. \A q \in Request : fate'[q] = "accepted" <=> q \in Queued' \cup inflight'
    BY <1>2 DEF Contract!ContractInv, Queued
  <2> QED BY <2>1, <2>4, <2>5
<1>15. SentInv'
  <2>1. \A q \in AuditRequest : q.url \in Url
    BY Shapes
  <2>2. pc = "poll" /\ pc' # "launch"
    BY <1>1
  <2> QED BY <1>1, <1>2, <1>7, <2>1, <2>2 DEF IInv, SentInv
<1>16. ChainInv'
  <2>1. \A u \in Url : fate'[Crawl(u)] = fate[Crawl(u)]
    BY <1>2, <1>3, Shapes
  <2>2. \A q \in AuditRequest : fate[q] = "new" => fate'[q] = "new"
    BY <1>2, Shapes
  <2> QED BY <1>1, <1>7, <2>1, <2>2, ChainKept
<1>17. FreedInv'
  <2>1. ASSUME NEW q \in freed', q.kind = "probe" PROVE fate'[q] \in {"handled", "rejected"}
    <3>1. q \in Request /\ q # r
      BY <1>1, <2>1 DEF IInv, TypeOK
    <3> QED BY <1>1, <1>2, <2>1, <3>1 DEF IInv, FreedInv
  <2>2. ASSUME NEW q \in freed' \cap AuditRequest
        PROVE  /\ fate'[Crawl(q.url)] = "handled" /\ q.url \notin ToSet(audit_queue')
               /\ q.check < check'[q.url] \/ ~Auditing(q.url)'
    <3>1. q \in freed \cap AuditRequest /\ q.url \in Url
      BY <1>1, Shapes
    <3>2. fate'[Crawl(q.url)] = fate[Crawl(q.url)]
      BY <1>2, <1>3, <3>1, Shapes
    <3> QED BY <1>1, <1>7, <3>1, <3>2 DEF IInv, FreedInv
  <2> QED BY <1>1, <2>1, <2>2 DEF IInv, FreedInv
<1>18. SeenInv'
  <2>1. \A u \in Url : fate'[Crawl(u)] = fate[Crawl(u)]
    BY <1>2, <1>3, Shapes
  <2>2. current' \in seen' \cup {NoUrl}
    BY <1>1, <1>4, <1>5, <1>8
  <2> QED BY <1>1, <1>5, <1>8, <2>1, <2>2 DEF IInv, SeenInv, TypeOK
<1>19. LoopInv'
  <2>1. pc' = "next" => current' \in runners'
    BY <1>1, <1>4
  <2>2. pc' = "poll" \/ pc' = "next"
    BY <1>1
  <2> QED BY <1>1, <1>2, <2>1, <2>2 DEF IInv, LoopInv, Passed, AuditStep
<1> QED BY <1>2, <1>12, <1>13, <1>14, <1>15, <1>16, <1>17, <1>18, <1>19 DEF IInv

-----------------------------------------------------------------------------
(* The probe and crawl stages.                                             *)

\* What a call of Schedule changes in the client.
LEMMA ScheduleFacts ==
  ASSUME IInv, NEW r \in Request, Client!Schedule(r)
  PROVE  /\ Contract!ContractInv'
         /\ fate[r] = "new" /\ r \notin Queued /\ r \notin inflight
         /\ UNCHANGED <<client_enabled, inflight>>
         /\ client_enabled =>
              Queued' = Queued \cup {r} /\ fate'[r] = "accepted" /\ schedule_queue' # <<>>
         /\ ~client_enabled =>
              /\ UNCHANGED schedule_queue /\ Queued' = Queued
              /\ fate'[r] = "rejected"
         /\ \A q \in Request : q # r => fate'[q] = fate[q]
<1>1. Contract!Schedule(r)
  BY DEF Client!Schedule, Contract!Schedule
<1>2. /\ Contract!ContractInv'
      /\ fate[r] = "new" /\ r \notin Queued /\ r \notin inflight
      /\ UNCHANGED <<client_enabled, inflight>>
      /\ client_enabled => Queued' = Queued \cup {r} /\ fate' = [fate EXCEPT ![r] = "accepted"]
      /\ ~client_enabled =>
           /\ UNCHANGED schedule_queue /\ Queued' = Queued
           /\ fate' = [fate EXCEPT ![r] = "rejected"]
  BY <1>1, Contract!ScheduleEffect DEF IInv, Queued
<1>3. client_enabled => schedule_queue' # <<>>
  BY <1>2, ClientTypesNext
<1> QED BY <1>2, <1>3 DEF IInv, TypeOK

\* A URL leaves the probe queue.
LEMMA ProbeStageIInv == ASSUME IInv, ProbeStage PROVE IInv'
<1>1. /\ UNCHANGED <<clientVars, seen, crawl_queue, audit_queue, probed, runners, check>>
      /\ UNCHANGED <<completed, issues, freed, scan_enabled, deadline, interrupts>>
      /\ pc = "probe" /\ n' = 1
      /\ \/ probe_queue = <<>> /\ pc' = "crawl" /\ UNCHANGED <<current, probe_queue>>
         \/ /\ probe_queue # <<>> /\ current' = Head(probe_queue)
            /\ probe_queue' = Tail(probe_queue) /\ pc' \in {"probing", "probed"}
  BY DEF ProbeStage, audit, control
<1>2. /\ Contract!ContractInv' /\ Queued' = Queued
      /\ UNCHANGED <<client_enabled, schedule_queue, inflight, fate>>
  BY <1>1, Contract!ClientStutter DEF IInv, clientVars, Contract!clientVars, Queued
<1>3. current = NoUrl /\ NoUrl \notin Url
  BY <1>1, ScanAssumption DEF IInv, TypeOK
<1>4. \A u : ~AtWork(u) /\ ~AtWork(u)'
  BY <1>1 DEF AtWork, AuditStep
<1>5. /\ probe_queue' \in Seq(seen)
      /\ \/ probe_queue' = probe_queue /\ probe_queue = <<>> /\ pc' = "crawl" /\ current' = NoUrl
         \/ /\ current' \in seen /\ pc' \in {"probing", "probed"}
            /\ ToSet(probe_queue) = ToSet(probe_queue') \cup {current'}
  <2>1. probe_queue \in Seq(seen)
    BY DEF IInv, TypeOK
  <2>2. CASE probe_queue = <<>>
    BY <1>1, <1>3, <2>1, <2>2
  <2>3. CASE probe_queue # <<>>
    <3>1. /\ Head(probe_queue) \in seen /\ Tail(probe_queue) \in Seq(seen)
          /\ ToSet(probe_queue) = ToSet(Tail(probe_queue)) \cup {Head(probe_queue)}
      BY <2>1, <2>3, ToSetTail
    <3> QED BY <1>1, <2>3, <3>1
  <2> QED BY <2>2, <2>3
<1>6. TypeOK'
  BY <1>1, <1>2, <1>3, <1>5, ClientTypesNext DEF IInv, TypeOK
<1>7. RunnersInv'
  BY <1>1, <1>2, <1>4, RunnersKept
<1>8. AtWorkInv'
  BY <1>1 DEF AtWorkInv
<1>9. SentInv'
  BY <1>1, <1>2, <1>4 DEF IInv, SentInv, Auditing
<1>10. ChainInv'
  BY <1>1, <1>2, <1>4, ChainKept DEF Auditing
<1>11. FreedInv'
  BY <1>1, <1>2, <1>4 DEF IInv, FreedInv, Auditing
<1>12. SeenInv'
  BY <1>1, <1>2, <1>3, <1>5 DEF IInv, SeenInv
<1>13. LoopInv'
  BY <1>1, <1>2, <1>5 DEF IInv, LoopInv, Passed, AuditStep
<1> QED BY <1>2, <1>6, <1>7, <1>8, <1>9, <1>10, <1>11, <1>12, <1>13 DEF IInv

\* One 404 probe is scheduled, or destroyed.
LEMMA ScheduleProbeIInv == ASSUME IInv, ScheduleProbe PROVE IInv'
<1> DEFINE r == Probe(current, n)
<1>1. /\ UNCHANGED <<pc, current, seen, probe_queue, crawl_queue, audit_queue, runners, check>>
      /\ UNCHANGED <<completed, issues, scan_enabled, deadline, interrupts>>
      /\ pc = "probing" /\ n \in Nat /\ n >= 1 /\ n <= NumProbes /\ n' = n + 1
      /\ Client!Schedule(r) /\ current \in Url
      /\ \/ client_enabled /\ probed' = probed \cup {Base[current]} /\ freed' = freed
         \/ ~client_enabled /\ probed' = probed /\ freed' = freed \cup {r}
  BY DEF ScheduleProbe, queues, audit, control, IInv, AtWorkInv, TypeOK
<1>2. r \in Request /\ r.kind = "probe" /\ r \notin AuditRequest /\ \A u \in Url : r # Crawl(u)
  <2>1. n \in 1..NumProbes
    BY <1>1, ScanAssumption
  <2>2. r \in Request /\ r.kind = "probe"
    BY <1>1, <2>1, RequestFacts
  <2> HIDE DEF r
  <2> QED BY <2>2, RequestFacts
<1> HIDE DEF r
<1>3. /\ Contract!ContractInv'
      /\ fate[r] = "new"
      /\ UNCHANGED <<client_enabled, inflight>>
      /\ client_enabled =>
           Queued' = Queued \cup {r} /\ fate'[r] = "accepted" /\ schedule_queue' # <<>>
      /\ ~client_enabled => Queued' = Queued /\ fate'[r] = "rejected"
      /\ \A q \in Request : q # r => fate'[q] = fate[q]
  BY <1>1, <1>2, ScheduleFacts
<1>4. /\ \A u \in Url : fate'[Crawl(u)] = fate[Crawl(u)]
      /\ \A q \in AuditRequest : fate'[q] = fate[q]
  BY <1>2, <1>3, Shapes
<1>5. \A u : ~AtWork(u) /\ ~AtWork(u)'
  BY <1>1 DEF AtWork, AuditStep
<1>6. TypeOK'
  <2>1. probed' \subseteq {Base[u] : u \in Url}
    <3>1. probed \subseteq {Base[u] : u \in Url}
      BY DEF IInv, TypeOK
    <3>2. Base[current] \in {Base[u] : u \in Url}
      BY <1>1
    <3> QED BY <1>1, <3>1, <3>2
  <2>2. freed' \subseteq Request /\ n' \in Nat
    BY <1>1, <1>2 DEF IInv, TypeOK
  <2> QED BY <1>1, <1>3, <2>1, <2>2, ClientTypesNext DEF IInv, TypeOK
<1>7. RunnersInv'
  BY <1>1, <1>4, <1>5, RunnersKept
<1>8. AtWorkInv'
  BY <1>1 DEF AtWorkInv
<1>9. SentInv'
  BY <1>1, <1>2, <1>3, <1>5 DEF IInv, SentInv, Auditing
<1>10. ChainInv'
  BY <1>1, <1>4, <1>5, ChainKept DEF Auditing
<1>11. FreedInv'
  <2>1. \A u \in Url : Crawl(u) \notin freed'
    BY <1>1, <1>2 DEF IInv, FreedInv
  <2>2. ASSUME NEW q \in freed', q.kind = "probe" PROVE fate'[q] \in {"handled", "rejected"}
    <3>1. CASE q = r
      BY <1>1, <1>3, <2>2, <3>1 DEF IInv, FreedInv
    <3>2. CASE q # r
      BY <1>1, <1>3, <2>2, <3>2 DEF IInv, FreedInv, TypeOK
    <3> QED BY <3>1, <3>2
  <2>3. ASSUME NEW q \in freed' \cap AuditRequest
        PROVE  /\ fate'[Crawl(q.url)] = "handled" /\ q.url \notin ToSet(audit_queue')
               /\ q.check < check'[q.url] \/ ~Auditing(q.url)'
    <3>1. q \in freed \cap AuditRequest /\ q.url \in Url
      BY <1>1, <1>2, Shapes
    <3> QED BY <1>1, <1>4, <1>5, <3>1 DEF IInv, FreedInv, Auditing
  <2> QED BY <2>1, <2>2, <2>3 DEF FreedInv
<1>12. SeenInv'
  BY <1>1, <1>4 DEF IInv, SeenInv, TypeOK
<1>13. LoopInv'
  BY <1>1, <1>3 DEF IInv, LoopInv, Passed, AuditStep
<1> QED BY <1>3, <1>6, <1>7, <1>8, <1>9, <1>10, <1>11, <1>12, <1>13 DEF IInv

\* The URL at work joins the crawl queue.
LEMMA AddToCrawlQueueIInv == ASSUME IInv, AddRequestToCrawlQueue PROVE IInv'
<1>1. /\ UNCHANGED <<clientVars, seen, probe_queue, audit_queue, probed, runners, check>>
      /\ UNCHANGED <<completed, issues, freed, scan_enabled, deadline, interrupts>>
      /\ pc = "probed" /\ pc' = "crawl" /\ n' = 1 /\ current' = NoUrl
      /\ crawl_queue' = Append(crawl_queue, current)
      /\ current \in Url /\ current \in seen
  BY DEF AddRequestToCrawlQueue, audit, control, IInv, TypeOK, SeenInv
<1>2. /\ Contract!ContractInv' /\ Queued' = Queued
      /\ UNCHANGED <<client_enabled, schedule_queue, inflight, fate>>
  BY <1>1, Contract!ClientStutter DEF IInv, clientVars, Contract!clientVars, Queued
<1>3. \A u : ~AtWork(u) /\ ~AtWork(u)'
  BY <1>1 DEF AtWork, AuditStep
<1>4. /\ crawl_queue' \in Seq(seen) /\ crawl_queue' # <<>>
      /\ ToSet(crawl_queue') = ToSet(crawl_queue) \cup {current}
  BY <1>1, ToSetAppend DEF IInv, TypeOK
<1>5. TypeOK'
  BY <1>1, <1>2, <1>4, ClientTypesNext DEF IInv, TypeOK
<1>6. RunnersInv'
  BY <1>1, <1>2, <1>3, RunnersKept
<1>7. AtWorkInv'
  BY <1>1 DEF AtWorkInv
<1>8. SentInv'
  BY <1>1, <1>2, <1>3 DEF IInv, SentInv, Auditing
<1>9. ChainInv'
  BY <1>1, <1>2, <1>3, ChainKept DEF Auditing
<1>10. FreedInv'
  BY <1>1, <1>2, <1>3 DEF IInv, FreedInv, Auditing
<1>11. SeenInv'
  BY <1>1, <1>2, <1>4 DEF IInv, SeenInv
<1>12. LoopInv'
  BY <1>1, <1>2, <1>4 DEF IInv, LoopInv, Passed, AuditStep
<1> QED BY <1>2, <1>5, <1>6, <1>7, <1>8, <1>9, <1>10, <1>11, <1>12 DEF IInv

\* The crawl stage schedules the page at the head of its queue, or has none.
LEMMA CrawlStageIInv == ASSUME IInv, CrawlStage PROVE IInv'
<1> DEFINE v == Head(crawl_queue)
<1>1. /\ UNCHANGED <<current, n, seen, probe_queue, audit_queue, probed, runners, check>>
      /\ UNCHANGED <<completed, issues, freed, scan_enabled, deadline, interrupts>>
      /\ pc = "crawl" /\ pc' = "audit"
      /\ \/ crawl_queue = <<>> /\ UNCHANGED <<clientVars, crawl_queue>>
         \/ /\ crawl_queue # <<>> /\ Client!Schedule(Crawl(v))
            /\ crawl_queue' = Tail(crawl_queue)
  BY DEF CrawlStage, audit, control
<1>2. \A u : ~AtWork(u) /\ ~AtWork(u)'
  BY <1>1 DEF AtWork, AuditStep
<1>3. CASE crawl_queue = <<>> /\ UNCHANGED <<clientVars, crawl_queue>>
  <2>1. /\ Contract!ContractInv' /\ Queued' = Queued
        /\ UNCHANGED <<client_enabled, schedule_queue, inflight, fate>>
    BY <1>3, Contract!ClientStutter DEF IInv, clientVars, Contract!clientVars, Queued
  <2>2. TypeOK'
    BY <1>1, <1>3, <2>1 DEF IInv, TypeOK
  <2>3. LoopInv'
    BY <1>1, <1>3, <2>1 DEF IInv, LoopInv, Passed, AuditStep
  <2> QED BY <1>1, <1>3, <2>2, <2>3, MoveIInv DEF AuditStep, queues, audit
<1>4. CASE crawl_queue # <<>> /\ Client!Schedule(Crawl(v)) /\ crawl_queue' = Tail(crawl_queue)
  <2>1. /\ v \in seen /\ v \in Url /\ crawl_queue' \in Seq(seen)
        /\ ToSet(crawl_queue) = ToSet(crawl_queue') \cup {v}
    BY <1>4, ToSetTail DEF IInv, TypeOK
  <2> HIDE DEF v
  <2>2. /\ Contract!ContractInv'
        /\ fate[Crawl(v)] = "new"
        /\ UNCHANGED <<client_enabled, inflight>>
        /\ client_enabled =>
             /\ Queued' = Queued \cup {Crawl(v)} /\ fate'[Crawl(v)] = "accepted"
             /\ schedule_queue' # <<>>
        /\ ~client_enabled => Queued' = Queued /\ fate'[Crawl(v)] = "rejected"
        /\ \A q \in Request : q # Crawl(v) => fate'[q] = fate[q]
    BY <1>4, <2>1, ScheduleFacts, Shapes
  <2>3. /\ \A u \in Url : u # v => fate'[Crawl(u)] = fate[Crawl(u)]
        /\ \A q \in AuditRequest : fate'[q] = fate[q] /\ q # Crawl(v)
    BY <2>1, <2>2, Shapes
  <2>4. TypeOK'
    BY <1>1, <2>1, <2>2, ClientTypesNext DEF IInv, TypeOK
  <2>5. RunnersInv'
    BY <1>1, <1>2, <2>3, RunnersKept
  <2>6. AtWorkInv'
    BY <1>1 DEF AtWorkInv
  <2>7. SentInv'
    BY <1>1, <1>2, <2>2, <2>3 DEF IInv, SentInv, Auditing
  <2>8. ChainInv'
    <3>1. \A u \in Url : fate'[Crawl(u)] = "handled" <=> fate[Crawl(u)] = "handled"
      BY <2>2, <2>3
    <3> QED BY <1>1, <1>2, <2>3, <3>1, ChainKept DEF Auditing
  <2>9. FreedInv'
    <3>1. ASSUME NEW q \in freed', q.kind = "probe" PROVE fate'[q] \in {"handled", "rejected"}
      <4>1. q \in Request /\ q # Crawl(v)
        BY <1>1, <2>1, <3>1, RequestFacts DEF IInv, TypeOK
      <4> QED BY <1>1, <2>2, <3>1, <4>1 DEF IInv, FreedInv
    <3>2. ASSUME NEW q \in freed' \cap AuditRequest
          PROVE  /\ fate'[Crawl(q.url)] = "handled" /\ q.url \notin ToSet(audit_queue')
                 /\ q.check < check'[q.url] \/ ~Auditing(q.url)'
      <4>1. q \in freed \cap AuditRequest /\ q.url \in Url
        BY <1>1, Shapes
      <4>2. fate[Crawl(q.url)] = "handled" /\ q.url # v
        BY <2>2, <4>1 DEF IInv, FreedInv
      <4> QED BY <1>1, <1>2, <2>3, <4>1, <4>2 DEF IInv, FreedInv, Auditing
    <3> QED BY <1>1, <3>1, <3>2 DEF IInv, FreedInv
  <2>10. SeenInv'
    BY <1>1, <2>1, <2>2, <2>3 DEF IInv, SeenInv, TypeOK
  <2>11. ~Nothing'
    BY <2>2 DEF Nothing
  <2>12. LoopInv'
    BY <1>1, <2>2, <2>11 DEF IInv, LoopInv, Passed, AuditStep
  <2> QED BY <2>2, <2>4, <2>5, <2>6, <2>7, <2>8, <2>9, <2>10, <2>12 DEF IInv
<1> QED BY <1>1, <1>3, <1>4

-----------------------------------------------------------------------------
(* The audit stage.                                                        *)

\* A new runner starts with the first check, of which nothing was sent.
LEMMA AuditStageIInv == ASSUME IInv, AuditStage PROVE IInv'
<1> DEFINE v == Head(audit_queue)
<1>1. /\ UNCHANGED <<clientVars, n, seen, probe_queue, crawl_queue, probed, runners, issues>>
      /\ UNCHANGED <<freed, scan_enabled, deadline, interrupts>>
      /\ pc = "audit"
      /\ \/ /\ audit_queue # <<>> /\ current' = v /\ audit_queue' = Tail(audit_queue)
            /\ check' = [check EXCEPT ![v] = 1] /\ completed' = [completed EXCEPT ![v] = 0]
            /\ pc' = "create"
         \/ /\ audit_queue = <<>> \/ ~AuditSlotFree
            /\ pc' = "keep" /\ UNCHANGED <<current, audit_queue, check, completed>>
  BY DEF AuditStage, control
<1>2. /\ Contract!ContractInv' /\ Queued' = Queued
      /\ UNCHANGED <<client_enabled, schedule_queue, inflight, fate>>
  BY <1>1, Contract!ClientStutter DEF IInv, clientVars, Contract!clientVars, Queued
<1>3. current = NoUrl /\ NoUrl \notin Url
  BY <1>1, ScanAssumption DEF IInv, TypeOK
<1>4. CASE /\ audit_queue = <<>> \/ ~AuditSlotFree
           /\ pc' = "keep" /\ UNCHANGED <<current, audit_queue, check, completed>>
  <2>1. TypeOK'
    BY <1>1, <1>2, <1>3, <1>4 DEF IInv, TypeOK
  <2>2. LoopInv'
    BY <1>1, <1>2, <1>4 DEF IInv, LoopInv, Passed, Nothing, AuditStep, AuditSlotFree
  <2> QED BY <1>1, <1>4, <2>1, <2>2, MoveIInv DEF AuditStep, queues, audit
<1>5. CASE /\ audit_queue # <<>> /\ current' = v /\ audit_queue' = Tail(audit_queue)
           /\ check' = [check EXCEPT ![v] = 1] /\ completed' = [completed EXCEPT ![v] = 0]
           /\ pc' = "create"
  <2>1. /\ v \in seen /\ v \in Url /\ audit_queue' \in Seq(seen)
        /\ ToSet(audit_queue) = ToSet(audit_queue') \cup {v}
    BY <1>5, ToSetTail DEF IInv, TypeOK
  <2>2. /\ \A i, j \in DOMAIN audit_queue' : audit_queue'[i] = audit_queue'[j] => i = j
        /\ v \notin ToSet(audit_queue')
    <3> DEFINE q == audit_queue
    <3>1. q \in Seq(seen) /\ q # <<>> /\ \A i, j \in DOMAIN q : q[i] = q[j] => i = j
      BY <1>5 DEF IInv, TypeOK, ChainInv
    <3> HIDE DEF q
    <3>2. /\ Len(q) \in Nat /\ DOMAIN q = 1..Len(q) /\ Len(q) >= 1
          /\ Head(q) = q[1] /\ DOMAIN Tail(q) = 1..(Len(q) - 1)
          /\ \A i \in 1..(Len(q) - 1) : Tail(q)[i] = q[i + 1]
      BY <3>1
    <3>3. \A i, j \in DOMAIN Tail(q) : Tail(q)[i] = Tail(q)[j] => i = j
      BY <3>1, <3>2
    <3>4. \A i \in DOMAIN Tail(q) : Tail(q)[i] # Head(q)
      BY <3>1, <3>2
    <3> QED BY <1>5, <3>3, <3>4 DEF q, ToSet
  <2> HIDE DEF v
  <2>3. fate[Crawl(v)] = "handled" /\ ~Auditing(v) /\ v \notin runners
    BY <2>1 DEF IInv, ChainInv, Auditing
  <2>4. \A q \in AuditRequest : q.url = v => fate[q] = "new"
    BY <2>1 DEF IInv, ChainInv
  <2>5. /\ check'[v] = 1 /\ completed'[v] = 0 /\ 1 \in Check
        /\ \A u \in Url : u # v => check'[u] = check[u] /\ completed'[u] = completed[u]
    BY <1>5, <2>1, ScanAssumption DEF IInv, TypeOK, Check
  <2>6. \A u \in Url : ~AtWork(u) /\ (AtWork(u)' <=> u = v)
    BY <1>1, <1>5 DEF AtWork, AuditStep
  <2>7. TypeOK'
    <3>1. check' \in [Url -> Check] /\ completed' \in [Url -> Nat]
      BY <1>5, <2>5 DEF IInv, TypeOK
    <3> QED BY <1>1, <1>2, <1>3, <1>5, <2>1, <3>1, ClientTypesNext DEF IInv, TypeOK
  <2>8. RunnersInv'
    <3> SUFFICES ASSUME NEW u \in runners', ~AtWork(u)'
                 PROVE  /\ completed'[u] = Cardinality(Handled(u)')
                        /\ completed'[u] < Generated[u][check'[u]]
                        /\ \A q \in Requests(u, check'[u]) : fate'[q] # "new"
      BY DEF RunnersInv
    <3>1. /\ u \in Url /\ u \in runners /\ ~AtWork(u)
          /\ check'[u] = check[u] /\ completed'[u] = completed[u]
      BY <1>1, <2>3, <2>5, <2>6 DEF IInv, TypeOK
    <3>2. Handled(u)' = Handled(u)
      BY <1>2, <3>1 DEF Handled
    <3> QED BY <1>2, <3>1, <3>2 DEF IInv, RunnersInv
  <2>9. AtWorkInv'
    <3>1. \A q \in Requests(v, 1) : fate'[q] = "new"
      BY <1>2, <2>1, <2>4, <2>5, Shapes
    <3> QED BY <1>5, <2>5, <3>1 DEF AtWorkInv
  <2>10. ASSUME NEW q \in AuditRequest, q \in inflight \cup Queued
         PROVE  q.url # v /\ q.url \in Url
    <3>1. fate[q] = "accepted" /\ q.url \in Url
      BY <2>10, Shapes DEF IInv, Contract!ContractInv, Queued
    <3> QED BY <2>4, <3>1
  <2>11. SentInv'
    BY <1>1, <1>2, <1>5, <2>5, <2>6, <2>10 DEF IInv, SentInv, Auditing
  <2>12. ChainInv'
    <3>1. ToSet(audit_queue') \subseteq Url
      BY <2>1 DEF IInv, TypeOK, ToSet
    <3>2. \A u \in ToSet(audit_queue') : fate'[Crawl(u)] = "handled" /\ ~Auditing(u)'
      BY <1>1, <1>2, <2>1, <2>2, <2>6, <3>1 DEF IInv, ChainInv, Auditing
    <3>3. \A u \in Url : Auditing(u)' => fate'[Crawl(u)] = "handled"
      BY <1>1, <1>2, <2>3, <2>6 DEF IInv, ChainInv, Auditing
    <3>4. \A q \in AuditRequest :
            \/ fate'[Crawl(q.url)] # "handled"
            \/ q.url \in ToSet(audit_queue')
            \/ q.check > check'[q.url]
            => fate'[q] = "new"
      BY <1>2, <2>1, <2>4, <2>5, Shapes DEF IInv, ChainInv
    <3> QED BY <2>2, <3>2, <3>3, <3>4 DEF ChainInv
  <2>13. FreedInv'
    <3>1. ASSUME NEW q \in freed' \cap AuditRequest
          PROVE  /\ fate'[Crawl(q.url)] = "handled" /\ q.url \notin ToSet(audit_queue')
                 /\ q.check < check'[q.url] \/ ~Auditing(q.url)'
      <4>1. q \in freed \cap AuditRequest /\ q.url \in Url
        BY <1>1, Shapes
      <4>2. q.url # v
        BY <2>1, <4>1 DEF IInv, FreedInv
      <4> QED BY <1>1, <1>2, <2>1, <2>5, <2>6, <4>1, <4>2 DEF IInv, FreedInv, Auditing
    <3> QED BY <1>1, <1>2, <3>1 DEF IInv, FreedInv
  <2>14. SeenInv'
    BY <1>1, <1>2, <1>3, <1>5, <2>1 DEF IInv, SeenInv
  <2>15. LoopInv'
    BY <1>1, <1>2, <1>5, <2>5 DEF IInv, LoopInv, Passed, Nothing, AuditStep
  <2> QED BY <1>2, <2>7, <2>8, <2>9, <2>11, <2>12, <2>13, <2>14, <2>15 DEF IInv
<1> QED BY <1>1, <1>4, <1>5

\* The requests of a check are created, or the check is skipped.
LEMMA RunCheckIInv == ASSUME IInv, RunCheck PROVE IInv'
<1> DEFINE c == check[current]
<1>1. /\ UNCHANGED <<clientVars, current, seen, probe_queue, crawl_queue, audit_queue, probed>>
      /\ UNCHANGED <<runners, check, completed, issues, freed, scan_enabled, deadline, interrupts>>
      /\ pc = "create" /\ n' = 1 /\ pc' \in {"schedule", "next"}
      /\ pc' = "schedule" => c = 1 \/ Generated[current][c] > 0
      /\ pc' = "next" => c # 1
  BY ScanAssumption DEF RunCheck, queues, audit, control
<1>2. /\ Contract!ContractInv' /\ Queued' = Queued
      /\ UNCHANGED <<client_enabled, schedule_queue, inflight, fate>>
  BY <1>1, Contract!ClientStutter DEF IInv, clientVars, Contract!clientVars, Queued
<1>3. current \in Url /\ c \in Check
  BY <1>1 DEF IInv, TypeOK
<1> HIDE DEF c
<1>4. \A u : AtWork(u)' <=> AtWork(u)
  BY <1>1 DEF AtWork, AuditStep
<1>5. \A q \in Requests(current, c) : q \in AuditRequest /\ q \in Request /\ fate[q] = "new"
  BY <1>1, <1>3, Shapes DEF IInv, AtWorkInv, c
<1>6. TypeOK'
  BY <1>1, <1>2, ClientTypesNext DEF IInv, TypeOK
<1>7. RunnersInv'
  BY <1>1, <1>2, <1>4, RunnersKept
<1>8. AtWorkInv'
  <2>1. CASE pc' = "schedule"
    <3>1. Generated[current][c] \in Nat /\ Generated[current][c] > 0
      BY <1>1, <1>3, <2>1, ScanAssumption
    <3>2. \A q \in Requests(current, c) : ~(q.n < 1)
      BY <1>3, <1>5, AuditFacts
    <3>3. completed'[current] = 0
      BY <1>1 DEF IInv, AtWorkInv
    <3> QED BY <1>1, <1>2, <1>5, <2>1, <3>1, <3>2, <3>3 DEF AtWorkInv, c
  <2>2. CASE pc' = "next"
    <3>1. \A q \in Requests(current, c) : q \notin inflight /\ q \notin Queued
      BY <1>5 DEF IInv, Contract!ContractInv, Queued
    <3> QED BY <1>1, <1>2, <2>2, <3>1 DEF AtWorkInv, c
  <2> QED BY <1>1, <2>1, <2>2
<1>9. SentInv'
  BY <1>1, <1>2, <1>4 DEF IInv, SentInv, Auditing
<1>10. ChainInv'
  BY <1>1, <1>2, <1>4, ChainKept DEF Auditing
<1>11. FreedInv'
  BY <1>1, <1>2, <1>4 DEF IInv, FreedInv, Auditing
<1>12. SeenInv'
  BY <1>1, <1>2 DEF IInv, SeenInv
<1>13. LoopInv'
  <2>1. current \notin runners /\ Nothing => c = 1
    BY <1>1 DEF IInv, LoopInv, AuditStep, c
  <2> QED BY <1>1, <1>2, <2>1 DEF IInv, LoopInv, Passed, Nothing, AuditStep, c
<1> QED BY <1>2, <1>6, <1>7, <1>8, <1>9, <1>10, <1>11, <1>12, <1>13 DEF IInv

\* One request of the check at work is scheduled, or rejected.
LEMMA ScheduleAuditIInv == ASSUME IInv, ScheduleAudit PROVE IInv'
<1> DEFINE v == current
           c == check[v]
           r == Audit(v, c, n)
<1>1. /\ UNCHANGED <<current, seen, probe_queue, crawl_queue, audit_queue, probed, runners>>
      /\ UNCHANGED <<check, completed, issues, freed, scan_enabled, deadline, interrupts>>
      /\ pc = "schedule" /\ n <= Generated[v][c] /\ n' = n + 1
      /\ Client!Schedule(r)
      /\ pc' \in {"schedule", "next"} /\ (pc' = "next" => ~client_enabled)
  BY DEF ScheduleAudit, queues, audit, control
<1>2. /\ v \in Url /\ c \in Check /\ Generated[v][c] \in Nat /\ n \in 1..Generated[v][c]
      /\ completed[v] = 0 /\ Generated[v][c] > 0
      /\ \A q \in Requests(v, c) :
           /\ q.n < n => fate[q] \in {"accepted", "rejected"} /\ q \notin inflight
           /\ q.n >= n => fate[q] = "new"
  <2>1. v \in Url /\ c \in Check
    BY <1>1 DEF IInv, TypeOK
  <2>2. Generated[v][c] \in Nat
    BY <2>1, ScanAssumption
  <2> QED BY <1>1, <2>1, <2>2 DEF IInv, AtWorkInv
<1>3. /\ r \in AuditRequest /\ r \in Request /\ r.url = v /\ r.check = c
      /\ \A q \in Requests(v, c) : q.n \in Nat /\ (q.n = n => q = r)
  <2>1. r \in AuditRequest /\ r.url = v /\ r.check = c
    BY <1>2, AuditFacts
  <2>2. \A q \in Requests(v, c) : q \in AuditRequest /\ q.url = v /\ q.check = c
    BY <1>2, Shapes
  <2>3. \A q \in Requests(v, c) : q.n \in Nat /\ q = Audit(v, c, q.n)
    BY <2>2, AuditFacts
  <2> QED BY <2>1, <2>3, Shapes
<1> HIDE DEF r
<1>4. /\ Contract!ContractInv'
      /\ fate[r] = "new" /\ r \notin inflight
      /\ UNCHANGED <<client_enabled, inflight>>
      /\ client_enabled =>
           Queued' = Queued \cup {r} /\ fate'[r] = "accepted" /\ schedule_queue' # <<>>
      /\ ~client_enabled => Queued' = Queued /\ fate'[r] = "rejected"
      /\ \A q \in Request : q # r => fate'[q] = fate[q]
  BY <1>1, <1>3, ScheduleFacts
<1>5. \A u : AtWork(u)' <=> AtWork(u)
  BY <1>1 DEF AtWork, AuditStep
<1>6. AtWork(v) /\ Auditing(v)
  BY <1>1 DEF AtWork, AuditStep, Auditing
<1>7. /\ \A u \in Url : fate'[Crawl(u)] = fate[Crawl(u)]
      /\ \A q \in AuditRequest : q # r => fate'[q] = fate[q]
  BY <1>3, <1>4, Shapes
<1>8. TypeOK'
  <2>1. n' \in Nat
    BY <1>1, <1>2
  <2> QED BY <1>1, <1>4, <2>1, ClientTypesNext DEF IInv, TypeOK
<1>9. RunnersInv'
  <2>1. \A q \in AuditRequest : /\ fate'[q] = "handled" <=> fate[q] = "handled"
                                /\ fate'[q] = "new" => fate[q] = "new"
    BY <1>4, <1>7
  <2> QED BY <1>1, <1>5, <2>1, RunnersKept
<1>10. AtWorkInv'
  <2>1. completed'[current'] = 0
    BY <1>1, <1>2
  <2>2. \A q \in Requests(v, c) : q \in Request
    BY <1>2, Shapes
  <2>3. n' \in 1..(Generated[v][c] + 1)
    BY <1>1, <1>2
  <2>4. ASSUME NEW q \in Requests(v, c)
        PROVE  /\ q.n < n' => fate'[q] \in {"accepted", "rejected"} /\ q \notin inflight'
               /\ q.n >= n' => fate'[q] = "new"
    <3>1. CASE q = r
      <4>1. r.n = n
        BY <1>2, AuditFacts DEF r
      <4> QED BY <1>1, <1>2, <1>4, <3>1, <4>1
    <3>2. CASE q # r
      <4>1. q.n \in Nat /\ q.n # n /\ n \in Nat
        BY <1>2, <1>3, <3>2
      <4>2. q.n < n' => q.n < n
        BY <1>1, <4>1
      <4>3. q.n >= n' => q.n >= n
        BY <1>1, <4>1
      <4>4. fate'[q] = fate[q]
        BY <1>4, <2>2, <3>2
      <4> QED BY <1>2, <1>4, <4>2, <4>3, <4>4
    <3> QED BY <3>1, <3>2
  <2>5. ASSUME pc' = "next", NEW q \in Requests(v, c) PROVE q \notin inflight' /\ ~client_enabled'
    <3>1. q \notin inflight
      <4>1. q.n < n \/ q.n >= n
        BY <1>2, <1>3
      <4>2. fate[q] = "new" => q \notin inflight
        BY <2>2 DEF IInv, Contract!ContractInv
      <4> QED BY <1>2, <4>1, <4>2
    <3> QED BY <1>1, <1>4, <2>5, <3>1
  <2> QED BY <1>1, <1>2, <2>1, <2>3, <2>4, <2>5 DEF AtWorkInv
<1>11. SentInv'
  BY <1>1, <1>3, <1>4, <1>5, <1>6 DEF IInv, SentInv, Auditing
<1>12. ChainInv'
  <2>1. ToSet(audit_queue') = ToSet(audit_queue) /\ ToSet(audit_queue) \subseteq Url
    BY <1>1 DEF IInv, TypeOK, ToSet
  <2>2. v \notin ToSet(audit_queue) /\ fate[Crawl(v)] = "handled"
    BY <1>2, <1>6 DEF IInv, ChainInv
  <2>3. \A u \in ToSet(audit_queue') : fate'[Crawl(u)] = "handled" /\ ~Auditing(u)'
    BY <1>1, <1>5, <1>7, <2>1 DEF IInv, ChainInv, Auditing
  <2>4. \A u \in Url : Auditing(u)' => fate'[Crawl(u)] = "handled"
    BY <1>1, <1>5, <1>7 DEF IInv, ChainInv, Auditing
  <2>5. ASSUME NEW q \in AuditRequest,
               \/ fate'[Crawl(q.url)] # "handled"
               \/ q.url \in ToSet(audit_queue')
               \/ q.check > check'[q.url]
        PROVE  fate'[q] = "new"
    <3>1. q.url \in Url
      BY Shapes
    <3>2. CASE q = r
      <4>1. c \in Nat
        BY <1>2, ScanAssumption DEF Check
      <4>2. ~(q.check > check'[q.url])
        BY <1>1, <1>3, <3>2, <4>1
      <4> QED BY <1>2, <1>3, <1>7, <2>1, <2>2, <2>5, <3>2, <4>2
    <3>3. CASE q # r
      BY <1>1, <1>7, <2>1, <2>5, <3>1, <3>3 DEF IInv, ChainInv
    <3> QED BY <3>2, <3>3
  <2>6. \A i, j \in DOMAIN audit_queue' : audit_queue'[i] = audit_queue'[j] => i = j
    BY <1>1 DEF IInv, ChainInv
  <2> QED BY <2>3, <2>4, <2>5, <2>6 DEF ChainInv
<1>13. FreedInv'
  <2>1. ASSUME NEW q \in freed', q.kind = "probe" PROVE fate'[q] \in {"handled", "rejected"}
    <3>1. q \in Request /\ q # r
      BY <1>1, <1>3, <2>1, RequestFacts DEF IInv, TypeOK
    <3> QED BY <1>1, <1>4, <2>1, <3>1 DEF IInv, FreedInv
  <2>2. ASSUME NEW q \in freed' \cap AuditRequest
        PROVE  /\ fate'[Crawl(q.url)] = "handled" /\ q.url \notin ToSet(audit_queue')
               /\ q.check < check'[q.url] \/ ~Auditing(q.url)'
    <3>1. q \in freed \cap AuditRequest /\ q.url \in Url
      BY <1>1, Shapes
    <3> QED BY <1>1, <1>5, <1>7, <3>1 DEF IInv, FreedInv, Auditing
  <2> QED BY <1>1, <2>1, <2>2 DEF IInv, FreedInv
<1>14. SeenInv'
  BY <1>1, <1>7 DEF IInv, SeenInv, TypeOK
<1>15. LoopInv'
  <2>1. ~Nothing'
    BY <1>4 DEF Nothing
  <2> QED BY <1>1, <1>4, <2>1 DEF IInv, LoopInv, AuditStep
<1> QED BY <1>4, <1>8, <1>9, <1>10, <1>11, <1>12, <1>13, <1>14, <1>15 DEF IInv

\* All requests of a check are scheduled: its runner is in the list, and waits.
LEMMA CheckScheduledIInv == ASSUME IInv, CheckScheduled PROVE IInv'
<1>0. PICK v : v = current
  OBVIOUS
<1> DEFINE c == check[v]
<1>1. /\ UNCHANGED <<clientVars, seen, probe_queue, crawl_queue, audit_queue, probed>>
      /\ UNCHANGED <<check, completed, issues, freed, scan_enabled, deadline, interrupts>>
      /\ pc = "schedule" /\ n > Generated[v][c] /\ n' = 1
      /\ runners' = runners \cup {v} /\ current' = NoUrl
      /\ pc' = IF v \in runners THEN "poll" ELSE "keep"
  BY <1>0 DEF CheckScheduled, Return, queues, control
<1>2. /\ Contract!ContractInv' /\ Queued' = Queued
      /\ UNCHANGED <<client_enabled, schedule_queue, inflight, fate>>
  BY <1>1, Contract!ClientStutter DEF IInv, clientVars, Contract!clientVars, Queued
<1>3. /\ v \in Url /\ v \in seen /\ v # NoUrl /\ c \in Check /\ n \in Nat
      /\ Generated[v][c] \in Nat /\ Generated[v][c] > 0 /\ completed[v] = 0
      /\ \A q \in Requests(v, c) : q.n < n => fate[q] \in {"accepted", "rejected"}
  <2>1. v \in Url /\ v \in seen /\ v # NoUrl /\ c \in Check /\ n \in Nat
    BY <1>0, <1>1, ScanAssumption DEF IInv, TypeOK, SeenInv
  <2>2. Generated[v][c] \in Nat
    BY <2>1, ScanAssumption
  <2> QED BY <1>0, <1>1, <2>1, <2>2 DEF IInv, AtWorkInv
<1>4. \A q \in Requests(v, c) : fate[q] \in {"accepted", "rejected"}
  <2>1. \A q \in Requests(v, c) : q.n \in 1..Generated[v][c]
    <3>1. \A q \in Requests(v, c) : q \in AuditRequest /\ q.url = v /\ q.check = c
      BY <1>3, Shapes
    <3> QED BY <3>1, AuditFacts
  <2> QED BY <1>1, <1>3, <2>1
<1>5. \A u \in Url : ~AtWork(u)' /\ (AtWork(u) <=> u = v)
  BY <1>0, <1>1, <1>3 DEF AtWork, AuditStep
<1>6. \A u \in Url : Auditing(u)' <=> Auditing(u)
  BY <1>1, <1>5 DEF Auditing
<1>7. TypeOK'
  BY <1>1, <1>2, <1>3, ClientTypesNext DEF IInv, TypeOK
<1>8. RunnersInv'
  <2> SUFFICES ASSUME NEW u \in runners'
               PROVE  /\ completed'[u] = Cardinality(Handled(u)')
                      /\ completed'[u] < Generated[u][check'[u]]
                      /\ \A q \in Requests(u, check'[u]) : fate'[q] # "new"
    BY DEF RunnersInv
  <2>1. CASE u = v
    <3>1. Handled(v)' = {}
      BY <1>1, <1>2, <1>4 DEF Handled
    <3>2. Cardinality({}) = 0
      BY FS_EmptySet
    <3> QED BY <1>1, <1>2, <1>3, <1>4, <2>1, <3>1, <3>2
  <2>2. CASE u # v
    <3>1. u \in runners /\ u \in Url
      BY <1>1, <2>2 DEF IInv, TypeOK
    <3>2. Handled(u)' = Handled(u)
      BY <1>1, <1>2 DEF Handled
    <3> QED BY <1>1, <1>2, <1>5, <2>2, <3>1, <3>2 DEF IInv, RunnersInv
  <2> QED BY <2>1, <2>2
<1>9. AtWorkInv'
  BY <1>1 DEF AtWorkInv
<1>10. SentInv'
  BY <1>1, <1>2, <1>6, Shapes DEF IInv, SentInv
<1>11. ChainInv'
  BY <1>1, <1>2, <1>6, ChainKept
<1>12. FreedInv'
  BY <1>1, <1>2, <1>6, Shapes DEF IInv, FreedInv
<1>13. SeenInv'
  BY <1>0, <1>1, <1>2 DEF IInv, SeenInv
<1>14. LoopInv'
  <2>1. v \notin runners => ~Nothing
    BY <1>0, <1>1, <1>3 DEF IInv, LoopInv, AuditStep
  <2>2. Nothing' = Nothing
    BY <1>2 DEF Nothing
  <2> QED BY <1>1, <1>2, <2>1, <2>2 DEF IInv, LoopInv, Passed, AuditStep
<1> QED BY <1>2, <1>7, <1>8, <1>9, <1>10, <1>11, <1>12, <1>13, <1>14 DEF IInv

\* The runner at work leaves its check: nothing of the check is in flight, nothing
\* of it is queued in a client that would start it, and its requests are destroyed.
LEMMA LeaveFacts ==
  ASSUME IInv, pc = "next", NEW v, v = current, freed' = freed \cup Requests(v, check[v])
  PROVE  /\ v \in Url /\ v \in seen /\ v # NoUrl /\ check[v] \in Check /\ AtWork(v)
         /\ fate[Crawl(v)] = "handled" /\ v \notin ToSet(audit_queue)
         /\ \A q \in Requests(v, check[v]) : /\ q \in AuditRequest /\ q.url = v /\ q.check = check[v]
                                             /\ q \in Request
         /\ \A q \in AuditRequest : q \in inflight => q.url # v
         /\ \A q \in AuditRequest : q \in Queued /\ client_enabled => q.url # v
         /\ freed' \subseteq Request
         /\ \A u \in Url : Crawl(u) \notin freed'
         /\ \A q \in freed' : q.kind = "probe" => fate[q] \in {"handled", "rejected"}
         /\ v \notin runners => ~Nothing
<1>1. v \in Url /\ v \in seen /\ v # NoUrl /\ check[v] \in Check /\ AtWork(v)
  BY ScanAssumption DEF IInv, TypeOK, SeenInv, AtWork, AuditStep
<1>2. fate[Crawl(v)] = "handled" /\ v \notin ToSet(audit_queue)
  BY <1>1 DEF IInv, ChainInv, Auditing
<1>3. \A q \in Requests(v, check[v]) :
        q \in AuditRequest /\ q.url = v /\ q.check = check[v] /\ q \in Request
  BY <1>1, Shapes
<1>4. \A q \in Requests(v, check[v]) : q \notin inflight /\ (client_enabled => q \notin Queued)
  BY DEF IInv, AtWorkInv
<1>5. \A q \in AuditRequest : q.url = v /\ q.check = check[v] => q \in Requests(v, check[v])
  BY Shapes
<1>6. \A q \in AuditRequest : q \in inflight => q.url # v
  BY <1>4, <1>5 DEF IInv, SentInv
<1>7. \A q \in AuditRequest : q \in Queued /\ client_enabled => q.url # v
  BY <1>4, <1>5 DEF IInv, SentInv
<1>8. freed' \subseteq Request
  BY <1>3 DEF IInv, TypeOK
<1>9. \A u \in Url : Crawl(u) \notin freed'
  BY <1>3, Shapes DEF IInv, FreedInv
<1>10. \A q \in freed' : q.kind = "probe" => fate[q] \in {"handled", "rejected"}
  <2>1. \A q \in Requests(v, check[v]) : q.kind = "audit"
    BY <1>3, AuditFacts
  <2> QED BY <2>1 DEF IInv, FreedInv
<1>11. v \notin runners => ~Nothing
  BY DEF IInv, LoopInv, AuditStep
<1> QED BY <1>1, <1>2, <1>3, <1>6, <1>7, <1>8, <1>9, <1>10, <1>11

\* The runner goes on to the next check of the chain.
LEMMA SetNextCheckIInv == ASSUME IInv, SetNextCheck PROVE IInv'
<1>0. PICK v : v = current
  OBVIOUS
<1>1. /\ UNCHANGED <<clientVars, current, seen, probe_queue, crawl_queue, audit_queue, probed>>
      /\ UNCHANGED <<runners, issues, scan_enabled, deadline, interrupts>>
      /\ pc = "next" /\ pc' = "create" /\ n' = 1 /\ check[v] < NumChecks
      /\ freed' = freed \cup Requests(v, check[v])
      /\ check' = [check EXCEPT ![v] = @ + 1] /\ completed' = [completed EXCEPT ![v] = 0]
  BY <1>0 DEF SetNextCheck, MoveOn, queues, control
<1>2. /\ Contract!ContractInv' /\ Queued' = Queued
      /\ UNCHANGED <<client_enabled, schedule_queue, inflight, fate>>
  BY <1>1, Contract!ClientStutter DEF IInv, clientVars, Contract!clientVars, Queued
<1>3. /\ v \in Url /\ v \in seen /\ v # NoUrl /\ check[v] \in Check /\ AtWork(v)
      /\ fate[Crawl(v)] = "handled" /\ v \notin ToSet(audit_queue)
      /\ \A q \in Requests(v, check[v]) : q \in AuditRequest /\ q.url = v /\ q.check = check[v]
      /\ \A q \in AuditRequest : q \in inflight => q.url # v
      /\ \A q \in AuditRequest : q \in Queued /\ client_enabled => q.url # v
      /\ freed' \subseteq Request
      /\ \A u \in Url : Crawl(u) \notin freed'
      /\ \A q \in freed' : q.kind = "probe" => fate[q] \in {"handled", "rejected"}
      /\ v \notin runners => ~Nothing
  BY <1>0, <1>1, LeaveFacts
<1>4. /\ check'[v] = check[v] + 1 /\ check'[v] \in Check /\ check[v] \in Nat
      /\ completed'[v] = 0
      /\ \A u \in Url : u # v => check'[u] = check[u] /\ completed'[u] = completed[u]
  <2>1. NumChecks \in Nat /\ check[v] \in 1..NumChecks /\ check \in [Url -> 1..NumChecks]
        /\ completed \in [Url -> Nat]
    BY <1>3, ScanAssumption DEF IInv, TypeOK, Check
  <2>2. /\ check'[v] = check[v] + 1 /\ completed'[v] = 0
        /\ \A u \in Url : u # v => check'[u] = check[u] /\ completed'[u] = completed[u]
    BY <1>1, <1>3, <2>1
  <2>3. check[v] + 1 \in 1..NumChecks
    BY <1>1, <2>1
  <2> QED BY <2>1, <2>2, <2>3 DEF Check
<1>5. \A u : (AtWork(u)' <=> AtWork(u)) /\ (AtWork(u) <=> u = v)
  BY <1>0, <1>1 DEF AtWork, AuditStep
<1>6. TypeOK'
  <2>1. check' \in [Url -> Check] /\ completed' \in [Url -> Nat]
    BY <1>1, <1>4 DEF IInv, TypeOK
  <2> QED BY <1>1, <1>2, <1>3, <2>1, ClientTypesNext DEF IInv, TypeOK
<1>7. RunnersInv'
  <2> SUFFICES ASSUME NEW u \in runners', ~AtWork(u)'
               PROVE  /\ completed'[u] = Cardinality(Handled(u)')
                      /\ completed'[u] < Generated[u][check'[u]]
                      /\ \A q \in Requests(u, check'[u]) : fate'[q] # "new"
    BY DEF RunnersInv
  <2>1. /\ u \in Url /\ u \in runners /\ ~AtWork(u)
        /\ check'[u] = check[u] /\ completed'[u] = completed[u]
    BY <1>1, <1>4, <1>5 DEF IInv, TypeOK
  <2>2. Handled(u)' = Handled(u)
    BY <1>2, <2>1 DEF Handled
  <2> QED BY <1>2, <2>1, <2>2 DEF IInv, RunnersInv
<1>8. AtWorkInv'
  <2>1. \A q \in Requests(v, check'[v]) : fate'[q] = "new"
    <3>1. \A q \in Requests(v, check'[v]) : q \in AuditRequest /\ q.url = v /\ q.check > check[v]
      BY <1>3, <1>4, Shapes
    <3> QED BY <1>2, <3>1 DEF IInv, ChainInv
  <2> QED BY <1>0, <1>1, <1>4, <2>1 DEF AtWorkInv
<1>9. SentInv'
  BY <1>1, <1>2, <1>3, <1>4, <1>5, Shapes DEF IInv, SentInv, Auditing
<1>10. ChainInv'
  <2>1. ToSet(audit_queue') = ToSet(audit_queue)
    BY <1>1
  <2>2. \A u \in ToSet(audit_queue') : fate'[Crawl(u)] = "handled" /\ ~Auditing(u)'
    BY <1>1, <1>2, <1>5, <2>1 DEF IInv, ChainInv, Auditing
  <2>3. \A u \in Url : Auditing(u)' => fate'[Crawl(u)] = "handled"
    BY <1>1, <1>2, <1>5 DEF IInv, ChainInv, Auditing
  <2>4. ASSUME NEW q \in AuditRequest,
               \/ fate'[Crawl(q.url)] # "handled"
               \/ q.url \in ToSet(audit_queue')
               \/ q.check > check'[q.url]
        PROVE  fate'[q] = "new"
    <3>1. q.url \in Url /\ q.check \in Nat
      BY Shapes, ScanAssumption DEF Check
    <3>2. q.check > check'[q.url] => q.check > check[q.url]
      BY <1>4, <3>1
    <3> QED BY <1>2, <2>1, <2>4, <3>2 DEF IInv, ChainInv
  <2>5. \A i, j \in DOMAIN audit_queue' : audit_queue'[i] = audit_queue'[j] => i = j
    BY <1>1 DEF IInv, ChainInv
  <2> QED BY <2>2, <2>3, <2>4, <2>5 DEF ChainInv
<1>11. FreedInv'
  <2>1. ASSUME NEW q \in freed' \cap AuditRequest
        PROVE  /\ fate'[Crawl(q.url)] = "handled" /\ q.url \notin ToSet(audit_queue')
               /\ q.check < check'[q.url] \/ ~Auditing(q.url)'
    <3>1. CASE q \in Requests(v, check[v])
      <4>1. q.url = v /\ q.check = check[v]
        BY <1>3, <3>1
      <4>2. q.check < check'[q.url]
        BY <1>4, <4>1
      <4> QED BY <1>1, <1>2, <1>3, <4>1, <4>2
    <3>2. CASE q \in freed
      <4>1. /\ fate[Crawl(q.url)] = "handled" /\ q.url \notin ToSet(audit_queue)
            /\ q.check < check[q.url] \/ ~Auditing(q.url)
        BY <3>2 DEF IInv, FreedInv
      <4>2. q.url \in Url /\ q.check \in Nat /\ (Auditing(q.url)' <=> Auditing(q.url))
        BY <1>1, <1>5, Shapes, ScanAssumption DEF Check, Auditing
      <4>3. q.check < check[q.url] => q.check < check'[q.url]
        BY <1>4, <4>2
      <4> QED BY <1>1, <1>2, <4>1, <4>2, <4>3
    <3> QED BY <1>1, <3>1, <3>2
  <2> QED BY <1>2, <1>3, <2>1 DEF FreedInv
<1>12. SeenInv'
  BY <1>1, <1>2 DEF IInv, SeenInv
<1>13. LoopInv'
  <2>1. Nothing' = Nothing
    BY <1>2 DEF Nothing
  <2> QED BY <1>0, <1>1, <1>2, <1>3, <2>1 DEF IInv, LoopInv, Passed, AuditStep
<1> QED BY <1>2, <1>6, <1>7, <1>8, <1>9, <1>10, <1>11, <1>12, <1>13 DEF IInv

\* The runner has done its last check, and leaves the list.
LEMMA RunnerDoneIInv == ASSUME IInv, RunnerDone PROVE IInv'
<1>0. PICK v : v = current
  OBVIOUS
<1>1. /\ UNCHANGED <<clientVars, seen, probe_queue, crawl_queue, audit_queue, probed>>
      /\ UNCHANGED <<check, completed, issues, scan_enabled, deadline, interrupts>>
      /\ pc = "next" /\ n' = 1 /\ current' = NoUrl
      /\ freed' = freed \cup Requests(v, check[v])
      /\ runners' = runners \ {v}
      /\ pc' = IF v \in runners THEN "poll" ELSE "keep"
  BY <1>0 DEF RunnerDone, Return, queues, control
<1>2. /\ Contract!ContractInv' /\ Queued' = Queued
      /\ UNCHANGED <<client_enabled, schedule_queue, inflight, fate>>
  BY <1>1, Contract!ClientStutter DEF IInv, clientVars, Contract!clientVars, Queued
<1>3. /\ v \in Url /\ v \in seen /\ v # NoUrl /\ check[v] \in Check /\ AtWork(v)
      /\ fate[Crawl(v)] = "handled" /\ v \notin ToSet(audit_queue)
      /\ \A q \in Requests(v, check[v]) : q \in AuditRequest /\ q.url = v /\ q.check = check[v]
      /\ \A q \in AuditRequest : q \in inflight => q.url # v
      /\ \A q \in AuditRequest : q \in Queued /\ client_enabled => q.url # v
      /\ freed' \subseteq Request
      /\ \A u \in Url : Crawl(u) \notin freed'
      /\ \A q \in freed' : q.kind = "probe" => fate[q] \in {"handled", "rejected"}
      /\ v \notin runners => ~Nothing
  BY <1>0, <1>1, LeaveFacts
<1>4. \A u \in Url : ~AtWork(u)' /\ (AtWork(u) <=> u = v)
  BY <1>0, <1>1, <1>3 DEF AtWork, AuditStep
<1>5. \A u \in Url : Auditing(u)' <=> Auditing(u) /\ u # v
  BY <1>1, <1>4 DEF Auditing
<1>6. TypeOK'
  BY <1>1, <1>2, <1>3, ClientTypesNext DEF IInv, TypeOK
<1>7. RunnersInv'
  <2>1. \A u \in runners' : u \in runners /\ ~AtWork(u)
    BY <1>1, <1>4 DEF IInv, TypeOK
  <2> QED BY <1>1, <1>2, <2>1, RunnersKept
<1>8. AtWorkInv'
  BY <1>1 DEF AtWorkInv
<1>9. SentInv'
  BY <1>1, <1>2, <1>3, <1>5, Shapes DEF IInv, SentInv
<1>10. ChainInv'
  BY <1>1, <1>2, <1>5, ChainKept
<1>11. FreedInv'
  <2>1. ASSUME NEW q \in freed' \cap AuditRequest
        PROVE  /\ fate'[Crawl(q.url)] = "handled" /\ q.url \notin ToSet(audit_queue')
               /\ q.check < check'[q.url] \/ ~Auditing(q.url)'
    <3>1. CASE q \in Requests(v, check[v])
      <4>1. q.url = v /\ ~Auditing(v)'
        BY <1>3, <1>5, <3>1
      <4> QED BY <1>1, <1>2, <1>3, <4>1
    <3>2. CASE q \in freed
      BY <1>1, <1>2, <1>5, <3>2, Shapes DEF IInv, FreedInv
    <3> QED BY <1>1, <3>1, <3>2
  <2> QED BY <1>2, <1>3, <2>1 DEF FreedInv
<1>12. SeenInv'
  BY <1>0, <1>1, <1>2 DEF IInv, SeenInv
<1>13. LoopInv'
  <2>1. Nothing' = Nothing
    BY <1>2 DEF Nothing
  <2> QED BY <1>1, <1>2, <1>3, <2>1 DEF IInv, LoopInv, Passed, AuditStep
<1> QED BY <1>2, <1>6, <1>7, <1>8, <1>9, <1>10, <1>11, <1>12, <1>13 DEF IInv

-----------------------------------------------------------------------------
(* The theorems.                                                           *)

\* Every step keeps the invariant.
LEMMA NextIInv == ASSUME IInv, [Next]_vars PROVE IInv'
<1>1. CASE MainThread
  <2>1. CASE TransferEnds
    <3>1. PICK r \in Request :
            FinishUnhandled(r) \/ FinishProbe(r) \/ FinishCrawl(r) \/ FinishAudit(r)
      BY <2>1 DEF TransferEnds
    <3> QED BY <3>1, UncountedIInv, FinishCrawlIInv, FinishAuditIInv
  <2>2. CASE StartNewRequests \/ LaunchDone \/ PollDone \/ ProbesScheduled
    BY <2>2, StageIInv
  <2>3. CASE LaunchRequest \/ DropRequest \/ DisableClient
    BY <2>3, LaunchIInv, DropIInv, DisableIInv
  <2>4. CASE ProbeStage \/ ScheduleProbe \/ AddRequestToCrawlQueue \/ CrawlStage
    BY <2>4, ProbeStageIInv, ScheduleProbeIInv, AddToCrawlQueueIInv, CrawlStageIInv
  <2>5. CASE AuditStage \/ RunCheck \/ ScheduleAudit \/ CheckScheduled
    BY <2>5, AuditStageIInv, RunCheckIInv, ScheduleAuditIInv, CheckScheduledIInv
  <2>6. CASE SetNextCheck \/ RunnerDone
    BY <2>6, SetNextCheckIInv, RunnerDoneIInv
  <2>7. CASE KeepRunningOrShutdown \/ LimitReached \/ SetShutdownTime
    BY <2>7, LoopIInv
  <2> QED BY <1>1, <2>1, <2>2, <2>3, <2>4, <2>5, <2>6, <2>7 DEF MainThread
<1>2. CASE SignalHandler
  BY <1>2, DisableIInv
<1>3. CASE TimePasses \/ UNCHANGED vars
  BY <1>3, IdleIInv
<1> QED BY <1>1, <1>2, <1>3 DEF Next

\* The inductive invariant holds in every state of a scan.
THEOREM ScanInvariant == Spec => []IInv
<1>1. Init => IInv
  BY InitIInv
<1>2. IInv /\ [Next]_vars => IInv'
  BY NextIInv
<1> QED BY <1>1, <1>2, PTL DEF Spec

\* Every variable keeps its type.
THEOREM ScanTypes == Spec => []TypeOK
<1>1. IInv => TypeOK
  BY DEF IInv
<1> QED BY <1>1, ScanInvariant, PTL

\* No request in flight, and none that a client that still starts requests has
\* queued, was destroyed by its runner or by the 404 detector.
THEOREM NoRequestIsUsedAfterFree == Spec => []NoUseAfterFree
<1>1. IInv => NoUseAfterFree
  <2> SUFFICES ASSUME IInv PROVE NoUseAfterFree
    OBVIOUS
  <2>1. ToSet(schedule_queue) = Queued /\ Queued \subseteq Request
    BY ClientTypes DEF IInv, Queued, Contract!Queued, ToSet
  <2>2. ASSUME NEW r \in Request, r \in freed, r \in Queued \cup inflight
        PROVE  r \in AuditRequest
    <3>1. fate[r] = "accepted"
      BY <2>2 DEF IInv, Contract!ContractInv, Queued
    <3>2. r.kind # "probe"
      BY <2>2, <3>1 DEF IInv, FreedInv
    <3>3. r.kind # "crawl"
      BY <2>2, RequestFacts DEF IInv, FreedInv
    <3>4. r.kind \in {"crawl", "probe", "audit"}
      <4>1. CASE r \in {Crawl(u) : u \in Url}
        BY <4>1 DEF Crawl
      <4>2. CASE r \in {Probe(u, i) : u \in Url, i \in 1..NumProbes}
        BY <4>2 DEF Probe
      <4>3. CASE r \in AuditRequest
        BY <4>3, AuditFacts
      <4> QED BY <4>1, <4>2, <4>3 DEF Request
    <3> QED BY <3>2, <3>3, <3>4, RequestFacts
  <2>3. \A r \in freed \cap AuditRequest :
          ~(Auditing(r.url) /\ check[r.url] = r.check)
    <3>1. \A r \in AuditRequest : r.url \in Url /\ check[r.url] \in Nat
      BY Shapes, ScanAssumption DEF IInv, TypeOK, Check
    <3> QED BY <3>1 DEF IInv, FreedInv
  <2>4. inflight \cap freed = {}
    <3>1. inflight \subseteq Request
      BY DEF IInv, TypeOK
    <3> QED BY <2>2, <2>3, <3>1 DEF IInv, SentInv, Auditing
  <2>5. client_enabled \/ pc = "launch" => Queued \cap freed = {}
    BY <2>1, <2>2, <2>3 DEF IInv, SentInv
  <2> QED BY <2>1, <2>4, <2>5 DEF NoUseAfterFree
<1> QED BY <1>1, ScanInvariant, PTL

\* A response reaches the runner that sent the request, and that runner still
\* runs the check of the request.
THEOREM ResponsesAreForTheirCheck == Spec => []ResponsesReachTheirCheck
<1>1. IInv => ResponsesReachTheirCheck
  BY DEF IInv, SentInv, ResponsesReachTheirCheck
<1> QED BY <1>1, ScanInvariant, PTL

\* A runner in the list has counted what it got, and waits for something.
THEOREM RunnersAreWaiting == Spec => []RunnersWaitForResponses
<1>1. IInv => RunnersWaitForResponses
  <2> SUFFICES ASSUME IInv, NEW u \in runners \ {current}
               PROVE  /\ completed[u] = Cardinality({r \in Requests(u, check[u]) : fate[r] = "handled"})
                      /\ completed[u] < Cardinality(Requests(u, check[u]))
    BY DEF RunnersWaitForResponses
  <2>1. u \in Url /\ check[u] \in Check /\ ~AtWork(u)
    BY DEF IInv, TypeOK, AtWork
  <2>2. Cardinality(Requests(u, check[u])) = Generated[u][check[u]]
    BY <2>1, RequestsSize
  <2> QED BY <2>1, <2>2 DEF IInv, RunnersInv, Handled
<1> QED BY <1>1, ScanInvariant, PTL

\* With at least one audit slot, a scan that nobody interrupted ends only when all
\* pages were fetched or lost and all audits are done or have lost a response.
THEOREM NothingIsLeftUndone ==
  ASSUME MaxAuditorRunners > 0
  PROVE  Spec => []ScanIsComplete
<1>1. IInv => ScanIsComplete
  <2> SUFFICES ASSUME IInv, pc = "done", client_enabled
               PROVE  /\ \A u \in seen : fate[Crawl(u)] \in Client!Final
                      /\ probe_queue = <<>> /\ crawl_queue = <<>>
                      /\ Lost = {} => audit_queue = <<>> /\ runners = {}
    BY DEF ScanIsComplete
  <2>1. /\ inflight = {} /\ schedule_queue = <<>>
        /\ probe_queue = <<>> /\ crawl_queue = <<>>
        /\ audit_queue = <<>> \/ ~AuditSlotFree
    BY DEF IInv, LoopInv
  <2>2. Queued = {}
    BY <2>1, ClientTypes DEF IInv
  <2>3. \A r \in Request : fate[r] # "accepted" /\ fate[r] # "rejected"
                           /\ fate[r] \in {"new", "accepted"} \cup Client!Final
    BY <2>1, <2>2 DEF IInv, Contract!ContractInv, Queued, TypeOK, Client!Fate
  <2>4. \A u \in seen : fate[Crawl(u)] \in Client!Final
    <3>1. \A u \in seen : u \in Url /\ Crawl(u) \in Request /\ fate[Crawl(u)] # "new"
      BY <2>1, Shapes DEF IInv, SeenInv, TypeOK, ToSet
    <3> QED BY <2>3, <3>1
  <2>5. ASSUME Lost = {}, NEW u \in runners PROVE FALSE
    <3>1. u \in Url /\ check[u] \in Check /\ ~AtWork(u)
      BY DEF IInv, TypeOK, AtWork, AuditStep
    <3>2. \A r \in Requests(u, check[u]) : r \in AuditRequest /\ r \in Request /\ fate[r] # "new"
      BY <3>1, Shapes DEF IInv, RunnersInv
    <3>3. \A r \in Requests(u, check[u]) : fate[r] = "handled"
      BY <2>3, <2>5, <3>2 DEF Lost, Client!Final
    <3>4. Handled(u) = Requests(u, check[u])
      BY <3>3 DEF Handled
    <3>5. completed[u] = Generated[u][check[u]] /\ Generated[u][check[u]] \in Nat
      BY <3>1, <3>4, RequestsSize, ScanAssumption DEF IInv, RunnersInv
    <3> QED BY <3>1, <3>5 DEF IInv, RunnersInv
  <2>6. Lost = {} => runners = {} /\ audit_queue = <<>>
    <3>1. Lost = {} => runners = {}
      BY <2>5
    <3>2. runners = {} => AuditSlotFree
      BY FS_EmptySet DEF AuditSlotFree
    <3> QED BY <2>1, <3>1, <3>2
  <2> QED BY <2>1, <2>4, <2>6
<1> QED BY <1>1, ScanInvariant, PTL
=============================================================================
