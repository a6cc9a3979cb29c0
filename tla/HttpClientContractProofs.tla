---------------------- MODULE HttpClientContractProofs ----------------------
(***************************************************************************)
(* What every caller of the HTTP client may rely on: an accepted request   *)
(* is in the queue or in flight, once, until it ends; and the effect of    *)
(* each step of the client in terms of the set of queued requests.         *)
(***************************************************************************)
EXTENDS HttpClientContract, TLAPS

Queued == {schedule_queue[i] : i \in DOMAIN schedule_queue}

ContractTypeOK ==
  /\ enabled \in BOOLEAN
  /\ schedule_queue \in Seq(Request)
  /\ inflight \subseteq Request
  /\ fate \in [Request -> Fate]

ContractInv ==
  /\ ContractTypeOK
  /\ \A i, j \in DOMAIN schedule_queue : schedule_queue[i] = schedule_queue[j] => i = j
  /\ Queued \cap inflight = {}
  /\ \A r \in Request : fate[r] = "accepted" <=> r \in Queued \cup inflight
  /\ enabled => \A r \in Request : fate[r] # "rejected"

\* A queue is empty when nothing is in it.
LEMMA QueuedEmpty ==
  ASSUME ContractTypeOK
  PROVE  Queued = {} <=> schedule_queue = <<>>
  BY DEF ContractTypeOK, Queued

\* A new request enters the queue, or is rejected by a disabled client.
LEMMA ScheduleEffect ==
  ASSUME ContractInv, NEW r \in Request, Schedule(r)
  PROVE  /\ ContractInv'
         /\ fate[r] = "new" /\ r \notin Queued /\ r \notin inflight
         /\ inflight' = inflight /\ enabled' = enabled
         /\ enabled => /\ Queued' = Queued \cup {r}
                       /\ fate' = [fate EXCEPT ![r] = "accepted"]
         /\ ~enabled => /\ schedule_queue' = schedule_queue /\ Queued' = Queued
                        /\ fate' = [fate EXCEPT ![r] = "rejected"]
<1>1. /\ inflight' = inflight /\ enabled' = enabled /\ fate[r] = "new"
      /\ r \notin Queued /\ r \notin inflight
  BY DEF Schedule, ContractInv
<1>2. CASE enabled
  <2>1. schedule_queue' = Append(schedule_queue, r) /\ fate' = [fate EXCEPT ![r] = "accepted"]
    BY <1>2 DEF Schedule
  <2>2. /\ schedule_queue' \in Seq(Request)
        /\ Len(schedule_queue) \in Nat /\ DOMAIN schedule_queue = 1..Len(schedule_queue)
        /\ DOMAIN schedule_queue' = 1..(Len(schedule_queue) + 1)
        /\ schedule_queue'[Len(schedule_queue) + 1] = r
        /\ \A i \in 1..Len(schedule_queue) : schedule_queue'[i] = schedule_queue[i]
    BY <2>1 DEF ContractInv, ContractTypeOK
  <2>3. Queued' = Queued \cup {r}
    BY <2>2 DEF Queued
  <2>4. \A i, j \in DOMAIN schedule_queue' : schedule_queue'[i] = schedule_queue'[j] => i = j
    BY <1>1, <2>2 DEF Queued, ContractInv
  <2>5. ContractTypeOK'
    BY <1>1, <2>1, <2>2 DEF ContractInv, ContractTypeOK, Fate
  <2>6. ContractInv'
    BY <1>1, <2>1, <2>3, <2>4, <2>5 DEF ContractInv, ContractTypeOK
  <2> QED BY <1>1, <1>2, <2>1, <2>3, <2>6
<1>3. CASE ~enabled
  <2>1. schedule_queue' = schedule_queue /\ fate' = [fate EXCEPT ![r] = "rejected"]
    BY <1>3 DEF Schedule
  <2>2. ContractTypeOK'
    BY <1>1, <2>1 DEF ContractInv, ContractTypeOK, Fate, Final
  <2>3. ContractInv'
    BY <1>1, <1>3, <2>1, <2>2 DEF ContractInv, ContractTypeOK, Queued
  <2> QED BY <1>1, <1>3, <2>1, <2>3 DEF Queued
<1> QED BY <1>2, <1>3

\* The longest waiting request leaves the queue.
LEMMA Dequeue ==
  ASSUME ContractInv, schedule_queue # <<>>, schedule_queue' = Tail(schedule_queue)
  PROVE  /\ schedule_queue' \in Seq(Request)
         /\ Head(schedule_queue) \in Queued
         /\ Queued' = Queued \ {Head(schedule_queue)}
         /\ \A i, j \in DOMAIN schedule_queue' : schedule_queue'[i] = schedule_queue'[j] => i = j
<1> DEFINE q == schedule_queue
<1>1. /\ Len(q) \in Nat /\ Len(q) >= 1 /\ DOMAIN q = 1..Len(q)
      /\ Head(q) = q[1] /\ Tail(q) \in Seq(Request)
      /\ DOMAIN Tail(q) = 1..(Len(q) - 1)
      /\ \A i \in 1..(Len(q) - 1) : Tail(q)[i] = q[i + 1]
  BY DEF ContractInv, ContractTypeOK
<1>2. \A i, j \in 1..Len(q) : q[i] = q[j] => i = j
  BY <1>1 DEF ContractInv
<1>3. Queued = {q[i] : i \in 1..Len(q)} /\ Queued' = {q[i + 1] : i \in 1..(Len(q) - 1)}
  BY <1>1 DEF Queued
<1> HIDE DEF q
<1>4. Queued' \subseteq Queued \ {q[1]}
  BY <1>1, <1>2, <1>3
<1>5. ASSUME NEW x \in Queued \ {q[1]} PROVE x \in Queued'
  <2>1. PICK i \in 1..Len(q) : x = q[i]
    BY <1>3
  <2>2. i - 1 \in 1..(Len(q) - 1) /\ q[(i - 1) + 1] = x
    BY <1>1, <1>5, <2>1
  <2> QED BY <1>3, <2>2
<1>6. \A i, j \in DOMAIN Tail(q) : Tail(q)[i] = Tail(q)[j] => i = j
  BY <1>1, <1>2
<1>7. q[1] \in Queued
  BY <1>1, <1>3
<1> QED BY <1>1, <1>4, <1>5, <1>6, <1>7 DEF q

\* A request leaves the queue for the network.
LEMMA LaunchEffect ==
  ASSUME ContractInv, Launch
  PROVE  /\ ContractInv'
         /\ enabled' = enabled /\ fate' = fate
         /\ \E r \in Queued : /\ r \in Request /\ fate[r] = "accepted"
                              /\ Queued' = Queued \ {r}
                              /\ inflight' = inflight \cup {r}
<1> DEFINE r == Head(schedule_queue)
<1>1. /\ enabled' = enabled /\ fate' = fate /\ inflight' = inflight \cup {r}
      /\ schedule_queue # <<>> /\ schedule_queue' = Tail(schedule_queue)
  BY DEF Launch
<1>2. /\ schedule_queue' \in Seq(Request) /\ r \in Queued /\ Queued' = Queued \ {r}
      /\ \A i, j \in DOMAIN schedule_queue' : schedule_queue'[i] = schedule_queue'[j] => i = j
  BY <1>1, Dequeue
<1> HIDE DEF r
<1>3. Queued \subseteq Request
  BY DEF ContractInv, ContractTypeOK, Queued
<1>4. ContractTypeOK'
  BY <1>1, <1>2, <1>3 DEF ContractInv, ContractTypeOK
<1>5. ContractInv'
  BY <1>1, <1>2, <1>3, <1>4 DEF ContractInv
<1>6. r \in Request /\ fate[r] = "accepted"
  BY <1>2, <1>3 DEF ContractInv
<1> QED BY <1>1, <1>2, <1>5, <1>6

\* A request leaves the queue and is forgotten.
LEMMA DropEffect ==
  ASSUME ContractInv, Drop
  PROVE  /\ ContractInv'
         /\ enabled' = enabled /\ inflight' = inflight
         /\ \E r \in Queued : /\ r \in Request /\ fate[r] = "accepted"
                              /\ Queued' = Queued \ {r}
                              /\ fate' = [fate EXCEPT ![r] = "dropped"]
<1> DEFINE r == Head(schedule_queue)
<1>1. /\ enabled' = enabled /\ inflight' = inflight
      /\ fate' = [fate EXCEPT ![r] = "dropped"]
      /\ schedule_queue # <<>> /\ schedule_queue' = Tail(schedule_queue)
  BY DEF Drop
<1>2. /\ schedule_queue' \in Seq(Request) /\ r \in Queued /\ Queued' = Queued \ {r}
      /\ \A i, j \in DOMAIN schedule_queue' : schedule_queue'[i] = schedule_queue'[j] => i = j
  BY <1>1, Dequeue
<1> HIDE DEF r
<1>3. Queued \subseteq Request
  BY DEF ContractInv, ContractTypeOK, Queued
<1>4. ContractTypeOK'
  BY <1>1, <1>2, <1>3 DEF ContractInv, ContractTypeOK, Fate, Final
<1>5. ContractInv'
  BY <1>1, <1>2, <1>3, <1>4 DEF ContractInv, ContractTypeOK
<1>6. r \in Request /\ fate[r] = "accepted"
  BY <1>2, <1>3 DEF ContractInv
<1> QED BY <1>1, <1>2, <1>5, <1>6

\* A transfer ends.
LEMMA FinishEffect ==
  ASSUME ContractInv, NEW r \in Request, NEW end, Finish(r, end)
  PROVE  /\ ContractInv'
         /\ r \in inflight /\ fate[r] = "accepted" /\ r \notin Queued
         /\ end \in {"handled", "unhandled"}
         /\ enabled' = enabled /\ schedule_queue' = schedule_queue /\ Queued' = Queued
         /\ inflight' = inflight \ {r}
         /\ fate' = [fate EXCEPT ![r] = end]
<1>1. /\ r \in inflight /\ end \in {"handled", "unhandled"}
      /\ enabled' = enabled /\ schedule_queue' = schedule_queue /\ Queued' = Queued
      /\ inflight' = inflight \ {r} /\ fate' = [fate EXCEPT ![r] = end]
  BY DEF Finish, Queued
<1>2. fate[r] = "accepted" /\ r \notin Queued
  BY <1>1 DEF ContractInv
<1>3. ContractTypeOK'
  BY <1>1 DEF ContractInv, ContractTypeOK, Fate, Final
<1>4. ContractInv'
  BY <1>1, <1>2, <1>3 DEF ContractInv, ContractTypeOK
<1> QED BY <1>1, <1>2, <1>4

\* A disabled client keeps what it has.
LEMMA DisableEffect ==
  ASSUME ContractInv, Disable
  PROVE  /\ ContractInv'
         /\ enabled' = FALSE /\ Queued' = Queued
         /\ UNCHANGED <<schedule_queue, inflight, fate>>
<1>1. enabled' = FALSE /\ UNCHANGED <<schedule_queue, inflight, fate>>
  BY DEF Disable
<1>2. Queued' = Queued
  BY <1>1 DEF Queued
<1>3. ContractTypeOK'
  BY <1>1 DEF ContractInv, ContractTypeOK
<1>4. ContractInv'
  BY <1>1, <1>2, <1>3 DEF ContractInv
<1> QED BY <1>1, <1>2, <1>4

\* Nothing changes.
LEMMA ClientStutter ==
  ASSUME ContractInv, UNCHANGED clientVars
  PROVE  /\ ContractInv' /\ Queued' = Queued
         /\ UNCHANGED <<enabled, schedule_queue, inflight, fate>>
  BY DEF clientVars, ContractInv, ContractTypeOK, Queued

\* An accepted request that has not ended is in the queue or in flight, once, so
\* the loop condition of Plusfish::Run sees it; nothing is rejected before Disable.
THEOREM ContractIsKept == ClientSpec => []ContractInv
<1>1. ClientInit => ContractInv
  BY DEF ClientInit, ContractInv, ContractTypeOK, Queued, Fate, Final
<1>2. ContractInv /\ [ClientNext]_clientVars => ContractInv'
  <2> SUFFICES ASSUME ContractInv, [ClientNext]_clientVars PROVE ContractInv'
    OBVIOUS
  <2>1. CASE \E r \in Request : Schedule(r)
    BY <2>1, ScheduleEffect
  <2>2. CASE Launch
    BY <2>2, LaunchEffect
  <2>3. CASE Drop
    BY <2>3, DropEffect
  <2>4. CASE \E r \in Request, end \in {"handled", "unhandled"} : Finish(r, end)
    BY <2>4, FinishEffect
  <2>5. CASE Disable
    BY <2>5, DisableEffect
  <2>6. CASE UNCHANGED clientVars
    BY <2>6, ClientStutter
  <2> QED BY <2>1, <2>2, <2>3, <2>4, <2>5, <2>6 DEF ClientNext
<1> QED BY <1>1, <1>2, PTL DEF ClientSpec
=============================================================================
