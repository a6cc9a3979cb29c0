--------------------------- MODULE HttpClientProofs ---------------------------
(***************************************************************************)
(* The safety of CurlHttpClient for every set of requests and every        *)
(* connection limit.                                                       *)
(***************************************************************************)
EXTENDS HttpClient, FiniteSetTheorems, TLAPS

Elements(q) == {q[i] : i \in DOMAIN q}
Distinct(q) == \A i, j \in DOMAIN q : q[i] = q[j] => i = j

\* Taking the head of a queue without duplicates.
LEMMA Dequeue ==
  ASSUME NEW S, NEW q \in Seq(S), q # <<>>, Distinct(q)
  PROVE  /\ Head(q) \in S /\ Tail(q) \in Seq(S)
         /\ Elements(Tail(q)) = Elements(q) \ {Head(q)}
         /\ Head(q) \in Elements(q)
         /\ Distinct(Tail(q))
<1>1. /\ Len(q) \in Nat /\ Len(q) >= 1 /\ DOMAIN q = 1..Len(q)
      /\ Head(q) = q[1] /\ Head(q) \in S /\ Tail(q) \in Seq(S)
      /\ Len(Tail(q)) = Len(q) - 1 /\ DOMAIN Tail(q) = 1..(Len(q) - 1)
      /\ \A i \in 1..(Len(q) - 1) : Tail(q)[i] = q[i + 1]
  OBVIOUS
<1>2. Elements(Tail(q)) \subseteq Elements(q) \ {Head(q)}
  BY <1>1 DEF Elements, Distinct
<1>3. ASSUME NEW x \in Elements(q) \ {Head(q)}
      PROVE  x \in Elements(Tail(q))
  <2>1. PICK i \in 1..Len(q) : x = q[i]
    BY <1>1, <1>3 DEF Elements
  <2>2. i # 1
    BY <2>1, <1>1, <1>3
  <2>3. i - 1 \in 1..(Len(q) - 1) /\ Tail(q)[i - 1] = x
    BY <1>1, <2>1, <2>2
  <2> QED BY <2>3, <1>1 DEF Elements
<1>4. Distinct(Tail(q))
  BY <1>1 DEF Distinct
<1>5. Head(q) \in Elements(q)
  BY <1>1 DEF Elements
<1>6. Elements(Tail(q)) = Elements(q) \ {Head(q)}
  BY <1>2, <1>3
<1> QED BY <1>1, <1>4, <1>5, <1>6

\* Appending a request that is not in the queue.
LEMMA Enqueue ==
  ASSUME NEW S, NEW q \in Seq(S), Distinct(q), NEW x \in S, x \notin Elements(q)
  PROVE  /\ Append(q, x) \in Seq(S)
         /\ Elements(Append(q, x)) = Elements(q) \cup {x}
         /\ Distinct(Append(q, x))
<1> DEFINE p == Append(q, x)
<1>1. /\ Len(q) \in Nat /\ DOMAIN q = 1..Len(q) /\ p \in Seq(S)
      /\ DOMAIN p = 1..(Len(q) + 1) /\ p[Len(q) + 1] = x
      /\ \A i \in 1..Len(q) : p[i] = q[i]
  OBVIOUS
<1> HIDE DEF p
<1>2. Elements(p) = Elements(q) \cup {x}
  BY <1>1 DEF Elements
<1>3. Distinct(p)
  BY <1>1 DEF Elements, Distinct
<1> QED BY <1>1, <1>2, <1>3 DEF p

(***************************************************************************)
(* The inductive invariant.                                                *)
(***************************************************************************)
CountIsExact == curl_handle_cnt = Cardinality(Transferring)

QuotaInv ==
  IF thread = "starting"
  THEN curl_handle_cnt + max_to_add <= max_active_handles_allowed
  ELSE curl_handle_cnt <= max_active_handles_allowed

ThreadInv ==
  /\ thread = "callback" =>
       current \in running_handles /\ fate[current] \in {"handled", "unhandled"}
  /\ \A r \in running_handles :
       fate[r] = "accepted" \/ (thread = "callback" /\ r = current)

IInv ==
  /\ TypeOK
  /\ CountIsExact
  /\ QuotaInv
  /\ ThreadInv
  /\ NothingOutstandingIsForgotten
  /\ HandlesOutliveTransfers

\* The set of open transfers is finite, so its size is a natural number.
LEMMA TransferringFinite ==
  ASSUME NEW T \in SUBSET Request
  PROVE  IsFiniteSet(T) /\ Cardinality(T) \in Nat
  BY HttpClientAssumption, FS_Subset, FS_CardinalityType

\* What one call of curl_multi_perform does to the client's view of libcurl.
LEMMA PerformEffect ==
  ASSUME TypeOK, NEW ts \in SUBSET Request, Transferring \subseteq ts,
         NEW failed \in SUBSET ts, MultiPerform(ts, failed)
  PROVE  /\ transfer' \in [Request -> TransferState]
         /\ readable' \subseteq Request /\ expired' \subseteq Request
         /\ Transferring' \subseteq ts
         /\ curl_handle_cnt' = Cardinality(Transferring')
         /\ curl_handle_cnt' \in Nat
         /\ curl_handle_cnt' <= Cardinality(ts)
         /\ \A r \in Request : transfer'[r] # "none" => r \in ts \/ transfer[r] # "none"
<1> DEFINE ended == (ts \cap (readable \cup expired)) \cup failed
<1>1. transfer' = [r \in Request |->
                     IF r \in ended THEN "done"
                     ELSE IF r \in ts THEN "transferring" ELSE transfer[r]]
  BY DEF MultiPerform
<1>2. curl_handle_cnt' = Cardinality(ts \ ended)
  BY DEF MultiPerform
<1>3. readable' \subseteq Request /\ expired' \subseteq Request
  BY DEF MultiPerform, TypeOK
<1>4. transfer' \in [Request -> TransferState]
  BY <1>1 DEF TypeOK, TransferState
<1>5. Transferring' = ts \ ended
  BY <1>1 DEF Transferring
<1>6. \A r \in Request : transfer'[r] # "none" => r \in ts \/ transfer[r] # "none"
  BY <1>1
<1>7. Cardinality(ts \ ended) \in Nat /\ Cardinality(ts \ ended) <= Cardinality(ts)
  <2>1. IsFiniteSet(ts) /\ ts \ ended \in SUBSET ts
    BY TransferringFinite
  <2> QED BY <2>1, FS_Subset, TransferringFinite
<1> QED BY <1>2, <1>3, <1>4, <1>5, <1>6, <1>7

\* Initially nothing is queued and nothing runs.
LEMMA InitIInv == Init => IInv
<1> SUFFICES ASSUME Init PROVE IInv
  OBVIOUS
<1>1. Transferring = {} /\ Cardinality(Transferring) = 0
  <2>1. Transferring = {}
    BY DEF Init, Transferring
  <2> QED BY <2>1, FS_EmptySet
<1>2. max_active_handles_allowed \in Nat
  BY HttpClientAssumption DEF max_active_handles_allowed
<1>3. TypeOK
  BY DEF Init, TypeOK, Thread, TransferState, RawResponse, Fate, Final
<1>4. CountIsExact /\ QuotaInv /\ ThreadInv
  BY <1>1, <1>2 DEF Init, CountIsExact, QuotaInv, ThreadInv
<1>5. NothingOutstandingIsForgotten /\ HandlesOutliveTransfers
  BY DEF Init, NothingOutstandingIsForgotten, HandlesOutliveTransfers, Queued
<1> QED BY <1>3, <1>4, <1>5 DEF IInv

\* Schedule adds a new request to the queue, or to nothing.
LEMMA ScheduleIInv == \A r \in Request : IInv /\ Schedule(r) => IInv'
<1> SUFFICES ASSUME NEW r \in Request, IInv, Schedule(r) PROVE IInv'
  OBVIOUS
<1>1. /\ UNCHANGED <<enabled, running_handles, curl_handle_cnt, max_to_add, thread,
                     current, transfer, readable, expired, raw_response>>
      /\ fate[r] = "new" /\ r \in Request
  BY DEF Schedule
<1>2. /\ schedule_queue \in Seq(Request) /\ fate \in [Request -> Fate]
      /\ Distinct(schedule_queue) /\ Queued = Elements(schedule_queue)
      /\ r \notin Queued /\ r \notin running_handles
  BY <1>1 DEF IInv, TypeOK, NothingOutstandingIsForgotten, ThreadInv, Distinct, Queued,
              Elements
<1>3. CASE enabled
  <2>1. /\ schedule_queue' = Append(schedule_queue, r)
        /\ fate' = [fate EXCEPT ![r] = "accepted"]
    BY <1>3 DEF Schedule
  <2>2. /\ schedule_queue' \in Seq(Request)
        /\ Elements(schedule_queue') = Elements(schedule_queue) \cup {r}
        /\ Distinct(schedule_queue')
    BY <1>2, <2>1, Enqueue
  <2>3. TypeOK'
    BY <1>1, <2>1, <2>2 DEF IInv, TypeOK, Fate
  <2>4. CountIsExact' /\ QuotaInv'
    BY <1>1 DEF IInv, CountIsExact, QuotaInv, Transferring
  <2>5. ThreadInv'
    BY <1>1, <1>2, <2>1 DEF IInv, ThreadInv
  <2>6. NothingOutstandingIsForgotten'
    <3>1. Queued' = Queued \cup {r}
      BY <1>2, <2>2 DEF Queued, Elements
    <3>2. {x \in Request : fate'[x] = "accepted"}
             = {x \in Request : fate[x] = "accepted"} \cup {r}
      BY <1>2, <2>1
    <3>3. {x \in running_handles' : fate'[x] = "accepted"}
             = {x \in running_handles : fate[x] = "accepted"}
      BY <1>1, <1>2, <2>1 DEF IInv, TypeOK
    <3> QED
      BY <1>1, <1>2, <2>2, <3>1, <3>2, <3>3
      DEF IInv, NothingOutstandingIsForgotten, Distinct
  <2>7. HandlesOutliveTransfers'
    BY <1>1, <1>2, <2>1 DEF IInv, HandlesOutliveTransfers
  <2> QED BY <2>3, <2>4, <2>5, <2>6, <2>7 DEF IInv
<1>4. CASE ~enabled
  <2>1. schedule_queue' = schedule_queue /\ fate' = [fate EXCEPT ![r] = "rejected"]
    BY <1>4 DEF Schedule
  <2>2. TypeOK'
    BY <1>1, <2>1 DEF IInv, TypeOK, Fate, Final
  <2>3. CountIsExact' /\ QuotaInv'
    BY <1>1 DEF IInv, CountIsExact, QuotaInv, Transferring
  <2>4. ThreadInv'
    BY <1>1, <1>2, <2>1 DEF IInv, ThreadInv
  <2>5. NothingOutstandingIsForgotten'
    BY <1>1, <1>2, <2>1 DEF IInv, TypeOK, NothingOutstandingIsForgotten, Queued
  <2>6. HandlesOutliveTransfers'
    BY <1>1, <1>2, <2>1 DEF IInv, HandlesOutliveTransfers
  <2> QED BY <2>2, <2>3, <2>4, <2>5, <2>6 DEF IInv
<1> QED BY <1>3, <1>4

\* The loop of StartNewRequests starts the request at the head of the queue.
LEMMA StartOneIInv == IInv /\ StartOne => IInv'
<1> SUFFICES ASSUME IInv, StartOne PROVE IInv'
  OBVIOUS
<1> DEFINE req == Head(schedule_queue)
<1>1. /\ UNCHANGED <<enabled, thread, current, raw_response, fate>>
      /\ thread = "starting" /\ schedule_queue # <<>> /\ max_to_add > 0
      /\ max_to_add' = max_to_add - 1 /\ schedule_queue' = Tail(schedule_queue)
      /\ running_handles' = running_handles \cup {req}
  BY DEF StartOne
<1>2. /\ Distinct(schedule_queue) /\ Queued = Elements(schedule_queue)
      /\ schedule_queue \in Seq(Request)
  BY DEF IInv, TypeOK, NothingOutstandingIsForgotten, Distinct, Queued, Elements
<1>3. /\ req \in Request /\ schedule_queue' \in Seq(Request)
      /\ Elements(schedule_queue') = Elements(schedule_queue) \ {req}
      /\ req \in Elements(schedule_queue)
      /\ Distinct(schedule_queue')
  BY <1>1, <1>2, Dequeue
<1>4. fate[req] = "accepted" /\ req \notin running_handles
  BY <1>2, <1>3 DEF IInv, NothingOutstandingIsForgotten
<1>5. PICK failed \in SUBSET {req} : MultiPerform(Transferring \cup {req}, failed)
  BY DEF StartOne
<1>6. /\ transfer' \in [Request -> TransferState]
      /\ readable' \subseteq Request /\ expired' \subseteq Request
      /\ curl_handle_cnt' = Cardinality(Transferring')
      /\ curl_handle_cnt' \in Nat
      /\ curl_handle_cnt' <= Cardinality(Transferring \cup {req})
      /\ \A r \in Request : transfer'[r] # "none" => r = req \/ transfer[r] # "none"
  <2>1. /\ TypeOK /\ Transferring \cup {req} \in SUBSET Request
        /\ failed \in SUBSET (Transferring \cup {req})
        /\ \A r \in Transferring : transfer[r] # "none"
    BY <1>3, <1>5 DEF IInv, Transferring
  <2> HIDE DEF req
  <2> QED BY <2>1, <1>5, PerformEffect
<1>7. Cardinality(Transferring \cup {req}) <= curl_handle_cnt + 1
  <2>1. Transferring \in SUBSET Request
    BY DEF Transferring
  <2>2. IsFiniteSet(Transferring) /\ Cardinality(Transferring) \in Nat
    BY <2>1, TransferringFinite
  <2>3. Cardinality(Transferring \cup {req})
          = IF req \in Transferring THEN Cardinality(Transferring)
            ELSE Cardinality(Transferring) + 1
    <3> HIDE DEF req
    <3> QED BY <2>2, FS_AddElement
  <2>4. curl_handle_cnt = Cardinality(Transferring)
    BY DEF IInv, CountIsExact
  <2> QED BY <2>2, <2>3, <2>4
<1> HIDE DEF req
<1>8. max_active_handles_allowed \in Nat
  BY HttpClientAssumption DEF max_active_handles_allowed
<1>9. TypeOK'
  BY <1>1, <1>3, <1>6 DEF IInv, TypeOK
<1>10. CountIsExact' /\ QuotaInv'
  <2>1. Cardinality(Transferring \cup {req}) \in Nat
    BY <1>3, TransferringFinite DEF Transferring
  <2> QED BY <1>1, <1>6, <1>7, <1>8, <2>1 DEF IInv, TypeOK, CountIsExact, QuotaInv
<1>11. ThreadInv'
  BY <1>1, <1>4 DEF IInv, ThreadInv
<1>12. NothingOutstandingIsForgotten'
  <2>1. Queued' = Queued \ {req}
    BY <1>2, <1>3 DEF Queued, Elements
  <2>2. {x \in running_handles' : fate'[x] = "accepted"}
          = {x \in running_handles : fate[x] = "accepted"} \cup {req}
    BY <1>1, <1>4
  <2>3. req \in Queued
    BY <1>2, <1>3
  <2> QED BY <1>1, <1>3, <2>1, <2>2, <2>3 DEF IInv, NothingOutstandingIsForgotten, Distinct
<1>13. HandlesOutliveTransfers'
  BY <1>1, <1>4, <1>6 DEF IInv, HandlesOutliveTransfers
<1> QED BY <1>9, <1>10, <1>11, <1>12, <1>13 DEF IInv

\* The loop of StartNewRequests forgets the request at the head of the queue.
LEMMA DropOneIInv == IInv /\ DropOne => IInv'
<1> SUFFICES ASSUME IInv, DropOne PROVE IInv'
  OBVIOUS
<1> DEFINE req == Head(schedule_queue)
<1>1. /\ UNCHANGED <<enabled, running_handles, curl_handle_cnt, current, transfer,
                     readable, expired, raw_response>>
      /\ thread = "starting" /\ thread' = "caller" /\ max_to_add' = 0
      /\ schedule_queue # <<>> /\ schedule_queue' = Tail(schedule_queue)
      /\ fate' = [fate EXCEPT ![req] = "dropped"]
  BY DEF DropOne
<1>2. /\ Distinct(schedule_queue) /\ Queued = Elements(schedule_queue)
      /\ schedule_queue \in Seq(Request)
  BY DEF IInv, TypeOK, NothingOutstandingIsForgotten, Distinct, Queued, Elements
<1>3. /\ req \in Request /\ schedule_queue' \in Seq(Request)
      /\ Elements(schedule_queue') = Elements(schedule_queue) \ {req}
      /\ req \in Elements(schedule_queue)
      /\ Distinct(schedule_queue')
  BY <1>1, <1>2, Dequeue
<1>4. req \notin running_handles
  BY <1>2, <1>3 DEF IInv, NothingOutstandingIsForgotten
<1> HIDE DEF req
<1>5. TypeOK'
  BY <1>1, <1>3 DEF IInv, TypeOK, Thread, Fate, Final
<1>6. CountIsExact' /\ QuotaInv'
  <2>1. max_active_handles_allowed \in Nat
    BY HttpClientAssumption DEF max_active_handles_allowed
  <2> QED BY <1>1, <2>1 DEF IInv, TypeOK, CountIsExact, QuotaInv, Transferring
<1>7. ThreadInv'
  BY <1>1, <1>4 DEF IInv, TypeOK, ThreadInv
<1>8. NothingOutstandingIsForgotten'
  <2>1. Queued' = Queued \ {req}
    BY <1>2, <1>3 DEF Queued, Elements
  <2>2. {x \in running_handles' : fate'[x] = "accepted"}
          = {x \in running_handles : fate[x] = "accepted"}
    BY <1>1, <1>3, <1>4 DEF IInv, TypeOK
  <2>3. {x \in Request : fate'[x] = "accepted"}
          = {x \in Request : fate[x] = "accepted"} \ {req}
    BY <1>1, <1>3 DEF IInv, TypeOK
  <2> QED
    BY <1>1, <1>3, <1>4, <2>1, <2>2, <2>3 DEF IInv, NothingOutstandingIsForgotten, Distinct
<1>9. HandlesOutliveTransfers'
  BY <1>1, <1>4 DEF IInv, TypeOK, HandlesOutliveTransfers
<1> QED BY <1>5, <1>6, <1>7, <1>8, <1>9 DEF IInv

\* Poll lets libcurl work on the open transfers.
LEMMA PollReadyIInv == IInv /\ PollReady => IInv'
<1> SUFFICES ASSUME IInv, PollReady PROVE IInv'
  OBVIOUS
<1>1. /\ UNCHANGED <<enabled, schedule_queue, running_handles, max_to_add, current,
                     raw_response, fate>>
      /\ thread = "caller" /\ thread' = "polling" /\ MultiPerform(Transferring, {})
  BY DEF PollReady
<1>2. /\ transfer' \in [Request -> TransferState]
      /\ readable' \subseteq Request /\ expired' \subseteq Request
      /\ curl_handle_cnt' = Cardinality(Transferring')
      /\ curl_handle_cnt' \in Nat
      /\ curl_handle_cnt' <= Cardinality(Transferring)
      /\ \A r \in Request : transfer'[r] # "none" => transfer[r] # "none"
  <2>1. /\ TypeOK /\ Transferring \in SUBSET Request
        /\ \A r \in Transferring : transfer[r] # "none"
    BY DEF IInv, Transferring
  <2> QED BY <2>1, <1>1, PerformEffect
<1>3. TypeOK'
  BY <1>1, <1>2 DEF IInv, TypeOK, Thread
<1>4. CountIsExact' /\ QuotaInv'
  <2>1. max_active_handles_allowed \in Nat
    BY HttpClientAssumption DEF max_active_handles_allowed
  <2>2. Cardinality(Transferring) \in Nat
    BY TransferringFinite DEF Transferring
  <2> QED BY <1>1, <1>2, <2>1, <2>2 DEF IInv, TypeOK, CountIsExact, QuotaInv
<1>5. ThreadInv' /\ NothingOutstandingIsForgotten'
  BY <1>1 DEF IInv, ThreadInv, NothingOutstandingIsForgotten, Queued
<1>6. HandlesOutliveTransfers'
  BY <1>1, <1>2 DEF IInv, HandlesOutliveTransfers
<1> QED BY <1>3, <1>4, <1>5, <1>6 DEF IInv

\* Poll reports the end of a transfer.
LEMMA ReadMessageIInv == \A r \in Request : IInv /\ ReadMessage(r) => IInv'
<1> SUFFICES ASSUME NEW r \in Request, IInv, ReadMessage(r) PROVE IInv'
  OBVIOUS
<1>1. /\ UNCHANGED <<enabled, schedule_queue, running_handles, curl_handle_cnt,
                     max_to_add, readable, expired, raw_response>>
      /\ thread = "polling" /\ thread' = "callback" /\ current' = r
      /\ transfer[r] = "done" /\ transfer' = [transfer EXCEPT ![r] = "none"]
  BY DEF ReadMessage
<1>2. PICK end \in {"handled", "unhandled"} : fate' = [fate EXCEPT ![r] = end]
  BY DEF ReadMessage
<1>3. r \in running_handles /\ fate[r] = "accepted" /\ r \notin Queued
  BY <1>1 DEF IInv, HandlesOutliveTransfers, NothingOutstandingIsForgotten
<1>4. TypeOK'
  BY <1>1, <1>2 DEF IInv, TypeOK, Thread, TransferState, Fate, Final
<1>5. CountIsExact' /\ QuotaInv'
  <2>1. Transferring' = Transferring
    BY <1>1 DEF IInv, TypeOK, Transferring
  <2> QED BY <1>1, <2>1 DEF IInv, CountIsExact, QuotaInv
<1>6. ThreadInv'
  BY <1>1, <1>2, <1>3 DEF IInv, TypeOK, ThreadInv
<1>7. NothingOutstandingIsForgotten'
  <2>1. Queued' = Queued
    BY <1>1 DEF Queued
  <2>2. {x \in Request : fate'[x] = "accepted"}
          = {x \in Request : fate[x] = "accepted"} \ {r}
    BY <1>2 DEF IInv, TypeOK
  <2>3. {x \in running_handles' : fate'[x] = "accepted"}
          = {x \in running_handles : fate[x] = "accepted"} \ {r}
    BY <1>1, <1>2 DEF IInv, TypeOK
  <2> QED BY <1>1, <1>3, <2>1, <2>2, <2>3 DEF IInv, NothingOutstandingIsForgotten
<1>8. HandlesOutliveTransfers'
  BY <1>1, <1>2 DEF IInv, TypeOK, HandlesOutliveTransfers
<1> QED BY <1>4, <1>5, <1>6, <1>7, <1>8 DEF IInv

\* Poll releases the handle of the request it has reported.
LEMMA CallbackReturnsIInv == IInv /\ CallbackReturns => IInv'
<1> SUFFICES ASSUME IInv, CallbackReturns PROVE IInv'
  OBVIOUS
<1>1. /\ UNCHANGED <<enabled, schedule_queue, curl_handle_cnt, max_to_add, transfer,
                     readable, expired, raw_response, fate>>
      /\ thread = "callback" /\ thread' = "polling" /\ current' = NoRequest
      /\ running_handles' = running_handles \ {current}
  BY DEF CallbackReturns
<1>2. current \in running_handles /\ fate[current] # "accepted"
  BY <1>1 DEF IInv, ThreadInv
<1>3. TypeOK'
  BY <1>1 DEF IInv, TypeOK, Thread
<1>4. CountIsExact' /\ QuotaInv'
  BY <1>1 DEF IInv, CountIsExact, QuotaInv, Transferring
<1>5. ThreadInv'
  BY <1>1 DEF IInv, ThreadInv
<1>6. NothingOutstandingIsForgotten'
  <2>1. {x \in running_handles' : fate'[x] = "accepted"}
          = {x \in running_handles : fate[x] = "accepted"}
    BY <1>1, <1>2
  <2> QED BY <1>1, <2>1 DEF IInv, NothingOutstandingIsForgotten, Queued
<1>7. HandlesOutliveTransfers'
  BY <1>1, <1>2 DEF IInv, HandlesOutliveTransfers
<1> QED BY <1>3, <1>4, <1>5, <1>6, <1>7 DEF IInv

\* Every step keeps the invariant; the remaining actions move no request.
LEMMA NextIInv == IInv /\ [Next]_vars => IInv'
<1> SUFFICES ASSUME IInv, [Next]_vars PROVE IInv'
  OBVIOUS
<1> USE DEF IInv, TypeOK, CountIsExact, QuotaInv, ThreadInv,
            NothingOutstandingIsForgotten, HandlesOutliveTransfers, Queued, Transferring
<1>0. max_active_handles_allowed \in Nat
  BY HttpClientAssumption DEF max_active_handles_allowed
<1>1. ASSUME NEW r \in Request, Schedule(r) \/ ReadMessage(r) PROVE IInv'
  BY <1>1, ScheduleIInv, ReadMessageIInv
<1>2. ASSUME NEW r \in Request, Respond(r) PROVE IInv'
  BY <1>2 DEF Respond
<1>3. ASSUME NEW r \in Request, Expire(r) PROVE IInv'
  BY <1>3 DEF Expire
<1>4. CASE Disable
  <2>1. TypeOK'
    BY <1>4 DEF Disable
  <2> QED BY <1>4, <2>1 DEF Disable
<1>5. CASE StartNewRequests
  BY <1>0, <1>5 DEF StartNewRequests, Thread
<1>6. CASE StartDone
  BY <1>0, <1>6 DEF StartDone, Thread
<1>7. CASE PollError
  BY <1>7 DEF PollError, Thread
<1>8. CASE PollDone
  BY <1>8 DEF PollDone, Thread
<1>9. CASE StartOne \/ DropOne \/ PollReady \/ CallbackReturns
  BY <1>9, StartOneIInv, DropOneIInv, PollReadyIInv, CallbackReturnsIInv
<1>10. CASE UNCHANGED vars
  BY <1>10 DEF vars
<1> QED
  BY <1>1, <1>2, <1>3, <1>4, <1>5, <1>6, <1>7, <1>8, <1>9, <1>10 DEF Next

\* The invariant holds in every reachable state.
LEMMA SpecIInv == Spec => []IInv
  BY InitIInv, NextIInv, PTL DEF Spec

(***************************************************************************)
(* Type correctness of CurlHttpClient.                                     *)
(***************************************************************************)
THEOREM HttpClientTypeCorrect == Spec => []TypeOK
<1>1. IInv => TypeOK
  BY DEF IInv
<1> QED BY <1>1, SpecIInv, PTL

(***************************************************************************)
(* StartNewRequests keeps the number of open transfers within the limit,   *)
(* for every connection limit and any number of requests.                  *)
(***************************************************************************)
THEOREM ConnectionLimitHolds == Spec => []ConnectionLimitRespected
<1>1. IInv => ConnectionLimitRespected
  <2>1. max_active_handles_allowed \in Nat
    BY HttpClientAssumption DEF max_active_handles_allowed
  <2> QED BY <2>1 DEF IInv, TypeOK, CountIsExact, QuotaInv, ConnectionLimitRespected
<1> QED BY <1>1, SpecIInv, PTL

(***************************************************************************)
(* Plusfish::Run can trust schedule_queue_size() and                       *)
(* active_requests_count(): every outstanding request is counted, once.    *)
(***************************************************************************)
THEOREM OutstandingRequestsAreCounted == Spec => []NothingOutstandingIsForgotten
<1>1. IInv => NothingOutstandingIsForgotten
  BY DEF IInv
<1> QED BY <1>1, SpecIInv, PTL

(***************************************************************************)
(* The handle a libcurl message refers to is always still owned by the     *)
(* client when Poll reads the message.                                     *)
(***************************************************************************)
THEOREM MessagesReferToLiveHandles == Spec => []HandlesOutliveTransfers
<1>1. IInv => HandlesOutliveTransfers
  BY DEF IInv
<1> QED BY <1>1, SpecIInv, PTL

(***************************************************************************)
(* A disabled client stays disabled, accepts nothing, and starts nothing   *)
(* but what the interrupted call of StartNewRequests was about to start.   *)
(***************************************************************************)
THEOREM DisableIsPermanent == Spec => DisabledClientStartsNothing
<1>1. ASSUME IInv, [Next]_vars, ~enabled, ~ UNCHANGED vars
      PROVE  /\ ~enabled'
             /\ Len(schedule_queue') <= Len(schedule_queue)
             /\ thread # "starting" => running_handles' \subseteq running_handles
             /\ thread # "starting" => thread' # "starting"
  <2>1. Len(schedule_queue) \in Nat
    BY <1>1 DEF IInv, TypeOK
  <2>2. schedule_queue # <<>> => Len(Tail(schedule_queue)) <= Len(schedule_queue)
    BY <1>1 DEF IInv, TypeOK
  <2> QED
    BY <1>1, <2>1, <2>2
    DEF Next, Schedule, ReadMessage, Respond, Expire, Disable, StartNewRequests, StartOne,
        DropOne, StartDone, PollReady, PollError, CallbackReturns, PollDone
<1>2. IInv /\ [Next]_vars =>
        [~enabled =>
           /\ ~enabled'
           /\ Len(schedule_queue') <= Len(schedule_queue)
           /\ thread # "starting" => running_handles' \subseteq running_handles
           /\ thread # "starting" => thread' # "starting"]_vars
  BY <1>1
<1> QED BY <1>2, SpecIInv, PTL DEF Spec, DisabledClientStartsNothing

(***************************************************************************)
(* CurlHttpClient implements HttpClientContract: initial states map to     *)
(* initial states and every step to a step of the contract or to none.     *)
(***************************************************************************)
THEOREM ClientImplementsContract == Spec => ImplementsContract
<1> DEFINE flying == {r \in running_handles : fate[r] = "accepted"}
<1>1. Init => Contract!ClientInit
  BY DEF Init, Contract!ClientInit
<1>2. ASSUME IInv, [Next]_vars
      PROVE  [Contract!ClientNext]_(Contract!clientVars)
  <2> USE DEF Contract!clientVars
  <2>1. ASSUME NEW r \in Request, Schedule(r)
        PROVE  Contract!ClientNext
    <3>1. flying' = flying
      BY <1>2, <2>1 DEF IInv, TypeOK, ThreadInv, Schedule
    <3> QED BY <2>1, <3>1 DEF Schedule, Contract!Schedule, Contract!ClientNext
  <2>2. ASSUME NEW r \in Request, ReadMessage(r)
        PROVE  Contract!ClientNext
    <3>1. PICK end \in {"handled", "unhandled"} : fate' = [fate EXCEPT ![r] = end]
      BY <2>2 DEF ReadMessage
    <3>2. r \in flying
      BY <1>2, <2>2 DEF IInv, HandlesOutliveTransfers, ReadMessage
    <3>3. flying' = flying \ {r}
      BY <1>2, <2>2, <3>1 DEF IInv, TypeOK, ReadMessage
    <3>4. Contract!Finish(r, end)
      BY <2>2, <3>1, <3>2, <3>3 DEF ReadMessage, Contract!Finish
    <3> QED BY <3>4 DEF Contract!ClientNext
  <2>3. CASE StartOne
    <3> DEFINE req == Head(schedule_queue)
    <3>1. fate[req] = "accepted" /\ req \in Request
      <4>1. schedule_queue # <<>> /\ schedule_queue \in Seq(Request)
        BY <1>2, <2>3 DEF StartOne, IInv, TypeOK
      <4>2. req = schedule_queue[1] /\ 1 \in DOMAIN schedule_queue
        BY <4>1
      <4> QED BY <1>2, <4>1, <4>2 DEF IInv, NothingOutstandingIsForgotten, Queued
    <3>2. flying' = flying \cup {req}
      BY <2>3, <3>1 DEF StartOne
    <3> QED BY <2>3, <3>2 DEF StartOne, Contract!Launch, Contract!ClientNext
  <2>4. CASE DropOne
    <3> DEFINE req == Head(schedule_queue)
    <3>1. req \notin running_handles
      <4>1. schedule_queue # <<>> /\ schedule_queue \in Seq(Request)
        BY <1>2, <2>4 DEF DropOne, IInv, TypeOK
      <4>2. req = schedule_queue[1] /\ 1 \in DOMAIN schedule_queue
        BY <4>1
      <4> QED BY <1>2, <4>1, <4>2 DEF IInv, NothingOutstandingIsForgotten, Queued
    <3>2. flying' = flying
      BY <1>2, <2>4, <3>1 DEF DropOne, IInv, TypeOK
    <3> QED BY <2>4, <3>2 DEF DropOne, Contract!Drop, Contract!ClientNext
  <2>5. CASE Disable
    BY <2>5 DEF Disable, Contract!Disable, Contract!ClientNext
  <2>6. CASE CallbackReturns
    <3>1. flying' = flying
      BY <1>2, <2>6 DEF IInv, ThreadInv, CallbackReturns
    <3> QED BY <2>6, <3>1 DEF CallbackReturns
  <2>7. ASSUME NEW r \in Request, Respond(r) \/ Expire(r)
        PROVE  UNCHANGED Contract!clientVars
    BY <2>7 DEF Respond, Expire
  <2>8. CASE StartNewRequests \/ StartDone \/ PollReady \/ PollError \/ PollDone
    BY <2>8 DEF StartNewRequests, StartDone, PollReady, PollError, PollDone
  <2>9. CASE UNCHANGED vars
    BY <2>9 DEF vars
  <2> QED BY <1>2, <2>1, <2>2, <2>3, <2>4, <2>5, <2>6, <2>7, <2>8, <2>9 DEF Next
<1> QED
  BY <1>1, <1>2, SpecIInv, PTL DEF Spec, ImplementsContract, Contract!ClientSpec

=============================================================================
