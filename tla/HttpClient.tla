----------------------------- MODULE HttpClient -----------------------------
(***************************************************************************)
(* CurlHttpClient (curl_http_client.cc) on top of a libcurl multi handle.  *)
(* The scanner's only thread calls Schedule, StartNewRequests and Poll;    *)
(* Poll calls the handlers of finished requests, which may call Schedule   *)
(* again; the SIGINT handler may call Disable between any two steps.       *)
(*                                                                         *)
(* libcurl is external.  A transfer only makes progress inside             *)
(* curl_multi_perform; its end is reported once, by curl_multi_info_read.  *)
(* Each request is a distinct object that is scheduled at most once.       *)
(***************************************************************************)
EXTENDS Integers, Sequences, FiniteSets

CONSTANTS
  Request,          \* the Request objects
  ConnectionLimit,  \* --connection_limit
  Hanging,          \* requests to servers that accept and never answer
  NoRequest         \* the null Request pointer

ASSUME HttpClientAssumption ==
  /\ IsFiniteSet(Request)
  /\ ConnectionLimit \in Nat \ {0}
  /\ Hanging \subseteq Request
  /\ NoRequest \notin Request

VARIABLES
  enabled,          \* enabled_
  schedule_queue,   \* schedule_queue_
  running_handles,  \* running_handles_: requests with a live curl handle
  curl_handle_cnt,  \* curl_handle_cnt_: transfers running at the last perform
  max_to_add,       \* local of StartNewRequests
  thread,           \* where the scanner's thread is, seen from the client
  current,          \* the request whose handler is being called
  transfer,         \* libcurl: state of each request's easy handle
  readable,         \* sockets select() would report
  expired,          \* transfers that have outlived CURLOPT_TIMEOUT
  raw_response,     \* what the server sent, as DoneCb will see it
  fate              \* history: what has become of each request

vars == <<enabled, schedule_queue, running_handles, curl_handle_cnt, max_to_add,
          thread, current, transfer, readable, expired, raw_response, fate>>

Thread == {"caller", "starting", "polling", "callback"}
TransferState == {"none", "transferring", "done"}
RawResponse == {"empty", "garbage", "http"}
Final == {"rejected", "dropped", "handled", "unhandled"}
Fate == {"new", "accepted"} \cup Final

Transferring == {r \in Request : transfer[r] = "transferring"}

\* FLAGS_connection_limit * kRequestScheduleRatio (1.2), truncated to int.
max_active_handles_allowed == (ConnectionLimit * 6) \div 5

Init ==
  /\ enabled = TRUE
  /\ schedule_queue = <<>>
  /\ running_handles = {}
  /\ curl_handle_cnt = 0
  /\ max_to_add = 0
  /\ thread = "caller"
  /\ current = NoRequest
  /\ transfer = [r \in Request |-> "none"]
  /\ readable = {}
  /\ expired = {}
  /\ raw_response = [r \in Request |-> "empty"]
  /\ fate = [r \in Request |-> "new"]

-----------------------------------------------------------------------------
(***************************************************************************)
(* The client.                                                             *)
(***************************************************************************)

\* Schedule(req), from the main loop or from a handler that Poll is calling.
Schedule(r) ==
  /\ \/ thread = "caller"
     \/ thread = "callback" /\ fate[current] = "handled"
  /\ fate[r] = "new"
  /\ IF enabled
     THEN /\ schedule_queue' = Append(schedule_queue, r)
          /\ fate' = [fate EXCEPT ![r] = "accepted"]
     ELSE /\ fate' = [fate EXCEPT ![r] = "rejected"]
          /\ UNCHANGED schedule_queue
  /\ UNCHANGED <<enabled, running_handles, curl_handle_cnt, max_to_add, thread,
                 current, transfer, readable, expired, raw_response>>

\* Disable(), from the main loop or from the signal handler at any moment.
Disable ==
  /\ enabled
  /\ enabled' = FALSE
  /\ UNCHANGED <<schedule_queue, running_handles, curl_handle_cnt, max_to_add, thread,
                 current, transfer, readable, expired, raw_response, fate>>

\* Mutant of StartNewRequests: does not ask whether the client is enabled.
StartNewRequestsUnchecked ==
  /\ thread = "caller"
  /\ curl_handle_cnt < max_active_handles_allowed
  /\ max_to_add' = max_active_handles_allowed - curl_handle_cnt
  /\ thread' = "starting"
  /\ UNCHANGED <<enabled, schedule_queue, running_handles, curl_handle_cnt, current,
                 transfer, readable, expired, raw_response, fate>>

\* Mutant of StartNewRequests: the quota ignores the transfers already running.
StartNewRequestsFullQuota ==
  /\ thread = "caller"
  /\ enabled
  /\ curl_handle_cnt < max_active_handles_allowed
  /\ max_to_add' = max_active_handles_allowed
  /\ thread' = "starting"
  /\ UNCHANGED <<enabled, schedule_queue, running_handles, curl_handle_cnt, current,
                 transfer, readable, expired, raw_response, fate>>

\* StartNewRequests up to its loop: the client is enabled and below the limit.
\* (Otherwise it returns and changes nothing.)
StartNewRequests ==
  /\ thread = "caller"
  /\ enabled
  /\ curl_handle_cnt < max_active_handles_allowed
  /\ max_to_add' = max_active_handles_allowed - curl_handle_cnt
  /\ thread' = "starting"
  /\ UNCHANGED <<enabled, schedule_queue, running_handles, curl_handle_cnt, current,
                 transfer, readable, expired, raw_response, fate>>

\* curl_multi_perform over the transfers ts: those with something to read and
\* those past their timeout end, and the number still running is returned.
MultiPerform(ts, failed) ==
  LET ended == (ts \cap (readable \cup expired)) \cup failed
  IN  /\ transfer' = [r \in Request |->
                        IF r \in ended THEN "done"
                        ELSE IF r \in ts THEN "transferring" ELSE transfer[r]]
      /\ curl_handle_cnt' = Cardinality(ts \ ended)
      /\ readable' = readable \ ended
      /\ expired' = expired \ ended

\* Mutant of StartOne: the loop does not look at its quota.
StartOneUnbounded ==
  /\ thread = "starting"
  /\ schedule_queue # <<>>
  /\ max_to_add' = max_to_add - 1
  /\ schedule_queue' = Tail(schedule_queue)
  /\ MultiPerform(Transferring \cup {Head(schedule_queue)}, {})
  /\ running_handles' = running_handles \cup {Head(schedule_queue)}
  /\ UNCHANGED <<enabled, thread, current, raw_response, fate>>

\* Mutant of StartOne: the handle is not added to running_handles_.
StartOneNoHandle ==
  /\ thread = "starting"
  /\ schedule_queue # <<>>
  /\ max_to_add > 0
  /\ max_to_add' = max_to_add - 1
  /\ schedule_queue' = Tail(schedule_queue)
  /\ MultiPerform(Transferring \cup {Head(schedule_queue)}, {})
  /\ UNCHANGED <<enabled, running_handles, thread, current, raw_response, fate>>

\* Mutant of StartOne: a stack instead of a queue.
StartOneLastIn ==
  /\ thread = "starting"
  /\ schedule_queue # <<>>
  /\ max_to_add > 0
  /\ max_to_add' = max_to_add - 1
  /\ schedule_queue' = SubSeq(schedule_queue, 1, Len(schedule_queue) - 1)
  /\ LET req == schedule_queue[Len(schedule_queue)]
     IN  /\ MultiPerform(Transferring \cup {req}, {})
         /\ running_handles' = running_handles \cup {req}
  /\ UNCHANGED <<enabled, thread, current, raw_response, fate>>

\* One turn of the loop: the queue's head gets a handle and libcurl starts it.
\* A transfer that cannot even be started (failed) ends at once.
StartOne ==
  /\ thread = "starting"
  /\ schedule_queue # <<>>
  /\ max_to_add > 0
  /\ max_to_add' = max_to_add - 1
  /\ schedule_queue' = Tail(schedule_queue)
  /\ LET req == Head(schedule_queue)
     IN  /\ \E failed \in SUBSET {req} :
              MultiPerform(Transferring \cup {req}, failed)
         /\ running_handles' = running_handles \cup {req}
  /\ UNCHANGED <<enabled, thread, current, raw_response, fate>>

\* One turn of the loop in which NewHandle, SetRequestHeaders, EasySetOpt,
\* MultiAddHandle or MultiPerform fails: the request is forgotten and the
\* function returns.
DropOne ==
  /\ thread = "starting"
  /\ schedule_queue # <<>>
  /\ max_to_add > 0
  /\ schedule_queue' = Tail(schedule_queue)
  /\ fate' = [fate EXCEPT ![Head(schedule_queue)] = "dropped"]
  /\ thread' = "caller"
  /\ max_to_add' = 0
  /\ UNCHANGED <<enabled, running_handles, curl_handle_cnt, current, transfer,
                 readable, expired, raw_response>>

\* The loop ends: queue empty, quota used up or no rate slot (RateLimiter).
StartDone ==
  /\ thread = "starting"
  /\ thread' = "caller"
  /\ max_to_add' = 0
  /\ UNCHANGED <<enabled, schedule_queue, running_handles, curl_handle_cnt, current,
                 transfer, readable, expired, raw_response, fate>>

\* Mutant of PollReady: reads messages without working on the sockets.
PollReadyNoPerform ==
  /\ thread = "caller"
  /\ running_handles # {}
  /\ readable # {}
  /\ thread' = "polling"
  /\ UNCHANGED <<enabled, schedule_queue, running_handles, curl_handle_cnt, max_to_add,
                 current, transfer, readable, expired, raw_response, fate>>

\* Poll, select() > 0: libcurl works on the sockets before messages are read.
PollReady ==
  /\ thread = "caller"
  /\ running_handles # {}
  /\ readable # {}
  /\ MultiPerform(Transferring, {})
  /\ thread' = "polling"
  /\ UNCHANGED <<enabled, schedule_queue, running_handles, max_to_add, current,
                 raw_response, fate>>

\* Poll, select() = -1: no file descriptors (Curl::Select) or an interrupted
\* call; messages are read without working on the sockets.  When select()
\* returns 0, Poll returns and changes nothing.
PollError ==
  /\ thread = "caller"
  /\ running_handles # {}
  /\ thread' = "polling"
  /\ UNCHANGED <<enabled, schedule_queue, running_handles, curl_handle_cnt, max_to_add,
                 current, transfer, readable, expired, raw_response, fate>>

\* Poll reads a DONE message and calls Request::DoneCb, which calls the handler
\* if the raw response is not empty and parses as HTTP.
ReadMessage(r) ==
  /\ thread = "polling"
  /\ transfer[r] = "done"
  /\ transfer' = [transfer EXCEPT ![r] = "none"]
  /\ current' = r
  /\ thread' = "callback"
  /\ fate' = [fate EXCEPT ![r] = IF raw_response[r] = "http"
                                 THEN "handled" ELSE "unhandled"]
  /\ UNCHANGED <<enabled, schedule_queue, running_handles, curl_handle_cnt, max_to_add,
                 readable, expired, raw_response>>

\* Mutant of CallbackReturns: the handle is not found and stays in the set.
CallbackReturnsNoErase ==
  /\ thread = "callback"
  /\ current' = NoRequest
  /\ thread' = "polling"
  /\ UNCHANGED <<enabled, schedule_queue, running_handles, curl_handle_cnt, max_to_add,
                 transfer, readable, expired, raw_response, fate>>

\* Mutant of CallbackReturns: erases handles without comparing them.
CallbackReturnsEraseAll ==
  /\ thread = "callback"
  /\ running_handles' = {}
  /\ current' = NoRequest
  /\ thread' = "polling"
  /\ UNCHANGED <<enabled, schedule_queue, curl_handle_cnt, max_to_add, transfer,
                 readable, expired, raw_response, fate>>

\* DoneCb has returned: CleanupCurlHandleData.
CallbackReturns ==
  /\ thread = "callback"
  /\ running_handles' = running_handles \ {current}
  /\ current' = NoRequest
  /\ thread' = "polling"
  /\ UNCHANGED <<enabled, schedule_queue, curl_handle_cnt, max_to_add, transfer,
                 readable, expired, raw_response, fate>>

\* No message left: Poll returns.
PollDone ==
  /\ thread = "polling"
  /\ \A r \in Request : transfer[r] # "done"
  /\ thread' = "caller"
  /\ UNCHANGED <<enabled, schedule_queue, running_handles, curl_handle_cnt, max_to_add,
                 current, transfer, readable, expired, raw_response, fate>>

-----------------------------------------------------------------------------
(***************************************************************************)
(* The network.                                                            *)
(***************************************************************************)

\* The server answers or closes the connection.
Respond(r) ==
  /\ transfer[r] = "transferring"
  /\ r \notin readable
  /\ r \notin Hanging
  /\ readable' = readable \cup {r}
  /\ \E raw \in RawResponse : raw_response' = [raw_response EXCEPT ![r] = raw]
  /\ UNCHANGED <<enabled, schedule_queue, running_handles, curl_handle_cnt, max_to_add,
                 thread, current, transfer, expired, fate>>

\* The transfer outlives --request_timeout_sec.  libcurl acts on it the next
\* time it is asked to perform.
Expire(r) ==
  /\ transfer[r] = "transferring"
  /\ r \notin expired
  /\ expired' = expired \cup {r}
  /\ UNCHANGED <<enabled, schedule_queue, running_handles, curl_handle_cnt, max_to_add,
                 thread, current, transfer, readable, raw_response, fate>>

Next ==
  \/ \E r \in Request : Schedule(r) \/ ReadMessage(r) \/ Respond(r) \/ Expire(r)
  \/ Disable
  \/ StartNewRequests \/ StartOne \/ DropOne \/ StartDone
  \/ PollReady \/ PollError \/ CallbackReturns \/ PollDone

Spec == Init /\ [][Next]_vars

(***************************************************************************)
(* Plusfish::Run calls StartNewRequests and Poll in every iteration, so    *)
(* both are called again and again (SF); a rate slot is available again    *)
(* every second (RateLimiter), so a request is started again and again;    *)
(* inside a call the thread does not stop (WF).  Servers other than the    *)
(* hanging ones answer.  Nothing is assumed of interrupted select() calls. *)
(***************************************************************************)
Fairness ==
  /\ SF_vars(StartNewRequests)
  /\ SF_vars(StartOne)
  /\ WF_vars(StartDone)
  /\ SF_vars(PollReady)
  /\ SF_vars(PollError /\ Transferring = {})
  /\ \A r \in Request : WF_vars(ReadMessage(r))
  /\ WF_vars(CallbackReturns)
  /\ WF_vars(PollDone)
  /\ \A r \in Request : WF_vars(Respond(r))

FairSpec == Spec /\ Fairness

-----------------------------------------------------------------------------
Queued == {schedule_queue[i] : i \in DOMAIN schedule_queue}

TypeOK ==
  /\ enabled \in BOOLEAN
  /\ schedule_queue \in Seq(Request)
  /\ running_handles \subseteq Request
  /\ curl_handle_cnt \in Nat
  /\ max_to_add \in Nat
  /\ thread \in Thread
  /\ current \in Request \cup {NoRequest}
  /\ transfer \in [Request -> TransferState]
  /\ readable \subseteq Request
  /\ expired \subseteq Request
  /\ raw_response \in [Request -> RawResponse]
  /\ fate \in [Request -> Fate]

(***************************************************************************)
(* The counter StartNewRequests decides on is only refreshed by            *)
(* curl_multi_perform and its quota is computed once per call, yet the     *)
(* number of open transfers never exceeds 1.2 times --connection_limit.    *)
(***************************************************************************)
ConnectionLimitRespected ==
  Cardinality(Transferring) <= max_active_handles_allowed

(***************************************************************************)
(* An accepted request whose end has not been reported is either queued    *)
(* once or has a running handle, never both and never neither.  This is    *)
(* what lets Plusfish::Run use schedule_queue_size() and                   *)
(* active_requests_count() to decide that nothing is outstanding.          *)
(***************************************************************************)
NothingOutstandingIsForgotten ==
  /\ {r \in Request : fate[r] = "accepted"} =
       Queued \cup {r \in running_handles : fate[r] = "accepted"}
  /\ Queued \cap running_handles = {}
  /\ \A i, j \in DOMAIN schedule_queue :
       schedule_queue[i] = schedule_queue[j] => i = j

(***************************************************************************)
(* libcurl reports on a handle only while the client keeps it, so the      *)
(* CurlHandleData that Poll reads from a message is always alive.          *)
(***************************************************************************)
HandlesOutliveTransfers ==
  \A r \in Request : transfer[r] # "none" =>
     r \in running_handles /\ fate[r] = "accepted"

(***************************************************************************)
(* Once disabled, the client accepts nothing, and it starts nothing except *)
(* in the StartNewRequests call that Disable may have interrupted          *)
(* (Schedule, StartNewRequests).                                           *)
(***************************************************************************)
DisabledClientStartsNothing ==
  [][~enabled =>
       /\ ~enabled'
       /\ Len(schedule_queue') <= Len(schedule_queue)
       /\ thread # "starting" => running_handles' \subseteq running_handles
       /\ thread # "starting" => thread' # "starting"]_vars

\* CurlHttpClient implements the contract of HttpClientInterface.
Contract == INSTANCE HttpClientContract
              WITH inflight <- {r \in running_handles : fate[r] = "accepted"}

(***************************************************************************)
(* Every client step is a step the interface's contract allows: requests   *)
(* leave the queue in order, are in flight once and end once, however      *)
(* Schedule, StartNewRequests, Poll and Disable interleave.                *)
(***************************************************************************)
ImplementsContract == Contract!ClientSpec

(***************************************************************************)
(* If no server hangs, every accepted request ends unless the client is    *)
(* disabled first (StartNewRequests, Poll).                                *)
(***************************************************************************)
AcceptedRequestsEnd ==
  \A r \in Request :
    fate[r] = "accepted" ~> fate[r] \in Final \/ ~enabled

(***************************************************************************)
(* If no server hangs, a request with a running handle gives it up, also   *)
(* after Disable ("Poll() can still be called to let all existing requests *)
(* finish", curl_http_client.h).                                           *)
(***************************************************************************)
RunningRequestsFinish ==
  \A r \in Request : r \in running_handles ~> r \notin running_handles

(***************************************************************************)
(* Stated by the help of --request_timeout_sec: a request does not last    *)
(* longer than the timeout.  Even the weak reading, that a request past    *)
(* its timeout ends at some time, is what this formula says.               *)
(***************************************************************************)
ExpiredRequestsEnd ==
  \A r \in Request : r \in expired ~> r \notin running_handles

=============================================================================
