-------------------------- MODULE HttpClientContract --------------------------
(***************************************************************************)
(* What HttpClientInterface (http_client.h) promises its callers, without  *)
(* libcurl: a request is accepted or rejected by Schedule, accepted        *)
(* requests wait in a FIFO queue, leave it once, are in flight once, and   *)
(* end in exactly one way.  CurlHttpClient is shown to implement this      *)
(* specification, and the scanner is composed from it.                     *)
(***************************************************************************)
EXTENDS Naturals, Sequences

CONSTANT Request   \* the Request objects the scan creates

VARIABLES
  enabled,         \* CurlHttpClient::enabled_
  schedule_queue,  \* requests accepted and not yet taken from the queue
  inflight,        \* requests handed to the network and not yet finished
  fate             \* what has become of each request

clientVars == <<enabled, schedule_queue, inflight, fate>>

(***************************************************************************)
(* rejected:  Schedule returned false;                                     *)
(* dropped:   taken from the queue but never handed to the network;        *)
(* handled:   the request handler was called with the response;            *)
(* unhandled: the transfer ended and the handler was not called.           *)
(***************************************************************************)
Final == {"rejected", "dropped", "handled", "unhandled"}
Fate == {"new", "accepted"} \cup Final

ClientInit ==
  /\ enabled = TRUE
  /\ schedule_queue = <<>>
  /\ inflight = {}
  /\ fate = [r \in Request |-> "new"]

\* Schedule: an enabled client queues the request, a disabled one rejects it.
Schedule(r) ==
  /\ fate[r] = "new"
  /\ IF enabled
     THEN /\ schedule_queue' = Append(schedule_queue, r)
          /\ fate' = [fate EXCEPT ![r] = "accepted"]
     ELSE /\ fate' = [fate EXCEPT ![r] = "rejected"]
          /\ UNCHANGED schedule_queue
  /\ UNCHANGED <<enabled, inflight>>

\* The request that waited longest goes to the network.
Launch ==
  /\ schedule_queue # <<>>
  /\ schedule_queue' = Tail(schedule_queue)
  /\ inflight' = inflight \cup {Head(schedule_queue)}
  /\ UNCHANGED <<enabled, fate>>

\* The request that waited longest cannot be started and is forgotten.
Drop ==
  /\ schedule_queue # <<>>
  /\ schedule_queue' = Tail(schedule_queue)
  /\ fate' = [fate EXCEPT ![Head(schedule_queue)] = "dropped"]
  /\ UNCHANGED <<enabled, inflight>>

\* A transfer ends, with or without a call of the request's handler.
Finish(r, end) ==
  /\ r \in inflight
  /\ end \in {"handled", "unhandled"}
  /\ inflight' = inflight \ {r}
  /\ fate' = [fate EXCEPT ![r] = end]
  /\ UNCHANGED <<enabled, schedule_queue>>

\* Nothing ever enables the client again.
Disable ==
  /\ enabled' = FALSE
  /\ UNCHANGED <<schedule_queue, inflight, fate>>

ClientNext ==
  \/ \E r \in Request : Schedule(r)
  \/ Launch
  \/ Drop
  \/ \E r \in Request, end \in {"handled", "unhandled"} : Finish(r, end)
  \/ Disable

ClientSpec == ClientInit /\ [][ClientNext]_clientVars

=============================================================================
