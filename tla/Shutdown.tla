------------------------------ MODULE Shutdown ------------------------------
(***************************************************************************)
(* How a scan is stopped: KeepRunningOrShutdown on the main thread and     *)
(* SignalHandler on top of it, at the grain of the mutexes they take.      *)
(*                                                                         *)
(* Each flag has a mutex, and every access is a call that takes the mutex, *)
(* does its work and gives it back.  SIGINT can arrive at any point of the *)
(* main thread, also inside of such a call; its handler runs on the same   *)
(* thread, so the main thread goes on only when the handler has returned.  *)
(* A second SIGINT waits for the handler, as signal() arranges.            *)
(***************************************************************************)
EXTENDS Naturals, FiniteSets

CONSTANTS MaxInterrupts  \* bound on the number of SIGINTs

VARIABLES
  client_enabled, scan_enabled, deadline,  \* the flags, as in Scan
  at,         \* the call each activity is at
  inside,     \* whether it is between lock and unlock
  interrupts  \* SIGINTs so far

vars == <<client_enabled, scan_enabled, deadline, at, inside, interrupts>>
flags == <<client_enabled, scan_enabled, deadline>>

Activity == {"main", "handler"}

\* The mutex that a call takes, and the calls that share it with readers.
Mutex(call) ==
  CASE call \in {"start", "limit", "signal", "graceful", "graceful_disable",
                 "shutdown", "shutdown_disable"} -> "client enabled_mutex_"
    [] call \in {"keep", "disable"}              -> "enabled_mutex_"
    [] call \in {"time", "extend"}               -> "shutdown_time_mutex_"
Reader == {"keep", "time"}

Init ==
  /\ client_enabled = TRUE /\ scan_enabled = TRUE
  /\ deadline \in {"never", "scan"}
  /\ at = [main |-> "start", handler |-> "idle"]
  /\ inside = [a \in Activity |-> FALSE]
  /\ interrupts = 0

\* Where an activity goes on after a procedure: the loop of Run, or out of it
\* when nothing is left to do; the handler returns.
Return(a) == IF a = "main" THEN {"start", "done"} ELSE {"idle"}

-----------------------------------------------------------------------------
\* The handler has precedence, as it runs on top of the main thread.
Running(a) == a = "handler" \/ at["handler"] = "idle"

Lock(a) ==
  /\ Running(a) /\ at[a] \notin {"idle", "done"} /\ ~inside[a]
  /\ \A b \in Activity :
       inside[b] /\ Mutex(at[b]) = Mutex(at[a]) => {at[a], at[b]} \subseteq Reader
  /\ inside' = [inside EXCEPT ![a] = TRUE]
  /\ UNCHANGED <<flags, at, interrupts>>

\* The end of a call: the lock is given back and a goes on with one of next.
Unlock(a, call, next) ==
  /\ Running(a) /\ at[a] = call /\ inside[a]
  /\ inside' = [inside EXCEPT ![a] = FALSE]
  /\ \E n \in next : at' = [at EXCEPT ![a] = n]
  /\ UNCHANGED interrupts

\* StartNewRequests, and every Schedule, ask whether the client is enabled.
StartNewRequests == Unlock("main", "start", {"start", "keep"}) /\ UNCHANGED flags

\* KeepRunningOrShutdown: enabled(), then the time, then the client.
KeepRunning ==
  /\ Unlock("main", "keep", IF scan_enabled THEN {"time"} ELSE {"done"})
  /\ UNCHANGED flags

ShutdownTime ==
  /\ Unlock("main", "time", IF deadline \in {"expired", "over"} THEN {"limit"}
                            ELSE Return("main"))
  /\ UNCHANGED flags

LimitReached ==
  /\ Unlock("main", "limit", IF client_enabled THEN {"graceful"} ELSE {"shutdown"})
  /\ UNCHANGED flags

\* ShutdownGraceful and Shutdown, of the main thread and of the handler.
ShutdownGraceful(a) ==
  \/ /\ Unlock(a, "graceful", IF client_enabled THEN {"graceful_disable"} ELSE {"extend"})
     /\ UNCHANGED flags
  \/ /\ Unlock(a, "graceful_disable", {"extend"})
     /\ client_enabled' = FALSE /\ UNCHANGED <<scan_enabled, deadline>>
  \/ /\ Unlock(a, "extend", Return(a))
     /\ deadline' = "grace" /\ UNCHANGED <<client_enabled, scan_enabled>>

ShutdownNow(a) ==
  \/ /\ Unlock(a, "shutdown", IF client_enabled THEN {"shutdown_disable"} ELSE {"disable"})
     /\ UNCHANGED flags
  \/ /\ Unlock(a, "shutdown_disable", {"disable"})
     /\ client_enabled' = FALSE /\ UNCHANGED <<scan_enabled, deadline>>
  \/ /\ Unlock(a, "disable", IF a = "main" THEN {"done"} ELSE {"idle"})
     /\ scan_enabled' = FALSE /\ UNCHANGED <<client_enabled, deadline>>

Signal ==
  /\ at["main"] # "done" /\ at["handler"] = "idle"
  /\ interrupts < MaxInterrupts
  /\ interrupts' = interrupts + 1
  /\ at' = [at EXCEPT !["handler"] = "signal"]
  /\ UNCHANGED <<flags, inside>>

SignalHandler ==
  /\ Unlock("handler", "signal", IF client_enabled THEN {"graceful"} ELSE {"shutdown"})
  /\ UNCHANGED flags

TimePasses ==
  /\ at["main"] # "done"
  /\ \/ deadline = "scan" /\ deadline' = "expired"
     \/ deadline = "grace" /\ deadline' = "over"
  /\ UNCHANGED <<client_enabled, scan_enabled, at, inside, interrupts>>

Step(a) == Lock(a) \/ ShutdownGraceful(a) \/ ShutdownNow(a)

Process ==
  \/ \E a \in Activity : Step(a)
  \/ StartNewRequests \/ KeepRunning \/ ShutdownTime \/ LimitReached
  \/ SignalHandler

Next == Process \/ Signal \/ TimePasses

(***************************************************************************)
(* The process runs whenever it is not blocked; signals may never come.    *)
(***************************************************************************)
FairSpec == Init /\ [][Next]_vars /\ WF_vars(Process)
-----------------------------------------------------------------------------
\* plusfish.cc: "The first ^C will stop the HTTP client. The second will cause
\* plusfish to exit."
FirstInterruptStopsTheClient ==
  [](interrupts = 1 => <>(~client_enabled \/ at["main"] = "done"))
=============================================================================
