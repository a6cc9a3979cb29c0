----------------------------- MODULE MCShutdown -----------------------------
(***************************************************************************)
(* Shutdown for TLC: up to two interrupts, with and without a time limit.  *)
(***************************************************************************)
EXTENDS Shutdown
=============================================================================
