---------------------------- MODULE MCRateLimiter ----------------------------
(***************************************************************************)
(* Small instance of RateLimiter for TLC: a rate of two slots per second   *)
(* over five seconds, with the clock set back at most once.                *)
(***************************************************************************)
EXTENDS RateLimiter
=============================================================================
