------------------------------- MODULE MCScan -------------------------------
(***************************************************************************)
(* Instances of Scan for TLC: a seed and one URL that can be discovered in *)
(* the same directory, and one audit slot, so that the URLs compete for    *)
(* it and the second directory lookup is answered from probed_urls_.       *)
(***************************************************************************)
EXTENDS Scan, TLC

CONSTANTS u1, u2

MCSeeds == <<u1>>
MCBase == [u \in Url |-> "dir"]

\* A baseline, a serial check and one evaluated on all its responses.  There
\* is nothing to inject into for the second check of u2.
MCGenerated == (u1 :> <<1, 2, 2>>) @@ (u2 :> <<2, 0, 1>>)

\* For the run with one SIGINT: the baseline and a serial check.
MCGeneratedSmall == (u1 :> <<1, 2>>) @@ (u2 :> <<2, 0>>)
=============================================================================
