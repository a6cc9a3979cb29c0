---------------------------- MODULE MCIssueStore ----------------------------
(***************************************************************************)
(* Instances of IssueStore for TLC: two requests and three checks, each    *)
(* with more different issues than the limits admit.                       *)
(***************************************************************************)
EXTENDS IssueStore
=============================================================================
