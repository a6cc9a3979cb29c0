---------------------------- MODULE MCHttpClient ----------------------------
(***************************************************************************)
(* Instances of HttpClient for TLC.  Three requests against two            *)
(* connections is the smallest instance in which a request waits in the    *)
(* queue while others run and finish; the liveness runs use fewer.         *)
(***************************************************************************)
EXTENDS HttpClient
=============================================================================
