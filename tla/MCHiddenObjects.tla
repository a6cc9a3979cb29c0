-------------------------- MODULE MCHiddenObjects --------------------------
(***************************************************************************)
(* Instances of HiddenObjects for TLC.                                     *)
(***************************************************************************)
EXTENDS HiddenObjects

Entry(word, extend) == [word |-> word, extend |-> extend]

\* A Request drops the "?" of an empty query.
MCUrl ==
  [t \in Candidate |-> IF t # <<>> /\ Last(t) = "?" THEN Front(t) ELSE t]

-----------------------------------------------------------------------------
(* Two directories, one of them a candidate of the other, with lists that  *)
(* make "/a/a/" for both.                                                  *)

Index == <<"/", "index">>
Sub == <<"/", "a", "/">>

TwoPages == {Index, Sub}
TwoBase == [p \in TwoPages |-> IF p = Index THEN <<"/">> ELSE p]
NestedWords == <<Entry(<<"a", "/">>, TRUE)>>
NestedExtensions == <<(<<"a", "/">>)>>
DeepAbsent == {<<"/", "a", "/", "a", "/", "a", "/">>}

-----------------------------------------------------------------------------
(* One directory, with the lists of AddUrlDoesNotScheduleDuplicates, and   *)
(* with a candidate that has the URL of another one.                       *)

OnePage == {Index}
OneBase == [p \in OnePage |-> <<"/">>]
TestWords == <<Entry(<<"tar">>, TRUE), Entry(<<"tar", ".gz">>, TRUE)>>
QueryWords == <<Entry(<<"tar">>, TRUE), Entry(<<"tar", ".gz">>, FALSE), Entry(<<"tar", ".gz", "?">>, FALSE)>>
TestExtensions == <<(<<".gz">>)>>

-----------------------------------------------------------------------------
(* Three directories.  When "/index" comes after "/a/" it has nothing to   *)
(* try, and "/b/" waits behind it.                                         *)

ThreePages == {Index, Sub, <<"/", "b", "/">>}
ThreeBase == [p \in ThreePages |-> IF p = Index THEN <<"/">> ELSE p]
ThreeExtensions == <<(<<"x">>), (<<"y">>)>>
=============================================================================
