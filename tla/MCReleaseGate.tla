---------------------------- MODULE MCReleaseGate ----------------------------
(***************************************************************************)
(* An instance of ReleaseGate for TLC: "c2" follows "c1" with other code,  *)
(* which enables mainnet.                                                  *)
(***************************************************************************)
EXTENDS ReleaseGate

TwoCommits == {"c1", "c2"}
Line == {<<"c1", "c1">>, <<"c1", "c2">>, <<"c2", "c2">>}
CodeOfEach == [c \in TwoCommits |-> c]
Last == {"c2"}
=============================================================================
