--------------------------- MODULE MCPayoutLedger ---------------------------
(***************************************************************************)
(* Instances of PayoutLedger for TLC: pool blocks "p1" and "p2" at heights *)
(* 1 and 2, competing blocks "x1", "x2" that the pool did not find, and    *)
(* the chains that they form.                                              *)
(***************************************************************************)
EXTENDS PayoutLedger, TLC

TwoBlocks == {"p1", "p2"}
TwoHeights == [b \in TwoBlocks |-> IF b = "p1" THEN 1 ELSE 2]
OneBlock == {"p1"}
OneHeight == [b \in OneBlock |-> 1]
AllBlocks == {"p1", "p2", "x1", "x2", "y3"}

(* p1 is buried by p2 or by x2, which replaces p2.                         *)
ShallowForks == {<<"p1">>, <<"p1", "p2">>, <<"p1", "x2">>}
DeepForks == ShallowForks \cup {<<"p1", "p2", "y3">>}
OneWorkerRows == {<<"p1", 1>>, <<"p2", 1>>}

(* p1 and the x1 that replaces it.                                         *)
DeepFork == {<<"p1">>, <<"x1">>}
BuriedFork == DeepFork \cup {<<"p1", "x2">>}

TwoWorkers == {1, 2}
OneBlockRows == {<<"p1", 1>>, <<"p1", 2>>}
OneRow == {<<"p1", 1>>}
Ones == [r \in Rows |-> 1]
OneAndTwo == [r \in Rows |-> r[2]]

BatchSymmetry == Permutations(Batches)
=============================================================================
