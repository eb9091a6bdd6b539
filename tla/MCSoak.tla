------------------------------- MODULE MCSoak -------------------------------
(* Values for TLC.                                                         *)
EXTENDS Soak

(* smoke, candidate, and what launch asks besides.                         *)
ThreeQualifications ==
  {[window |-> 0, restart |-> FALSE, reorg |-> FALSE],
   [window |-> 0, restart |-> TRUE, reorg |-> FALSE],
   [window |-> 1, restart |-> FALSE, reorg |-> TRUE]}

OwnDomain == [n \in Nodes |-> n]

(* longest_failure_run as the code computes it, sample by sample.          *)
Loop(h) ==
  LET After(run, r) ==
        LET current == IF r.healthy THEN 0 ELSE run.current + 1 IN
        [current |-> current,
         longest |-> IF current > run.longest THEN current ELSE run.longest]
  IN FoldLeft(After, [current |-> 0, longest |-> 0], h).longest

ASSUME LoopAssumption ==
  \A n \in 0..6 : \A h \in [1..n -> [healthy : BOOLEAN]] :
    LongestRun(h) = Loop(h)

SoakSymmetry == Permutations(Nodes) \cup Permutations(Branches)
=============================================================================
