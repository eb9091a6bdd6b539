-------------------------- MODULE MCPayoutCommands --------------------------
(* Values for TLC.                                                         *)
EXTENDS PayoutCommands, TLC

CommandSymmetry ==
  Permutations(Operators) \cup Permutations(Batches) \cup Permutations(Credits)
=============================================================================
