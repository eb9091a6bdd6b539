-------------------------- MODULE MCAccountingPool --------------------------
(***************************************************************************)
(* An instance of AccountingPool for TLC.                                  *)
(***************************************************************************)
EXTENDS AccountingPool, TLC

SessionSymmetry == Permutations(Sessions)
=============================================================================
