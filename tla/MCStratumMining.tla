--------------------------- MODULE MCStratumMining ---------------------------
(* The worker and the pool for TLC, which also checks here what is proved   *)
(* of the Merkle tree, and of larger trees than the templates' own.         *)
EXTENDS StratumMining

ASSUME MerkleAssumption == TreesAgree /\ RootsTell

Leaves(n) == [i \in 1..n |-> <<i>>]

ASSUME LargerTrees ==
  \A n \in 0..16 :
    FromCoinbase(<<0>>, MerkleBranch(<<None>> \o Leaves(n)))
      = MerkleRoot(<<<<0>>>> \o Leaves(n))
=============================================================================
