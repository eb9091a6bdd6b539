SPECIFICATION Spec
CONSTANTS
  Sessions = {s1, s2}
  Workers = {1}
  NoWorker = NoWorker
  Keys = {1}
  MinDiff = 1
  MaxDiff = 2
  DefaultDiff = 3
  Modes = {"proportional", "pplns"}
  PplnsShares = 2
  MaxConns = 2
  MaxJobs = 2
  MaxTip = 1
  MaxShares = 3
SYMMETRY SessionSymmetry
INVARIANTS
  PoolSound
  RewardedOnce
  LedgerMatchesNode
  NoShareTwice
  ScoredAsVerified
CHECK_DEADLOCK FALSE
