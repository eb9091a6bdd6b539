SPECIFICATION SplitSpec
CONSTANTS
  Workers = {1, 2, 3}
  Difficulty = {1, 3}
  FeeBps = 2500
  MaxScore = 6
  MaxReward = 10
INVARIANTS
  Conserved
  Fairest
PROPERTY MoreWorkNeverPaysLess
CHECK_DEADLOCK FALSE
