SPECIFICATION Spec
CONSTANTS
  ChainBlocks <- AllBlocks
  Blocks <- OneBlock
  Height <- OneHeight
  Chains <- DeepFork
  Workers <- TwoWorkers
  Rows <- OneBlockRows
  Amount <- OneAndTwo
  Addresses = {"a1"}
  NoAddress = "none"
  Batches = {i1, i2}
  NoTx = NoTx
  Maturity = 1
  MinimumSats = 1
  MaxOutputs = 1
  SettleConfs = 1
  MaxConf = 1
  Finality = FALSE
SYMMETRY BatchSymmetry
INVARIANTS
  CreditFollowsChain
  PlannedOnCanonical
  PaymentProven
  StatesAgree
PROPERTY NothingReturns
CHECK_DEADLOCK FALSE
