SPECIFICATION Spec
CONSTANTS
  ChainBlocks <- AllBlocks
  Blocks <- TwoBlocks
  Height <- TwoHeights
  Chains <- DeepForks
  Workers = {1}
  Rows <- OneWorkerRows
  Amount <- Ones
  Addresses = {"a1"}
  NoAddress = "none"
  Batches = {i1, i2}
  NoTx = NoTx
  Maturity = 2
  MinimumSats = 1
  MaxOutputs = 1
  SettleConfs = 1
  MaxConf = 1
  Finality = TRUE
SYMMETRY BatchSymmetry
INVARIANTS
  LedgerSound
  OneReservation
  StatusMatchesBatches
  NoDoublePayment
  AdviceHolds
PROPERTY PaysOnce
CHECK_DEADLOCK FALSE
