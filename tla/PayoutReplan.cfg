SPECIFICATION Spec
CONSTANTS
  ChainBlocks <- AllBlocks
  Blocks <- OneBlock
  Height <- OneHeight
  Chains <- BuriedFork
  Workers = {1}
  Rows <- OneRow
  Amount <- Ones
  Addresses = {"a1"}
  NoAddress = "none"
  Batches = {i1, i2}
  NoTx = NoTx
  Maturity = 1
  MinimumSats = 1
  MaxOutputs = 1
  SettleConfs = 1
  MaxConf = 1
  Finality = FALSE
INVARIANT OneReservation
CHECK_DEADLOCK FALSE
