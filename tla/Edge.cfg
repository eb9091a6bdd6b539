SPECIFICATION Spec
CONSTANTS
  Sessions = {s1, s2, s3}
  Ips = {i1}
  Workers = {w1}
  NoWorker = NoWorker
  MaxTotal = 2
  MaxPerIp = 2
  MaxFailures = 1
  FailureWindow = 1
  Ban = 1
  Cost = 2
  Rate = 1
  Burst = 2
  GlobalRate = 1
  GlobalBurst = 4
  MaxTime = 1
INVARIANTS
  SlotsCounted
  RatesHold
PROPERTIES
  BanLasts
  SlotsReturn
CHECK_DEADLOCK FALSE
