SPECIFICATION Spec
CONSTANTS
  Threads = {t1, t2, t3}
  MaxNonce = 3
  Chunk = 2
  MaxLimit = 4
  NoNonce = NoNonce
INVARIANTS
  ScanSound
  StatusIsTrue
PROPERTIES
  HashedOnce
  ScanEnds
CHECK_DEADLOCK FALSE
