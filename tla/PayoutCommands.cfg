SPECIFICATION Spec
CONSTANTS
  Operators = {o1, o2}
  Batches = {b1, b2}
  Credits = {c1, c2}
  NoBatch = NoBatch
SYMMETRY CommandSymmetry
CHECK_DEADLOCK FALSE
INVARIANTS
  ReservedOnce
PROPERTIES
  PaidForGood
