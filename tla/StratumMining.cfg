SPECIFICATION Spec
CONSTANTS
  Shares = 2
  Extranonces = 3
  MaxTip = 1
INVARIANTS
  CountsAgree
  WorkOnce
  OnlyStaleRefused
PROPERTIES
  Ends
CHECK_DEADLOCK FALSE
