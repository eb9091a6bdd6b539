SPECIFICATION Spec
CONSTANTS
  Sessions = {s1, s2}
  Loop = Loop
  Nobody = Nobody
  MaxTip = 1
INVARIANTS
  NobodyForgotten
PROPERTIES
  NeverOlder
  MinersFollowTip
CHECK_DEADLOCK FALSE
