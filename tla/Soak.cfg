SPECIFICATION SoakSpec
CONSTANTS
  Nodes = {a, b}
  Domain <- OwnDomain
  MinNodes = 2
  MinDomains = 2
  Branches = {x, y}
  NoBlock = NoBlock
  Qualifications <- ThreeQualifications
  MaxFailures = 1
  MaxSpread = 1
  MaxReorg = 1
  Ratio = 3
  MaxTime = 3
  MaxHeight = 1
  MaxRecords = 4
SYMMETRY SoakSymmetry
CHECK_DEADLOCK FALSE
INVARIANTS
  RestartAnswered
PROPERTIES
  DisqualifiedForGood
