SPECIFICATION Spec
CONSTANTS
  Commits <- TwoCommits
  Ancestry <- Line
  Code <- CodeOfEach
  Mainnet <- Last
  Missing = Missing
  MaxEdits = 2
  MaxPackages = 3
INVARIANTS
  VerifiedWhole
  ReleasedWasReviewed
CHECK_DEADLOCK FALSE
