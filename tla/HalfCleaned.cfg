SPECIFICATION SpecKilled
CONSTANTS
  Own = "own"
  Others <- MCOthers
  Files <- MCFiles
  Overrides <- Paired
INVARIANTS
  SourceOfTruth
