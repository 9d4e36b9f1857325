SPECIFICATION DiscoverySpec
CONSTANTS
  Volumes <- MCVolumes
  BadSets <- MCBadSets
  MaxPasses = 8
  MaxDepth = 6
  MaxRuns = 2
INVARIANTS
  TreeMappedInside
PROPERTIES
  AskedOnce
CHECK_DEADLOCK FALSE
