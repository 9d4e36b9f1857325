SPECIFICATION TreeSpec
CONSTANTS
  MaxClusters = 4
  BAD = 20
  EOC = 21
  Tables <- MCTables
  UnreadSets <- MCUnreadSets
  Geometries <- Shifted
  Files <- MCFiles
  Root = 1
  SlotsPerCluster = 4
  LastCluster = 6
  MaxSize = 8
  MaxDepth = 2
  MaxOps = 6
  Damages <- MCDamages
INVARIANTS
  RunsFollowChain
  AlignedSectors
  LiveListed
  NothingInvented
CHECK_DEADLOCK FALSE
