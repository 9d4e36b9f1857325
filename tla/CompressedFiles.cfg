SPECIFICATION ExtractSpec
CONSTANTS
  ClusterSize = 2
  PartitionOffset = 1
  UnitClusters = 2
  Root = 5
  ReportName = "recovery_report.txt"
  DepthLimit = 1
  DirectCount = 1
  MaxPos = 5
  MaxEntry = 4
  MaxEntries = 2
  Ranges <- MCRanges
  MapfileSet <- MCMapfileSet
  Trees <- CompressedTrees
INVARIANTS
  CompressedIsTrue
CHECK_DEADLOCK FALSE
