SPECIFICATION Spec
CONSTANTS
  MaxPos = 3
  MaxSize = 3
  MaxRanges = 2
  MaxEntry = 3
  MaxEntries = 2
  RangeLists <- MCRangeLists
  MapfileSet <- MCMapfileSet
INVARIANTS
  DomainExact
  DomainContiguous
  PlanCounts
CHECK_DEADLOCK FALSE
