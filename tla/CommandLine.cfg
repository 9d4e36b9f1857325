SPECIFICATION CommandSpec
CONSTANTS
  Own = "own"
  Others <- MCOthers
  Files <- MCFiles
  Overrides <- Paired
  Devices <- MCDevices
  Lines <- MCLines
INVARIANTS
  SourceOfTruth
  ReportTrue
  WorkflowStarts
PROPERTIES
  ImplementsSession
