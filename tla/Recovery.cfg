SPECIFICATION Spec
CONSTANTS
  Sectors <- MCSectors
  Files <- MCFiles
  Layouts <- MCLayouts
  Options <- MCOptions
  Disks <- AllDisks
  Ciphers = {TRUE, FALSE}
INVARIANTS
  MountReleased
  Certified
PROPERTIES
  AsksForWhatIsMissing
  RecoversWhatItCan
  AssessmentStands
  ImplementsProgressiveImage
