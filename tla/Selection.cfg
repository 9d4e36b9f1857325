SPECIFICATION Spec
CONSTANTS
  Volumes <- MCVolumes
  ShowDeleted = {TRUE, FALSE}
INVARIANTS
  BoxesAreSelection
  NothingUnchosen
PROPERTIES
  RecoversWithChildren
