SPECIFICATION TreeSpec
CONSTANTS
  SlotCount = 5
  Root = 1
  SystemMax = 2
  Layouts = {"move", "split"}
  ShowDeleted = {FALSE, TRUE}
  MaxOps = 6
  MaxDamage = 2
  EmptyThreshold = 1
  FirstStop = 2
  Images <- MCImages
INVARIANTS
  LiveFound
  NoneUnreachable
  LivePlaced
  OwnData
  CompleteIsWhole
  FindsUpToTheGap
CHECK_DEADLOCK FALSE
