CONSTANTS
  a = a
  b = b
  r = r
  Owner = Owner
  NoTarget = NoTarget
  Contexts = {a, r}
  Computing = {a}
  Rendering = {r}
  MaxTicket = 2
  MaxFailures = 1
  OtherScans = FALSE
SPECIFICATION FairRingSpec
CHECK_DEADLOCK FALSE
INVARIANTS RingTypeOK BoundaryDropsRetired
PROPERTIES RingDrains DestroyCompletesWithoutFailure
