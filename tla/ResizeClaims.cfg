SPECIFICATION Spec
CONSTANTS
  Images = 4
  Slots = 2
  Depth = 2
  ClaimsOutliveResize = TRUE
  MaxFrames = 4
  MaxResizes = 1
  MaxDiscards = 1
CHECK_DEADLOCK FALSE
INVARIANTS PresentsOwnFrame
