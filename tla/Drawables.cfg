SPECIFICATION FairSpec
CONSTANTS
  Images = 3
  Slots = 2
  Depth = 2
  ClaimsOutliveResize = FALSE
  MaxFrames = 4
  MaxResizes = 1
  MaxDiscards = 1
CHECK_DEADLOCK FALSE
INVARIANTS TypeOK PresentsOwnFrame SlotIsIdle
PROPERTIES AcquireReturns ConsumeReturns
