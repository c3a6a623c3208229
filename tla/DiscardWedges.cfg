SPECIFICATION FairSpec
CONSTANTS
  Images = 4
  Slots = 3
  Depth = 3
  ClaimsOutliveResize = FALSE
  MaxFrames = 5
  MaxResizes = 0
  MaxDiscards = 1
CHECK_DEADLOCK FALSE
PROPERTIES ConsumeAlwaysReturns
