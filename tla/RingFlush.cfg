CONSTANTS
  a = a
  b = b
  r = r
  Owner = Owner
  NoTarget = NoTarget
  Contexts = {a, b}
  Computing = {a, b}
  Rendering = {}
  MaxTicket = 2
  MaxFailures = 0
  OtherScans = TRUE
SPECIFICATION RingSpec
CHECK_DEADLOCK FALSE
INVARIANT FlushDropsRetired
