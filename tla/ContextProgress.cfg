CONSTANTS
  a = a
  b = b
  r = r
  Owner = Owner
  NoTarget = NoTarget
  Contexts = {a, b}
  Computing = {a}
  Rendering = {a}
  MaxTicket = 2
  MaxFailures = 0
SPECIFICATION Spec
CHECK_DEADLOCK FALSE
INVARIANT ProgressSound
