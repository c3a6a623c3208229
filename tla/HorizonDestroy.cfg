CONSTANTS
  a = a
  b = b
  r = r
  Owner = Owner
  NoTarget = NoTarget
  Contexts = {a, b}
  Computing = {a, b}
  Rendering = {}
  MaxTicket = 2
  MaxFailures = 0
SPECIFICATION Spec
CHECK_DEADLOCK FALSE
INVARIANT HorizonSound
