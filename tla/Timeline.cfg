CONSTANTS
  a = a
  b = b
  r = r
  Owner = Owner
  NoTarget = NoTarget
  Contexts = {a, b, r}
  Computing = {a, b}
  Rendering = {r}
  MaxTicket = 3
  MaxFailures = 1
SPECIFICATION Spec
SYMMETRY ComputeSymmetry
CHECK_DEADLOCK FALSE
INVARIANTS ProgressSound HorizonSoundAboveFloor QuiescentHorizonComplete TicketOrder
PROPERTY HorizonMonotone
