SPECIFICATION Spec
CONSTANTS
  a = a
  b = b
  c = c
  p1 = p1
  p2 = p2
  c1 = c1
  c2 = c2
  compute = compute
  transfer = transfer
  Schemes = {a, b, c}
  Contexts = {c1}
  On <- OneContext
  Parcels = {p1}
  Kinds = {compute, transfer}
  Footprints <- Kernels
  Read = Read
  None = None
  OneThread = TRUE
  LateFailures = FALSE
  MaxEdits = 0
  MaxFailures = 0
INVARIANTS LoopCarriedStaysCurrent
CHECK_DEADLOCK FALSE
