CONSTANTS
  k1 = k1
  k2 = k2
  NoKey = NoKey
  None = None
  Rows = 2
  Queues = {"compute", "graphics"}
  Keys = {}
  MaxReservations = 2
  MaxTicket = 2
  MaxFailures = 0
  BindingsDropped = FALSE
SPECIFICATION Spec
CHECK_DEADLOCK FALSE
INVARIANT DispatchReadsItsRow
