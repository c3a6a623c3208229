CONSTANTS
  k1 = k1
  k2 = k2
  NoKey = NoKey
  None = None
  Rows = 2
  Queues = {"compute"}
  Keys = {k1}
  MaxReservations = 2
  MaxTicket = 3
  MaxFailures = 0
  BindingsDropped = TRUE
SPECIFICATION Spec
CHECK_DEADLOCK FALSE
INVARIANT ReusableIsIdle
