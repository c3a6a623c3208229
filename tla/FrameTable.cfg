CONSTANTS
  k1 = k1
  k2 = k2
  NoKey = NoKey
  None = None
  Rows = 2
  Queues = {"compute"}
  Keys = {k1, k2}
  MaxReservations = 4
  MaxTicket = 5
  MaxFailures = 1
  BindingsDropped = FALSE
SPECIFICATION FairSpec
CHECK_DEADLOCK FALSE
INVARIANTS DispatchReadsItsRow StagingIntact PinsHaveOneOwner ReusableIsIdle
PROPERTY RowWaitEnds
