SPECIFICATION Spec
CONSTANTS
  c1 = c1
  c2 = c2
  t1 = t1
  t2 = t2
  Drivers <- OneEach
  Contexts = {c1, c2}
  Kinds <- BothWrite
  NoContext = NoContext
  Doomed = {c2}
  Threads = {t1, t2}
  NoThread = NoThread
  Hosts = {t1}
  ViewsOutlive = FALSE
  MaxTicket = 3
  MaxPromises = 1
  MaxDeeds = 2
CHECK_DEADLOCK FALSE
INVARIANT ViewExcludesWrites
