SPECIFICATION Spec
CONSTANTS
  c1 = c1
  c2 = c2
  t1 = t1
  t2 = t2
  Drivers <- OneAll
  Contexts = {c1, c2}
  Kinds <- All
  NoContext = NoContext
  Doomed = {}
  Threads = {t1}
  NoThread = NoThread
  Hosts = {t1}
  ViewsOutlive = TRUE
  MaxTicket = 2
  MaxPromises = 1
  MaxDeeds = 2
CHECK_DEADLOCK FALSE
INVARIANTS ViewExcludesWrites
