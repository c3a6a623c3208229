CONSTANTS
  ctxA = ctxA
  ctxB = ctxB
  ctxR = ctxR
  main = main
  other = other
  buf = buf
  Owner = Owner
  NoPlan = NoPlan
  Contexts = {ctxA, ctxB, ctxR}
  Rendering = {ctxR}
  Threads = {main}
  Driver <- OneThread
  Doomed = {ctxA}
  Parcels = {buf}
  Accesses <- OneParcel
  MaxTicket = 3
SPECIFICATION FairSpec
INVARIANTS ClaimsExclusive SettledMeansIdle QueuedWaitsAreLive LedgerOrder
PROPERTIES EveryPartitionCompletes DropReturnsUnlessRefused ImplementsClaims
