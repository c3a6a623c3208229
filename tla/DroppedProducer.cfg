CONSTANTS
  ctxA = ctxA
  ctxB = ctxB
  ctxR = ctxR
  main = main
  other = other
  buf = buf
  Owner = Owner
  NoPlan = NoPlan
  Contexts = {ctxA, ctxB}
  Rendering = {}
  Threads = {main}
  Driver <- OneThread
  Doomed = {ctxA, ctxB}
  Parcels = {buf}
  Accesses <- OneParcel
  MaxTicket = 2
SPECIFICATION FairSpec
PROPERTY DropReturns
