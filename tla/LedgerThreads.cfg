CONSTANTS
  ctxA = ctxA
  ctxB = ctxB
  ctxR = ctxR
  main = main
  other = other
  buf = buf
  Owner = Owner
  NoPlan = NoPlan
  Contexts = {ctxA, ctxB}
  Rendering = {}
  Threads = {main, other}
  Driver <- TwoThreads
  Doomed = {}
  Parcels = {buf}
  Accesses <- OneParcel
  MaxTicket = 2
SPECIFICATION Spec
INVARIANT ClaimsExclusive
