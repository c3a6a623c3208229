CONSTANTS
  Graphs <- GraphsDef
  Shape <- ShapeDef
SPECIFICATION FairSpec
INVARIANTS
  ConflictsInOrder
  TemporariesIntact
  SharingAddsNoDelay
PROPERTIES
  AcyclicGraphsAreExecuted
CHECK_DEADLOCK FALSE
