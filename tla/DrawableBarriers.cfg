CONSTANTS
  Graphs <- OverlayDef
  Shape <- ShapeDef
SPECIFICATION Spec
INVARIANT ConflictsInOrder
CHECK_DEADLOCK FALSE
