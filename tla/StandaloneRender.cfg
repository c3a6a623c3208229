CONSTANTS
  Graphs <- Singles
  Shape <- ShapeDef
SPECIFICATION Spec
INVARIANT RenderPartitionsAreRetainable
CHECK_DEADLOCK FALSE
