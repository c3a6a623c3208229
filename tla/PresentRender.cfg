CONSTANTS
  Graphs <- GraphsDef
  Shape <- ShapeDef
SPECIFICATION Spec
INVARIANT PresentsDoNotRender
CHECK_DEADLOCK FALSE
