CONSTANTS
  Graphs <- AfterDef
  Shape <- ShapeDef
SPECIFICATION Spec
INVARIANT PrecedencesHold
CHECK_DEADLOCK FALSE
