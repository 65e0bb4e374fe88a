SPECIFICATION Spec
CONSTANTS
  Worlds <- Mined
  Bytes <- BytesBehind
  Limits <- LimitsSmall
INVARIANTS Complete LabelsSound NumberingForgotten SizesReal
CHECK_DEADLOCK FALSE
