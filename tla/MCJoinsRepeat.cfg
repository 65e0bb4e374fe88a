\* The approximate phase on a graph of four edges, with a limit of ten.
SPECIFICATION Spec
CONSTANTS
  Worlds <- OnePaw
  Bytes <- BytesBehind
  Limits <- LimitsSmall
INVARIANT LevelsReal
CHECK_DEADLOCK FALSE
