\* Two stars with edges labelled 1 and 12, and 11 and 2.
SPECIFICATION Spec
CONSTANTS
  Worlds <- TwoStars
  Bytes <- BytesBehind
  Limits <- LimitsSmall
INVARIANT ExactSolution
CHECK_DEADLOCK FALSE
