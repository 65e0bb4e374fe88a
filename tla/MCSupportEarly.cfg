SPECIFICATION Spec
CONSTANTS
  Client <- Sites2
  Problem <- GivenUp
  Support = 3
INVARIANT EarlyEndSound
CHECK_DEADLOCK FALSE
