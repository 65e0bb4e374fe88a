SPECIFICATION Spec
CONSTANTS
  Client <- One
  Problem <- Skipped
  Support = 2
INVARIANT TreesCounted
CHECK_DEADLOCK FALSE
