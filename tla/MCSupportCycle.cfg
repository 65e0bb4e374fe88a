SPECIFICATION Spec
CONSTANTS
  Client <- Sites4
  Problem <- ApartCycle
  Support = 5
INVARIANT CyclesCounted
CHECK_DEADLOCK FALSE
