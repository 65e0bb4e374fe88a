SPECIFICATION Spec
CONSTANTS
  Client <- Sites3
  Problem <- ThreeSites
  Support = 2
INVARIANT CyclesSummed
CHECK_DEADLOCK FALSE
