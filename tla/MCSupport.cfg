SPECIFICATION Spec
CONSTANTS
  Client <- Sites3
  Problem <- ThreeSites
  Support = 2
INVARIANTS
  SupportInv
  TreesSummed
  NeighboursKnown
CHECK_DEADLOCK FALSE
