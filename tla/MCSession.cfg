\* Both sites have every frequent edge, as the code needs it (MCSessionEdge).
SPECIFICATION FairSpec
CONSTANTS
  Client <- MCClient
  World <- MCWorld
  K = 3
INVARIANTS
  SessionInv
  TreesComplete
  LayersComplete
  TopKCorrect
PROPERTY SessionEnds
CHECK_DEADLOCK FALSE
