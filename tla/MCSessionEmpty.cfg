\* No edge reaches the support threshold.
SPECIFICATION FairSpec
CONSTANTS
  Client <- MCClient
  World <- EmptyWorld
  K = 3
PROPERTY SessionEnds
CHECK_DEADLOCK FALSE
