SPECIFICATION Spec
CONSTANTS
  Threads = 2
  NumWorkers = 3
  MinImbalance = 5
  Hard <- Twins
  Worlds <- TwinWorlds
PROPERTY OriginalAvailable
