SPECIFICATION Spec
CONSTANTS
  Threads = 2
  NumWorkers = 3
  MinImbalance = 5
  Hard = {}
  Worlds <- AllWorlds
INVARIANTS PartsOnce PostponeHasColumn OneObject ThresholdFound
PROPERTIES ImplementsMining Finishes
