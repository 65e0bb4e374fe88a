\* Two clients, two rounds: one full turn of every flag and the turn after it.
\* The first post for client 2 makes sendlist move.
SPECIFICATION FairSpec
CONSTANTS
  numofclient = 2
  Rounds = 2
  Slots = 3
  Resizing = {2}
INVARIANTS
  IInv
  RoundAgreement
  NobodyElseDies
PROPERTIES
  NoOverwrite
  ImplementsLockstep
  EndsUnlessPostLost
CHECK_DEADLOCK FALSE
