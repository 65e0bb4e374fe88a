\* The table of sendlist moves with the second client, not with the thirteenth.
SPECIFICATION Spec
CONSTANTS
  numofclient = 2
  Rounds = 1
  Slots = 30
  Resizing = {2}
INVARIANT NoThreadConflict
CHECK_DEADLOCK FALSE
