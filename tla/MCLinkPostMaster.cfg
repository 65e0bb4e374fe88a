\* numofclient as in Server.java:26; two rounds let a sender meet the next post.
SPECIFICATION Spec
CONSTANTS
  numofclient = 1
  Rounds = 2
  Slots = 30
  Resizing = {13, 25}
INVARIANT MasterPostIsSent
CHECK_DEADLOCK FALSE
