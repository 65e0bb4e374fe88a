SPECIFICATION Spec
CONSTANTS
  Jobs <- All
  Sampling <- Buckets
INVARIANT VerdictExact
CHECK_DEADLOCK FALSE
