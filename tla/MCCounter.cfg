SPECIFICATION Spec
CONSTANTS
  Jobs <- All
  Sampling <- Buckets
INVARIANTS ArcsLossless VerdictRight PartsAddUp ExactSound StaysForSupport
PROPERTY Ends
CHECK_DEADLOCK FALSE
