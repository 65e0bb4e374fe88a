SPECIFICATION Spec
CONSTANT Searches <- All
INVARIANTS ResultsSound AnswersRight
PROPERTY Ends
CHECK_DEADLOCK FALSE
