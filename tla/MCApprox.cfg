SPECIFICATION Spec
CONSTANTS
  Families <- AllFamilies
  Hard <- HardOnes
  Repeats <- Repeating
  maxSubgraphSize = 5
  Machine = {1, 2}
  Threads = 2
INVARIANTS Covered AnswersKnown AnswerComing
PROPERTY Finishes
