SPECIFICATION Spec
CONSTANTS
  Worlds <- All
  MaxNugrow = 2
  Upper = 150
  Lower = 50
INVARIANT Inv
PROPERTIES
  CutProjected
  ExchangeSound
