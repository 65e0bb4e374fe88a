SPECIFICATION Spec
CONSTANTS
  Worlds <- Skipping
  MaxNugrow = 50
  Upper = 150
  Lower = 50
PROPERTY CutNeverRises
