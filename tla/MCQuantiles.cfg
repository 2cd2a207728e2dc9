SPECIFICATION Spec
CONSTANTS
  Inputs <- MCInputs
  TsMod = 2048
INVARIANTS TypeOK InRange Ordered Extremes IsQuantile MeanInBetween
