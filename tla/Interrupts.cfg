SPECIFICATION Spec
CONSTANTS
  Lines = {dma}
  High = {dma}
  dma = dma
  Start = 0
  Handler = 11
  Saving = TRUE
  Program <- MCProgram
INVARIANTS
  DecisionIsFresh
PROPERTIES
  TaskIsUndisturbed
  RequestsAreAnswered
