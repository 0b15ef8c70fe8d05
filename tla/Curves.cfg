CONSTANTS
  Curves <- MCCurves
  Scales <- MCScales
  Programs <- MCPrograms
SPECIFICATION Spec
INVARIANTS
  MeaningKept
  StaysTyped
  BatchExact
PROPERTY Terminates
CHECK_DEADLOCK FALSE
