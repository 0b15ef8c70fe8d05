SPECIFICATION Spec
CONSTANTS
  NumArgs = 1
  Functions <- MCFunctions
INVARIANTS
  NothingStale
  MeaningKept
  RanksAreDepths
  Shallow
  CountNeutral
