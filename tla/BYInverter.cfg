SPECIFICATION Spec
CONSTANT
  Moduli <- MCModuli
INVARIANTS
  PairsKept
  Inverted
PROPERTIES
  JumpIsDivSteps
  Terminates
