SPECIFICATION Spec
CONSTANTS
  NumScalarMuls = 2
  ScalarBits = 5
  Scalar = {0, 1, 2, 7, 16, 22, 27, 30}
  Attributes <- MCAttributes
  None = None
INVARIANTS
  NoRace
  SumsHold
PROPERTY
  OpSpec
