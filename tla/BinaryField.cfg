CONSTANTS
  Units <- MCUnits
  Operands <- MCOperands
  Length <- MCLength
SPECIFICATION Spec
INVARIANTS
  PortableRight
  SpecializedRight
  FoldAgrees
  VerifierExact
CHECK_DEADLOCK FALSE
