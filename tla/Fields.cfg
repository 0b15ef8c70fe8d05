CONSTANTS
  Moduli <- MCModuli
  Units <- MCUnits
  Operands <- MCOperands
  Tensors <- MCTensors
  KnownModuli <- MCKnownModuli
  RuntimeLibrary <- MCRuntimeLibrary
SPECIFICATION Spec
INVARIANTS
  LoweringRight
  FoldAgrees
  BatchHolds
  VerifierExact
CHECK_DEADLOCK FALSE
