CONSTANTS
  Moduli <- MCModuli
  Units <- CmpUnits
  Operands <- MCOperands
  Tensors <- MCTensors
  KnownModuli <- MCKnownModuli
  RuntimeLibrary <- MCRuntimeLibrary
SPECIFICATION Spec
INVARIANT
  CmpFoldAgrees
CHECK_DEADLOCK FALSE
