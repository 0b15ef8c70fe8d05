SPECIFICATION SpecPow
CONSTANTS
  Scalar = {}
  Modulus = 5
  Degree = 2
  NonResidue = 2
  Exponent <- MCExponent
INVARIANTS
  Carried
  Multiplied
  UnitPowered
