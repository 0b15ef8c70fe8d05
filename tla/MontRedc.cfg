CONSTANTS
  B = 4
  NL = 3
  N = 63
  NPrime = 1
  Pow <- MCPow
SPECIFICATION Spec
INVARIANTS
  TypeOK
  NoPoison
  ReducesInput
  Exact
