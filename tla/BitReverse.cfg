SPECIFICATION SpecReverse
CONSTANTS
  Bits = 3
  Index <- MCIndex
  Rest = {0}
  Rev <- MCRev
  Input <- MCInput
  Unwritten = Unwritten
INVARIANTS
  NoRace
  Permuted
  SourceKept
PROPERTIES
  OpSpec
