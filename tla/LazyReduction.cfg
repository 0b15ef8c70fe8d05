SPECIFICATION Spec
CONSTANTS
  Units <- MCUnits
  Menus <- MCMenus
INVARIANTS
  Bounded
  Congruent
  ReturnCanonical
  NoUnsignedWrap
  OnePassSuffices
