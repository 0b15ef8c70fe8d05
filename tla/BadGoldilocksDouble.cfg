SPECIFICATION Spec
CONSTANTS
  Units <- MontgomeryGoldilocks
  Menus <- MCMenus
INVARIANT
  ReturnCanonical
