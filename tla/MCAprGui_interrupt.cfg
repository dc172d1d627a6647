SPECIFICATION GuiSpec
CONSTANTS
  Sizes <- TwoSizes
  MaxResizes = 1
  Interrupts = TRUE
  CharIsSigned = TRUE
INVARIANTS DeletedOnce
