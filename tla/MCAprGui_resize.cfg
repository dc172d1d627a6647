SPECIFICATION GuiFairSpec
CONSTANTS
  Sizes <- FourSizes
  MaxResizes = 3
  Interrupts = TRUE
  CharIsSigned = TRUE
INVARIANTS GuiTypeOK ResizeKept WindowsWhenDrawing PageExists PanelsTile RegistersShown
PROPERTIES ResizeHandled
