SPECIFICATION PanelsSpec
CONSTANTS
  Size = 15
  Rows = 8
  Columns = 9
  LineLength <- Formats
  Amounts = {3, 6}
  StackSize = 10
  StackRows = 8
  StackColumns = 5
  StackLineLength <- StackFormats
  PageLines = 6
  Marks = {0, 9}
  ProgramCounters = {3, 14}
INVARIANTS PanelsTypeOK Picture StackPicture
PROPERTIES FoundNearest SearchEnds
