SPECIFICATION PanelsSpec
CONSTANTS
  Size = 15
  Rows = 12
  Columns = 42
  LineLength <- FormatsInFull
  Amounts = {3, 6}
  StackSize = 10
  StackRows = 12
  StackColumns = 34
  StackLineLength <- StackFormatsInFull
  PageLines = 6
  Marks = {}
  ProgramCounters = {0}
INVARIANTS RowsInPlace
