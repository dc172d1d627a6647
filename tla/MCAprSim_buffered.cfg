SPECIFICATION SimSpec
CONSTANTS
  Programs <- KeyboardPrograms
  COUNT_MANY = 1
  KeyReplies = {}
  DiskStatuses = {0}
  SectorImages <- NoSectors
  KeyCodes = {32, 97}
  MaxKeys = 2
  CheckInterval = 2
  StartModes = {2}
  StartBreakpoints <- NoMarks
  MouseRows = {}
PROPERTIES BufferedCharAnswers
