SPECIFICATION RSpec
CONSTANTS
  Programs <- Shifts
  COUNT_MANY = 1000
  KeyReplies = {}
  DiskStatuses = {}
  SectorImages <- NoneOrThreeBytes
CONSTRAINT WithinBound
PROPERTIES OverflowByAdd
