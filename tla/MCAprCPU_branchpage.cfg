SPECIFICATION RSpec
CONSTANTS
  Programs <- PageEndBranches
  COUNT_MANY = 90
  KeyReplies = {}
  DiskStatuses = {}
  SectorImages <- NoneOrThreeBytes
CONSTRAINT WithinBound
PROPERTIES TargetShown
