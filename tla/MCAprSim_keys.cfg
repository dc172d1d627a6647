SPECIFICATION SimSpec
CONSTANTS
  Programs <- BusyOrReader
  COUNT_MANY = 1
  KeyReplies = {}
  DiskStatuses = {0}
  SectorImages <- NoSectors
  KeyCodes = {32, 98, 106, 107, 109, 110, 78, 112, 113, 81, 120, 265, 338, 339, 409}
  MaxKeys = 3
  CheckInterval = 2
  StartModes = {0, 1, 2}
  StartBreakpoints <- NoneOrOneMark
  MouseRows = {0, 2}
INVARIANTS SimTypeOK BreakpointHonoured
PROPERTIES RunEndsForAReason LockedWhileRunning
