SPECIFICATION TermFairSpec
CONSTANTS
  Programs <- AllPrograms
  COUNT_MANY = 1
  KeyReplies = {}
  DiskStatuses = {0}
  SectorImages <- NoSectors
  KeyCodes = {32, 97, 265, 266}
  MaxKeys = 4
  CheckInterval = 2
  StartModes = {0, 1, 2}
  StartBreakpoints <- OneMark
  Terminals = {"none", "fifo"}
  PipeCapacity = 2
  MouseRows = {}
INVARIANTS TermTypeOK RunningIsTold FreshWhenIdle
PROPERTIES F1NotSwallowed F1Quits SpacePauses
