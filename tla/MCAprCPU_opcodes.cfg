SPECIFICATION RSpec
CONSTANTS
  Programs <- AllPrograms
  COUNT_MANY = 90
  KeyReplies = {0, 255}
  DiskStatuses = {255}
  SectorImages <- NoneOrThreeBytes
CONSTRAINT WithinBound
INVARIANTS TypeOK CycleBudget
PROPERTIES InstructionEnds ImplementsISA ManyForGood DisassemblyTrue
