SPECIFICATION StartSpec
CONSTANTS
  NONE = NONE
  Commands <- CommandLines
  Programs <- ProgramFiles
  SymbolFiles <- SymbolLines
  HintFiles <- HintBytes
  Uninitialised <- Stack
INVARIANTS StartTypeOK MemoryAsGiven SymbolsAsGiven HintsAsGiven TableOwnsHeap EachFreedOnce TerminalRestored
PROPERTIES Ends Starts
