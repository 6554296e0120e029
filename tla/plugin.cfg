CONSTANTS
  FifoDepth = 3
  Spaced = TRUE
  MaxInstrs = 5
SPECIFICATION FairPluginSpec
INVARIANT ReadsMatchProgram
PROPERTY ReadsReturn
