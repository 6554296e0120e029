CONSTANTS
  FifoDepth = 3
  Spaced = FALSE
  MaxInstrs = 5
SPECIFICATION PluginSpec
INVARIANT AddsCorrectMulResult
