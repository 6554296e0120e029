CONSTANTS
  Blocks <- TestVectors
  MaskedBlocks <- AllVectors
SPECIFICATION JobsSpec
INVARIANTS
  LoadsWholeBlock
  HandshakeKept
  KnownAnswer
  RoundsMatchStandard
  MaskedAnswer
  FreshMasks
PROPERTY DriversFinish
