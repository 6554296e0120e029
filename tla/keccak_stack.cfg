SPECIFICATION MCSpec
CONSTANTS
  SHAKE128_RATE = 9
  SHAKE256_RATE = 8
  SHA3_256_RATE = 5
  SHA3_384_RATE = 4
  SHA3_512_RATE = 3
  SHA3_256_BYTES = 3
  SHA3_384_BYTES = 4
  SHA3_512_BYTES = 2
  MaxMessage = 19
  MaxOutput = 19
  StateXORBytes <- SymXORBytes
  StateExtractBytes <- SymExtractBytes
  StatePermute <- SymPermute
  ZeroState <- SymZero
  Stacks <- SymStacks
INVARIANT StateStartsAtZero
CHECK_DEADLOCK FALSE
