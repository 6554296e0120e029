CONSTANTS
  Words = {w1, w2}
  Factor = 3
  MaxItems = 7
  Addresses = {0, 1}
  Lanes = {0, 1}
  Byte = {0, 1}
  Files <- Images
  MaxClients = 3
  MaxBytes = 1
  Patterns <- MCPatterns
  EndOfStream <- AllOnes
  Text <- Printed
  Ends = TRUE
SPECIFICATION MCSpec
INVARIANTS ChainMatches ReadsLastWritten ConsoleExact AnswersForward
PROPERTIES ImplementsBatcher LastClientServed
CHECK_DEADLOCK FALSE
