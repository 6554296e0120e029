CONSTANTS
  CmdLen = 3
  RspLen = 3
  Chunk = 2
  BufSize = 8
  NumCmds = 3
  Oversized = {2}
  StsWrite = 4
  StsRead = 4
  WritesReady = TRUE
  MaxRetries = 2
  MaxPolls = 2
SPECIFICATION Spec
INVARIANT NeverExecutesOversized
PROPERTY ServiceSafety
