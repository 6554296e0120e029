CONSTANTS
  CmdLen = 3
  RspLen = 3
  Chunk = 2
  BufSize = 5
  NumCmds = 3
  Oversized = {}
  StsWrite = 4
  StsRead = 1
  WritesReady = TRUE
  MaxRetries = 0
  MaxPolls = 0
SPECIFICATION FairSpec
PROPERTY GoExecutes
