SPECIFICATION FairSpec
CONSTANTS
  CR = cr
  LF = lf
  Other = other
  Byte <- Bytewise
  Script <- Scripts
  BufSize = 8
  CmdLineLimit = 7
  MinLine = 1
  Stale = {1}
INVARIANTS
  TypeOK
  RepliesMatch
  StallsOnlyAfterReturn
PROPERTIES
  Answered
  AllRead
CHECK_DEADLOCK FALSE
