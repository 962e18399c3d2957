SPECIFICATION Spec
CONSTANTS
  CR = cr
  LF = lf
  Other = other
  Byte <- Bytewise
  Script <- Scripts
  BufSize = 8
  CmdLineLimit = 7
  MinLine = 1
  Stale = {1}
INVARIANTS
  ConsumesAll
CHECK_DEADLOCK FALSE
