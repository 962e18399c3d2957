SPECIFICATION FairSpec
CONSTANTS
  ThreadsNum = 2
  Conn = {c1, c2}
  MaxTerm = 1
  MaxMishaps = 1
  NSPerSec = 1
  Interval = 0
  MaxSec = 1
  MaxLate = 1
INVARIANTS
  FreedOnce
  CleanExit
PROPERTIES
  TermHeeded
  ShutdownCompletes
CHECK_DEADLOCK FALSE
