SPECIFICATION FairSpec
CONSTANTS
  NSPerSec = 4
  Interval = 3
  MaxSec = 2
  MaxLate = 2
INVARIANTS
  TypeOK
PROPERTIES
  NeverEarly
  CalledAgain
