SPECIFICATION Spec
CONSTANTS
  Worker = {w1, w2}
  Timer = timer
  NoThread = none
  Key = {k1, k2}
  NoKey = nokey
  Item = {i1, i2, i3}
  NoItem = noitem
  Freed = freed
  Size = 1
  LockShift = 5
  Hash <- OneChain
  ValueLen = {1, 2}
  Overhead = 1
  ExpTime = {0, 1}
  MaxHeapSize = 100
  SendMayFail = FALSE
  AnyCalls = FALSE
  MaxTime = 3
  k1 = k1
  k2 = k2
SYMMETRY Interchangeable
PROPERTIES
  ReaderDropsOnlyExpired
