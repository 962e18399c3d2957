SPECIFICATION FairSpec
CONSTANTS
  Worker = {w1, w2}
  Timer = timer
  NoThread = none
  Key = {k1, k2}
  NoKey = nokey
  Item = {i1, i2}
  NoItem = noitem
  Freed = freed
  Size = 3
  LockShift = 1
  Hash <- OwnSlots
  ValueLen = {2}
  Overhead = 1
  ExpTime = {1}
  MaxHeapSize = 3
  SendMayFail = FALSE
  AnyCalls = FALSE
  MaxTime = 2
  k1 = k1
  k2 = k2
INVARIANTS
  IInv
  HeapBounded
PROPERTIES
  ImplementsCache
  LocksReleased
  HeapRecovers
