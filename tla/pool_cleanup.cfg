SPECIFICATION Spec
CONSTANTS
  Entry = {c1, c2, c3}
  Cell = {e1, e2, e3}
  Null = null
  ThreadsNum = 2
  MaxConnections = 3
  Fd = {0, 1, 2, 3}
SYMMETRY Interchangeable
INVARIANTS
  WellFormed
  RegisteredAlive
  ListedOnce
PROPERTIES
  ImplementsList
  RefusedOnlyWhenFull
