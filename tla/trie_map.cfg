SPECIFICATION Spec
CONSTANTS
  Key <- Keys
  Record = {r1, r2}
  Null = Null
  CharMax = 7
  DASize = 13
  MaxSize = 26
INVARIANTS
  DoubleArraySound
  DoublingMakesRoom
PROPERTIES
  MapUntilStrayed
CHECK_DEADLOCK FALSE
