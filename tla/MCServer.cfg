SPECIFICATION FairSpec
CONSTANTS
  k1 = k1
  k2 = k2
  v1 = v1
  Absent = Absent
  Keys = {k1, k2}
  Values = {v1}
  Hash <- MCHash
  InitSize = 1
  MaxBits = 2
  Period = 2
  Batch = 1
INVARIANTS
  DeadlinesBelong
PROPERTIES
  KeysAreSafe
  ExpiredIsCollected
  RehashesEnd
  ShutdownEnds
CHECK_DEADLOCK FALSE
