SPECIFICATION FairSpec
CONSTANTS
  k1 = k1
  k2 = k2
  v1 = v1
  v2 = v2
  Absent = Absent
  None = None
  Keys = {k1, k2}
  Values = {v1, v2}
  Timeouts = {1, 8}
  Second = 2
  Word = 16
  MaxTime = 5
  Slots = 3
  Slot <- MCSlot
  Batch = 2
INVARIANTS
  TypeOK
  DeadlineHasKey
PROPERTIES
  RefinesTTLMap
  ExpiredIsCollected
