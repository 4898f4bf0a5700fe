SPECIFICATION FairSpec
CONSTANTS
  k1 = k1
  k2 = k2
  k3 = k3
  k4 = k4
  v1 = v1
  v2 = v2
  Absent = Absent
  Keys <- MCKeys
  Values = {v1, v2}
  Hash <- MCHash
  InitSize = 1
INVARIANTS
  TypeOK
  RehashShape
  WellPlaced
  OneNodePerKey
  DrainedStayEmpty
  UsedCounts
PROPERTIES
  RefinesKVMap
  RehashEnds
  LoadRelieved
