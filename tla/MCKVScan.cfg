SPECIFICATION FairScanSpec
CONSTANTS
  k1 = k1
  k2 = k2
  k3 = k3
  k4 = k4
  v1 = v1
  Absent = Absent
  Keys <- MCKeys
  Values = {v1}
  Hash <- MCHash
  InitSize = 1
  MaxBits = 5
  Width = 8
INVARIANTS
  CursorInTable
  ScanComplete
  StableReportedOnce
  CodeIsRevIncremented
PROPERTIES
  PassEnds
