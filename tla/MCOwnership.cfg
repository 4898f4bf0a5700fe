SPECIFICATION Spec
CONSTANTS
  Keys = {1, 2}
  HeapSize = 12
  NULL = NULL
INVARIANTS
  OwnedOnce
PROPERTIES
  OnlyKnownLosses
CHECK_DEADLOCK FALSE
