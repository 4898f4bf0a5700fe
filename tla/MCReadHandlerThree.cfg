SPECIFICATION Spec
CONSTANTS
  Commands <- MCShort
  Names <- MCNames
  MaxInFlight = 3
  MaxArgs = 3
  BufferSize = 40
INVARIANT
  NoByteSkipped
CHECK_DEADLOCK FALSE
