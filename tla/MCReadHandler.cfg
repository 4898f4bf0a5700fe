SPECIFICATION FairSpec
CONSTANTS
  Commands <- MCCommands
  Names <- MCNames
  MaxInFlight = 3
  MaxArgs = 3
  BufferSize = 40
INVARIANT
  InBounds
  ExecutedAsSent
  NothingLost
  ServerStaysUp
  AnsweredBetweenCommands
PROPERTY
  AllAnswered
CHECK_DEADLOCK FALSE
