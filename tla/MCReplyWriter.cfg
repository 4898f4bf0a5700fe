SPECIFICATION FairReplySpec
CONSTANTS
  BlockSizes = {0, 1, 3}
  MaxBlocks = 4
  NULL = NULL
INVARIANTS
  NotYetWritten
  PurgedUnlessCut
PROPERTIES
  AllDelivered
CHECK_DEADLOCK FALSE
