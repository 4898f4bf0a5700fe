SPECIFICATION ReplySpec
CONSTANTS
  BlockSizes = {0, 1, 3}
  MaxBlocks = 4
  NULL = NULL
INVARIANT
  Purged
CHECK_DEADLOCK FALSE
