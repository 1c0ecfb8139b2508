SPECIFICATION BlobSpec
CONSTANTS
  NBlocks = 4
  MaxBlobs = 2
  IdSpan = 6
  MaxLen = 2
  MaxAllocs = 4
  Concurrent = FALSE
INVARIANTS BlocksAccounted LiveApart
CHECK_DEADLOCK FALSE
