SPECIFICATION SessionSpec
CONSTANTS
  MaxCount = 2
  Lbas <- MCLbas
  ChunkBlocks = 1
  Chunks = 3
  MmcMayFail = TRUE
  Junk = Junk
  Count = 2
  MaxLeft = 2
  MaxRetries = 1
  MaxTrouble = 1
PROPERTY BlocksAsAsked
CHECK_DEADLOCK FALSE
