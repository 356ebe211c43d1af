SPECIFICATION FairSpec
CONSTANTS
  MaxCount = 3
  Lbas <- MCLbas
  ChunkBlocks = 1
  Chunks = 2
  MmcMayFail = TRUE
  Junk = Junk
PROPERTIES
  RequestAnswered
  ErrorClosesStream
