SPECIFICATION Spec
CONSTANTS
  MaxCount = 5
  Lbas <- MCLbas
  ChunkBlocks = 1
  Chunks = 1
  MmcMayFail = FALSE
  Junk = Junk
INVARIANT InOrder
