SPECIFICATION SessionFairSpec
CONSTANTS
  MaxCount = 3
  Lbas <- MCLbas
  ChunkBlocks = 1
  Chunks = 3
  MmcMayFail = TRUE
  Junk = Junk
  Count = 3
  MaxLeft = 2
  MaxRetries = 1
  MaxTrouble = 2
INVARIANTS SessionTypeOK FirstAbortAlone
PROPERTIES FirstAnswersPaired FirstAbortEnds DumpCompletes
CHECK_DEADLOCK FALSE
