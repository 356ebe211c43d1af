SPECIFICATION Spec
CONSTANTS
  MaxCount = 5
  Lbas <- MCLbas
  ChunkBlocks = 1
  Chunks = 3
  MmcMayFail = FALSE
  Junk = Junk
INVARIANTS
  TypeOK
  Conservation
  ReadyBuffersHoldData
  HeldBlockCompleted
  SpiExclusive
  ExactLength
  ShortStreamInOrder
PROPERTY ImplementsContract
