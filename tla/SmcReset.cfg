SPECIFICATION FairTimerSpec
CONSTANTS
  Platform = "ch32v305"
  TimerMod = 12
  HoldUs = 4
  MaxGap = 3
  Overlap = FALSE
  Half = 4
  IsrDelay = 1
INVARIANTS
  SmcTypeOK
  ModeAsRequested
  TimerReadsTime
PROPERTIES
  HeldLongEnough
  ResetEnds
