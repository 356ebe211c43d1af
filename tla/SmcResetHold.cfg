SPECIFICATION SmcSpec
CONSTANTS
  Platform = "rp2040"
  TimerMod = 12
  HoldUs = 4
  MaxGap = 2
  Overlap = FALSE
PROPERTY HeldLongEnough
