SPECIFICATION FairSpec
CONSTANTS
  Platform = "ch32v305"
  TimerMod = 3
  HoldUs = 1
  MaxGap = 1
  Overlap = TRUE
  DelayUs = 1
  MaxRetries = 1
  MaxInits = 2
  MaxTroubles = 1
  MaxIntrusions = 1
  LeftReads <- MCLeftReads
  LeftAborts <- MCLeftAborts
  TickUnread = FALSE
INVARIANTS
  TypeOK
  ReadyMeansReady
  CardRespected
  AccessSound
PROPERTY InitEnds
