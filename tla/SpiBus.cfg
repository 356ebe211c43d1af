SPECIFICATION FairSpec
CONSTANTS
  Platforms <- MCPlatforms
  Sizes <- MCSizes
  SlowPoll = TRUE
INVARIANT TypeOK
PROPERTIES
  AccessExact
  AccessEnds
