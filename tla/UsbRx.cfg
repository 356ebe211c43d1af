SPECIFICATION FairSpec
CONSTANTS
  Platforms <- MCPlatforms
  MaxPackets = 6
  MaxResets = 2
CHECK_DEADLOCK FALSE
INVARIANT TypeOK
PROPERTIES
  ArgsOfCommand
  ImplementsPipe
  AllArrive
