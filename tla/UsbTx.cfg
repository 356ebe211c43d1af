SPECIFICATION FairSpec
CONSTANTS
  Platforms <- MCPlatforms
  Lens <- MCLens
  MaxPackets = 5
  MaxResets = 2
INVARIANT TypeOK
PROPERTIES
  DrainedMeansRead
  DrainEnds
  ImplementsPipe
