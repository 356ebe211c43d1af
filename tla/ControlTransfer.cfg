SPECIFICATION FairSpec
CONSTANTS
  Platforms <- MCPlatforms
  Ep0Sizes <- MCEp0Sizes
  Kinds <- MCKinds
  Lengths <- MCLengths
  Addresses <- MCAddresses
INVARIANTS
  TypeOK
  AddressAgreed
PROPERTIES
  DescriptorWhole
  RequestsEnd
