-------------------------- MODULE MCControlTransfer --------------------------
EXTENDS ControlTransfer

MCPlatforms == {"ch32v305", "rp2040"}
MCEp0Sizes == {8, 64}
MCKinds == {"device", "config", "product", "qualifier", "unknown"}
MCLengths == {0, 8, 18, 255}
MCAddresses == {1, 2}
=============================================================================
