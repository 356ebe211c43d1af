------------------------------ MODULE MCSpiBus -------------------------------
EXTENDS SpiBus

MCPlatforms == {"ch32v305", "rp2040"}
MCSizes == {1, 4, 9}
=============================================================================
