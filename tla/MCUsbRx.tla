------------------------------- MODULE MCUsbRx -------------------------------
EXTENDS UsbRx

MCPlatforms == {"ch32v305", "rp2040"}
=============================================================================
