------------------------------- MODULE MCUsbTx -------------------------------
EXTENDS UsbTx

MCPlatforms == {"ch32v305", "rp2040"}
MCLens == {64, 512}
=============================================================================
