------------------------------ MODULE MCMmcInit ------------------------------
EXTENDS MmcInit

\* The first and the last state of a block; the read gets into the others from these.
MCLeftReads == {"FIND_BUF", "POLL_XFER_COMPLETE"}
MCLeftAborts == {"POLL_CMD12"}
=============================================================================
