----------------------------- MODULE MCBlockRead -----------------------------
EXTENDS BlockRead

MCLbas == {0, 10}
=============================================================================
