------------------------------ MODULE MCSession ------------------------------
EXTENDS Session

MCLbas == {0}
=============================================================================
