----------------------------- MODULE MCSmcReset -----------------------------
EXTENDS SmcTimer
=============================================================================
