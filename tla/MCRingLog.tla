----------------------------- MODULE MCRingLog -----------------------------
EXTENDS RingLogInv
=============================================================================
