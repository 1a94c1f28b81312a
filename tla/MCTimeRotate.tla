---------------------------- MODULE MCTimeRotate ----------------------------
EXTENDS TimeRotate
=============================================================================
