------------------------------ MODULE MCManager -----------------------------
EXTENDS Manager, TLC
=============================================================================
