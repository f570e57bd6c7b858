------------------------------ MODULE MCStrategy ------------------------------
EXTENDS Strategy, TLC
==============================================================================
