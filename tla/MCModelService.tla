---------------------------- MODULE MCModelService ----------------------------
EXTENDS ModelService, TLC
==============================================================================
