---------------------------- MODULE MCObjectTypes ----------------------------
EXTENDS ObjectTypes

CONSTANTS o1, o2, o3
=============================================================================
