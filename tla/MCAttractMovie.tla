---------------------------- MODULE MCAttractMovie ----------------------------
EXTENDS AttractMovie
==============================================================================
