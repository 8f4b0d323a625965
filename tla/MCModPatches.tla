---------------------------- MODULE MCModPatches ----------------------------
EXTENDS ModPatches, TLC

Interchangeable == Permutations(Slots)
=============================================================================
