-------------------------- MODULE MCDeferredFrees --------------------------
EXTENDS DeferredFrees
============================================================================
