------------------------------ MODULE MCAutosave ------------------------------
EXTENDS Autosave
==============================================================================
