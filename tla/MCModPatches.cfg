SPECIFICATION Spec
CONSTANTS
  NumMods = 3
  Slots = {s1, s2}
  Targets = {t1}
  MaxPatches = 2
SYMMETRY Interchangeable
CHECK_DEADLOCK FALSE
INVARIANTS
  PatchesLoaded
PROPERTIES
  HookKept
