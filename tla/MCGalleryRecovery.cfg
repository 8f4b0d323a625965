SPECIFICATION Spec
CONSTANTS
  Def = {1, 2, 3, 4}
  PageSize = 2
  FromEnv = {4}
  None = None
  Blank = Blank
INVARIANTS
  CrashersLeftOut
