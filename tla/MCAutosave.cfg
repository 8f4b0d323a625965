SPECIFICATION AutosaveSpec
CONSTANTS
  Image = {1, 2, 3}
  Unnamed = {3}
  Slots = 2
  NoFile = NoFile
  Part = Part
INVARIANTS
  SnapshotKept
PROPERTIES
  StillGameSaved
