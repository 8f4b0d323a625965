SPECIFICATION Spec
CONSTANTS
  NumSlots = 6
  Units = 8
  Region0 = TRUE
  SmallUnits = 2
  Requests = {1, 33, 96}
INVARIANTS
  HeapConsistent
  UsedBytesExact
VIEW Meaningful
