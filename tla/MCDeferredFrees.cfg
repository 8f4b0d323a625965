SPECIFICATION LiveSpec
CONSTANTS
  Blocks = {b1, b2, b3, b4, b5}
  Capacity = 3
INVARIANTS
  PendingExact
  LoadStartsClean
PROPERTIES
  FreedAfterAFrame
  EventuallyFreed
