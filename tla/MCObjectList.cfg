SPECIFICATION LiveSpec
CONSTANTS
  carrier = carrier
  pipe = pipe
  effect = effect
  spark = spark
  rock = rock
  Obj = {carrier, pipe, effect, spark, rock}
  None = None
  Slot <- MCSlot
  Carriers = {carrier}
  Placed = {carrier, pipe, effect, spark}
  HasModels = {carrier, rock}
  Pipes = {pipe}
  Effects = {effect, spark}
  PoolSize = 1
  DeferredCap = 3
  MaxOps = 3
  MaxObjects = 3
CHECK_DEADLOCK FALSE
INVARIANTS
  ListsAgree
  NothingReclaimedInUse
  DeferredExact
  PartitionValid
  ScansReachEveryone
PROPERTIES
  UpdatedOnce
  KeepsLifecycle
  FrameEnds
