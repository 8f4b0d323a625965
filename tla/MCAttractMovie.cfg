SPECIFICATION Spec
CONSTANTS
  NumFrames = 2
  Samples = {1, 3}
  Chunk = 2
  QueueBytes = 1
  IdleLimit = 1
  None = None
INVARIANTS
  BuffersAccounted
  CallbacksSound
PROPERTIES
  SoundKept
  BrokenMovieReleased
