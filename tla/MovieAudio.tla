----------------------------- MODULE MovieAudio -----------------------------
\* What the title movie promises about its sound: the frames are heard in the
\* order of the movie, each at most once and from its beginning to its end, and
\* a frame is left out only while as many wait as there are buffers.
EXTENDS Integers, Sequences

CONSTANTS NumFrames, NumBuffers

VARIABLES
  playing,
  next,      \* the frame that is decoded next
  pipe       \* the frames whose sound has yet to be heard, the oldest first

Init == playing = FALSE /\ pipe = <<>> /\ next = 0

Start ==
  /\ ~playing /\ playing' = TRUE
  /\ next' = 1 % NumFrames
  /\ pipe' = <<0>>

Decode ==
  /\ playing
  /\ next' = (next + 1) % NumFrames
  /\ pipe' = IF Len(pipe) < NumBuffers THEN Append(pipe, next) ELSE pipe
  /\ UNCHANGED playing

Hear ==
  /\ playing /\ pipe # <<>>
  /\ pipe' = Tail(pipe)
  /\ UNCHANGED <<playing, next>>

Stop ==
  /\ playing /\ playing' = FALSE
  /\ pipe' = <<>>
  /\ UNCHANGED next

Next == Start \/ Decode \/ Hear \/ Stop
Spec == Init /\ [][Next]_<<playing, next, pipe>>
=============================================================================
