------------------------- MODULE AttractMovieProofs -------------------------
\* That the callbacks of the title movie are chained soundly and its audio
\* buffers accounted for, for any movie and any audio device.
EXTENDS AttractMovie, SequenceTheorems, TLAPS

\* The inductive invariant of the callbacks.  A release undoes what a prepare did
\* because it finds the player running and both predecessors kept; a prepare is
\* due only when there is no movie.
HooksType ==
  /\ post \in {"gpuErrorHandler", "PlayControl"}
  /\ OldVIPostCallback \in {"gpuErrorHandler", None}
  /\ dma \in {"musyx", "movie", None} /\ prevDma \in {"musyx", None}

IHooks ==
  /\ HooksType
  /\ Playing <=> post = "PlayControl"
  /\ Playing <=> dma = "movie"
  /\ Playing => /\ memory /\ isOpen /\ state \in {2, 5}
                /\ OldVIPostCallback = "gpuErrorHandler" /\ prevDma = "musyx"
                /\ curTextureSet \in TextureSets /\ sPcMovieTexture \in TextureSets
                /\ curTextureSet # sPcMovieTexture
                /\ ui \in {"title", "menu"}
                /\ ~gAttractMoviePreparePending
  /\ memory => Playing

LEMMA HooksInit == Init => IHooks
  BY NoneIsNone DEF Init, IHooks, HooksType, Playing, NEVER, PREPARED

LEMMA ReleaseKeepsHooks ==
  ASSUME IHooks, n_attractmode_releaseMovieBuffers,
         UNCHANGED <<curTextureSet, sPcMovieTexture>>
  PROVE  /\ ~Playing' /\ ~memory'
         /\ IHooks'
<1> USE NoneIsNone DEF IHooks, HooksType, Playing, PREPARED, RELEASED
<1>1. CASE Playing
  BY <1>1 DEF n_attractmode_releaseMovieBuffers, THPPlayerStop
<1>2. CASE ~Playing
  BY <1>2 DEF n_attractmode_releaseMovieBuffers, player, hooks
<1> QED
  BY <1>1, <1>2

\* A movie is prepared only when there is none, under the title menu.
LEMMA PrepareKeepsHooks ==
  ASSUME IHooks, ~Playing, ui' \in {"title", "menu"}, NEW who,
         n_attractmode_prepareMovie(who)
  PROVE  IHooks'
<1> USE NoneIsNone DEF IHooks, HooksType, Playing, PREPARED
<1>1. CASE NoMovie
  BY <1>1 DEF NoMovie
<1>2. CASE Movie
  BY <1>2 DEF Movie, TextureSets
<1> QED
  BY <1>1, <1>2 DEF n_attractmode_prepareMovie

LEMMA HooksStep == IHooks /\ [Next]_vars => IHooks'
<1> SUFFICES ASSUME IHooks, [Next]_vars PROVE IHooks'
  OBVIOUS
<1> USE DEF menu, video, audio, player, hooks
<1> DEFINE Kept == UNCHANGED <<gAttractMovieState, gAttractMoviePreparePending, memory,
                               video, isOpen, state, hooks>>
<1>1. ASSUME Kept, ui' = ui \/ ui' \in {"title", "menu"} PROVE IHooks'
  BY <1>1 DEF IHooks, HooksType, Playing
<1>2. CASE TitleMenu_initialise
  <2>1. CASE gAttractMovieAutoplayEnabled' /\ gAttractMovieState # PREPARED
    BY <1>2, <2>1, PrepareKeepsHooks DEF TitleMenu_initialise, Playing
  <2>2. CASE ~(gAttractMovieAutoplayEnabled' /\ gAttractMovieState # PREPARED)
    BY <1>2, <2>2 DEF TitleMenu_initialise, IHooks, HooksType, Playing
  <2> QED
    BY <2>1, <2>2
<1>3. CASE TitleMenu_run
  <2>1. CASE gAttractMoviePreparePending
    <3>1. ~Playing /\ ui' = "title"
      BY <1>3, <2>1 DEF TitleMenu_run, IHooks
    <3> QED
      BY <1>3, <2>1, <3>1, PrepareKeepsHooks DEF TitleMenu_run
  <2>2. CASE ~gAttractMoviePreparePending
    BY <1>1, <1>3, <2>2 DEF TitleMenu_run
  <2> QED
    BY <2>1, <2>2
<1>4. CASE CheckMovie
  <2>1. CASE gAttractMovieIdleFrameCount' > IdleLimit
    BY <1>4, <2>1, ReleaseKeepsHooks DEF CheckMovie
  <2>2. CASE ~(gAttractMovieIdleFrameCount' > IdleLimit)
    BY <1>1, <1>4, <2>2 DEF CheckMovie
  <2> QED
    BY <2>1, <2>2
<1>5. CASE Leave
  BY <1>5, ReleaseKeepsHooks DEF Leave
<1>6. CASE Frame
  BY <1>1, <1>6 DEF Frame
<1>7. CASE fhAIPump
  BY <1>1, <1>7 DEF fhAIPump
<1>8. CASE Pumped
  BY <1>1, <1>8 DEF Pumped
<1>9. CASE AttractMovieAudio_Mix
  BY <1>1, <1>9 DEF AttractMovieAudio_Mix
<1>10. CASE PlayControl
  <2>1. /\ UNCHANGED <<gAttractMovieState, gAttractMoviePreparePending, memory, hooks, ui>>
        /\ isOpen' = isOpen
        /\ state' = state \/ state' = 5
    BY <1>10 DEF PlayControl, NotPlaying, BreakDown, PlayFrame, DecodeNextMovieFramePC
  <2>2. \/ UNCHANGED video
        \/ UNCHANGED <<curTextureSet, sPcMovieTexture>>
        \/ curTextureSet' = sPcMovieTexture /\ sPcMovieTexture' = (sPcMovieTexture + 1) % 3
    BY <1>10 DEF PlayControl, NotPlaying, BreakDown, PlayFrame, DecodeNextMovieFramePC
  <2>3. Playing => /\ curTextureSet' \in TextureSets /\ sPcMovieTexture' \in TextureSets
                   /\ curTextureSet' # sPcMovieTexture'
    BY <2>2 DEF IHooks, TextureSets
  <2> QED
    BY <2>1, <2>3 DEF IHooks, HooksType, Playing
<1>11. CASE gpuErrorHandler
  BY <1>1, <1>11 DEF gpuErrorHandler
<1>12. CASE UNCHANGED vars
  BY <1>1, <1>12 DEF vars
<1> QED
  BY <1>2, <1>3, <1>4, <1>5, <1>6, <1>7, <1>8, <1>9, <1>10, <1>11, <1>12 DEF Next

\* The movie's two callbacks are chained exactly while it plays, each in front of
\* another one, and what they and the drawing use is there.
THEOREM CallbacksAlwaysSound == Spec => []CallbacksSound
<1>1. IHooks => CallbacksSound
  BY NoneIsNone DEF IHooks, HooksType, CallbacksSound
<1> QED
  BY <1>1, HooksInit, HooksStep, PTL DEF Spec

------------------------------------------------------------------------------
\* The rings.  What a send and a receive do to the messages that wait.
Ring(mq) ==
  /\ mq = [msgArray |-> mq.msgArray, msgCount |-> 3, firstIndex |-> mq.firstIndex,
           usedCount |-> mq.usedCount]
  /\ mq.msgArray \in [0 .. 2 -> Buffers]
  /\ mq.msgCount = 3 /\ mq.firstIndex \in 0 .. 2 /\ mq.usedCount \in 0 .. 3
Cell(mq, i) == mq.msgArray[Slot(mq, i)]
Cells(mq) == {Cell(mq, i) : i \in 0 .. mq.usedCount - 1}
NoTwice(mq) == \A i, j \in 0 .. mq.usedCount - 1 : Cell(mq, i) = Cell(mq, j) => i = j

LEMMA Turn ==
  ASSUME NEW mq, Ring(mq), NEW i \in 0 .. 3
  PROVE  /\ Slot(mq, i) \in 0 .. 2
         /\ Slot(mq, i) = IF mq.firstIndex + i < 3 THEN mq.firstIndex + i
                          ELSE mq.firstIndex + i - 3
<1>1. mq.firstIndex \in 0 .. 2 /\ mq.msgCount = 3
  BY DEF Ring
<1>2. \A n \in 0 .. 2 : n % 3 = n /\ (n + 3) % 3 = n
  OBVIOUS
<1>3. mq.firstIndex + i \in 0 .. 2 \/ \E n \in 0 .. 2 : mq.firstIndex + i = n + 3
  BY <1>1
<1> QED
  BY <1>1, <1>2, <1>3 DEF Slot

LEMMA SendToRing ==
  ASSUME NEW mq, Ring(mq), NoTwice(mq), mq.usedCount < 3,
         NEW b \in Buffers, b \notin Cells(mq),
         NEW q, q = OSSendMessage(mq, b)
  PROVE  /\ Ring(q) /\ NoTwice(q)
         /\ q.usedCount = mq.usedCount + 1
         /\ \A i \in 0 .. mq.usedCount - 1 : Cell(q, i) = Cell(mq, i)
         /\ Cell(q, mq.usedCount) = b
         /\ Cells(q) = Cells(mq) \cup {b}
<1> DEFINE last == Slot(mq, mq.usedCount)
<1>1. /\ mq.usedCount \in 0 .. 2 /\ mq.msgCount = 3 /\ mq.firstIndex \in 0 .. 2
      /\ mq.msgArray \in [0 .. 2 -> Buffers]
  BY DEF Ring
<1>2. last \in 0 .. 2
  BY <1>1, Turn
<1>3. q = [mq EXCEPT !.msgArray[last] = b, !.usedCount = mq.usedCount + 1]
  BY <1>1 DEF OSSendMessage, Full
<1>4. /\ q.msgArray = [mq.msgArray EXCEPT ![last] = b]
      /\ q.usedCount = mq.usedCount + 1
      /\ q.firstIndex = mq.firstIndex /\ q.msgCount = 3
  BY <1>1, <1>3 DEF Ring
<1>5. Ring(q)
  <2>1. [mq.msgArray EXCEPT ![last] = b] \in [0 .. 2 -> Buffers]
    BY <1>1
  <2>2. q = [msgArray |-> q.msgArray, msgCount |-> 3, firstIndex |-> q.firstIndex,
             usedCount |-> q.usedCount]
    BY <1>3, <1>4 DEF Ring
  <2> QED
    BY <1>1, <1>4, <2>1, <2>2 DEF Ring
<1>6. \A i : Slot(q, i) = Slot(mq, i)
  BY <1>1, <1>4 DEF Slot
<1>7. \A i \in 0 .. mq.usedCount - 1 : Slot(mq, i) # last /\ Slot(mq, i) \in 0 .. 2
  <2> TAKE i \in 0 .. mq.usedCount - 1
  <2>1. i \in 0 .. 3 /\ i < mq.usedCount
    BY <1>1
  <2> QED
    BY <1>1, <2>1, Turn
<1>8. \A i \in 0 .. mq.usedCount - 1 : Cell(q, i) = Cell(mq, i)
  BY <1>1, <1>2, <1>4, <1>6, <1>7 DEF Cell
<1>9. Cell(q, mq.usedCount) = b
  BY <1>1, <1>2, <1>4, <1>6 DEF Cell
<1>10. 0 .. q.usedCount - 1 = (0 .. mq.usedCount - 1) \cup {mq.usedCount}
  BY <1>1, <1>4
<1>11. NoTwice(q)
  <2>1. ASSUME NEW i \in 0 .. mq.usedCount - 1 PROVE Cell(q, i) # b
    BY <1>8, <2>1 DEF Cells
  <2> QED
    BY <1>8, <1>9, <1>10, <2>1 DEF NoTwice
<1>12. Cells(q) = Cells(mq) \cup {b}
  BY <1>8, <1>9, <1>10 DEF Cells
<1> QED
  BY <1>4, <1>5, <1>8, <1>9, <1>11, <1>12

LEMMA ReceiveFromRing ==
  ASSUME NEW mq, Ring(mq), NoTwice(mq), ~Empty(mq),
         NEW q, q = OSReceiveMessage(mq)
  PROVE  /\ Ring(q) /\ NoTwice(q)
         /\ q.usedCount = mq.usedCount - 1
         /\ \A i \in 0 .. q.usedCount - 1 : Cell(q, i) = Cell(mq, i + 1)
         /\ Received(mq) = Cell(mq, 0)
         /\ Received(mq) \in Buffers /\ Received(mq) \in Cells(mq)
         /\ Cells(q) = Cells(mq) \ {Received(mq)}
<1>1. /\ mq.usedCount \in 1 .. 3 /\ mq.msgCount = 3 /\ mq.firstIndex \in 0 .. 2
      /\ mq.msgArray \in [0 .. 2 -> Buffers]
  BY DEF Ring, Empty
<1>2. q = [mq EXCEPT !.firstIndex = Slot(mq, 1), !.usedCount = mq.usedCount - 1]
  BY DEF OSReceiveMessage
<1>3. Slot(mq, 1) \in 0 .. 2
  BY Turn
<1>4. /\ q.msgArray = mq.msgArray /\ q.usedCount = mq.usedCount - 1
      /\ q.firstIndex = Slot(mq, 1) /\ q.msgCount = 3
  BY <1>1, <1>2 DEF Ring
<1>5. Ring(q)
  <2>1. q = [msgArray |-> q.msgArray, msgCount |-> 3, firstIndex |-> q.firstIndex,
             usedCount |-> q.usedCount]
    BY <1>2, <1>4 DEF Ring
  <2> QED
    BY <1>1, <1>3, <1>4, <2>1 DEF Ring
<1>6. \A i \in 0 .. 2 : Slot(q, i) = Slot(mq, i + 1)
  <2> TAKE i \in 0 .. 2
  <2>1. i \in 0 .. 3 /\ i + 1 \in 0 .. 3 /\ 1 \in 0 .. 3
    OBVIOUS
  <2>2. Slot(q, i) = IF q.firstIndex + i < 3 THEN q.firstIndex + i ELSE q.firstIndex + i - 3
    BY <1>5, <2>1, Turn
  <2>3. Slot(mq, i + 1) = IF mq.firstIndex + (i + 1) < 3 THEN mq.firstIndex + (i + 1)
                          ELSE mq.firstIndex + (i + 1) - 3
    BY <2>1, Turn
  <2>4. q.firstIndex = IF mq.firstIndex + 1 < 3 THEN mq.firstIndex + 1
                       ELSE mq.firstIndex + 1 - 3
    BY <1>4, <2>1, Turn
  <2> QED
    BY <1>1, <2>2, <2>3, <2>4
<1>7. \A i \in 0 .. q.usedCount - 1 : Cell(q, i) = Cell(mq, i + 1)
  BY <1>1, <1>4, <1>6 DEF Cell
<1>8. Received(mq) = Cell(mq, 0) /\ Received(mq) \in Buffers
  <2>1. Slot(mq, 0) = mq.firstIndex
    BY <1>1, Turn
  <2> QED
    BY <1>1, <2>1 DEF Cell, Received
<1>9. Received(mq) \in Cells(mq)
  BY <1>1, <1>8 DEF Cells
<1>10. NoTwice(q)
  BY <1>1, <1>4, <1>7 DEF NoTwice
<1>11. Cells(q) = Cells(mq) \ {Received(mq)}
  <2>1. Cells(q) \subseteq Cells(mq)
    BY <1>1, <1>4, <1>7 DEF Cells
  <2>2. Received(mq) \notin Cells(q)
    BY <1>1, <1>4, <1>7, <1>8 DEF Cells, NoTwice
  <2>3. ASSUME NEW c \in Cells(mq), c # Received(mq) PROVE c \in Cells(q)
    <3>1. PICK i \in 0 .. mq.usedCount - 1 : c = Cell(mq, i)
      BY DEF Cells
    <3>2. i - 1 \in 0 .. q.usedCount - 1 /\ (i - 1) + 1 = i
      BY <1>1, <1>4, <1>8, <2>3, <3>1
    <3> QED
      BY <1>7, <3>1, <3>2 DEF Cells
  <2> QED
    BY <2>1, <2>2, <2>3
<1> QED
  BY <1>4, <1>5, <1>7, <1>8, <1>9, <1>10, <1>11

------------------------------------------------------------------------------
\* The inductive invariant of the buffers: the queues are rings, and while the
\* movie plays every buffer is in exactly one place.
Accounted(fq, dq, held) ==
  /\ Ring(fq) /\ NoTwice(fq) /\ Ring(dq) /\ NoTwice(dq)
  /\ held \in Buffers \cup {None}
  /\ Cells(fq) \cap Cells(dq) = {} /\ held \notin Cells(fq) \cup Cells(dq)
  /\ Cells(fq) \cup Cells(dq) \cup ({held} \ {None}) = Buffers
  /\ fq.usedCount + dq.usedCount + (IF held = None THEN 0 ELSE 1) = 3

IBuffers ==
  /\ Ring(free) /\ Ring(decoded)
  /\ Playing => Accounted(free, decoded, curAudioBuffer)
  /\ pc = "mix" => Playing

LEMMA ContentIsCells ==
  ASSUME NEW mq, Ring(mq)
  PROVE  Content(mq) = Cells(mq)
<1>1. mq.usedCount \in 0 .. 3
  BY DEF Ring
<1>2. DOMAIN Waiting(mq) = 1 .. mq.usedCount
  BY DEF Waiting
<1>3. \A i \in 1 .. mq.usedCount : Waiting(mq)[i] = Cell(mq, i - 1)
  BY DEF Waiting, Cell
<1>4. Content(mq) \subseteq Cells(mq)
  BY <1>1, <1>2, <1>3 DEF Content, Cells
<1>5. ASSUME NEW i \in 0 .. mq.usedCount - 1 PROVE Cell(mq, i) \in Content(mq)
  <2>1. i + 1 \in 1 .. mq.usedCount /\ (i + 1) - 1 = i
    BY <1>1
  <2> QED
    BY <1>2, <1>3, <2>1 DEF Content
<1> QED
  BY <1>4, <1>5 DEF Cells

LEMMA EmptyAgain ==
  ASSUME NEW mq, Ring(mq), NEW e, e = OSInitMessageQueue(mq)
  PROVE  Ring(e) /\ e.usedCount = 0 /\ NoTwice(e) /\ Cells(e) = {}
<1>1. e = [mq EXCEPT !.firstIndex = 0, !.usedCount = 0]
  BY DEF OSInitMessageQueue
<1>2. e = [msgArray |-> mq.msgArray, msgCount |-> 3, firstIndex |-> 0, usedCount |-> 0]
  BY <1>1 DEF Ring
<1>3. e.msgArray = mq.msgArray /\ e.msgCount = 3 /\ e.firstIndex = 0 /\ e.usedCount = 0
  BY <1>2
<1>4. Ring(e)
  BY <1>2, <1>3 DEF Ring
<1>5. 0 .. e.usedCount - 1 = {}
  BY <1>3
<1> QED
  BY <1>3, <1>4, <1>5 DEF NoTwice, Cells

\* A queue that is set up again is empty, and takes the three buffers.
LEMMA AllFree ==
  ASSUME NEW fq, Ring(fq), NEW dq, Ring(dq)
  PROVE  Accounted(InitQueuesPC(fq), OSInitMessageQueue(dq), None)
<1> DEFINE e == OSInitMessageQueue(fq)
           f0 == OSSendMessage(e, 0)
           f1 == OSSendMessage(f0, 1)
           f2 == OSSendMessage(f1, 2)
<1>2. 0 \in Buffers /\ 1 \in Buffers /\ 2 \in Buffers
  BY DEF Buffers
<1>3. Ring(e) /\ e.usedCount = 0 /\ NoTwice(e) /\ Cells(e) = {}
  BY EmptyAgain
<1> HIDE DEF e
<1>4. Ring(f0) /\ f0.usedCount = 1 /\ NoTwice(f0) /\ Cells(f0) = {0}
  BY <1>2, <1>3, SendToRing
<1> HIDE DEF f0
<1>5. Ring(f1) /\ f1.usedCount = 2 /\ NoTwice(f1) /\ Cells(f1) = {0, 1}
  BY <1>2, <1>4, SendToRing
<1> HIDE DEF f1
<1>6. Ring(f2) /\ f2.usedCount = 3 /\ NoTwice(f2) /\ Cells(f2) = {0, 1, 2}
  BY <1>2, <1>5, SendToRing
<1>7. f2 = InitQueuesPC(fq)
  BY DEF f2, f1, f0, e, InitQueuesPC
<1> HIDE DEF f2
<1>8. {0, 1, 2} = Buffers
  BY DEF Buffers
<1> DEFINE d == OSInitMessageQueue(dq)
<1>9. Ring(d) /\ d.usedCount = 0 /\ NoTwice(d) /\ Cells(d) = {}
  BY EmptyAgain
<1> HIDE DEF d
<1>10. Accounted(f2, d, None)
  BY <1>6, <1>8, <1>9, NoneIsNone DEF Accounted
<1> QED
  BY <1>7, <1>10 DEF d

\* A decoded frame goes from one queue to the other.
LEMMA DecodeAccounted ==
  ASSUME NEW fq, NEW dq, NEW held, Accounted(fq, dq, held), NEW n, NEW f,
         AttractMovieAudio_DecodeFramePC(fq, dq, n, f)
  PROVE  Accounted(free', decoded', held)
<1>1. CASE Empty(fq)
  BY <1>1 DEF AttractMovieAudio_DecodeFramePC
<1>2. CASE ~Empty(fq)
  <2> DEFINE b == Received(fq)
  <2>1. free' = OSReceiveMessage(fq) /\ decoded' = OSSendMessage(dq, b)
    BY <1>2 DEF AttractMovieAudio_DecodeFramePC
  <2>2. /\ Ring(fq) /\ NoTwice(fq) /\ Ring(dq) /\ NoTwice(dq)
        /\ fq.usedCount \in 1 .. 3 /\ dq.usedCount \in 0 .. 2
    BY <1>2 DEF Accounted, Ring, Empty
  <2>3. /\ Ring(free') /\ NoTwice(free') /\ free'.usedCount = fq.usedCount - 1
        /\ b \in Buffers /\ b \in Cells(fq) /\ Cells(free') = Cells(fq) \ {b}
    BY <1>2, <2>1, <2>2, ReceiveFromRing
  <2>4. b \notin Cells(dq)
    BY <2>3 DEF Accounted
  <2> HIDE DEF b
  <2>5. /\ Ring(decoded') /\ NoTwice(decoded') /\ decoded'.usedCount = dq.usedCount + 1
        /\ Cells(decoded') = Cells(dq) \cup {b}
    BY <2>1, <2>2, <2>3, <2>4, SendToRing
  <2> QED
    BY <2>2, <2>3, <2>4, <2>5 DEF Accounted
<1> QED
  BY <1>1, <1>2

\* The mixer takes a buffer, and gives it back when nothing is left in it.
LEMMA MixAccounted ==
  ASSUME IBuffers, Playing, AttractMovieAudio_Mix
  PROVE  Accounted(free', decoded', curAudioBuffer')
<1> USE DEF audio
<1>1. Accounted(free, decoded, curAudioBuffer)
  BY DEF IBuffers
<1>2. CASE UNCHANGED <<free, decoded, curAudioBuffer>>
  BY <1>1, <1>2
<1>3. CASE /\ curAudioBuffer = None /\ ~Empty(decoded) /\ UNCHANGED free
           /\ curAudioBuffer' = Received(decoded) /\ decoded' = OSReceiveMessage(decoded)
  <2>1. /\ Ring(decoded') /\ NoTwice(decoded') /\ decoded'.usedCount = decoded.usedCount - 1
        /\ Received(decoded) \in Buffers /\ Received(decoded) \in Cells(decoded)
        /\ Cells(decoded') = Cells(decoded) \ {Received(decoded)}
    BY <1>1, <1>3, ReceiveFromRing DEF Accounted
  <2>2. None \notin Buffers
    BY NoneIsNone
  <2>3. free.usedCount \in 0 .. 3 /\ decoded.usedCount \in 0 .. 3
    BY <1>1 DEF Accounted, Ring
  <2> QED
    BY <1>1, <1>3, <2>1, <2>2, <2>3 DEF Accounted
<1>4. CASE /\ curAudioBuffer # None /\ UNCHANGED decoded
           /\ free' = OSSendMessage(free, curAudioBuffer) /\ curAudioBuffer' = None
  <2>1. free.usedCount \in 0 .. 2 /\ decoded.usedCount \in 0 .. 3 /\ curAudioBuffer \in Buffers
    BY <1>1, <1>4 DEF Accounted, Ring
  <2>2. /\ Ring(free') /\ NoTwice(free') /\ free'.usedCount = free.usedCount + 1
        /\ Cells(free') = Cells(free) \cup {curAudioBuffer}
    BY <1>1, <1>4, <2>1, SendToRing DEF Accounted
  <2>3. None \notin Cells(free') \cup Cells(decoded')
    BY <1>1, <1>4, <2>1, <2>2, NoneIsNone DEF Accounted
  <2> QED
    BY <1>1, <1>4, <2>1, <2>2, <2>3 DEF Accounted
<1> QED
  BY <1>2, <1>3, <1>4 DEF AttractMovieAudio_Mix, PushFreeAudioBuffer

LEMMA BuffersInit == Init => IBuffers
<1> SUFFICES ASSUME Init PROVE IBuffers
  OBVIOUS
<1>1. Ring(Storage(3, 0))
  BY DEF Storage, Ring, Buffers
<1> QED
  BY <1>1 DEF Init, IBuffers, Playing, NEVER, PREPARED

LEMMA BuffersStep == IHooks /\ IBuffers /\ [Next]_vars => IBuffers'
<1> SUFFICES ASSUME IHooks, IBuffers, [Next]_vars PROVE IBuffers'
  OBVIOUS
<1> USE DEF menu, video, audio, player, hooks
\* Most steps leave the queues alone and start nothing.
<1>1. ASSUME UNCHANGED <<free, decoded>>, pc' # "mix",
             Playing' => Playing /\ curAudioBuffer' = curAudioBuffer
      PROVE  IBuffers'
  BY <1>1 DEF IBuffers
<1>2. ASSUME NEW who, n_attractmode_prepareMovie(who), ~Playing PROVE IBuffers'
  <2>1. CASE NoMovie
    <3>1. UNCHANGED <<free, decoded>> /\ pc' # "mix" /\ ~Playing'
      BY <1>2, <2>1 DEF n_attractmode_prepareMovie, NoMovie, Movie, Goto, VIWaitForRetrace, Playing
    <3> QED
      BY <1>1, <3>1
  <2>2. CASE Movie
    <3>1. Accounted(InitQueuesPC(free), OSInitMessageQueue(decoded), None)
      BY AllFree DEF IBuffers
    <3>2. Accounted(free', decoded', None)
      BY <2>2, <3>1, DecodeAccounted DEF Movie
    <3>3. curAudioBuffer' = None /\ pc' # "mix"
      BY <1>2, <2>2 DEF n_attractmode_prepareMovie, Movie, Goto, VIWaitForRetrace
    <3> QED
      BY <3>2, <3>3 DEF IBuffers, Accounted
  <2> QED
    BY <1>2, <2>1, <2>2 DEF n_attractmode_prepareMovie
<1>3. CASE TitleMenu_initialise
  <2>1. CASE gAttractMovieAutoplayEnabled' /\ gAttractMovieState # PREPARED
    BY <1>2, <1>3, <2>1 DEF TitleMenu_initialise, Playing
  <2>2. CASE ~(gAttractMovieAutoplayEnabled' /\ gAttractMovieState # PREPARED)
    BY <1>1, <1>3, <2>2 DEF TitleMenu_initialise, Goto, Playing
  <2> QED
    BY <2>1, <2>2
<1>4. CASE TitleMenu_run
  <2>1. CASE gAttractMoviePreparePending
    BY <1>2, <1>4, <2>1 DEF TitleMenu_run, IHooks
  <2>2. CASE ~gAttractMoviePreparePending
    BY <1>1, <1>4, <2>2 DEF TitleMenu_run, Goto, Playing
  <2> QED
    BY <2>1, <2>2
<1>5. ASSUME n_attractmode_releaseMovieBuffers \/ UNCHANGED gAttractMovieState PROVE Playing' => Playing
  BY <1>5 DEF n_attractmode_releaseMovieBuffers, Playing, RELEASED, PREPARED
<1>6. CASE CheckMovie
  BY <1>1, <1>5, <1>6 DEF CheckMovie, VIWaitForRetrace
<1>7. CASE Leave
  BY <1>1, <1>5, <1>7 DEF Leave, VIWaitForRetrace
<1>8. CASE Frame
  BY <1>1, <1>8 DEF Frame, VIWaitForRetrace, Playing
<1>9. CASE fhAIPump
  BY <1>9 DEF fhAIPump, IBuffers, IHooks, Playing
<1>10. CASE Pumped
  BY <1>1, <1>10 DEF Pumped, Goto, Playing
<1>11. CASE AttractMovieAudio_Mix
  <2>1. Playing /\ Playing'
    BY <1>11 DEF AttractMovieAudio_Mix, IBuffers, Playing
  <2>2. Accounted(free', decoded', curAudioBuffer')
    BY <1>11, <2>1, MixAccounted
  <2> QED
    BY <2>1, <2>2 DEF IBuffers, Accounted
<1>12. CASE PlayControl
  <2>1. Playing /\ Playing' /\ pc' # "mix"
    BY <1>12 DEF PlayControl, IHooks, Playing, Return
  <2>2. \/ UNCHANGED <<free, decoded, curAudioBuffer>>
        \/ /\ \E n \in Samples :
               AttractMovieAudio_DecodeFramePC(free, decoded, n, sPcMovieFrame)
           /\ UNCHANGED curAudioBuffer
    BY <1>12 DEF PlayControl, NotPlaying, BreakDown, PlayFrame, DecodeNextMovieFramePC
  <2>3. Accounted(free', decoded', curAudioBuffer')
    BY <2>1, <2>2, DecodeAccounted DEF IBuffers
  <2> QED
    BY <2>1, <2>3 DEF IBuffers, Accounted
<1>13. CASE gpuErrorHandler
  BY <1>1, <1>13 DEF gpuErrorHandler, Return, Playing
<1>14. CASE UNCHANGED vars
  BY <1>14 DEF vars, IBuffers, Playing
<1> QED
  BY <1>3, <1>4, <1>6, <1>7, <1>8, <1>9, <1>10, <1>11, <1>12, <1>13, <1>14 DEF Next

\* While the movie plays each audio buffer is in one place: free, waiting to be
\* heard, or with the mixer.
THEOREM BuffersAlwaysAccounted == Spec => []BuffersAccounted
<1>1. IBuffers => BuffersAccounted
  <2> SUFFICES ASSUME IBuffers, Playing PROVE
        /\ Content(free) \cup Content(decoded) \cup ({curAudioBuffer} \ {None}) = Buffers
        /\ free.usedCount + decoded.usedCount + Len(Held) = 3
    BY DEF BuffersAccounted
  <2>1. Accounted(free, decoded, curAudioBuffer)
    BY DEF IBuffers
  <2>2. Content(free) = Cells(free) /\ Content(decoded) = Cells(decoded)
    BY ContentIsCells DEF IBuffers
  <2>3. Len(Held) = IF curAudioBuffer = None THEN 0 ELSE 1
    BY DEF Held
  <2> QED
    BY <2>1, <2>2, <2>3 DEF Accounted
<1> QED
  BY <1>1, HooksInit, HooksStep, BuffersInit, BuffersStep, PTL DEF Spec

------------------------------------------------------------------------------
\* The sound.  The sequence of frames still to be heard, place by place.
ISound ==
  /\ audioBuffer \in [Buffers -> [validSample : Int, frameNumber : Int]]
  /\ sPcMovieFrame \in Int
  /\ cnt \in Int

LEMMA SoundInit == Init => ISound
  BY DEF Init, ISound

LEMMA SoundTypeStep == IBuffers /\ ISound /\ [Next]_vars => ISound'
<1> SUFFICES ASSUME IBuffers, ISound, [Next]_vars PROVE ISound'
  OBVIOUS
<1> USE DEF menu, video, audio, player, hooks
<1>1. ASSUME UNCHANGED <<audioBuffer, sPcMovieFrame>>, cnt' = cnt \/ cnt' = Chunk \/ cnt' = 0
      PROVE  ISound'
  BY <1>1, MovieConstants DEF ISound
<1>2. ASSUME NEW who, n_attractmode_prepareMovie(who) PROVE ISound'
  <2>1. cnt' = cnt
    BY <1>2 DEF n_attractmode_prepareMovie, Goto, VIWaitForRetrace
  <2>2. CASE NoMovie
    BY <2>1, <2>2 DEF NoMovie, ISound
  <2>3. CASE Movie
    <3>1. \E n \in Samples : AttractMovieAudio_DecodeFramePC(
                             InitQueuesPC(free), OSInitMessageQueue(decoded), n, 0)
      BY <2>3 DEF Movie
    <3>2. audioBuffer' \in [Buffers -> [validSample : Int, frameNumber : Int]]
      BY <3>1, MovieConstants DEF AttractMovieAudio_DecodeFramePC, ISound
    <3>3. 1 % NumFrames \in Int
      BY MovieConstants
    <3> QED
      BY <2>1, <2>3, <3>2, <3>3 DEF Movie, ISound
  <2> QED
    BY <1>2, <2>2, <2>3 DEF n_attractmode_prepareMovie
<1>3. CASE TitleMenu_initialise
  BY <1>1, <1>2, <1>3 DEF TitleMenu_initialise, Goto
<1>4. CASE TitleMenu_run
  BY <1>1, <1>2, <1>4 DEF TitleMenu_run, Goto
<1>5. CASE CheckMovie \/ Leave \/ Frame
  BY <1>1, <1>5 DEF CheckMovie, Leave, Frame, VIWaitForRetrace
<1>6. CASE fhAIPump \/ Pumped \/ gpuErrorHandler
  BY <1>1, <1>6 DEF fhAIPump, Pumped, gpuErrorHandler, Goto, Return
<1>7. CASE AttractMovieAudio_Mix
  <2>1. CASE UNCHANGED audioBuffer
    <3>1. cnt' = cnt \/ cnt' = 0 \/ curAudioBuffer # None
      BY <1>7 DEF AttractMovieAudio_Mix
    <3>2. curAudioBuffer # None => cnt' \in Int
      BY <1>7 DEF AttractMovieAudio_Mix, IBuffers, ISound, Accounted
    <3> QED
      BY <1>7, <2>1, <3>1, <3>2 DEF AttractMovieAudio_Mix, ISound
  <2>2. CASE curAudioBuffer # None
    <3> DEFINE valid == audioBuffer[curAudioBuffer].validSample
               process == IF valid >= cnt THEN cnt ELSE valid
    <3>1. curAudioBuffer \in Buffers
      BY <1>7, <2>2 DEF AttractMovieAudio_Mix, IBuffers, Accounted
    <3>2. /\ audioBuffer' = [audioBuffer EXCEPT ![curAudioBuffer].validSample = @ - process]
          /\ cnt' = cnt - process /\ UNCHANGED sPcMovieFrame
      BY <1>7, <2>2 DEF AttractMovieAudio_Mix
    <3>3. valid \in Int /\ process \in Int
      BY <3>1 DEF ISound
    <3> HIDE DEF process
    <3> QED
      BY <3>1, <3>2, <3>3 DEF ISound
  <2> QED
    BY <1>7, <2>1, <2>2 DEF AttractMovieAudio_Mix
<1>8. CASE PlayControl
  <2>1. cnt' = cnt
    BY <1>8 DEF PlayControl, Return
  <2>2. \/ UNCHANGED <<audioBuffer, sPcMovieFrame>>
        \/ /\ \E n \in Samples :
               AttractMovieAudio_DecodeFramePC(free, decoded, n, sPcMovieFrame)
           /\ sPcMovieFrame' = (sPcMovieFrame + 1) % NumFrames
    BY <1>8 DEF PlayControl, NotPlaying, BreakDown, PlayFrame, DecodeNextMovieFramePC
  <2>3. CASE UNCHANGED <<audioBuffer, sPcMovieFrame>>
    BY <1>1, <2>1, <2>3
  <2>4. CASE /\ \E n \in Samples :
                AttractMovieAudio_DecodeFramePC(free, decoded, n, sPcMovieFrame)
             /\ sPcMovieFrame' = (sPcMovieFrame + 1) % NumFrames
    <3>1. audioBuffer' \in [Buffers -> [validSample : Int, frameNumber : Int]]
      BY <2>4, MovieConstants DEF AttractMovieAudio_DecodeFramePC, ISound
    <3>2. sPcMovieFrame' \in Int
      BY <2>4, MovieConstants DEF ISound
    <3> QED
      BY <2>1, <3>1, <3>2 DEF ISound
  <2> QED
    BY <2>2, <2>3, <2>4
<1>9. CASE UNCHANGED vars
  BY <1>1, <1>9 DEF vars
<1> QED
  BY <1>3, <1>4, <1>5, <1>6, <1>7, <1>8, <1>9 DEF Next

\* Who is heard in the i-th place.
InHand == IF curAudioBuffer = None THEN 0 ELSE 1
Who(i) == IF i <= InHand THEN curAudioBuffer ELSE Cell(decoded, i - InHand - 1)

LEMMA WhoIs ==
  ASSUME IBuffers, Playing
  PROVE  /\ decoded.usedCount \in 0 .. 3 /\ InHand \in 0 .. 1
         /\ free.usedCount = 3 - (InHand + decoded.usedCount)
         /\ \A i \in 1 .. InHand + decoded.usedCount :
              Who(i) \in Buffers /\ Who(i) \notin Cells(free)
         /\ decoded.usedCount = 0 \/ Cell(decoded, 0) = Received(decoded)
<1>1. Accounted(free, decoded, curAudioBuffer)
  BY DEF IBuffers
<1>2. /\ decoded.usedCount \in 0 .. 3 /\ free.usedCount \in 0 .. 3 /\ InHand \in 0 .. 1
      /\ free.usedCount = 3 - (InHand + decoded.usedCount)
  BY <1>1 DEF Accounted, Ring, InHand
<1>3. ASSUME NEW i \in 1 .. InHand + decoded.usedCount
      PROVE  Who(i) \in Buffers /\ Who(i) \notin Cells(free)
  <2>1. CASE i <= InHand
    BY <1>1, <1>2, <2>1 DEF Who, InHand, Accounted
  <2>2. CASE ~(i <= InHand)
    <3>1. i - InHand - 1 \in 0 .. decoded.usedCount - 1
      BY <1>2, <2>2
    <3>2. Who(i) \in Cells(decoded)
      BY <2>2, <3>1 DEF Who, Cells
    <3> QED
      BY <1>1, <3>2 DEF Accounted
  <2> QED
    BY <2>1, <2>2
<1>4. decoded.usedCount = 0 \/ Cell(decoded, 0) = Received(decoded)
  BY <1>1, ReceiveFromRing DEF Accounted, Empty
<1> QED
  BY <1>2, <1>3, <1>4

PipeByPlace ==
  /\ Pipe \in Seq(Int)
  /\ Len(Pipe) = InHand + decoded.usedCount
  /\ \A i \in 1 .. InHand + decoded.usedCount :
       Pipe[i] = audioBuffer[Who(i)].frameNumber

LEMMA PipeIs == IBuffers /\ ISound /\ Playing => PipeByPlace
<1> SUFFICES ASSUME IBuffers, ISound, Playing PROVE PipeByPlace
  OBVIOUS
<1>1. /\ decoded.usedCount \in Nat /\ InHand \in 0 .. 1
      /\ \A i \in 1 .. InHand + decoded.usedCount : Who(i) \in Buffers
  BY WhoIs
<1>2. Held \in Seq(Buffers) /\ Len(Held) = InHand
      /\ (InHand = 1 => Held[1] = curAudioBuffer)
  <2>1. CASE curAudioBuffer = None
    BY <2>1 DEF Held, InHand
  <2>2. CASE curAudioBuffer # None
    BY <2>2 DEF Held, InHand, IBuffers, Accounted
  <2> QED
    BY <2>1, <2>2
<1>3. /\ Waiting(decoded) \in Seq(Buffers) /\ Len(Waiting(decoded)) = decoded.usedCount
      /\ \A i \in 1 .. decoded.usedCount : Waiting(decoded)[i] = Cell(decoded, i - 1)
  <2>1. \A i \in 1 .. decoded.usedCount : decoded.msgArray[Slot(decoded, i - 1)] \in Buffers
    <3> TAKE i \in 1 .. decoded.usedCount
    <3>1. i - 1 \in 0 .. 3 /\ Ring(decoded)
      BY <1>1 DEF IBuffers, Ring
    <3>2. Slot(decoded, i - 1) \in 0 .. 2
      BY <3>1, Turn
    <3> QED
      BY <3>1, <3>2 DEF Ring
  <2> QED
    BY <1>1, <2>1 DEF Waiting, Cell
<1>4. /\ ToHear \in Seq(Buffers) /\ Len(ToHear) = InHand + decoded.usedCount
      /\ \A i \in 1 .. InHand + decoded.usedCount :
           ToHear[i] = IF i <= InHand THEN Held[i] ELSE Waiting(decoded)[i - InHand]
  <2> DEFINE h == Held
             w == Waiting(decoded)
  <2>1. /\ h \in Seq(Buffers) /\ w \in Seq(Buffers)
        /\ Len(h) = InHand /\ Len(w) = decoded.usedCount /\ ToHear = h \o w
    BY <1>2, <1>3 DEF ToHear
  <2> HIDE DEF h, w
  <2>2. /\ h \o w \in Seq(Buffers) /\ Len(h \o w) = Len(h) + Len(w)
        /\ \A i \in 1 .. Len(h) + Len(w) :
             (h \o w)[i] = IF i <= Len(h) THEN h[i] ELSE w[i - Len(h)]
    BY <2>1, ConcatProperties, Zenon
  <2>3. \A i \in 1 .. InHand + decoded.usedCount :
          ToHear[i] = IF i <= InHand THEN h[i] ELSE w[i - InHand]
    BY <2>1, <2>2, Zenon
  <2> QED
    BY <2>1, <2>2, <2>3, Zenon DEF h, w
<1>5. \A i \in 1 .. InHand + decoded.usedCount : ToHear[i] = Who(i)
  <2> TAKE i \in 1 .. InHand + decoded.usedCount
  <2>1. CASE i <= InHand
    <3>1. i = 1 /\ InHand = 1
      BY <1>1, <2>1
    <3> QED
      BY <1>2, <1>4, <2>1, <3>1 DEF Who
  <2>2. CASE ~(i <= InHand)
    <3>1. i - InHand \in 1 .. decoded.usedCount
      BY <1>1, <2>2
    <3> QED
      BY <1>3, <1>4, <2>2, <3>1 DEF Who
  <2> QED
    BY <2>1, <2>2
<1> DEFINE n == InHand + decoded.usedCount
<1>6. n \in Nat
  BY <1>1
<1>7. Pipe = [i \in 1 .. n |-> audioBuffer[ToHear[i]].frameNumber]
  BY <1>4 DEF Pipe
<1>8. \A i \in 1 .. n : audioBuffer[ToHear[i]].frameNumber \in Int
  BY <1>1, <1>5 DEF ISound
<1> HIDE DEF n
<1>9. Pipe \in Seq(Int) /\ Len(Pipe) = n
  <2>1. Pipe \in [1 .. n -> Int]
    BY <1>7, <1>8
  <2> QED
    BY ONLY <1>6, <2>1
<1>10. \A i \in 1 .. n : Pipe[i] = audioBuffer[Who(i)].frameNumber
  BY <1>5, <1>7 DEF n
<1> QED
  BY <1>9, <1>10 DEF n, PipeByPlace

LEMMA PipeIsNext == IBuffers' /\ ISound' /\ Playing' => PipeByPlace'
  BY PipeIs, PTL

\* What leaves the movie and its queues alone is not seen.
LEMMA Unseen ==
  ASSUME UNCHANGED <<gAttractMovieState, sPcMovieFrame, curAudioBuffer, decoded, audioBuffer>>
  PROVE  UNCHANGED <<Playing, sPcMovieFrame, Pipe>>
<1>1. Playing' = Playing
  BY Zenon DEF Playing
<1>2. ToHear' = ToHear
  BY Zenon DEF ToHear, Held, Waiting, Slot
<1>3. Pipe' = Pipe
  BY <1>1, <1>2, Zenon DEF Pipe
<1> QED
  BY <1>1, <1>3

\* Neither is anything while there is no movie.
LEMMA NothingToHear ==
  ASSUME ~Playing, ~Playing', UNCHANGED sPcMovieFrame
  PROVE  UNCHANGED <<Playing, sPcMovieFrame, Pipe>>
<1>1. Playing = FALSE /\ Playing' = FALSE
  BY Zenon DEF Playing
<1>2. Pipe = <<>> /\ Pipe' = <<>>
  BY DEF Pipe
<1> QED
  BY <1>1, <1>2

LEMMA PrepareStarts ==
  ASSUME IBuffers, ISound, IBuffers', ISound', ~Playing,
         NEW who, n_attractmode_prepareMovie(who)
  PROVE  Sound!Start \/ UNCHANGED <<Playing, sPcMovieFrame, Pipe>>
<1>1. CASE NoMovie
  BY <1>1, NothingToHear DEF NoMovie, Playing
<1>2. CASE Movie
  <2>1. Playing' = TRUE /\ sPcMovieFrame' = 1 % NumFrames
    BY <1>2, Zenon DEF Movie, Playing
  <2> DEFINE fq == InitQueuesPC(free)
             dq == OSInitMessageQueue(decoded)
             b == Received(fq)
  <2>2. Accounted(fq, dq, None) /\ dq.usedCount = 0 /\ fq.usedCount = 3
    <3>1. Accounted(fq, dq, None)
      BY AllFree DEF IBuffers
    <3>2. dq.usedCount = 0
      BY EmptyAgain DEF IBuffers
    <3> QED
      BY <3>1, <3>2 DEF Accounted, Ring
  <2>3. PICK n \in Samples : AttractMovieAudio_DecodeFramePC(fq, dq, n, 0)
    BY <1>2 DEF Movie
  <2> HIDE DEF fq, dq
  <2>4. /\ decoded' = OSSendMessage(dq, b)
        /\ audioBuffer' = [audioBuffer EXCEPT ![b] = [validSample |-> n, frameNumber |-> 0]]
    BY <2>2, <2>3 DEF AttractMovieAudio_DecodeFramePC, Empty
  <2>5. b \in Buffers /\ b \notin Cells(dq)
    BY <2>2, ReceiveFromRing DEF Accounted, Empty
  <2> HIDE DEF b
  <2>6. decoded'.usedCount = 1 /\ Cell(decoded', 0) = b
    BY <2>2, <2>4, <2>5, SendToRing DEF Accounted
  <2>7. InHand' = 0 /\ Who(1)' = b
    BY <1>2, <2>6 DEF Movie, InHand, Who
  <2>8. audioBuffer'[b].frameNumber = 0
    BY <2>4, <2>5 DEF ISound
  <2>9. Pipe' \in Seq(Int) /\ Len(Pipe') = 1 /\ Pipe'[1] = 0
    <3>1. PipeByPlace'
      BY <2>1, PipeIsNext
    <3> QED
      BY <2>6, <2>7, <2>8, <3>1 DEF PipeByPlace
  <2>10. Pipe' = <<0>>
    BY <2>9, SeqEqual
  <2>11. ~Playing /\ Playing' = TRUE
    BY <2>1
  <2> QED
    BY <2>1, <2>10, <2>11, Zenon DEF Sound!Start
<1> QED
  BY <1>1, <1>2 DEF n_attractmode_prepareMovie

LEMMA ReleaseStops ==
  ASSUME n_attractmode_releaseMovieBuffers,
         UNCHANGED <<sPcMovieFrame, curAudioBuffer, decoded, audioBuffer>>
  PROVE  Sound!Stop \/ UNCHANGED <<Playing, sPcMovieFrame, Pipe>>
<1>1. CASE Playing
  <2>1. Playing /\ Playing' = FALSE
    <3>1. ~Playing'
      BY <1>1 DEF n_attractmode_releaseMovieBuffers, Playing, PREPARED, RELEASED
    <3> QED
      BY <1>1, <3>1, Zenon DEF Playing
  <2>2. Pipe' = <<>>
    BY <2>1 DEF Pipe
  <2> QED
    BY <2>1, <2>2, Zenon DEF Sound!Stop
<1>2. CASE ~Playing
  BY <1>2, Unseen DEF n_attractmode_releaseMovieBuffers, Playing
<1> QED
  BY <1>1, <1>2

\* A decoded frame is the last to be heard, if there is a buffer for it.
LEMMA DecodeIsSeen ==
  ASSUME IBuffers, ISound, IBuffers', ISound', Playing, Playing',
         NEW n \in Samples,
         AttractMovieAudio_DecodeFramePC(free, decoded, n, sPcMovieFrame),
         sPcMovieFrame' = (sPcMovieFrame + 1) % NumFrames,
         curAudioBuffer' = curAudioBuffer, Playing' = Playing
  PROVE  Sound!Decode
<1>1. PipeByPlace /\ PipeByPlace'
  BY PipeIs, PipeIsNext
<1>2. /\ decoded.usedCount \in 0 .. 3 /\ InHand \in 0 .. 1 /\ InHand' = InHand
      /\ free.usedCount = 3 - (InHand + decoded.usedCount)
      /\ \A i \in 1 .. InHand + decoded.usedCount :
           Who(i) \in Buffers /\ Who(i) \notin Cells(free)
  BY WhoIs DEF InHand
<1>3. Len(Pipe) = 3 - free.usedCount
  BY <1>1, <1>2 DEF PipeByPlace
<1>4. Accounted(free, decoded, curAudioBuffer)
  BY DEF IBuffers
<1>5. free.usedCount \in 0 .. 3
  BY <1>4 DEF Accounted, Ring
<1>6. CASE Empty(free)
  <2>1. UNCHANGED <<decoded, audioBuffer, curAudioBuffer>>
    BY <1>6 DEF AttractMovieAudio_DecodeFramePC
  <2>2. ToHear' = ToHear
    BY <2>1, Zenon DEF ToHear, Held, Waiting, Slot
  <2>3. Pipe' = Pipe
    BY <2>1, <2>2, Zenon DEF Pipe
  <2>4. ~(Len(Pipe) < 3)
    BY <1>3, <1>6 DEF Empty
  <2> QED
    BY <2>3, <2>4, Zenon DEF Sound!Decode
<1>7. CASE ~Empty(free)
  <2> DEFINE b == Received(free)
             last == decoded.usedCount
  <2>1. /\ decoded' = OSSendMessage(decoded, b)
        /\ audioBuffer' = [audioBuffer EXCEPT
             ![b] = [validSample |-> n, frameNumber |-> sPcMovieFrame]]
    BY <1>7 DEF AttractMovieAudio_DecodeFramePC
  <2>2. b \in Buffers /\ b \in Cells(free) /\ b \notin Cells(decoded) /\ last < 3
    BY <1>2, <1>4, <1>5, <1>7, ReceiveFromRing DEF Accounted, Empty
  <2> HIDE DEF b
  <2>3. /\ decoded'.usedCount = decoded.usedCount + 1
        /\ \A i \in 0 .. decoded.usedCount - 1 : Cell(decoded', i) = Cell(decoded, i)
        /\ Cell(decoded', decoded.usedCount) = b
    BY <1>4, <2>1, <2>2, SendToRing DEF Accounted
  <2>4. \A i \in 1 .. InHand + last : Who(i)' = Who(i)
    <3> TAKE i \in 1 .. InHand + last
    <3>1. i <= InHand \/ i - InHand - 1 \in 0 .. last - 1
      BY <1>2
    <3> QED
      BY <1>2, <2>3, <3>1 DEF Who
  <2>5. ASSUME NEW j, j = InHand + last + 1 PROVE Who(j)' = b
    <3>1. ~(j <= InHand') /\ j - InHand' - 1 = last
      BY <1>2, <2>5
    <3>2. Who(j)' = Cell(decoded', j - InHand' - 1)
      BY <3>1 DEF Who
    <3> QED
      BY <2>3, <3>1, <3>2
  <2>6. \A c \in Buffers \ {b} : audioBuffer'[c] = audioBuffer[c]
    BY <2>1, <2>2 DEF ISound
  <2>7. audioBuffer'[b].frameNumber = sPcMovieFrame
    BY <2>1, <2>2 DEF ISound
  <2>8. /\ Pipe \in Seq(Int) /\ Pipe' \in Seq(Int) /\ sPcMovieFrame \in Int
        /\ Len(Pipe) = InHand + last /\ Len(Pipe') = InHand + last + 1
        /\ InHand + last \in Nat
    BY <1>1, <1>2, <2>3, SMTT(20) DEF PipeByPlace, ISound
  <2>9. \A i \in 1 .. InHand + last : Pipe'[i] = Pipe[i]
    <3> TAKE i \in 1 .. InHand + last
    <3>1. i \in 1 .. InHand' + decoded'.usedCount
      BY <1>2, <2>3
    <3>2. Who(i) \in Buffers \ {b} /\ Who(i)' = Who(i)
      BY <1>2, <2>2, <2>4
    <3>3. Pipe'[i] = audioBuffer'[Who(i)'].frameNumber
      BY <1>1, <3>1 DEF PipeByPlace
    <3>4. Pipe[i] = audioBuffer[Who(i)].frameNumber
      BY <1>1 DEF PipeByPlace
    <3> QED
      BY <2>6, <3>2, <3>3, <3>4
  <2>10. ASSUME NEW j, j = InHand + last + 1 PROVE Pipe'[j] = sPcMovieFrame
    <3>1. j \in 1 .. InHand' + decoded'.usedCount
      BY <1>2, <2>3, <2>10
    <3>2. Pipe'[j] = audioBuffer'[Who(j)'].frameNumber
      BY <1>1, <3>1 DEF PipeByPlace
    <3> QED
      BY <2>5, <2>7, <2>10, <3>2
  <2> HIDE DEF last
  <2>11. Pipe' = Append(Pipe, sPcMovieFrame)
    <3> DEFINE a == Append(Pipe, sPcMovieFrame)
    <3>1. /\ a \in Seq(Int) /\ Len(a) = Len(Pipe) + 1
          /\ \A i \in 1 .. Len(Pipe) : a[i] = Pipe[i]
          /\ a[Len(Pipe) + 1] = sPcMovieFrame
      BY <2>8, AppendProperties
    <3> HIDE DEF a
    <3>2. ASSUME NEW i \in 1 .. Len(Pipe') PROVE Pipe'[i] = a[i]
      <4>1. CASE i \in 1 .. InHand + last
        BY <2>8, <2>9, <3>1, <4>1
      <4>2. CASE i = InHand + last + 1
        <5>1. Pipe'[i] = sPcMovieFrame
          BY <2>10, <4>2
        <5> QED
          BY <2>8, <3>1, <4>2, <5>1
      <4> QED
        BY <2>8, <4>1, <4>2
    <3>3. Pipe' = a
      BY <2>8, <3>1, <3>2, SeqEqual
    <3> QED
      BY <3>3 DEF a
  <2>12. Len(Pipe) < 3
    BY <1>3, <1>5, <1>7 DEF Empty
  <2> QED
    BY <2>11, <2>12, Zenon DEF Sound!Decode
<1> QED
  BY <1>6, <1>7

\* The mixer hears the first frame to its end, and what it does before that is
\* not seen.
LEMMA MixIsSeen ==
  ASSUME IBuffers, ISound, IBuffers', ISound', AttractMovieAudio_Mix
  PROVE  Sound!Hear \/ UNCHANGED <<Playing, sPcMovieFrame, Pipe>>
<1> USE DEF menu, audio, video
<1>1. Playing /\ Playing' = Playing /\ Playing' /\ sPcMovieFrame' = sPcMovieFrame
  BY DEF AttractMovieAudio_Mix, IBuffers, Playing
<1>2. PipeByPlace /\ PipeByPlace'
  BY <1>1, PipeIs, PipeIsNext
<1>3. /\ decoded.usedCount \in 0 .. 3 /\ InHand \in 0 .. 1
      /\ \A i \in 1 .. InHand + decoded.usedCount : Who(i) \in Buffers
      /\ decoded.usedCount = 0 \/ Cell(decoded, 0) = Received(decoded)
  BY <1>1, WhoIs
<1>4. Accounted(free, decoded, curAudioBuffer)
  BY <1>1 DEF IBuffers
<1>5. \A c \in Buffers : audioBuffer'[c].frameNumber = audioBuffer[c].frameNumber
  <2>1. CASE UNCHANGED audioBuffer
    BY <2>1
  <2>2. CASE curAudioBuffer # None
    <3> DEFINE valid == audioBuffer[curAudioBuffer].validSample
               process == IF valid >= cnt THEN cnt ELSE valid
    <3>1. curAudioBuffer \in Buffers
      BY <1>4, <2>2 DEF Accounted
    <3>2. audioBuffer' = [audioBuffer EXCEPT ![curAudioBuffer].validSample = @ - process]
      BY <2>2 DEF AttractMovieAudio_Mix
    <3> HIDE DEF process
    <3> QED
      BY <3>1, <3>2 DEF ISound
  <2> QED
    BY <2>1, <2>2 DEF AttractMovieAudio_Mix
<1>6. ASSUME NEW k \in 0 .. 1,
             InHand' + decoded'.usedCount = InHand + decoded.usedCount - k,
             \A i \in 1 .. InHand' + decoded'.usedCount : Who(i)' = Who(i + k)
      PROVE  /\ Len(Pipe') = Len(Pipe) - k
             /\ \A i \in 1 .. Len(Pipe') : Pipe'[i] = Pipe[i + k]
  <2>1. Len(Pipe) = InHand + decoded.usedCount /\ Len(Pipe') = InHand' + decoded'.usedCount
    BY <1>2 DEF PipeByPlace
  <2>2. ASSUME NEW i \in 1 .. InHand' + decoded'.usedCount PROVE Pipe'[i] = Pipe[i + k]
    <3>1. i + k \in 1 .. InHand + decoded.usedCount
      BY <1>3, <1>6
    <3>2. Pipe'[i] = audioBuffer'[Who(i)'].frameNumber
      BY <1>2 DEF PipeByPlace
    <3>3. Pipe[i + k] = audioBuffer[Who(i + k)].frameNumber
      BY <1>2, <3>1 DEF PipeByPlace
    <3>4. Who(i)' = Who(i + k) /\ Who(i + k) \in Buffers
      BY <1>3, <1>6, <3>1
    <3> QED
      BY <1>5, <3>2, <3>3, <3>4
  <2>3. Len(Pipe') = Len(Pipe) - k
    <3>1. InHand' + decoded'.usedCount = InHand + decoded.usedCount - k
      BY <1>6
    <3>2. InHand \in Int /\ decoded.usedCount \in Int
      BY <1>3
    <3> QED
      BY ONLY <2>1, <3>1, <3>2, k \in 0 .. 1
  <2>4. \A i \in 1 .. Len(Pipe') : Pipe'[i] = Pipe[i + k]
    BY ONLY <2>1, <2>2
  <2> QED
    BY <2>3, <2>4
<1>7. Pipe \in Seq(Int) /\ Pipe' \in Seq(Int)
  BY <1>2 DEF PipeByPlace
<1>8. ASSUME InHand' + decoded'.usedCount = InHand + decoded.usedCount,
             \A i \in 1 .. InHand' + decoded'.usedCount : Who(i)' = Who(i)
      PROVE  UNCHANGED <<Playing, sPcMovieFrame, Pipe>>
  <2>1. \A i \in 1 .. InHand' + decoded'.usedCount : i + 0 = i
    BY <1>3, <1>8
  <2>2. /\ Len(Pipe') = Len(Pipe) - 0
        /\ \A i \in 1 .. Len(Pipe') : Pipe'[i] = Pipe[i + 0]
    BY <1>3, <1>6, <1>8, <2>1
  <2>3. Len(Pipe') = Len(Pipe) /\ \A i \in 1 .. Len(Pipe') : Pipe'[i] = Pipe[i]
    BY <1>7, <2>2
  <2>4. Pipe' = Pipe
    BY <1>7, <2>3, SeqEqual
  <2> QED
    BY <1>1, <2>4
<1>9. CASE UNCHANGED <<decoded, curAudioBuffer>>
  BY <1>8, <1>9 DEF InHand, Who, Cell, Slot
<1>10. CASE /\ curAudioBuffer = None /\ ~Empty(decoded)
            /\ curAudioBuffer' = Received(decoded) /\ decoded' = OSReceiveMessage(decoded)
  <2>1. /\ decoded'.usedCount = decoded.usedCount - 1
        /\ \A i \in 0 .. decoded'.usedCount - 1 : Cell(decoded', i) = Cell(decoded, i + 1)
        /\ Received(decoded) = Cell(decoded, 0) /\ Received(decoded) \in Buffers
    BY <1>4, <1>10, ReceiveFromRing DEF Accounted
  <2>2. InHand = 0 /\ InHand' = 1
    BY <1>10, <2>1, NoneIsNone DEF InHand
  <2>3. ASSUME NEW i \in 1 .. InHand' + decoded'.usedCount PROVE Who(i)' = Who(i)
    <3>1. CASE i = 1
      BY <1>10, <2>1, <2>2, <3>1 DEF Who
    <3>2. CASE i # 1
      <4>1. i - 1 - 1 \in 0 .. decoded'.usedCount - 1 /\ (i - 1 - 1) + 1 = i - 0 - 1
        BY <1>3, <2>1, <2>2, <3>2
      <4> QED
        BY <2>1, <2>2, <3>2, <4>1 DEF Who
    <3> QED
      BY <3>1, <3>2
  <2> QED
    BY <1>3, <1>8, <2>1, <2>2, <2>3
<1>11. CASE curAudioBuffer # None /\ curAudioBuffer' = None /\ UNCHANGED decoded
  <2>1. InHand = 1 /\ InHand' = 0
    BY <1>11 DEF InHand
  <2>2. ASSUME NEW i \in 1 .. InHand' + decoded'.usedCount PROVE Who(i)' = Who(i + 1)
    <3>1. (i + 1) - 1 - 1 = i - 0 - 1 /\ ~(i + 1 <= 1) /\ ~(i <= 0)
      BY <1>3, <1>11, <2>1
    <3>2. Who(i)' = Cell(decoded', i - 0 - 1) /\ Who(i + 1) = Cell(decoded, (i + 1) - 1 - 1)
      BY <2>1, <3>1 DEF Who
    <3> QED
      BY <1>11, <3>1, <3>2 DEF Cell, Slot
  <2>3. Len(Pipe') = Len(Pipe) - 1 /\ \A i \in 1 .. Len(Pipe') : Pipe'[i] = Pipe[i + 1]
    BY <1>3, <1>6, <1>11, <2>1, <2>2
  <2>4. Len(Pipe) >= 1
    BY <1>2, <1>3, <2>1 DEF PipeByPlace
  <2>5. Pipe # <<>>
    BY <1>7, <2>4
  <2>6. Pipe' = Tail(Pipe)
    <3> DEFINE t == Tail(Pipe)
    <3>1. /\ t \in Seq(Int) /\ Len(t) = Len(Pipe) - 1
          /\ \A i \in 1 .. Len(t) : t[i] = Pipe[i + 1]
      BY <1>7, <2>5, HeadTailProperties
    <3> HIDE DEF t
    <3>2. Pipe' = t
      BY <1>7, <2>3, <3>1, SeqEqual
    <3> QED
      BY <3>2 DEF t
  <2> QED
    BY <1>1, <2>5, <2>6, Zenon DEF Sound!Hear
<1> QED
  BY <1>9, <1>10, <1>11 DEF AttractMovieAudio_Mix

LEMMA SoundStep ==
  IHooks /\ IHooks' /\ IBuffers /\ IBuffers' /\ ISound /\ ISound' /\ [Next]_vars
    => [Sound!Next]_<<Playing, sPcMovieFrame, Pipe>>
<1> SUFFICES ASSUME IHooks, IHooks', IBuffers, IBuffers', ISound, ISound', [Next]_vars
             PROVE  \/ Sound!Start \/ Sound!Decode \/ Sound!Hear \/ Sound!Stop
                    \/ UNCHANGED <<Playing, sPcMovieFrame, Pipe>>
  BY Zenon DEF Sound!Next
<1> USE DEF menu, video, audio, player, hooks
<1>1. CASE TitleMenu_initialise
  <2>1. CASE gAttractMovieAutoplayEnabled' /\ gAttractMovieState # PREPARED
    BY <1>1, <2>1, PrepareStarts DEF TitleMenu_initialise, Playing
  <2>2. CASE ~(gAttractMovieAutoplayEnabled' /\ gAttractMovieState # PREPARED)
    BY <1>1, <2>2, Unseen DEF TitleMenu_initialise
  <2> QED
    BY <2>1, <2>2
<1>2. CASE TitleMenu_run
  <2>1. CASE gAttractMoviePreparePending
    <3>1. ~Playing
      BY <2>1 DEF IHooks
    <3> QED
      BY <1>2, <2>1, <3>1, PrepareStarts DEF TitleMenu_run
  <2>2. CASE ~gAttractMoviePreparePending
    BY <1>2, <2>2, Unseen DEF TitleMenu_run
  <2> QED
    BY <2>1, <2>2
<1>3. CASE CheckMovie
  <2>1. CASE gAttractMovieIdleFrameCount' > IdleLimit
    BY <1>3, <2>1, ReleaseStops DEF CheckMovie
  <2>2. CASE ~(gAttractMovieIdleFrameCount' > IdleLimit)
    BY <1>3, <2>2, Unseen DEF CheckMovie
  <2> QED
    BY <2>1, <2>2
<1>4. CASE Leave
  BY <1>4, ReleaseStops DEF Leave
<1>5. CASE Frame \/ fhAIPump \/ Pumped \/ gpuErrorHandler
  BY <1>5, Unseen DEF Frame, fhAIPump, Pumped, gpuErrorHandler
<1>6. CASE AttractMovieAudio_Mix
  BY <1>6, MixIsSeen
<1>7. CASE PlayControl
  <2>1. /\ pc = "post" /\ post = "PlayControl"
        /\ gAttractMovieState' = gAttractMovieState
        /\ NotPlaying \/ BreakDown \/ PlayFrame
    BY <1>7 DEF PlayControl
  <2>2. Playing /\ Playing'
    BY <2>1 DEF IHooks, Playing
  <2>3. Playing' = Playing
    BY <2>1 DEF Playing
  <2>4. CASE UNCHANGED <<video, audio>>
    BY <2>1, <2>4, Unseen
  <2>5. CASE PlayFrame /\ ~UNCHANGED <<video, audio>>
    <3>1. PICK n \in Samples :
            AttractMovieAudio_DecodeFramePC(free, decoded, n, sPcMovieFrame)
      BY <2>5 DEF PlayFrame, DecodeNextMovieFramePC
    <3>2. sPcMovieFrame' = (sPcMovieFrame + 1) % NumFrames /\ curAudioBuffer' = curAudioBuffer
      BY <2>5 DEF PlayFrame, DecodeNextMovieFramePC
    <3> QED
      BY <2>2, <2>3, <3>1, <3>2, DecodeIsSeen
  <2> QED
    BY <2>1, <2>4, <2>5 DEF NotPlaying, BreakDown
<1>8. CASE UNCHANGED vars
  BY <1>8, Unseen DEF vars
<1> QED
  BY <1>1, <1>2, <1>3, <1>4, <1>5, <1>6, <1>7, <1>8 DEF Next

\* The sound of the movie is heard in the order of its frames, each from its
\* beginning to its end, and a frame's sound is dropped only when three wait.
THEOREM SoundAlwaysKept == Spec => SoundKept
<1>1. Init => Sound!Init
  <2> SUFFICES ASSUME Init PROVE Sound!Init
    OBVIOUS
  <2>1. ~Playing /\ sPcMovieFrame = 0
    BY DEF Init, Playing, NEVER, PREPARED
  <2>2. Playing = FALSE
    BY <2>1, Zenon DEF Playing
  <2>3. Pipe = <<>>
    BY <2>1 DEF Pipe
  <2> QED
    BY <2>1, <2>2, <2>3, Zenon DEF Sound!Init
<1> QED
  BY <1>1, HooksInit, HooksStep, BuffersInit, BuffersStep, SoundInit, SoundTypeStep,
     SoundStep, PTL DEF Spec, SoundKept, Sound!Spec

------------------------------------------------------------------------------
\* The types.  The idle count passes its limit by one, when the movie is taken
\* down; a movie that starts with such a count resets it in its first retrace.
Samplewise == \A b \in Buffers : audioBuffer[b].validSample \in Nat

IdleBounded ==
  Playing /\ gAttractMovieIdleFrameCount > IdleLimit
    => pc \in {"pump", "mix", "post"} /\ state = 2 /\ ~error

MenuType ==
  /\ ui \in {"title", "menu", "game", "credits"}
  /\ gAttractMovieState \in {NEVER, PREPARED, RELEASED}
  /\ gAttractMoviePreparePending \in BOOLEAN /\ gAttractMovieAutoplayEnabled \in BOOLEAN
  /\ gAttractMovieIdleFrameCount \in 0 .. IdleLimit + 1
  /\ IdleBounded

PlayerType ==
  /\ memory \in BOOLEAN /\ isOpen \in BOOLEAN /\ error \in BOOLEAN /\ retraced \in BOOLEAN
  /\ state \in {0, 2, 5} /\ internalState \in {0, 2, 5}

VideoType ==
  /\ curTextureSet \in TextureSets \cup {None} /\ sPcMovieTexture \in TextureSets
  /\ sPcMovieFrame \in 0 .. NumFrames - 1

PumpType ==
  /\ pc \in {"run", "check", "pump", "mix", "post"}
  /\ caller \in {"frame", "TitleMenu_run", "TitleMenu_initialise"}
  /\ room \in 0 .. QueueBytes /\ cnt \in 0 .. Chunk

AudioType ==
  /\ Samplewise
  /\ DOMAIN audioBuffer = Buffers
  /\ curAudioBuffer \in Buffers \cup {None}

IType == MenuType /\ PlayerType /\ VideoType /\ PumpType /\ AudioType

LEMMA TypeInit == Init => IType
<1> SUFFICES ASSUME Init PROVE IType
  OBVIOUS
<1>1. MenuType /\ PlayerType
  <2>1. ~Playing
    BY DEF Init, Playing, NEVER, PREPARED
  <2>2. 0 \in 0 .. IdleLimit + 1
    BY MovieConstants
  <2>3. MenuType
    BY <2>1, <2>2 DEF Init, MenuType, IdleBounded
  <2>4. PlayerType
    BY DEF Init, PlayerType
  <2> QED
    BY <2>3, <2>4
<1>2. VideoType /\ PumpType /\ AudioType
  BY MovieConstants DEF Init, VideoType, PumpType, AudioType, TextureSets, Samplewise
<1> QED
  BY <1>1, <1>2 DEF IType

\* A frame that is decoded leaves the buffers with numbers of samples.
LEMMA DecodeKeepsType ==
  ASSUME AudioType, ISound, NEW fq, NEW dq, NEW n \in Samples, NEW f,
         AttractMovieAudio_DecodeFramePC(fq, dq, n, f)
  PROVE  Samplewise' /\ DOMAIN audioBuffer' = Buffers
<1>1. CASE UNCHANGED audioBuffer
  BY <1>1 DEF AudioType, Samplewise
<1>2. CASE audioBuffer' = [audioBuffer EXCEPT
                            ![Received(fq)] = [validSample |-> n, frameNumber |-> f]]
  BY <1>2, MovieConstants DEF AudioType, Samplewise
<1> QED
  BY <1>1, <1>2 DEF AttractMovieAudio_DecodeFramePC

LEMMA PrepareKeepsType ==
  ASSUME IType, ISound, NEW who, n_attractmode_prepareMovie(who),
         who \in {"TitleMenu_run", "TitleMenu_initialise"}, ~Playing,
         ui' \in {"title", "menu", "game", "credits"},
         gAttractMovieAutoplayEnabled' \in BOOLEAN,
         gAttractMovieIdleFrameCount' \in 0 .. IdleLimit + 1
  PROVE  IType'
<1>1. CASE NoMovie /\ Goto(IF who = "TitleMenu_run" THEN "check" ELSE "run")
  <2>1. MenuType' /\ PlayerType'
    BY <1>1 DEF NoMovie, IType, MenuType, PlayerType, IdleBounded, Playing
  <2>2. VideoType' /\ PumpType'
    BY <1>1 DEF NoMovie, Goto, IType, VideoType, PumpType
  <2>3. AudioType'
    BY <1>1 DEF NoMovie, AudioType, Samplewise
  <2> QED
    BY <2>1, <2>2, <2>3 DEF IType
<1>2. CASE Movie /\ VIWaitForRetrace(who)
  <2>1. MenuType' /\ PlayerType'
    BY <1>2 DEF Movie, VIWaitForRetrace, IType, MenuType, PlayerType, IdleBounded
  <2>2. VideoType' /\ PumpType'
    <3>1. 1 % NumFrames \in 0 .. NumFrames - 1
      BY MovieConstants
    <3> QED
      BY <1>2, <3>1 DEF Movie, VIWaitForRetrace, IType, VideoType, PumpType, TextureSets
  <2>3. AudioType'
    <3>1. \E n \in Samples : AttractMovieAudio_DecodeFramePC(
                               InitQueuesPC(free), OSInitMessageQueue(decoded), n, 0)
      BY <1>2 DEF Movie
    <3>2. Samplewise' /\ DOMAIN audioBuffer' = Buffers
      BY <3>1, DecodeKeepsType DEF IType
    <3> QED
      BY <1>2, <3>2 DEF Movie, AudioType
  <2> QED
    BY <2>1, <2>2, <2>3 DEF IType
<1> QED
  BY <1>1, <1>2 DEF n_attractmode_prepareMovie

LEMMA ReleaseKeepsType ==
  ASSUME IType, n_attractmode_releaseMovieBuffers, VIWaitForRetrace("frame"),
         UNCHANGED <<gAttractMovieAutoplayEnabled, video, audio>>,
         ui' \in {"title", "menu", "game", "credits"},
         gAttractMovieIdleFrameCount' \in 0 .. IdleLimit + 1
  PROVE  IType'
<1> USE DEF video, audio, player, hooks
<1>1. ~Playing'
  BY DEF n_attractmode_releaseMovieBuffers, Playing, PREPARED, RELEASED
<1>2. MenuType' /\ PlayerType'
  BY <1>1, ZenonT(30) DEF n_attractmode_releaseMovieBuffers, THPPlayerStop, IType, MenuType, PlayerType,
              IdleBounded
<1>3. VideoType' /\ PumpType' /\ AudioType'
  BY DEF VIWaitForRetrace, IType, VideoType, PumpType, AudioType, Samplewise
<1> QED
  BY <1>2, <1>3 DEF IType

LEMMA TypeStep == IHooks /\ IBuffers /\ ISound /\ IType /\ [Next]_vars => IType'
<1> SUFFICES ASSUME IHooks, IBuffers, ISound, IType, [Next]_vars PROVE IType'
  OBVIOUS
<1> USE DEF menu, video, audio, player, hooks
<1>1. ASSUME UNCHANGED <<gAttractMovieState, gAttractMoviePreparePending, memory, video, audio,
                         player>>
      PROVE  /\ PlayerType' /\ VideoType' /\ AudioType'
             /\ gAttractMovieState' \in {NEVER, PREPARED, RELEASED}
             /\ gAttractMoviePreparePending' \in BOOLEAN
  BY <1>1 DEF IType, MenuType, PlayerType, VideoType, AudioType, Samplewise
<1>2. ASSUME UNCHANGED <<menu, memory, video, player>>,
             pc' = pc \/ pc' \in {"pump", "mix", "post"} \/ ~Playing
      PROVE  MenuType' /\ PlayerType' /\ VideoType'
  <2>1. IdleBounded'
    BY <1>2 DEF IType, MenuType, IdleBounded, Playing
  <2> QED
    BY <1>2, <2>1 DEF IType, MenuType, PlayerType, VideoType
<1>3. CASE TitleMenu_initialise
  <2>1. gAttractMovieIdleFrameCount' = 0 /\ ui' = "title"
        /\ gAttractMovieAutoplayEnabled' \in BOOLEAN
    BY <1>3 DEF TitleMenu_initialise
  <2>2. 0 \in 0 .. IdleLimit + 1 /\ ~(0 > IdleLimit)
    BY MovieConstants
  <2>3. CASE gAttractMovieAutoplayEnabled' /\ gAttractMovieState # PREPARED
    BY <1>3, <2>1, <2>2, <2>3, PrepareKeepsType DEF TitleMenu_initialise, Playing
  <2>4. CASE ~(gAttractMovieAutoplayEnabled' /\ gAttractMovieState # PREPARED)
    <3>1. MenuType'
      BY <1>3, <2>1, <2>2, <2>4 DEF TitleMenu_initialise, IType, MenuType, IdleBounded
    <3>2. PlayerType' /\ VideoType' /\ PumpType' /\ AudioType'
      BY <1>3, <2>4 DEF TitleMenu_initialise, Goto, IType, PlayerType, VideoType, PumpType,
                        AudioType, Samplewise
    <3> QED
      BY <3>1, <3>2 DEF IType
  <2> QED
    BY <2>3, <2>4
<1>4. CASE TitleMenu_run
  <2>1. CASE gAttractMoviePreparePending
    <3>1. ~Playing
      BY <2>1 DEF IHooks
    <3> QED
      BY <1>4, <2>1, <3>1, PrepareKeepsType DEF TitleMenu_run, IType, MenuType
  <2>2. CASE ~gAttractMoviePreparePending
    <3>1. MenuType' /\ PumpType'
      BY <1>4, <2>2 DEF TitleMenu_run, Goto, IType, MenuType, IdleBounded, Playing, PumpType
    <3>2. PlayerType' /\ VideoType' /\ AudioType'
      BY <1>1, <1>4, <2>2 DEF TitleMenu_run
    <3> QED
      BY <3>1, <3>2 DEF IType
  <2> QED
    BY <2>1, <2>2
<1>5. CASE CheckMovie
  <2>1. gAttractMovieIdleFrameCount' \in 0 .. IdleLimit + 1
    BY <1>5, MovieConstants DEF CheckMovie, IType, MenuType, IdleBounded, Playing
  <2>2. CASE gAttractMovieIdleFrameCount' > IdleLimit
    BY <1>5, <2>1, <2>2, ReleaseKeepsType DEF CheckMovie
  <2>3. CASE ~(gAttractMovieIdleFrameCount' > IdleLimit)
    <3>1. MenuType' /\ PumpType'
      BY <1>5, <2>1, <2>3 DEF CheckMovie, VIWaitForRetrace, IType, MenuType, IdleBounded,
                              PumpType
    <3>2. PlayerType' /\ VideoType' /\ AudioType'
      BY <1>1, <1>5, <2>3 DEF CheckMovie
    <3> QED
      BY <3>1, <3>2 DEF IType
  <2> QED
    BY <2>2, <2>3
<1>6. CASE Leave
  BY <1>6, ReleaseKeepsType DEF Leave, IType, MenuType
<1>7. CASE Frame \/ fhAIPump \/ Pumped
  <2>1. MenuType' /\ PlayerType' /\ VideoType'
    BY <1>2, <1>7 DEF Frame, VIWaitForRetrace, fhAIPump, Pumped, Goto
  <2>2. AudioType'
    BY <1>7 DEF Frame, fhAIPump, Pumped, IType, AudioType, Samplewise
  <2>3. PumpType'
    BY <1>7, MovieConstants
    DEF Frame, VIWaitForRetrace, fhAIPump, Pumped, Goto, IType, PumpType
  <2> QED
    BY <2>1, <2>2, <2>3 DEF IType
<1>8. CASE AttractMovieAudio_Mix
  <2>1. MenuType' /\ PlayerType' /\ VideoType'
    BY <1>2, <1>8 DEF AttractMovieAudio_Mix
  <2>2. CASE curAudioBuffer = None
    <3>1. UNCHANGED audioBuffer /\ cnt' \in {0, cnt} /\ UNCHANGED <<caller, room>>
          /\ pc' \in {"pump", "mix"}
      BY <1>8, <2>2 DEF AttractMovieAudio_Mix
    <3>2. curAudioBuffer' \in Buffers \cup {None}
      BY <1>8, MixAccounted DEF AttractMovieAudio_Mix, IBuffers, Accounted
    <3>3. PumpType' /\ AudioType'
      BY <3>1, <3>2, MovieConstants DEF IType, PumpType, AudioType, Samplewise
    <3> QED
      BY <2>1, <3>3 DEF IType
  <2>3. CASE curAudioBuffer # None
    <3> DEFINE valid == audioBuffer[curAudioBuffer].validSample
               process == IF valid >= cnt THEN cnt ELSE valid
    <3>1. /\ audioBuffer' = [audioBuffer EXCEPT ![curAudioBuffer].validSample = @ - process]
          /\ cnt' = cnt - process /\ UNCHANGED <<caller, room>>
          /\ pc' \in {"pump", "mix"}
          /\ curAudioBuffer' \in {curAudioBuffer, None}
      BY <1>8, <2>3 DEF AttractMovieAudio_Mix
    <3>2. curAudioBuffer \in Buffers /\ valid \in Nat /\ cnt \in Nat /\ cnt <= Chunk
      BY <2>3, MovieConstants DEF IType, PumpType, AudioType, Samplewise
    <3>3. process \in Nat /\ process <= valid /\ process <= cnt
      BY <3>2
    <3> HIDE DEF process
    <3>4. PumpType'
      BY <3>1, <3>2, <3>3, MovieConstants DEF IType, PumpType
    <3>5. AudioType'
      BY <3>1, <3>2, <3>3 DEF ISound, IType, AudioType, Samplewise
    <3> QED
      BY <2>1, <3>4, <3>5 DEF IType
  <2> QED
    BY <2>2, <2>3
<1>9. CASE PlayControl
  <2>1. /\ pc = "post" /\ post = "PlayControl"
        /\ UNCHANGED <<ui, gAttractMovieState, gAttractMoviePreparePending,
                       gAttractMovieAutoplayEnabled, memory>>
        /\ NotPlaying \/ BreakDown \/ PlayFrame
    BY <1>9 DEF PlayControl
  <2>2. PumpType'
    BY <1>9 DEF PlayControl, Return, IType, PumpType
  <2>3. MenuType'
    <3>1. Playing /\ isOpen
      BY <2>1 DEF IHooks
    <3>2. gAttractMovieIdleFrameCount' = gAttractMovieIdleFrameCount
            => ~(gAttractMovieIdleFrameCount > IdleLimit) \/ gAttractMovieIdleFrameCount' = 0
      BY <2>1, <3>1 DEF IType, MenuType, IdleBounded, NotPlaying, BreakDown, PlayFrame
    <3>3. gAttractMovieIdleFrameCount' \in {0, gAttractMovieIdleFrameCount}
      BY <2>1 DEF NotPlaying, BreakDown, PlayFrame
    <3> QED
      BY <2>1, <3>2, <3>3, MovieConstants DEF IType, MenuType, IdleBounded
  <2>4. PlayerType'
    BY <2>1 DEF NotPlaying, BreakDown, PlayFrame, DecodeNextMovieFramePC, IType, PlayerType
  <2>5. CASE UNCHANGED <<video, audio>>
    BY <2>2, <2>3, <2>4, <2>5 DEF IType, VideoType, AudioType, Samplewise
  <2>6. CASE PlayFrame /\ ~UNCHANGED <<video, audio>>
    <3>1. PICK n \in Samples :
            AttractMovieAudio_DecodeFramePC(free, decoded, n, sPcMovieFrame)
      BY <2>6 DEF PlayFrame, DecodeNextMovieFramePC
    <3>2. /\ sPcMovieFrame' = (sPcMovieFrame + 1) % NumFrames
          /\ UNCHANGED curAudioBuffer
          /\ \/ curTextureSet' = sPcMovieTexture
                /\ sPcMovieTexture' = (sPcMovieTexture + 1) % 3
             \/ UNCHANGED <<curTextureSet, sPcMovieTexture>>
      BY <2>6 DEF PlayFrame, DecodeNextMovieFramePC
    <3>3. AudioType'
      BY <3>1, <3>2, DecodeKeepsType DEF IType, AudioType
    <3>4. sPcMovieFrame' \in 0 .. NumFrames - 1
      BY <3>2, MovieConstants DEF ISound
    <3>5. VideoType'
      BY <3>2, <3>4 DEF IType, VideoType, TextureSets
    <3> QED
      BY <2>2, <2>3, <2>4, <3>3, <3>5 DEF IType
  <2> QED
    BY <2>1, <2>5, <2>6 DEF NotPlaying, BreakDown
<1>10. CASE gpuErrorHandler
  <2>1. ~Playing /\ UNCHANGED <<menu, memory, video, audio, player>> /\ Return
    BY <1>10 DEF gpuErrorHandler, IHooks
  <2>2. MenuType' /\ PlayerType' /\ VideoType'
    BY <1>2, <2>1
  <2>3. PumpType' /\ AudioType'
    BY <2>1 DEF Return, IType, PumpType, AudioType, Samplewise
  <2> QED
    BY <2>2, <2>3 DEF IType
<1>11. CASE UNCHANGED vars
  BY <1>11
  DEF vars, IType, MenuType, IdleBounded, Playing, PlayerType, VideoType, PumpType, AudioType,
      Samplewise
<1> QED
  BY <1>3, <1>4, <1>5, <1>6, <1>7, <1>8, <1>9, <1>10, <1>11 DEF Next

\* Every variable keeps its type; the idle count is bounded by its limit.
THEOREM TypeCorrect == Spec => []TypeOK
<1>1. IHooks /\ IType => TypeOK
  BY DEF IHooks, HooksType, IType, MenuType, PlayerType, VideoType, PumpType, AudioType, TypeOK
<1> QED
  BY <1>1, HooksInit, HooksStep, BuffersInit, BuffersStep, SoundInit, SoundTypeStep, TypeInit,
     TypeStep, PTL DEF Spec
=============================================================================
