---------------------------- MODULE AttractMovie ----------------------------
\* The movie behind the title menu: n_attractmode.c prepares and releases it,
\* game/src/main/thp plays it.  The port has no threads for it.  A frame is
\* decoded in the post-retrace callback, its sound is mixed into the DMA buffers
\* in the DMA callback that the audio pump calls, and both run inside
\* VIWaitForRetrace (port/src/vi_shim.c), which the game calls once a frame and
\* prepareMovie calls once more.  A callback is chained in front of the one that
\* was there, and both use memory that the menu takes from the heap and returns.
EXTENDS MessageQueue, FiniteSets

CONSTANTS
  NumFrames,    \* of the movie
  Samples,      \* the counts of samples THPAudioDecode makes of a frame
  Chunk,        \* ATTRACT_MOVIE_AUDIO_DMA_SAMPLE_COUNT
  QueueBytes,   \* AI_DMA_QUEUE_BYTES, in chunks
  IdleLimit,    \* NATTRACTMODE_MOVIE_RETRACE_COUNTDOWN
  None

\* A frame without a sample would keep the mixer waiting for ever.
ASSUME MovieConstants ==
  /\ NumFrames \in Nat \ {0} /\ Chunk \in Nat \ {0}
  /\ Samples \subseteq Nat \ {0} /\ Samples # {}
  /\ QueueBytes \in Nat \ {0} /\ IdleLimit \in Nat \ {0}

Buffers == 0 .. 2     \* player->audioBuffer
TextureSets == 0 .. 2
ASSUME NoneIsNone ==
  /\ None \notin Buffers \cup TextureSets
  /\ None \notin {"movie", "musyx", "PlayControl", "gpuErrorHandler"}

\* gAttractMovieState
NEVER == 0
PREPARED == 2
RELEASED == 4

VARIABLES
  pc,               \* "run": the game; "pump", "mix", "post": in VIWaitForRetrace;
                    \* "check": TitleMenu_run, past its prepareMovie
  caller,           \* who called VIWaitForRetrace: "frame" or "TitleMenu_run"
  ui,               \* the UI DLL that runs: "title", a "menu", none in the "game"
                    \* and under the "credits"
  gAttractMovieState, gAttractMoviePreparePending, gAttractMovieIdleFrameCount,
  gAttractMovieAutoplayEnabled,
  memory,           \* gAttractMovieBuffer0 and the others are allocated
  isOpen, state, internalState, error, retraced, curTextureSet, curAudioBuffer,
  audioBuffer,      \* those of gAttractMoviePlayer
  sPcMovieFrame, sPcMovieTexture,
  free, decoded,    \* the queues of audio buffers
  post, OldVIPostCallback,   \* the post-retrace callback and what it calls first
  dma, prevDma,     \* the DMA callback and what it calls first
  room,             \* what the device takes in this pump, in chunks
  cnt               \* what of a chunk is not mixed yet

menu == <<ui, gAttractMovieState, gAttractMoviePreparePending,
          gAttractMovieIdleFrameCount, gAttractMovieAutoplayEnabled>>
video == <<sPcMovieFrame, sPcMovieTexture, curTextureSet>>
audio == <<curAudioBuffer, audioBuffer, free, decoded>>
player == <<isOpen, state, internalState, error, retraced>>
hooks == <<post, OldVIPostCallback, dma, prevDma>>
vars == <<pc, caller, menu, memory, video, audio, player, hooks, room, cnt>>

Init ==
  /\ pc = "run" /\ caller = "frame"
  /\ ui = "game" /\ gAttractMovieAutoplayEnabled = FALSE
  /\ gAttractMovieState = NEVER /\ gAttractMoviePreparePending = FALSE
  /\ gAttractMovieIdleFrameCount = 0 /\ memory = FALSE
  /\ isOpen = FALSE /\ state = 0 /\ internalState = 0 /\ error = FALSE /\ retraced = FALSE
  /\ curTextureSet = None /\ curAudioBuffer = None
  /\ audioBuffer = [b \in Buffers |-> [validSample |-> 0, frameNumber |-> 0]]
  /\ sPcMovieFrame = 0 /\ sPcMovieTexture = 0
  /\ free = Storage(3, 0) /\ decoded = Storage(3, 0)
  /\ post = "gpuErrorHandler" /\ OldVIPostCallback = None
  /\ dma \in {"musyx", None} /\ prevDma = None
  /\ room = 0 /\ cnt = 0

VIWaitForRetrace(who) ==
  /\ pc' = "pump" /\ caller' = who
  /\ room' \in 0 .. QueueBytes
  /\ UNCHANGED cnt

Return ==
  /\ pc' = IF caller = "TitleMenu_run" THEN "check" ELSE "run"
  /\ UNCHANGED <<caller, room, cnt>>

Goto(to) ==
  /\ pc' = to
  /\ UNCHANGED <<caller, room, cnt>>

------------------------------------------------------------------------------
\* Decoding.  The sound of a frame that finds no buffer is left out.
AttractMovieAudio_DecodeFramePC(fq, dq, n, frameNumber) ==
  IF Empty(fq)
  THEN free' = fq /\ decoded' = dq /\ UNCHANGED audioBuffer
  ELSE /\ free' = OSReceiveMessage(fq)
       /\ decoded' = OSSendMessage(dq, Received(fq))
       /\ audioBuffer' = [audioBuffer EXCEPT
            ![Received(fq)] = [validSample |-> n, frameNumber |-> frameNumber]]

\* Every buffer is free.
InitQueuesPC(fq) ==
  OSSendMessage(OSSendMessage(OSSendMessage(OSInitMessageQueue(fq), 0), 1), 2)

\* A picture that cannot be decoded leaves the last one on the screen.
DecodeNextMovieFramePC ==
  \/ /\ error' = TRUE
     /\ UNCHANGED <<video, audio, isOpen, state, internalState, retraced>>
  \/ /\ \E n \in Samples :
          AttractMovieAudio_DecodeFramePC(free, decoded, n, sPcMovieFrame)
     /\ sPcMovieFrame' = (sPcMovieFrame + 1) % NumFrames
     /\ \/ curTextureSet' = sPcMovieTexture /\ sPcMovieTexture' = (sPcMovieTexture + 1) % 3
        \/ UNCHANGED <<curTextureSet, sPcMovieTexture>>
     /\ UNCHANGED <<curAudioBuffer, player>>

------------------------------------------------------------------------------
\* Mutant: the post-retrace callback stays.
THPPlayerStop_Chained ==
  IF isOpen /\ state # 0
  THEN state' = 0 /\ internalState' = 0 /\ error' = FALSE /\ UNCHANGED post
  ELSE UNCHANGED <<state, internalState, error, post>>

THPPlayerStop ==
  IF isOpen /\ state # 0
  THEN state' = 0 /\ internalState' = 0 /\ error' = FALSE /\ post' = OldVIPostCallback
  ELSE UNCHANGED <<state, internalState, error, post>>

\* The movie is taken down, by whoever leaves the menu.
n_attractmode_releaseMovieBuffers ==
  IF gAttractMovieState = PREPARED
  THEN /\ THPPlayerStop
       /\ isOpen' = (isOpen /\ state' # 0)
       /\ dma' = IF prevDma # None THEN prevDma ELSE dma
       /\ memory' = FALSE
       /\ gAttractMovieState' = RELEASED
       /\ gAttractMoviePreparePending' = TRUE
       /\ UNCHANGED <<retraced, OldVIPostCallback, prevDma>>
  ELSE UNCHANGED <<player, hooks, memory, gAttractMovieState, gAttractMoviePreparePending>>

\* AttractMovieAudio_Init clears the player.  It fails when there is nobody to
\* mix with, the file may not open, the heap may be full: then there is no movie,
\* which is tried again unless it was the file.
NoMovie ==
  /\ isOpen' \in BOOLEAN
  /\ dma = None => ~isOpen'
  /\ gAttractMoviePreparePending' = (isOpen' \/ dma = None)
  /\ state' = 0 /\ internalState' = 0 /\ error' = FALSE /\ retraced' = FALSE
  /\ curTextureSet' = None /\ curAudioBuffer' = None
  /\ audioBuffer' = [b \in Buffers |-> [validSample |-> 0, frameNumber |-> 0]]
  /\ prevDma' = dma
  /\ UNCHANGED <<dma, post, OldVIPostCallback, memory, gAttractMovieState, sPcMovieFrame,
                 sPcMovieTexture, free, decoded>>

\* The movie plays.  The first frame is decoded at once (OSPanic ends the
\* program when it cannot be).
Movie ==
  /\ dma # None
  /\ prevDma' = dma /\ dma' = "movie"
  /\ OldVIPostCallback' = post /\ post' = "PlayControl"
  /\ memory' = TRUE
  /\ isOpen' = TRUE /\ state' = 2 /\ internalState' = 0 /\ error' = FALSE /\ retraced' = FALSE
  /\ \E n \in Samples :
       AttractMovieAudio_DecodeFramePC(InitQueuesPC(free), OSInitMessageQueue(decoded), n, 0)
  /\ curAudioBuffer' = None
  /\ curTextureSet' = 0 /\ sPcMovieTexture' = 1
  /\ sPcMovieFrame' = 1 % NumFrames
  /\ gAttractMovieState' = PREPARED
  /\ gAttractMoviePreparePending' = FALSE

n_attractmode_prepareMovie(who) ==
  \/ NoMovie /\ Goto(IF who = "TitleMenu_run" THEN "check" ELSE "run")
  \/ Movie /\ VIWaitForRetrace(who)

------------------------------------------------------------------------------
\* The UI DLLs.  The title menu is entered.
TitleMenu_initialise ==
  /\ pc = "run" /\ ui # "title"
  /\ ui' = "title"
  /\ gAttractMovieAutoplayEnabled' \in BOOLEAN
  /\ gAttractMovieIdleFrameCount' = 0
  /\ IF gAttractMovieAutoplayEnabled' /\ gAttractMovieState # PREPARED
     THEN n_attractmode_prepareMovie("TitleMenu_initialise")
     ELSE /\ gAttractMoviePreparePending' = FALSE
          /\ Goto("run")
          /\ UNCHANGED <<gAttractMovieState, memory, video, audio, player, hooks>>

\* It prepares the movie when it is due.
TitleMenu_run ==
  /\ pc = "run" /\ ui = "title"
  /\ UNCHANGED <<ui, gAttractMovieIdleFrameCount, gAttractMovieAutoplayEnabled>>
  /\ IF gAttractMoviePreparePending
     THEN n_attractmode_prepareMovie("TitleMenu_run")
     ELSE /\ Goto("check")
          /\ UNCHANGED <<gAttractMovieState, gAttractMoviePreparePending, memory, video,
                         audio, player, hooks>>

\* It takes down a movie that has not moved for a while, and perhaps gives way
\* to another menu.
CheckMovie ==
  /\ pc = "check"
  /\ ui' \in {"title", "menu"}
  /\ IF gAttractMovieState = PREPARED
     THEN gAttractMovieIdleFrameCount' = gAttractMovieIdleFrameCount + 1
     ELSE UNCHANGED gAttractMovieIdleFrameCount
  /\ IF gAttractMovieIdleFrameCount' > IdleLimit
     THEN n_attractmode_releaseMovieBuffers
     ELSE UNCHANGED <<player, hooks, memory, gAttractMovieState, gAttractMoviePreparePending>>
  /\ VIWaitForRetrace("frame")
  /\ UNCHANGED <<gAttractMovieAutoplayEnabled, video, audio>>

\* A game is launched from the save menu, or from the title menu when it has no
\* movie to show; or the credits begin.
Leave ==
  /\ pc = "run"
  /\ \/ ui \in {"title", "credits"} /\ ~gAttractMovieAutoplayEnabled /\ ui' = "game"
     \/ ui = "menu" /\ ui' = "game"
     \/ ui \in {"title", "menu"} /\ ui' = "credits"
  /\ n_attractmode_releaseMovieBuffers
  /\ VIWaitForRetrace("frame")
  /\ UNCHANGED <<gAttractMovieIdleFrameCount, gAttractMovieAutoplayEnabled, video, audio>>

\* A frame of anything else.
Frame ==
  /\ pc = "run" /\ ui # "title"
  /\ VIWaitForRetrace("frame")
  /\ UNCHANGED <<menu, memory, video, audio, player, hooks>>

------------------------------------------------------------------------------
\* VIWaitForRetrace pumps the audio: the device has room for so many chunks, and
\* the callback makes each.  The one that was there first is called before.
fhAIPump ==
  /\ pc = "pump" /\ room > 0
  /\ room' = room - 1
  /\ IF dma = "movie" /\ isOpen /\ internalState = 2
     THEN pc' = "mix" /\ cnt' = Chunk
     ELSE UNCHANGED <<pc, cnt>>
  /\ UNCHANGED <<caller, menu, memory, video, audio, player, hooks>>

Pumped ==
  /\ pc = "pump" /\ room = 0
  /\ Goto("post")
  /\ UNCHANGED <<menu, memory, video, audio, player, hooks>>

\* Mutant: a buffer that was heard is not given back.
PushFreeAudioBuffer_Lost(b) == free

PushFreeAudioBuffer(b) == OSSendMessage(free, b)

\* One turn of the mixer's loop: it takes the next buffer, or what the chunk
\* still lacks out of the one it has, and returns that when nothing is left.
AttractMovieAudio_Mix ==
  /\ pc = "mix"
  /\ IF curAudioBuffer = None
     THEN IF Empty(decoded)
          THEN pc' = "pump" /\ cnt' = 0 /\ UNCHANGED audio
          ELSE /\ curAudioBuffer' = Received(decoded)
               /\ decoded' = OSReceiveMessage(decoded)
               /\ UNCHANGED <<audioBuffer, free, pc, cnt>>
     ELSE LET valid == audioBuffer[curAudioBuffer].validSample
              process == IF valid >= cnt THEN cnt ELSE valid
          IN /\ audioBuffer' = [audioBuffer EXCEPT ![curAudioBuffer].validSample = @ - process]
             /\ cnt' = cnt - process
             /\ pc' = IF cnt' = 0 THEN "pump" ELSE pc
             /\ IF process = valid
                THEN /\ free' = PushFreeAudioBuffer(curAudioBuffer)
                     /\ curAudioBuffer' = None
                ELSE UNCHANGED <<free, curAudioBuffer>>
             /\ UNCHANGED decoded
  /\ UNCHANGED <<caller, room, menu, memory, video, player, hooks>>

\* The post-retrace callback, after the one that was there first.
NotPlaying ==
  /\ ~isOpen \/ state # 2
  /\ UNCHANGED <<gAttractMovieIdleFrameCount, video, audio, player>>

\* Mutant: the player is not told, and every frame is another try.
BreakDown_Retried ==
  /\ isOpen /\ state = 2 /\ error
  /\ gAttractMovieIdleFrameCount' = 0
  /\ UNCHANGED <<video, audio, player>>

BreakDown ==
  /\ isOpen /\ state = 2 /\ error
  /\ state' = 5 /\ internalState' = 5
  /\ UNCHANGED <<gAttractMovieIdleFrameCount, video, audio, isOpen, error, retraced>>

PlayFrame ==
  /\ isOpen /\ state = 2 /\ ~error
  /\ gAttractMovieIdleFrameCount' = 0
  /\ \/ /\ ~retraced
        /\ retraced' = TRUE /\ internalState' = 2
        /\ UNCHANGED <<video, audio, isOpen, state, error>>
     \/ retraced /\ DecodeNextMovieFramePC
     \/ retraced /\ UNCHANGED <<video, audio, player>>

PlayControl ==
  /\ pc = "post" /\ post = "PlayControl"
  /\ NotPlaying \/ BreakDown \/ PlayFrame
  /\ Return
  /\ UNCHANGED <<ui, gAttractMovieState, gAttractMoviePreparePending,
                 gAttractMovieAutoplayEnabled, memory, hooks>>

gpuErrorHandler ==
  /\ pc = "post" /\ post = "gpuErrorHandler"
  /\ Return
  /\ UNCHANGED <<menu, memory, video, audio, player, hooks>>

Next ==
  \/ TitleMenu_initialise \/ TitleMenu_run \/ CheckMovie \/ Leave \/ Frame
  \/ fhAIPump \/ Pumped \/ AttractMovieAudio_Mix \/ PlayControl \/ gpuErrorHandler

\* The game loop goes on.
Spec ==
  /\ Init /\ [][Next]_vars
  /\ WF_vars(TitleMenu_run \/ CheckMovie \/ Frame \/ fhAIPump \/ Pumped
             \/ AttractMovieAudio_Mix \/ PlayControl \/ gpuErrorHandler)

------------------------------------------------------------------------------
TypeOK ==
  /\ pc \in {"run", "check", "pump", "mix", "post"}
  /\ caller \in {"frame", "TitleMenu_run", "TitleMenu_initialise"}
  /\ ui \in {"title", "menu", "game", "credits"}
  /\ gAttractMovieState \in {NEVER, PREPARED, RELEASED}
  /\ gAttractMovieIdleFrameCount \in 0 .. IdleLimit + 1
  /\ {gAttractMoviePreparePending, gAttractMovieAutoplayEnabled, memory, isOpen, error,
      retraced} \subseteq BOOLEAN
  /\ state \in {0, 2, 5} /\ internalState \in {0, 2, 5}
  /\ curTextureSet \in TextureSets \cup {None} /\ sPcMovieTexture \in TextureSets
  /\ curAudioBuffer \in Buffers \cup {None}
  /\ sPcMovieFrame \in 0 .. NumFrames - 1
  /\ DOMAIN audioBuffer = Buffers
  /\ post \in {"gpuErrorHandler", "PlayControl"}
  /\ dma \in {"musyx", "movie", None} /\ prevDma \in {"musyx", None}
  /\ room \in 0 .. QueueBytes /\ cnt \in 0 .. Chunk

\* The sound of the movie is what it promises to be: what is in the mixer's hand
\* and then what is decoded is the sound still to be heard.
Playing == gAttractMovieState = PREPARED
Held == IF curAudioBuffer = None THEN <<>> ELSE <<curAudioBuffer>>
ToHear == Held \o Waiting(decoded)
Pipe ==
  IF Playing THEN [i \in 1 .. Len(ToHear) |-> audioBuffer[ToHear[i]].frameNumber]
  ELSE <<>>
Sound ==
  INSTANCE MovieAudio WITH
    NumBuffers <- 3, playing <- Playing, next <- sPcMovieFrame, pipe <- Pipe
SoundKept == Sound!Spec

\* While the movie plays, each of its buffers is in one place: free, waiting to
\* be heard or with the mixer; so nobody decodes into a buffer that is being
\* heard, and no send meets a full queue.
Content(mq) == {Waiting(mq)[i] : i \in DOMAIN Waiting(mq)}
BuffersAccounted ==
  Playing =>
    /\ Content(free) \cup Content(decoded) \cup ({curAudioBuffer} \ {None}) = Buffers
    /\ free.usedCount + decoded.usedCount + Len(Held) = 3

\* The two callbacks are chained while the movie plays and only then, and nobody
\* is chained to himself; what they and the drawing use is there as long as they
\* may run; and a frame is decoded into another picture than the one shown.
CallbacksSound ==
  /\ Playing <=> post = "PlayControl"
  /\ Playing <=> dma = "movie"
  /\ Playing => memory /\ isOpen /\ curTextureSet # None
  /\ memory => Playing
  /\ OldVIPostCallback # "PlayControl" /\ prevDma # "movie"
  /\ Playing => curTextureSet # sPcMovieTexture
  /\ ui \in {"game", "credits"} => ~Playing

\* A movie that has broken down is taken down, unless the title menu is left.
BrokenMovieReleased ==
  (Playing /\ error) ~> (~Playing \/ ui # "title")
==============================================================================
