---------------------------- MODULE DeferredFrees ----------------------------
\* The deferred frees of src/game/src/main/mm.c and the game loop that drives
\* them (gameLoop and doQueuedLoads of src/game/src/main/gameloop_main.c).  A
\* freed block stays allocated for two ticks, because the frame that is being drawn
\* may still read it.  mmAlloc and mmFree are those of HeapRegion: a block handed out
\* is one that no caller holds.  One thread runs all of it.
EXTENDS Integers, Sequences, SequencesExt

CONSTANTS Blocks,   \* blocks the heap can hand out
          Capacity  \* MM_DEFERRED_FREE_CAPACITY

ASSUME CapacityPositive == Capacity \in Nat \ {0}

VARIABLES
  pc,         \* where the game loop is
  used,       \* blocks of the heap's used slots
  held,       \* blocks callers still use
  stack,      \* gMmDeferredFreeStack
  freeDelay,  \* gMmFreeDelay
  old,        \* doQueuedLoads's local
  d,          \* mmFreeTick's place in the stack
  p,          \* the argument of the mmFreeDeferred that overflowed
  from,       \* where it was called
  loaded,     \* gGameLoopMapLoaded
  drawn       \* history: the blocks handed in while the frame that may read them is unfinished

vars == <<pc, used, held, stack, freeDelay, old, d, p, from, loaded, drawn>>

Pending == {stack[k].ptr : k \in DOMAIN stack}

\* GXFlush_: GXSetDrawSync waits for the retrace, which ends the frame.
GXFlush_ == drawn' = {}

\* waitNextFrame: it sleeps until a retrace only if more than one frame is queued.
waitNextFrame == drawn' \in {drawn, {}}

\* Mutant: the entries behind are all dropped.
DropAt_Truncates(k) == SubSeq(stack, 1, k - 1)

\* Mutant: the last entry is dropped without being moved.
DropAt_LosesLast(k) == Front(stack)

\* The entry at k is replaced by the last one, which is dropped.
DropAt(k) == Front([stack EXCEPT ![k] = Last(stack)])

\* The entry at k has `left` ticks to wait.
SetDelay(k, left) == [stack EXCEPT ![k].delay = left]

\* Where other code runs, and calls the heap; where it may have drawn with what it frees.
Drawing == {"update", "finish"}
Callers == Drawing \cup {"objflush", "unload", "load"}

Init ==
  /\ pc = "update"
  /\ used = {} /\ held = {}
  /\ stack = <<>>
  /\ freeDelay = 2 /\ old = 2
  /\ d = 1 /\ p \in Blocks /\ from = "update"
  /\ loaded = FALSE
  /\ drawn = {}

mmAlloc(b) ==
  /\ pc \in {"update", "load"}
  /\ b \notin used
  /\ used' = used \cup {b}
  /\ held' = held \cup {b}
  /\ UNCHANGED <<pc, stack, freeDelay, old, d, p, from, loaded, drawn>>

mmFree(b) == used' = used \ {b}

\* Mutant: one tick instead of two.
Push_OneTick(b) == stack' = Append(stack, [ptr |-> b, delay |-> freeDelay - 1])

Push(b) == stack' = Append(stack, [ptr |-> b, delay |-> freeDelay])

\* mm_free, when frees are not deferred.
FreeAtOnce(b) ==
  /\ pc \in Callers
  /\ b \in held /\ freeDelay = 0
  /\ held' = held \ {b}
  /\ mmFree(b)
  /\ UNCHANGED <<pc, stack, freeDelay, old, d, p, from, loaded, drawn>>

\* mmFreeDeferred with room in the stack.
mmFreeDeferred(b) ==
  /\ pc \in Callers
  /\ b \in held /\ freeDelay # 0
  /\ Len(stack) < Capacity
  /\ held' = held \ {b}
  /\ Push(b)
  /\ drawn' = IF pc \in Drawing THEN drawn \cup {b} ELSE drawn
  /\ UNCHANGED <<pc, used, freeDelay, old, d, p, from, loaded>>

\* Mutant: the stack is emptied without ending the frame.
Overflow_NoWait(b) ==
  /\ pc \in Drawing \cup {"objflush"}
  /\ b \in held /\ freeDelay # 0
  /\ Len(stack) = Capacity
  /\ held' = held \ {b}
  /\ p' = b /\ from' = pc /\ pc' = "flush"
  /\ UNCHANGED <<used, stack, freeDelay, old, d, loaded, drawn>>

\* mmFreeDeferred with a full stack: the frame is ended, and another, then the
\* stack is emptied.
Overflow(b) ==
  /\ pc \in Drawing \cup {"objflush"}
  /\ b \in held /\ freeDelay # 0
  /\ Len(stack) = Capacity
  /\ held' = held \ {b}
  /\ p' = b /\ from' = pc /\ pc' = "flush"
  /\ GXFlush_
  /\ UNCHANGED <<used, stack, freeDelay, old, d, loaded>>

FlushStep ==
  /\ pc = "flush" /\ stack # <<>>
  /\ mmFree(stack[1].ptr)
  /\ stack' = DropAt(1)
  /\ UNCHANGED <<pc, held, freeDelay, old, d, p, from, loaded, drawn>>

FlushDone ==
  /\ pc = "flush" /\ stack = <<>>
  /\ Push(p)
  /\ pc' = from
  /\ UNCHANGED <<used, held, freeDelay, old, d, p, from, loaded, drawn>>

\* Callers that want the memory back now: mmSetFreeDelay(0), mm_free and
\* mmSetFreeDelay of the saved delay (texture.c, audio.c, voxmaps.c).
FreeNow(b) ==
  /\ pc \in Drawing /\ b \in held
  /\ held' = held \ {b}
  /\ mmFree(b)
  /\ UNCHANGED <<pc, stack, freeDelay, old, d, p, from, loaded, drawn>>

------------------------------------------------------------------------------
StartTick(place) == pc' = place /\ d' = 1

\* The places mmFreeTick is called from and where each goes on.
Ticks == {"tickEnd", "tickWait", "tickPause", "tickLoad1", "tickLoad2"}
After ==
  [tickEnd |-> "loads", tickWait |-> "finish", tickPause |-> "pause",
   tickLoad1 |-> "reloading", tickLoad2 |-> "load"]

\* Mutant: the entry moved into the place of a freed one is passed over.
TickStep_SkipsMoved ==
  /\ pc \in Ticks /\ d <= Len(stack)
  /\ d' = d + 1
  /\ LET left == stack[d].delay - 1 IN
       IF left = 0
         THEN mmFree(stack[d].ptr) /\ stack' = DropAt(d)
         ELSE stack' = SetDelay(d, left) /\ UNCHANGED used
  /\ UNCHANGED <<pc, held, freeDelay, old, p, from, loaded, drawn>>

TickStep ==
  /\ pc \in Ticks /\ d <= Len(stack)
  /\ LET left == stack[d].delay - 1 IN
       IF left = 0
         THEN /\ mmFree(stack[d].ptr)
              /\ stack' = DropAt(d)
              /\ d' = d
         ELSE /\ stack' = SetDelay(d, left)
              /\ d' = d + 1
              /\ UNCHANGED used
  /\ UNCHANGED <<pc, held, freeDelay, old, p, from, loaded, drawn>>

TickDone ==
  /\ pc \in Ticks /\ d > Len(stack)
  /\ pc' = After[pc]
  /\ UNCHANGED <<used, held, stack, freeDelay, old, d, p, from, loaded, drawn>>

\* gameLoop: GXFlush_ ends the frame, the objects freed in it go, and their memory
\* with them (Obj_FlushDeferredFreeList), and the frees get older.
EndFrame ==
  /\ pc = "update"
  /\ GXFlush_
  /\ pc' = "objflush"
  /\ UNCHANGED <<used, held, stack, freeDelay, old, d, p, from, loaded>>
ObjectsFlushed ==
  /\ pc = "objflush"
  /\ StartTick("tickEnd")
  /\ UNCHANGED <<used, held, stack, freeDelay, old, p, from, loaded, drawn>>

\* Loops inside a frame that wait for a disc or a menu: waitNextFrame, a tick and
\* GXFlush_ (fileio.c, 5.c, DIM_Boss.c), or a tick, waitNextFrame and GXFlush_
\* (intersect_memcard.c, audio_stream.c).
WaitThenTick ==
  /\ pc = "update"
  /\ waitNextFrame
  /\ StartTick("tickWait")
  /\ UNCHANGED <<used, held, stack, freeDelay, old, p, from, loaded>>
TickThenWait ==
  /\ pc = "update"
  /\ StartTick("tickPause")
  /\ UNCHANGED <<used, held, stack, freeDelay, old, p, from, loaded, drawn>>
Pause ==
  /\ pc = "pause"
  /\ waitNextFrame
  /\ pc' = "finish"
  /\ UNCHANGED <<used, held, stack, freeDelay, old, d, p, from, loaded>>
Finish ==
  /\ pc = "finish"
  /\ GXFlush_
  /\ pc' = "update"
  /\ UNCHANGED <<used, held, stack, freeDelay, old, d, p, from, loaded>>

\* doQueuedLoads with nothing queued; the next frame starts with waitNextFrame.
NextFrame ==
  /\ pc = "loads"
  /\ waitNextFrame
  /\ pc' = "update"
  /\ UNCHANGED <<used, held, stack, freeDelay, old, d, p, from, loaded>>

\* doQueuedLoads: three frames, then frees are immediate.
StartLoads ==
  /\ pc = "loads"
  /\ GXFlush_
  /\ freeDelay' = 0
  /\ pc' = "unload"
  /\ UNCHANGED <<used, held, stack, old, d, p, from, loaded>>

\* The old map is gone; the delay is saved and the first tick made.
Unloaded ==
  /\ pc = "unload"
  /\ old' = freeDelay
  /\ freeDelay' = 0
  /\ StartTick("tickLoad1")
  /\ UNCHANGED <<used, held, stack, p, from, loaded, drawn>>

SecondTick ==
  /\ pc = "reloading"
  /\ StartTick("tickLoad2")
  /\ UNCHANGED <<used, held, stack, freeDelay, old, p, from, loaded, drawn>>

\* The new map is loaded and the saved delay restored; the next frame starts with
\* waitNextFrame.
Loaded ==
  /\ pc = "load"
  /\ freeDelay' = old
  /\ loaded' = TRUE
  /\ waitNextFrame
  /\ pc' = "update"
  /\ UNCHANGED <<used, held, stack, old, d, p, from>>

GameLoop ==
  \/ FlushStep \/ FlushDone
  \/ EndFrame \/ ObjectsFlushed \/ WaitThenTick \/ TickThenWait \/ Pause \/ Finish
  \/ TickStep \/ TickDone
  \/ NextFrame \/ StartLoads \/ Unloaded \/ SecondTick \/ Loaded

Next ==
  \/ \E b \in Blocks :
       \/ mmAlloc(b) \/ FreeAtOnce(b) \/ mmFreeDeferred(b)
       \/ Overflow(b) \/ FreeNow(b)
  \/ GameLoop

Spec == Init /\ [][Next]_vars
LiveSpec == Spec /\ WF_vars(GameLoop)

------------------------------------------------------------------------------
Entry == [ptr : Blocks, delay : 1..2]

\* The types, and the stack never holds more than its array.
TypeOK ==
  /\ pc \in Callers \cup Ticks \cup {"flush", "loads", "reloading", "pause"}
  /\ used \subseteq Blocks /\ held \subseteq used
  /\ stack \in Seq(Entry) /\ Len(stack) <= Capacity
  /\ freeDelay \in {0, 2} /\ old \in {0, 2}
  /\ d \in 1..(Capacity + 1) /\ p \in Blocks
  /\ from \in Drawing \cup {"objflush"}
  /\ loaded \in BOOLEAN
  /\ drawn \subseteq Blocks

\* A block that was freed but is still allocated waits in the stack exactly once,
\* whatever order entries are swapped down in: no block leaks, none is freed
\* twice and none is handed out again while it waits (mmFreeDeferred, mmFreeTick).
PendingExact ==
  /\ \A j, k \in DOMAIN stack : stack[j].ptr = stack[k].ptr => j = k
  /\ used \ held = Pending \cup (IF pc = "flush" THEN {p} ELSE {})
  /\ pc = "flush" => p \notin Pending

\* A deferred block is freed only when the frame that may have drawn with it is
\* finished, whichever loops the ticks come from, through the tick, the overflow or a
\* map load, although waitNextFrame need not wait.
FreedAfterAFrame ==
  [][\A b \in Pending : b \notin used' => b \notin drawn]_vars

\* The ticks of doQueuedLoads empty the stack whatever the ages of its entries:
\* the new map is loaded with every block freed before it back in the heap.
LoadStartsClean == pc = "load" => used = held

\* doQueuedLoads saves the delay after it has already set it to zero, so what it
\* restores is zero: from the first load on nothing is deferred.
DeferralEndsAtFirstLoad == loaded => stack = <<>> /\ freeDelay = 0

\* A deferred block is freed in the end, whatever the callers do.
EventuallyFreed ==
  \A b \in Blocks : b \in used \ held ~> b \notin used \ held
==============================================================================
