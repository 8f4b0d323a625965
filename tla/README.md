# Foxhollow: models, checks and proofs

Foxhollow runs a decompiled console game natively: the game's own code
(`game/src`) calls the console's operating system, graphics, audio and disc
functions, and a port layer (`port/src`) provides them on top of SDL, Aurora
and libcurl. The port adds native mods, a multiplayer session for them, an object
gallery and autosaves. This directory holds TLA+ models of the parts whose
correctness depends on the order in which things happen, TLC configurations that
check them on small instances, and TLAPS proofs for every instance.

Run in this directory:

    tlc -workers 2 -config MCNetSession.cfg MCNetSession
    tlapm HeapRegionProofs.tla

`PROJECT.json` lists the runs, the source lines each definition stands for, a
mutated definition that each property must reject, the hazards of the code and
the theorems. Definitions named `X_Y` with a comment `Mutant:` are those
mutations; no specification uses them.

## 1. The system

### How control flows

One thread runs the game. `src/main.c` initialises the platform and calls
`fhModsInit`, then the game's main loop. The loop never blocks: whenever the game
waits for a frame it calls the pump of `vi_shim.c`, which presents, polls window
events, runs the mods (`fhModsUpdate`, and in it the multiplayer session) and the
autosave, and, when the window was closed, shuts everything down and exits from
right there. The console's threads and blocking message queues are stubs. Only a
multiplayer connection has a thread of its own, and only its queues, under a
mutex, and one atomic flag are shared with it.

So there are three sources of interleaving: the connection's worker against the
game thread; outside events (the relay, the launcher that rewrites config files,
clocks, crashes of the process) against everything; and, inside the one thread,
callbacks - mods, the audio DMA handler, heap clients inside nested frame pumps -
that run in the middle of someone else's operation.

### Components

| Component (source) | State | Operations | Interacts with | What is hard | What must hold | Status |
|---|---|---|---|---|---|---|
| Multiplayer connection (`net/websocket_curl.cpp`, `websocket.hpp`) | event queue, outgoing queue, stop flag, worker thread, partial message and send offset | send, poll, destroy; upgrade, flush, receive, close | session above, libcurl and the relay below | thread interleavings, partial sends, fragments, destruction at any time | each message whole, once, in order; one Open, nothing after one Closed; the destructor returns | modelled, its safety proved |
| Multiplayer session (`net/session.cpp`, `update_session` in `foxhollow_mods.cpp`) | room and ticket in use, connection, players and host, backoff, fatal flag, timers | one update per frame: poll the file, expire the ticket, connect, take events, ping; shutdown | connection, relay, launcher's file, mod callbacks | retries, refused and expired tickets, re-created rooms, a bounded number of events per frame | agrees with the relay, mods agree with it, a refused target is left alone while the file holds it, attempts spaced, eventually connects | modelled, its safety proved |
| Game heap (`mm.c`) | per region a slot table with a linked list and a stack of free slots | allocate with three strategies, free with two merges | every part of the game | long sequences of splits and merges, table limits, accounting | no overlap, no leak, no two free neighbours | regions modelled and proved, the accounting too; the choice of a region is left out |
| Deferred frees and map loads (`mm.c`, `gameloop_main.c`, `pi_videoinit.c`) | stack of blocks with remaining delay, current delay | `mm_free`, `mmFreeDeferred`, `mmFreeTick`, `mmSetFreeDelay`, `doQueuedLoads` | heap, frame pump | entries moved while iterated, overflow in the middle of a free, delay saved too late | freed once, not before the frame that may read it is finished, stack empty when a map loads | modelled and proved |
| Game objects (`object.c`, `objlib.c`, `shader.c`, `FirePipe.c`, `228.c`) | the array of objects, the linked list of those that are updated, the list of freed ones, the groups | set up, free, park, put back; the passes, the unloading, the partition, the flush, the reset; join, leave and look up a group | every class of object, by callbacks; rendering; heap | callbacks change the list a pass stands on; frees inside frees; a cached partition; one array shared by all groups | the lists agree, no list, pass or parent points at memory given back, scans miss nobody and end; groups do not disturb each other | modelled in part; the safety of lists and groups proved |
| Attract movie (`n_attractmode.c`, `n_options.c`, `thp/dll_3e.c`, `menu.c`) | state of the menu, the player, queues of audio buffers, chained callbacks, buffers from the heap | prepare, release, decode, mix; the title menu and what replaces it | frame pump, audio output, message queues, heap | two callbacks inside the frame wait use memory a menu returns; queues never block | callbacks chained exactly while the movie plays, each buffer in one place, sound in order | modelled and proved |
| Mod lifecycle and patches (`foxhollow_mods.cpp`, `foxhollow_hook.cpp`) | loaded libraries, class callbacks, branches written into game functions, per-mod undo lists, config snapshots, overlays | load, replace callback, install and remove hook, update, shutdown; poll config | game's class table and code, session | several mods patching the same place, failed initialisation, undo order | nothing leads into a closed library; what mods changed is undone | patches modelled and proved; config and overlays left out |
| Object gallery (`foxhollow_gallery.c`) | catalogue, skip list, the in-flight and skip files | load the list, spawn a page, mark and clear | game objects, files | the spawn may crash the process; crash between any two file operations | an object that crashed under its mark is skipped in every later run | recovery modelled and proved; choosing and placing objects left out |
| Autosave (`foxhollow_autosave.c`) | last image, next time, snapshot and temporary file | update, write aside and rename, shutdown | save game memory, files | crash or failing write at each step | the snapshot is whole or absent; changes are retried after a failure | modelled, its safety proved |
| Frame pump and quit (`vi_shim.c`, `os_thread_shim.c`) | retrace count, callback, deadline of the next frame, quit flag | pump, limit, shut down and exit | everything | re-entrance, exit from below game code | callbacks run once a frame, shutdown once | its order is in `AttractMovie`, its exit is `fhModsShutdown` and `UserQuits`; the limiter left out |
| Message queues (`os_msg_shim.c`) | ring with first index and count | init, send, receive | the movie; audio and disc code that the port does not run | full and empty queues, wrap-around, no blocking | a bounded FIFO that loses nothing its users rely on | ring modelled in its use by the movie |
| Audio output (`ai_shim.c`, `musyx_output.c`) | DMA callback, queued bytes | pump, callback, chain | music mixer, movie | callback chained inside the pump's loop | loops end; each buffer is heard once | pump modelled in its use by the movie |
| Mod user interface (`foxhollow_ui.cpp`) | stack of open scopes, modal layer | begin and end calls, draw, abandon | mods, input | unbalanced calls by mods | every scope closed by the end of the frame | not modelled |
| Streamed music (`audio_stream.c`) | prepare, play and stop state | prepare, start, stop, cancel | disc reads, deferred frees | late completions, cancel during prepare | a stopped stream stays stopped | not modelled; its wait loop is `TickThenWait` |
| Data file loading (`pi_dolphin.c`, `fileio.c`) | resource slots and reference counts | load, reuse, release | heap, disc | counts and slot reuse | a slot is freed with its last user | not modelled |
| Save games and card, game logic DLLs, rendering and animation, port utilities, other socket back ends, vendored code and build | - | - | - | numerical, drawing, generated or third-party code, or pure I/O | - | not modelled |

`PROJECT.json` gives every component's sources and the reason for its status.

## 2. Modules

```
SocketContract  <--implements--  WebSocket        MCWebSocket, WebSocketProofs
      ^-- instantiated by --     NetSession       MCNetSession, NetSessionProofs
HeapSlots  <--extended by--      HeapRegion       MCHeapRegion, HeapRegionProofs
                                 DeferredFrees    MCDeferredFrees, DeferredFreesProofs
ObjectLifecycle <--implements--  ObjectList       MCObjectList, ObjectProofs
ObjectGroups    <--implements--  ObjectTypes      MCObjectTypes, ObjectProofs
MovieAudio      <--implements--  AttractMovie     MCAttractMovie, AttractMovieProofs
MessageQueue    <--extended by--     "
                                 ModPatches       MCModPatches, ModPatchesProofs
                                 GalleryRecovery  MCGalleryRecovery, RecoveryProofs
                                 Autosave         MCAutosave, RecoveryProofs
```

### SocketContract

The interface `WebSocket` of `websocket.hpp` as its user sees it: a phase and a
queue of events that have been produced and not polled. It is the abstract
specification of a connection, in two roles: `WebSocket` implements it, and
`NetSession` is checked against it in place of the threaded connection. The
WinHTTP and NSURLSession back ends have to keep the same contract.

### WebSocket

`CurlWebSocket`: the owner's calls (`Send`, `Poll`, `Destroy`, `Joined`), the
worker's `run` and `flush` cut at every lock, library call and read of
`mStopping`, and the relay. One action is the code between two points where the
other thread can be observed. `curl_ws_send` may take part of a message, refuse
for now or fail; `curl_ws_recv` may hand over a fragment, a close frame or an
error, or answer `CURLE_AGAIN` between any two pieces, those of one message
included, since a piece of `inbound` may still be on its way. `writable` is the
state of the socket's send buffer: nothing obliges the relay to read. A message is
a sequence of pieces rather than bytes. A Data event carries the buffer that `run`
had built, whatever pieces are in it; that it is a whole `Message(m)` of the relay is
a property and no part of the action. `Contract` maps the worker's position to the
contract's phase.

### NetSession

`session_update` with `update_session` around it. A frame is `StartUpdate` (the
owner whose callbacks are used is captured here, as in the code), `Poll...`,
`Check...`, then one `Take...` per event, and `DrainEnds` with the ping. Steps of
the relay, launcher, clocks and connection come between any two of them where
the code could observe it. Time is in ticks that pass between frames; each timer
is the number of ticks to its deadline. `told` records, per mod, what its
callbacks have told it. Not modelled: `session_send`, which is `Send` of
`WebSocket`, and the contents of payloads.

The launcher writes targets - a room, a ticket and when it expires - in any order:
the one that is there again, or one from before. The system clock, against which
tickets expire, may be set back (`ClockMoves`). A refusal counts against the target
that the session holds, as long as the file holds no other one (`refused`): after
another ticket, or another expiry for the same ticket, `poll_config` clears `sFatal`,
and a ticket that was refused before is tried again. `RefusedTargetNotRetried` is
about what the code does promise: neither a rewrite of the same content nor the
passing of time ends the refusal.

The update that leaves a room may connect to the next one and even see that connection
open, since the handshake runs on the worker's thread. It then reports the new room with
the callbacks of the mod that owned the old one. `raced` records such an update,
and `CallbacksMatchSession` says nothing from there on; the hazard is in the list.

The relay of the model describes a room it knows: it never announces the join of a
player who is there, nor one beyond `kMaxPlayers`.

### HeapSlots, HeapRegion

`HeapSlots` holds the table and its operations as functions from region to region
- `heapSpawnSlot` and `changeHeapSlot` (cut from the high and the low end of a
block), `heapFree` with `MergeNext` and `MergePrev` - with memory counted in units
of 32 bytes. That is exact: every size is rounded up to 32 and every region starts
aligned to 32, as do the 32-byte table entries of a 64-bit build. `HeapRegion`
adds `mmAllocFromRegion`'s strategies, with the table check, and `mmFree`.
`live` records what callers were given. Not modelled: `mmAlloc`'s choice of a
region, `stackCreate` and the memory stores.

### DeferredFrees

`mm_free`, `mmFreeDeferred` with the flush when its array is full, `mmFreeTick`
entry by entry (the freed entry is replaced by the last one and looked at again),
`mmSetFreeDelay` and the game loop around them: the tick at the end of a frame,
the loops that tick or wait while the disc or the card is busy (those that wait
first, in `fileio.c`, `5.c` and `DIM_Boss.c`, and those that tick first, in
`intersect_memcard.c` and `audio_stream.c`), and `doQueuedLoads`. The heap is a set
of blocks; `HeapRegion` is what makes that right.

What ends a frame is `GXFlush_`, whose `GXSetDrawSync` waits for the retrace in the
port. `waitNextFrame` need not: it sleeps only while more than one flip is queued
(`pi_videoinit.c:378`), so in the model it may leave everything as it is. `drawn` holds the
blocks handed in while the frame that may have drawn with them is unfinished, until
the next `GXFlush_`. The blocks that `Obj_FlushDeferredFreeList` frees come after
the `GXFlush_` of their frame (`objflush`): a wait loop of the next frame may free
them without another frame having been shown, which is harmless, as the frame that drew
with them is over. A block handed in during the frame always has a `GXFlush_` between
its two ticks or before them.

### ModPatches

Mods are loaded one by one (`Skip`, `load_native`, `Initialized`), may at any time
from then until their library is closed replace class callbacks and install or
remove hooks, and are closed last to first by `fhModsShutdown`. Host calls can
come from any open mod at any point, since its functions are called by the game
through what it patched - during another mod's initialisation or shutdown too. A
callback is known by the library it is in. A mod puts into a slot a function of
its own or one that an earlier call for the slot returned. `inOrder` and `foreign`
record what mods did to each other, for the properties' premises. Making a
function's page writable is assumed to succeed for a function that was hooked.

### ObjectLifecycle, ObjectList

`ObjectLifecycle` is what a class of objects may rely on: an object is set up, freed
once, and its memory given back once, never while a pass runs; from then on its
address may be handed out again. `ObjectList` is `object.c`
with `gObjList` (an array), `gObjUpdateList` (linked through the objects, as
`[head, next]`) and `gObjDeferredFreeList`. A pass (`Advance`) stands on an
object and goes on from the link that object has then; between two of its steps
callbacks set up, free, park (`Park`, `firepipe_releaseEffectObject`) and put back
objects (`ReuseEffect`). `mapLoadUnloadObjects` scans the array and frees out of
it, `ObjList_PartitionForRender` reorders it, the flush and the reset call
`objFreeObjdef`, whose callbacks free further objects: `freeing` is the stack of
those calls. `GiveBack` is `mm_free(obj)` at the end of `objFreeObjdef`: what the
record held is lost and its address can be set up again at once, as it is from the first
map load on (`DeferralEnds`); before that it takes two ticks more, which
allows fewer behaviours.

Some loops read records after that: the reset, past the end of the shortened array, and
`firepipe_free`, for effects that a flush or a reset gave back before their pipe.
The model follows both outcomes. Either the memory still has the flag that an object freed
left in it, and `Obj_FreeObject` returns; or it holds something else, and
`FreesGarbage` leads to the phase "undefined", from which the model says nothing and does
nothing. The properties hold up to there and at that moment.

Left out: `Obj_RunInitCallback`, game code that runs before its object is in a list;
the updates outside the list's cursor, of `ObjHitReact_UpdateResetObjects` and of the
player's child; what an object holds apart from its place in
the lists (models, shadows, reference counts), objects set up without flag 1, the
array's capacity of 600 and that of the riders of one carrier, 40, neither of which
the code guards.

### ObjectGroups, ObjectTypes

`ObjectGroups` is a set with a size per group. `ObjectTypes` is `objlib.c`: one
array shared by all groups, with an offset for each and a count, both bytes
(`Width`), shifted on every join and leave; `objGetObjectType`, and
`LeaveLastGroup`, which is how `objFreeObjdef` uses it. Several cursors and
`objTypeInit`'s callers are left out. Its names (`Object`, `Unused`, `TypesInit`,
`TypesNext`, `TypesSpec`) differ from those of `ObjectList`, and those of `Autosave`
from those of `GalleryRecovery`, because one module holds the proofs of both.

### MessageQueue, MovieAudio, AttractMovie

`MessageQueue` is the ring of `os_msg_shim.c` as operators on records.
`AttractMovie` is the title menu's movie: the menu DLLs that prepare and release
it, `VIWaitForRetrace` as the pump (`fhAIPump`), the mixer's loop turn by turn and
the post-retrace callback, which run inside it. Chaining is by name: `post` and
`dma` are the callbacks installed, `OldVIPostCallback` and `prevDma` what they
call first. A frame's sound is its number of samples and its frame number, so
that `MovieAudio` can say in which order frames are heard. Left out: the drawing, the
picture's decoding beyond success, a restart of the movie's file by another player.

### GalleryRecovery

The two files of `foxhollow_gallery.c` and the run of the program that writes
them: `inflight_set`, `objSetupObject` and `inflight_clear` cut at every file
operation, `skip_list_load` and what follows it at the start of a run, and
`Crash` between any two, in the object's setup or anywhere else. Files survive a
crash, variables do not. Opening, writing and removing a file may fail. `owed` and
`suspects` record which objects crashed under their mark.

### Autosave

`fhAutosaveUpdate` and `write_snapshot` call by call, the shutdown, and `Crash`.
Each call of the file system may fail; the disk survives. What the game does in
between is any change of its image, slot and load status. `stage` is the position in
`write_snapshot`; the crash is `CrashAnywhere`.

## 3. Runs

| Run | Instance | What it shows |
|---|---|---|
| `websocket` | 2 messages each way, of one piece and of two | both directions keep messages whole and in order, nothing is dropped while the connection lives (`WireExact`, `MessagesInOrder`), a worker that ends says so, every step is one of `SocketContract`, and `~CurlWebSocket` returns though the relay may never read |
| `session_safety` | 2 rooms of 2 mods, 2 players, 2 writes of the file, 2 events waiting, 2 taken per update | agreement with the relay and with the mods, ends of rooms |
| `session_live` | 1 room with 2 targets, 1 player, 3 writes, 1 event waiting, 1 taken per update, backoff from 1 to 4 | keeps trying, with attempts spaced out, follows the file, leaves a refused target alone while the file holds it, notices closures, keeps pinging |
| `heap_region` | 6 slots, 8 units, requests of 1, 33 and 96 bytes, region 0 | table and memory agree, callers own what they were given, no two free neighbours (`HeapConsistent`), exact accounting |
| `deferred_frees` | 5 blocks, an array of 3 | nothing freed twice, lost or under the frame that reads it; a load starts clean; every deferred block returns to the heap |
| `mod_patches` | 3 mods, 2 slots, 1 function, 2 callbacks per mod | nothing leads into a closed library (`PatchesLoaded`), hooks stay |
| `gallery_recovery` | 4 objects, pages of 2, one left out by the user | who crashed under its mark is left out for ever, and nobody else |
| `autosave` | 3 images, 2 slots | the file is always the last whole snapshot, and a game that stays gets into it |
| `object_list` | a carrier, a rider like the player, a pipe and two effects, three of them in memory at a time, three calls a frame | lists, scans, partition, deferred list, lifecycle; every pass, scan, flush and reset ends |
| `object_types` | 3 objects, 3 groups, a byte of 8 values, at most 7 registrations | groups are kept and lookups are right |
| `object_types_full` | the same with 8 registrations | **violated**: the limit is never reached, see below |
| `attract_movie` | a movie of 2 frames of 1 or 3 samples, chunks of 2 | callbacks, buffers, order of the sound; a broken movie is taken down |

Why these are enough to be interesting:

- WebSocket: with two messages of one and two pieces, `flush` can be between two
  parts with another message behind, and a fragment can be pending when the relay
  closes or the owner destroys.
- NetSession: two rooms of two mods make a change of room a change of owner;
  two players with `kMaxPlayers = 2` fill the room; two waiting events with two
  taken per update allow a closure both inside and after the bound; the targets have
  two tickets for a room and expiries that a clock of 0 and 1 meets.
  In `session_live` a backoff of 1, 2, 4, 4 shows doubling and the cap, and three
  writes - the one that is there at the start among them - give another target and
  then the refused one again.
  With one event taken per update there, a closure that comes while the update takes an
  event is behind the bound.
- Heap: six slots let the table fill up before eight units do, and three blocks
  in a row with both neighbours free and used in all combinations occur. 1 and 33
  bytes are the two sides of the rounding; 96 is large in region 0. The run has
  the strategies of region 0; the proofs, `UsedBytesExact` among them, cover all.
- DeferredFrees: an array of three gives a freed entry that is first, in the middle
  and last, and overflow with one more block, with others still held.
- ModPatches: three mods give a hook removed by a second and replaced by a third;
  two callbacks per mod let a mod patch a slot twice. Functions are independent of
  each other, so one is enough.
- GalleryRecovery: with two pages an object that is left out moves others to another
  page, and one left out by the user keeps the numbers from being their own ranks.
- Autosave: two images worth keeping and one that is not tell a stale file from a
  right one; the slots tell a snapshot from its image.
- ObjectList: five kinds of objects with `MaxObjects = 3` give every three of
  them: a carrier with a pipe and its effect, with a pipe and the player, a pipe with a
  full pool and one effect more. Three calls a frame free, set up again and
  park around one cursor. Three entries fill the deferred list.
- ObjectTypes: three groups are one that is changed, one before it and one behind;
  seven registrations wrap nothing, the eighth wraps a byte of eight values as the 256th
  wraps one of 256.
- AttractMovie: one sample is less than a chunk and three are more, so a buffer
  ends in a chunk and a chunk in a buffer; three buffers with a device that may take
  nothing let the decoder run out of free ones.

Bounds: `MaxOut`, `MaxIn`, `MaxWrites`, `MaxClock`, `MaxQueue`, `MaxPatches`, `MaxOps`,
`MaxObjects`, `Registrations` and the sizes of the sets. They only limit the
environment, never what the code does next. `streak` and `quiet` of `NetSession`,
histories, saturate where the property stops telling values apart.

Symmetry is used for the interchangeable slots of `ModPatches`, a run without
liveness. The heap run uses the view `Meaningful`: fields of slots on the stack and
the part of the stack below `slotsUsed` are written before they are read by every
operation and appear in no property, so states that differ there behave alike.

Deadlock is checked where the system cannot stop. A destroyed connection, a
stopped session with the environment's bounds used up and a process that has
exited do stop; and the model of the objects stops in the phase "undefined".

## 4. Fairness

- `WebSocket`: weak fairness of the worker, which is a running thread whose upgrade
  has a time limit, and of `Joined`, as `join` returns once the thread has ended. None of the
  relay, nor of the owner's calls.
- `NetSession`: weak fairness of `Update`, called by every frame, and strong
  fairness of `Tick`: time passes between frames, again and again, and a tick is not
  possible inside an update. None of the relay, the launcher or the connection: the
  liveness properties allow for a relay that says nothing. `session_live` assumes
  that the launcher's file can be read, see the hazard at `session.cpp:151`.
- `DeferredFrees`: weak fairness of the game loop, not of callers.
- `ObjectList`: weak fairness of `Engine`: callbacks return and the loops of the
  engine go on. None of what callbacks do. `FrameEnds` leaves out the frames that reached
  "undefined".
- `AttractMovie`: weak fairness of the game loop and of the pump inside it; none of
  leaving a menu. A frame of sound is assumed to have a sample (`MovieConstants`), without
  which the mixer would not end.
- `Autosave`: weak fairness of the update and of time, and strong fairness of the
  success of each file operation: a disk that is asked again and again takes the
  snapshot in the end. Without that assumption nothing could be promised.

## 5. Proofs

All theorems hold for every value of the constants allowed by the modules'
named assumptions.

- **WebSocketProofs.** `TypeCorrect`, and `ContractKept`: the specification with
  threads implements `SocketContract`. The invariant `IInv` adds that `mClosed`
  implies the worker is past its loops, which is why no data can follow a
  Closed and why pushes that `EventQueue` drops are stutters of the contract.
  `DeathReported` needs `LeavingIsReported`: the worker leaves its loops for a reason
  it has pushed, or because it was told to stop. `WireCorrect` needs `WireHolds`: the
  pieces on the wire, those of the message in hand that are still to be sent (`FlushPlace`
  says where `flush` is in it) and those of `mOutgoing` are together the pieces of what
  the owner sent, in that order, up to the moment the worker leaves its loops.
  `MessagesCorrect` is the same the other way (`InboundHolds`): of the messages that
  the relay has sent the first are, whole, the buffers delivered as events, and the pieces
  of the others are those in `message` followed by those in flight (`Reassembles`). So
  when a last fragment comes the buffer holds its message and nothing else, wherever
  `CURLE_AGAIN` came between. Concatenations are compared by induction on their
  length, over the set of the naturals for which they agree (`NaturalsReached`).
- **HeapRegionProofs.** The links are described without
  reachability: `LinkedRight` and `LinkedLeft` say that slots off the stack
  point to each other, that each block ends where its successor begins,
  and `Disjoint` that blocks do not overlap. A split
  (`SplitSound`) and a merge (`AbsorbSound`) keep this and change the blocks only as
  stated (`SplitUsed`, `AbsorbUsed`), a free leaves no two free neighbours
  (`MergeNextKeeps`, `MergePrevKeeps`), and so `IInv` - soundness, a spare slot,
  coalescing and `live` - is inductive. `EmptyIsWhole` follows: with nothing used
  and no two free neighbours there is one block. `UsedBytesAlwaysExact` counts
  the units under the blocks in use (`Counted`): blocks do not overlap, so that an allocation
  adds as many units as it charges and a free takes away as many as it credits,
  whatever a cut or a merge has made of the sizes in between.
- **DeferredFreesProofs.** `PendingExact` is inductive as it stands.
  `FreedAfterAFrame` is not: `DrawnSteps` adds where in the loop no frame is
  unfinished, and that elsewhere the blocks of the unfinished frame are the youngest
  entries, which no tick has passed yet; and `LoadSteps` how far
  `doQueuedLoads` has emptied the stack. `DeferralEndsAtFirstLoad` states a
  surprise: the delay is saved after it was set to zero, so it is never
  restored, and from the first map load on every free is immediate. `LoadStartsClean`
  holds after the first of the two ticks already: the tick at the end of the
  frame has aged every entry to one, so the second is a spare one.
- **ModPatchesProofs.** `CallbacksLoaded` is not inductive: closing a mod needs
  that the first original it recorded in a slot is not its own and that no mod
  loaded earlier recorded it. `Ordered` says so for slots patched in load
  order: originals belong to mods not later than the recording one, and a mod's first
  to an earlier one. `Loading` says that libraries not yet opened have patched nothing and
  that all are closed at exit; `SlotsRestored` follows. For hooks
  `ListsExact` says that a mod's list names a target only while it branches to the
  mod, unless mods removed each other's hooks there.

- **RecoveryProofs.** `CrashersLeftOut` of the gallery needs the invariant that whoever is
  owed is on the list in the file or still named by the mark, except while the
  list is being extended, and that the list in memory has both once it was loaded.
  `SnapshotKept` of the autosave needs to know where the image that
  `sLastImage` claims to be written is: in the file while the game runs, and in the snapshot in hand
  and then the temporary file while it is being written (`LastImageKept`,
  `InHandKept`). Every failure has to forget the claim, which is what the steps show.
- **AttractMovieProofs.** `CallbacksSound` is inductive with the type invariant and
  the positions at which a callback may run. `BuffersAccounted` needs that the two
  rings and the mixer's hand are disjoint: the ring's operations are lemmas about
  `Waiting` (`Sent`, `Got`, and others). `SoundKept` is the refinement of
  `MovieAudio`: a decoded frame is appended to the pipe, a buffer that is put back
  leaves its head, and everything else is a stutter.
- **ObjectProofs**, for `ObjectList`. The invariant `IInv` has a part for each thing
  that must not go wrong. `ArrayInv`: the array holds who is set up and not freed, once.
  `DeferInv` and `DeferredExact`: the deferred list holds who is freed and still in memory. `FreeingInv`:
  the objects inside `objFreeObjdef` are freed and in memory, each once, and a pipe is freed
  with its effects. `ParentInv` and `PoolInv`: outside the reset carriers and effects outlive
  the listed objects that name them, and effects the freed pipes too until memory is
  given back (`Takings`). `SweepInv` and
  `ResetInv`: what a scan of the array has not come to is at or behind its index.
  The linked list is described by `OrderInv` without following links. There is an order
  (`rank`) of the objects that are or, since the pass began, were in the list: the links of
  its members lead to the next member (`Ranked`), slots fall along it (`SlotOrdered`), and a
  link left behind by an object that was taken out leads forward in it and past nobody who
  was there at the start (`Passing`). An insertion opens a gap in the order (`Moved`, `Cuts`),
  a removal leaves it as it is, and a pass only goes up in it: hence `UpdatedOnce`, and
  `ScansReachEveryone` when it is over. `ChainOf` ties the order to `Chain`, by
  induction over sets of naturals. `PartitionValid` is a count: as many objects with models stand behind the pivot as
  others before it (`SidesEqual`), so that each exchange finds its partner
  and the last leaves none (`AllTaken`). `LifecycleAlwaysKept` maps each step to
  one of `ObjectLifecycle` or to a stutter, by what it does to memory and flags: nothing
  (`Kept`), or one object comes, leaves or expires. `IInv` is kept by every step but
  `FreesGarbage`; what the properties say of a state (`Promised`) holds in the state it is
  taken in, and in the one it leads to, from which no step goes on (`Stuck`). So
  `WholeInv`, one or the other, is the invariant.
  The proofs needed three things said in the model: a pipe has placement data (its
  class reads it; in `ObjectConstants`), `ChainSound` speaks of the pools of pipes that
  are set up, and the place of an insertion is named by an object there.
- **ObjectProofs**, for `ObjectTypes`. The groups divide the array (`Sound`) and hold nobody twice
  (`Once`); from both follow `LookupRight` and the refinement of `ObjectGroups`, for
  any number of groups and objects, as long as `Registrations` is less than `Width`
  and at most `ListMax`.
- **NetSessionProofs.** `ConnectionHasRoom`, `RefusalStands` and `BackoffGrows` are
  inductive with the types: while the file holds nothing but the refused target a poll
  finds nothing new, whatever its time says, and so `sFatal` stands; what is left of the
  wait and the time already passed together reach the floor. `CallbacksFollowSession`
  needs four more. `RoomTold`: a queue is a welcome and then changes, so `members` is empty
  until the welcome is sent. `OpenFirst`: no message is taken before the Open.
  `OwnerCaptured`: the owner that `update_session` captured is the room's, unless
  this update has left the room and its next connection has not been seen to open, or the
  update is the one that raced. `CallbacksKept`: until then it is that owner who was told.
  `SessionFollowsRelay` (`AgreesWithRelay`) needs that the queue leads from the room as the session has
  it to the room as the relay has it. `RoomsFold` says so with the rooms in
  between as a function of the place in the queue, none of them over-full: an event that is
  taken drops the first of them, one that the relay adds appends one.

`TypeCorrect` is proved for each of these modules, so that it appears in
no run of its own. The theorems `AlwaysASlot` and `EmptyRegionIsWhole` of the heap,
`SlotsRestored` and `CallbacksAlwaysLoaded` of the mods and `DeferralEnds` of the
deferred frees say more than the runs check.

Where an argument is by induction - the pieces of a sequence of messages, the objects on a
chain of links, the count of the misplaced - it is carried out on the set of the naturals with
the property, whose complement has no least member (`WFMin` of WellFoundedInduction), since
the library's induction rules take an operator, which the provers cannot instantiate.

Only model-checked: the liveness properties, all of them under fairness, as TLAPS has no
ENABLED: `DestructorReturns`, `KeepsTrying`, `FollowsLauncher`, `ClosedIsNoticed`,
`PingsKeepComing`, `EventuallyFreed`, `StillGameSaved`, `BrokenMovieReleased` and
`FrameEnds`. Every safety invariant, action property and refinement that a run
checks is also proved, but for the one that `object_types_full` violates.

## 6. What the models found out

One finding is a disagreement of the code with itself. `objAddObjectType` refuses a
registration at `OBJTYPE_LIST_MAX`, 256, and reports "Reached MAXTYPES!!"; but the
count it compares is a byte, which never is 256. The 256th registration wraps the count and the
offsets, and groups lose members (`object_types_full`, `NobodyPushedOut`).

Nothing in the repository says otherwise of the following, so they are no findings:

- In a slot that mods patch in another order than that of loading - a mod replacing
  a callback again after a later one did - `fhModsShutdown` leaves a callback of a
  closed library. `PatchesLoaded` carries the premise `inOrder` for that reason.
- A hook removed by another mod stays in the installer's list, and its later
  removal takes away whatever a third mod put there: the premise of `HookKept`.
- `fhHookRemove` may fail to make the page writable; `fhModsShutdown` ignores it and
  closes the library all the same. The model assumes that it succeeds.
- The free delay is saved after it was set to zero, so it is never restored: from the first map
  load on every free is immediate (`DeferralEnds`).
- A region whose first block had to be aligned up keeps its full size (`mm.c:967`);
  regions of the port start aligned. Freeing a block twice frees what now
  starts at its address (`mm.c:559`): the model's callers free what they own.
- A new connection that opens in the update that made it, after a change of room, is
  reported with the callbacks of the mod that owned the old room (`raced`).
- A refused ticket is tried again after the launcher has written another one and then the
  refused one again, if a poll came between, or another expiry for it (`session.cpp:156`).
- The reset of the object system, past the end of its shortened array, and
  `firepipe_free` of a pipe that is given back after its effects read records after
  `mm_free`. They get away with it as long as the memory still has the object's flags;
  `FreesGarbage` is what the model knows of the other case.
- The receive loop of a connection reads `mStopping` only when the socket
  would block: a relay that sends without pause keeps the destructor waiting.
  `DestructorReturns` is checked with a bounded relay.
- The file's time is remembered before the file is read, so a read that fails is
  not repeated until the file changes (`session.cpp:151`).
- The entry that fills the list of deferred objects is not counted, and the next
  one takes its place: 399 of the 400 entries are of use, and the object that was
  overwritten is never reclaimed. `DeferredExact` names the case.
- `objListAdd` to an empty list leaves the item's old link in place. It is harmless
  because removal from a list of one leaves that link at None: the lists agree.
- The engine's second list of effects (`unkEA`) is never filled, and `gObjList` and
  the riders of a carrier have capacities that nothing guards.
- A movie whose buffers cannot be allocated leaves its file open, and one whose
  file does not open is not tried again until the menu is entered anew. The sound of a
  frame that finds no free buffer is dropped (`MovieAudio`).
- The gallery removes its mark even if the object could not be added to the file, so
  that a full disk forgets the crash (the exception in `owed`); a crash in an
  object's first update, after the mark was removed, is not noticed.
- The autosave compares the image and not the slot: the same game in another slot
  is not written again.

## 7. Plan

In order of importance:

1. `ModConfig` - polling the config file by time and size, defaults, snapshots and
   the changed callbacks; what is missed when two writes look alike.
2. `UiScopes` - the stack of scopes with unbalanced mods, and its modal layer.
   `StreamedMusic` - prepare, play, stop and cancel over asynchronous reads.
3. `mmAlloc`'s fall-back over the regions on top of `HeapRegion`, resource slots and
   their reference counts, the message queues of objects.
4. Proofs: the lemmas about `Nth` and `Ranked` for the second list a new module of the
   objects would bring (the riders of a carrier), and each new module's invariant.

## 8. Not modelled

The implementation is four hundred thousand lines, nearly all of them numerical and
drawing code (rendering, animation, collision), the scripts of single objects, menus and
engine DLLs, file formats and conversions of byte order: sequential code whose results
tests reach. The models cover a small share of the lines and the parts whose correctness
depends on the order of events: what all those scripts call. Left out
for their own reasons:

- third-party libraries and generated tables; Windows' and macOS's own sockets, which
  have to keep `SocketContract` but share no code with `WebSocket`;
- the console's threads and blocking waits, stubs in the port;
- timing below a tick, memory exhaustion of the host, and the contents of messages,
  files and saves;
- objects that are set up without flag 1, and what objects hold besides their place in
  the lists: reference counts of models and files depend on data loading, which
  is not modelled;
- the mods' configuration and overlays, their user interface, streamed music, the
  audio stream's mixing and the frame limiter: see the plan.
