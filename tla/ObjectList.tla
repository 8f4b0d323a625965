----------------------------- MODULE ObjectList -----------------------------
\* The objects of src/game/src/main/object.c: gObjList, the array every scan of
\* the objects reads; gObjUpdateList, the linked list the update and the
\* hit-detection pass walk while the callbacks they call set up, free, park and
\* put back objects; and gObjDeferredFreeList, which keeps the memory of a freed
\* object until the frame is over.  With it the engine code that scans the
\* objects (the unloading of shader.c, the partition for rendering), the reset of
\* the object system and the one class that takes objects out of the update list
\* and puts them back (627_FirePipe.c with its effects, 228.c).
\* Every object here is set up with flag 1, which enters it in the lists.
EXTENDS Naturals, Sequences, SequencesExt, FiniteSets, FiniteSetsExt

CONSTANTS
  Obj,          \* addresses of object records
  None,         \* the null pointer
  Slot,         \* activeHitboxMode of the object at an address
  Carriers,     \* objects with OBJDEF_FLAG_HITBOX_GROUP: others may ride on them
  Placed,       \* objects that keep placementData: the player has none
  HasModels,    \* objects with OBJDEF_FLAG_HAS_MODELS
  Pipes,        \* fire pipes
  Effects,      \* what they emit
  PoolSize,     \* effectObjs of a pipe: 8
  DeferredCap,  \* OBJ_DEFERRED_FREE_CAPACITY
  MaxOps,       \* bound: calls that game code makes in a frame
  MaxObjects    \* bound: objects in memory at once

ASSUME ObjectConstants ==
  /\ None \notin Obj /\ IsFiniteSet(Obj)
  /\ Slot \in [Obj -> Nat]
  /\ Carriers \cup Placed \cup HasModels \cup Pipes \cup Effects \subseteq Obj
  /\ Pipes \cap Effects = {} /\ Pipes \subseteq Placed
  /\ DeferredCap \in Nat \ {0} /\ PoolSize \in Nat
  /\ MaxOps \in Nat /\ MaxObjects \in Nat

VARIABLES
  mem,         \* the memory of an object: "absent" or "live"
  freed,       \* objects with OBJECT_FLAG_FREED
  parent,      \* anim.parent
  gObjList, gObjCount,
  gObjUpdateList,        \* [head, next]: the list, and anim.next of each object
  gObjPartitionPivot,
  gObjDeferredFreeList, gObjDeferredFreeCount,
  gObjDefCaptureMode,    \* 2: frees are deferred; 0: they are immediate
  pool, active,          \* effectObjs; effects with FIREPIPE_OBJFLAG_ACTIVE
  phase,       \* where the frame is; "undefined": a record was read that is no object
  cursor,      \* the object a pass is at
  running,     \* whether its callback runs
  i, n,        \* the index and the local count of a scan of an array
  freeing,     \* objects inside objFreeObjdef, the innermost last
  ops,
  present, visited,  \* history: objects a scan found at its start, and reached
  overflowed         \* history: whether the deferred list was ever full

lists == <<gObjList, gObjCount, gObjUpdateList, gObjPartitionPivot>>
deferred == <<gObjDeferredFreeList, gObjDeferredFreeCount, overflowed>>
pools == <<pool, active>>
scan == <<cursor, running, i, n, present, visited>>
vars == <<mem, freed, parent, lists, deferred, gObjDefCaptureMode, pools,
          phase, scan, freeing, ops>>

Indices == 0 .. (Cardinality(Obj) - 1)
Listed == {gObjList[k] : k \in 0 .. (gObjCount - 1)}
Waiting == {gObjDeferredFreeList[k] : k \in 0 .. (gObjDeferredFreeCount - 1)} \ {None}
Live == {o \in Obj : mem[o] = "live"}

\* The k-th object from the head of an update list, None past its end.
Nth(list) ==
  LET at[k \in Nat] ==
        IF k = 0 THEN list.head
        ELSE IF at[k - 1] = None THEN None ELSE list.next[at[k - 1]]
  IN  at
Chain(list) == {Nth(list)[k] : k \in Indices} \ {None}

------------------------------------------------------------------------------
\* Mutant: the item is linked to itself, as in a ring.
objList_remove_SelfLinks(list, o) ==
  IF list.head = o
    THEN [head |-> list.next[o], next |-> [list.next EXCEPT ![o] = o]]
    ELSE [list EXCEPT !.next =
            [p \in Obj |-> IF p = o THEN o
                           ELSE IF p \in Chain(list) /\ list.next[p] = o
                             THEN list.next[o] ELSE list.next[p]]]

\* modelEngine.c.  The item keeps its own link, so that a pass that is at it can
\* go on.
objList_remove(list, o) ==
  IF list.head = o
    THEN [list EXCEPT !.head = list.next[o]]
    ELSE [list EXCEPT !.next =
            [p \in Obj |-> IF p \in Chain(list) /\ list.next[p] = o
                             THEN list.next[o] ELSE list.next[p]]]

\* The first object of an empty list keeps the link it has.
objListAdd(list, prev, o) ==
  CASE list.head = None -> [list EXCEPT !.head = o]
    [] list.head # None /\ prev = None ->
         [head |-> o, next |-> [list.next EXCEPT ![o] = list.head]]
    [] OTHER -> [list EXCEPT !.next[o] = list.next[prev], !.next[prev] = o]

\* Behind the objects of higher slots, before those of the same.
Obj_InsertIntoUpdateList(list, o) ==
  LET at == Nth(list)
      k == CHOOSE k \in 0 .. Cardinality(Obj) :
             /\ at[k] = None \/ Slot[o] >= Slot[at[k]]
             /\ \A j \in 0 .. (k - 1) : at[j] # None /\ Slot[o] < Slot[at[j]]
  IN  objListAdd(list, IF k = 0 THEN None ELSE at[k - 1], o)

Init ==
  /\ mem = [o \in Obj |-> "absent"]
  /\ freed = {}
  /\ parent = [o \in Obj |-> None]
  /\ gObjList = [k \in Indices |-> None] /\ gObjCount = 0
  /\ gObjUpdateList = [head |-> None, next |-> [o \in Obj |-> None]]
  /\ gObjPartitionPivot = 0
  /\ gObjDeferredFreeList = [k \in 0 .. (DeferredCap - 1) |-> None]
  /\ gObjDeferredFreeCount = 0 /\ overflowed = FALSE
  /\ gObjDefCaptureMode = 2
  /\ pool = [m \in Pipes |-> <<>>] /\ active = {}
  /\ phase = "game"
  /\ cursor = None /\ running = FALSE
  /\ i = 0 /\ n = 0 /\ present = {} /\ visited = {}
  /\ freeing = <<>> /\ ops = 0

------------------------------------------------------------------------------
\* Taken out of gObjList, the ones behind move up.  What is left past the end is
\* kept only while the reset reads it.
Unlisted(o) ==
  LET at == CHOOSE k \in 0 .. (gObjCount - 1) : gObjList[k] = o
  IN  [k \in Indices |->
         CASE k < at \/ k >= gObjCount -> gObjList[k]
           [] k >= at /\ k < gObjCount - 1 -> gObjList[k + 1]
           [] OTHER -> IF phase = "resetFree" THEN gObjList[k] ELSE None]

\* Mutant: the partition is not marked stale.
Unlist_KeepsPivot(o) ==
  /\ freed' = freed \cup {o}
  /\ gObjList' = Unlisted(o)
  /\ gObjCount' = gObjCount - 1
  /\ gObjUpdateList' = objList_remove(gObjUpdateList, o)
  /\ UNCHANGED gObjPartitionPivot

\* The part of Obj_FreeObject that comes first, for an object not freed yet.
Unlist(o) ==
  /\ freed' = freed \cup {o}
  /\ gObjList' = Unlisted(o)
  /\ gObjCount' = gObjCount - 1
  /\ gObjUpdateList' = objList_remove(gObjUpdateList, o)
  /\ gObjPartitionPivot' = 0

\* Then the object waits for the end of the frame.  The entry that fills the
\* list is not counted: the next one takes its place.
Defer(o) ==
  /\ gObjDeferredFreeList' = [gObjDeferredFreeList EXCEPT ![gObjDeferredFreeCount] = o]
  /\ LET full == gObjDeferredFreeCount + 1 = DeferredCap IN
       /\ gObjDeferredFreeCount' = IF full THEN gObjDeferredFreeCount ELSE gObjDeferredFreeCount + 1
       /\ overflowed' = (overflowed \/ full)

\* Obj_FreeObject outside the reset.
FreeLater(o) ==
  /\ Unlist(o)
  /\ IF o \in Waiting THEN UNCHANGED deferred ELSE Defer(o)

\* Where game code runs: outside the scans, and in the callbacks of a pass.
MayCall ==
  /\ ops < MaxOps
  /\ phase \in {"game", "late"} \/ running

\* The same, but for the callbacks of pipes and effects, which do what is said of
\* them below and nothing else.
OtherCode == MayCall /\ ~(running /\ cursor \in Pipes \cup Effects)

Called == ops' = ops + 1 /\ UNCHANGED <<gObjDefCaptureMode, phase, scan, freeing>>

\* loadCharacter and Obj_RegisterObject.
Register(o, par) ==
  /\ mem[o] = "absent" /\ Cardinality({p \in Obj : mem[p] # "absent"}) < MaxObjects
  /\ mem' = [mem EXCEPT ![o] = "live"]
  /\ parent' = [parent EXCEPT ![o] = par]
  /\ gObjList' = [gObjList EXCEPT ![gObjCount] = o]
  /\ gObjCount' = gObjCount + 1
  /\ gObjUpdateList' = Obj_InsertIntoUpdateList(gObjUpdateList, o)
  /\ gObjPartitionPivot' = IF o \in HasModels THEN 0 ELSE gObjPartitionPivot
  /\ UNCHANGED <<freed, deferred>>

objSetupObject(o, par) ==
  /\ OtherCode
  /\ o \notin Effects
  /\ Register(o, par)
  /\ Called /\ UNCHANGED pools

\* Mutant: an object that finds the deferred list full is freed at once.
Obj_FreeObject_AtOnceWhenFull(o) ==
  /\ OtherCode
  /\ o \in (Live \ freed) \ Effects
  /\ IF gObjDeferredFreeCount + 1 = DeferredCap
       THEN Unlist(o) /\ mem' = [mem EXCEPT ![o] = "absent"] /\ UNCHANGED deferred
       ELSE FreeLater(o) /\ UNCHANGED mem
  /\ Called /\ UNCHANGED <<parent, pools>>

\* Game code frees what it has a pointer to.  Nothing but its pipe points at an
\* effect, and its setup keeps the unloading away from it.
Obj_FreeObject(o) ==
  /\ OtherCode
  /\ o \in (Live \ freed) \ Effects
  /\ FreeLater(o)
  /\ Called /\ UNCHANGED <<mem, parent, pools>>

\* An update callback takes its own object out of the passes for good.
Park ==
  /\ OtherCode /\ phase = "update"
  /\ gObjUpdateList' = objList_remove(gObjUpdateList, cursor)
  /\ Called
  /\ UNCHANGED <<mem, freed, parent, gObjList, gObjCount, gObjPartitionPivot, deferred, pools>>

InPool(m) == {pool[m][k] : k \in DOMAIN pool[m]}

\* firepipe_spawnEffectObject: the first effect of the pool that is not in use
\* is put back into the update list.
ReuseEffect(m) ==
  /\ MayCall /\ phase = "update" /\ cursor = m
  /\ \E e \in InPool(m) \ active :
       /\ pool[m][SelectInSeq(pool[m], LAMBDA x : x \notin active)] = e
       /\ active' = active \cup {e}
       /\ gObjUpdateList' = Obj_InsertIntoUpdateList(gObjUpdateList, e)
  /\ Called
  /\ UNCHANGED <<mem, freed, parent, gObjList, gObjCount, gObjPartitionPivot, deferred, pool>>

\* All are in use: a new one, which joins the pool if there is room.
NewEffect(m, e) ==
  /\ MayCall /\ phase = "update" /\ cursor = m
  /\ e \in Effects
  /\ InPool(m) \subseteq active
  /\ Register(e, parent[m])
  /\ IF Len(pool[m]) # PoolSize
       THEN pool' = [pool EXCEPT ![m] = Append(@, e)] /\ active' = active \cup {e}
       ELSE UNCHANGED pools
  /\ Called

\* Mutant: the effect stays in use when its time is over.
firepipe_releaseEffectObject_StaysActive ==
  /\ MayCall /\ phase = "update" /\ cursor \in Effects
  /\ IF cursor \in active
       THEN /\ gObjUpdateList' = objList_remove(gObjUpdateList, cursor)
            /\ UNCHANGED <<freed, gObjList, gObjCount, gObjPartitionPivot, deferred>>
       ELSE FreeLater(cursor)
  /\ running' = FALSE /\ ops' = ops + 1
  /\ UNCHANGED <<mem, parent, pools, gObjDefCaptureMode, phase, cursor, i, n, present,
                 visited, freeing>>

\* An effect whose time is over leaves the update list, or is freed if the pool
\* had no room for it; its callback returns.
firepipe_releaseEffectObject ==
  /\ MayCall /\ phase = "update" /\ cursor \in Effects
  /\ IF cursor \in active
       THEN /\ gObjUpdateList' = objList_remove(gObjUpdateList, cursor)
            /\ active' = active \ {cursor}
            /\ UNCHANGED <<freed, gObjList, gObjCount, gObjPartitionPivot, deferred>>
       ELSE FreeLater(cursor) /\ UNCHANGED active
  /\ running' = FALSE /\ ops' = ops + 1
  /\ UNCHANGED <<mem, parent, pool, gObjDefCaptureMode, phase, cursor, i, n, present,
                 visited, freeing>>

------------------------------------------------------------------------------
\* The passes of Obj_UpdateAllObjects.
StartPass(which) ==
  /\ phase' = which
  /\ cursor' = gObjUpdateList.head
  /\ running' = (gObjUpdateList.head # None)
  /\ present' = Chain(gObjUpdateList)
  /\ visited' = {gObjUpdateList.head} \ {None}
  /\ UNCHANGED <<mem, freed, parent, lists, deferred, gObjDefCaptureMode, pools,
                 i, n, freeing, ops>>

\* Mutant: a pass whose object has left the list goes on from the head.
Advance_Restarts ==
  /\ phase \in {"update", "hit"} /\ cursor # None
  /\ LET o == IF cursor \in Chain(gObjUpdateList)
                THEN gObjUpdateList.next[cursor] ELSE gObjUpdateList.head
     IN  /\ cursor' = o
         /\ running' = (o # None /\ (phase = "update" => o \notin freed))
         /\ visited' = visited \cup ({o} \ {None})
  /\ UNCHANGED <<mem, freed, parent, lists, deferred, gObjDefCaptureMode, pools,
                 phase, i, n, present, freeing, ops>>

\* The callback is over and the pass goes on from the link its object has now.
\* Obj_UpdateObject skips an object that was freed; the hit pass does not.
Advance ==
  /\ phase \in {"update", "hit"} /\ cursor # None
  /\ LET o == gObjUpdateList.next[cursor] IN
       /\ cursor' = o
       /\ running' = (o # None /\ (phase = "update" => o \notin freed))
       /\ visited' = visited \cup ({o} \ {None})
  /\ UNCHANGED <<mem, freed, parent, lists, deferred, gObjDefCaptureMode, pools,
                 phase, i, n, present, freeing, ops>>

StartUpdate == phase = "game" /\ StartPass("update")
StartHit == phase = "update" /\ cursor = None /\ StartPass("hit")

\* The passes are over (while time is stopped, after the first).
ToLate ==
  /\ phase' = "late"
  /\ present' = {} /\ visited' = {} /\ i' = 0 /\ n' = 0
  /\ UNCHANGED <<mem, freed, parent, lists, deferred, gObjDefCaptureMode, pools,
                 cursor, running, freeing, ops>>
EndPasses == phase \in {"update", "hit"} /\ cursor = None /\ ToLate

\* mapLoadUnloadObjects scans gObjList, after the passes.
StartSweep ==
  /\ phase \in {"update", "hit"} /\ cursor = None
  /\ phase' = "sweep"
  /\ i' = 0 /\ n' = gObjCount
  /\ present' = Listed /\ visited' = {}
  /\ UNCHANGED <<mem, freed, parent, lists, deferred, gObjDefCaptureMode, pools,
                 cursor, running, freeing, ops>>

SweepKeep ==
  /\ phase = "sweep" /\ i < n
  /\ i' = i + 1
  /\ visited' = visited \cup {gObjList[i]}
  /\ UNCHANGED <<mem, freed, parent, lists, deferred, gObjDefCaptureMode, pools,
                 phase, cursor, running, n, present, freeing, ops>>

\* Mutant: the index moves on past the object that takes the place.
SweepUnload_Skips ==
  /\ phase = "sweep" /\ i < n /\ ops < MaxOps
  /\ gObjList[i] \notin Effects
  /\ FreeLater(gObjList[i])
  /\ i' = i + 1 /\ n' = n - 1 /\ ops' = ops + 1
  /\ UNCHANGED <<mem, parent, gObjDefCaptureMode, pools, phase, cursor, running,
                 present, visited, freeing>>

SweepUnload ==
  /\ phase = "sweep" /\ i < n /\ ops < MaxOps
  /\ gObjList[i] \notin Effects
  /\ FreeLater(gObjList[i])
  /\ n' = n - 1 /\ ops' = ops + 1
  /\ UNCHANGED <<mem, parent, gObjDefCaptureMode, pools, phase, cursor, running, i,
                 present, visited, freeing>>

EndSweep == phase = "sweep" /\ i >= n /\ ToLate

\* ObjList_PartitionForRender: from both ends, an object without models is
\* swapped with one that has them, until the two meet.
Misplaced(m, k) == (k < m) # (gObjList[k] \in HasModels)
Partner(m, k) ==
  LET rank(j) == IF j < m THEN Cardinality({h \in 0 .. j : Misplaced(m, h)})
                 ELSE Cardinality({h \in j .. (gObjCount - 1) : Misplaced(m, h)})
  IN  CHOOSE j \in 0 .. (gObjCount - 1) :
        Misplaced(m, j) /\ (j < m) # (k < m) /\ rank(j) = rank(k)
ObjList_PartitionForRender ==
  /\ phase = "late" /\ gObjPartitionPivot = 0
  /\ LET m == Cardinality(Listed \cap HasModels) IN
       /\ gObjList' = [k \in Indices |->
                         IF k < gObjCount /\ Misplaced(m, k) THEN gObjList[Partner(m, k)]
                         ELSE gObjList[k]]
       /\ gObjPartitionPivot' = m
  /\ UNCHANGED <<mem, freed, parent, gObjCount, gObjUpdateList, deferred,
                 gObjDefCaptureMode, pools, phase, scan, freeing, ops>>

------------------------------------------------------------------------------
\* objFreeObjdef.  A record of `freeing` is one call: the objects its callback or
\* the loop over the riders still has to free, and whether that loop was reached.
Call(o, todo) == [obj |-> o, todo |-> todo, riders |-> FALSE]

\* What the class's free callback frees: a pipe its effects, another object at
\* most one object it points to.  The loop that is under way may have given back
\* the memory of either.  No free callback sets up an object.
Frees(o) ==
  IF o \in Pipes THEN {pool[o]}
  ELSE {<<>>} \cup {<<c>> : c \in IF ops < MaxOps THEN Obj \ (freed \cup Effects \cup {o}) ELSE {}}

Begin(o, calls) ==
  \E todo \in Frees(o) :
    /\ freeing' = Append(calls, Call(o, todo))
    /\ ops' = IF o \in Pipes THEN ops ELSE ops + Len(todo)

InFree == freeing # <<>> /\ phase # "undefined"
Top == Last(freeing)
PopTodo == [freeing EXCEPT ![Len(freeing)].todo = Tail(@)]

\* The callback calls Obj_FreeObject: nothing, if the object was freed already,
\* or if its memory was given back and still holds the flag.
FreeNext ==
  /\ InFree /\ Top.todo # <<>>
  /\ LET o == Head(Top.todo) IN
       \/ /\ o \notin Live \ freed
          /\ freeing' = PopTodo
          /\ UNCHANGED <<freed, lists, deferred, ops>>
       \/ /\ o \in Live \ freed /\ gObjDefCaptureMode = 2
          /\ FreeLater(o)
          /\ freeing' = PopTodo
          /\ UNCHANGED ops
       \/ /\ o \in Live \ freed /\ gObjDefCaptureMode = 0
          /\ Unlist(o)
          /\ Begin(o, PopTodo)
          /\ UNCHANGED deferred
  /\ UNCHANGED <<mem, parent, gObjDefCaptureMode, pools, phase, scan>>

\* The objects at some indices of the array, in its order.
InArrayOrder(indices) ==
  LET place(k) == Cardinality({h \in indices : h <= k})
  IN  [j \in 1 .. Cardinality(indices) |-> gObjList[CHOOSE k \in indices : place(k) = j]]

\* Mutant: the riders are freed, but left pointing at the carrier.
FreeRiders_KeepsParent ==
  /\ InFree /\ Top.todo = <<>>
  /\ Top.obj \in Carriers /\ ~Top.riders /\ gObjDefCaptureMode = 2
  /\ LET go == {k \in 0 .. (gObjCount - 1) :
                  parent[gObjList[k]] = Top.obj /\ gObjList[k] \in Placed}
     IN  freeing' = [freeing EXCEPT ![Len(freeing)].riders = TRUE,
                                    ![Len(freeing)].todo = InArrayOrder(go)]
  /\ UNCHANGED <<mem, freed, parent, lists, deferred, gObjDefCaptureMode, pools,
                 phase, scan, ops>>

\* The listed objects that ride on a carrier are let go, and those that keep
\* placement data are freed with it.
FreeRiders ==
  /\ InFree /\ Top.todo = <<>>
  /\ Top.obj \in Carriers /\ ~Top.riders /\ gObjDefCaptureMode = 2
  /\ LET rides(o) == o \in Listed /\ parent[o] = Top.obj
         go == {k \in 0 .. (gObjCount - 1) : rides(gObjList[k]) /\ gObjList[k] \in Placed}
     IN  /\ freeing' = [freeing EXCEPT ![Len(freeing)].riders = TRUE,
                                       ![Len(freeing)].todo = InArrayOrder(go)]
         /\ parent' = [o \in Obj |-> IF rides(o) THEN None ELSE parent[o]]
  /\ UNCHANGED <<mem, freed, lists, deferred, gObjDefCaptureMode, pools, phase, scan, ops>>

\* mm_free(obj): what the record held is lost, and its address can be handed out
\* at once; while gMmFreeDelay is 2, two ticks later.
GiveBack(o) ==
  /\ mem' = [mem EXCEPT ![o] = "absent"]
  /\ freed' = freed \ {o}
  /\ active' = active \ {o}
  /\ parent' = [parent EXCEPT ![o] = None]
  /\ gObjUpdateList' = [gObjUpdateList EXCEPT !.next[o] = None]
  /\ pool' = [m \in Pipes |-> IF m = o THEN <<>> ELSE pool[m]]

\* Mutant: the entry of the deferred list is not cleared.
Reclaim_KeepsEntry ==
  /\ InFree /\ Top.todo = <<>>
  /\ Top.riders \/ Top.obj \notin Carriers \/ gObjDefCaptureMode = 0
  /\ GiveBack(Top.obj)
  /\ freeing' = Front(freeing)
  /\ i' = IF phase = "resetFree" THEN i ELSE i + 1
  /\ UNCHANGED <<gObjList, gObjCount, gObjPartitionPivot, deferred, gObjDefCaptureMode,
                 phase, cursor, running, n, present, visited, ops>>

\* The memory goes; a loop over the deferred list clears its entry and goes on.
Reclaim ==
  /\ InFree /\ Top.todo = <<>>
  /\ Top.riders \/ Top.obj \notin Carriers \/ gObjDefCaptureMode = 0
  /\ GiveBack(Top.obj)
  /\ freeing' = Front(freeing)
  /\ IF phase = "resetFree"
       THEN UNCHANGED <<gObjDeferredFreeList, i>>
       ELSE gObjDeferredFreeList' = [gObjDeferredFreeList EXCEPT ![i] = None] /\ i' = i + 1
  /\ UNCHANGED <<gObjList, gObjCount, gObjPartitionPivot, gObjDeferredFreeCount, overflowed,
                 gObjDefCaptureMode, phase, cursor, running, n, present, visited, ops>>

\* The loop over the deferred list, at the end of a frame and in the reset.
Flush(why) ==
  /\ phase' = why
  /\ i' = 0
  /\ UNCHANGED <<mem, freed, parent, lists, deferred, gObjDefCaptureMode, pools,
                 cursor, running, n, present, visited, freeing, ops>>
Obj_FlushDeferredFreeList == phase = "late" /\ Flush("flush")
Obj_ResetObjectSystem == phase = "game" /\ Flush("resetFlush")

FlushNext ==
  /\ phase \in {"flush", "resetFlush"} /\ freeing = <<>>
  /\ i < gObjDeferredFreeCount
  /\ Begin(gObjDeferredFreeList[i], <<>>)
  /\ UNCHANGED <<mem, freed, parent, lists, deferred, gObjDefCaptureMode, pools, phase, scan>>

\* The frame ends with mmFreeTick.
FlushEnd ==
  /\ phase = "flush" /\ freeing = <<>> /\ i >= gObjDeferredFreeCount
  /\ gObjDeferredFreeCount' = 0
  /\ phase' = "game" /\ i' = 0 /\ ops' = 0
  /\ UNCHANGED <<mem, freed, parent, lists, gObjDeferredFreeList, overflowed,
                 gObjDefCaptureMode, pools, cursor, running, n, present, visited, freeing>>

\* The rest of the reset: every object left is freed at once, from the last one.
ResetFlushed ==
  /\ phase = "resetFlush" /\ freeing = <<>> /\ i >= gObjDeferredFreeCount
  /\ gObjDeferredFreeCount' = 0
  /\ gObjDefCaptureMode' = 0
  /\ phase' = "resetFree" /\ i' = gObjCount
  /\ UNCHANGED <<mem, freed, parent, lists, gObjDeferredFreeList, overflowed, pools,
                 cursor, running, n, present, visited, freeing, ops>>

\* A callback may have freed objects further down: what is then read past the end
\* of the list is the record of an object given back.
ResetNext ==
  /\ phase = "resetFree" /\ freeing = <<>> /\ i > 0
  /\ i' = i - 1
  /\ LET o == gObjList[i - 1] IN
       \/ o \notin Live \ freed /\ UNCHANGED <<freed, lists, freeing, ops>>
       \/ o \in Live \ freed /\ Unlist(o) /\ Begin(o, <<>>)
  /\ UNCHANGED <<mem, parent, deferred, gObjDefCaptureMode, pools, phase, cursor,
                 running, n, present, visited>>

ResetEnd ==
  /\ phase = "resetFree" /\ freeing = <<>> /\ i = 0
  /\ gObjDefCaptureMode' = 2
  /\ gObjCount' = 0 /\ gObjDeferredFreeCount' = 0 /\ gObjPartitionPivot' = 0
  /\ gObjList' = [k \in Indices |-> None]
  /\ gObjUpdateList' = [gObjUpdateList EXCEPT !.head = None]
  /\ phase' = "game"
  /\ UNCHANGED <<mem, freed, parent, gObjDeferredFreeList, overflowed, pools, scan,
                 freeing, ops>>

\* What Obj_FreeObject reads in a record given back may be anything by now.  If
\* FREED is not in it, the call writes into it and frees what it points to:
\* nothing is known from here.
FreesGarbage ==
  /\ \/ InFree /\ Top.todo # <<>> /\ Head(Top.todo) \notin Live
     \/ phase = "resetFree" /\ freeing = <<>> /\ i > 0 /\ gObjList[i - 1] \notin Live
  /\ phase' = "undefined"
  /\ UNCHANGED <<mem, freed, parent, lists, deferred, gObjDefCaptureMode, pools, scan,
                 freeing, ops>>

------------------------------------------------------------------------------
Callbacks ==
  \/ \E o \in Obj :
       \/ \E par \in {None} \cup (Carriers \cap Live) : objSetupObject(o, par)
       \/ Obj_FreeObject(o)
  \/ Park
  \/ \E m \in Pipes : ReuseEffect(m) \/ \E e \in Effects : NewEffect(m, e)
  \/ firepipe_releaseEffectObject

Engine ==
  \/ StartUpdate \/ Advance \/ StartHit \/ EndPasses
  \/ StartSweep \/ SweepKeep \/ SweepUnload \/ EndSweep
  \/ Obj_FlushDeferredFreeList \/ FlushNext \/ FlushEnd
  \/ FreeNext \/ FreeRiders \/ Reclaim
  \/ ResetFlushed \/ ResetNext \/ ResetEnd \/ FreesGarbage

Next == Callbacks \/ Engine \/ ObjList_PartitionForRender \/ Obj_ResetObjectSystem

Spec == Init /\ [][Next]_vars

\* Callbacks return and the loops of the engine go on.
LiveSpec == Spec /\ WF_vars(Engine)

------------------------------------------------------------------------------
TypeOK ==
  /\ mem \in [Obj -> {"absent", "live"}]
  /\ freed \subseteq Obj
  /\ parent \in [Obj -> Obj \cup {None}]
  /\ gObjList \in [Indices -> Obj \cup {None}]
  /\ gObjCount \in 0 .. Cardinality(Obj)
  /\ gObjUpdateList \in [head : Obj \cup {None}, next : [Obj -> Obj \cup {None}]]
  /\ gObjPartitionPivot \in 0 .. gObjCount
  /\ gObjDeferredFreeList \in [0 .. (DeferredCap - 1) -> Obj \cup {None}]
  /\ gObjDeferredFreeCount \in 0 .. (DeferredCap - 1)
  /\ active \subseteq Effects
  /\ cursor \in Obj \cup {None}

\* The array holds the objects that were set up and not freed, each once.
ArraySound ==
  /\ Listed = Live \ freed
  /\ Cardinality(Listed) = gObjCount

\* The linked list ends, is ordered by slot and holds none but objects of the
\* array; an effect in the pool of a pipe is in it exactly while it is in use.
ChainSound ==
  /\ Nth(gObjUpdateList)[gObjCount] = None
  /\ Chain(gObjUpdateList) \subseteq Listed
  /\ \A o \in Chain(gObjUpdateList) :
       gObjUpdateList.next[o] # None => Slot[o] >= Slot[gObjUpdateList.next[o]]
  /\ \A m \in Pipes \cap Listed : \A e \in InPool(m) \cap Listed :
       e \in Chain(gObjUpdateList) <=> e \in active

\* The two lists of objects stay well formed and agree with each other and with
\* what is set up, whoever sets up, frees, parks and puts back objects while a
\* scan is under way.
ListsAgree == TypeOK /\ ArraySound /\ ChainSound

\* No list, pass, pool or listed object points at an object whose memory was given
\* back, and objFreeObjdef is in none: Obj_FreeObject, objFreeObjdef and the flush
\* leave no such pointer.  (The reset frees all objects in the order of the array
\* and lets go of none; the pool of a freed pipe may hold effects given back.)
NothingReclaimedInUse ==
  /\ Chain(gObjUpdateList) \cup Waiting \subseteq Live
  /\ {freeing[k].obj : k \in DOMAIN freeing} \subseteq Live
  /\ phase \in {"update", "hit"} => cursor \in Live \cup {None}
  /\ phase \notin {"resetFree", "undefined"} =>
       /\ {parent[o] : o \in Listed} \subseteq Live \cup {None}
       /\ \A m \in Pipes \cap Listed : InPool(m) \subseteq Live

\* The freed objects still in memory are those the deferred list counts and those
\* inside objFreeObjdef: as long as the list was never filled, none is lost.
DeferredExact ==
  ~overflowed => freed \cap Live = Waiting \cup {freeing[k].obj : k \in DOMAIN freeing}

\* A partition that is kept from frame to frame still divides the list: the
\* objects with models come first (ObjList_PartitionForRender, lightmap.c).
PartitionValid ==
  gObjPartitionPivot # 0 =>
    \A k \in 0 .. (gObjCount - 1) : k < gObjPartitionPivot <=> gObjList[k] \in HasModels

\* A scan reaches every object that was there at its start and still is at its
\* end, however many were taken out under it: the two passes, the unloading, and
\* the reset, which leaves no object.
ScansReachEveryone ==
  /\ phase \in {"update", "hit"} /\ cursor = None =>
       present \cap Chain(gObjUpdateList) \subseteq visited
  /\ phase = "sweep" /\ i >= n => present \cap Listed \subseteq visited
  /\ phase = "resetFree" /\ i = 0 /\ freeing = <<>> => gObjCount = 0

\* A pass comes to an object once, although callbacks may take the object it is
\* at out of the list and put others back in front of it.
UpdatedOnce ==
  [][phase' = phase /\ phase \in {"update", "hit"} /\ cursor' # cursor
       => cursor' \notin visited]_vars

\* The object system keeps what ObjectLifecycle promises: memory is given back of
\* freed objects only, once, and never under a pass.
Life ==
  [o \in Obj |-> IF mem[o] = "live" /\ o \in freed THEN "freed" ELSE mem[o]]
Lifecycle == INSTANCE ObjectLifecycle WITH
  life <- Life, inPass <- phase \in {"update", "hit"}
KeepsLifecycle == Lifecycle!Spec

\* Every pass, scan and flush comes to its end, but for one that took a record
\* given back for an object.
FrameEnds == phase # "game" ~> phase \in {"game", "undefined"}
=============================================================================
