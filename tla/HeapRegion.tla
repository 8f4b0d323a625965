------------------------------ MODULE HeapRegion ------------------------------
\* One heap region of src/game/src/main/mm.c under any sequence of allocations
\* and frees: mmAllocFromRegion chooses a block and mmFree finds one.
EXTENDS HeapSlots

CONSTANTS Region0,     \* the region is region 0, which has its own strategies
          SmallUnits,  \* region 0: a request of at most this many units is small
          Requests     \* sizes in bytes asked for

ASSUME RequestsPositive ==
  Region0 \in BOOLEAN /\ SmallUnits \in Nat /\ Requests \subseteq Nat \ {0}

VARIABLES heap,  \* the region
          live   \* history: the blocks given to callers, as <<loc, size>>

vars == <<heap, live>>

\* A request in bytes, rounded up to 32.
RoundUp(bytes) == (bytes + 31) \div 32

Fitting(units) == {i \in Free(heap) : heap.size[i] >= units}

\* Best fit, the first met when walking the list up (regions 1 to 3) or down
\* (region 0, small requests); large requests of region 0 take the first fit.
BestUp(i, units) ==
  /\ i \in Fitting(units)
  /\ \A j \in Fitting(units) \ {i} :
       \/ heap.size[i] < heap.size[j]
       \/ heap.size[i] = heap.size[j] /\ heap.loc[i] < heap.loc[j]
BestDown(i, units) ==
  /\ i \in Fitting(units)
  /\ \A j \in Fitting(units) \ {i} :
       \/ heap.size[i] < heap.size[j]
       \/ heap.size[i] = heap.size[j] /\ heap.loc[i] > heap.loc[j]
FirstUp(i, units) ==
  /\ i \in Fitting(units)
  /\ \A j \in Fitting(units) : heap.loc[i] <= heap.loc[j]

TableFull == heap.slotsUsed + 1 = NumSlots
Charged(h, units) == [h EXCEPT !.usedBytes = @ + units]

Init ==
  /\ heap = mmInitRegion
  /\ live = {}

\* mmAllocFromRegion of a small request in region 0: the high end of a block.
AllocHigh(bytes) ==
  LET units == RoundUp(bytes) IN
  /\ ~TableFull
  /\ Region0 /\ units <= SmallUnits
  /\ \E i \in Slots :
       /\ BestDown(i, units)
       /\ heap' = heapSpawnSlot(Charged(heap, units), i, units)
       /\ live' = live \cup {<<heap.loc[i] + heap.size[i] - units, units>>}

\* mmAllocFromRegion otherwise: the low end of a block.
AllocLow(bytes) ==
  LET units == RoundUp(bytes) IN
  /\ ~TableFull
  /\ ~(Region0 /\ units <= SmallUnits)
  /\ \E i \in Slots :
       /\ IF Region0 THEN FirstUp(i, units) ELSE BestUp(i, units)
       /\ heap' = changeHeapSlot(Charged(heap, units), i, units)
       /\ live' = live \cup {<<heap.loc[i], units>>}

\* mmFree of a block's address.
mmFree(p) ==
  \E i \in Linked(heap) :
    /\ heap.loc[i] = p
    /\ heap.type[i] = 1
    /\ heap' = heapFree(heap, i)
    /\ live' = {b \in live : b[1] # p}

Next ==
  \/ \E bytes \in Requests : AllocHigh(bytes) \/ AllocLow(bytes)
  \/ \E p \in 0..(Units - 1) : mmFree(p)

Spec == Init /\ [][Next]_vars

------------------------------------------------------------------------------
\* The region's record has its type and callers hold non-empty blocks within
\* the region (mmAllocFromRegion rounds sizes up).
TypeOK == heap \in Region /\ live \subseteq (0..(Units - 1)) \X (1..Units)

\* The table describes the region: its blocks cover it from end to end without
\* overlap and no slot is both in the list and on the stack (heapSpawnSlot,
\* changeHeapSlot and heapFree keep every link).
HeapSound == Sound(heap)

\* heapFree merges with both neighbours, so free memory is never left in two
\* adjacent pieces, in whatever order the blocks are freed.
HeapCoalesced == Coalesced(heap)

\* The blocks callers hold are exactly the used blocks of the table, at the
\* sizes they asked for: no two callers share memory.
LiveIsUsed == live = {<<heap.loc[i], heap.size[i]>> : i \in Used(heap)}

\* All three: whatever was allocated and freed in whatever order, the table is the
\* truth about the memory and about who owns it.
HeapConsistent == HeapSound /\ HeapCoalesced /\ LiveIsUsed

\* A slot stays spare: the table check lets every split find a slot.
SlotToSpare == heap.slotsUsed \in 1..(NumSlots - 1)

\* usedBytes, which mmAllocFromRegion charges at the request and heapFree credits
\* at the block's size, is always the memory that callers hold, so that the
\* corruption check never fires.
UnitsOf(blocks) == UNION {b[1]..(b[1] + b[2] - 1) : b \in blocks}
UsedBytesExact ==
  /\ heap.usedBytes = Cardinality(UnitsOf(live))
  /\ heap.usedBytes \in 0..Units

\* When everything has been freed the region is one free block again, held by
\* slot 0 with the others back on the stack.
EmptyIsWhole ==
  live = {} => heap.slotsUsed = 1 /\ heap.size[0] = Units /\ heap.next[0] = None
===============================================================================
