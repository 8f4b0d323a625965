------------------------------ MODULE HeapSlots ------------------------------
\* The slot table of one heap region of src/game/src/main/mm.c and the three
\* ways the allocator changes it.  A region's blocks are slots of the table,
\* linked in address order from slot 0; the slots not in use are kept on a stack
\* stored across the items' `stack` fields.  Addresses and sizes are in units of
\* 32 bytes and addresses count from the region's first block.
EXTENDS Integers, FiniteSets

CONSTANTS NumSlots, \* slots in the region's table
          Units     \* size of the region's memory

ASSUME RegionNotEmpty == NumSlots \in Nat \ {0, 1} /\ Units \in Nat \ {0}

Slots == 0..(NumSlots - 1)
None == -1          \* end of the list

\* A region: HeapItem's fields as functions of the slot, and MmRegion's counters.
Region ==
  [loc : [Slots -> Nat], size : [Slots -> Nat], type : [Slots -> {0, 1}],
   prev : [Slots -> Slots \cup {None}], next : [Slots -> Slots \cup {None}],
   stack : [Slots -> Slots], slotsUsed : 0..NumSlots, usedBytes : Int]

\* The items that a region's list holds: all but those on the stack.
Linked(h) == Slots \ {h.stack[k] : k \in h.slotsUsed..(NumSlots - 1)}
Free(h) == {i \in Linked(h) : h.type[i] = 0}
Used(h) == {i \in Linked(h) : h.type[i] = 1}

\* The slot on top of the stack.
Top(h) == h.stack[h.slotsUsed]

mmInitRegion ==
  [loc |-> [i \in Slots |-> 0],
   size |-> [i \in Slots |-> IF i = 0 THEN Units ELSE 0],
   type |-> [i \in Slots |-> 0],
   prev |-> [i \in Slots |-> None], next |-> [i \in Slots |-> None],
   stack |-> [i \in Slots |-> i], slotsUsed |-> 1, usedBytes |-> 0]

\* Block j, if there is one, now comes after block i.
Follow(prev, j, i) == IF j = None THEN prev ELSE [prev EXCEPT ![j] = i]

\* Mutant: the block that followed keeps its old `prev`.
Split_KeepsPrev(h, i, at) ==
  LET n == Top(h)
  IN [h EXCEPT
        !.loc = [@ EXCEPT ![n] = h.loc[i] + at],
        !.size = [@ EXCEPT ![n] = h.size[i] - at, ![i] = at],
        !.next = [@ EXCEPT ![n] = h.next[i], ![i] = n],
        !.prev = [@ EXCEPT ![n] = i],
        !.slotsUsed = @ + 1]

\* Block i is cut at offset `at`; what follows the cut goes to a slot taken from
\* the stack, linked after i (the common part of heapSpawnSlot and changeHeapSlot).
Split(h, i, at) ==
  LET n == Top(h)
      after == h.next[i]
  IN [h EXCEPT
        !.loc = [@ EXCEPT ![n] = h.loc[i] + at],
        !.size = [@ EXCEPT ![n] = h.size[i] - at, ![i] = at],
        !.next = [@ EXCEPT ![n] = after, ![i] = n],
        !.prev = Follow([@ EXCEPT ![n] = i], after, n),
        !.slotsUsed = @ + 1]

Mark(h, i, t) == [h EXCEPT !.type = [@ EXCEPT ![i] = t]]

\* The block is taken from the low end of free block i.
changeHeapSlot(h, i, units) ==
  IF h.size[i] > units
    THEN Mark(Mark(Split(h, i, units), Top(h), 0), i, 1)
    ELSE Mark(h, i, 1)

\* Mutant: the low end is marked used, the high end is handed out.
heapSpawnSlot_MarksLow(h, i, units) ==
  IF h.size[i] > units
    THEN Mark(Mark(Split(h, i, h.size[i] - units), Top(h), 0), i, 1)
    ELSE Mark(h, i, 1)

\* The block is taken from the high end of free block i.
heapSpawnSlot(h, i, units) ==
  IF h.size[i] > units
    THEN Mark(Split(h, i, h.size[i] - units), Top(h), 1)
    ELSE Mark(h, i, 1)

\* Block i takes in the block after it, whose slot goes back to the stack.
Absorb(h, i) ==
  LET n == h.next[i]
      after == h.next[n]
  IN [h EXCEPT
        !.size = [@ EXCEPT ![i] = h.size[i] + h.size[n]],
        !.next = [@ EXCEPT ![i] = after],
        !.prev = Follow(@, after, i),
        !.stack = [@ EXCEPT ![h.slotsUsed - 1] = n],
        !.slotsUsed = @ - 1]

MergeNext(h, i) ==
  IF h.next[i] # None /\ h.type[h.next[i]] = 0 THEN Absorb(h, i) ELSE h
MergePrev(h, i) ==
  IF h.prev[i] # None /\ h.type[h.prev[i]] = 0 THEN Absorb(h, h.prev[i]) ELSE h

\* Mutant: the block before is not merged.
heapFree_NextOnly(h, i) ==
  LET freed == [Mark(h, i, 0) EXCEPT !.usedBytes = @ - h.size[i]]
  IN MergeNext(freed, i)

\* Mutant: usedBytes loses the size of the merged block.
heapFree_AfterMerge(h, i) ==
  LET merged == MergeNext(Mark(h, i, 0), i)
  IN MergePrev([merged EXCEPT !.usedBytes = @ - merged.size[i]], i)

heapFree(h, i) ==
  LET freed == [Mark(h, i, 0) EXCEPT !.usedBytes = @ - h.size[i]]
  IN MergePrev(MergeNext(freed, i), i)

------------------------------------------------------------------------------
Disjoint(h, i, j) ==
  \/ h.loc[i] + h.size[i] <= h.loc[j]
  \/ h.loc[j] + h.size[j] <= h.loc[i]

\* Block i ends where the next one starts, and the two know each other.
LinkedRight(h, i) ==
  IF h.next[i] = None THEN h.loc[i] + h.size[i] = Units
  ELSE /\ h.next[i] \in Linked(h)
       /\ h.prev[h.next[i]] = i
       /\ h.loc[h.next[i]] = h.loc[i] + h.size[i]
LinkedLeft(h, i) ==
  IF h.prev[i] = None THEN i = 0 /\ h.loc[i] = 0
  ELSE h.prev[i] \in Linked(h) /\ h.next[h.prev[i]] = i

\* The stack holds each slot outside the list once, and slotsUsed counts the rest.
StackSound(h) ==
  /\ \A k, l \in h.slotsUsed..(NumSlots - 1) : k # l => h.stack[k] # h.stack[l]
  /\ Cardinality(Linked(h)) = h.slotsUsed

\* The blocks are in address order without gap or overlap, from the region's
\* first unit to its last.
Sound(h) ==
  /\ StackSound(h)
  /\ 0 \in Linked(h) /\ h.prev[0] = None
  /\ \A i \in Linked(h) :
       /\ h.size[i] > 0
       /\ h.loc[i] + h.size[i] <= Units
       /\ LinkedRight(h, i)
       /\ LinkedLeft(h, i)
  /\ \A i, j \in Linked(h) : i # j => Disjoint(h, i, j)

\* No two free blocks are neighbours.
Coalesced(h) ==
  \A i \in Free(h) : h.next[i] = None \/ h.type[h.next[i]] = 1
==============================================================================
