---------------------------- MODULE MCHeapRegion ----------------------------
EXTENDS HeapRegion

\* The fields of slots on the stack, and the part of the stack below slotsUsed,
\* are written before they are read: states that differ only there are one.
Meaningful ==
  <<[i \in Linked(heap) |->
       <<heap.loc[i], heap.size[i], heap.type[i], heap.prev[i], heap.next[i]>>],
    [k \in heap.slotsUsed..(NumSlots - 1) |-> heap.stack[k]],
    heap.usedBytes, live>>
=============================================================================
