-------------------------- MODULE HeapRegionProofs --------------------------
\* What the operations of HeapSlots do to a sound region, and the invariants of
\* HeapRegion, for every table, every region size and every set of requests.
\* IInv is inductive: the blocks callers hold are the used blocks of a sound,
\* coalesced table that has a slot to spare.
EXTENDS HeapRegion, FiniteSetTheorems, TLAPS

\* The types of a region's fields.
LEMMA FieldTypes ==
  ASSUME NEW h \in Region
  PROVE  /\ h.loc \in [Slots -> Nat] /\ h.size \in [Slots -> Nat]
         /\ h.type \in [Slots -> {0, 1}]
         /\ h.prev \in [Slots -> Slots \cup {None}]
         /\ h.next \in [Slots -> Slots \cup {None}]
         /\ h.stack \in [Slots -> Slots]
         /\ h.slotsUsed \in 0..NumSlots /\ h.usedBytes \in Int
BY DEF Region

\* A table with a spare slot has one on top of its stack.
LEMMA TopIsSlot ==
  ASSUME NEW h \in Region, h.slotsUsed \in 1..(NumSlots - 1)
  PROVE  Top(h) \in Slots
<1>1. h.slotsUsed \in Slots
  BY RegionNotEmpty DEF Slots
<1> QED
  BY <1>1, FieldTypes DEF Top

\* A split yields a region when each field has its type.
LEMMA SplitForm ==
  ASSUME NEW h \in Region, NEW i \in Slots, NEW at \in Nat,
         NEW g, g = Split(h, i, at),
         g.loc \in [Slots -> Nat], g.size \in [Slots -> Nat],
         g.type \in [Slots -> {0, 1}],
         g.prev \in [Slots -> Slots \cup {None}],
         g.next \in [Slots -> Slots \cup {None}],
         g.stack \in [Slots -> Slots],
         g.slotsUsed \in 0..NumSlots, g.usedBytes \in Int
  PROVE  g \in Region
BY DEF Split, Region

\* The slot taken from the stack joins the list.
LEMMA SplitLinked ==
  ASSUME NEW h \in Region, NEW i \in Slots, NEW at \in Nat,
         h.slotsUsed \in 1..(NumSlots - 1), StackSound(h)
  PROVE  /\ Top(h) \notin Linked(h)
         /\ Linked(Split(h, i, at)) = Linked(h) \cup {Top(h)}
         /\ StackSound(Split(h, i, at))
<1> DEFINE n == Top(h)
           g == Split(h, i, at)
<1>1. n \in Slots /\ g.stack = h.stack /\ g.slotsUsed = h.slotsUsed + 1
  <2>1. n \in Slots
    BY TopIsSlot
  <2>2. g.stack = h.stack
    BY DEF Split, Region
  <2>3. g.slotsUsed = h.slotsUsed + 1
    BY DEF Split, Region
  <2> QED BY <2>1, <2>2, <2>3
<1> HIDE DEF g
<1>2. h.slotsUsed \in h.slotsUsed..(NumSlots - 1)
  BY RegionNotEmpty
<1>3. n \notin Linked(h)
  BY <1>1, <1>2 DEF Linked, Top
<1>4. Linked(g) = Linked(h) \cup {n}
  <2>1. \A k \in h.slotsUsed..(NumSlots - 1) :
          k = h.slotsUsed \/ k \in (h.slotsUsed + 1)..(NumSlots - 1)
    BY RegionNotEmpty
  <2>2. \A k \in (h.slotsUsed + 1)..(NumSlots - 1) :
          k \in h.slotsUsed..(NumSlots - 1) /\ k # h.slotsUsed
    BY RegionNotEmpty
  <2> QED
    BY <1>1, <1>2, <2>1, <2>2 DEF Linked, StackSound, Top
<1>5. Cardinality(Linked(g)) = Cardinality(Linked(h)) + 1
  <2>1. IsFiniteSet(Slots)
    BY FS_Interval, RegionNotEmpty DEF Slots
  <2>2. IsFiniteSet(Linked(h))
    BY <2>1, FS_Subset DEF Linked
  <2> QED
    BY <1>3, <1>4, <2>2, FS_AddElement
<1>6. \A k, l \in g.slotsUsed..(NumSlots - 1) : k # l => g.stack[k] # g.stack[l]
  BY <1>1, RegionNotEmpty DEF StackSound
<1>7. StackSound(g)
  BY <1>1, <1>5, <1>6 DEF StackSound
<1> QED
  BY <1>3, <1>4, <1>7 DEF g

\* What a split leaves in each slot.
LEMMA SplitAt ==
  ASSUME NEW h \in Region, NEW i \in Slots, NEW at \in Nat, i \in Linked(h),
         h.slotsUsed \in 1..(NumSlots - 1), StackSound(h), at < h.size[i]
  PROVE  /\ Split(h, i, at) \in Region
         /\ Split(h, i, at).loc[Top(h)] = h.loc[i] + at
         /\ Split(h, i, at).size[Top(h)] = h.size[i] - at
         /\ Split(h, i, at).size[i] = at
         /\ Split(h, i, at).next[Top(h)] = h.next[i]
         /\ Split(h, i, at).next[i] = Top(h)
         /\ Split(h, i, at).prev[Top(h)] = i \/ h.next[i] = Top(h)
         /\ h.next[i] # None => Split(h, i, at).prev[h.next[i]] = Top(h)
         /\ \A j \in Slots : j # Top(h) => Split(h, i, at).loc[j] = h.loc[j]
         /\ \A j \in Slots : j \notin {Top(h), i} =>
               /\ Split(h, i, at).size[j] = h.size[j]
               /\ Split(h, i, at).next[j] = h.next[j]
         /\ \A j \in Slots : j \notin {Top(h), h.next[i]} =>
               Split(h, i, at).prev[j] = h.prev[j]
<1> DEFINE n == Top(h)
           g == Split(h, i, at)
<1>1. n \in Slots /\ i \in Slots /\ i # n
  BY SplitLinked, TopIsSlot DEF Linked
<1>2. /\ g.loc = [h.loc EXCEPT ![n] = h.loc[i] + at]
      /\ g.size = [h.size EXCEPT ![n] = h.size[i] - at, ![i] = at]
      /\ g.next = [h.next EXCEPT ![n] = h.next[i], ![i] = n]
      /\ g.stack = h.stack /\ g.type = h.type
      /\ g.slotsUsed = h.slotsUsed + 1 /\ g.usedBytes = h.usedBytes
  <2>1. g.loc = [h.loc EXCEPT ![n] = h.loc[i] + at]
    BY DEF Split, Region
  <2>2. g.size = [h.size EXCEPT ![n] = h.size[i] - at, ![i] = at]
    BY DEF Split, Region
  <2>3. g.next = [h.next EXCEPT ![n] = h.next[i], ![i] = n]
    BY DEF Split, Region
  <2>4. /\ g.stack = h.stack /\ g.type = h.type
        /\ g.slotsUsed = h.slotsUsed + 1 /\ g.usedBytes = h.usedBytes
    BY DEF Split, Region
  <2> QED BY <2>1, <2>2, <2>3, <2>4
<1>3. g.prev = Follow([h.prev EXCEPT ![n] = i], h.next[i], n)
  BY <1>1 DEF Split, Region
<1>4. h.next[i] \in Slots \cup {None} /\ None \notin Slots
  <2>1. h.next \in [Slots -> Slots \cup {None}]
    BY FieldTypes
  <2>2. None \notin Slots
    BY DEF Slots, None
  <2> QED BY <2>1, <2>2, <1>1
<1>5. /\ g.prev \in [Slots -> Slots \cup {None}]
      /\ g.prev[n] = i \/ h.next[i] = n
      /\ h.next[i] # None => g.prev[h.next[i]] = n
      /\ \A j \in Slots : j \notin {n, h.next[i]} => g.prev[j] = h.prev[j]
  <2> HIDE DEF g, n
  <2>1. h.prev \in [Slots -> Slots \cup {None}]
    BY FieldTypes
  <2>2. CASE h.next[i] = None
    BY <2>1, <2>2, <1>1, <1>3 DEF Follow
  <2>3. CASE h.next[i] # None
    <3>1. h.next[i] \in Slots /\ g.prev = [h.prev EXCEPT ![n] = i, ![h.next[i]] = n]
      BY <2>3, <1>3, <1>4 DEF Follow
    <3> QED BY <2>1, <3>1, <1>1
  <2> QED BY <2>2, <2>3
<1>6. /\ g.loc \in [Slots -> Nat] /\ g.size \in [Slots -> Nat]
      /\ g.next \in [Slots -> Slots \cup {None}]
      /\ g.slotsUsed \in 0..NumSlots
  <2> HIDE DEF g, n
  <2>1. h.loc[i] + at \in Nat /\ h.size[i] - at \in Nat
    BY <1>1, FieldTypes
  <2>2. h.slotsUsed + 1 \in 0..NumSlots
    BY RegionNotEmpty
  <2>3. h.loc \in [Slots -> Nat] /\ h.size \in [Slots -> Nat]
        /\ h.next \in [Slots -> Slots \cup {None}]
    BY FieldTypes
  <2> QED BY <2>1, <2>2, <2>3, <1>1, <1>2, <1>4
<1>8. g \in Region
  <2>1. /\ g.type \in [Slots -> {0, 1}] /\ g.stack \in [Slots -> Slots]
        /\ g.usedBytes \in Int
    <3> HIDE DEF g
    <3> QED BY <1>2, FieldTypes
  <2> QED BY <2>1, <1>1, <1>5, <1>6, SplitForm
<1>9. /\ g.loc[n] = h.loc[i] + at
      /\ g.size[n] = h.size[i] - at /\ g.size[i] = at
      /\ g.next[n] = h.next[i] /\ g.next[i] = n
      /\ \A j \in Slots : j # n => g.loc[j] = h.loc[j]
      /\ \A j \in Slots : j \notin {n, i} =>
            g.size[j] = h.size[j] /\ g.next[j] = h.next[j]
  <2> HIDE DEF g, n
  <2> QED BY <1>1, <1>2, FieldTypes
<1> QED
  BY <1>5, <1>8, <1>9

\* A split keeps the region sound.
LEMMA SplitSound ==
  ASSUME NEW h \in Region, NEW i \in Linked(h), NEW at \in Nat \ {0},
         h.slotsUsed \in 1..(NumSlots - 1), Sound(h), at < h.size[i]
  PROVE  Sound(Split(h, i, at))
<1> DEFINE n == Top(h)
           g == Split(h, i, at)
<1>1. /\ n \in Slots /\ n \notin Linked(h) /\ Linked(h) \subseteq Slots
      /\ Linked(g) = Linked(h) \cup {n} /\ StackSound(g)
  BY SplitLinked, TopIsSlot DEF Linked, Sound
<1>2. h.next[i] # None => h.next[i] \in Linked(h)
  BY DEF Sound, LinkedRight
<1>3. /\ g \in Region
      /\ g.loc[n] = h.loc[i] + at
      /\ g.size[n] = h.size[i] - at /\ g.size[i] = at
      /\ g.next[n] = h.next[i] /\ g.next[i] = n
      /\ g.prev[n] = i
      /\ h.next[i] # None => g.prev[h.next[i]] = n
      /\ \A j \in Linked(h) : g.loc[j] = h.loc[j]
      /\ \A j \in Linked(h) : j # i => g.size[j] = h.size[j] /\ g.next[j] = h.next[j]
      /\ \A j \in Linked(h) : j # h.next[i] => g.prev[j] = h.prev[j]
  <2>1. StackSound(h) /\ at \in Nat
    BY DEF Sound
  <2>2. None \notin Slots
    BY DEF Slots, None
  <2>3. i \in Slots
    BY <1>1
  <2> QED
    BY <1>1, <1>2, <2>1, <2>2, <2>3, SplitAt
<1> HIDE DEF g, n
<1>4. /\ \A j \in Linked(h) : h.loc[j] \in Nat /\ h.size[j] \in Nat
  BY <1>1, FieldTypes
<1>5. \A j \in Linked(h) :
        /\ h.size[j] > 0 /\ h.loc[j] + h.size[j] <= Units
        /\ LinkedRight(h, j) /\ LinkedLeft(h, j)
  BY DEF Sound
<1>6. \A j \in Linked(g) : g.size[j] > 0 /\ g.loc[j] + g.size[j] <= Units
  BY <1>1, <1>3, <1>4, <1>5, RegionNotEmpty
<1>7. ASSUME NEW j \in Linked(g) PROVE LinkedRight(g, j)
  <2>1. CASE j = n
    BY <2>1, <1>1, <1>2, <1>3, <1>4, <1>5 DEF LinkedRight
  <2>2. CASE j = i
    BY <2>2, <1>1, <1>3, <1>4 DEF LinkedRight, None, Slots
  <2>3. CASE j # n /\ j # i
    BY <2>3, <1>1, <1>3, <1>5 DEF LinkedRight
  <2> QED
    BY <2>1, <2>2, <2>3
<1>8. ASSUME NEW j \in Linked(g) PROVE LinkedLeft(g, j)
  <2>1. CASE j = n
    BY <2>1, <1>1, <1>3 DEF LinkedLeft, None, Slots
  <2>2. CASE j = h.next[i] /\ j # n
    <3>1. j # None
      BY <1>1, <2>2 DEF Slots, None
    <3> QED
      BY <3>1, <2>2, <1>1, <1>3 DEF LinkedLeft, None, Slots
  <2>3. CASE j # h.next[i] /\ j # n
    <3>1. j \in Linked(h) /\ g.prev[j] = h.prev[j] /\ h.prev[j] # i
      BY <2>3, <1>1, <1>3, <1>5 DEF LinkedLeft, None, Slots
    <3> QED
      BY <3>1, <1>1, <1>3, <1>5 DEF LinkedLeft
  <2> QED
    BY <2>1, <2>2, <2>3
<1>9. ASSUME NEW j \in Linked(g), NEW k \in Linked(g), j # k
      PROVE  Disjoint(g, j, k)
  <2>1. \A a, b \in Linked(h) : a # b => Disjoint(h, a, b)
    BY DEF Sound
  <2>2. /\ g.loc[i] = h.loc[i] /\ g.size[i] = at /\ g.loc[n] = h.loc[i] + at
        /\ g.size[n] = h.size[i] - at
        /\ at \in Nat /\ h.loc[i] \in Nat /\ h.size[i] \in Nat
    BY <1>3, <1>4
  <2>3. Disjoint(g, i, n) /\ Disjoint(g, n, i)
    BY <2>2 DEF Disjoint
  <2>4. ASSUME NEW a \in Linked(h), a # i
        PROVE  /\ Disjoint(g, a, n) /\ Disjoint(g, n, a)
               /\ Disjoint(g, a, i) /\ Disjoint(g, i, a)
    <3>1. /\ g.loc[a] = h.loc[a] /\ g.size[a] = h.size[a]
          /\ h.loc[a] \in Nat /\ h.size[a] \in Nat /\ Disjoint(h, a, i)
      BY <2>1, <2>4, <1>3, <1>4
    <3> QED
      BY <2>2, <3>1 DEF Disjoint
  <2>5. ASSUME NEW a \in Linked(h), NEW b \in Linked(h), a # i, b # i, a # b
        PROVE  Disjoint(g, a, b)
    BY <2>1, <2>5, <1>3 DEF Disjoint
  <2> QED
    BY <2>3, <2>4, <2>5, <1>1, <1>9
<1>10. 0 \in Linked(g) /\ g.prev[0] = None
  <2>1. 0 \in Linked(h) /\ h.prev[0] = None
    BY DEF Sound
  <2>2. 0 # h.next[i]
    BY <2>1, <1>5 DEF LinkedRight, None, Linked, Slots
  <2> QED
    BY <2>1, <2>2, <1>1, <1>3
<1> QED
  BY <1>1, <1>6, <1>7, <1>8, <1>9, <1>10 DEF Sound, g

------------------------------------------------------------------------------
\* The fields after a merge, one by one.
LEMMA AbsorbFields ==
  ASSUME NEW h \in Region, NEW i \in Slots
  PROVE  /\ Absorb(h, i).size = [h.size EXCEPT ![i] = h.size[i] + h.size[h.next[i]]]
         /\ Absorb(h, i).next = [h.next EXCEPT ![i] = h.next[h.next[i]]]
         /\ Absorb(h, i).prev = Follow(h.prev, h.next[h.next[i]], i)
         /\ Absorb(h, i).stack = [h.stack EXCEPT ![h.slotsUsed - 1] = h.next[i]]
         /\ Absorb(h, i).loc = h.loc
         /\ Absorb(h, i).type = h.type
         /\ Absorb(h, i).slotsUsed = h.slotsUsed - 1
         /\ Absorb(h, i).usedBytes = h.usedBytes
<1>1. Absorb(h, i).size = [h.size EXCEPT ![i] = h.size[i] + h.size[h.next[i]]]
  BY DEF Absorb, Region
<1>2. Absorb(h, i).next = [h.next EXCEPT ![i] = h.next[h.next[i]]]
  BY DEF Absorb, Region
<1>3. Absorb(h, i).prev = Follow(h.prev, h.next[h.next[i]], i)
  BY DEF Absorb, Region
<1>4. Absorb(h, i).stack = [h.stack EXCEPT ![h.slotsUsed - 1] = h.next[i]]
  BY DEF Absorb, Region
<1>5. /\ Absorb(h, i).loc = h.loc
      /\ Absorb(h, i).type = h.type
      /\ Absorb(h, i).slotsUsed = h.slotsUsed - 1
      /\ Absorb(h, i).usedBytes = h.usedBytes
  BY DEF Absorb, Region
<1> QED
  BY <1>1, <1>2, <1>3, <1>4, <1>5

\* A merge yields a region when each field has its type.
LEMMA AbsorbForm ==
  ASSUME NEW h \in Region, NEW i \in Slots,
         NEW g, g = Absorb(h, i),
         g.loc \in [Slots -> Nat], g.size \in [Slots -> Nat],
         g.type \in [Slots -> {0, 1}],
         g.prev \in [Slots -> Slots \cup {None}],
         g.next \in [Slots -> Slots \cup {None}],
         g.stack \in [Slots -> Slots],
         g.slotsUsed \in 0..NumSlots, g.usedBytes \in Int
  PROVE  g \in Region
BY DEF Absorb, Region

\* Two blocks in the list take two slots.
LEMMA TwoSlotsUsed ==
  ASSUME NEW h \in Region, StackSound(h),
         NEW i \in Linked(h), NEW n \in Linked(h), i # n
  PROVE  h.slotsUsed \in 2..NumSlots
<1>1. IsFiniteSet(Linked(h))
  <2>1. IsFiniteSet(Slots)
    BY FS_Interval, RegionNotEmpty DEF Slots
  <2> QED
    BY <2>1, FS_Subset DEF Linked
<1>2. Cardinality({i, n}) = 2 /\ IsFiniteSet({i, n})
  <2>1. IsFiniteSet({i}) /\ Cardinality({i}) = 1
    BY FS_Singleton
  <2>2. {i, n} = {i} \cup {n} /\ n \notin {i}
    OBVIOUS
  <2>3. IsFiniteSet({i} \cup {n}) /\ Cardinality({i} \cup {n}) = Cardinality({i}) + 1
    BY <2>1, <2>2, FS_AddElement
  <2> QED
    BY <2>1, <2>2, <2>3
<1>3. Cardinality({i, n}) <= Cardinality(Linked(h))
  <2>1. {i, n} \subseteq Linked(h)
    OBVIOUS
  <2> QED
    BY <1>1, <2>1, FS_Subset
<1>4. Cardinality(Linked(h)) = h.slotsUsed /\ h.slotsUsed \in 0..NumSlots
  BY FieldTypes DEF StackSound
<1> QED
  BY <1>2, <1>3, <1>4, RegionNotEmpty

\* The merged block's slot leaves the list for the stack.
LEMMA AbsorbLinked ==
  ASSUME NEW h \in Region, NEW i \in Slots, StackSound(h), i \in Linked(h),
         h.next[i] \in Linked(h), h.next[i] # i
  PROVE  /\ Linked(Absorb(h, i)) = Linked(h) \ {h.next[i]}
         /\ StackSound(Absorb(h, i))
<1> DEFINE n == h.next[i]
           g == Absorb(h, i)
           su == h.slotsUsed
<1>1. g.stack = [h.stack EXCEPT ![su - 1] = n] /\ g.slotsUsed = su - 1
  BY AbsorbFields
<1>2. su \in 2..NumSlots /\ su - 1 \in Slots /\ n \in Slots
  <2>1. su \in 2..NumSlots
    BY TwoSlotsUsed
  <2> QED BY <2>1, RegionNotEmpty DEF Slots, Linked
<1>3. Cardinality(Linked(h)) = su
  BY DEF StackSound
<1>4. \A k \in su..(NumSlots - 1) : h.stack[k] # n
  BY DEF Linked
<1>5. \A k, l \in su..(NumSlots - 1) : k # l => h.stack[k] # h.stack[l]
  BY DEF StackSound
<1>6. h.stack \in [Slots -> Slots]
  BY FieldTypes
<1> HIDE DEF g, n, su
<1>7. g.stack[su - 1] = n
      /\ \A k \in su..(NumSlots - 1) : g.stack[k] = h.stack[k]
  <2>1. \A k \in su..(NumSlots - 1) : k \in Slots /\ k # su - 1
    BY <1>2, RegionNotEmpty DEF Slots
  <2> QED BY <2>1, <1>1, <1>2, <1>6
<1>8. \A k : k \in (su - 1)..(NumSlots - 1) <=> k = su - 1 \/ k \in su..(NumSlots - 1)
  BY <1>2, RegionNotEmpty
<1>9. Linked(g) = Linked(h) \ {n}
  <2>1. Linked(h) = Slots \ {h.stack[k] : k \in su..(NumSlots - 1)}
    BY DEF Linked, su
  <2>2. Linked(g) = Slots \ {g.stack[k] : k \in (su - 1)..(NumSlots - 1)}
    BY <1>1 DEF Linked
  <2> QED BY <2>1, <2>2, <1>7, <1>8
<1>10. Cardinality(Linked(g)) = su - 1
  <2>1. IsFiniteSet(Slots)
    BY FS_Interval, RegionNotEmpty DEF Slots
  <2>2. IsFiniteSet(Linked(h))
    BY <2>1, FS_Subset DEF Linked
  <2>3. n \in Linked(h)
    BY DEF n
  <2> QED BY <1>3, <1>9, <2>2, <2>3, FS_RemoveElement
<1>11. \A k, l \in g.slotsUsed..(NumSlots - 1) : k # l => g.stack[k] # g.stack[l]
  BY <1>1, <1>4, <1>5, <1>7, <1>8
<1> QED
  BY <1>1, <1>9, <1>10, <1>11 DEF StackSound, g, n, su

\* What a merge leaves in each slot.
LEMMA AbsorbAt ==
  ASSUME NEW h \in Region, NEW i \in Slots, Sound(h), i \in Linked(h),
         h.next[i] # None
  PROVE  LET n == h.next[i] g == Absorb(h, i) IN
         /\ g \in Region
         /\ n \in Linked(h) /\ n # i /\ n # 0
         /\ g.size[i] = h.size[i] + h.size[n]
         /\ g.next[i] = h.next[n]
         /\ h.next[n] # None => g.prev[h.next[n]] = i
         /\ \A j \in Slots : j # i => g.size[j] = h.size[j] /\ g.next[j] = h.next[j]
         /\ \A j \in Slots : j # h.next[n] => g.prev[j] = h.prev[j]
<1> DEFINE n == h.next[i]
           g == Absorb(h, i)
<1>0. /\ h.loc \in [Slots -> Nat] /\ h.size \in [Slots -> Nat]
      /\ h.type \in [Slots -> {0, 1}]
      /\ h.prev \in [Slots -> Slots \cup {None}]
      /\ h.next \in [Slots -> Slots \cup {None}]
      /\ h.stack \in [Slots -> Slots]
      /\ h.slotsUsed \in 0..NumSlots /\ h.usedBytes \in Int
  BY FieldTypes
<1>1. n \in Linked(h) /\ n \in Slots
  BY DEF Sound, LinkedRight, Linked
<1>2. n # i
  <2>1. h.size[i] > 0 /\ h.loc[n] = h.loc[i] + h.size[i]
    BY DEF Sound, LinkedRight
  <2>2. h.loc[i] \in Nat /\ h.size[i] \in Nat
    BY <1>0
  <2> QED BY <2>1, <2>2
<1>3. n # 0
  BY DEF Sound, LinkedRight, None, Slots
<1>4. h.slotsUsed \in 2..NumSlots /\ h.slotsUsed - 1 \in Slots
      /\ h.slotsUsed - 1 \in 0..NumSlots
  <2>1. h.slotsUsed \in 2..NumSlots
    BY <1>1, <1>2, TwoSlotsUsed DEF Sound
  <2> QED BY <2>1, RegionNotEmpty DEF Slots
<1>5. None \notin Slots
  BY DEF Slots, None
<1>6. /\ g.size = [h.size EXCEPT ![i] = h.size[i] + h.size[n]]
      /\ g.next = [h.next EXCEPT ![i] = h.next[n]]
      /\ g.prev = Follow(h.prev, h.next[n], i)
      /\ g.stack = [h.stack EXCEPT ![h.slotsUsed - 1] = n]
  BY AbsorbFields
<1>7. /\ g.loc = h.loc /\ g.type = h.type
      /\ g.slotsUsed = h.slotsUsed - 1 /\ g.usedBytes = h.usedBytes
  BY AbsorbFields
<1>8. /\ g.prev \in [Slots -> Slots \cup {None}]
      /\ h.next[n] # None => g.prev[h.next[n]] = i
      /\ \A j \in Slots : j # h.next[n] => g.prev[j] = h.prev[j]
  <2> HIDE DEF g, n
  <2>1. CASE h.next[n] = None
    BY <2>1, <1>0, <1>5, <1>6 DEF Follow
  <2>2. CASE h.next[n] # None
    <3>1. h.next[n] \in Slots /\ g.prev = [h.prev EXCEPT ![h.next[n]] = i]
      BY <2>2, <1>0, <1>1, <1>6 DEF Follow
    <3> QED BY <3>1, <1>0
  <2> QED BY <2>1, <2>2
<1>9. /\ g.size \in [Slots -> Nat] /\ g.next \in [Slots -> Slots \cup {None}]
      /\ g.stack \in [Slots -> Slots]
  <2> HIDE DEF g, n
  <2> QED BY <1>0, <1>1, <1>4, <1>6
<1>10. g \in Region
  <2>1. /\ g.loc \in [Slots -> Nat] /\ g.type \in [Slots -> {0, 1}]
        /\ g.slotsUsed \in 0..NumSlots /\ g.usedBytes \in Int
    <3> HIDE DEF g, n
    <3> QED BY <1>0, <1>4, <1>7
  <2> QED BY <2>1, <1>8, <1>9, AbsorbForm
<1>11. /\ g.size[i] = h.size[i] + h.size[n]
       /\ g.next[i] = h.next[n]
       /\ \A j \in Slots : j # i => g.size[j] = h.size[j] /\ g.next[j] = h.next[j]
  <2> HIDE DEF g, n
  <2> QED BY <1>0, <1>6
<1> QED
  BY <1>1, <1>2, <1>3, <1>8, <1>10, <1>11

\* A merge keeps the region sound.
LEMMA AbsorbSound ==
  ASSUME NEW h \in Region, NEW i \in Slots, Sound(h), i \in Linked(h),
         h.next[i] # None
  PROVE  Sound(Absorb(h, i))
<1> DEFINE n == h.next[i]
           g == Absorb(h, i)
<1>1. /\ n \in Linked(h) /\ n # i /\ n # 0 /\ g \in Region
      /\ g.size[i] = h.size[i] + h.size[n]
      /\ g.next[i] = h.next[n]
      /\ h.next[n] # None => g.prev[h.next[n]] = i
      /\ \A j \in Slots : j # i => g.size[j] = h.size[j] /\ g.next[j] = h.next[j]
      /\ \A j \in Slots : j # h.next[n] => g.prev[j] = h.prev[j]
  BY AbsorbAt
<1>2. g.loc = h.loc
  BY AbsorbFields
<1>3. Linked(g) = Linked(h) \ {n} /\ StackSound(g)
  BY <1>1, AbsorbLinked DEF Sound
<1>4. \A j \in Linked(h) : j \in Slots /\ h.loc[j] \in Nat /\ h.size[j] \in Nat
  BY FieldTypes DEF Linked
<1>5. \A j \in Linked(h) :
        /\ h.size[j] > 0 /\ h.loc[j] + h.size[j] <= Units
        /\ LinkedRight(h, j) /\ LinkedLeft(h, j)
  BY DEF Sound
<1>6. /\ h.prev[n] = i /\ h.loc[n] = h.loc[i] + h.size[i]
  BY <1>5 DEF LinkedRight
<1> HIDE DEF g, n
<1>7. \A j \in Linked(g) : g.size[j] > 0 /\ g.loc[j] + g.size[j] <= Units
  <2>1. g.size[i] > 0 /\ g.loc[i] + g.size[i] <= Units
    BY <1>1, <1>2, <1>4, <1>5, <1>6, RegionNotEmpty
  <2> QED BY <2>1, <1>1, <1>2, <1>3, <1>4, <1>5
<1>8. ASSUME NEW j \in Linked(g) PROVE LinkedRight(g, j)
  <2>1. CASE j = i
    <3>1. CASE h.next[n] = None
      BY <3>1, <2>1, <1>1, <1>2, <1>4, <1>5, <1>6 DEF LinkedRight
    <3>2. CASE h.next[n] # None
      <4>1. h.next[n] \in Linked(h) /\ h.loc[h.next[n]] = h.loc[n] + h.size[n]
            /\ h.prev[h.next[n]] = n
        BY <3>2, <1>1, <1>5 DEF LinkedRight
      <4>2. h.next[n] # n
        BY <4>1, <1>1, <1>4, <1>5
      <4> QED
        BY <3>2, <4>1, <4>2, <2>1, <1>1, <1>2, <1>3, <1>4, <1>6 DEF LinkedRight
    <3> QED BY <3>1, <3>2
  <2>2. CASE j # i
    <3>1. /\ j \in Linked(h) /\ j # n /\ g.next[j] = h.next[j]
          /\ g.size[j] = h.size[j]
      BY <2>2, <1>1, <1>3, <1>4
    <3>2. h.next[j] # None => /\ h.next[j] \in Linked(h) /\ h.prev[h.next[j]] = j
                              /\ h.loc[h.next[j]] = h.loc[j] + h.size[j]
      BY <3>1, <1>5 DEF LinkedRight
    <3>3. h.next[j] # None => h.next[j] # n /\ h.next[j] # h.next[n]
      BY <3>1, <3>2, <1>1, <1>5, <1>6, <2>2 DEF LinkedRight
    <3>4. h.next[j] # None => g.prev[h.next[j]] = j /\ h.next[j] \in Linked(g)
      BY <3>2, <3>3, <1>1, <1>3, <1>4
    <3> QED
      BY <3>1, <3>2, <3>4, <1>2, <1>5 DEF LinkedRight
  <2> QED
    BY <2>1, <2>2
<1>9. ASSUME NEW j \in Linked(g) PROVE LinkedLeft(g, j)
  <2>1. j \in Linked(h) /\ j # n
    BY <1>3
  <2>2. CASE j = h.next[n]
    <3>1. g.prev[j] = i /\ g.next[i] = j /\ i \in Linked(g) /\ j # None /\ i # None
      BY <2>1, <2>2, <1>1, <1>3, <1>4 DEF None, Slots
    <3> QED BY <3>1 DEF LinkedLeft
  <2>3. CASE j # h.next[n]
    <3>1. g.prev[j] = h.prev[j]
      BY <2>1, <2>3, <1>1, <1>4
    <3>2. CASE h.prev[j] = None
      BY <3>1, <3>2, <2>1, <1>2, <1>5 DEF LinkedLeft
    <3>3. CASE h.prev[j] # None
      <4>1. h.prev[j] \in Linked(h) /\ h.next[h.prev[j]] = j
        BY <3>3, <2>1, <1>5 DEF LinkedLeft
      <4>2. h.prev[j] # n /\ h.prev[j] # i
        BY <4>1, <2>1, <2>3 DEF n
      <4> QED
        BY <4>1, <4>2, <3>1, <3>3, <1>1, <1>3, <1>4 DEF LinkedLeft
    <3> QED BY <3>2, <3>3
  <2> QED
    BY <2>2, <2>3
<1>10. ASSUME NEW j \in Linked(g), NEW k \in Linked(g), j # k
       PROVE  Disjoint(g, j, k)
  <2>1. \A a, b \in Linked(h) : a # b => Disjoint(h, a, b)
    BY DEF Sound
  <2>2. /\ g.size[i] = h.size[i] + h.size[n] /\ h.loc[n] = h.loc[i] + h.size[i]
        /\ h.loc[i] \in Nat /\ h.size[i] \in Nat /\ h.size[n] \in Nat
        /\ h.size[n] > 0 /\ h.size[i] > 0
    BY <1>1, <1>4, <1>5, <1>6
  <2>3. ASSUME NEW a \in Linked(g), a # i
        PROVE  Disjoint(g, a, i) /\ Disjoint(g, i, a)
    <3>1. /\ a \in Linked(h) /\ a # n /\ g.size[a] = h.size[a]
          /\ h.loc[a] \in Nat /\ h.size[a] \in Nat /\ h.size[a] > 0
      BY <2>3, <1>1, <1>3, <1>4, <1>5
    <3>2. Disjoint(h, a, i) /\ Disjoint(h, a, n)
      BY <2>1, <2>3, <3>1, <1>1
    <3> QED
      BY <2>2, <3>1, <3>2, <1>2 DEF Disjoint
  <2>4. ASSUME NEW a \in Linked(g), NEW b \in Linked(g), a # i, b # i, a # b
        PROVE  Disjoint(g, a, b)
    BY <2>1, <2>4, <1>1, <1>2, <1>3, <1>4 DEF Disjoint
  <2> QED
    BY <2>3, <2>4, <1>10
<1>11. 0 \in Linked(g) /\ g.prev[0] = None
  <2>1. 0 \in Linked(h) /\ h.prev[0] = None
    BY DEF Sound
  <2>2. 0 # h.next[n]
    BY <2>1, <1>1, <1>5, <1>4 DEF LinkedRight, None, Slots
  <2> QED
    BY <2>1, <2>2, <1>1, <1>3, <1>4
<1> QED
  BY <1>3, <1>7, <1>8, <1>9, <1>10, <1>11 DEF Sound, g

------------------------------------------------------------------------------
\* What callers see of a region.
Extents(h) == {<<h.loc[j], h.size[j]>> : j \in Used(h)}

\* Coalesced, but for the blocks next to block i.
CoalescedAround(h, i) ==
  \A j \in Free(h) : j # i /\ h.next[j] # i => h.next[j] = None \/ h.type[h.next[j]] = 1
\* Coalesced, but for the block before block i.
CoalescedFrom(h, i) ==
  \A j \in Free(h) : h.next[j] # i => h.next[j] = None \/ h.type[h.next[j]] = 1

\* A region is sound by its list and its stack alone.
SameList(h, g) ==
  /\ g \in Region
  /\ g.loc = h.loc /\ g.size = h.size /\ g.prev = h.prev /\ g.next = h.next
  /\ g.stack = h.stack /\ g.slotsUsed = h.slotsUsed

\* Soundness only reads the fields of linked slots.
LEMMA SameListSound ==
  ASSUME NEW h \in Region, NEW g, SameList(h, g)
  PROVE  Linked(g) = Linked(h) /\ (Sound(h) => Sound(g))
<1>1. /\ Linked(g) = Linked(h)
  BY DEF SameList, Linked
<1>2. StackSound(h) => StackSound(g)
  BY <1>1 DEF SameList, StackSound
<1>3. \A i, j : Disjoint(h, i, j) => Disjoint(g, i, j)
  BY DEF SameList, Disjoint
<1>4. \A i : LinkedRight(h, i) => LinkedRight(g, i)
  BY <1>1 DEF SameList, LinkedRight
<1>5. \A i : LinkedLeft(h, i) => LinkedLeft(g, i)
  BY <1>1 DEF SameList, LinkedLeft
<1> QED
  BY <1>1, <1>2, <1>3, <1>4, <1>5 DEF Sound, SameList

\* Marking a slot used changes no link, place or size.
LEMMA MarkSame ==
  ASSUME NEW h \in Region, NEW i \in Slots, NEW t \in {0, 1}
  PROVE  /\ SameList(h, Mark(h, i, t))
         /\ Mark(h, i, t).type = [h.type EXCEPT ![i] = t]
         /\ Mark(h, i, t).usedBytes = h.usedBytes
BY DEF SameList, Mark, Region

\* A merge of two free blocks does not touch the used ones.
LEMMA AbsorbUsed ==
  ASSUME NEW h \in Region, NEW i \in Slots, Sound(h), i \in Free(h),
         h.next[i] # None, h.type[h.next[i]] = 0
  PROVE  /\ Extents(Absorb(h, i)) = Extents(h)
         /\ Free(Absorb(h, i)) = Free(h) \ {h.next[i]}
<1> DEFINE n == h.next[i]
           g == Absorb(h, i)
<1>1. i \in Linked(h) /\ h.type[i] = 0 /\ Linked(h) \subseteq Slots
  BY DEF Free, Linked
<1>2. /\ n \in Linked(h) /\ n # i
      /\ \A j \in Slots : j # i => g.size[j] = h.size[j]
  BY <1>1, AbsorbAt
<1>3. g.loc = h.loc /\ g.type = h.type
  BY AbsorbFields
<1>4. Linked(g) = Linked(h) \ {n}
  BY <1>1, <1>2, AbsorbLinked DEF Sound
<1> HIDE DEF g
<1>5. Used(g) = Used(h) /\ Free(g) = Free(h) \ {n}
  BY <1>1, <1>3, <1>4 DEF Used, Free
<1>6. \A j \in Used(h) : g.size[j] = h.size[j]
  BY <1>1, <1>2 DEF Used
<1> QED
  BY <1>3, <1>5, <1>6 DEF Extents, g

\* Merging with the block after leaves at most the block before to merge.
LEMMA MergeNextKeeps ==
  ASSUME NEW h \in Region, NEW i \in Slots, Sound(h), i \in Free(h),
         CoalescedAround(h, i)
  PROVE  /\ MergeNext(h, i) \in Region /\ Sound(MergeNext(h, i))
         /\ Extents(MergeNext(h, i)) = Extents(h)
         /\ i \in Free(MergeNext(h, i))
         /\ CoalescedFrom(MergeNext(h, i), i)
         /\ MergeNext(h, i).slotsUsed <= h.slotsUsed
<1> DEFINE n == h.next[i]
           g == Absorb(h, i)
<1>1. i \in Linked(h) /\ h.type[i] = 0 /\ Linked(h) \subseteq Slots
  BY DEF Free, Linked
<1>2. \A j \in Linked(h) : h.next[j] \in Linked(h) \cup {None}
                       /\ (h.next[j] # None => h.prev[h.next[j]] = j)
  BY DEF Sound, LinkedRight
<1>3. h.type \in [Slots -> {0, 1}] /\ h.slotsUsed \in 0..NumSlots
  BY FieldTypes
<1>4. CASE n # None /\ h.type[n] = 0
  <2>1. MergeNext(h, i) = g
    BY <1>4 DEF MergeNext
  <2>2. /\ n \in Linked(h) /\ n # i /\ g \in Region
        /\ g.next[i] = h.next[n]
        /\ \A j \in Slots : j # i => g.next[j] = h.next[j]
    BY <1>1, <1>4, AbsorbAt
  <2>3. Sound(g)
    BY <1>1, <1>4, AbsorbSound
  <2>4. Extents(g) = Extents(h) /\ Free(g) = Free(h) \ {n}
    BY <1>1, <1>4, AbsorbUsed
  <2>5. g.type = h.type /\ g.slotsUsed = h.slotsUsed - 1
    BY AbsorbFields
  <2> HIDE DEF g
  <2>6. n \in Free(h) /\ h.next[n] # i => h.next[n] = None \/ h.type[h.next[n]] = 1
    BY <2>2 DEF CoalescedAround
  <2>7. ASSUME NEW j \in Free(g), g.next[j] # i
        PROVE  g.next[j] = None \/ g.type[g.next[j]] = 1
    <3>1. CASE j = i
      BY <3>1, <2>2, <2>5, <2>6, <2>7, <1>4 DEF Free
    <3>2. CASE j # i
      BY <3>2, <2>2, <2>4, <2>5, <2>7 DEF CoalescedAround, Free, Linked
    <3> QED BY <3>1, <3>2
  <2> QED
    BY <2>1, <2>2, <2>3, <2>4, <2>5, <2>7, <1>3 DEF CoalescedFrom
<1>5. CASE ~(n # None /\ h.type[n] = 0)
  <2>1. MergeNext(h, i) = h
    BY <1>5 DEF MergeNext
  <2>2. n = None \/ h.type[n] = 1
    BY <1>1, <1>2, <1>3, <1>5
  <2>3. CoalescedFrom(h, i)
    BY <2>2 DEF CoalescedAround, CoalescedFrom
  <2> QED
    BY <2>1, <2>3, <1>3
<1> QED
  BY <1>4, <1>5

\* Merging with the block before leaves nothing to merge.
LEMMA MergePrevKeeps ==
  ASSUME NEW h \in Region, NEW i \in Slots, Sound(h), i \in Free(h),
         CoalescedFrom(h, i)
  PROVE  /\ MergePrev(h, i) \in Region /\ Sound(MergePrev(h, i))
         /\ Extents(MergePrev(h, i)) = Extents(h)
         /\ Coalesced(MergePrev(h, i))
         /\ MergePrev(h, i).slotsUsed <= h.slotsUsed
<1> DEFINE q == h.prev[i]
           g == Absorb(h, q)
<1>1. i \in Linked(h) /\ h.type[i] = 0 /\ Linked(h) \subseteq Slots
  BY DEF Free, Linked
<1>2. q # None => q \in Linked(h) /\ h.next[q] = i
  BY <1>1 DEF Sound, LinkedLeft
<1>3. \A j \in Linked(h) : h.next[j] \in Linked(h) \cup {None}
                       /\ (h.next[j] # None => h.prev[h.next[j]] = j)
  BY DEF Sound, LinkedRight
<1>4. h.type \in [Slots -> {0, 1}] /\ h.slotsUsed \in 0..NumSlots
  BY FieldTypes
<1>5. i # None
  BY DEF None, Slots
<1>6. CASE q # None /\ h.type[q] = 0
  <2>1. MergePrev(h, i) = g
    BY <1>6 DEF MergePrev
  <2>2. q \in Slots /\ q \in Free(h) /\ q \in Linked(h) /\ h.next[q] = i /\ h.next[q] # None
    BY <1>1, <1>2, <1>5, <1>6 DEF Free
  <2>3. /\ q # i /\ g \in Region
        /\ g.next[q] = h.next[i]
        /\ \A j \in Slots : j # q => g.next[j] = h.next[j]
    BY <2>2, AbsorbAt
  <2>4. Sound(g)
    BY <2>2, AbsorbSound
  <2>5. Extents(g) = Extents(h) /\ Free(g) = Free(h) \ {i}
    BY <2>2, <1>1, AbsorbUsed
  <2>6. g.type = h.type /\ g.slotsUsed = h.slotsUsed - 1
    BY <2>2, AbsorbFields
  <2> HIDE DEF g, q
  <2>7. h.next[i] # i
    BY <1>1, <1>3, <2>2, <2>3, <1>5 DEF q
  <2>8. h.next[i] = None \/ h.type[h.next[i]] = 1
    BY <2>7 DEF CoalescedFrom
  <2>9. ASSUME NEW j \in Free(g)
        PROVE  g.next[j] = None \/ g.type[g.next[j]] = 1
    <3>1. CASE j = q
      BY <3>1, <2>3, <2>6, <2>8
    <3>2. CASE j # q
      <4>1. j \in Free(h) /\ j \in Linked(h) /\ g.next[j] = h.next[j]
        BY <3>2, <2>3, <2>5, <1>1 DEF Free
      <4>2. h.next[j] # i
        BY <4>1, <3>2, <1>3, <1>5 DEF q
      <4> QED
        BY <4>1, <4>2, <2>6 DEF CoalescedFrom
    <3> QED BY <3>1, <3>2
  <2> QED
    BY <2>1, <2>3, <2>4, <2>5, <2>6, <2>9, <1>4 DEF Coalesced
<1>7. CASE ~(q # None /\ h.type[q] = 0)
  <2>1. MergePrev(h, i) = h
    BY <1>7 DEF MergePrev
  <2>2. ASSUME NEW j \in Free(h)
        PROVE  h.next[j] = None \/ h.type[h.next[j]] = 1
    <3>1. j \in Linked(h) /\ h.type[j] = 0
      BY DEF Free
    <3>2. h.next[j] # i
      BY <3>1, <1>3, <1>5, <1>7, <1>1 DEF None, Slots
    <3> QED
      BY <3>2 DEF CoalescedFrom
  <2> QED
    BY <2>1, <2>2, <1>4 DEF Coalesced
<1> QED
  BY <1>6, <1>7

------------------------------------------------------------------------------
\* What a split does to the blocks' types, before they are marked.
LEMMA SplitUsed ==
  ASSUME NEW h \in Region, NEW i \in Slots, NEW at \in Nat \ {0},
         h.slotsUsed \in 1..(NumSlots - 1), Sound(h), i \in Free(h), at < h.size[i]
  PROVE  /\ Split(h, i, at) \in Region /\ Sound(Split(h, i, at))
         /\ Split(h, i, at).type = h.type
         /\ Linked(Split(h, i, at)) = Linked(h) \cup {Top(h)}
         /\ Top(h) \in Slots \ Linked(h)
         /\ Split(h, i, at).loc[Top(h)] = h.loc[i] + at
         /\ Split(h, i, at).size[Top(h)] = h.size[i] - at
         /\ Split(h, i, at).size[i] = at
         /\ Split(h, i, at).next[i] = Top(h)
         /\ Split(h, i, at).next[Top(h)] = h.next[i]
         /\ \A j \in Linked(h) : Split(h, i, at).loc[j] = h.loc[j]
         /\ \A j \in Linked(h) : j # i =>
               /\ Split(h, i, at).size[j] = h.size[j]
               /\ Split(h, i, at).next[j] = h.next[j]
         /\ Split(h, i, at).slotsUsed = h.slotsUsed + 1
<1>1. i \in Linked(h) /\ Linked(h) \subseteq Slots /\ StackSound(h) /\ at \in Nat
  BY DEF Free, Linked, Sound
<1>2. /\ Split(h, i, at).type = h.type
      /\ Split(h, i, at).slotsUsed = h.slotsUsed + 1
  BY <1>1 DEF Split, Region
<1>3. /\ Linked(Split(h, i, at)) = Linked(h) \cup {Top(h)}
      /\ Top(h) \in Slots \ Linked(h)
  BY <1>1, SplitLinked, TopIsSlot
<1>4. Sound(Split(h, i, at))
  BY <1>1, SplitSound
<1>5. /\ Split(h, i, at) \in Region
      /\ Split(h, i, at).loc[Top(h)] = h.loc[i] + at
      /\ Split(h, i, at).size[Top(h)] = h.size[i] - at
      /\ Split(h, i, at).size[i] = at
      /\ Split(h, i, at).next[i] = Top(h)
      /\ Split(h, i, at).next[Top(h)] = h.next[i]
      /\ \A j \in Slots : j # Top(h) => Split(h, i, at).loc[j] = h.loc[j]
      /\ \A j \in Slots : j \notin {Top(h), i} =>
               /\ Split(h, i, at).size[j] = h.size[j]
               /\ Split(h, i, at).next[j] = h.next[j]
  BY <1>1, SplitAt
<1> QED
  BY <1>1, <1>2, <1>3, <1>4, <1>5

\* A free block that fits exactly is given out whole.
LEMMA AllFits ==
  ASSUME NEW h \in Region, NEW i \in Slots, Sound(h), Coalesced(h), i \in Free(h)
  PROVE  /\ Mark(h, i, 1) \in Region /\ Sound(Mark(h, i, 1)) /\ Coalesced(Mark(h, i, 1))
         /\ Extents(Mark(h, i, 1)) = Extents(h) \cup {<<h.loc[i], h.size[i]>>}
         /\ Mark(h, i, 1).slotsUsed = h.slotsUsed
<1> DEFINE g == Mark(h, i, 1)
<1>1. SameList(h, g) /\ g.type = [h.type EXCEPT ![i] = 1]
  BY MarkSame
<1>2. Linked(g) = Linked(h) /\ Sound(g)
  BY <1>1, SameListSound
<1>3. h.type \in [Slots -> {0, 1}] /\ Linked(h) \subseteq Slots /\ i \in Linked(h)
      /\ h.next \in [Slots -> Slots \cup {None}]
  BY FieldTypes DEF Linked, Free
<1>4. /\ g.type[i] = 1 /\ \A j \in Slots : j # i => g.type[j] = h.type[j]
  BY <1>1, <1>3
<1> HIDE DEF g
<1>5. Used(g) = Used(h) \cup {i} /\ Free(g) \subseteq Free(h)
  BY <1>2, <1>3, <1>4 DEF Used, Free
<1>6. Extents(g) = Extents(h) \cup {<<h.loc[i], h.size[i]>>}
  BY <1>1, <1>5 DEF Extents, SameList
<1>7. Coalesced(g)
  BY <1>1, <1>3, <1>4, <1>5 DEF Coalesced, SameList, Free
<1> QED
  BY <1>1, <1>2, <1>6, <1>7 DEF SameList, g

\* Cutting the low end of a free block gives out exactly that end.
LEMMA LowEnd ==
  ASSUME NEW h \in Region, NEW i \in Slots, NEW u \in Nat \ {0},
         h.slotsUsed \in 1..(NumSlots - 1), Sound(h), Coalesced(h),
         i \in Free(h), u <= h.size[i]
  PROVE  /\ changeHeapSlot(h, i, u) \in Region /\ Sound(changeHeapSlot(h, i, u))
         /\ Coalesced(changeHeapSlot(h, i, u))
         /\ Extents(changeHeapSlot(h, i, u)) = Extents(h) \cup {<<h.loc[i], u>>}
         /\ changeHeapSlot(h, i, u).slotsUsed \in {h.slotsUsed, h.slotsUsed + 1}
<1>1. h.size[i] \in Nat /\ u \in Nat
  BY FieldTypes
<1>2. CASE h.size[i] > u
  <2> DEFINE n == Top(h)
             s == Split(h, i, u)
             m == Mark(s, n, 0)
             g == Mark(m, i, 1)
  <2>1. changeHeapSlot(h, i, u) = g
    BY <1>2 DEF changeHeapSlot
  <2>2. /\ s \in Region /\ Sound(s) /\ s.type = h.type
        /\ Linked(s) = Linked(h) \cup {n} /\ n \in Slots \ Linked(h)
        /\ s.size[i] = u /\ s.next[i] = n /\ s.next[n] = h.next[i]
        /\ \A j \in Linked(h) : s.loc[j] = h.loc[j]
        /\ \A j \in Linked(h) : j # i => s.size[j] = h.size[j] /\ s.next[j] = h.next[j]
        /\ s.slotsUsed = h.slotsUsed + 1
    BY <1>1, <1>2, SplitUsed
  <2> HIDE DEF s, n
  <2>3. SameList(s, m) /\ m.type = [s.type EXCEPT ![n] = 0]
    BY <2>2, MarkSame
  <2>4. m \in Region /\ Linked(m) = Linked(s) /\ Sound(m)
    BY <2>2, <2>3, SameListSound DEF SameList
  <2>5. SameList(m, g) /\ g.type = [m.type EXCEPT ![i] = 1]
    <3> HIDE DEF m
    <3> QED BY <2>4, MarkSame
  <2>6. g \in Region /\ Linked(g) = Linked(m) /\ Sound(g)
    <3> HIDE DEF m
    <3> QED BY <2>4, <2>5, SameListSound DEF SameList
  <2> HIDE DEF m, g
  <2>7. /\ i \in Linked(h) /\ i # n /\ Linked(h) \subseteq Slots
        /\ h.type \in [Slots -> {0, 1}] /\ h.type[i] = 0
        /\ \A j \in Linked(h) : h.next[j] = None \/ h.next[j] \in Linked(h)
    BY <2>2, FieldTypes DEF Free, Linked, Sound, LinkedRight
  <2>8. /\ g.type[n] = 0 /\ g.type[i] = 1
        /\ \A j \in Linked(h) : j # i => g.type[j] = h.type[j]
    BY <2>2, <2>3, <2>5, <2>7
  <2>9. g.loc = s.loc /\ g.size = s.size /\ g.next = s.next /\ g.slotsUsed = s.slotsUsed
    BY <2>3, <2>5 DEF SameList
  <2>10. Used(g) = Used(h) \cup {i} /\ Free(g) = (Free(h) \ {i}) \cup {n}
    BY <2>2, <2>4, <2>6, <2>7, <2>8 DEF Used, Free
  <2>11. \A j \in Used(h) : j \in Linked(h) /\ j # i
    BY <2>7 DEF Used
  <2>12. Extents(g) = Extents(h) \cup {<<h.loc[i], u>>}
    BY <2>2, <2>7, <2>9, <2>10, <2>11 DEF Extents
  <2>13. ASSUME NEW j \in Free(g)
         PROVE  g.next[j] = None \/ g.type[g.next[j]] = 1
    <3>1. CASE j = n
      <4>1. h.next[i] = None \/ h.type[h.next[i]] = 1
        BY DEF Coalesced
      <4> QED BY <3>1, <4>1, <2>2, <2>7, <2>8, <2>9
    <3>2. CASE j # n
      <4>1. j \in Free(h) /\ j # i /\ j \in Linked(h)
        BY <3>2, <2>10 DEF Free
      <4>2. h.next[j] = None \/ h.type[h.next[j]] = 1
        BY <4>1 DEF Coalesced
      <4> QED BY <4>1, <4>2, <2>2, <2>7, <2>8, <2>9
    <3> QED BY <3>1, <3>2
  <2> QED
    BY <2>1, <2>2, <2>6, <2>9, <2>12, <2>13 DEF Coalesced
<1>3. CASE h.size[i] = u
  <2>1. changeHeapSlot(h, i, u) = Mark(h, i, 1)
    BY <1>1, <1>3 DEF changeHeapSlot
  <2> QED
    BY <1>3, <2>1, AllFits
<1> QED
  BY <1>1, <1>2, <1>3

\* Cutting the high end of a free block gives out exactly that end.
LEMMA HighEnd ==
  ASSUME NEW h \in Region, NEW i \in Slots, NEW u \in Nat \ {0},
         h.slotsUsed \in 1..(NumSlots - 1), Sound(h), Coalesced(h),
         i \in Free(h), u <= h.size[i]
  PROVE  /\ heapSpawnSlot(h, i, u) \in Region /\ Sound(heapSpawnSlot(h, i, u))
         /\ Coalesced(heapSpawnSlot(h, i, u))
         /\ Extents(heapSpawnSlot(h, i, u)) =
              Extents(h) \cup {<<h.loc[i] + h.size[i] - u, u>>}
         /\ heapSpawnSlot(h, i, u).slotsUsed \in {h.slotsUsed, h.slotsUsed + 1}
<1>1. h.size[i] \in Nat /\ h.loc[i] \in Nat /\ u \in Nat
  BY FieldTypes
<1>2. CASE h.size[i] > u
  <2> DEFINE n == Top(h)
             s == Split(h, i, h.size[i] - u)
             g == Mark(s, n, 1)
  <2>1. heapSpawnSlot(h, i, u) = g
    BY <1>2 DEF heapSpawnSlot
  <2>a. h.size[i] - u \in Nat \ {0} /\ h.size[i] - u < h.size[i]
        /\ h.size[i] - (h.size[i] - u) = u
        /\ h.loc[i] + (h.size[i] - u) = h.loc[i] + h.size[i] - u
    BY <1>1, <1>2
  <2>2. /\ s \in Region /\ Sound(s) /\ s.type = h.type
        /\ Linked(s) = Linked(h) \cup {n} /\ n \in Slots \ Linked(h)
        /\ s.loc[n] = h.loc[i] + (h.size[i] - u)
        /\ s.size[n] = h.size[i] - (h.size[i] - u)
        /\ s.next[i] = n /\ s.next[n] = h.next[i]
        /\ \A j \in Linked(h) : s.loc[j] = h.loc[j]
        /\ \A j \in Linked(h) : j # i => s.size[j] = h.size[j] /\ s.next[j] = h.next[j]
        /\ s.slotsUsed = h.slotsUsed + 1
    BY <2>a, SplitUsed
  <2> HIDE DEF s, n
  <2>3. SameList(s, g) /\ g.type = [s.type EXCEPT ![n] = 1]
    BY <2>2, MarkSame
  <2>4. g \in Region /\ Linked(g) = Linked(s) /\ Sound(g)
    BY <2>2, <2>3, SameListSound DEF SameList
  <2> HIDE DEF g
  <2>5. /\ i \in Linked(h) /\ i # n /\ Linked(h) \subseteq Slots
        /\ h.type \in [Slots -> {0, 1}] /\ h.type[i] = 0
        /\ \A j \in Linked(h) : h.next[j] = None \/ h.next[j] \in Linked(h)
    BY <2>2, FieldTypes DEF Free, Linked, Sound, LinkedRight
  <2>6. /\ g.type[n] = 1
        /\ \A j \in Linked(h) : g.type[j] = h.type[j]
    BY <2>2, <2>3, <2>5
  <2>7. g.loc = s.loc /\ g.size = s.size /\ g.next = s.next /\ g.slotsUsed = s.slotsUsed
    BY <2>3 DEF SameList
  <2>8. Used(g) = Used(h) \cup {n} /\ Free(g) = Free(h)
    BY <2>2, <2>4, <2>5, <2>6 DEF Used, Free
  <2>9. \A j \in Used(h) : j \in Linked(h) /\ j # i
    BY <2>5 DEF Used
  <2>10. g.loc[n] = h.loc[i] + h.size[i] - u /\ g.size[n] = u
    BY <2>2, <2>7, <2>a
  <2>11. Extents(g) = Extents(h) \cup {<<h.loc[i] + h.size[i] - u, u>>}
    <3>1. \A j \in Used(h) : g.loc[j] = h.loc[j] /\ g.size[j] = h.size[j]
      BY <2>2, <2>7, <2>9
    <3> QED BY <2>8, <2>10, <3>1 DEF Extents
  <2>12. ASSUME NEW j \in Free(g)
         PROVE  g.next[j] = None \/ g.type[g.next[j]] = 1
    <3>1. CASE j = i
      BY <3>1, <2>2, <2>6, <2>7
    <3>2. CASE j # i
      <4>1. j \in Free(h) /\ j \in Linked(h)
        BY <2>8 DEF Free
      <4>2. h.next[j] = None \/ h.type[h.next[j]] = 1
        BY <4>1 DEF Coalesced
      <4> QED BY <3>2, <4>1, <4>2, <2>2, <2>5, <2>6, <2>7
    <3> QED BY <3>1, <3>2
  <2> QED
    BY <2>1, <2>2, <2>4, <2>7, <2>11, <2>12 DEF Coalesced
<1>3. CASE h.size[i] = u
  <2>1. heapSpawnSlot(h, i, u) = Mark(h, i, 1) /\ h.loc[i] + h.size[i] - u = h.loc[i]
    BY <1>1, <1>3 DEF heapSpawnSlot
  <2> QED
    BY <1>3, <2>1, AllFits
<1> QED
  BY <1>1, <1>2, <1>3

\* Freeing a block takes away exactly that block and merges all there is to merge.
LEMMA FreeKeeps ==
  ASSUME NEW h \in Region, NEW i \in Slots, Sound(h), Coalesced(h), i \in Used(h)
  PROVE  /\ heapFree(h, i) \in Region /\ Sound(heapFree(h, i)) /\ Coalesced(heapFree(h, i))
         /\ Extents(heapFree(h, i)) = {e \in Extents(h) : e[1] # h.loc[i]}
         /\ heapFree(h, i).slotsUsed <= h.slotsUsed
<1> DEFINE m == Mark(h, i, 0)
           f == [m EXCEPT !.usedBytes = @ - h.size[i]]
           g == MergeNext(f, i)
<1>1. SameList(h, m) /\ m.type = [h.type EXCEPT ![i] = 0]
  BY MarkSame
<1>2. m \in Region
  BY <1>1 DEF SameList
<1>3. SameList(m, f) /\ f.type = m.type
  <2> DEFINE a == m.usedBytes - h.size[i]
  <2> HIDE DEF m
  <2>1. a \in Int
    BY <1>2, FieldTypes
  <2> HIDE DEF a
  <2>2. [m EXCEPT !.usedBytes = a] \in Region
    BY <1>2, <2>1 DEF Region
  <2>3. SameList(m, [m EXCEPT !.usedBytes = a])
        /\ [m EXCEPT !.usedBytes = a].type = m.type
    BY <1>2, <2>2 DEF SameList, Region
  <2>4. f = [m EXCEPT !.usedBytes = a]
    BY DEF a
  <2> QED BY <2>3, <2>4
<1>4. heapFree(h, i) = MergePrev(g, i)
  BY DEF heapFree
<1>5. SameList(h, f)
  BY <1>1, <1>3 DEF SameList
<1> HIDE DEF m, f
<1>6. f \in Region /\ Linked(f) = Linked(h) /\ Sound(f)
  BY <1>5, SameListSound DEF SameList
<1>7. /\ h.type \in [Slots -> {0, 1}] /\ Linked(h) \subseteq Slots
      /\ i \in Linked(h) /\ h.type[i] = 1
      /\ h.next \in [Slots -> Slots \cup {None}]
  BY FieldTypes DEF Used, Linked
<1>8. f.type[i] = 0 /\ \A j \in Slots : j # i => f.type[j] = h.type[j]
  BY <1>1, <1>3, <1>7
<1>9. Used(f) = Used(h) \ {i} /\ Free(f) = Free(h) \cup {i}
  BY <1>6, <1>7, <1>8 DEF Used, Free
<1>10. CoalescedAround(f, i)
  <2> SUFFICES ASSUME NEW j \in Free(f), j # i, f.next[j] # i
               PROVE  f.next[j] = None \/ f.type[f.next[j]] = 1
    BY DEF CoalescedAround
  <2>1. j \in Free(h) /\ j \in Slots /\ f.next[j] = h.next[j]
    BY <1>5, <1>7, <1>9 DEF SameList, Free
  <2> QED
    BY <2>1, <1>7, <1>8 DEF Coalesced
<1>11. Extents(f) = {e \in Extents(h) : e[1] # h.loc[i]}
  <2>1. f.loc = h.loc /\ f.size = h.size
    BY <1>5 DEF SameList
  <2>2. ASSUME NEW j \in Used(h), j # i
        PROVE  h.loc[j] # h.loc[i]
    <3>1. /\ j \in Linked(h) /\ h.loc[j] \in Nat /\ h.loc[i] \in Nat
          /\ h.size[j] \in Nat /\ h.size[i] \in Nat
      BY <1>7, FieldTypes DEF Used
    <3>2. Disjoint(h, i, j) /\ h.size[i] > 0 /\ h.size[j] > 0
      BY <2>2, <3>1, <1>7 DEF Sound
    <3> QED BY <3>1, <3>2 DEF Disjoint
  <2> QED
    BY <2>1, <2>2, <1>9 DEF Extents
<1>12. /\ g \in Region /\ Sound(g) /\ Extents(g) = Extents(f)
       /\ i \in Free(g) /\ CoalescedFrom(g, i) /\ g.slotsUsed <= f.slotsUsed
  BY <1>6, <1>9, <1>10, MergeNextKeeps
<1> HIDE DEF g
<1>13. /\ MergePrev(g, i) \in Region /\ Sound(MergePrev(g, i))
       /\ Extents(MergePrev(g, i)) = Extents(g)
       /\ Coalesced(MergePrev(g, i))
       /\ MergePrev(g, i).slotsUsed <= g.slotsUsed
  BY <1>12, MergePrevKeeps
<1>14. MergePrev(g, i).slotsUsed <= h.slotsUsed
  <2>1. f.slotsUsed = h.slotsUsed
    BY <1>5 DEF SameList
  <2>2. /\ MergePrev(g, i).slotsUsed \in 0..NumSlots /\ g.slotsUsed \in 0..NumSlots
        /\ h.slotsUsed \in 0..NumSlots
    BY <1>12, <1>13, FieldTypes
  <2> QED BY <2>1, <2>2, <1>12, <1>13, RegionNotEmpty
<1> QED
  BY <1>4, <1>11, <1>12, <1>13, <1>14
------------------------------------------------------------------------------

IInv ==
  /\ heap \in Region
  /\ HeapSound
  /\ SlotToSpare
  /\ HeapCoalesced
  /\ live = Extents(heap)

\* A request is rounded up to at least one unit.
LEMMA RoundUpPositive ==
  ASSUME NEW bytes \in Requests
  PROVE  RoundUp(bytes) \in Nat \ {0}
BY RequestsPositive DEF RoundUp

\* Charging a request to the region leaves its blocks as they are.
LEMMA ChargedSame ==
  ASSUME NEW h \in Region, NEW u \in Nat
  PROVE  /\ SameList(h, Charged(h, u))
         /\ Charged(h, u).type = h.type
BY DEF Charged, SameList, Region

\* The initial table is one free block.
LEMMA InitSound ==
  Init => IInv
<1> SUFFICES ASSUME Init PROVE IInv
  OBVIOUS
<1> DEFINE h == mmInitRegion
<1>1. /\ 0 \in Slots /\ \A k : k \in 1..(NumSlots - 1) <=> k \in Slots /\ k # 0
  BY RegionNotEmpty DEF Slots
<1>2. h \in Region
  BY <1>1, RegionNotEmpty DEF mmInitRegion, Region
<1>3. Linked(h) = {0}
  BY <1>1 DEF mmInitRegion, Linked
<1>4. StackSound(h)
  <2>1. Cardinality({0}) = 1
    BY FS_Singleton
  <2>2. \A k, l \in 1..(NumSlots - 1) : k # l => h.stack[k] # h.stack[l]
    BY <1>1 DEF mmInitRegion
  <2> QED BY <1>3, <2>1, <2>2 DEF StackSound, mmInitRegion
<1>5. /\ h.loc[0] = 0 /\ h.size[0] = Units /\ h.prev[0] = None /\ h.next[0] = None
      /\ h.type[0] = 0
  BY <1>1 DEF mmInitRegion
<1>6. Sound(h)
  BY <1>3, <1>4, <1>5, RegionNotEmpty DEF Sound, LinkedRight, LinkedLeft
<1>7. Coalesced(h)
  BY <1>3, <1>5 DEF Coalesced, Free
<1>8. Extents(h) = {}
  BY <1>3, <1>5 DEF Extents, Used
<1>9. h.slotsUsed \in 1..(NumSlots - 1)
  BY RegionNotEmpty DEF mmInitRegion
<1> QED
  BY <1>2, <1>6, <1>7, <1>8, <1>9 DEF IInv, Init, HeapSound, HeapCoalesced, SlotToSpare

\* A sound table in which nothing was lost: slot 0 is in the list.
LEMMA SlotsAboveZero ==
  ASSUME NEW h \in Region, Sound(h)
  PROVE  h.slotsUsed \in 1..NumSlots
<1>1. IsFiniteSet(Linked(h))
  <2>1. IsFiniteSet(Slots)
    BY FS_Interval, RegionNotEmpty DEF Slots
  <2> QED
    BY <2>1, FS_Subset DEF Linked
<1>2. Cardinality(Linked(h)) # 0
  BY <1>1, FS_EmptySet DEF Sound
<1> QED
  BY <1>2, FieldTypes, RegionNotEmpty DEF Sound, StackSound

\* A request that finds a fit leaves the charged region ready for it.
LEMMA ChargedReady ==
  ASSUME IInv, ~TableFull, NEW u \in Nat, NEW i \in Fitting(u)
  PROVE  LET h == Charged(heap, u) IN
         /\ h \in Region /\ Sound(h) /\ Coalesced(h) /\ i \in Slots
         /\ h.slotsUsed \in 1..(NumSlots - 1) /\ h.slotsUsed + 1 \in 1..(NumSlots - 1)
         /\ i \in Free(h) /\ u <= h.size[i] /\ Extents(h) = Extents(heap)
         /\ h.loc = heap.loc /\ h.size = heap.size
<1> DEFINE h == Charged(heap, u)
<1>1. SameList(heap, h) /\ h.type = heap.type
  BY ChargedSame DEF IInv
<1>2. Linked(h) = Linked(heap) /\ Sound(h)
  BY <1>1, SameListSound DEF IInv, HeapSound
<1> HIDE DEF h
<1>3. Free(h) = Free(heap) /\ Used(h) = Used(heap)
  BY <1>1, <1>2 DEF Free, Used
<1>4. Coalesced(h) /\ Extents(h) = Extents(heap)
  BY <1>1, <1>3 DEF Coalesced, Extents, SameList, IInv, HeapCoalesced
<1>5. i \in Free(heap) /\ u <= heap.size[i] /\ i \in Slots
  <2>1. i \in Free(heap) /\ heap.size[i] >= u
    BY DEF Fitting
  <2>2. i \in Slots
    BY <2>1 DEF Free, Linked
  <2>3. heap.size[i] \in Nat
    BY <2>2, FieldTypes DEF IInv
  <2> QED BY <2>1, <2>2, <2>3
<1>6. h.slotsUsed \in 1..(NumSlots - 1) /\ h.slotsUsed + 1 \in 1..(NumSlots - 1)
  BY <1>1, RegionNotEmpty DEF SameList, IInv, SlotToSpare, TableFull
<1> QED
  BY <1>1, <1>2, <1>3, <1>4, <1>5, <1>6 DEF SameList, h

\* Every step keeps the invariant: one case per action.
LEMMA NextKeeps ==
  IInv /\ [Next]_vars => IInv'
<1> SUFFICES ASSUME IInv, [Next]_vars PROVE IInv'
  OBVIOUS
<1>1. ASSUME NEW bytes \in Requests, AllocHigh(bytes) PROVE IInv'
  <2> DEFINE u == RoundUp(bytes)
             h == Charged(heap, u)
  <2>1. PICK i \in Slots :
          /\ BestDown(i, u)
          /\ heap' = heapSpawnSlot(h, i, u)
          /\ live' = live \cup {<<heap.loc[i] + heap.size[i] - u, u>>}
    BY <1>1 DEF AllocHigh
  <2>2. ~TableFull /\ u \in Nat \ {0} /\ i \in Fitting(u)
    BY <1>1, <2>1, RoundUpPositive DEF AllocHigh, BestDown
  <2>3. /\ h \in Region /\ Sound(h) /\ Coalesced(h)
        /\ h.slotsUsed \in 1..(NumSlots - 1) /\ h.slotsUsed + 1 \in 1..(NumSlots - 1)
        /\ i \in Free(h) /\ u <= h.size[i] /\ Extents(h) = Extents(heap)
        /\ h.loc = heap.loc /\ h.size = heap.size
    BY <2>2, ChargedReady
  <2> HIDE DEF h, u
  <2>4. /\ heap' \in Region /\ Sound(heap') /\ Coalesced(heap')
        /\ Extents(heap') = Extents(heap) \cup {<<heap.loc[i] + heap.size[i] - u, u>>}
        /\ heap'.slotsUsed \in 1..(NumSlots - 1)
    BY <2>1, <2>2, <2>3, HighEnd
  <2> QED
    BY <2>1, <2>4 DEF IInv, HeapSound, HeapCoalesced, SlotToSpare, Extents, Used, Linked
<1>2. ASSUME NEW bytes \in Requests, AllocLow(bytes) PROVE IInv'
  <2> DEFINE u == RoundUp(bytes)
             h == Charged(heap, u)
  <2>1. PICK i \in Slots :
          /\ IF Region0 THEN FirstUp(i, u) ELSE BestUp(i, u)
          /\ heap' = changeHeapSlot(h, i, u)
          /\ live' = live \cup {<<heap.loc[i], u>>}
    BY <1>2 DEF AllocLow
  <2>2. ~TableFull /\ u \in Nat \ {0} /\ i \in Fitting(u)
    BY <1>2, <2>1, RoundUpPositive DEF AllocLow, BestUp, FirstUp
  <2>3. /\ h \in Region /\ Sound(h) /\ Coalesced(h)
        /\ h.slotsUsed \in 1..(NumSlots - 1) /\ h.slotsUsed + 1 \in 1..(NumSlots - 1)
        /\ i \in Free(h) /\ u <= h.size[i] /\ Extents(h) = Extents(heap)
        /\ h.loc = heap.loc /\ h.size = heap.size
    BY <2>2, ChargedReady
  <2> HIDE DEF h, u
  <2>4. /\ heap' \in Region /\ Sound(heap') /\ Coalesced(heap')
        /\ Extents(heap') = Extents(heap) \cup {<<heap.loc[i], u>>}
        /\ heap'.slotsUsed \in 1..(NumSlots - 1)
    BY <2>1, <2>2, <2>3, LowEnd
  <2> QED
    BY <2>1, <2>4 DEF IInv, HeapSound, HeapCoalesced, SlotToSpare, Extents, Used, Linked
<1>3. ASSUME NEW p \in 0..(Units - 1), mmFree(p) PROVE IInv'
  <2>1. PICK i \in Linked(heap) :
          /\ heap.loc[i] = p /\ heap.type[i] = 1
          /\ heap' = heapFree(heap, i)
          /\ live' = {b \in live : b[1] # p}
    BY <1>3 DEF mmFree
  <2>2. i \in Slots /\ i \in Used(heap)
    BY <2>1 DEF Linked, Used
  <2>3. /\ heap' \in Region /\ Sound(heap') /\ Coalesced(heap')
        /\ Extents(heap') = {e \in Extents(heap) : e[1] # p}
        /\ heap'.slotsUsed <= heap.slotsUsed
    BY <2>1, <2>2, FreeKeeps DEF IInv, HeapSound, HeapCoalesced
  <2>4. heap'.slotsUsed \in 1..(NumSlots - 1)
    <3>1. heap'.slotsUsed \in 1..NumSlots
      BY <2>3, SlotsAboveZero
    <3> QED BY <2>3, <3>1, RegionNotEmpty DEF IInv, SlotToSpare
  <2>5. live' = Extents(heap')
    BY <2>1, <2>3 DEF IInv
  <2> QED
    BY <2>3, <2>4, <2>5 DEF IInv, HeapSound, HeapCoalesced, SlotToSpare, Extents, Used, Linked
<1>4. CASE UNCHANGED vars
  BY <1>4 DEF vars, IInv, HeapSound, HeapCoalesced, SlotToSpare, Extents, Used, Linked,
     Sound, Coalesced, Free, StackSound, LinkedRight, LinkedLeft, Disjoint
<1> QED
  BY <1>1, <1>2, <1>3, <1>4 DEF Next

\* The inductive invariant holds throughout.
LEMMA Inductive == Spec => []IInv
BY InitSound, NextKeeps, PTL DEF Spec

\* Callers' blocks lie in the region and are not empty.
LEMMA TypeFromInv == IInv => TypeOK
<1> SUFFICES ASSUME IInv PROVE TypeOK
  OBVIOUS
<1>1. ASSUME NEW i \in Used(heap)
      PROVE  heap.loc[i] \in 0..(Units - 1) /\ heap.size[i] \in 1..Units
  <2>1. i \in Linked(heap) /\ heap.loc[i] \in Nat /\ heap.size[i] \in Nat
    BY FieldTypes DEF Used, Linked, IInv
  <2>2. heap.size[i] > 0 /\ heap.loc[i] + heap.size[i] <= Units
    BY <2>1 DEF IInv, HeapSound, Sound
  <2> QED BY <2>1, <2>2, RegionNotEmpty
<1> QED
  BY <1>1 DEF TypeOK, IInv, Extents

\* A coalesced region without used blocks is one block.
LEMMA EmptyFromInv == IInv => EmptyIsWhole
<1> SUFFICES ASSUME IInv, live = {}
             PROVE  heap.slotsUsed = 1 /\ heap.size[0] = Units /\ heap.next[0] = None
  BY DEF EmptyIsWhole
<1>1. heap \in Region /\ Sound(heap) /\ Coalesced(heap) /\ Used(heap) = {}
  BY DEF IInv, HeapSound, HeapCoalesced, Extents
<1>2. /\ 0 \in Linked(heap) /\ heap.prev[0] = None
      /\ \A i \in Linked(heap) :
           /\ heap.loc[i] \in Nat /\ heap.size[i] \in Nat
           /\ heap.size[i] > 0 /\ heap.loc[i] + heap.size[i] <= Units
           /\ LinkedRight(heap, i) /\ LinkedLeft(heap, i)
      /\ \A i, j \in Linked(heap) : i # j => Disjoint(heap, i, j)
  BY <1>1, FieldTypes DEF Sound, Linked
<1>3. heap.next[0] = None
  <2>1. \A i \in Linked(heap) : heap.type[i] = 0
    BY <1>1, FieldTypes DEF Used, Linked
  <2> QED
    BY <2>1, <1>1, <1>2 DEF Coalesced, Free, LinkedRight
<1>4. heap.loc[0] = 0 /\ heap.size[0] = Units
  BY <1>2, <1>3, RegionNotEmpty DEF LinkedRight, LinkedLeft
<1>5. Linked(heap) = {0}
  <2> SUFFICES ASSUME NEW j \in Linked(heap), j # 0 PROVE FALSE
    BY <1>2
  <2>1. Disjoint(heap, 0, j)
    BY <1>2
  <2> QED
    BY <2>1, <1>2, <1>4, RegionNotEmpty DEF Disjoint
<1>6. heap.slotsUsed = 1
  BY <1>1, <1>5, FS_Singleton DEF Sound, StackSound
<1> QED
  BY <1>3, <1>4, <1>6

------------------------------------------------------------------------------
\* The region's record keeps its type and callers hold blocks inside the region.
THEOREM TypeCorrect == Spec => []TypeOK
BY Inductive, TypeFromInv, PTL

\* heapSpawnSlot, changeHeapSlot and heapFree keep the table an exact map of the
\* region: linked both ways, in order, without gap, overlap or lost slot.
THEOREM AlwaysSound == Spec => []HeapSound
<1>1. IInv => HeapSound
  BY DEF IInv
<1> QED
  BY <1>1, Inductive, PTL

\* heapFree leaves no two free neighbours.
THEOREM AlwaysCoalesced == Spec => []HeapCoalesced
<1>1. IInv => HeapCoalesced
  BY DEF IInv
<1> QED
  BY <1>1, Inductive, PTL

\* The blocks callers hold are the used blocks of the table; as these are
\* disjoint, no two callers share memory.
THEOREM CallersOwnTheirBlocks == Spec => []LiveIsUsed
<1>1. IInv => LiveIsUsed
  BY DEF IInv, LiveIsUsed, Extents
<1> QED
  BY <1>1, Inductive, PTL

\* The table is the truth about the memory and about who owns it.
THEOREM AlwaysConsistent == Spec => []HeapConsistent
<1>1. HeapSound /\ HeapCoalesced /\ LiveIsUsed => HeapConsistent
  BY DEF HeapConsistent
<1> QED
  BY <1>1, AlwaysSound, AlwaysCoalesced, CallersOwnTheirBlocks, PTL

\* mmAllocFromRegion's test of the table always leaves a slot for the split.
THEOREM AlwaysASlot == Spec => []SlotToSpare
<1>1. IInv => SlotToSpare
  BY DEF IInv
<1> QED
  BY <1>1, Inductive, PTL

\* A region whose blocks have all been freed is as mmInitRegion left it.
THEOREM EmptyRegionIsWhole == Spec => []EmptyIsWhole
BY Inductive, EmptyFromInv, PTL

------------------------------------------------------------------------------
\* usedBytes.  The units in the used blocks of a sound table are counted once,
\* as used blocks do not overlap: a block cut from a free one adds its size, and
\* a used block that goes takes its own.
UnitsIn(b) == b[1]..(b[1] + b[2] - 1)
Stretch(l, u) == l..(l + u - 1)

LEMMA InBlocks ==
  ASSUME NEW blocks, NEW x
  PROVE  x \in UnitsOf(blocks) <=> \E b \in blocks : x \in UnitsIn(b)
<1>1. UnitsOf(blocks) = UNION {UnitsIn(b) : b \in blocks}
  BY DEF UnitsOf, UnitsIn
<1> QED
  BY <1>1, Zenon

LEMMA UnitsInPair ==
  ASSUME NEW l, NEW u
  PROVE  /\ UnitsIn(<<l, u>>) = Stretch(l, u)
         /\ <<l, u>>[1] = l
BY DEF UnitsIn, Stretch

\* A unit is in the used blocks when it is in one of them.
LEMMA InUse ==
  ASSUME NEW h, NEW x
  PROVE  x \in UnitsOf(Extents(h))
           <=> \E j \in Used(h) : x \in Stretch(h.loc[j], h.size[j])
<1>1. x \in UnitsOf(Extents(h)) <=> \E b \in Extents(h) : x \in UnitsIn(b)
  BY InBlocks
<1>2. \A b : b \in Extents(h) <=> \E j \in Used(h) : b = <<h.loc[j], h.size[j]>>
  BY DEF Extents
<1>3. \A j : UnitsIn(<<h.loc[j], h.size[j]>>) = Stretch(h.loc[j], h.size[j])
  BY UnitsInPair
<1>4. ASSUME x \in UnitsOf(Extents(h))
      PROVE  \E j \in Used(h) : x \in Stretch(h.loc[j], h.size[j])
  <2>1. PICK b \in Extents(h) : x \in UnitsIn(b)
    BY <1>1, <1>4
  <2>2. PICK j \in Used(h) : b = <<h.loc[j], h.size[j]>>
    BY <1>2
  <2>3. UnitsIn(b) = Stretch(h.loc[j], h.size[j])
    BY <1>3, <2>2
  <2> QED
    BY <2>1, <2>3
<1>5. ASSUME NEW j \in Used(h), x \in Stretch(h.loc[j], h.size[j])
      PROVE  x \in UnitsOf(Extents(h))
  <2>1. <<h.loc[j], h.size[j]>> \in Extents(h)
    BY <1>2
  <2> QED
    BY <1>1, <1>3, <1>5, <2>1
<1> QED
  BY <1>4, <1>5

\* What a sound table says of two of its blocks.
LEMMA BlocksApart ==
  ASSUME NEW h \in Region, Sound(h), NEW i \in Linked(h), NEW j \in Linked(h)
  PROVE  /\ h.loc[i] \in Nat /\ h.size[i] \in Nat \ {0}
         /\ h.loc[j] \in Nat /\ h.size[j] \in Nat \ {0}
         /\ h.loc[j] + h.size[j] <= Units
         /\ i # j => Disjoint(h, i, j)
<1>1. i \in Slots /\ j \in Slots
  BY DEF Linked
<1> QED
  BY <1>1, FieldTypes DEF Sound

\* They are units of the region.
LEMMA UsedUnitsFinite ==
  ASSUME NEW h \in Region, Sound(h)
  PROVE  /\ UnitsOf(Extents(h)) \subseteq 0..(Units - 1)
         /\ IsFiniteSet(UnitsOf(Extents(h)))
         /\ Cardinality(UnitsOf(Extents(h))) \in 0..Units
<1>1. UnitsOf(Extents(h)) \subseteq 0..(Units - 1)
  <2> SUFFICES ASSUME NEW x \in UnitsOf(Extents(h)) PROVE x \in 0..(Units - 1)
    OBVIOUS
  <2>1. PICK j \in Used(h) : x \in Stretch(h.loc[j], h.size[j])
    BY InUse
  <2>2. j \in Linked(h)
    BY DEF Used
  <2>3. h.loc[j] \in Nat /\ h.size[j] \in Nat /\ h.loc[j] + h.size[j] <= Units
    BY <2>2, BlocksApart
  <2> QED
    BY <2>1, <2>3, RegionNotEmpty DEF Stretch
<1>2. IsFiniteSet(0..(Units - 1)) /\ Cardinality(0..(Units - 1)) = Units
  BY FS_Interval, RegionNotEmpty
<1>3. /\ IsFiniteSet(UnitsOf(Extents(h)))
      /\ Cardinality(UnitsOf(Extents(h))) <= Units
  BY ONLY <1>1, <1>2, FS_Subset
<1>4. Cardinality(UnitsOf(Extents(h))) \in Nat
  BY <1>3, FS_CardinalityType
<1> QED
  BY <1>1, <1>3, <1>4, RegionNotEmpty

\* The units of one block.
LEMMA UnitsInBlock ==
  ASSUME NEW l \in Nat, NEW u \in Nat \ {0}
  PROVE  IsFiniteSet(Stretch(l, u)) /\ Cardinality(Stretch(l, u)) = u
BY FS_Interval DEF Stretch

\* Sets that share nothing are counted apart.
LEMMA CountedApart ==
  ASSUME NEW S, IsFiniteSet(S), NEW T, IsFiniteSet(T), S \cap T = {}
  PROVE  Cardinality(S \cup T) = Cardinality(S) + Cardinality(T)
<1>1. Cardinality(S \cup T) = Cardinality(S) + Cardinality(T) - Cardinality({})
  BY FS_Union
<1>2. Cardinality({}) = 0
  BY FS_EmptySet
<1>3. Cardinality(S) \in Nat /\ Cardinality(T) \in Nat
  BY FS_CardinalityType
<1> QED
  BY <1>1, <1>2, <1>3

\* A block cut from a free one adds its size.
LEMMA PieceCounted ==
  ASSUME NEW h \in Region, Sound(h), NEW i \in Free(h),
         NEW l \in Nat, NEW u \in Nat \ {0},
         h.loc[i] <= l, l + u <= h.loc[i] + h.size[i]
  PROVE  Cardinality(UnitsOf(Extents(h) \cup {<<l, u>>}))
           = Cardinality(UnitsOf(Extents(h))) + u
<1> DEFINE new == Stretch(l, u)
<1>1. UnitsOf(Extents(h) \cup {<<l, u>>}) = UnitsOf(Extents(h)) \cup new
  <2>1. UnitsIn(<<l, u>>) = new
    BY UnitsInPair
  <2>2. \A x : x \in UnitsOf(Extents(h) \cup {<<l, u>>})
                 <=> \E b \in Extents(h) \cup {<<l, u>>} : x \in UnitsIn(b)
    BY InBlocks
  <2>3. \A x : x \in UnitsOf(Extents(h)) <=> \E b \in Extents(h) : x \in UnitsIn(b)
    BY InBlocks
  <2> HIDE DEF new
  <2> QED
    BY ONLY <2>1, <2>2, <2>3, Zenon
<1>2. UnitsOf(Extents(h)) \cap new = {}
  <2> SUFFICES ASSUME NEW x \in UnitsOf(Extents(h)), x \in new PROVE FALSE
    OBVIOUS
  <2>1. PICK j \in Used(h) : x \in Stretch(h.loc[j], h.size[j])
    BY InUse
  <2>2. i \in Linked(h) /\ j \in Linked(h) /\ i # j
    BY DEF Used, Free
  <2>3. /\ h.loc[i] \in Nat /\ h.size[i] \in Nat
        /\ h.loc[j] \in Nat /\ h.size[j] \in Nat /\ Disjoint(h, i, j)
    BY <2>2, BlocksApart
  <2> QED
    BY <2>1, <2>3 DEF Disjoint, Stretch
<1>3. IsFiniteSet(new) /\ Cardinality(new) = u
  BY UnitsInBlock
<1>4. IsFiniteSet(UnitsOf(Extents(h)))
  BY UsedUnitsFinite
<1> QED
  BY ONLY <1>1, <1>2, <1>3, <1>4, CountedApart

\* A used block that goes takes its size.
LEMMA BlockCounted ==
  ASSUME NEW h \in Region, Sound(h), NEW i \in Used(h)
  PROVE  Cardinality(UnitsOf({e \in Extents(h) : e[1] # h.loc[i]}))
           = Cardinality(UnitsOf(Extents(h))) - h.size[i]
<1> DEFINE gone == Stretch(h.loc[i], h.size[i])
           rest == {e \in Extents(h) : e[1] # h.loc[i]}
<1>1. i \in Linked(h)
  BY DEF Used
<1>2. h.loc[i] \in Nat /\ h.size[i] \in Nat \ {0}
  BY <1>1, BlocksApart
<1>3. ASSUME NEW x
      PROVE  x \in UnitsOf(rest)
               <=> \E j \in Used(h) : /\ h.loc[j] # h.loc[i]
                                      /\ x \in Stretch(h.loc[j], h.size[j])
  <2>1. x \in UnitsOf(rest) <=> \E b \in rest : x \in UnitsIn(b)
    BY InBlocks
  <2>2. \A b : b \in Extents(h) <=> \E j \in Used(h) : b = <<h.loc[j], h.size[j]>>
    BY DEF Extents
  <2>3. \A b : b \in rest
                 <=> \E j \in Used(h) : /\ h.loc[j] # h.loc[i]
                                        /\ b = <<h.loc[j], h.size[j]>>
    BY ONLY <2>2, UnitsInPair
  <2>4. \A j : UnitsIn(<<h.loc[j], h.size[j]>>) = Stretch(h.loc[j], h.size[j])
    BY UnitsInPair
  <2> HIDE DEF rest
  <2>5. ASSUME x \in UnitsOf(rest)
        PROVE  \E j \in Used(h) : /\ h.loc[j] # h.loc[i]
                                  /\ x \in Stretch(h.loc[j], h.size[j])
    <3>1. PICK b \in rest : x \in UnitsIn(b)
      BY <2>1, <2>5
    <3>2. PICK j \in Used(h) : h.loc[j] # h.loc[i] /\ b = <<h.loc[j], h.size[j]>>
      BY <2>3
    <3>3. UnitsIn(b) = Stretch(h.loc[j], h.size[j])
      BY <2>4, <3>2
    <3> QED
      BY <3>1, <3>2, <3>3
  <2>6. ASSUME NEW j \in Used(h), h.loc[j] # h.loc[i],
               x \in Stretch(h.loc[j], h.size[j])
        PROVE  x \in UnitsOf(rest)
    <3>1. <<h.loc[j], h.size[j]>> \in rest
      BY <2>3, <2>6
    <3> QED
      BY <2>1, <2>4, <2>6, <3>1
  <2> QED
    BY <2>5, <2>6
<1>4. ASSUME NEW j \in Used(h), j # i
      PROVE  /\ h.loc[j] # h.loc[i]
             /\ gone \cap Stretch(h.loc[j], h.size[j]) = {}
  <2>1. j \in Linked(h)
    BY DEF Used
  <2>2. h.loc[j] \in Nat /\ h.size[j] \in Nat \ {0} /\ Disjoint(h, i, j)
    BY <1>1, <1>4, <2>1, BlocksApart
  <2> QED
    BY <1>2, <2>2 DEF Disjoint, Stretch
<1>5. UnitsOf(rest) \cap gone = {}
  BY <1>3, <1>4
<1>6. UnitsOf(Extents(h)) = UnitsOf(rest) \cup gone
  BY <1>3, <1>4, InUse
<1> HIDE DEF gone, rest
<1>7. IsFiniteSet(gone) /\ Cardinality(gone) = h.size[i]
  BY <1>2, UnitsInBlock DEF gone
<1>8. IsFiniteSet(UnitsOf(rest))
  BY <1>6, UsedUnitsFinite, FS_Subset
<1>9. Cardinality(UnitsOf(Extents(h))) = Cardinality(UnitsOf(rest)) + h.size[i]
  BY <1>5, <1>6, <1>7, <1>8, CountedApart
<1>10. Cardinality(UnitsOf(rest)) \in Nat
  BY <1>8, FS_CardinalityType
<1> QED
  BY <1>2, <1>9, <1>10 DEF rest

\* The operations on the table leave the count alone, but for heapFree.
LEMMA SpentBySplit ==
  ASSUME NEW h \in Region, NEW i, NEW at, NEW t
  PROVE  /\ Split(h, i, at).usedBytes = h.usedBytes
         /\ Mark(h, i, t).usedBytes = h.usedBytes
BY DEF Split, Mark, Region

LEMMA SpentByMark ==
  ASSUME NEW h, NEW i, NEW t
  PROVE  Mark(h, i, t).usedBytes = h.usedBytes
BY DEF Mark

LEMMA SpentByAllocation ==
  ASSUME NEW h \in Region, NEW i, NEW u
  PROVE  /\ changeHeapSlot(h, i, u).usedBytes = h.usedBytes
         /\ heapSpawnSlot(h, i, u).usedBytes = h.usedBytes
BY SpentBySplit, SpentByMark DEF changeHeapSlot, heapSpawnSlot

LEMMA SpentByMerge ==
  ASSUME NEW h, NEW i
  PROVE  /\ MergeNext(h, i).usedBytes = h.usedBytes
         /\ MergePrev(h, i).usedBytes = h.usedBytes
BY DEF MergeNext, MergePrev, Absorb

LEMMA SpentByFree ==
  ASSUME NEW h \in Region, NEW i
  PROVE  heapFree(h, i).usedBytes = h.usedBytes - h.size[i]
<1> DEFINE freed == [Mark(h, i, 0) EXCEPT !.usedBytes = @ - h.size[i]]
<1>1. freed.usedBytes = h.usedBytes - h.size[i]
  BY DEF Mark, Region
<1> HIDE DEF freed
<1> QED
  BY <1>1, SpentByMerge DEF heapFree, freed

\* usedBytes is the memory in the used blocks.
Counted == heap.usedBytes = Cardinality(UnitsOf(Extents(heap)))

LEMMA InitCounted == Init => Counted
<1> SUFFICES ASSUME Init PROVE Counted
  OBVIOUS
<1>1. live = {} /\ live = Extents(heap) /\ heap.usedBytes = 0
  BY InitSound DEF Init, IInv, mmInitRegion
<1>2. UnitsOf({}) = {}
  BY InBlocks
<1> QED
  BY <1>1, <1>2, FS_EmptySet DEF Counted

LEMMA NextCounts == IInv /\ Counted /\ [Next]_vars => Counted'
<1> SUFFICES ASSUME IInv, Counted, [Next]_vars PROVE Counted'
  OBVIOUS
<1> DEFINE count(blocks) == Cardinality(UnitsOf(blocks))
<1>1. /\ heap \in Region /\ Sound(heap) /\ heap.usedBytes = count(live)
      /\ live = Extents(heap) /\ live' = Extents(heap')
  <2>1. IInv'
    BY NextKeeps
  <2>2. live' = Extents(heap')
    BY <2>1 DEF IInv, Extents, Used, Linked
  <2> QED
    BY <2>2 DEF IInv, HeapSound, Counted
<1>2. SUFFICES heap'.usedBytes = count(live')
  BY <1>1 DEF Counted, Extents, Used, Linked
<1> HIDE DEF count
<1>3. ASSUME NEW u \in Nat \ {0}, NEW i \in Fitting(u), NEW l \in Nat,
             heap.loc[i] <= l, l + u <= heap.loc[i] + heap.size[i],
             live' = live \cup {<<l, u>>}, heap'.usedBytes = heap.usedBytes + u
      PROVE  heap'.usedBytes = count(live')
  <2>1. i \in Free(heap)
    BY DEF Fitting
  <2>2. count(live \cup {<<l, u>>}) = count(live) + u
    BY <1>1, <1>3, <2>1, PieceCounted DEF count
  <2> QED
    BY <1>1, <1>3, <2>2
<1>4. ASSUME NEW u \in Nat \ {0}, NEW i \in Fitting(u)
      PROVE  /\ heap.loc[i] \in Nat /\ heap.size[i] \in Nat /\ u <= heap.size[i]
             /\ Charged(heap, u) \in Region
             /\ Charged(heap, u).usedBytes = heap.usedBytes + u
  <2>1. i \in Slots /\ heap.size[i] >= u
    BY DEF Fitting, Free, Linked
  <2>2. heap.loc[i] \in Nat /\ heap.size[i] \in Nat
    BY <1>1, <2>1, FieldTypes
  <2>3. Charged(heap, u) \in Region
    BY <1>1, ChargedSame DEF SameList
  <2>4. Charged(heap, u).usedBytes = heap.usedBytes + u
    BY <1>1 DEF Charged, Region
  <2> QED
    BY <2>1, <2>2, <2>3, <2>4
<1>5. ASSUME NEW bytes \in Requests, AllocHigh(bytes)
      PROVE  heap'.usedBytes = count(live')
  <2>1. PICK u \in Nat \ {0} : u = RoundUp(bytes)
    BY RoundUpPositive
  <2>2. PICK i \in Slots :
          /\ BestDown(i, u)
          /\ heap' = heapSpawnSlot(Charged(heap, u), i, u)
          /\ live' = live \cup {<<heap.loc[i] + heap.size[i] - u, u>>}
    BY <1>5, <2>1 DEF AllocHigh
  <2>3. i \in Fitting(u)
    BY <2>2 DEF BestDown
  <2>4. /\ heap.loc[i] \in Nat /\ heap.size[i] \in Nat /\ u <= heap.size[i]
        /\ heap'.usedBytes = heap.usedBytes + u
    BY <1>4, <2>2, <2>3, SpentByAllocation
  <2>5. PICK l \in Nat : l = heap.loc[i] + heap.size[i] - u
    BY <2>1, <2>4
  <2>6. heap.loc[i] <= l /\ l + u <= heap.loc[i] + heap.size[i]
    BY <2>1, <2>4, <2>5
  <2>7. live' = live \cup {<<l, u>>}
    BY <2>2, <2>5
  <2> QED
    BY <1>3, <2>1, <2>3, <2>4, <2>5, <2>6, <2>7
<1>6. ASSUME NEW bytes \in Requests, AllocLow(bytes)
      PROVE  heap'.usedBytes = count(live')
  <2>1. PICK u \in Nat \ {0} : u = RoundUp(bytes)
    BY RoundUpPositive
  <2>2. PICK i \in Slots :
          /\ IF Region0 THEN FirstUp(i, u) ELSE BestUp(i, u)
          /\ heap' = changeHeapSlot(Charged(heap, u), i, u)
          /\ live' = live \cup {<<heap.loc[i], u>>}
    BY <1>6, <2>1 DEF AllocLow
  <2>3. i \in Fitting(u)
    BY <2>2 DEF BestUp, FirstUp
  <2>4. /\ heap.loc[i] \in Nat /\ heap.size[i] \in Nat /\ u <= heap.size[i]
        /\ heap'.usedBytes = heap.usedBytes + u
    BY <1>4, <2>2, <2>3, SpentByAllocation
  <2>5. PICK l \in Nat : l = heap.loc[i]
    BY <2>4
  <2>6. heap.loc[i] <= l /\ l + u <= heap.loc[i] + heap.size[i]
    BY <2>1, <2>4, <2>5
  <2>7. live' = live \cup {<<l, u>>}
    BY <2>2, <2>5
  <2> QED
    BY <1>3, <2>1, <2>3, <2>4, <2>5, <2>6, <2>7
<1>7. ASSUME NEW p \in 0..(Units - 1), mmFree(p)
      PROVE  heap'.usedBytes = count(live')
  <2>1. PICK i \in Linked(heap) :
          /\ heap.loc[i] = p /\ heap.type[i] = 1
          /\ heap' = heapFree(heap, i)
          /\ live' = {b \in live : b[1] # p}
    BY <1>7 DEF mmFree
  <2>2. i \in Used(heap)
    BY <2>1 DEF Used
  <2>3. count(live') = count(live) - heap.size[i]
    BY <1>1, <2>1, <2>2, BlockCounted DEF count
  <2>4. heap'.usedBytes = heap.usedBytes - heap.size[i]
    BY <1>1, <2>1, SpentByFree
  <2> QED
    BY <1>1, <2>3, <2>4
<1>8. CASE UNCHANGED vars
  <2>1. heap' = heap /\ live' = live
    BY <1>8 DEF vars
  <2> QED
    BY <1>1, <2>1
<1> QED
  BY <1>5, <1>6, <1>7, <1>8 DEF Next

LEMMA CountedFits == IInv /\ Counted => UsedBytesExact
<1> SUFFICES ASSUME IInv, Counted PROVE UsedBytesExact
  OBVIOUS
<1>1. heap \in Region /\ Sound(heap) /\ live = Extents(heap)
  BY DEF IInv, HeapSound
<1> QED
  BY <1>1, UsedUnitsFinite DEF Counted, UsedBytesExact

\* usedBytes is the memory that callers hold, whatever was merged between the
\* request that charged it and the free that credits it: the corruption check of
\* the heap has nothing to find.
THEOREM UsedBytesAlwaysExact == Spec => []UsedBytesExact
<1>1. Spec => []Counted
  BY Inductive, InitCounted, NextCounts, PTL DEF Spec
<1> QED
  BY <1>1, Inductive, CountedFits, PTL
=============================================================================
