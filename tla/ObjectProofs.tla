---------------------------- MODULE ObjectProofs ----------------------------
\* That the lists of objects in object.c stay sound under everything game code may
\* do while a scan is under way, for any objects and slots, any capacity of the
\* deferred list and any size of the pools; and that the shared array of objlib.c
\* keeps its groups, for any number of objects and groups, while the entries in use
\* fit the array and the bytes that count them.
EXTENDS ObjectList, ObjectTypes, FiniteSetTheorems, FunctionTheorems, SequenceTheorems,
        WellFoundedInduction, TLAPS

\* Natural numbers: what holds of 0 and goes from each to the next holds of all,
\* and a set of them that is not empty has a least one.
LEMMA NaturalsReached ==
  ASSUME NEW S, 0 \in S, \A k \in Nat : k \in S => k + 1 \in S
  PROVE  Nat \subseteq S
<1> DEFINE T == Nat \ S
<1> SUFFICES ASSUME T # {} PROVE FALSE
  OBVIOUS
<1>1. IsWellFoundedOn(OpToRel(<, Nat), Nat)
  BY NatLessThanWellFounded, Zenon
<1>2. PICK x \in T : \A y \in T : ~(<<y, x>> \in OpToRel(<, Nat))
  <2> HIDE DEF T
  <2>1. T \subseteq Nat
    BY DEF T
  <2> QED BY <1>1, <2>1, WFMin, Zenon
<1>3. x \in Nat /\ x # 0
  OBVIOUS
<1>4. x - 1 \in Nat /\ x - 1 < x /\ (x - 1) + 1 = x
  BY <1>3
<1>5. <<x - 1, x>> \in OpToRel(<, Nat)
  BY <1>3, <1>4, Zenon DEF OpToRel
<1>6. x - 1 \in S
  BY <1>2, <1>4, <1>5
<1> QED BY <1>4, <1>6

LEMMA LeastOne ==
  ASSUME NEW S \in SUBSET Nat, S # {}
  PROVE  \E k \in S : \A j \in S : k <= j
<1> DEFINE T == {k \in Nat : \A j \in S : k <= j}
<1> SUFFICES ASSUME \A k \in S : k \notin T PROVE FALSE
  OBVIOUS
<1>1. 0 \in T
  OBVIOUS
<1>2. ASSUME NEW k \in Nat, k \in T PROVE k + 1 \in T
  <2>1. ASSUME NEW j \in S PROVE k + 1 <= j
    <3>1. j \in Nat /\ k <= j /\ j # k
      BY <1>2
    <3> QED BY <3>1
  <2> QED BY <2>1
<1> HIDE DEF T
<1>3. Nat \subseteq T
  BY <1>1, <1>2, NaturalsReached
<1> QED BY <1>3

------------------------------------------------------------------------------
\* The linked list.  Nth follows the links from the head.
UpdateList == [head : Obj \cup {None}, next : [Obj -> Obj \cup {None}]]

Follows(list, f, k) ==
  /\ f[0] = list.head
  /\ \A j \in 1 .. k :
       f[j] = IF f[j - 1] = None THEN None ELSE list.next[f[j - 1]]

LEMMA FollowsExists ==
  ASSUME NEW list, NEW k \in Nat
  PROVE  \E f : Follows(list, f, k)
<1> DEFINE N == {j \in Nat : \E f : Follows(list, f, j)}
<1>1. 0 \in N
  <2>1. Follows(list, [j \in {0} |-> list.head], 0)
    BY DEF Follows
  <2> QED BY <2>1
<1>2. ASSUME NEW j \in Nat, j \in N PROVE j + 1 \in N
  <2>1. PICK f : Follows(list, f, j)
    BY <1>2
  <2> DEFINE g == [h \in 0 .. (j + 1) |->
                     IF h = j + 1 THEN IF f[j] = None THEN None ELSE list.next[f[j]]
                     ELSE f[h]]
  <2>2. g[0] = list.head
    BY <2>1 DEF Follows
  <2>3. ASSUME NEW h \in 1 .. (j + 1)
        PROVE  g[h] = IF g[h - 1] = None THEN None ELSE list.next[g[h - 1]]
    <3>1. h - 1 \in 0 .. (j + 1) /\ h - 1 # j + 1
      OBVIOUS
    <3>2. g[h - 1] = f[h - 1]
      BY <3>1
    <3>3. CASE h = j + 1
      <4>1. h - 1 = j
        BY <3>3
      <4> QED BY <3>2, <3>3, <4>1
    <3>4. CASE h # j + 1
      <4>1. h \in 1 .. j /\ g[h] = f[h]
        BY <3>4
      <4> QED BY <2>1, <3>2, <4>1 DEF Follows
    <3> QED BY <3>3, <3>4
  <2> HIDE DEF g
  <2>4. Follows(list, g, j + 1)
    BY <2>2, <2>3 DEF Follows
  <2> QED BY <2>4
<1> HIDE DEF N
<1>3. k \in N
  BY <1>1, <1>2, NaturalsReached
<1> QED BY <1>3 DEF N

LEMMA FollowsUnique ==
  ASSUME NEW list, NEW k \in Nat, NEW f, NEW g, Follows(list, f, k), Follows(list, g, k)
  PROVE  f[k] = g[k]
<1> DEFINE N == {j \in Nat : j \in 0 .. k => f[j] = g[j]}
<1>1. 0 \in N
  BY DEF Follows
<1>2. ASSUME NEW j \in Nat, j \in N PROVE j + 1 \in N
  <2> SUFFICES ASSUME j + 1 \in 0 .. k PROVE f[j + 1] = g[j + 1]
    OBVIOUS
  <2>1. j + 1 \in 1 .. k /\ (j + 1) - 1 = j /\ j \in 0 .. k
    OBVIOUS
  <2> QED BY <1>2, <2>1 DEF Follows
<1> HIDE DEF N
<1>3. k \in N
  BY <1>1, <1>2, NaturalsReached
<1> QED BY <1>3 DEF N

LEMMA NthDef ==
  ASSUME NEW list
  PROVE  /\ Nth(list)[0] = list.head
         /\ \A k \in Nat : Nth(list)[k + 1] =
              IF Nth(list)[k] = None THEN None ELSE list.next[Nth(list)[k]]
<1> DEFINE Rec(f) == f = [k \in Nat |->
                            IF k = 0 THEN list.head
                            ELSE IF f[k - 1] = None THEN None ELSE list.next[f[k - 1]]]
           at == CHOOSE f : Rec(f)
           steps(k) == CHOOSE f : Follows(list, f, k)
           g == [k \in Nat |-> steps(k)[k]]
<1>1. Nth(list) = at
  BY DEF Nth
<1>2. ASSUME NEW k \in Nat PROVE Follows(list, steps(k), k)
  BY FollowsExists
<1> HIDE DEF steps
<1>3. g[0] = list.head
  BY <1>2 DEF Follows
<1>4. ASSUME NEW k \in Nat, k # 0
      PROVE  g[k] = IF g[k - 1] = None THEN None ELSE list.next[g[k - 1]]
  <2>1. k - 1 \in Nat /\ k \in 1 .. k
    BY <1>4
  <2>2. Follows(list, steps(k), k - 1)
    BY <1>2, <2>1 DEF Follows
  <2>3. steps(k)[k - 1] = steps(k - 1)[k - 1]
    BY <1>2, <2>1, <2>2, FollowsUnique
  <2>4. steps(k)[k] = IF steps(k)[k - 1] = None THEN None ELSE list.next[steps(k)[k - 1]]
    BY <1>2, <2>1 DEF Follows
  <2> QED BY <2>1, <2>3, <2>4
<1>5. g = [k \in Nat |->
             IF k = 0 THEN list.head
             ELSE IF g[k - 1] = None THEN None ELSE list.next[g[k - 1]]]
  BY <1>3, <1>4
<1>6. Rec(at)
  BY <1>5
<1> HIDE DEF at
<1>7. at[0] = list.head
  BY <1>6
<1>8. ASSUME NEW k \in Nat
      PROVE  at[k + 1] = IF at[k] = None THEN None ELSE list.next[at[k]]
  <2>1. k + 1 \in Nat /\ k + 1 # 0 /\ (k + 1) - 1 = k
    OBVIOUS
  <2>2. \A j \in Nat : j # 0 => at[j] = IF at[j - 1] = None THEN None ELSE list.next[at[j - 1]]
    BY <1>6
  <2> QED BY <2>1, <2>2
<1> QED BY <1>1, <1>7, <1>8

\* A list that ends: its objects C by increasing rank.  The ranks are of the
\* proof; in the code there is only the order of the links.
Ranks == {rank \in [Obj -> Nat] : \E top \in Nat : \A o \in Obj : rank[o] < top}

Ranked(list, C, rank) ==
  /\ \A x, y \in C : rank[x] = rank[y] => x = y
  /\ list.head = None => C = {}
  /\ list.head # None => list.head \in C /\ \A x \in C : rank[list.head] <= rank[x]
  /\ \A x \in C : list.next[x] = None => \A z \in C : rank[z] <= rank[x]
  /\ \A x \in C : list.next[x] # None =>
       /\ list.next[x] \in C
       /\ rank[x] < rank[list.next[x]]
       /\ \A z \in C : rank[z] <= rank[x] \/ rank[list.next[x]] <= rank[z]

\* From the head every object of the list is met, by increasing rank.
Met(at, x, k) == \E j \in 0 .. (k - 1) : at[j] = x
Meets(at, C, rank, k) ==
  /\ at[k] \in C \cup {None}
  /\ at[k] # None => \A x \in C : rank[x] < rank[at[k]] => Met(at, x, k)
  /\ at[k] = None => \A x \in C : Met(at, x, k)

LEMMA NthMeets ==
  ASSUME NEW list \in UpdateList, NEW C \in SUBSET Obj, NEW rank \in Ranks,
         Ranked(list, C, rank)
  PROVE  \A k \in Nat : Meets(Nth(list), C, rank, k)
<1> DEFINE at == Nth(list)
           N == {k \in Nat : Meets(at, C, rank, k)}
<1>1. /\ at[0] = list.head
      /\ \A k \in Nat : at[k + 1] = IF at[k] = None THEN None ELSE list.next[at[k]]
  BY NthDef
<1>2. None \notin Obj /\ \A x \in C : rank[x] \in Nat
  BY ObjectConstants DEF Ranks
<1> HIDE DEF at
<1>3. 0 \in N
  BY <1>1, <1>2 DEF Ranked, Meets, Met
<1>4. ASSUME NEW k \in Nat, k \in N PROVE k + 1 \in N
  <2> USE DEF Meets
  <2>1. \A x : Met(at, x, k) => Met(at, x, k + 1)
    BY DEF Met
  <2>2. Met(at, at[k], k + 1)
    BY DEF Met
  <2>3. CASE at[k] = None
    <3>1. at[k + 1] = None
      BY <1>1, <2>3
    <3> QED BY <1>4, <2>1, <2>3, <3>1
  <2>4. CASE at[k] # None
    <3>1. at[k] \in C /\ at[k + 1] = list.next[at[k]]
      BY <1>1, <1>4, <2>4
    <3>2. at[k + 1] \in C \cup {None}
      BY <3>1 DEF Ranked
    <3>3. ASSUME NEW x \in C, rank[x] <= rank[at[k]] PROVE Met(at, x, k + 1)
      <4>1. CASE x = at[k]
        BY <2>2, <4>1
      <4>2. CASE x # at[k]
        <5>1. rank[x] # rank[at[k]]
          BY <3>1, <4>2 DEF Ranked
        <5>2. rank[x] < rank[at[k]]
          BY <1>2, <3>1, <3>3, <5>1
        <5> QED BY <1>4, <2>1, <2>4, <5>2
      <4> QED BY <4>1, <4>2
    <3>4. ASSUME at[k + 1] = None, NEW x \in C PROVE Met(at, x, k + 1)
      <4>1. rank[x] <= rank[at[k]]
        BY <3>1, <3>4 DEF Ranked
      <4> QED BY <3>3, <4>1
    <3>5. ASSUME at[k + 1] # None, NEW x \in C, rank[x] < rank[at[k + 1]]
          PROVE  Met(at, x, k + 1)
      <4>1. rank[x] <= rank[at[k]] \/ rank[at[k + 1]] <= rank[x]
        BY <3>1, <3>5 DEF Ranked
      <4>2. at[k + 1] \in C
        BY <3>2, <3>5
      <4>3. rank[x] <= rank[at[k]]
        BY <1>2, <3>1, <3>5, <4>1, <4>2
      <4> QED BY <3>3, <4>3
    <3> QED BY <3>2, <3>4, <3>5
  <2> QED BY <2>3, <2>4
<1> HIDE DEF N
<1>5. Nat \subseteq N
  BY <1>3, <1>4, NaturalsReached
<1> QED BY <1>5 DEF N, at

LEMMA NthRises ==
  ASSUME NEW list \in UpdateList, NEW C \in SUBSET Obj, NEW rank \in Ranks,
         Ranked(list, C, rank)
  PROVE  \A k \in Nat : Nth(list)[k] # None =>
           \A j \in 0 .. (k - 1) :
             Nth(list)[j] # None /\ rank[Nth(list)[j]] < rank[Nth(list)[k]]
<1> DEFINE at == Nth(list)
           N == {k \in Nat : at[k] # None =>
                   \A j \in 0 .. (k - 1) : at[j] # None /\ rank[at[j]] < rank[at[k]]}
<1>1. \A k \in Nat : at[k + 1] = IF at[k] = None THEN None ELSE list.next[at[k]]
  BY NthDef
<1>2. /\ \A k \in Nat : at[k] \in C \cup {None}
      /\ \A x \in C : rank[x] \in Nat
  BY NthMeets DEF Ranks, Meets
<1> HIDE DEF at
<1>3. 0 \in N
  OBVIOUS
<1>4. ASSUME NEW k \in Nat, k \in N PROVE k + 1 \in N
  <2> SUFFICES ASSUME at[k + 1] # None, NEW j \in 0 .. ((k + 1) - 1)
               PROVE  at[j] # None /\ rank[at[j]] < rank[at[k + 1]]
    OBVIOUS
  <2>1. at[k] # None /\ at[k + 1] = list.next[at[k]]
    BY <1>1
  <2>2. at[k] \in C /\ at[k + 1] \in C
    BY <1>2, <2>1
  <2>3. rank[at[k]] < rank[at[k + 1]]
    BY <2>1, <2>2 DEF Ranked
  <2>4. CASE j = k
    BY <2>1, <2>3, <2>4
  <2>5. CASE j # k
    <3>1. j \in 0 .. (k - 1) /\ j \in Nat
      BY <2>5
    <3>2. at[j] # None /\ rank[at[j]] < rank[at[k]]
      BY <1>4, <2>1, <3>1
    <3>3. at[j] \in C
      BY <1>2, <3>1, <3>2
    <3> QED BY <1>2, <2>2, <2>3, <3>2, <3>3
  <2> QED BY <2>4, <2>5
<1> HIDE DEF N
<1>5. Nat \subseteq N
  BY <1>3, <1>4, NaturalsReached
<1> QED BY <1>5 DEF N, at

\* The list ends after its objects, and they are its chain.
LEMMA ChainOf ==
  ASSUME NEW list \in UpdateList, NEW C \in SUBSET Obj, NEW rank \in Ranks,
         Ranked(list, C, rank)
  PROVE  /\ Chain(list) = C
         /\ \A k \in Nat : Cardinality(C) <= k => Nth(list)[k] = None
<1> DEFINE at == Nth(list)
           m == Cardinality(C)
<1>1. IsFiniteSet(Obj) /\ None \notin Obj
  BY ObjectConstants
<1>2. IsFiniteSet(C) /\ m \in Nat /\ Cardinality(Obj) \in Nat /\ m <= Cardinality(Obj)
  BY <1>1, FS_Subset, FS_CardinalityType
<1>3. /\ \A k \in Nat : at[k] \in C \cup {None}
      /\ \A k \in Nat : at[k] = None =>
           \A x \in C : \E j \in 0 .. (k - 1) : at[j] = x
  <2>1. \A k \in Nat : Meets(at, C, rank, k)
    BY NthMeets
  <2> HIDE DEF at
  <2> QED BY ONLY <2>1 DEF Meets, Met
<1>4. \A k \in Nat : at[k] # None =>
        \A j \in 0 .. (k - 1) : at[j] # None /\ rank[at[j]] < rank[at[k]]
  BY NthRises
<1>5. \A x \in C : rank[x] \in Nat
  BY DEF Ranks
<1> HIDE DEF at, m
<1>6. at[m] = None
  <2> SUFFICES ASSUME at[m] # None PROVE FALSE
    OBVIOUS
  <2> DEFINE f == [j \in 0 .. m |-> at[j]]
  <2>1. ASSUME NEW j \in 0 .. m PROVE at[j] \in C
    BY <1>2, <1>3, <1>4
  <2>2. f \in [0 .. m -> C]
    BY <2>1
  <2>3. IsFiniteSet(0 .. m) /\ Cardinality(0 .. m) = m + 1
    BY <1>2, FS_Interval
  <2> HIDE DEF f
  <2>4. PICK x, y \in 0 .. m : x # y /\ f[x] = f[y]
    <3>1. Cardinality(C) < Cardinality(0 .. m) /\ IsFiniteSet(C)
      BY <1>2, <2>3 DEF m
    <3> QED BY ONLY <2>2, <2>3, <3>1, FS_PigeonHole
  <2> USE DEF f
  <2>5. at[x] = at[y] /\ at[x] \in C /\ at[y] \in C
    BY <2>1, <2>4
  <2>6. rank[at[x]] \in Nat
    BY <1>5, <2>5
  <2>7. CASE x < y
    BY <1>1, <1>2, <1>4, <2>5, <2>6, <2>7
  <2>8. CASE y < x
    BY <1>1, <1>2, <1>4, <2>5, <2>6, <2>8
  <2> QED BY <1>2, <2>4, <2>7, <2>8
<1>7. ASSUME NEW k \in Nat, m <= k PROVE at[k] = None
  <2>1. CASE k = m
    BY <1>6, <2>1
  <2>2. CASE k # m
    BY <1>2, <1>4, <1>6, <1>7, <2>2
  <2> QED BY <2>1, <2>2
<1>8. Chain(list) = C
  <2>1. ASSUME NEW x \in C PROVE x \in Chain(list)
    <3>1. PICK j \in 0 .. (m - 1) : at[j] = x
      BY <1>2, <1>3, <1>6
    <3>2. j \in Indices
      BY <1>2, <3>1 DEF Indices
    <3> QED BY <1>1, <3>1, <3>2 DEF Chain, at
  <2>2. ASSUME NEW x \in Chain(list) PROVE x \in C
    <3>1. PICK k \in Indices : x = at[k] /\ x # None
      BY DEF Chain, at
    <3>2. k \in Nat
      BY <1>2 DEF Indices
    <3> QED BY <1>3, <3>1, <3>2
  <2> QED BY <2>1, <2>2
<1> QED BY <1>7, <1>8 DEF at, m

------------------------------------------------------------------------------
\* Where an object comes in.  Its rank is put between those of higher slots and
\* the others; the ranks of the rest keep their order.
SlotOrdered(D, rank) ==
  \A x, y \in D :
    /\ rank[x] = rank[y] => x = y
    /\ rank[x] < rank[y] => Slot[x] >= Slot[y]

Cuts(D, rank, z, cut) == \A d \in D \ {z} : Slot[z] < Slot[d] <=> rank[d] < cut

Moved(rank, z, cut) == [o \in Obj |-> IF o = z THEN 2 * cut ELSE 2 * rank[o] + 1]

LEMMA CutExists ==
  ASSUME NEW D \in SUBSET Obj, NEW z \in Obj, NEW rank \in Ranks, SlotOrdered(D, rank)
  PROVE  \E cut \in Nat : Cuts(D, rank, z, cut)
<1> DEFINE above(k) == \A d \in D \ {z} : Slot[z] < Slot[d] => rank[d] < k
           S == {k \in Nat : above(k)}
<1>1. PICK top \in Nat : \A o \in Obj : rank[o] < top
  BY DEF Ranks
<1>2. top \in S
  BY <1>1
<1>3. S \in SUBSET Nat /\ S # {}
  BY <1>2
<1>4. PICK cut \in S : \A j \in S : cut <= j
  <2> HIDE DEF S
  <2> QED BY <1>3, LeastOne
<1>5. cut \in Nat /\ above(cut)
  OBVIOUS
<1>6. \A o \in Obj : rank[o] \in Nat /\ Slot[o] \in Nat
  BY ObjectConstants DEF Ranks
<1>7. ASSUME NEW d \in D \ {z}, ~(Slot[z] < Slot[d]) PROVE ~(rank[d] < cut)
  <2> SUFFICES ASSUME rank[d] < cut PROVE FALSE
    OBVIOUS
  <2>1. ASSUME NEW x \in D \ {z}, Slot[z] < Slot[x] PROVE rank[x] < rank[d]
    <3>1. ~(Slot[d] >= Slot[x])
      BY <1>6, <1>7, <2>1
    <3>2. ~(rank[d] < rank[x]) /\ rank[d] # rank[x]
      BY <1>6, <3>1 DEF SlotOrdered
    <3> QED BY <1>6, <3>2
  <2>2. rank[d] \in S
    BY <1>6, <2>1
  <2> QED BY <1>4, <1>5, <1>6, <2>2
<1> QED BY <1>5, <1>7 DEF Cuts

OrderKept(r, rank, z, cut) ==
  /\ \A x, y \in Obj \ {z} :
       /\ r[x] = r[y] <=> rank[x] = rank[y]
       /\ r[x] < r[y] <=> rank[x] < rank[y]
       /\ r[x] <= r[y] <=> rank[x] <= rank[y]
  /\ \A x \in Obj \ {z} :
       /\ r[x] # r[z]
       /\ r[x] < r[z] <=> rank[x] < cut
       /\ r[x] <= r[z] <=> rank[x] < cut
       /\ r[z] < r[x] <=> ~(rank[x] < cut)
       /\ r[z] <= r[x] <=> ~(rank[x] < cut)

LEMMA MovedOrder ==
  ASSUME NEW z \in Obj, NEW rank \in Ranks, NEW cut \in Nat
  PROVE  /\ Moved(rank, z, cut) \in Ranks
         /\ OrderKept(Moved(rank, z, cut), rank, z, cut)
<1> DEFINE r == Moved(rank, z, cut)
<1>1. \A o \in Obj : rank[o] \in Nat
  BY DEF Ranks
<1>2. r[z] = 2 * cut
  BY DEF Moved
<1>3. ASSUME NEW x \in Obj \ {z} PROVE r[x] = 2 * rank[x] + 1
  BY DEF Moved
<1>4. r \in Ranks
  <2>1. r \in [Obj -> Nat]
    BY <1>1 DEF Moved
  <2>2. PICK top \in Nat : \A o \in Obj : rank[o] < top
    BY DEF Ranks
  <2>3. 2 * top + 2 * cut + 2 \in Nat
    BY <2>2
  <2>4. ASSUME NEW o \in Obj PROVE r[o] < 2 * top + 2 * cut + 2
    <3>1. CASE o = z
      BY <1>2, <2>2, <3>1
    <3>2. CASE o # z
      BY <1>1, <1>3, <2>2, <3>2
    <3> QED BY <3>1, <3>2
  <2> HIDE DEF r
  <2> QED BY <2>1, <2>3, <2>4 DEF Ranks
<1> HIDE DEF r
<1>5. ASSUME NEW x \in Obj \ {z}, NEW y \in Obj \ {z}
      PROVE  /\ r[x] = r[y] <=> rank[x] = rank[y]
             /\ r[x] < r[y] <=> rank[x] < rank[y]
             /\ r[x] <= r[y] <=> rank[x] <= rank[y]
  BY <1>1, <1>3
<1>6. ASSUME NEW x \in Obj \ {z}
      PROVE  /\ r[x] # r[z]
             /\ r[x] < r[z] <=> rank[x] < cut
             /\ r[x] <= r[z] <=> rank[x] < cut
             /\ r[z] < r[x] <=> ~(rank[x] < cut)
             /\ r[z] <= r[x] <=> ~(rank[x] < cut)
  BY <1>1, <1>2, <1>3
<1> QED BY <1>4, <1>5, <1>6 DEF r, OrderKept

LEMMA MovedOrdered ==
  ASSUME NEW D \in SUBSET Obj, NEW z \in Obj, NEW rank \in Ranks, NEW cut \in Nat,
         SlotOrdered(D, rank), Cuts(D, rank, z, cut)
  PROVE  SlotOrdered(D \cup {z}, Moved(rank, z, cut))
<1> DEFINE r == Moved(rank, z, cut)
<1>1. \A o \in Obj : Slot[o] \in Nat
  BY ObjectConstants
<1>2. r \in Ranks /\ OrderKept(r, rank, z, cut)
  BY MovedOrder
<1>7. \A o \in Obj : r[o] \in Nat
  BY <1>2 DEF Ranks
<1> HIDE DEF r
<1> SUFFICES ASSUME NEW x \in D \cup {z}, NEW y \in D \cup {z}
             PROVE  /\ r[x] = r[y] => x = y
                    /\ r[x] < r[y] => Slot[x] >= Slot[y]
  BY DEF SlotOrdered, r
<1>3. CASE x = z /\ y = z
  BY <1>1, <1>3
<1>4. CASE x = z /\ y # z
  BY <1>1, <1>2, <1>4 DEF Cuts, OrderKept
<1>5. CASE x # z /\ y = z
  BY <1>1, <1>2, <1>5, <1>7 DEF Cuts, OrderKept
<1>6. CASE x # z /\ y # z
  BY <1>2, <1>6 DEF SlotOrdered, OrderKept
<1> QED BY <1>3, <1>4, <1>5, <1>6 DEF r

LinksKept(new, list, S) == \A o \in S : new.next[o] = list.next[o]

\* objListAdd links an object in behind prev.
Behind(prev, C, rank, cut) ==
  /\ prev = None => \A c \in C : ~(rank[c] < cut)
  /\ prev # None => /\ rank[prev] < cut
                    /\ \A c \in C : rank[c] <= rank[prev] \/ ~(rank[c] < cut)

LEMMA LinkedIn ==
  ASSUME NEW list \in UpdateList, NEW C \in SUBSET Obj, NEW rank \in Ranks,
         Ranked(list, C, rank), NEW z \in Obj, z \notin C, NEW cut \in Nat,
         C = {} => list.next[z] = None,
         NEW prev \in C \cup {None}, Behind(prev, C, rank, cut)
  PROVE  /\ objListAdd(list, prev, z) \in UpdateList
         /\ Ranked(objListAdd(list, prev, z), C \cup {z}, Moved(rank, z, cut))
         /\ LinksKept(objListAdd(list, prev, z), list, Obj \ (C \cup {z}))
<1> DEFINE r == Moved(rank, z, cut)
           new == objListAdd(list, prev, z)
<1>1. None \notin Obj /\ \A o \in Obj : rank[o] \in Nat
  BY ObjectConstants DEF Ranks
<1>2. list.head \in Obj \cup {None} /\ list.next \in [Obj -> Obj \cup {None}]
  BY DEF UpdateList
<1>3. list = [head |-> list.head, next |-> list.next]
  BY DEF UpdateList
<1>4. /\ \A x, y \in Obj \ {z} :
           /\ r[x] = r[y] <=> rank[x] = rank[y]
           /\ r[x] < r[y] <=> rank[x] < rank[y]
           /\ r[x] <= r[y] <=> rank[x] <= rank[y]
      /\ \A x \in Obj \ {z} :
           /\ r[x] # r[z]
           /\ r[x] < r[z] <=> rank[x] < cut
           /\ r[x] <= r[z] <=> rank[x] < cut
           /\ r[z] < r[x] <=> ~(rank[x] < cut)
           /\ r[z] <= r[x] <=> ~(rank[x] < cut)
      /\ r[z] \in Nat
  <2>1. r \in Ranks /\ OrderKept(r, rank, z, cut)
    BY MovedOrder
  <2> HIDE DEF r
  <2> QED BY <2>1 DEF Ranks, OrderKept
<1> HIDE DEF r
<1> USE DEF Behind, LinksKept
<1>5. CASE list.head = None
  <2>1. C = {} /\ prev = None
    BY <1>5 DEF Ranked
  <2>2. new.head = z /\ new.next = list.next /\ new \in UpdateList
    BY <1>2, <1>3, <1>5 DEF objListAdd, UpdateList
  <2>3. Ranked(new, {z}, r)
    BY <1>1, <1>4, <2>1, <2>2 DEF Ranked
  <2> QED BY <2>1, <2>2, <2>3 DEF r
<1>6. CASE list.head # None /\ prev = None
  <2>1. new.head = z /\ new.next = [list.next EXCEPT ![z] = list.head]
    BY <1>6 DEF objListAdd
  <2>2. new \in UpdateList
    BY <1>2, <1>6 DEF objListAdd, UpdateList
  <2>3. new.next[z] = list.head /\ \A o \in Obj \ {z} : new.next[o] = list.next[o]
    BY <1>2, <2>1
  <2>4. list.head \in C /\ \A x \in C : rank[list.head] <= rank[x]
    BY <1>6 DEF Ranked
  <2> HIDE DEF new
  <2>5. Ranked(new, C \cup {z}, r)
    <3>1. \A x, y \in C \cup {z} : r[x] = r[y] => x = y
      BY <1>4 DEF Ranked
    <3>2. new.head = z /\ z # None /\ \A x \in C \cup {z} : r[z] <= r[x]
      BY <1>1, <1>4, <1>6, <2>1
    <3>3. ASSUME NEW x \in C \cup {z}, new.next[x] = None, NEW w \in C \cup {z}
          PROVE  r[w] <= r[x]
      <4>1. x # z
        BY <1>6, <2>3, <3>3
      <4>2. list.next[x] = None /\ x \in C
        BY <2>3, <3>3, <4>1
      <4>3. CASE w = z
        BY <1>4, <1>6, <4>2, <4>1, <4>3
      <4>4. CASE w # z
        BY <1>4, <4>1, <4>2, <4>4 DEF Ranked
      <4> QED BY <4>3, <4>4
    <3>4. ASSUME NEW x \in C \cup {z}, new.next[x] # None
          PROVE  /\ new.next[x] \in C \cup {z}
                 /\ r[x] < r[new.next[x]]
                 /\ \A w \in C \cup {z} : r[w] <= r[x] \/ r[new.next[x]] <= r[w]
      <4>1. CASE x = z
        BY <1>4, <1>6, <2>3, <2>4, <4>1
      <4>2. CASE x # z
        <5>1. /\ new.next[x] = list.next[x] /\ x \in C /\ list.next[x] \in C
              /\ rank[x] < rank[list.next[x]]
              /\ \A w \in C : rank[w] <= rank[x] \/ rank[list.next[x]] <= rank[w]
          BY <2>3, <3>4, <4>2 DEF Ranked
        <5>2. r[z] <= r[x]
          BY <1>4, <1>6, <4>2, <5>1
        <5> QED BY <1>4, <5>1, <5>2, <4>2
      <4> QED BY <4>1, <4>2
    <3> QED BY <3>1, <3>2, <3>3, <3>4, <1>1 DEF Ranked
  <2> QED BY <2>2, <2>3, <2>5 DEF new, r
<1>7. CASE list.head # None /\ prev # None
  <2> DEFINE nxt == list.next[prev]
  <2>0. new = [list EXCEPT !.next[z] = nxt, !.next[prev] = z]
    BY <1>7 DEF objListAdd
  <2>1. /\ new.head = list.head
        /\ new.next = [[list.next EXCEPT ![z] = nxt] EXCEPT ![prev] = z]
    BY <1>2, <1>3, <2>0
  <2>2. new \in UpdateList
    BY <1>2, <1>7 DEF objListAdd, UpdateList
  <2>3. prev \in C /\ prev # z /\ prev \in Obj
    BY <1>7
  <2>4. /\ new.next[z] = nxt /\ new.next[prev] = z
        /\ \A o \in Obj \ {z, prev} : new.next[o] = list.next[o]
    BY <1>2, <2>1, <2>3
  <2>5. list.head \in C /\ \A x \in C : rank[list.head] <= rank[x]
    BY <1>7 DEF Ranked
  <2> HIDE DEF new
  <2>6. nxt # None => nxt \in C /\ ~(rank[nxt] < cut) /\ rank[prev] < rank[nxt]
    <3> SUFFICES ASSUME nxt # None PROVE nxt \in C /\ ~(rank[nxt] < cut) /\ rank[prev] < rank[nxt]
      OBVIOUS
    <3>1. nxt \in C /\ rank[prev] < rank[nxt]
      BY <2>3 DEF Ranked
    <3> QED BY <1>1, <1>7, <2>3, <3>1
  <2>7. ASSUME NEW w \in C PROVE (rank[w] <= rank[prev] /\ rank[w] < cut) \/ ~(rank[w] < cut)
    BY <1>1, <1>7, <2>3
  <2>8. Ranked(new, C \cup {z}, r)
    <3>1. \A x, y \in C \cup {z} : r[x] = r[y] => x = y
      BY <1>4 DEF Ranked
    <3>2. new.head \in C /\ new.head # None /\ \A x \in C \cup {z} : r[new.head] <= r[x]
      <4>1. r[list.head] <= r[z]
        BY <1>1, <1>4, <1>7, <2>3, <2>5
      <4> QED BY <1>4, <1>7, <2>1, <2>5, <4>1
    <3>3. ASSUME NEW x \in C \cup {z}, new.next[x] = None, NEW w \in C \cup {z}
          PROVE  r[w] <= r[x]
      <4>1. x # prev
        BY <1>1, <2>4, <3>3
      <4>2. CASE x = z
        <5>1. \A c \in C : rank[c] <= rank[prev]
          BY <2>3, <2>4, <3>3, <4>2 DEF Ranked
        <5>2. \A c \in C : rank[c] < cut
          BY <1>1, <1>7, <2>3, <5>1
        <5> QED BY <1>4, <4>2, <5>2
      <4>3. CASE x # z
        <5>1. list.next[x] = None /\ x \in C
          BY <2>4, <3>3, <4>1, <4>3
        <5>2. \A c \in C : rank[c] <= rank[x]
          BY <5>1 DEF Ranked
        <5>3. ~(rank[x] < cut)
          <6>1. rank[x] # rank[prev] /\ rank[prev] <= rank[x]
            BY <2>3, <4>1, <5>1, <5>2 DEF Ranked
          <6> QED BY <1>1, <2>3, <2>7, <5>1, <6>1
        <5> QED BY <1>4, <4>3, <5>1, <5>2, <5>3
      <4> QED BY <4>2, <4>3
    <3>4. ASSUME NEW x \in C \cup {z}, new.next[x] # None
          PROVE  /\ new.next[x] \in C \cup {z}
                 /\ r[x] < r[new.next[x]]
                 /\ \A w \in C \cup {z} : r[w] <= r[x] \/ r[new.next[x]] <= r[w]
      <4>1. CASE x = z
        <5>1. new.next[x] = nxt /\ nxt \in C /\ ~(rank[nxt] < cut)
          BY <2>4, <2>6, <3>4, <4>1
        <5>2. \A c \in C : rank[c] <= rank[prev] \/ rank[nxt] <= rank[c]
          BY <2>3, <5>1, <3>4, <4>1 DEF Ranked
        <5>3. \A c \in C : rank[c] < cut \/ rank[nxt] <= rank[c]
          BY <1>1, <1>7, <2>3, <5>2
        <5> QED BY <1>4, <4>1, <5>1, <5>3
      <4>2. CASE x = prev
        <5>1. new.next[x] = z
          BY <2>4, <4>2
        <5>2. \A c \in C : rank[c] <= rank[x] \/ ~(rank[c] < cut)
          BY <2>7, <4>2
        <5> QED BY <1>1, <1>4, <1>7, <2>3, <4>2, <5>1, <5>2
      <4>3. CASE x # z /\ x # prev
        <5>1. /\ new.next[x] = list.next[x] /\ x \in C /\ list.next[x] \in C
              /\ rank[x] < rank[list.next[x]]
              /\ \A w \in C : rank[w] <= rank[x] \/ rank[list.next[x]] <= rank[w]
          BY <2>4, <3>4, <4>3 DEF Ranked
        <5>2. rank[prev] <= rank[x] \/ rank[list.next[x]] <= rank[prev]
          BY <2>3, <5>1
        <5>3. rank[x] # rank[prev]
          BY <2>3, <4>3, <5>1 DEF Ranked
        <5>4. rank[list.next[x]] < cut \/ ~(rank[x] < cut)
          <6>1. CASE rank[prev] <= rank[x]
            BY <1>1, <2>3, <2>7, <5>1, <5>3, <6>1
          <6>2. CASE rank[list.next[x]] <= rank[prev]
            BY <1>1, <1>7, <2>3, <5>1, <6>2
          <6> QED BY <5>2, <6>1, <6>2
        <5>5. r[z] <= r[x] \/ r[list.next[x]] <= r[z]
          BY <1>4, <5>1, <5>4
        <5> QED BY <1>4, <5>1, <5>5
      <4> QED BY <4>1, <4>2, <4>3
    <3> QED BY <3>1, <3>2, <3>3, <3>4 DEF Ranked
  <2>9. \A o \in Obj \ (C \cup {z}) : new.next[o] = list.next[o]
    BY <2>3, <2>4
  <2> QED BY <2>2, <2>8, <2>9 DEF new, r
<1> QED BY <1>5, <1>6, <1>7

\* Obj_InsertIntoUpdateList finds the place.
LEMMA PlaceFound ==
  ASSUME NEW list \in UpdateList, NEW C \in SUBSET Obj, NEW rank \in Ranks,
         Ranked(list, C, rank), NEW z \in Obj
  PROVE  \E k \in 0 .. Cardinality(Obj) :
           /\ Obj_InsertIntoUpdateList(list, z) =
                objListAdd(list, IF k = 0 THEN None ELSE Nth(list)[k - 1], z)
           /\ Nth(list)[k] # None => Slot[z] >= Slot[Nth(list)[k]]
           /\ \A j \in 0 .. (k - 1) : Nth(list)[j] # None /\ Slot[z] < Slot[Nth(list)[j]]
<1> DEFINE at == Nth(list)
           stop(k) == at[k] = None \/ Slot[z] >= Slot[at[k]]
           place(k) == stop(k) /\ \A j \in 0 .. (k - 1) : at[j] # None /\ Slot[z] < Slot[at[j]]
           S == {k \in Nat : stop(k)}
<1>1. IsFiniteSet(Obj) /\ Cardinality(Obj) \in Nat /\ Cardinality(C) \in Nat
      /\ Cardinality(C) <= Cardinality(Obj)
  BY ObjectConstants, FS_Subset, FS_CardinalityType
<1>2. at[Cardinality(C)] = None
  BY <1>1, ChainOf
<1>3. \A k \in Nat : at[k] \in C \cup {None}
  <2>1. \A k \in Nat : Meets(at, C, rank, k)
    BY NthMeets
  <2> HIDE DEF at
  <2> QED BY ONLY <2>1 DEF Meets
<1>4. \A o \in Obj : Slot[o] \in Nat
  BY ObjectConstants
<1> HIDE DEF at
<1>5. Cardinality(C) \in S
  BY <1>1, <1>2
<1>6. PICK k \in S : \A j \in S : k <= j
  <2>1. S \in SUBSET Nat /\ S # {}
    BY <1>5
  <2> HIDE DEF S
  <2> QED BY <2>1, LeastOne
<1>7. k \in 0 .. Cardinality(Obj)
  BY <1>1, <1>5, <1>6
<1>8. place(k)
  <2>1. ASSUME NEW j \in 0 .. (k - 1) PROVE at[j] # None /\ Slot[z] < Slot[at[j]]
    <3>1. j \in Nat /\ j \notin S
      BY <1>6, <1>7
    <3>2. at[j] \in C \cup {None}
      BY <1>3, <3>1
    <3> QED BY <1>4, <3>1, <3>2
  <2> QED BY <1>6, <2>1
<1> DEFINE found == CHOOSE h \in 0 .. Cardinality(Obj) : place(h)
<1>9. found \in 0 .. Cardinality(Obj) /\ place(found)
  <2> HIDE DEF place
  <2> QED BY <1>7, <1>8
<1>10. Obj_InsertIntoUpdateList(list, z)
         = objListAdd(list, IF found = 0 THEN None ELSE at[found - 1], z)
  BY DEF Obj_InsertIntoUpdateList, at
<1> HIDE DEF found
<1> QED BY <1>9, <1>10 DEF at

LEMMA Inserted ==
  ASSUME NEW list \in UpdateList, NEW C \in SUBSET Obj, NEW D \in SUBSET Obj,
         C \subseteq D, NEW rank \in Ranks, Ranked(list, C, rank), SlotOrdered(D, rank),
         NEW z \in Obj, z \notin C, C = {} => list.next[z] = None,
         NEW cut \in Nat, Cuts(D, rank, z, cut)
  PROVE  /\ Obj_InsertIntoUpdateList(list, z) \in UpdateList
         /\ Ranked(Obj_InsertIntoUpdateList(list, z), C \cup {z}, Moved(rank, z, cut))
         /\ LinksKept(Obj_InsertIntoUpdateList(list, z), list, Obj \ (C \cup {z}))
<1> DEFINE at == Nth(list)
<1>1. PICK k \in 0 .. Cardinality(Obj) :
           /\ Obj_InsertIntoUpdateList(list, z) =
                objListAdd(list, IF k = 0 THEN None ELSE at[k - 1], z)
           /\ at[k] # None => Slot[z] >= Slot[at[k]]
           /\ \A j \in 0 .. (k - 1) : at[j] # None /\ Slot[z] < Slot[at[j]]
  BY PlaceFound
<1>2. Cardinality(Obj) \in Nat /\ k \in Nat
  BY ObjectConstants, FS_CardinalityType
<1>3. /\ at[0] = list.head
      /\ \A j \in Nat : at[j + 1] = IF at[j] = None THEN None ELSE list.next[at[j]]
  BY NthDef
<1>4. \A j \in Nat : at[j] \in C \cup {None}
  <2>1. \A j \in Nat : Meets(at, C, rank, j)
    BY NthMeets
  <2> HIDE DEF at
  <2> QED BY ONLY <2>1 DEF Meets
<1>5. /\ None \notin Obj
      /\ \A o \in Obj : Slot[o] \in Nat /\ rank[o] \in Nat
  BY ObjectConstants DEF Ranks
<1> HIDE DEF at
<1> DEFINE prev == IF k = 0 THEN None ELSE at[k - 1]
<1>6. \A c \in C : Slot[z] < Slot[c] <=> rank[c] < cut
  BY DEF Cuts
<1>7. prev \in C \cup {None}
  BY <1>2, <1>4
<1>8. ASSUME prev = None, NEW c \in C PROVE ~(rank[c] < cut)
  <2>1. k = 0
    BY <1>1, <1>2, <1>8
  <2>2. at[0] = list.head /\ list.head \in C /\ rank[list.head] <= rank[c]
    BY <1>3, <1>8 DEF Ranked
  <2>3. Slot[z] >= Slot[list.head]
    BY <1>1, <1>5, <2>1, <2>2
  <2>4. ~(rank[list.head] < cut)
    BY <1>5, <1>6, <2>2, <2>3
  <2> QED BY <1>5, <2>2, <2>4
<1>9. ASSUME prev # None
      PROVE  rank[prev] < cut /\ \A c \in C : rank[c] <= rank[prev] \/ ~(rank[c] < cut)
  <2>1. k # 0 /\ k - 1 \in 0 .. (k - 1) /\ k - 1 \in Nat /\ (k - 1) + 1 = k
    BY <1>2, <1>9
  <2>2. prev = at[k - 1] /\ prev \in C /\ Slot[z] < Slot[prev]
    BY <1>1, <1>7, <1>9, <2>1
  <2>3. rank[prev] < cut
    BY <1>6, <2>2
  <2>4. at[k] = list.next[prev]
    <3>1. at[(k - 1) + 1] = IF at[k - 1] = None THEN None ELSE list.next[at[k - 1]]
      BY <1>3, <2>1
    <3> QED BY <1>9, <2>1, <2>2, <3>1
  <2> HIDE DEF prev
  <2>5. CASE at[k] = None
    <3>1. \A c \in C : rank[c] <= rank[prev]
      BY <2>2, <2>4, <2>5 DEF Ranked
    <3> QED BY <2>3, <3>1
  <2>6. CASE at[k] # None
    <3>1. at[k] \in C /\ Slot[z] >= Slot[at[k]]
      BY <1>1, <1>2, <1>4, <2>6
    <3>2. ~(rank[at[k]] < cut)
      BY <1>5, <1>6, <3>1
    <3>3. \A c \in C : rank[c] <= rank[prev] \/ rank[at[k]] <= rank[c]
      BY <2>2, <2>4, <2>6 DEF Ranked
    <3> QED BY <1>5, <2>3, <3>1, <3>2, <3>3
  <2> QED BY <2>5, <2>6
<1> DEFINE new == objListAdd(list, prev, z)
<1>10. new = Obj_InsertIntoUpdateList(list, z)
  BY <1>1
<1> HIDE DEF prev, new
<1>12. Behind(prev, C, rank, cut)
  BY <1>8, <1>9 DEF Behind
<1>11. /\ new \in UpdateList
       /\ Ranked(new, C \cup {z}, Moved(rank, z, cut))
       /\ LinksKept(new, list, Obj \ (C \cup {z}))
  BY <1>7, <1>12, LinkedIn DEF new
<1> QED BY <1>10, <1>11

\* objList_remove takes an object out wherever it is, and leaves its own link.
LEMMA Removed ==
  ASSUME NEW list \in UpdateList, NEW C \in SUBSET Obj, NEW rank \in Ranks,
         Ranked(list, C, rank), NEW z \in Obj
  PROVE  /\ objList_remove(list, z) \in UpdateList
         /\ Ranked(objList_remove(list, z), C \ {z}, rank)
         /\ LinksKept(objList_remove(list, z), list, (Obj \ C) \cup {z})
<1> DEFINE new == objList_remove(list, z)
<1>1. None \notin Obj /\ \A o \in Obj : rank[o] \in Nat
  BY ObjectConstants DEF Ranks
<1>2. list.head \in Obj \cup {None} /\ list.next \in [Obj -> Obj \cup {None}]
  BY DEF UpdateList
<1>3. list = [head |-> list.head, next |-> list.next]
  BY DEF UpdateList
<1>4. Chain(list) = C
  BY ChainOf
<1> USE DEF LinksKept
<1>5. CASE list.head = z
  <2>1. new.head = list.next[z] /\ new.next = list.next /\ new \in UpdateList
    <3>1. new = [list EXCEPT !.head = list.next[z]]
      BY <1>5 DEF objList_remove
    <3> QED BY <1>2, <1>3, <3>1 DEF UpdateList
  <2>2. z \in C /\ \A x \in C : rank[z] <= rank[x]
    BY <1>1, <1>5 DEF Ranked
  <2> HIDE DEF new
  <2>3. \A x \in C \ {z} : rank[z] < rank[x]
    BY <1>1, <2>2 DEF Ranked
  <2>4. Ranked(new, C \ {z}, rank)
    <3>1. \A x, y \in C \ {z} : rank[x] = rank[y] => x = y
      BY DEF Ranked
    <3>2. new.head = None => C \ {z} = {}
      <4> SUFFICES ASSUME list.next[z] = None PROVE C \ {z} = {}
        BY <2>1
      <4>1. \A x \in C : rank[x] <= rank[z]
        BY <2>2 DEF Ranked
      <4> QED BY <1>1, <2>2, <2>3, <4>1
    <3>3. new.head # None =>
            new.head \in C \ {z} /\ \A x \in C \ {z} : rank[new.head] <= rank[x]
      <4> SUFFICES ASSUME list.next[z] # None
                   PROVE  /\ list.next[z] \in C \ {z}
                          /\ \A x \in C \ {z} : rank[list.next[z]] <= rank[x]
        BY <2>1
      <4>1. /\ list.next[z] \in C /\ rank[z] < rank[list.next[z]]
            /\ \A x \in C : rank[x] <= rank[z] \/ rank[list.next[z]] <= rank[x]
        BY <2>2 DEF Ranked
      <4> QED BY <1>1, <2>2, <2>3, <4>1
    <3>4. \A x \in C \ {z} : new.next[x] = None => \A w \in C \ {z} : rank[w] <= rank[x]
      BY <2>1 DEF Ranked
    <3>5. ASSUME NEW x \in C \ {z}, new.next[x] # None
          PROVE  /\ new.next[x] \in C \ {z}
                 /\ rank[x] < rank[new.next[x]]
                 /\ \A w \in C \ {z} : rank[w] <= rank[x] \/ rank[new.next[x]] <= rank[w]
      <4>1. /\ new.next[x] = list.next[x] /\ list.next[x] \in C
            /\ rank[x] < rank[list.next[x]]
            /\ \A w \in C : rank[w] <= rank[x] \/ rank[list.next[x]] <= rank[w]
        BY <2>1, <3>5 DEF Ranked
      <4>2. list.next[x] # z
        BY <1>1, <2>2, <2>3, <4>1
      <4> QED BY <4>1, <4>2
    <3> QED BY <3>1, <3>2, <3>3, <3>4, <3>5 DEF Ranked
  <2> QED BY <2>1, <2>4 DEF new
<1>6. CASE list.head # z
  <2>1. /\ new.head = list.head
        /\ new.next = [p \in Obj |-> IF p \in C /\ list.next[p] = z
                                      THEN list.next[z] ELSE list.next[p]]
        /\ new \in UpdateList
    <3>1. new = [list EXCEPT !.next = [p \in Obj |-> IF p \in C /\ list.next[p] = z
                                      THEN list.next[z] ELSE list.next[p]]]
      BY <1>4, <1>6 DEF objList_remove
    <3>2. [p \in Obj |-> IF p \in C /\ list.next[p] = z
                           THEN list.next[z] ELSE list.next[p]] \in [Obj -> Obj \cup {None}]
      BY <1>2
    <3> QED BY <1>2, <1>3, <3>1, <3>2 DEF UpdateList
  <2>2. \A p \in Obj : new.next[p] = IF p \in C /\ list.next[p] = z
                                       THEN list.next[z] ELSE list.next[p]
    BY <2>1
  <2> HIDE DEF new
  <2>3. z \in C => list.next[z] # z
    BY <1>1 DEF Ranked
  <2>4. \A o \in (Obj \ C) \cup {z} : new.next[o] = list.next[o]
    BY <2>2, <2>3
  <2>5. Ranked(new, C \ {z}, rank)
    <3>1. \A x, y \in C \ {z} : rank[x] = rank[y] => x = y
      BY DEF Ranked
    <3>2. new.head = None => C \ {z} = {}
      BY <2>1 DEF Ranked
    <3>3. new.head # None =>
            new.head \in C \ {z} /\ \A x \in C \ {z} : rank[new.head] <= rank[x]
      BY <1>6, <2>1 DEF Ranked
    <3>4. ASSUME NEW x \in C \ {z}, new.next[x] = None, NEW w \in C \ {z}
          PROVE  rank[w] <= rank[x]
      <4>1. CASE list.next[x] = z
        <5>1. z \in C /\ rank[x] < rank[z]
              /\ \A v \in C : rank[v] <= rank[x] \/ rank[z] <= rank[v]
          BY <1>1, <4>1 DEF Ranked
        <5>2. list.next[z] = None
          BY <2>2, <3>4, <4>1
        <5>3. rank[w] <= rank[z] /\ rank[w] # rank[z]
          BY <5>1, <5>2 DEF Ranked
        <5> QED BY <1>1, <5>1, <5>3
      <4>2. CASE list.next[x] # z
        BY <2>2, <3>4, <4>2 DEF Ranked
      <4> QED BY <4>1, <4>2
    <3>5. ASSUME NEW x \in C \ {z}, new.next[x] # None
          PROVE  /\ new.next[x] \in C \ {z}
                 /\ rank[x] < rank[new.next[x]]
                 /\ \A w \in C \ {z} : rank[w] <= rank[x] \/ rank[new.next[x]] <= rank[w]
      <4>1. CASE list.next[x] = z
        <5>1. z \in C /\ rank[x] < rank[z]
              /\ \A v \in C : rank[v] <= rank[x] \/ rank[z] <= rank[v]
          BY <1>1, <4>1 DEF Ranked
        <5>2. new.next[x] = list.next[z] /\ list.next[z] # None
          BY <2>2, <3>5, <4>1
        <5>3. /\ list.next[z] \in C /\ rank[z] < rank[list.next[z]]
              /\ \A v \in C : rank[v] <= rank[z] \/ rank[list.next[z]] <= rank[v]
          BY <5>1, <5>2 DEF Ranked
        <5>4. \A v \in C \ {z} : rank[v] # rank[z]
          BY <5>1 DEF Ranked
        <5>5. ASSUME NEW v \in C \ {z}
              PROVE  rank[v] <= rank[x] \/ rank[list.next[z]] <= rank[v]
          BY <1>1, <5>1, <5>3, <5>4
        <5> QED BY <1>1, <5>1, <5>2, <5>3, <5>5
      <4>2. CASE list.next[x] # z
        BY <2>2, <3>5, <4>2 DEF Ranked
      <4> QED BY <4>1, <4>2
    <3> QED BY <3>1, <3>2, <3>3, <3>4, <3>5 DEF Ranked
  <2> QED BY <2>1, <2>4, <2>5 DEF new
<1> QED BY <1>5, <1>6

------------------------------------------------------------------------------
\* The array: what its first entries are, and that they are counted.
EntriesOf(list, count) == {list[k] : k \in 0 .. (count - 1)}
OneEach(list, count) == \A j, k \in 0 .. (count - 1) : list[j] = list[k] => j = k

LEMMA EntriesCounted ==
  ASSUME NEW list, NEW count \in Nat, OneEach(list, count)
  PROVE  IsFiniteSet(EntriesOf(list, count)) /\ Cardinality(EntriesOf(list, count)) = count
<1> DEFINE T == EntriesOf(list, count)
           f == [k \in 0 .. (count - 1) |-> list[k]]
<1>1. IsFiniteSet(0 .. (count - 1)) /\ Cardinality(0 .. (count - 1)) = count
  <2>1. IsFiniteSet(0 .. (count - 1))
        /\ Cardinality(0 .. (count - 1)) = IF 0 > count - 1 THEN 0 ELSE (count - 1) - 0 + 1
    BY FS_Interval
  <2> QED BY <2>1
<1>2. f \in Bijection(0 .. (count - 1), T)
  <2>1. f \in [0 .. (count - 1) -> T]
    BY DEF EntriesOf
  <2>2. \A a, b \in 0 .. (count - 1) : f[a] = f[b] => a = b
    BY DEF OneEach
  <2>3. \A t \in T : \E k \in 0 .. (count - 1) : f[k] = t
    BY DEF EntriesOf
  <2> QED BY <2>1, <2>2, <2>3, Fun_IsBij
<1>3. ExistsBijection(0 .. (count - 1), T)
  BY <1>2 DEF ExistsBijection
<1> HIDE DEF T
<1>4. IsFiniteSet(T) /\ Cardinality(T) = Cardinality(0 .. (count - 1))
  BY <1>1, <1>3, FS_Bijection
<1> QED BY <1>1, <1>4 DEF T

LEMMA EntryAdded ==
  ASSUME NEW size \in Nat, NEW S, NEW list \in [0 .. (size - 1) -> S],
         NEW count \in Nat, count < size, NEW z,
         OneEach(list, count), z \notin EntriesOf(list, count)
  PROVE  /\ EntriesOf([list EXCEPT ![count] = z], count + 1) = EntriesOf(list, count) \cup {z}
         /\ OneEach([list EXCEPT ![count] = z], count + 1)
<1> DEFINE new == [list EXCEPT ![count] = z]
<1>1. \A k \in 0 .. (count - 1) : new[k] = list[k]
  OBVIOUS
<1>2. new[count] = z
  OBVIOUS
<1> HIDE DEF new
<1>3. 0 .. ((count + 1) - 1) = (0 .. (count - 1)) \cup {count}
  OBVIOUS
<1>4. EntriesOf(new, count + 1) = EntriesOf(list, count) \cup {z}
  BY <1>1, <1>2, <1>3 DEF EntriesOf
<1>5. \A k \in 0 .. (count - 1) : new[k] # z
  BY <1>1 DEF EntriesOf
<1>6. OneEach(new, count + 1)
  BY <1>1, <1>2, <1>3, <1>5 DEF OneEach
<1> QED BY <1>4, <1>6 DEF new

\* An entry goes and those behind it move up.
MovedUp(new, list, count, z) ==
  \E at \in 0 .. (count - 1) :
    /\ list[at] = z
    /\ \A k \in 0 .. (count - 2) : new[k] = IF k < at THEN list[k] ELSE list[k + 1]

LEMMA EntryRemoved ==
  ASSUME NEW list, NEW new, NEW count \in Nat, NEW z, OneEach(list, count),
         MovedUp(new, list, count, z)
  PROVE  /\ count - 1 \in Nat
         /\ EntriesOf(new, count - 1) = EntriesOf(list, count) \ {z}
         /\ OneEach(new, count - 1)
<1>1. PICK at \in 0 .. (count - 1) :
        /\ list[at] = z
        /\ \A k \in 0 .. (count - 2) : new[k] = IF k < at THEN list[k] ELSE list[k + 1]
  BY DEF MovedUp
<1>2. count - 1 \in Nat /\ 0 .. ((count - 1) - 1) = 0 .. (count - 2) /\ at \in Nat
  BY <1>1
<1> DEFINE old(k) == IF k < at THEN k ELSE k + 1
<1>3. ASSUME NEW k \in 0 .. (count - 2)
      PROVE  old(k) \in 0 .. (count - 1) /\ old(k) # at /\ new[k] = list[old(k)]
  BY <1>1, <1>2
<1>4. ASSUME NEW h \in 0 .. (count - 1), h # at
      PROVE  \E k \in 0 .. (count - 2) : old(k) = h
  <2>1. CASE h < at
    BY <1>1, <1>2, <2>1
  <2>2. CASE ~(h < at)
    <3>1. h - 1 \in 0 .. (count - 2) /\ ~(h - 1 < at) /\ (h - 1) + 1 = h
      BY <1>1, <1>2, <1>4, <2>2
    <3> QED BY <3>1
  <2> QED BY <2>1, <2>2
<1>5. \A j, k \in 0 .. (count - 2) : old(j) = old(k) => j = k
  BY <1>2
<1> HIDE DEF old
<1>6. EntriesOf(new, count - 1) = EntriesOf(list, count) \ {z}
  <2>1. ASSUME NEW x \in EntriesOf(new, count - 1) PROVE x \in EntriesOf(list, count) \ {z}
    <3>1. PICK k \in 0 .. (count - 2) : x = new[k]
      BY <1>2 DEF EntriesOf
    <3>2. old(k) \in 0 .. (count - 1) /\ old(k) # at /\ x = list[old(k)]
      BY <1>3, <3>1
    <3> QED BY <1>1, <3>2 DEF EntriesOf, OneEach
  <2>2. ASSUME NEW x \in EntriesOf(list, count) \ {z} PROVE x \in EntriesOf(new, count - 1)
    <3>1. PICK h \in 0 .. (count - 1) : x = list[h]
      BY DEF EntriesOf
    <3>2. h # at
      BY <1>1, <3>1
    <3>3. PICK k \in 0 .. (count - 2) : old(k) = h
      BY <1>4, <3>2
    <3> QED BY <1>2, <1>3, <3>1, <3>3 DEF EntriesOf
  <2> QED BY <2>1, <2>2
<1>7. OneEach(new, count - 1)
  <2> SUFFICES ASSUME NEW j \in 0 .. (count - 2), NEW k \in 0 .. (count - 2), new[j] = new[k]
               PROVE  j = k
    BY <1>2 DEF OneEach
  <2>1. old(j) = old(k)
    BY <1>3 DEF OneEach
  <2> QED BY <1>5, <2>1
<1> QED BY <1>2, <1>6, <1>7

------------------------------------------------------------------------------
\* The invariant, in parts.  A pass walks the list, a flush the deferred list.
Phases == {"game", "update", "hit", "sweep", "late", "flush", "resetFlush", "resetFree"}
Passes == {"update", "hit"}
Flushes == {"flush", "resetFlush"}
Takings == {"flush", "resetFlush", "resetFree"}
Calls == [obj : Obj, todo : Seq(Obj), riders : BOOLEAN]
Absent == {o \in Obj : mem[o] = "absent"}

TypeInv ==
  /\ TypeOK
  /\ pool \in [Pipes -> Seq(Effects)]
  /\ freeing \in Seq(Calls)
  /\ i \in Nat /\ n \in Nat /\ ops \in Nat
  /\ phase \in Phases /\ gObjDefCaptureMode \in {0, 2}
  /\ running \in BOOLEAN /\ overflowed \in BOOLEAN
  /\ present \subseteq Obj /\ visited \subseteq Obj

\* The array holds what was set up and not freed.
ArrayInv ==
  /\ OneEach(gObjList, gObjCount)
  /\ Listed = Live \ freed

\* What an address that is not in use looks like.
AbsentInv ==
  /\ (freed \cup active) \cap Absent = {}
  /\ \A o \in Absent : gObjUpdateList.next[o] = None
  /\ \A m \in Pipes : mem[m] # "live" => pool[m] = <<>>

\* The entries of the deferred list are freed and in memory; a flush clears them
\* one by one.
DeferInv ==
  /\ \A j, k \in 0 .. (gObjDeferredFreeCount - 1) :
       gObjDeferredFreeList[j] = gObjDeferredFreeList[k] /\ gObjDeferredFreeList[k] # None
         => j = k
  /\ Waiting \subseteq freed \cap Live
  /\ phase \in Flushes =>
       /\ i <= gObjDeferredFreeCount
       /\ \A k \in 0 .. (gObjDeferredFreeCount - 1) : gObjDeferredFreeList[k] = None <=> k < i
  /\ phase \notin Flushes =>
       \A k \in 0 .. (gObjDeferredFreeCount - 1) : gObjDeferredFreeList[k] # None
  /\ phase = "resetFree" => gObjDeferredFreeCount = 0

\* Where callbacks run.
ControlInv ==
  /\ gObjDefCaptureMode = 0 <=> phase = "resetFree"
  /\ running => phase \in Passes /\ cursor # None
  /\ running /\ phase = "update" /\ cursor \in Pipes \cup Effects =>
       cursor \in Chain(gObjUpdateList)

\* Inside objFreeObjdef.
InFreeing == {freeing[k].obj : k \in DOMAIN freeing}
Todo == {Top.todo[k] : k \in DOMAIN Top.todo}
FreeingInv ==
  /\ freeing # <<>> => phase \in Flushes \cup {"resetFree"}
  /\ phase \in Flushes /\ freeing # <<>> =>
       /\ Len(freeing) = 1
       /\ i < gObjDeferredFreeCount /\ gObjDeferredFreeList[i] = Top.obj
       /\ Top.riders => \A o \in Listed : parent[o] # Top.obj
       /\ \A e \in Todo \cap Effects \cap Listed : \A m \in Pipes \cap Listed :
            e \in InPool(m) => m \in Todo
  /\ \A j, k \in DOMAIN freeing : freeing[j].obj = freeing[k].obj => j = k
  /\ InFreeing \subseteq freed \cap Live

\* What rides on an object that is set up.
ParentInv ==
  \A o \in Listed :
    /\ parent[o] \in Carriers \cup {None}
    /\ phase # "resetFree" => parent[o] \in Live \cup {None}

\* The pools of pipes that are in memory.  Only where memory is given back may
\* that of a freed pipe hold an effect that is gone.
Owners == Pipes \cap (Listed \cup Waiting)
PoolInv ==
  /\ phase \notin Takings => \A m \in Owners : InPool(m) \cap Absent = {}
  /\ \A m1, m2 \in Owners : InPool(m1) \cap InPool(m2) # {} => m1 = m2
  /\ \A m \in Owners : \A e \in InPool(m) \cap Listed :
       e \in Chain(gObjUpdateList) <=> e \in active
  /\ phase # "resetFree" =>
       \A m \in Pipes \cap Listed : \A e \in InPool(m) :
         \/ e \in Listed /\ parent[e] = parent[m]
         \/ e \in freed \cap Live /\ freeing # <<>> /\ m \in Todo

\* The reset comes to every object left.
ResetInv ==
  phase = "resetFree" =>
    gObjCount <= i /\ i <= Cardinality(Obj)

\* The unloading has seen, or will see, what it found and is still there.
SweepInv ==
  phase = "sweep" =>
    /\ n = gObjCount /\ i <= n
    /\ present \cap Listed \subseteq visited \cup {gObjList[k] : k \in i .. (n - 1)}

\* A pass at cursor: D is what is or was in the list since it began.
Passing(D, C, rank) ==
  /\ visited \cup present \subseteq D
  /\ cursor = None => present \cap C \subseteq visited
  /\ cursor # None =>
       /\ cursor \in D /\ cursor \in visited
       /\ \A v \in visited : rank[v] <= rank[cursor]
       /\ \A z \in present \ freed :
            z \in visited \/ (z \in C /\ rank[cursor] < rank[z])
       /\ \A o \in D \ C : rank[cursor] <= rank[o] =>
            /\ o = cursor \/ o \in freed
            /\ gObjUpdateList.next[o] # None =>
                 /\ gObjUpdateList.next[o] \in D
                 /\ rank[o] < rank[gObjUpdateList.next[o]]
            /\ \A z \in present \cap C :
                 rank[z] <= rank[o]
                 \/ (gObjUpdateList.next[o] # None /\ rank[gObjUpdateList.next[o]] <= rank[z])

OrderInv ==
  \E D \in SUBSET Live, C \in SUBSET Listed, rank \in Ranks :
    /\ C \subseteq D
    /\ Ranked(gObjUpdateList, C, rank)
    /\ SlotOrdered(D, rank)
    /\ phase \in Passes => Passing(D, C, rank)

IInv ==
  /\ TypeInv /\ ArrayInv /\ AbsentInv /\ DeferInv /\ DeferredExact /\ ControlInv
  /\ FreeingInv /\ ParentInv /\ PoolInv /\ ResetInv /\ SweepInv /\ PartitionValid
  /\ OrderInv

------------------------------------------------------------------------------
\* What the operations do to the array.
LEMMA ListedCounted ==
  ASSUME TypeInv, ArrayInv
  PROVE  /\ Listed \in SUBSET Obj /\ IsFiniteSet(Listed) /\ Cardinality(Listed) = gObjCount
         /\ gObjCount \in Nat /\ Cardinality(Obj) \in Nat /\ gObjCount <= Cardinality(Obj)
         /\ \A k \in 0 .. (gObjCount - 1) : gObjList[k] \in Listed
<1>1. gObjCount \in Nat /\ Cardinality(Obj) \in Nat /\ gObjCount <= Cardinality(Obj)
  <2>1. Cardinality(Obj) \in Nat
    BY ObjectConstants, FS_CardinalityType
  <2> QED BY <2>1 DEF TypeInv, TypeOK
<1>2. Listed = EntriesOf(gObjList, gObjCount)
  BY DEF Listed, EntriesOf
<1>3. IsFiniteSet(Listed) /\ Cardinality(Listed) = gObjCount
  BY <1>1, <1>2, EntriesCounted DEF ArrayInv
<1> QED BY <1>1, <1>3 DEF ArrayInv, Live, Listed

LEMMA RegisterArray ==
  ASSUME TypeInv, ArrayInv, AbsentInv, NEW o \in Obj, NEW par, Register(o, par)
  PROVE  /\ gObjCount < Cardinality(Obj) /\ gObjCount' = gObjCount + 1
         /\ o \notin Listed \cup Live \cup freed \cup active /\ o \in Absent
         /\ Live' = Live \cup {o} /\ Absent' = Absent \ {o}
         /\ Listed' = Listed \cup {o} /\ Waiting' = Waiting
         /\ gObjList' = [gObjList EXCEPT ![gObjCount] = o]
         /\ ArrayInv'
<1>1. /\ Listed \in SUBSET Obj /\ IsFiniteSet(Listed) /\ Cardinality(Listed) = gObjCount
      /\ gObjCount \in Nat /\ Cardinality(Obj) \in Nat /\ gObjCount <= Cardinality(Obj)
  BY ListedCounted
<1>2. mem[o] = "absent" /\ mem' = [mem EXCEPT ![o] = "live"] /\ mem \in [Obj -> {"absent", "live"}]
  BY DEF Register, TypeInv, TypeOK
<1>3. o \in Absent /\ o \notin Live
  BY <1>2 DEF Absent, Live
<1>4. o \notin Listed \cup Live \cup freed \cup active
  BY <1>3 DEF ArrayInv, AbsentInv
<1>5. Live' = Live \cup {o} /\ Absent' = Absent \ {o}
  <2>1. \A p \in Obj : mem'[p] = IF p = o THEN "live" ELSE mem[p]
    BY <1>2
  <2> QED BY <2>1, <1>2 DEF Live, Absent
<1>6. gObjCount < Cardinality(Obj)
  <2>1. IsFiniteSet(Obj) /\ IsFiniteSet(Listed \cup {o}) /\ Cardinality(Listed \cup {o}) = gObjCount + 1
    <3>1. /\ IsFiniteSet(Listed \cup {o})
          /\ Cardinality(Listed \cup {o}) = IF o \in Listed THEN Cardinality(Listed) ELSE Cardinality(Listed) + 1
      BY <1>1, FS_AddElement
    <3> QED BY <1>1, <1>4, <3>1, ObjectConstants
  <2>2. Cardinality(Listed \cup {o}) <= Cardinality(Obj)
    <3>1. Listed \cup {o} \in SUBSET Obj
      BY <1>1
    <3> QED BY <2>1, <3>1, FS_Subset
  <2> QED BY <1>1, <2>1, <2>2
<1>7. /\ gObjList' = [gObjList EXCEPT ![gObjCount] = o] /\ gObjCount' = gObjCount + 1
      /\ UNCHANGED <<freed, gObjDeferredFreeList, gObjDeferredFreeCount>>
  BY DEF Register, deferred
<1>8. gObjList \in [0 .. (Cardinality(Obj) - 1) -> Obj \cup {None}]
  BY DEF TypeInv, TypeOK, Indices
<1>14. PICK size : size = Cardinality(Obj)
  OBVIOUS
<1>9. OneEach(gObjList, gObjCount) /\ o \notin EntriesOf(gObjList, gObjCount)
  BY <1>4 DEF ArrayInv, Listed, EntriesOf
<1>10. /\ EntriesOf([gObjList EXCEPT ![gObjCount] = o], gObjCount + 1)
           = EntriesOf(gObjList, gObjCount) \cup {o}
       /\ OneEach([gObjList EXCEPT ![gObjCount] = o], gObjCount + 1)
  <2>1. size \in Nat /\ gObjCount \in Nat /\ gObjCount < size
    BY <1>1, <1>6, <1>14
  <2>2. gObjList \in [0 .. (size - 1) -> Obj \cup {None}]
    BY <1>8, <1>14
  <2> QED BY ONLY <1>9, <2>1, <2>2, EntryAdded
<1>11. OneEach(gObjList', gObjCount') /\ Listed' = Listed \cup {o}
  <2>1. Listed' = EntriesOf(gObjList', gObjCount') /\ Listed = EntriesOf(gObjList, gObjCount)
    BY DEF Listed, EntriesOf
  <2> QED BY <1>7, <1>10, <2>1
<1>12. ArrayInv'
  BY <1>4, <1>5, <1>7, <1>11 DEF ArrayInv
<1>13. Waiting' = Waiting
  BY <1>7 DEF Waiting
<1> QED BY <1>3, <1>4, <1>5, <1>6, <1>7, <1>11, <1>12, <1>13

LEMMA UnlistArray ==
  ASSUME TypeInv, ArrayInv, NEW o \in Listed, Unlist(o), mem' = mem
  PROVE  /\ MovedUp(gObjList', gObjList, gObjCount, o)
         /\ gObjCount' = gObjCount - 1 /\ gObjCount - 1 \in Nat
         /\ o \in Live /\ o \notin freed /\ o \in Obj /\ freed' = freed \cup {o}
         /\ Live' = Live /\ Absent' = Absent /\ Listed' = Listed \ {o}
         /\ gObjList' \in [Indices -> Obj \cup {None}]
         /\ phase = "resetFree" =>
              \A k \in Indices : k >= gObjCount - 1 => gObjList'[k] = gObjList[k]
         /\ ArrayInv'
<1>1. /\ Listed \in SUBSET Obj
      /\ gObjCount \in Nat /\ Cardinality(Obj) \in Nat /\ gObjCount <= Cardinality(Obj)
  BY ListedCounted
<1>2. gObjList \in [Indices -> Obj \cup {None}] /\ Indices = 0 .. (Cardinality(Obj) - 1)
  BY DEF TypeInv, TypeOK, Indices
<1>3. /\ gObjList' = Unlisted(o) /\ gObjCount' = gObjCount - 1 /\ freed' = freed \cup {o}
  BY DEF Unlist
<1> DEFINE at == CHOOSE k \in 0 .. (gObjCount - 1) : gObjList[k] = o
<1>4. at \in 0 .. (gObjCount - 1) /\ gObjList[at] = o
  BY DEF Listed
<1>15. at \in Nat /\ at < gObjCount
  BY <1>1, <1>4
<1>5. gObjList' = [k \in Indices |->
         CASE k < at \/ k >= gObjCount -> gObjList[k]
           [] k >= at /\ k < gObjCount - 1 -> gObjList[k + 1]
           [] OTHER -> IF phase = "resetFree" THEN gObjList[k] ELSE None]
  BY <1>3 DEF Unlisted
<1> HIDE DEF at
<1>16. ASSUME NEW k \in Indices
       PROVE  gObjList'[k] = IF k < at \/ k >= gObjCount THEN gObjList[k]
                             ELSE IF k >= at /\ k < gObjCount - 1 THEN gObjList[k + 1]
                             ELSE IF phase = "resetFree" THEN gObjList[k] ELSE None
  <2>1. gObjList'[k] =
         CASE k < at \/ k >= gObjCount -> gObjList[k]
           [] k >= at /\ k < gObjCount - 1 -> gObjList[k + 1]
           [] OTHER -> IF phase = "resetFree" THEN gObjList[k] ELSE None
    BY <1>5
  <2>2. CASE k < at \/ k >= gObjCount
    <3>1. ~(k >= at /\ k < gObjCount - 1)
      BY <1>1, <1>2, <1>15, <2>2
    <3> QED BY ONLY <2>1, <2>2, <3>1
  <2>3. CASE ~(k < at \/ k >= gObjCount)
    BY ONLY <2>1, <2>3
  <2> QED BY <2>2, <2>3
<1>6. ASSUME NEW k \in 0 .. (gObjCount - 2)
      PROVE  k \in Indices /\ gObjList'[k] = IF k < at THEN gObjList[k] ELSE gObjList[k + 1]
  <2>1. k \in Indices /\ ~(k >= gObjCount) /\ k < gObjCount - 1 /\ (k < at \/ k >= at)
    BY <1>1, <1>2, <1>4
  <2>2. CASE k < at
    <3>1. gObjList'[k] = gObjList[k]
      BY <1>16, <2>1, <2>2
    <3> QED BY <2>1, <2>2, <3>1
  <2>3. CASE k >= at
    <3>1. ~(k < at) /\ ~(k < at \/ k >= gObjCount)
      BY <1>15, <2>1, <2>3
    <3>2. gObjList'[k] = gObjList[k + 1]
      BY <1>16, <2>1, <2>3, <3>1
    <3> QED BY <2>1, <3>1, <3>2
  <2> QED BY <2>1, <2>2, <2>3
<1>7. MovedUp(gObjList', gObjList, gObjCount, o)
  BY <1>4, <1>6 DEF MovedUp
<1>8. ASSUME NEW k \in Indices
      PROVE  /\ gObjList'[k] \in Obj \cup {None}
             /\ phase = "resetFree" /\ k >= gObjCount - 1 => gObjList'[k] = gObjList[k]
  <2>1. CASE k < at \/ k >= gObjCount
    <3>1. gObjList'[k] = gObjList[k]
      BY <1>16, <2>1
    <3> QED BY <1>2, <3>1
  <2>2. CASE ~(k < at \/ k >= gObjCount) /\ k >= at /\ k < gObjCount - 1
    <3>1. gObjList'[k] = gObjList[k + 1] /\ k + 1 \in Indices
      BY <1>1, <1>2, <1>16, <2>2
    <3>2. ~(k >= gObjCount - 1)
      BY <1>1, <1>2, <2>2
    <3> QED BY <1>2, <3>1, <3>2
  <2>3. CASE ~(k < at \/ k >= gObjCount) /\ ~(k >= at /\ k < gObjCount - 1)
    <3>1. gObjList'[k] = IF phase = "resetFree" THEN gObjList[k] ELSE None
      BY <1>16, <2>3
    <3> QED BY <1>2, <3>1
  <2> QED BY <2>1, <2>2, <2>3
<1>9. gObjList' \in [Indices -> Obj \cup {None}]
  BY <1>5, <1>8
<1>10. /\ gObjCount - 1 \in Nat
       /\ EntriesOf(gObjList', gObjCount - 1) = EntriesOf(gObjList, gObjCount) \ {o}
       /\ OneEach(gObjList', gObjCount - 1)
  <2>1. OneEach(gObjList, gObjCount)
    BY DEF ArrayInv
  <2> QED BY <1>1, <1>7, <2>1, EntryRemoved
<1>11. Listed' = Listed \ {o} /\ OneEach(gObjList', gObjCount')
  <2>1. Listed' = EntriesOf(gObjList', gObjCount') /\ Listed = EntriesOf(gObjList, gObjCount)
    BY DEF Listed, EntriesOf
  <2> QED BY <1>3, <1>10, <2>1
<1>12. Live' = Live /\ Absent' = Absent
  BY DEF Live, Absent
<1>13. o \in Live /\ o \notin freed /\ o \in Obj
  BY <1>1 DEF ArrayInv
<1>14. ArrayInv'
  BY <1>3, <1>11, <1>12 DEF ArrayInv
<1> QED BY <1>3, <1>7, <1>8, <1>9, <1>10, <1>11, <1>12, <1>13, <1>14

\* What Obj_FreeObject does to the deferred list.
LEMMA FreeLaterArray ==
  ASSUME TypeInv, ArrayInv, DeferInv, NEW o \in Listed, FreeLater(o), mem' = mem
  PROVE  /\ Unlist(o) /\ o \notin Waiting /\ o \in freed' \cap Live'
         /\ \/ gObjDeferredFreeCount' = gObjDeferredFreeCount
               /\ overflowed' = TRUE /\ Waiting' = Waiting
            \/ /\ gObjDeferredFreeCount' = gObjDeferredFreeCount + 1
               /\ gObjDeferredFreeCount + 1 < DeferredCap
               /\ gObjDeferredFreeList'[gObjDeferredFreeCount] = o
               /\ overflowed' = overflowed /\ Waiting' = Waiting \cup {o}
         /\ gObjDeferredFreeList' \in [0 .. (DeferredCap - 1) -> Obj \cup {None}]
         /\ \A k \in 0 .. (gObjDeferredFreeCount - 1) :
              gObjDeferredFreeList'[k] = gObjDeferredFreeList[k]
<1>1. Unlist(o)
  BY DEF FreeLater
<1>2. o \in Live /\ o \notin freed /\ o \in Obj /\ freed' = freed \cup {o} /\ Live' = Live
  BY <1>1, UnlistArray
<1>3. o \notin Waiting
  BY <1>2 DEF DeferInv
<1>4. Defer(o)
  BY <1>3 DEF FreeLater
<1>5. PICK c : c = gObjDeferredFreeCount
  OBVIOUS
<1>6. /\ c \in Nat /\ DeferredCap \in Nat \ {0} /\ c < DeferredCap
      /\ gObjDeferredFreeList \in [0 .. (DeferredCap - 1) -> Obj \cup {None}]
  BY <1>5, ObjectConstants DEF TypeInv, TypeOK
<1>7. /\ gObjDeferredFreeList' = [gObjDeferredFreeList EXCEPT ![c] = o]
      /\ gObjDeferredFreeCount' = IF c + 1 = DeferredCap THEN c ELSE c + 1
      /\ overflowed' = (overflowed \/ c + 1 = DeferredCap)
  BY <1>4, <1>5 DEF Defer
<1>8. /\ \A k \in 0 .. (c - 1) : gObjDeferredFreeList'[k] = gObjDeferredFreeList[k]
      /\ gObjDeferredFreeList'[c] = o
      /\ gObjDeferredFreeList' \in [0 .. (DeferredCap - 1) -> Obj \cup {None}]
  BY <1>2, <1>6, <1>7
<1>9. Waiting = {gObjDeferredFreeList[k] : k \in 0 .. (c - 1)} \ {None}
  BY <1>5 DEF Waiting
<1>10. CASE c + 1 = DeferredCap
  <2>1. gObjDeferredFreeCount' = c /\ overflowed' = TRUE
    BY <1>7, <1>10
  <2>2. Waiting' = {gObjDeferredFreeList'[k] : k \in 0 .. (c - 1)} \ {None}
    BY <2>1 DEF Waiting
  <2>3. Waiting' = Waiting
    BY <1>8, <1>9, <2>2
  <2> QED BY <1>1, <1>2, <1>3, <1>5, <1>8, <2>1, <2>3
<1>11. CASE c + 1 # DeferredCap
  <2>1. gObjDeferredFreeCount' = c + 1 /\ overflowed' = overflowed /\ c + 1 < DeferredCap
    BY <1>6, <1>7, <1>11 DEF TypeInv
  <2>2. Waiting' = {gObjDeferredFreeList'[k] : k \in 0 .. ((c + 1) - 1)} \ {None}
    BY <2>1 DEF Waiting
  <2>3. 0 .. ((c + 1) - 1) = (0 .. (c - 1)) \cup {c}
    BY <1>6
  <2>4. Waiting' = Waiting \cup {o}
    <3>1. o # None
      BY <1>2, ObjectConstants
    <3>2. {gObjDeferredFreeList'[k] : k \in 0 .. ((c + 1) - 1)}
            = {gObjDeferredFreeList[k] : k \in 0 .. (c - 1)} \cup {o}
      <4> HIDE <1>9, <2>2
      <4>1. ASSUME NEW x \in {gObjDeferredFreeList'[k] : k \in 0 .. ((c + 1) - 1)}
            PROVE  x \in {gObjDeferredFreeList[k] : k \in 0 .. (c - 1)} \cup {o}
        BY <1>8, <2>3
      <4>2. ASSUME NEW x \in {gObjDeferredFreeList[k] : k \in 0 .. (c - 1)} \cup {o}
            PROVE  x \in {gObjDeferredFreeList'[k] : k \in 0 .. ((c + 1) - 1)}
        BY <1>8, <2>3
      <4> QED BY <4>1, <4>2
    <3> QED BY <1>9, <2>2, <3>1, <3>2
  <2> QED BY <1>1, <1>2, <1>3, <1>5, <1>8, <2>1, <2>4
<1> QED BY <1>10, <1>11

LEMMA DeferKept ==
  ASSUME TypeInv, ArrayInv, DeferInv, NEW o \in Listed, FreeLater(o), mem' = mem,
         phase' = phase, phase # "resetFree", phase \in Flushes => i' = i
  PROVE  DeferInv'
<1>1. PICK c : c = gObjDeferredFreeCount
  OBVIOUS
<1>2. c \in Nat
  BY <1>1 DEF TypeInv, TypeOK
<1>3. /\ o \notin Waiting /\ o \in freed' \cap Live' /\ o \in Obj /\ Live' = Live
      /\ freed' = freed \cup {o}
      /\ \A k \in 0 .. (c - 1) : gObjDeferredFreeList'[k] = gObjDeferredFreeList[k]
  BY <1>1, FreeLaterArray, UnlistArray
<1>4. CASE gObjDeferredFreeCount' = c /\ Waiting' = Waiting
  BY <1>1, <1>2, <1>3, <1>4 DEF DeferInv
<1>5. CASE /\ gObjDeferredFreeCount' = c + 1 /\ gObjDeferredFreeList'[c] = o
           /\ Waiting' = Waiting \cup {o}
  <2>1. 0 .. ((c + 1) - 1) = (0 .. (c - 1)) \cup {c} /\ c \notin 0 .. (c - 1)
    BY <1>2
  <2>2. o # None
    BY <1>3, ObjectConstants
  <2>3. \A k \in 0 .. (c - 1) : gObjDeferredFreeList'[k] # o
    BY <1>1, <1>3, <2>2 DEF Waiting
  <2>4. \A j, k \in 0 .. (gObjDeferredFreeCount' - 1) :
          gObjDeferredFreeList'[j] = gObjDeferredFreeList'[k] /\ gObjDeferredFreeList'[k] # None
            => j = k
    <3> SUFFICES ASSUME NEW j \in (0 .. (c - 1)) \cup {c}, NEW k \in (0 .. (c - 1)) \cup {c},
                        gObjDeferredFreeList'[j] = gObjDeferredFreeList'[k],
                        gObjDeferredFreeList'[k] # None
                 PROVE  j = k
      BY <1>5, <2>1
    <3>1. \A g, h \in 0 .. (c - 1) :
            gObjDeferredFreeList[g] = gObjDeferredFreeList[h] /\ gObjDeferredFreeList[h] # None
              => g = h
      BY <1>1 DEF DeferInv
    <3> QED BY <1>3, <1>5, <2>3, <3>1
  <2>5. Waiting' \subseteq freed' \cap Live'
    BY <1>3, <1>5 DEF DeferInv
  <2>6. ASSUME phase \in Flushes
        PROVE  /\ i' <= gObjDeferredFreeCount'
               /\ \A k \in 0 .. (gObjDeferredFreeCount' - 1) :
                    gObjDeferredFreeList'[k] = None <=> k < i'
    <3>1. i' = i /\ i \in Nat /\ i <= c
          /\ \A k \in 0 .. (c - 1) : gObjDeferredFreeList[k] = None <=> k < i
      BY <1>1, <2>6 DEF DeferInv, TypeInv
    <3> QED BY <1>2, <1>3, <1>5, <2>1, <2>2, <3>1
  <2>7. ASSUME phase \notin Flushes
        PROVE  \A k \in 0 .. (gObjDeferredFreeCount' - 1) : gObjDeferredFreeList'[k] # None
    <3>1. \A k \in 0 .. (c - 1) : gObjDeferredFreeList[k] # None
      BY <1>1, <2>7 DEF DeferInv
    <3> QED BY <1>3, <1>5, <2>1, <2>2, <3>1
  <2> QED BY <2>4, <2>5, <2>6, <2>7 DEF DeferInv
<1> QED BY <1>1, <1>4, <1>5, FreeLaterArray

\* What the operations do to the linked list.
LEMMA ListOrdered ==
  ASSUME TypeInv, ArrayInv, OrderInv
  PROVE  /\ gObjUpdateList \in UpdateList
         /\ Chain(gObjUpdateList) \subseteq Listed
         /\ Nth(gObjUpdateList)[gObjCount] = None
         /\ gObjUpdateList.head \in Chain(gObjUpdateList) \cup {None}
         /\ \A o \in Chain(gObjUpdateList) :
              gObjUpdateList.next[o] # None =>
                /\ gObjUpdateList.next[o] \in Chain(gObjUpdateList)
                /\ Slot[o] >= Slot[gObjUpdateList.next[o]]
<1>1. gObjUpdateList \in UpdateList
  BY DEF TypeInv, TypeOK, UpdateList
<1>2. PICK D \in SUBSET Live, C \in SUBSET Listed, rank \in Ranks :
        /\ C \subseteq D
        /\ Ranked(gObjUpdateList, C, rank)
        /\ SlotOrdered(D, rank)
  BY DEF OrderInv
<1>3. /\ Listed \in SUBSET Obj /\ IsFiniteSet(Listed) /\ Cardinality(Listed) = gObjCount
      /\ gObjCount \in Nat
  BY ListedCounted
<1>4. Cardinality(C) <= gObjCount /\ C \in SUBSET Obj
  <2>1. Cardinality(C) <= Cardinality(Listed)
    BY <1>3, FS_Subset
  <2> QED BY <1>3, <2>1
<1>5. Chain(gObjUpdateList) = C /\ \A k \in Nat : Cardinality(C) <= k => Nth(gObjUpdateList)[k] = None
  BY <1>1, <1>2, <1>4, ChainOf
<1>6. Nth(gObjUpdateList)[gObjCount] = None
  BY <1>3, <1>4, <1>5
<1> QED BY <1>1, <1>2, <1>4, <1>5, <1>6 DEF Ranked, SlotOrdered

LEMMA ChainInserted ==
  ASSUME TypeInv, ArrayInv, AbsentInv, OrderInv, NEW z \in Obj,
         z \notin Chain(gObjUpdateList), z \in Absent \/ Chain(gObjUpdateList) # {}
  PROVE  /\ Obj_InsertIntoUpdateList(gObjUpdateList, z) \in UpdateList
         /\ Chain(Obj_InsertIntoUpdateList(gObjUpdateList, z)) = Chain(gObjUpdateList) \cup {z}
         /\ LinksKept(Obj_InsertIntoUpdateList(gObjUpdateList, z), gObjUpdateList,
                      Obj \ (Chain(gObjUpdateList) \cup {z}))
<1>1. gObjUpdateList \in UpdateList
  BY ListOrdered
<1>2. PICK D \in SUBSET Live, C \in SUBSET Listed, rank \in Ranks :
        /\ C \subseteq D
        /\ Ranked(gObjUpdateList, C, rank)
        /\ SlotOrdered(D, rank)
  BY DEF OrderInv
<1>3. C \in SUBSET Obj /\ D \in SUBSET Obj
  BY ListedCounted DEF Live
<1>4. Chain(gObjUpdateList) = C
  BY <1>1, <1>2, <1>3, ChainOf
<1>5. PICK cut \in Nat : Cuts(D, rank, z, cut)
  BY <1>2, <1>3, CutExists
<1>6. C = {} => gObjUpdateList.next[z] = None
  BY <1>4 DEF AbsentInv
<1> DEFINE new == Obj_InsertIntoUpdateList(gObjUpdateList, z)
           r == Moved(rank, z, cut)
<1>7. /\ new \in UpdateList /\ Ranked(new, C \cup {z}, r)
      /\ LinksKept(new, gObjUpdateList, Obj \ (C \cup {z}))
  BY <1>1, <1>2, <1>3, <1>4, <1>5, <1>6, Inserted
<1>8. r \in Ranks
  BY MovedOrder
<1>9. Chain(new) = C \cup {z}
  <2> HIDE DEF new, r
  <2>1. C \cup {z} \in SUBSET Obj
    BY <1>3
  <2> QED BY <1>7, <1>8, <2>1, ChainOf
<1> QED BY <1>4, <1>7, <1>9

LEMMA ChainRemoved ==
  ASSUME TypeInv, ArrayInv, OrderInv, NEW z \in Obj
  PROVE  /\ objList_remove(gObjUpdateList, z) \in UpdateList
         /\ Chain(objList_remove(gObjUpdateList, z)) = Chain(gObjUpdateList) \ {z}
         /\ LinksKept(objList_remove(gObjUpdateList, z), gObjUpdateList,
                      (Obj \ Chain(gObjUpdateList)) \cup {z})
<1>1. gObjUpdateList \in UpdateList
  BY ListOrdered
<1>2. PICK D \in SUBSET Live, C \in SUBSET Listed, rank \in Ranks :
        /\ C \subseteq D
        /\ Ranked(gObjUpdateList, C, rank)
        /\ SlotOrdered(D, rank)
  BY DEF OrderInv
<1>3. C \in SUBSET Obj
  BY ListedCounted
<1>4. Chain(gObjUpdateList) = C
  BY <1>1, <1>2, <1>3, ChainOf
<1> DEFINE new == objList_remove(gObjUpdateList, z)
<1>5. /\ new \in UpdateList /\ Ranked(new, C \ {z}, rank)
      /\ LinksKept(new, gObjUpdateList, (Obj \ C) \cup {z})
  BY <1>1, <1>2, <1>3, Removed
<1>6. Chain(new) = C \ {z}
  <2> HIDE DEF new
  <2>1. C \ {z} \in SUBSET Obj
    BY <1>3
  <2> QED BY <1>2, <1>5, <2>1, ChainOf
<1> QED BY <1>4, <1>5, <1>6

------------------------------------------------------------------------------
\* The stack of calls.
LEMMA TailRange ==
  ASSUME NEW T, NEW s \in Seq(T), s # <<>>
  PROVE  /\ Head(s) \in T /\ Tail(s) \in Seq(T)
         /\ {s[k] : k \in DOMAIN s} = {Head(s)} \cup {Tail(s)[k] : k \in DOMAIN Tail(s)}
<1>1. PICK len \in Nat : len = Len(s) /\ len # 0
  BY EmptySeq
<1>2. /\ DOMAIN s = 1 .. len /\ Head(s) = s[1] /\ Len(Tail(s)) = len - 1
      /\ Tail(s) \in Seq(T) /\ DOMAIN Tail(s) = 1 .. (len - 1)
      /\ \A k \in 1 .. (len - 1) : Tail(s)[k] = s[k + 1]
      /\ \A k \in 1 .. len : s[k] \in T
  BY <1>1
<1>3. ASSUME NEW x \in {s[k] : k \in DOMAIN s}
      PROVE  x \in {Head(s)} \cup {Tail(s)[k] : k \in DOMAIN Tail(s)}
  <2>1. PICK k \in 1 .. len : x = s[k]
    BY <1>2
  <2>2. CASE k = 1
    BY <1>2, <2>1, <2>2
  <2>3. CASE k # 1
    <3>1. k - 1 \in 1 .. (len - 1) /\ (k - 1) + 1 = k
      BY <1>1, <2>3
    <3>2. Tail(s)[k - 1] = x
      BY <1>2, <2>1, <3>1
    <3> QED BY <1>2, <3>1, <3>2
  <2> QED BY <2>2, <2>3
<1>4. ASSUME NEW x \in {Head(s)} \cup {Tail(s)[k] : k \in DOMAIN Tail(s)}
      PROVE  x \in {s[k] : k \in DOMAIN s}
  <2>1. CASE x = Head(s)
    <3>1. 1 \in 1 .. len
      BY <1>1
    <3> QED BY <1>2, <2>1, <3>1
  <2>2. CASE x # Head(s)
    <3>1. PICK k \in 1 .. (len - 1) : x = Tail(s)[k]
      BY <1>2, <2>2
    <3>2. k + 1 \in 1 .. len /\ x = s[k + 1]
      BY <1>1, <1>2, <3>1
    <3> QED BY <1>2, <3>2
  <2> QED BY <2>1, <2>2
<1>5. Head(s) \in T
  <2>1. 1 \in 1 .. len
    BY <1>1
  <2> QED BY <1>2, <2>1
<1> QED BY <1>2, <1>3, <1>4, <1>5

LEMMA Stacked ==
  ASSUME TypeInv, freeing # <<>>
  PROVE  /\ Len(freeing) \in Nat \ {0} /\ DOMAIN freeing = 1 .. Len(freeing)
         /\ Top = freeing[Len(freeing)] /\ Top \in Calls
         /\ Top.obj \in Obj /\ Top.todo \in Seq(Obj) /\ Top.riders \in BOOLEAN
         /\ Top.obj \in InFreeing
<1>1. freeing \in Seq(Calls)
  BY DEF TypeInv
<1>2. Len(freeing) \in Nat \ {0} /\ DOMAIN freeing = 1 .. Len(freeing)
  BY <1>1, EmptySeq
<1>3. Top = freeing[Len(freeing)]
  BY DEF Top, Last
<1>4. Len(freeing) \in 1 .. Len(freeing)
  BY <1>2
<1>5. Top \in Calls
  BY <1>1, <1>3, <1>4
<1> QED BY <1>2, <1>3, <1>4, <1>5 DEF Calls, InFreeing

LEMMA Popped ==
  ASSUME TypeInv, freeing # <<>>, Top.todo # <<>>
  PROVE  /\ PopTodo \in Seq(Calls) /\ Len(PopTodo) = Len(freeing) /\ PopTodo # <<>>
         /\ \A k \in 1 .. Len(freeing) :
              /\ PopTodo[k].obj = freeing[k].obj
              /\ PopTodo[k].riders = freeing[k].riders
              /\ PopTodo[k].todo = IF k = Len(freeing) THEN Tail(Top.todo) ELSE freeing[k].todo
         /\ Head(Top.todo) \in Obj /\ Tail(Top.todo) \in Seq(Obj)
         /\ Todo = {Head(Top.todo)} \cup {Tail(Top.todo)[k] : k \in DOMAIN Tail(Top.todo)}
<1>1. freeing \in Seq(Calls)
  BY DEF TypeInv
<1>2. PICK len \in Nat \ {0} : len = Len(freeing) /\ DOMAIN freeing = 1 .. len
  BY Stacked
<1>3. /\ Top = freeing[len] /\ Top \in Calls /\ Top.todo \in Seq(Obj)
  BY <1>2, Stacked
<1>4. /\ Head(Top.todo) \in Obj /\ Tail(Top.todo) \in Seq(Obj)
      /\ Todo = {Head(Top.todo)} \cup {Tail(Top.todo)[k] : k \in DOMAIN Tail(Top.todo)}
  BY <1>3, TailRange DEF Todo
<1>5. PICK tail : tail = Tail(Top.todo)
  OBVIOUS
<1>6. PopTodo = [freeing EXCEPT ![len].todo = tail]
  BY <1>2, <1>3, <1>5 DEF PopTodo
<1>7. \A k \in 1 .. len : freeing[k] \in Calls
  BY <1>1, <1>2
<1>8. [freeing[len] EXCEPT !.todo = tail] \in Calls
  BY <1>3, <1>4, <1>5 DEF Calls
<1>9. PopTodo \in [1 .. len -> Calls]
  BY <1>1, <1>2, <1>6, <1>7, <1>8
<1>10. PopTodo \in Seq(Calls) /\ Len(PopTodo) = len
  BY <1>9
<1>11. ASSUME NEW k \in 1 .. len
       PROVE  /\ PopTodo[k].obj = freeing[k].obj
              /\ PopTodo[k].riders = freeing[k].riders
              /\ PopTodo[k].todo = IF k = len THEN tail ELSE freeing[k].todo
  BY <1>1, <1>2, <1>6, <1>7 DEF Calls
<1>12. PopTodo # <<>>
  BY <1>10
<1> QED BY <1>2, <1>4, <1>5, <1>10, <1>11, <1>12

\* A call begins.
Begins(o, calls, todo) ==
  /\ freeing' = Append(calls, Call(o, todo)) /\ freeing' \in Seq(Calls)
  /\ Len(freeing') = Len(calls) + 1
  /\ \A k \in 1 .. Len(calls) : freeing'[k] = calls[k]
  /\ freeing'[Len(calls) + 1] = Call(o, todo)
  /\ Call(o, todo).obj = o /\ Call(o, todo).todo = todo /\ Call(o, todo).riders = FALSE
  /\ o \in Pipes => todo = pool[o]
  /\ o \notin Pipes => todo = <<>> \/ \E c \in Obj \ Effects : todo = <<c>>
  /\ ops' \in Nat

LEMMA Begun ==
  ASSUME TypeInv, NEW o \in Obj, NEW calls \in Seq(Calls), Begin(o, calls)
  PROVE  \E todo \in Seq(Obj) : Begins(o, calls, todo)
<1>1. PICK todo \in Frees(o) :
        /\ freeing' = Append(calls, Call(o, todo))
        /\ ops' = IF o \in Pipes THEN ops ELSE ops + Len(todo)
  BY DEF Begin
<1>2. /\ o \in Pipes => todo = pool[o]
      /\ o \notin Pipes => todo = <<>> \/ \E c \in Obj \ Effects : todo = <<c>>
  BY <1>1 DEF Frees
<1>3. todo \in Seq(Obj)
  <2>1. CASE o \in Pipes
    <3>1. pool[o] \in Seq(Effects) /\ Effects \subseteq Obj
      BY <2>1, ObjectConstants DEF TypeInv
    <3> QED BY <1>2, <2>1, <3>1
  <2>2. CASE o \notin Pipes
    <3>1. CASE todo = <<>>
      BY <3>1
    <3>2. CASE todo # <<>>
      <4>1. PICK c \in Obj \ Effects : todo = <<c>>
        BY <1>2, <2>2, <3>2
      <4>2. c \in Obj
        OBVIOUS
      <4> HIDE <4>1
      <4>3. <<c>> \in Seq(Obj)
        BY <4>2
      <4> QED BY <4>1, <4>3
    <3> QED BY <3>1, <3>2
  <2> QED BY <2>1, <2>2
<1>4. PICK call : call = Call(o, todo)
  OBVIOUS
<1>5. call \in Calls /\ call.obj = o /\ call.todo = todo /\ call.riders = FALSE
  BY <1>3, <1>4 DEF Call, Calls
<1>6. PICK len \in Nat : len = Len(calls)
  OBVIOUS
<1>7. /\ freeing' = Append(calls, call) /\ freeing' \in Seq(Calls) /\ Len(freeing') = len + 1
      /\ \A k \in 1 .. len : freeing'[k] = calls[k]
      /\ freeing'[len + 1] = call
  BY <1>1, <1>4, <1>5, <1>6, AppendProperties
<1>8. ops' \in Nat
  BY <1>1, <1>3 DEF TypeInv
<1> QED BY <1>2, <1>3, <1>4, <1>5, <1>6, <1>7, <1>8 DEF Begins

\* Where game code runs nothing is being taken apart.
LEMMA CallsOutside ==
  ASSUME TypeInv, ControlInv, FreeingInv, MayCall
  PROVE  /\ phase \in {"game", "late", "update", "hit"} /\ phase \notin Flushes
         /\ phase \in Passes => running /\ cursor # None
         /\ freeing = <<>> /\ gObjDefCaptureMode = 2
BY DEF MayCall, TypeInv, ControlInv, FreeingInv, Phases, Passes, Flushes

------------------------------------------------------------------------------
\* The partition swaps as many objects from each side: the k-th from the left
\* with the k-th from the right.
AtMost(S, j) == {h \in S : h <= j}
AtLeast(S, j) == {h \in S : h >= j}

LEMMA AllTaken ==
  ASSUME NEW S, IsFiniteSet(S), NEW f \in [S -> 1 .. Cardinality(S)],
         \A x, y \in S : f[x] = f[y] => x = y
  PROVE  \A r \in 1 .. Cardinality(S) : \E x \in S : f[x] = r
<1> DEFINE N == 1 .. Cardinality(S)
           T == {f[x] : x \in S}
<1>1. Cardinality(S) \in Nat
  BY FS_CardinalityType
<1>2. IsFiniteSet(N) /\ Cardinality(N) = Cardinality(S)
  <2>1. IsFiniteSet(N)
        /\ Cardinality(N) = IF 1 > Cardinality(S) THEN 0 ELSE Cardinality(S) - 1 + 1
    BY <1>1, FS_Interval
  <2> QED BY <1>1, <2>1
<1>3. T \in SUBSET N
  OBVIOUS
<1>4. f \in Bijection(S, T)
  <2>1. f \in [S -> T]
    OBVIOUS
  <2>2. \A t \in T : \E x \in S : f[x] = t
    OBVIOUS
  <2> HIDE DEF T
  <2> QED BY <2>1, <2>2, Fun_IsBij
<1>5. Cardinality(T) = Cardinality(S)
  <2>1. ExistsBijection(S, T)
    BY <1>4 DEF ExistsBijection
  <2> HIDE DEF T
  <2> QED BY <2>1, FS_Bijection
<1>6. T = N
  <2> HIDE DEF T, N
  <2> QED BY <1>2, <1>3, <1>5, FS_Subset
<1> QED BY <1>6

LEMMA CountedUp ==
  ASSUME NEW S \in SUBSET Nat, IsFiniteSet(S)
  PROVE  /\ \A j \in S : Cardinality(AtMost(S, j)) \in 1 .. Cardinality(S)
         /\ \A j, k \in S :
              Cardinality(AtMost(S, j)) = Cardinality(AtMost(S, k)) => j = k
<1>0. \A x \in S : x \in Nat
  OBVIOUS
<1>1. ASSUME NEW j \in S
      PROVE  /\ AtMost(S, j) \in SUBSET S /\ IsFiniteSet(AtMost(S, j))
             /\ Cardinality(AtMost(S, j)) \in 1 .. Cardinality(S)
  <2>1. AtMost(S, j) \in SUBSET S /\ j \in AtMost(S, j)
    <3>1. j <= j
      BY <1>0
    <3> QED BY <3>1 DEF AtMost
  <2>2. IsFiniteSet(AtMost(S, j)) /\ Cardinality(AtMost(S, j)) <= Cardinality(S)
    BY <2>1, FS_Subset
  <2>3. Cardinality(AtMost(S, j)) \in Nat /\ Cardinality(S) \in Nat
    BY <2>2, FS_CardinalityType
  <2>4. Cardinality(AtMost(S, j)) # 0
    BY <2>1, <2>2, FS_EmptySet
  <2> QED BY <2>1, <2>2, <2>3, <2>4
<1>2. ASSUME NEW j \in S, NEW k \in S, j < k
      PROVE  Cardinality(AtMost(S, j)) # Cardinality(AtMost(S, k))
  <2>1. AtMost(S, j) \in SUBSET AtMost(S, k) /\ k \in AtMost(S, k) /\ k \notin AtMost(S, j)
    <3>1. \A h \in S : h <= j => h <= k
      BY <1>0, <1>2
    <3>2. k <= k /\ ~(k <= j)
      BY <1>0, <1>2
    <3> QED BY <3>1, <3>2 DEF AtMost
  <2>2. AtMost(S, j) # AtMost(S, k)
    BY <2>1
  <2> QED BY <1>1, <2>1, <2>2, FS_Subset
<1>3. ASSUME NEW j \in S, NEW k \in S, Cardinality(AtMost(S, j)) = Cardinality(AtMost(S, k))
      PROVE  j = k
  <2>1. ~(j < k) /\ ~(k < j)
    BY <1>2, <1>3
  <2> QED BY <2>1
<1> QED BY <1>1, <1>3

LEMMA CountedDown ==
  ASSUME NEW S \in SUBSET Nat, IsFiniteSet(S)
  PROVE  /\ \A j \in S : Cardinality(AtLeast(S, j)) \in 1 .. Cardinality(S)
         /\ \A j, k \in S :
              Cardinality(AtLeast(S, j)) = Cardinality(AtLeast(S, k)) => j = k
<1>0. \A x \in S : x \in Nat
  OBVIOUS
<1>1. ASSUME NEW j \in S
      PROVE  /\ AtLeast(S, j) \in SUBSET S /\ IsFiniteSet(AtLeast(S, j))
             /\ Cardinality(AtLeast(S, j)) \in 1 .. Cardinality(S)
  <2>1. AtLeast(S, j) \in SUBSET S /\ j \in AtLeast(S, j)
    <3>1. j >= j
      BY <1>0
    <3> QED BY <3>1 DEF AtLeast
  <2>2. IsFiniteSet(AtLeast(S, j)) /\ Cardinality(AtLeast(S, j)) <= Cardinality(S)
    BY <2>1, FS_Subset
  <2>3. Cardinality(AtLeast(S, j)) \in Nat /\ Cardinality(S) \in Nat
    BY <2>2, FS_CardinalityType
  <2>4. Cardinality(AtLeast(S, j)) # 0
    BY <2>1, <2>2, FS_EmptySet
  <2> QED BY <2>1, <2>2, <2>3, <2>4
<1>2. ASSUME NEW j \in S, NEW k \in S, j < k
      PROVE  Cardinality(AtLeast(S, j)) # Cardinality(AtLeast(S, k))
  <2>1. AtLeast(S, k) \in SUBSET AtLeast(S, j) /\ j \in AtLeast(S, j) /\ j \notin AtLeast(S, k)
    <3>1. \A h \in S : h >= k => h >= j
      BY <1>0, <1>2
    <3>2. j >= j /\ ~(j >= k)
      BY <1>0, <1>2
    <3> QED BY <3>1, <3>2 DEF AtLeast
  <2>2. AtLeast(S, j) # AtLeast(S, k)
    BY <2>1
  <2> QED BY <1>1, <2>1, <2>2, FS_Subset
<1>3. ASSUME NEW j \in S, NEW k \in S, Cardinality(AtLeast(S, j)) = Cardinality(AtLeast(S, k))
      PROVE  j = k
  <2>1. ~(j < k) /\ ~(k < j)
    BY <1>2, <1>3
  <2> QED BY <2>1
<1> QED BY <1>1, <1>3

Left(m) == {k \in 0 .. (m - 1) : Misplaced(m, k)}
Right(m) == {k \in m .. (gObjCount - 1) : Misplaced(m, k)}

LEMMA SidesEqual ==
  ASSUME TypeInv, ArrayInv, NEW m, m = Cardinality(Listed \cap HasModels)
  PROVE  /\ m \in 0 .. gObjCount /\ gObjCount \in Nat
         /\ IsFiniteSet(Left(m)) /\ IsFiniteSet(Right(m))
         /\ Left(m) \in SUBSET Nat /\ Right(m) \in SUBSET Nat
         /\ Cardinality(Left(m)) = Cardinality(Right(m))
<1>1. /\ Listed \in SUBSET Obj /\ IsFiniteSet(Listed) /\ Cardinality(Listed) = gObjCount
      /\ gObjCount \in Nat
  BY ListedCounted
<1>2. m \in 0 .. gObjCount /\ IsFiniteSet(Listed \cap HasModels)
  <2>1. Listed \cap HasModels \in SUBSET Listed
    OBVIOUS
  <2>2. IsFiniteSet(Listed \cap HasModels) /\ Cardinality(Listed \cap HasModels) <= gObjCount
    BY <1>1, <2>1, FS_Subset
  <2>3. m \in Nat
    BY <2>2, FS_CardinalityType
  <2> QED BY <1>1, <2>2, <2>3
<1> DEFINE A == Left(m)
           B == Right(m)
           H == {k \in 0 .. (gObjCount - 1) : gObjList[k] \in HasModels}
           M == 0 .. (m - 1)
<1>12. m \in Nat /\ m <= gObjCount /\ m - 1 \in Int /\ 0 \in Int /\ gObjCount - 1 \in Int
  BY <1>1, <1>2
<1>3. IsFiniteSet(0 .. (m - 1)) /\ Cardinality(0 .. (m - 1)) = m
  <2>1. IsFiniteSet(0 .. (m - 1))
        /\ Cardinality(0 .. (m - 1)) = IF 0 > m - 1 THEN 0 ELSE (m - 1) - 0 + 1
    BY ONLY <1>12, FS_Interval
  <2> QED BY <1>12, <2>1
<1>4. IsFiniteSet(0 .. (gObjCount - 1))
  BY <1>12, FS_Interval
<1>5. A \in SUBSET M /\ IsFiniteSet(A) /\ B \in SUBSET Nat /\ A \in SUBSET Nat /\ IsFiniteSet(B)
      /\ IsFiniteSet(H)
  <2>1. A \in SUBSET M /\ A \in SUBSET Nat
    <3>1. ASSUME NEW k \in Left(m) PROVE k \in 0 .. (m - 1)
      BY DEF Left
    <3>2. \A k \in 0 .. (m - 1) : k \in Nat
      BY <1>12
    <3>3. Left(m) \subseteq 0 .. (m - 1) /\ Left(m) \subseteq Nat
      BY <3>1, <3>2
    <3> QED BY <3>3
  <2>2. B \in SUBSET Nat /\ B \in SUBSET (0 .. (gObjCount - 1))
    <3>1. B \subseteq m .. (gObjCount - 1)
      BY DEF Right
    <3>2. \A k \in m .. (gObjCount - 1) : k \in Nat /\ k \in 0 .. (gObjCount - 1)
      BY <1>12
    <3> QED BY <3>1, <3>2
  <2>3. H \in SUBSET (0 .. (gObjCount - 1))
    OBVIOUS
  <2> QED BY <1>3, <1>4, <2>1, <2>2, <2>3, FS_Subset
<1>6. Cardinality(H) = m
  <2> DEFINE f == [k \in H |-> gObjList[k]]
             T == Listed \cap HasModels
  <2>1. f \in Bijection(H, T)
    <3>1. f \in [H -> T]
      BY DEF Listed
    <3>2. \A x, y \in H : f[x] = f[y] => x = y
      BY DEF ArrayInv, OneEach
    <3>3. \A t \in T : \E k \in H : f[k] = t
      BY DEF Listed
    <3> HIDE DEF T, H
    <3> QED BY <3>1, <3>2, <3>3, Fun_IsBij
  <2>2. ExistsBijection(H, T)
    BY <2>1 DEF ExistsBijection
  <2> HIDE DEF T, H
  <2>3. Cardinality(T) = Cardinality(H)
    BY <1>5, <2>2, FS_Bijection
  <2> QED BY <2>3 DEF T
<1>7. H = (M \ A) \cup B /\ (M \ A) \cap B = {}
  <2>1. ASSUME NEW k \in 0 .. (gObjCount - 1)
        PROVE  /\ k \in M <=> k < m
               /\ k \in A <=> k < m /\ gObjList[k] \notin HasModels
               /\ k \in B <=> ~(k < m) /\ gObjList[k] \in HasModels
    <3>1. k \in 0 .. (m - 1) <=> k < m
      BY <1>1, <1>12
    <3>2. k \in m .. (gObjCount - 1) <=> ~(k < m)
      BY <1>1, <1>12
    <3> QED BY <3>1, <3>2 DEF Left, Right, Misplaced
  <2>2. \A k \in M : k \in 0 .. (gObjCount - 1)
    BY <1>1, <1>12
  <2>3. \A k \in B : k \in 0 .. (gObjCount - 1)
    <3>1. \A k \in m .. (gObjCount - 1) : k \in 0 .. (gObjCount - 1)
      BY <1>12
    <3> QED BY <3>1 DEF Right
  <2> HIDE DEF M, A, B
  <2> QED BY <2>1, <2>2, <2>3
<1>13. IsFiniteSet(M) /\ Cardinality(M) = m
  BY <1>3
<1> HIDE DEF A, B, H, M
<1>8. IsFiniteSet(M \ A) /\ Cardinality(M \ A) = m - Cardinality(A)
  <2>1. M \cap A = A
    BY <1>5
  <2> QED BY <1>13, <2>1, FS_Difference
<1>9. Cardinality(H) = Cardinality(M \ A) + Cardinality(B)
  <2>1. Cardinality((M \ A) \cup B)
          = Cardinality(M \ A) + Cardinality(B) - Cardinality((M \ A) \cap B)
    BY <1>5, <1>8, FS_Union
  <2>2. Cardinality({}) = 0
    BY FS_EmptySet
  <2>3. Cardinality(M \ A) \in Nat /\ Cardinality(B) \in Nat
    BY <1>5, <1>8, FS_CardinalityType
  <2>4. Cardinality(H) = Cardinality(M \ A) + Cardinality(B) - 0
    BY <1>7, <2>1, <2>2
  <2> QED BY <2>3, <2>4
<1>10. Cardinality(A) \in Nat /\ Cardinality(B) \in Nat /\ m \in Nat
  BY <1>2, <1>5, FS_CardinalityType
<1>11. Cardinality(A) = Cardinality(B)
  BY <1>6, <1>8, <1>9, <1>10
<1> QED BY <1>1, <1>2, <1>5, <1>11 DEF A, B

LEMMA PartnerFound ==
  ASSUME TypeInv, ArrayInv, NEW m, m = Cardinality(Listed \cap HasModels),
         NEW k \in 0 .. (gObjCount - 1), Misplaced(m, k)
  PROVE  /\ Partner(m, k) \in 0 .. (gObjCount - 1)
         /\ Misplaced(m, Partner(m, k))
         /\ (Partner(m, k) < m) # (k < m)
         /\ Partner(m, Partner(m, k)) = k
<1> DEFINE A == Left(m)
           B == Right(m)
           I == 0 .. (gObjCount - 1)
           rank(j) == IF j < m THEN Cardinality({h \in 0 .. j : Misplaced(m, h)})
                      ELSE Cardinality({h \in j .. (gObjCount - 1) : Misplaced(m, h)})
           fits(x, j) == Misplaced(m, j) /\ (j < m) # (x < m) /\ rank(j) = rank(x)
<1>1. /\ m \in 0 .. gObjCount /\ gObjCount \in Nat /\ IsFiniteSet(A) /\ IsFiniteSet(B)
      /\ A \in SUBSET Nat /\ B \in SUBSET Nat /\ Cardinality(A) = Cardinality(B)
  BY SidesEqual
<1>2. ASSUME NEW j \in I
      PROVE  /\ j \in A <=> j < m /\ Misplaced(m, j)
             /\ j \in B <=> ~(j < m) /\ Misplaced(m, j)
             /\ j \in Nat
  BY <1>1 DEF Left, Right
<1>3. A \subseteq I /\ B \subseteq I
  <2>1. m \in Nat /\ m <= gObjCount
    BY <1>1
  <2>2. \A h \in 0 .. (m - 1) : h \in I
    BY <1>1, <2>1
  <2>3. \A h \in m .. (gObjCount - 1) : h \in I
    BY <1>1, <2>1
  <2> QED BY <2>2, <2>3 DEF Left, Right
<1>4. ASSUME NEW j \in A PROVE rank(j) = Cardinality(AtMost(A, j))
  <2>1. {h \in 0 .. j : Misplaced(m, h)} = AtMost(A, j)
    BY <1>1 DEF Left, AtMost
  <2>2. j < m
    BY <1>2, <1>3
  <2> QED BY <2>1, <2>2
<1>5. ASSUME NEW j \in B PROVE rank(j) = Cardinality(AtLeast(B, j))
  <2>1. {h \in j .. (gObjCount - 1) : Misplaced(m, h)} = AtLeast(B, j)
    BY <1>1 DEF Right, AtLeast
  <2>2. ~(j < m)
    BY <1>2, <1>3
  <2> QED BY <2>1, <2>2
<1> HIDE DEF A, B, rank
<1>6. /\ \A j \in A : rank(j) \in 1 .. Cardinality(A)
      /\ \A j, h \in A : rank(j) = rank(h) => j = h
  <2>1. /\ \A j \in A : Cardinality(AtMost(A, j)) \in 1 .. Cardinality(A)
        /\ \A j, h \in A :
             Cardinality(AtMost(A, j)) = Cardinality(AtMost(A, h)) => j = h
    BY <1>1, CountedUp
  <2>2. \A j \in A : rank(j) = Cardinality(AtMost(A, j))
    BY <1>4
  <2> QED BY <2>1, <2>2
<1>7. /\ \A j \in B : rank(j) \in 1 .. Cardinality(B)
      /\ \A j, h \in B : rank(j) = rank(h) => j = h
  <2>1. /\ \A j \in B : Cardinality(AtLeast(B, j)) \in 1 .. Cardinality(B)
        /\ \A j, h \in B :
             Cardinality(AtLeast(B, j)) = Cardinality(AtLeast(B, h)) => j = h
    BY <1>1, CountedDown
  <2>2. \A j \in B : rank(j) = Cardinality(AtLeast(B, j))
    BY <1>5
  <2> QED BY <2>1, <2>2
<1>8. \A r \in 1 .. Cardinality(A) : \E j \in A : rank(j) = r
  <2> DEFINE f == [j \in A |-> rank(j)]
  <2>1. f \in [A -> 1 .. Cardinality(A)] /\ \A j, h \in A : f[j] = f[h] => j = h
    BY <1>6
  <2>2. \A j \in A : f[j] = rank(j)
    OBVIOUS
  <2> HIDE DEF f
  <2>3. \A r \in 1 .. Cardinality(A) : \E j \in A : f[j] = r
    BY <1>1, <2>1, AllTaken
  <2> QED BY <2>2, <2>3
<1>9. \A r \in 1 .. Cardinality(B) : \E j \in B : rank(j) = r
  <2> DEFINE f == [j \in B |-> rank(j)]
  <2>1. f \in [B -> 1 .. Cardinality(B)] /\ \A j, h \in B : f[j] = f[h] => j = h
    BY <1>7
  <2>2. \A j \in B : f[j] = rank(j)
    OBVIOUS
  <2> HIDE DEF f
  <2>3. \A r \in 1 .. Cardinality(B) : \E j \in B : f[j] = r
    BY <1>1, <2>1, AllTaken
  <2> QED BY <2>2, <2>3
<1>10. \A x \in I : Partner(m, x) = CHOOSE j \in I : fits(x, j)
  BY DEF Partner, rank
<1>11. ASSUME NEW x \in I, Misplaced(m, x) PROVE \E j \in I : fits(x, j)
  <2>1. CASE x < m
    <3>1. rank(x) \in 1 .. Cardinality(B)
      BY <1>1, <1>2, <1>6, <1>11, <2>1
    <3>2. PICK j \in B : rank(j) = rank(x)
      BY <1>9, <3>1
    <3> QED BY <1>2, <1>3, <2>1, <3>2
  <2>2. CASE ~(x < m)
    <3>1. rank(x) \in 1 .. Cardinality(A)
      BY <1>1, <1>2, <1>7, <1>11, <2>2
    <3>2. PICK j \in A : rank(j) = rank(x)
      BY <1>8, <3>1
    <3> QED BY <1>2, <1>3, <2>2, <3>2
  <2> QED BY <2>1, <2>2
<1>12. ASSUME NEW x \in I, NEW j \in I, NEW h \in I, fits(x, j), fits(x, h) PROVE j = h
  <2>1. CASE x < m
    <3>1. j \in B /\ h \in B /\ rank(j) = rank(h)
      BY <1>2, <1>12, <2>1
    <3> QED BY <1>7, <3>1
  <2>2. CASE ~(x < m)
    <3>1. j \in A /\ h \in A /\ rank(j) = rank(h)
      BY <1>2, <1>12, <2>2
    <3> QED BY <1>6, <3>1
  <2> QED BY <2>1, <2>2
<1> DEFINE p == Partner(m, k)
<1>13. p \in I /\ fits(k, p)
  <2>1. p = CHOOSE j \in I : fits(k, j)
    BY <1>10
  <2> HIDE DEF fits, p
  <2> QED BY <1>11, <2>1
<1> HIDE DEF p
<1>14. fits(p, k)
  BY <1>13
<1>15. Partner(m, p) = CHOOSE j \in I : fits(p, j)
  BY <1>10, <1>13
<1>16. Partner(m, p) \in I /\ fits(p, Partner(m, p))
  <2> HIDE DEF fits
  <2> QED BY <1>13, <1>14, <1>15
<1>17. Partner(m, p) = k
  BY <1>12, <1>13, <1>14, <1>16
<1> QED BY <1>13, <1>17 DEF p

\* ObjList_PartitionForRender reorders the array and divides it.
LEMMA PartitionKeeps ==
  ASSUME TypeInv, ArrayInv, ObjList_PartitionForRender
  PROVE  /\ gObjList' \in [Indices -> Obj \cup {None}]
         /\ gObjPartitionPivot' \in 0 .. gObjCount
         /\ Listed' = Listed /\ OneEach(gObjList', gObjCount)
         /\ \A k \in 0 .. (gObjCount - 1) :
              k < gObjPartitionPivot' <=> gObjList'[k] \in HasModels
<1>1. PICK m : m = Cardinality(Listed \cap HasModels)
  OBVIOUS
<1>2. m \in 0 .. gObjCount /\ gObjCount \in Nat
  BY <1>1, SidesEqual
<1> DEFINE I == 0 .. (gObjCount - 1)
           to(k) == IF Misplaced(m, k) THEN Partner(m, k) ELSE k
<1>3. gObjList' = [k \in Indices |->
                     IF k < gObjCount /\ Misplaced(m, k) THEN gObjList[Partner(m, k)]
                     ELSE gObjList[k]]
      /\ gObjPartitionPivot' = m /\ gObjCount' = gObjCount
  BY <1>1 DEF ObjList_PartitionForRender
<1>4. I \subseteq Indices /\ Indices \subseteq Nat /\ gObjList \in [Indices -> Obj \cup {None}]
  <2>1. gObjCount <= Cardinality(Obj) /\ Cardinality(Obj) \in Nat
    BY ListedCounted
  <2> QED BY <1>2, <2>1 DEF Indices, TypeInv, TypeOK
<1>5. ASSUME NEW k \in I
      PROVE  /\ gObjList'[k] = gObjList[to(k)] /\ to(k) \in I /\ to(to(k)) = k
             /\ Misplaced(m, k) => Misplaced(m, to(k)) /\ (to(k) < m) # (k < m)
             /\ ~Misplaced(m, k) => to(k) = k
  <2>1. k < gObjCount /\ k \in Indices
    BY <1>2, <1>4
  <2>2. CASE Misplaced(m, k)
    <3>1. /\ Partner(m, k) \in I /\ Misplaced(m, Partner(m, k))
          /\ (Partner(m, k) < m) # (k < m) /\ Partner(m, Partner(m, k)) = k
      BY <1>1, <2>2, PartnerFound
    <3> QED BY <1>3, <2>1, <2>2, <3>1
  <2>3. CASE ~Misplaced(m, k)
    BY <1>3, <2>1, <2>3
  <2> QED BY <2>2, <2>3
<1> HIDE DEF to
<1>6. gObjList' \in [Indices -> Obj \cup {None}]
  <2>1. ASSUME NEW k \in Indices PROVE gObjList'[k] \in Obj \cup {None}
    <3>1. CASE k \in I
      BY <1>4, <1>5, <3>1
    <3>2. CASE k \notin I
      <4>1. ~(k < gObjCount)
        BY <1>2, <1>4, <3>2
      <4> QED BY <1>3, <1>4, <4>1
    <3> QED BY <3>1, <3>2
  <2> QED BY <1>3, <2>1
<1>7. Listed' = Listed
  <2>1. Listed' = {gObjList'[k] : k \in I} /\ Listed = {gObjList[k] : k \in I}
    BY <1>3 DEF Listed
  <2>2. ASSUME NEW k \in I PROVE gObjList'[k] \in Listed /\ gObjList[k] \in Listed'
    BY <1>5, <2>1
  <2> QED BY <2>1, <2>2
<1>8. OneEach(gObjList', gObjCount)
  <2> SUFFICES ASSUME NEW j \in I, NEW k \in I, gObjList'[j] = gObjList'[k] PROVE j = k
    BY DEF OneEach
  <2>1. to(j) = to(k)
    BY <1>5 DEF ArrayInv, OneEach
  <2> QED BY <1>5, <2>1
<1>9. ASSUME NEW k \in I PROVE k < m <=> gObjList'[k] \in HasModels
  BY <1>5 DEF Misplaced
<1> QED BY <1>2, <1>3, <1>6, <1>7, <1>8, <1>9

------------------------------------------------------------------------------
\* What every step leaves of the parts of the invariant.
LEMMA SetUp ==
  ASSUME IInv
  PROVE  /\ TypeInv /\ TypeOK /\ ArrayInv /\ AbsentInv /\ DeferInv /\ DeferredExact /\ ControlInv
         /\ FreeingInv /\ ParentInv /\ PoolInv /\ ResetInv /\ SweepInv /\ PartitionValid
         /\ OrderInv
BY DEF IInv, TypeInv

\* Which objects are where.
LEMMA Places ==
  ASSUME IInv
  PROVE  /\ Chain(gObjUpdateList) \subseteq Listed /\ Listed = Live \ freed
         /\ Listed \subseteq Live /\ Live \subseteq Obj /\ Live \cap Absent = {}
         /\ Waiting \subseteq freed \cap Live /\ Listed \cap freed = {}
         /\ None \notin Obj /\ Effects \subseteq Obj /\ Pipes \subseteq Obj /\ Pipes \cap Effects = {}
<1>1. Chain(gObjUpdateList) \subseteq Listed
  BY SetUp, ListOrdered
<1>2. Listed = Live \ freed /\ Waiting \subseteq freed \cap Live
  BY SetUp DEF ArrayInv, DeferInv
<1> QED BY <1>1, <1>2, ObjectConstants DEF Live, Absent

LEMMA RegisterKeepsTypes ==
  ASSUME IInv, NEW o \in Obj, NEW par \in Obj \cup {None}, Register(o, par),
         UNCHANGED cursor, active' \subseteq Effects
  PROVE  TypeOK'
<1>1. /\ gObjCount < Cardinality(Obj) /\ gObjCount' = gObjCount + 1
      /\ o \notin Listed /\ o \in Absent
      /\ gObjList' = [gObjList EXCEPT ![gObjCount] = o]
  BY RegisterArray DEF IInv
<1>2. Chain(gObjUpdateList) \subseteq Listed
  BY ListOrdered DEF IInv
<1>3. gObjUpdateList' \in UpdateList
  BY <1>1, <1>2, ChainInserted DEF IInv, Register
<1>4. TypeOK
  BY DEF IInv, TypeInv
<1>5. gObjCount \in Nat /\ Cardinality(Obj) \in Nat
  BY ListedCounted DEF IInv
<1>6. gObjCount' \in 0 .. Cardinality(Obj)
  BY <1>1, <1>5
<1>7. gObjPartitionPivot' \in 0 .. gObjCount'
  BY <1>1, <1>4, <1>5 DEF Register, TypeOK
<1>8. mem' \in [Obj -> {"absent", "live"}] /\ parent' \in [Obj -> Obj \cup {None}]
  BY <1>4 DEF Register, TypeOK
<1>9. gObjList' \in [Indices -> Obj \cup {None}]
  BY <1>1, <1>4 DEF TypeOK
<1>10. freed' \subseteq Obj /\ cursor' \in Obj \cup {None}
       /\ gObjDeferredFreeList' \in [0 .. (DeferredCap - 1) -> Obj \cup {None}]
       /\ gObjDeferredFreeCount' \in 0 .. (DeferredCap - 1)
  BY <1>4 DEF Register, TypeOK, deferred
<1> QED BY <1>3, <1>6, <1>7, <1>8, <1>9, <1>10 DEF TypeOK, UpdateList

LEMMA UnlistKeepsTypes ==
  ASSUME IInv, NEW o \in Listed, Unlist(o), mem' = mem, UNCHANGED <<parent, cursor, active>>,
         FreeLater(o) \/ UNCHANGED deferred
  PROVE  TypeOK'
<1>1. /\ gObjCount' = gObjCount - 1 /\ gObjCount - 1 \in Nat
      /\ o \in Obj /\ freed' = freed \cup {o}
      /\ gObjList' \in [Indices -> Obj \cup {None}]
  BY UnlistArray DEF IInv
<1>2. gObjUpdateList' \in UpdateList
  BY <1>1, ChainRemoved DEF IInv, Unlist
<1>3. TypeOK
  BY DEF IInv, TypeInv
<1>4. gObjCount' \in 0 .. Cardinality(Obj) /\ gObjPartitionPivot' \in 0 .. gObjCount'
  <2>1. gObjCount \in Nat /\ Cardinality(Obj) \in Nat /\ gObjCount <= Cardinality(Obj)
    BY ListedCounted DEF IInv
  <2> QED BY <1>1, <2>1 DEF Unlist
<1>5. /\ gObjDeferredFreeList' \in [0 .. (DeferredCap - 1) -> Obj \cup {None}]
      /\ gObjDeferredFreeCount' \in 0 .. (DeferredCap - 1)
  <2>1. CASE UNCHANGED deferred
    BY <1>3, <2>1 DEF TypeOK, deferred
  <2>2. CASE FreeLater(o)
    <3>1. gObjDeferredFreeList' \in [0 .. (DeferredCap - 1) -> Obj \cup {None}]
      BY <2>2, FreeLaterArray DEF IInv
    <3>2. \/ gObjDeferredFreeCount' = gObjDeferredFreeCount
          \/ /\ gObjDeferredFreeCount' = gObjDeferredFreeCount + 1
             /\ gObjDeferredFreeCount + 1 < DeferredCap
      BY <2>2, FreeLaterArray DEF IInv
    <3>3. gObjDeferredFreeCount \in 0 .. (DeferredCap - 1) /\ DeferredCap \in Nat
      BY <1>3, ObjectConstants DEF TypeOK
    <3> QED BY <3>1, <3>2, <3>3
  <2> QED BY <2>1, <2>2
<1> QED BY <1>1, <1>2, <1>3, <1>4, <1>5 DEF TypeOK, UpdateList

------------------------------------------------------------------------------
\* The order of the list.  An object comes in.
LEMMA OrderInserted ==
  ASSUME IInv, NEW z \in Obj, z \notin Chain(gObjUpdateList), z \notin freed,
         gObjUpdateList' = Obj_InsertIntoUpdateList(gObjUpdateList, z),
         z \in Absent \/ (z \in Listed /\ Chain(gObjUpdateList) # {}),
         Live' = Live \cup {z}, Listed' = Listed \cup {z}, freed' = freed,
         phase' = phase, cursor' = cursor, present' = present, visited' = visited,
         phase \in Passes => cursor # None /\ cursor # z
  PROVE  OrderInv'
<1>1. PICK D \in SUBSET Live, C \in SUBSET Listed, rank \in Ranks :
        /\ C \subseteq D
        /\ Ranked(gObjUpdateList, C, rank)
        /\ SlotOrdered(D, rank)
        /\ phase \in Passes => Passing(D, C, rank)
  BY SetUp DEF OrderInv
<1>2. /\ C \in SUBSET Obj /\ D \in SUBSET Obj /\ Live \cap Absent = {}
      /\ Listed \cap freed = {} /\ None \notin Obj
  BY Places
<1>3. gObjUpdateList \in UpdateList
  BY SetUp, ListOrdered
<1>4. Chain(gObjUpdateList) = C
  BY <1>1, <1>2, <1>3, ChainOf
<1>5. PICK cut \in Nat : Cuts(D, rank, z, cut)
  BY <1>1, <1>2, CutExists
<1>6. C = {} => gObjUpdateList.next[z] = None
  BY <1>4, SetUp DEF AbsentInv
<1>7. PICK r : r = Moved(rank, z, cut)
  OBVIOUS
<1>8. /\ Ranked(gObjUpdateList', C \cup {z}, r)
      /\ LinksKept(gObjUpdateList', gObjUpdateList, Obj \ (C \cup {z}))
  BY <1>1, <1>2, <1>3, <1>4, <1>5, <1>6, <1>7, Inserted
<1>9. r \in Ranks /\ OrderKept(r, rank, z, cut)
  BY <1>7, MovedOrder
<1>10. SlotOrdered(D \cup {z}, r)
  BY <1>1, <1>2, <1>5, <1>7, MovedOrdered
<1>11. ASSUME phase \in Passes PROVE Passing(D \cup {z}, C \cup {z}, r)'
  <2>1. Passing(D, C, rank) /\ cursor # None /\ cursor # z /\ cursor \in D
    BY <1>1, <1>11 DEF Passing
  <2>2. \A x \in Obj : Slot[x] \in Nat /\ rank[x] \in Nat /\ r[x] \in Nat
    BY <1>9, ObjectConstants DEF Ranks
  <2>3. ASSUME z \in D PROVE ~(rank[cursor] < cut) /\ rank[z] < rank[cursor]
    <3>1. z \in D \ C /\ z \notin freed /\ z # cursor
      BY <1>4, <2>1, <2>3
    <3>2. ~(rank[cursor] <= rank[z])
      BY <2>1, <3>1 DEF Passing
    <3>3. rank[z] < rank[cursor]
      BY <1>2, <2>1, <2>2, <3>2
    <3>4. Slot[z] >= Slot[cursor]
      BY <1>1, <2>1, <2>3, <3>3 DEF SlotOrdered
    <3>5. ~(Slot[z] < Slot[cursor])
      BY <1>2, <2>1, <2>2, <3>4
    <3> QED BY <1>5, <2>1, <3>3, <3>5 DEF Cuts
  <2>4. z \in visited \cup present => z \in D
    BY <2>1 DEF Passing
  <2>5. visited' \cup present' \subseteq D \cup {z} /\ cursor' \in D \cup {z} /\ cursor' \in visited'
    BY <2>1 DEF Passing
  <2>6. ASSUME NEW v \in visited PROVE r[v] <= r[cursor]
    <3>1. v \in Obj /\ cursor \in Obj
      BY <1>2, <2>1 DEF Passing
    <3>2. CASE v = z
      BY <1>9, <2>1, <2>3, <2>4, <3>1, <3>2 DEF OrderKept
    <3>3. CASE v # z
      <4>1. rank[v] <= rank[cursor]
        BY <2>1 DEF Passing
      <4> QED BY <1>9, <2>1, <3>1, <3>3, <4>1 DEF OrderKept
    <3> QED BY <3>2, <3>3
  <2>7. ASSUME NEW x \in present \ freed
        PROVE  x \in visited \/ (x \in C \cup {z} /\ r[cursor] < r[x])
    <3>1. x \in Obj /\ cursor \in Obj
      BY <1>2, <2>1 DEF Passing
    <3>2. x \in visited \/ (x \in C /\ rank[cursor] < rank[x])
      BY <2>1 DEF Passing
    <3>3. CASE x = z
      BY <1>4, <3>2, <3>3
    <3>4. CASE x # z
      BY <1>9, <2>1, <3>1, <3>2, <3>4 DEF OrderKept
    <3> QED BY <3>3, <3>4
  <2>8. ASSUME NEW o \in (D \cup {z}) \ (C \cup {z}), r[cursor] <= r[o]
        PROVE  /\ o = cursor \/ o \in freed
               /\ gObjUpdateList'.next[o] # None =>
                    /\ gObjUpdateList'.next[o] \in D \cup {z}
                    /\ r[o] < r[gObjUpdateList'.next[o]]
               /\ \A x \in present \cap (C \cup {z}) :
                    r[x] <= r[o]
                    \/ (gObjUpdateList'.next[o] # None /\ r[gObjUpdateList'.next[o]] <= r[x])
    <3>1. o \in D \ C /\ o # z /\ o \in Obj /\ cursor \in Obj
      BY <1>2, <2>1
    <3>2. rank[cursor] <= rank[o]
      BY <1>9, <2>1, <2>8, <3>1 DEF OrderKept
    <3>3. PICK nxt : nxt = gObjUpdateList.next[o] /\ nxt = gObjUpdateList'.next[o]
      BY <1>8, <3>1 DEF LinksKept
    <3>4. /\ o = cursor \/ o \in freed
          /\ nxt # None => nxt \in D /\ rank[o] < rank[nxt]
          /\ \A x \in present \cap C : rank[x] <= rank[o] \/ (nxt # None /\ rank[nxt] <= rank[x])
      BY <2>1, <3>1, <3>2, <3>3 DEF Passing
    <3>5. nxt # z
      <4> SUFFICES ASSUME nxt = z PROVE FALSE
        OBVIOUS
      <4>1. z \in D /\ rank[o] < rank[z]
        BY <1>2, <3>4
      <4>2. rank[z] < rank[cursor]
        BY <2>3, <4>1
      <4> QED BY <1>2, <2>2, <3>1, <3>2, <4>1, <4>2
    <3>6. nxt # None => nxt \in D \cup {z} /\ r[o] < r[nxt]
      BY <1>2, <1>9, <3>1, <3>4, <3>5 DEF OrderKept
    <3>7. ASSUME NEW x \in present \cap (C \cup {z})
          PROVE  r[x] <= r[o] \/ (nxt # None /\ r[nxt] <= r[x])
      <4>1. CASE x = z
        <5>1. r[z] <= r[cursor]
          BY <1>9, <2>1, <2>3, <2>4, <3>1, <4>1 DEF OrderKept
        <5> QED BY <2>2, <2>8, <3>1, <4>1, <5>1
      <4>2. CASE x # z
        <5>1. x \in C /\ x \in Obj
          BY <1>2, <4>2
        <5>2. rank[x] <= rank[o] \/ (nxt # None /\ nxt \in Obj /\ rank[nxt] <= rank[x])
          BY <1>2, <3>4, <5>1
        <5> QED BY <1>9, <3>1, <3>5, <4>2, <5>1, <5>2 DEF OrderKept
      <4> QED BY <4>1, <4>2
    <3> QED BY <3>3, <3>4, <3>6, <3>7
  <2> QED BY <2>1, <2>5, <2>6, <2>7, <2>8 DEF Passing
<1>12. D \cup {z} \in SUBSET Live' /\ C \cup {z} \in SUBSET Listed' /\ C \cup {z} \subseteq D \cup {z}
  BY <1>1
<1> QED BY <1>8, <1>9, <1>10, <1>11, <1>12 DEF OrderInv

\* An object goes out: the one a pass is at, or one that is freed.
LEMMA OrderRemoved ==
  ASSUME IInv, NEW z \in Obj,
         gObjUpdateList' = objList_remove(gObjUpdateList, z),
         Live' = Live, (z \in freed' /\ Listed' = Listed \ {z}) \/ (z = cursor /\ Listed' = Listed),
         freed \subseteq freed',
         phase' = phase, cursor' = cursor, present' = present, visited' = visited
  PROVE  OrderInv'
<1>1. PICK D \in SUBSET Live, C \in SUBSET Listed, rank \in Ranks :
        /\ C \subseteq D
        /\ Ranked(gObjUpdateList, C, rank)
        /\ SlotOrdered(D, rank)
        /\ phase \in Passes => Passing(D, C, rank)
  BY SetUp DEF OrderInv
<1>2. /\ C \in SUBSET Obj /\ D \in SUBSET Obj /\ None \notin Obj
  BY Places
<1>3. gObjUpdateList \in UpdateList
  BY SetUp, ListOrdered
<1>5. /\ Ranked(gObjUpdateList', C \ {z}, rank)
      /\ LinksKept(gObjUpdateList', gObjUpdateList, (Obj \ C) \cup {z})
  BY <1>1, <1>2, <1>3, Removed
<1>6. ASSUME phase \in Passes PROVE Passing(D, C \ {z}, rank)'
  <2>1. Passing(D, C, rank)
    BY <1>1, <1>6
  <2>2. \A x \in Obj : rank[x] \in Nat
    BY DEF Ranks
  <2>3. z \in freed' \/ z = cursor
    OBVIOUS
  <2>4. visited' \cup present' \subseteq D
    BY <2>1 DEF Passing
  <2>5. cursor' = None => present' \cap (C \ {z}) \subseteq visited'
    BY <2>1 DEF Passing
  <2>6. ASSUME cursor # None
        PROVE  /\ cursor \in D /\ cursor \in visited
               /\ \A v \in visited : rank[v] <= rank[cursor]
    BY <2>1, <2>6 DEF Passing
  <2>7. ASSUME cursor # None, NEW x \in present \ freed'
        PROVE  x \in visited \/ (x \in C \ {z} /\ rank[cursor] < rank[x])
    <3>1. x \in visited \/ (x \in C /\ rank[cursor] < rank[x])
      BY <2>1, <2>7 DEF Passing
    <3> QED BY <2>3, <2>6, <2>7, <3>1
  <2>8. ASSUME cursor # None, NEW o \in D \ (C \ {z}), rank[cursor] <= rank[o]
        PROVE  /\ o = cursor \/ o \in freed'
               /\ gObjUpdateList'.next[o] # None =>
                    /\ gObjUpdateList'.next[o] \in D
                    /\ rank[o] < rank[gObjUpdateList'.next[o]]
               /\ \A x \in present \cap (C \ {z}) :
                    rank[x] <= rank[o]
                    \/ (gObjUpdateList'.next[o] # None /\ rank[gObjUpdateList'.next[o]] <= rank[x])
    <3>1. PICK nxt : nxt = gObjUpdateList.next[o] /\ nxt = gObjUpdateList'.next[o]
      BY <1>2, <1>5 DEF LinksKept
    <3>2. CASE o \in C
      <4>1. o = z
        BY <2>8, <3>2
      <4>2. nxt # None =>
              /\ nxt \in C /\ rank[o] < rank[nxt]
              /\ \A x \in C : rank[x] <= rank[o] \/ rank[nxt] <= rank[x]
        BY <1>1, <3>1, <3>2 DEF Ranked
      <4>3. nxt = None => \A x \in C : rank[x] <= rank[o]
        BY <1>1, <3>1, <3>2 DEF Ranked
      <4> QED BY <1>1, <2>3, <3>1, <4>1, <4>2, <4>3
    <3>3. CASE o \notin C
      <4>1. /\ o = cursor \/ o \in freed
            /\ nxt # None => nxt \in D /\ rank[o] < rank[nxt]
            /\ \A x \in present \cap C : rank[x] <= rank[o] \/ (nxt # None /\ rank[nxt] <= rank[x])
        BY <2>1, <2>8, <3>1, <3>3 DEF Passing
      <4> QED BY <3>1, <4>1
    <3> QED BY <3>2, <3>3
  <2> QED BY <2>4, <2>5, <2>6, <2>7, <2>8 DEF Passing
<1>7. C \ {z} \in SUBSET Listed' /\ D \in SUBSET Live' /\ C \ {z} \subseteq D
  BY <1>1
<1> QED BY <1>1, <1>5, <1>6, <1>7 DEF OrderInv

\* Outside a pass it is enough that the links of the list stay.
LEMMA OrderOutside ==
  ASSUME IInv, phase' \notin Passes, gObjUpdateList'.head = gObjUpdateList.head,
         LinksKept(gObjUpdateList', gObjUpdateList, Listed), Listed' = Listed, Listed \subseteq Live'
  PROVE  OrderInv'
<1>1. PICK D \in SUBSET Live, C \in SUBSET Listed, rank \in Ranks :
        /\ C \subseteq D
        /\ Ranked(gObjUpdateList, C, rank)
        /\ SlotOrdered(D, rank)
  BY SetUp DEF OrderInv
<1>2. \A x \in C : gObjUpdateList'.next[x] = gObjUpdateList.next[x]
  BY DEF LinksKept
<1>3. Ranked(gObjUpdateList', C, rank)
  BY <1>1, <1>2 DEF Ranked
<1>4. SlotOrdered(C, rank) /\ C \in SUBSET Live' /\ C \in SUBSET Listed' /\ C \subseteq C
  BY <1>1 DEF SlotOrdered
<1> QED BY <1>3, <1>4 DEF OrderInv

\* A pass begins, and goes on.
LEMMA OrderStarted ==
  ASSUME IInv, NEW which, StartPass(which)
  PROVE  OrderInv'
<1>1. PICK D \in SUBSET Live, C \in SUBSET Listed, rank \in Ranks :
        /\ C \subseteq D
        /\ Ranked(gObjUpdateList, C, rank)
        /\ SlotOrdered(D, rank)
  BY SetUp DEF OrderInv
<1>2. C \in SUBSET Obj /\ None \notin Obj /\ \A x \in Obj : rank[x] \in Nat
  BY Places DEF Ranks
<1>3. Chain(gObjUpdateList) = C
  <2>1. gObjUpdateList \in UpdateList
    BY SetUp, ListOrdered
  <2> QED BY <1>1, <1>2, <2>1, ChainOf
<1>4. /\ UNCHANGED <<gObjUpdateList, mem, freed, gObjList, gObjCount>>
      /\ cursor' = gObjUpdateList.head /\ present' = C /\ visited' = {gObjUpdateList.head} \ {None}
  BY <1>3 DEF StartPass, lists
<1>5. Live' = Live /\ Listed' = Listed
  BY <1>4 DEF Live, Listed
<1>6. Passing(C, C, rank)'
  <2>1. CASE gObjUpdateList.head = None
    BY <1>1, <1>4, <2>1 DEF Passing, Ranked
  <2>2. CASE gObjUpdateList.head # None
    <3>1. /\ cursor' \in C /\ visited' = {cursor'} /\ cursor' # None /\ cursor' \in Obj
          /\ \A x \in C : rank[cursor'] <= rank[x]
          /\ \A x, y \in C : rank[x] = rank[y] => x = y
      BY <1>1, <1>2, <1>4, <2>2 DEF Ranked
    <3>2. \A x \in C : x = cursor' \/ rank[cursor'] < rank[x]
      BY <1>2, <3>1
    <3>3. rank[cursor'] <= rank[cursor']
      BY <1>2, <3>1
    <3> QED BY <1>4, <3>1, <3>2, <3>3 DEF Passing
  <2> QED BY <2>1, <2>2
<1>7. Ranked(gObjUpdateList', C, rank) /\ SlotOrdered(C, rank)
  BY <1>1, <1>4 DEF SlotOrdered
<1>8. C \in SUBSET Live' /\ C \in SUBSET Listed' /\ C \subseteq C
  BY <1>1, <1>5
<1> QED BY <1>6, <1>7, <1>8 DEF OrderInv

LEMMA Advanced ==
  ASSUME IInv, Advance
  PROVE  /\ OrderInv' /\ cursor' \notin visited
         /\ cursor' \in Live \cup {None}
         /\ cursor' \in Chain(gObjUpdateList) \/ cursor' \in freed \cup {None}
<1>1. PICK D \in SUBSET Live, C \in SUBSET Listed, rank \in Ranks :
        /\ C \subseteq D
        /\ Ranked(gObjUpdateList, C, rank)
        /\ SlotOrdered(D, rank)
        /\ phase \in Passes => Passing(D, C, rank)
  BY SetUp DEF OrderInv
<1>2. /\ C \in SUBSET Obj /\ D \in SUBSET Obj /\ None \notin Obj /\ C \cap freed = {}
      /\ \A x \in Obj : rank[x] \in Nat
  BY Places DEF Ranks
<1>3. Chain(gObjUpdateList) = C
  <2>1. gObjUpdateList \in UpdateList
    BY SetUp, ListOrdered
  <2> QED BY <1>1, <1>2, <2>1, ChainOf
<1>4. /\ phase \in Passes /\ phase' = phase /\ cursor # None
      /\ UNCHANGED <<gObjUpdateList, mem, freed, gObjList, gObjCount, present>>
      /\ cursor' = gObjUpdateList.next[cursor] /\ visited' = visited \cup ({cursor'} \ {None})
  BY DEF Advance, lists, Passes
<1>5. Live' = Live /\ Listed' = Listed
  BY <1>4 DEF Live, Listed
<1>6. /\ visited \cup present \subseteq D /\ cursor \in D /\ cursor \in visited
      /\ \A v \in visited : rank[v] <= rank[cursor]
      /\ \A x \in present \ freed : x \in visited \/ (x \in C /\ rank[cursor] < rank[x])
      /\ \A o \in D \ C : rank[cursor] <= rank[o] =>
            /\ o = cursor \/ o \in freed
            /\ gObjUpdateList.next[o] # None =>
                 /\ gObjUpdateList.next[o] \in D
                 /\ rank[o] < rank[gObjUpdateList.next[o]]
            /\ \A x \in present \cap C :
                 rank[x] <= rank[o]
                 \/ (gObjUpdateList.next[o] # None /\ rank[gObjUpdateList.next[o]] <= rank[x])
  BY <1>1, <1>4 DEF Passing
<1>7. /\ cursor' # None => cursor' \in D /\ rank[cursor] < rank[cursor']
      /\ \A x \in present \cap C :
           rank[x] <= rank[cursor] \/ (cursor' # None /\ rank[cursor'] <= rank[x])
      /\ cursor \in C /\ cursor' # None => cursor' \in C
  <2>1. CASE cursor \in C
    BY <1>1, <1>4, <2>1 DEF Ranked
  <2>2. CASE cursor \notin C
    <3>1. rank[cursor] <= rank[cursor] /\ cursor \in D \ C
      BY <1>2, <1>6, <2>2
    <3> QED BY <1>4, <1>6, <2>2, <3>1
  <2> QED BY <2>1, <2>2
<1>8. cursor' \notin visited
  <2> SUFFICES ASSUME cursor' \in visited PROVE FALSE
    OBVIOUS
  <2>1. cursor' \in Obj /\ cursor' # None /\ cursor \in Obj /\ rank[cursor'] <= rank[cursor]
    BY <1>2, <1>6
  <2> QED BY <1>2, <1>7, <2>1
<1>9. cursor' \in C \/ cursor' \in freed \cup {None}
  <2> SUFFICES ASSUME cursor' \notin C, cursor' # None PROVE cursor' \in freed
    OBVIOUS
  <2>1. cursor' \in D \ C /\ rank[cursor] < rank[cursor'] /\ cursor \in Obj /\ cursor' \in Obj
    BY <1>2, <1>6, <1>7
  <2>2. rank[cursor] <= rank[cursor'] /\ cursor' # cursor
    BY <1>2, <2>1
  <2> QED BY <1>6, <2>1, <2>2
<1>10. Passing(D, C, rank)'
  <2>1. visited' \cup present' \subseteq D
    BY <1>4, <1>6, <1>7
  <2>2. ASSUME NEW x \in present \cap C
        PROVE  x \in visited \/ (cursor' # None /\ rank[cursor'] <= rank[x])
    <3>1. x \in present \ freed /\ x \in Obj /\ cursor \in Obj
      BY <1>2, <1>6
    <3>2. CASE x \notin visited
      <4>1. rank[cursor] < rank[x]
        BY <1>6, <3>1, <3>2
      <4> QED BY <1>2, <1>7, <3>1, <4>1
    <3> QED BY <3>2
  <2>3. cursor' = None => present' \cap C \subseteq visited'
    BY <1>4, <2>2
  <2>4. ASSUME cursor' # None
        PROVE  /\ cursor' \in D /\ cursor' \in visited'
               /\ \A v \in visited' : rank[v] <= rank[cursor']
               /\ \A x \in present \ freed :
                    x \in visited' \/ (x \in C /\ rank[cursor'] < rank[x])
               /\ \A o \in D \ C : rank[cursor'] <= rank[o] =>
                    rank[cursor] <= rank[o] /\ o # cursor
    <3>1. /\ cursor' \in D /\ rank[cursor] < rank[cursor'] /\ cursor \in Obj /\ cursor' \in Obj
          /\ visited' = visited \cup {cursor'} /\ visited \subseteq Obj
      BY <1>2, <1>4, <1>6, <1>7, <2>4
    <3>2. ASSUME NEW v \in visited' PROVE rank[v] <= rank[cursor']
      BY <1>2, <1>6, <3>1
    <3>3. ASSUME NEW x \in present \ freed
          PROVE  x \in visited' \/ (x \in C /\ rank[cursor'] < rank[x])
      <4>1. CASE x \in visited
        BY <3>1, <4>1
      <4>2. CASE x \notin visited
        <5>1. x \in present \cap C /\ x \in D /\ x \in Obj
          BY <1>2, <1>6, <4>2
        <5>2. rank[cursor'] <= rank[x]
          BY <2>2, <4>2, <5>1
        <5>3. rank[cursor'] = rank[x] => cursor' = x
          BY <1>1, <3>1, <5>1 DEF SlotOrdered
        <5> QED BY <1>2, <3>1, <5>1, <5>2, <5>3
      <4> QED BY <4>1, <4>2
    <3>4. ASSUME NEW o \in D \ C, rank[cursor'] <= rank[o]
          PROVE  rank[cursor] <= rank[o] /\ o # cursor
      BY <1>2, <3>1, <3>4
    <3> QED BY <3>1, <3>2, <3>3, <3>4
  <2> QED BY <1>4, <1>6, <2>1, <2>3, <2>4 DEF Passing
<1>11. OrderInv'
  BY <1>1, <1>4, <1>5, <1>10 DEF OrderInv
<1> QED BY <1>1, <1>3, <1>7, <1>8, <1>9, <1>11

------------------------------------------------------------------------------
\* A step that leaves the objects as they are.
SameObjects ==
  UNCHANGED <<mem, freed, parent, gObjList, gObjCount, gObjUpdateList, gObjPartitionPivot,
              gObjDeferredFreeList, gObjDeferredFreeCount, overflowed, gObjDefCaptureMode,
              pool, active>>

LEMMA SamePlaces ==
  ASSUME SameObjects
  PROVE  /\ Live' = Live /\ Listed' = Listed /\ Absent' = Absent /\ Waiting' = Waiting
         /\ Owners' = Owners /\ \A m : InPool(m)' = InPool(m)
         /\ UNCHANGED <<mem, freed, parent, gObjList, gObjCount, gObjUpdateList,
                        gObjPartitionPivot, gObjDeferredFreeList, gObjDeferredFreeCount,
                        overflowed, gObjDefCaptureMode, pool, active>>
<1>1. UNCHANGED <<mem, freed, parent, gObjList, gObjCount, gObjUpdateList, gObjPartitionPivot,
                  gObjDeferredFreeList, gObjDeferredFreeCount, overflowed, gObjDefCaptureMode,
                  pool, active>>
  BY DEF SameObjects
<1>2. Live' = Live /\ Listed' = Listed /\ Absent' = Absent /\ Waiting' = Waiting
  BY <1>1 DEF Live, Listed, Absent, Waiting
<1>3. Owners' = Owners
  BY <1>2 DEF Owners
<1>4. \A m : InPool(m)' = InPool(m)
  BY <1>1 DEF InPool
<1> QED BY <1>1, <1>2, <1>3, <1>4

LEMMA NoCalls ==
  DOMAIN <<>> = {}
OBVIOUS

\* Where nothing is being freed and no reset goes on.
LEMMA NothingTaken ==
  ASSUME IInv, phase \notin Flushes \cup {"resetFree"}
  PROVE  freeing = <<>> /\ gObjDefCaptureMode = 2 /\ InFreeing = {}
<1>1. freeing = <<>>
  BY SetUp DEF FreeingInv
<1>2. gObjDefCaptureMode = 2
  BY SetUp DEF ControlInv, TypeInv
<1> QED BY <1>1, <1>2, NoCalls DEF InFreeing

LEMMA QuietStep ==
  ASSUME IInv, SameObjects, phase \notin Flushes \cup {"resetFree"}, freeing' = freeing,
         phase' \in Phases \ {"resetFree"}, phase' \in Flushes => i' = 0,
         i' \in Nat, n' \in Nat, ops' \in Nat, cursor' \in Obj \cup {None}, running' \in BOOLEAN,
         present' \subseteq Obj, visited' \subseteq Obj
  PROVE  /\ TypeInv' /\ ArrayInv' /\ AbsentInv' /\ DeferInv' /\ DeferredExact'
         /\ FreeingInv' /\ ParentInv' /\ PoolInv' /\ ResetInv' /\ PartitionValid'
<1>1. freeing = <<>> /\ freeing' = <<>> /\ gObjDefCaptureMode = 2
  BY NothingTaken
<1>2. /\ Live' = Live /\ Listed' = Listed /\ Absent' = Absent /\ Waiting' = Waiting
      /\ Owners' = Owners /\ \A m : InPool(m)' = InPool(m)
      /\ UNCHANGED <<mem, freed, parent, gObjList, gObjCount, gObjUpdateList, gObjPartitionPivot,
                  gObjDeferredFreeList, gObjDeferredFreeCount, overflowed, gObjDefCaptureMode,
                  pool, active>>
  BY SamePlaces
<1>3. TypeInv'
  <2>1. TypeOK'
    BY <1>2, SetUp DEF TypeOK, Indices
  <2>2. pool' \in [Pipes -> Seq(Effects)] /\ freeing' \in Seq(Calls) /\ overflowed' \in BOOLEAN
        /\ gObjDefCaptureMode' \in {0, 2}
    BY <1>2, SetUp DEF TypeInv
  <2> QED BY <2>1, <2>2 DEF TypeInv
<1>4. ArrayInv' /\ AbsentInv'
  BY <1>2, SetUp DEF ArrayInv, AbsentInv, OneEach
<1>5. DeferInv'
  <2>1. /\ \A j, k \in 0 .. (gObjDeferredFreeCount - 1) :
             gObjDeferredFreeList[j] = gObjDeferredFreeList[k] /\ gObjDeferredFreeList[k] # None
               => j = k
        /\ Waiting \subseteq freed \cap Live
        /\ \A k \in 0 .. (gObjDeferredFreeCount - 1) : gObjDeferredFreeList[k] # None
        /\ gObjDeferredFreeCount \in Nat
    BY SetUp DEF DeferInv, TypeOK
  <2>2. phase' \in Flushes =>
          /\ i' <= gObjDeferredFreeCount
          /\ \A k \in 0 .. (gObjDeferredFreeCount - 1) : gObjDeferredFreeList[k] = None <=> k < i'
    BY <2>1
  <2> QED BY <1>2, <2>1, <2>2 DEF DeferInv
<1>6. DeferredExact'
  BY <1>1, <1>2, SetUp DEF DeferredExact
<1>7. FreeingInv'
  <2>1. InFreeing' = {} /\ DOMAIN freeing' = {}
    BY <1>1, NoCalls DEF InFreeing
  <2> QED BY <1>1, <2>1 DEF FreeingInv
<1>8. ParentInv'
  BY <1>2, SetUp DEF ParentInv
<1>9. PoolInv'
  <2>1. /\ \A m \in Owners : InPool(m) \cap Absent = {}
        /\ \A m1, m2 \in Owners : InPool(m1) \cap InPool(m2) # {} => m1 = m2
        /\ \A m \in Owners : \A e \in InPool(m) \cap Listed :
             e \in Chain(gObjUpdateList) <=> e \in active
        /\ \A m \in Pipes \cap Listed : \A e \in InPool(m) :
             e \in Listed /\ parent[e] = parent[m]
    BY <1>1, SetUp DEF PoolInv, Takings, Flushes
  <2> QED BY <1>2, <2>1 DEF PoolInv
<1>10. ResetInv' /\ PartitionValid'
  BY <1>2, SetUp DEF ResetInv, PartitionValid
<1> QED BY <1>3, <1>4, <1>5, <1>6, <1>7, <1>8, <1>9, <1>10

\* The passes and the scans, as far as they only look.
LEMMA StartPassKeeps ==
  ASSUME IInv, NEW which \in Passes, StartPass(which), phase \in {"game", "update"}
  PROVE  IInv'
<1>1. SameObjects /\ UNCHANGED <<i, n, freeing, ops>>
  BY DEF StartPass, SameObjects, lists, deferred, pools
<1>2. /\ phase' = which /\ cursor' = gObjUpdateList.head /\ running' = (gObjUpdateList.head # None)
      /\ present' = Chain(gObjUpdateList) /\ visited' = {gObjUpdateList.head} \ {None}
  BY DEF StartPass
<1>3. gObjUpdateList.head \in Chain(gObjUpdateList) \cup {None} /\ Chain(gObjUpdateList) \subseteq Obj
  BY SetUp, ListOrdered, Places
<1>4. phase' \in Phases /\ phase' \notin Flushes \cup {"resetFree", "sweep"}
      /\ phase \notin Flushes \cup {"resetFree"}
  BY <1>2 DEF Passes, Phases, Flushes
<1>5. /\ TypeInv' /\ ArrayInv' /\ AbsentInv' /\ DeferInv' /\ DeferredExact'
      /\ FreeingInv' /\ ParentInv' /\ PoolInv' /\ ResetInv' /\ PartitionValid'
  <2>1. i \in Nat /\ n \in Nat /\ ops \in Nat
    BY SetUp DEF TypeInv
  <2> QED BY <1>1, <1>2, <1>3, <1>4, <2>1, QuietStep
<1>6. OrderInv'
  BY OrderStarted
<1>7. ControlInv'
  <2>1. gObjDefCaptureMode' = 2
    BY <1>1, <1>4, NothingTaken DEF SameObjects
  <2>2. gObjUpdateList' = gObjUpdateList
    BY <1>1, SamePlaces
  <2>3. running' => cursor' # None
    BY <1>2, Zenon
  <2>4. cursor' \in Chain(gObjUpdateList') \cup {None} /\ phase' \in Passes /\ phase' # "resetFree"
    BY <1>2, <1>3, <1>4, <2>2
  <2>5. gObjDefCaptureMode' = 0 <=> phase' = "resetFree"
    BY <2>1, <2>4
  <2> QED BY <2>3, <2>4, <2>5, Zenon DEF ControlInv
<1>8. SweepInv'
  BY <1>4 DEF SweepInv
<1> QED BY <1>5, <1>6, <1>7, <1>8 DEF IInv

LEMMA AdvanceKeeps ==
  ASSUME IInv, Advance
  PROVE  IInv'
<1>1. SameObjects /\ UNCHANGED <<phase, i, n, freeing, ops, present>>
  BY DEF Advance, SameObjects, lists, deferred, pools
<1>2. /\ phase \in Passes /\ running' = (cursor' # None /\ (phase = "update" => cursor' \notin freed))
      /\ visited' = visited \cup ({cursor'} \ {None})
  BY DEF Advance, Passes
<1>3. /\ OrderInv' /\ cursor' \in Live \cup {None}
      /\ cursor' \in Chain(gObjUpdateList) \/ cursor' \in freed \cup {None}
  BY Advanced
<1>4. phase' \in Phases /\ phase' \notin Flushes \cup {"resetFree", "sweep"}
      /\ phase \notin Flushes \cup {"resetFree"}
  BY <1>1, <1>2 DEF Passes, Phases, Flushes
<1>5. /\ TypeInv' /\ ArrayInv' /\ AbsentInv' /\ DeferInv' /\ DeferredExact'
      /\ FreeingInv' /\ ParentInv' /\ PoolInv' /\ ResetInv' /\ PartitionValid'
  <2>1. i \in Nat /\ n \in Nat /\ ops \in Nat /\ present \subseteq Obj /\ visited \subseteq Obj
    BY SetUp DEF TypeInv
  <2>2. cursor' \in Obj \cup {None} /\ visited' \subseteq Obj /\ running' \in BOOLEAN
    BY <1>2, <1>3, <2>1, Places
  <2> QED BY <1>1, <1>4, <2>1, <2>2, QuietStep
<1>7. ControlInv'
  <2>1. gObjDefCaptureMode' = 2
    BY <1>1, <1>4, NothingTaken DEF SameObjects
  <2>2. gObjUpdateList' = gObjUpdateList
    BY <1>1, SamePlaces
  <2>3. running' => cursor' # None /\ (phase = "update" => cursor' \notin freed)
    BY <1>2, Zenon
  <2>4. /\ cursor' # None /\ cursor' \notin freed => cursor' \in Chain(gObjUpdateList')
        /\ phase' = phase /\ phase' \in Passes /\ phase' # "resetFree"
    BY <1>1, <1>2, <1>3, <1>4, <2>2
  <2>5. gObjDefCaptureMode' = 0 <=> phase' = "resetFree"
    BY <2>1, <2>4
  <2> QED BY <2>3, <2>4, <2>5, Zenon DEF ControlInv
<1>8. SweepInv'
  BY <1>4 DEF SweepInv
<1> QED BY <1>3, <1>5, <1>7, <1>8 DEF IInv

\* The passes are over, or the unloading is; the unloading; a flush begins.
LEMMA ScanKeeps ==
  ASSUME IInv, EndPasses \/ EndSweep \/ StartSweep \/ SweepKeep
               \/ Obj_FlushDeferredFreeList \/ Obj_ResetObjectSystem
  PROVE  IInv'
<1>1. SameObjects /\ UNCHANGED <<cursor, running, freeing, ops>>
  BY DEF EndPasses, EndSweep, ToLate, StartSweep, SweepKeep, Obj_FlushDeferredFreeList,
         Obj_ResetObjectSystem, Flush, SameObjects, lists, deferred, pools
<1>2. phase \notin Flushes \cup {"resetFree"} /\ ~running
  <2>1. running => phase \in Passes /\ cursor # None
    BY SetUp DEF ControlInv
  <2> QED BY <2>1 DEF EndPasses, EndSweep, StartSweep, SweepKeep, Obj_FlushDeferredFreeList,
                      Obj_ResetObjectSystem, Passes, Flushes
<1>3. phase' \in Phases \ {"resetFree"} /\ phase' \notin Passes
  BY DEF EndPasses, EndSweep, ToLate, StartSweep, SweepKeep, Obj_FlushDeferredFreeList,
         Obj_ResetObjectSystem, Flush, Phases, Passes
<1>4. phase' \in Flushes => i' = 0
  BY DEF EndPasses, EndSweep, ToLate, StartSweep, SweepKeep, Obj_FlushDeferredFreeList,
         Obj_ResetObjectSystem, Flush, Flushes
<1>5. /\ gObjCount \in Nat /\ gObjList \in [Indices -> Obj \cup {None}]
      /\ \A k \in 0 .. (gObjCount - 1) : gObjList[k] \in Listed
      /\ Listed \subseteq Obj
  BY SetUp, ListedCounted DEF TypeOK
<1>6. i' \in Nat /\ n' \in Nat /\ present' \subseteq Obj /\ visited' \subseteq Obj /\ SweepInv'
  <2>1. i \in Nat /\ n \in Nat /\ present \subseteq Obj /\ visited \subseteq Obj
    BY SetUp DEF TypeInv
  <2>2. CASE EndPasses \/ EndSweep
    BY <1>5, <2>2 DEF EndPasses, EndSweep, ToLate, SweepInv
  <2>3. CASE Obj_FlushDeferredFreeList \/ Obj_ResetObjectSystem
    BY <2>1, <2>3 DEF Obj_FlushDeferredFreeList, Obj_ResetObjectSystem, Flush, SweepInv
  <2>4. CASE StartSweep
    <3>1. i' = 0 /\ n' = gObjCount /\ present' = Listed /\ visited' = {} /\ gObjCount' = gObjCount
          /\ gObjList' = gObjList
      BY <2>4 DEF StartSweep, lists
    <3>2. Listed' = {gObjList[k] : k \in 0 .. (gObjCount - 1)}
      BY <3>1 DEF Listed
    <3>3. SweepInv'
      BY <1>5, <3>1, <3>2 DEF SweepInv
    <3> QED BY <1>5, <3>1, <3>3
  <2>5. CASE SweepKeep
    <3>1. /\ phase = "sweep" /\ i < n /\ i' = i + 1 /\ visited' = visited \cup {gObjList[i]}
          /\ UNCHANGED <<n, present, gObjList, gObjCount>>
      BY <2>5 DEF SweepKeep, lists
    <3>2. n = gObjCount /\ i <= n
          /\ present \cap Listed \subseteq visited \cup {gObjList[k] : k \in i .. (n - 1)}
      BY <3>1, SetUp DEF SweepInv
    <3>3. i .. (n - 1) = {i} \cup ((i + 1) .. (n - 1))
      BY <2>1, <3>1
    <3>4. present \cap Listed
            \subseteq visited \cup {gObjList[i]} \cup {gObjList[k] : k \in (i + 1) .. (n - 1)}
      BY <3>2, <3>3
    <3>5. Listed' = Listed
      BY <1>1, SamePlaces
    <3>6. i + 1 <= n
      BY <2>1, <3>1
    <3>7. SweepInv'
      BY <3>1, <3>2, <3>4, <3>5, <3>6 DEF SweepInv
    <3>8. gObjList[i] \in Obj
      <4>1. i \in 0 .. (gObjCount - 1)
        BY <1>5, <2>1, <3>1, <3>2
      <4> QED BY <1>5, <4>1
    <3> QED BY <2>1, <3>1, <3>7, <3>8
  <2> QED BY <2>2, <2>3, <2>4, <2>5
<1>7. /\ TypeInv' /\ ArrayInv' /\ AbsentInv' /\ DeferInv' /\ DeferredExact'
      /\ FreeingInv' /\ ParentInv' /\ PoolInv' /\ ResetInv' /\ PartitionValid'
  <2>1. cursor \in Obj \cup {None} /\ running \in BOOLEAN /\ ops \in Nat
    BY SetUp DEF TypeInv, TypeOK
  <2> QED BY <1>1, <1>2, <1>3, <1>4, <1>6, <2>1, QuietStep
<1>8. ControlInv'
  <2>1. gObjDefCaptureMode' = 2
    BY <1>1, <1>2, NothingTaken DEF SameObjects
  <2> QED BY <1>1, <1>2, <1>3, <2>1 DEF ControlInv
<1>9. OrderInv'
  <2>1. Live' = Live /\ Listed' = Listed /\ gObjUpdateList' = gObjUpdateList
    BY <1>1, SamePlaces
  <2>2. LinksKept(gObjUpdateList', gObjUpdateList, Listed)
    BY <2>1 DEF LinksKept
  <2> QED BY <1>3, <2>1, <2>2, OrderOutside, Places
<1> QED BY <1>6, <1>7, <1>8, <1>9 DEF IInv

LEMMA PartitionKeepsAll ==
  ASSUME IInv, ObjList_PartitionForRender
  PROVE  IInv'
<1>1. /\ UNCHANGED <<mem, freed, parent, gObjCount, gObjUpdateList, gObjDeferredFreeList,
                     gObjDeferredFreeCount, overflowed, gObjDefCaptureMode, pool, active, phase,
                     cursor, running, i, n, present, visited, freeing, ops>>
      /\ phase = "late"
  BY DEF ObjList_PartitionForRender, deferred, pools, scan
<1>2. /\ gObjList' \in [Indices -> Obj \cup {None}]
      /\ gObjPartitionPivot' \in 0 .. gObjCount
      /\ Listed' = Listed /\ OneEach(gObjList', gObjCount)
      /\ \A k \in 0 .. (gObjCount - 1) :
              k < gObjPartitionPivot' <=> gObjList'[k] \in HasModels
  BY SetUp, PartitionKeeps
<1>3. Live' = Live /\ Absent' = Absent /\ Waiting' = Waiting
      /\ Owners' = Owners /\ \A m : InPool(m)' = InPool(m)
  BY <1>1, <1>2 DEF Live, Absent, Waiting, Owners, InPool
<1>4. phase \notin Flushes \cup {"resetFree", "sweep"} \cup Passes
  BY <1>1 DEF Flushes, Passes
<1>5. TypeInv'
  <2>1. TypeOK'
    BY <1>1, <1>2, SetUp DEF TypeOK, Indices
  <2> QED BY <1>1, <2>1, SetUp DEF TypeInv
<1>6. ArrayInv' /\ AbsentInv' /\ PartitionValid'
  BY <1>1, <1>2, <1>3, SetUp DEF ArrayInv, AbsentInv, PartitionValid
<1>7. DeferInv'
  BY <1>1, <1>3, SetUp DEF DeferInv
<1>8. DeferredExact' /\ ParentInv'
  BY <1>1, <1>2, <1>3, SetUp DEF DeferredExact, ParentInv
<1>9. ControlInv' /\ ResetInv' /\ SweepInv'
  BY <1>1, <1>4, SetUp DEF ControlInv, ResetInv, SweepInv
<1>10. FreeingInv' /\ PoolInv'
  <2>1. freeing = <<>> /\ InFreeing' = {} /\ DOMAIN freeing' = {}
    BY <1>1, <1>4, NothingTaken, NoCalls DEF InFreeing
  <2>2. FreeingInv'
    BY <1>1, <2>1 DEF FreeingInv
  <2>3. /\ \A m \in Owners : InPool(m) \cap Absent = {}
        /\ \A m1, m2 \in Owners : InPool(m1) \cap InPool(m2) # {} => m1 = m2
        /\ \A m \in Owners : \A e \in InPool(m) \cap Listed :
             e \in Chain(gObjUpdateList) <=> e \in active
        /\ \A m \in Pipes \cap Listed : \A e \in InPool(m) :
             e \in Listed /\ parent[e] = parent[m]
    BY <1>4, <2>1, SetUp DEF PoolInv, Takings, Flushes
  <2>4. PoolInv'
    BY <1>1, <1>2, <1>3, <2>3 DEF PoolInv
  <2> QED BY <2>2, <2>4
<1>11. OrderInv'
  <2>1. LinksKept(gObjUpdateList', gObjUpdateList, Listed)
    BY <1>1 DEF LinksKept
  <2> QED BY <1>1, <1>2, <1>3, <1>4, <2>1, OrderOutside, Places
<1> QED BY <1>5, <1>6, <1>7, <1>8, <1>9, <1>10, <1>11 DEF IInv

------------------------------------------------------------------------------
\* Obj_FreeObject outside the reset.
LEMMA FreeLaterKeeps ==
  ASSUME IInv, NEW o \in Listed, FreeLater(o), phase # "resetFree", phase' = phase,
         UNCHANGED <<mem, parent, gObjDefCaptureMode, pool, active, cursor, present, visited>>,
         phase \in Flushes => i' = i, InFreeing' = InFreeing
  PROVE  /\ TypeOK' /\ ArrayInv' /\ AbsentInv' /\ DeferInv' /\ DeferredExact'
         /\ ParentInv' /\ ResetInv' /\ PartitionValid' /\ OrderInv'
         /\ Listed' = Listed \ {o} /\ Live' = Live /\ freed' = freed \cup {o} /\ Absent' = Absent
         /\ Chain(gObjUpdateList') = Chain(gObjUpdateList) \ {o}
         /\ Owners' \subseteq Owners /\ o \in Live
<1>1. /\ Unlist(o) /\ o \notin Waiting
      /\ \/ overflowed' = TRUE /\ Waiting' = Waiting
         \/ overflowed' = overflowed /\ Waiting' = Waiting \cup {o}
  BY SetUp, FreeLaterArray
<1>2. /\ o \in Live /\ o \notin freed /\ o \in Obj /\ freed' = freed \cup {o}
      /\ Live' = Live /\ Absent' = Absent /\ Listed' = Listed \ {o} /\ ArrayInv'
  BY <1>1, SetUp, UnlistArray
<1>3. gObjUpdateList' = objList_remove(gObjUpdateList, o) /\ gObjPartitionPivot' = 0
  BY <1>1 DEF Unlist
<1>4. /\ Chain(gObjUpdateList') = Chain(gObjUpdateList) \ {o}
      /\ LinksKept(gObjUpdateList', gObjUpdateList, (Obj \ Chain(gObjUpdateList)) \cup {o})
  BY <1>2, <1>3, SetUp, ChainRemoved
<1>5. TypeOK'
  BY <1>1, UnlistKeepsTypes
<1>6. AbsentInv'
  <2>1. \A x \in Absent : x \notin Chain(gObjUpdateList) /\ x \in Obj
    BY Places DEF Absent
  <2>2. \A x \in Absent : gObjUpdateList'.next[x] = None
    BY <1>4, <2>1, SetUp DEF LinksKept, AbsentInv
  <2>3. o \notin Absent
    BY <1>2, Places
  <2> QED BY <1>2, <2>2, <2>3, SetUp DEF AbsentInv
<1>7. DeferInv'
  BY SetUp, DeferKept
<1>8. DeferredExact'
  <2> SUFFICES ASSUME ~overflowed' PROVE freed' \cap Live' = Waiting' \cup InFreeing'
    BY Zenon DEF DeferredExact, InFreeing
  <2>1. ~overflowed /\ Waiting' = Waiting \cup {o}
    BY <1>1, SMT
  <2>2. freed \cap Live = Waiting \cup InFreeing
    BY <2>1, SetUp, Zenon DEF DeferredExact, InFreeing
  <2> QED BY <1>2, <2>1, <2>2
<1>9. ParentInv' /\ ResetInv' /\ PartitionValid'
  BY <1>2, <1>3, SetUp DEF ParentInv, ResetInv, PartitionValid
<1>10. OrderInv'
  <2>1. o \in freed' /\ Listed' = Listed \ {o} /\ freed \subseteq freed'
    BY <1>2
  <2>2. (o \in freed' /\ Listed' = Listed \ {o}) \/ (o = cursor /\ Listed' = Listed)
    BY <2>1
  <2>3. o \in Obj /\ Live' = Live /\ cursor' = cursor /\ present' = present /\ visited' = visited
    BY <1>2
  <2> QED BY <1>3, <2>1, <2>2, <2>3, OrderRemoved, Zenon
<1>11. Owners' \subseteq Owners
  <2>1. Owners' = Pipes \cap (Listed' \cup Waiting')
    BY DEF Owners
  <2> QED BY <1>1, <1>2, <2>1 DEF Owners
<1> QED BY <1>2, <1>4, <1>5, <1>6, <1>7, <1>8, <1>9, <1>10, <1>11

LEMMA FreeLaterPools ==
  ASSUME IInv, NEW o \in Listed, FreeLater(o), phase # "resetFree", phase' = phase,
         UNCHANGED <<mem, parent, gObjDefCaptureMode, pool, active, cursor, present, visited>>,
         phase \in Flushes => i' = i, InFreeing' = InFreeing,
         freeing # <<>> => freeing' # <<>> /\ Todo \ {o} \subseteq Todo',
         \A m \in Pipes \cap Listed : o \in InPool(m) => freeing' # <<>> /\ m \in Todo'
  PROVE  PoolInv'
<1>1. /\ Listed' = Listed \ {o} /\ Live' = Live /\ freed' = freed \cup {o} /\ Absent' = Absent
      /\ Chain(gObjUpdateList') = Chain(gObjUpdateList) \ {o}
      /\ Owners' \subseteq Owners /\ o \in Live
  BY FreeLaterKeeps
<1>2. \A m : InPool(m)' = InPool(m)
  BY DEF InPool
<1>3. /\ phase \notin Takings => \A m \in Owners : InPool(m) \cap Absent = {}
      /\ \A m1, m2 \in Owners : InPool(m1) \cap InPool(m2) # {} => m1 = m2
      /\ \A m \in Owners : \A e \in InPool(m) \cap Listed :
           e \in Chain(gObjUpdateList) <=> e \in active
  BY SetUp DEF PoolInv
<1>4. ASSUME NEW m \in Pipes \cap Listed', NEW e \in InPool(m)
      PROVE  \/ e \in Listed' /\ parent[e] = parent[m]
             \/ e \in freed' \cap Live' /\ freeing' # <<>> /\ m \in Todo'
  <2>1. m \in Pipes \cap Listed /\ m # o
    BY <1>1
  <2>2. \/ e \in Listed /\ parent[e] = parent[m]
        \/ e \in freed \cap Live /\ freeing # <<>> /\ m \in Todo
    BY <2>1, SetUp DEF PoolInv
  <2>3. CASE e = o
    BY <1>1, <2>1, <2>3
  <2>4. CASE e # o
    BY <1>1, <2>1, <2>2, <2>4
  <2> QED BY <2>3, <2>4
<1>5. /\ phase' \notin Takings => \A m \in Owners' : InPool(m)' \cap Absent' = {}
      /\ \A m1, m2 \in Owners' : InPool(m1)' \cap InPool(m2)' # {} => m1 = m2
  BY <1>1, <1>2, <1>3
<1>6. \A m \in Owners' : \A e \in InPool(m)' \cap Listed' :
        e \in Chain(gObjUpdateList') <=> e \in active'
  BY <1>1, <1>2, <1>3
<1>7. \A m \in Pipes \cap Listed' : \A e \in InPool(m)' :
        \/ e \in Listed' /\ parent'[e] = parent'[m]
        \/ e \in freed' \cap Live' /\ freeing' # <<>> /\ m \in Todo'
  BY <1>2, <1>4
<1> QED BY <1>5, <1>6, <1>7 DEF PoolInv

\* Game code frees an object, an effect whose pool had no room among them.
LEMMA FreeOutsideKeeps ==
  ASSUME IInv, NEW o \in Listed, FreeLater(o), freeing = <<>>, freeing' = freeing,
         phase \notin Flushes \cup {"resetFree"}, phase' = phase,
         UNCHANGED <<mem, parent, gObjDefCaptureMode, pool, active, cursor, present, visited>>,
         \A m \in Pipes \cap Listed : o \notin InPool(m),
         i' \in Nat, n' \in Nat, ops' \in Nat, running' \in BOOLEAN
  PROVE  /\ TypeInv' /\ ArrayInv' /\ AbsentInv' /\ DeferInv' /\ DeferredExact' /\ FreeingInv'
         /\ ParentInv' /\ PoolInv' /\ ResetInv' /\ PartitionValid' /\ OrderInv'
         /\ Listed' = Listed \ {o} /\ Chain(gObjUpdateList') = Chain(gObjUpdateList) \ {o}
<1>1. DOMAIN freeing' = {} /\ InFreeing' = {} /\ InFreeing = {}
  BY NoCalls DEF InFreeing
<1>2. /\ TypeOK' /\ ArrayInv' /\ AbsentInv' /\ DeferInv' /\ DeferredExact'
      /\ ParentInv' /\ ResetInv' /\ PartitionValid' /\ OrderInv'
      /\ Listed' = Listed \ {o} /\ Live' = Live /\ freed' = freed \cup {o} /\ Absent' = Absent
      /\ Chain(gObjUpdateList') = Chain(gObjUpdateList) \ {o}
  BY <1>1, FreeLaterKeeps
<1>3. PoolInv'
  BY <1>1, FreeLaterPools
<1>4. TypeInv'
  <2>1. overflowed' \in BOOLEAN
    <3>1. overflowed' = TRUE \/ overflowed' = overflowed
      BY SetUp, FreeLaterArray
    <3> QED BY <3>1, SetUp DEF TypeInv
  <2> QED BY <1>2, <2>1, SetUp DEF TypeInv
<1>5. FreeingInv'
  BY <1>1 DEF FreeingInv
<1> QED BY <1>2, <1>3, <1>4, <1>5

LEMMA FreeObjectKeeps ==
  ASSUME IInv, NEW o \in Obj, Obj_FreeObject(o)
  PROVE  IInv'
<1>1. /\ OtherCode /\ MayCall /\ o \in Live /\ o \notin freed /\ o \notin Effects /\ FreeLater(o)
      /\ ops' = ops + 1
      /\ UNCHANGED <<mem, parent, gObjDefCaptureMode, pool, active, cursor, running, present,
                     visited, phase, i, n, freeing>>
  BY DEF Obj_FreeObject, OtherCode, Called, scan, pools
<1>2. o \in Listed
  BY <1>1, Places
<1>3. /\ phase \in {"game", "late", "update", "hit"} /\ freeing = <<>> /\ gObjDefCaptureMode = 2
  BY <1>1, SetUp, CallsOutside
<1>4. phase \notin Flushes \cup {"resetFree", "sweep"}
  BY <1>3 DEF Flushes
<1>5. \A m \in Pipes \cap Listed : o \notin InPool(m)
  <2>1. \A m \in Pipes : InPool(m) \subseteq Effects
    BY SetUp DEF TypeInv, InPool
  <2> QED BY <1>1, <2>1
<1>6. /\ TypeInv' /\ ArrayInv' /\ AbsentInv' /\ DeferInv' /\ DeferredExact' /\ FreeingInv'
      /\ ParentInv' /\ PoolInv' /\ ResetInv' /\ PartitionValid' /\ OrderInv'
  <2>1. i \in Nat /\ n \in Nat /\ ops \in Nat /\ running \in BOOLEAN
    BY SetUp DEF TypeInv
  <2> QED BY <1>1, <1>2, <1>3, <1>4, <1>5, <2>1, FreeOutsideKeeps
<1>7. ControlInv'
  BY <1>1, <1>3, <1>4, SetUp DEF ControlInv, OtherCode
<1>8. SweepInv'
  BY <1>1, <1>4 DEF SweepInv
<1> QED BY <1>6, <1>7, <1>8 DEF IInv

LEMMA SweepUnloadKeeps ==
  ASSUME IInv, SweepUnload
  PROVE  IInv'
<1>1. PICK o : o = gObjList[i]
  OBVIOUS
<1>2. /\ phase = "sweep" /\ i < n /\ o \notin Effects /\ FreeLater(o)
      /\ n' = n - 1 /\ ops' = ops + 1
      /\ UNCHANGED <<mem, parent, gObjDefCaptureMode, pool, active, cursor, running, present,
                     visited, phase, i, freeing>>
  BY <1>1 DEF SweepUnload, pools
<1>3. /\ n = gObjCount /\ i <= n /\ i \in Nat /\ n \in Nat
      /\ present \cap Listed \subseteq visited \cup {gObjList[k] : k \in i .. (n - 1)}
  BY <1>2, SetUp DEF SweepInv, TypeInv
<1>4. o \in Listed
  BY <1>1, <1>2, <1>3, SetUp, ListedCounted
<1>5. freeing = <<>> /\ gObjDefCaptureMode = 2 /\ phase \notin Flushes \cup {"resetFree"} \cup Passes
  BY <1>2, NothingTaken DEF Flushes, Passes
<1>6. \A m \in Pipes \cap Listed : o \notin InPool(m)
  <2>1. \A m \in Pipes : InPool(m) \subseteq Effects
    BY SetUp DEF TypeInv, InPool
  <2> QED BY <1>2, <2>1
<1>7. /\ TypeInv' /\ ArrayInv' /\ AbsentInv' /\ DeferInv' /\ DeferredExact' /\ FreeingInv'
      /\ ParentInv' /\ PoolInv' /\ ResetInv' /\ PartitionValid' /\ OrderInv'
      /\ Listed' = Listed \ {o}
  <2>1. i' \in Nat /\ n' \in Nat /\ ops' \in Nat /\ running' \in BOOLEAN
    BY <1>2, <1>3, SetUp DEF TypeInv
  <2> QED BY <1>2, <1>4, <1>5, <1>6, <2>1, FreeOutsideKeeps
<1>8. ControlInv'
  BY <1>2, <1>5, SetUp DEF ControlInv
<1>9. SweepInv'
  <2>1. Unlist(o) /\ OneEach(gObjList, n)
    BY <1>2, <1>3, SetUp DEF FreeLater, ArrayInv
  <2>2. MovedUp(gObjList', gObjList, n, o) /\ gObjCount' = n - 1
    BY <1>2, <1>3, <1>4, <2>1, SetUp, UnlistArray
  <2>3. PICK at \in 0 .. (n - 1) :
          /\ gObjList[at] = o
          /\ \A k \in 0 .. (n - 2) : gObjList'[k] = IF k < at THEN gObjList[k] ELSE gObjList[k + 1]
    BY <2>2 DEF MovedUp
  <2>4. at = i
    BY <1>1, <1>2, <1>3, <2>1, <2>3 DEF OneEach
  <2>5. ASSUME NEW x \in present \cap Listed'
        PROVE  x \in visited \cup {gObjList'[k] : k \in i .. ((n - 1) - 1)}
    <3>1. x \in present \cap Listed /\ x # o
      BY <1>7
    <3>2. CASE x \notin visited
      <4>1. PICK k \in i .. (n - 1) : x = gObjList[k]
        BY <1>3, <3>1, <3>2
      <4>2. k # i
        BY <1>1, <3>1, <4>1
      <4>3. /\ k - 1 \in i .. ((n - 1) - 1) /\ k - 1 \in 0 .. (n - 2) /\ ~(k - 1 < i)
            /\ (k - 1) + 1 = k
        BY <1>3, <4>1, <4>2
      <4>4. gObjList'[k - 1] = gObjList[(k - 1) + 1]
        BY <2>3, <2>4, <4>3
      <4> QED BY <4>1, <4>3, <4>4
    <3> QED BY <3>2
  <2>6. n' = gObjCount' /\ i' <= n' /\ n' = n - 1 /\ i' = i /\ present' = present /\ visited' = visited
    BY <1>2, <1>3, <2>2
  <2>7. present' \cap Listed' \subseteq visited' \cup {gObjList'[k] : k \in i' .. (n' - 1)}
    BY <2>5, <2>6
  <2> QED BY <2>6, <2>7 DEF SweepInv
<1> QED BY <1>7, <1>8, <1>9 DEF IInv

------------------------------------------------------------------------------
\* An object leaves the update list and stays set up.
LEMMA LinkKeeps ==
  ASSUME IInv, freeing = <<>>, phase \notin Flushes \cup {"resetFree"},
         gObjUpdateList' \in UpdateList, active' \subseteq Effects, active' \cap Absent = {},
         LinksKept(gObjUpdateList', gObjUpdateList, Absent),
         UNCHANGED <<mem, freed, parent, gObjList, gObjCount, gObjPartitionPivot,
                     gObjDeferredFreeList, gObjDeferredFreeCount, overflowed,
                     gObjDefCaptureMode, pool, phase, cursor, i, n, present, visited, freeing>>,
         ops' \in Nat, running' \in BOOLEAN,
         \A m \in Owners : \A e \in InPool(m) \cap Listed :
            e \in Chain(gObjUpdateList') <=> e \in active'
  PROVE  /\ TypeInv' /\ ArrayInv' /\ AbsentInv' /\ DeferInv' /\ DeferredExact' /\ FreeingInv'
         /\ ParentInv' /\ PoolInv' /\ ResetInv' /\ SweepInv' /\ PartitionValid'
         /\ Live' = Live /\ Listed' = Listed
<1>1. Live' = Live /\ Listed' = Listed /\ Absent' = Absent /\ Waiting' = Waiting
      /\ \A m : InPool(m)' = InPool(m)
  BY DEF Live, Listed, Absent, Waiting, InPool
<1>2. Owners' = Owners
  BY <1>1 DEF Owners
<1>3. DOMAIN freeing' = {} /\ InFreeing' = {} /\ InFreeing = {}
  BY NoCalls DEF InFreeing
<1>4. TypeInv'
  <2>1. TypeOK'
    BY SetUp DEF TypeOK, Indices, UpdateList
  <2> QED BY <2>1, SetUp DEF TypeInv
<1>5. ArrayInv' /\ PartitionValid' /\ ParentInv'
  BY <1>1, SetUp DEF ArrayInv, PartitionValid, ParentInv
<1>6. AbsentInv'
  BY <1>1, SetUp DEF AbsentInv, LinksKept
<1>7. DeferInv'
  BY <1>1, SetUp DEF DeferInv
<1>8. DeferredExact'
  BY <1>1, SetUp DEF DeferredExact
<1>9. FreeingInv'
  BY <1>3 DEF FreeingInv
<1>10. PoolInv'
  <2>1. /\ \A m \in Owners : InPool(m) \cap Absent = {}
        /\ \A m1, m2 \in Owners : InPool(m1) \cap InPool(m2) # {} => m1 = m2
        /\ \A m \in Pipes \cap Listed : \A e \in InPool(m) :
             e \in Listed /\ parent[e] = parent[m]
    BY SetUp DEF PoolInv, Takings, Flushes
  <2> QED BY <1>1, <1>2, <2>1 DEF PoolInv
<1>11. ResetInv' /\ SweepInv'
  BY <1>1, SetUp DEF ResetInv, SweepInv
<1> QED BY <1>1, <1>4, <1>5, <1>6, <1>7, <1>8, <1>9, <1>10, <1>11

LEMMA ParkKeeps ==
  ASSUME IInv, Park
  PROVE  IInv'
<1>1. /\ OtherCode /\ MayCall /\ phase = "update" /\ ops' = ops + 1
      /\ gObjUpdateList' = objList_remove(gObjUpdateList, cursor)
      /\ UNCHANGED <<mem, freed, parent, gObjList, gObjCount, gObjPartitionPivot,
                     gObjDeferredFreeList, gObjDeferredFreeCount, overflowed,
                     gObjDefCaptureMode, pool, active, phase, cursor, running, i, n, present,
                     visited, freeing>>
  BY DEF Park, OtherCode, Called, scan, pools, deferred
<1>2. running /\ cursor # None /\ freeing = <<>> /\ gObjDefCaptureMode = 2
  BY <1>1, SetUp, CallsOutside DEF Passes
<1>3. cursor \notin Pipes \cup Effects /\ cursor \in Obj
  BY <1>1, <1>2, SetUp DEF OtherCode, TypeOK
<1>4. phase \notin Flushes \cup {"resetFree"}
  BY <1>1 DEF Flushes
<1>5. /\ gObjUpdateList' \in UpdateList
      /\ Chain(gObjUpdateList') = Chain(gObjUpdateList) \ {cursor}
      /\ LinksKept(gObjUpdateList', gObjUpdateList, (Obj \ Chain(gObjUpdateList)) \cup {cursor})
  BY <1>1, <1>3, SetUp, ChainRemoved
<1>6. LinksKept(gObjUpdateList', gObjUpdateList, Absent)
  <2>1. Absent \subseteq Obj \ Chain(gObjUpdateList)
    BY Places DEF Absent
  <2> QED BY <1>5, <2>1 DEF LinksKept
<1>7. \A m \in Owners : \A e \in InPool(m) \cap Listed :
        e \in Chain(gObjUpdateList') <=> e \in active'
  <2>1. \A m \in Owners : InPool(m) \subseteq Effects
    BY SetUp DEF TypeInv, InPool, Owners
  <2>2. \A m \in Owners : \A e \in InPool(m) \cap Listed :
          e \in Chain(gObjUpdateList) <=> e \in active
    BY SetUp DEF PoolInv
  <2> QED BY <1>1, <1>3, <1>5, <2>1, <2>2
<1>8. /\ active' \subseteq Effects /\ active' \cap Absent = {} /\ ops' \in Nat /\ running' \in BOOLEAN
  BY <1>1, SetUp DEF TypeInv, TypeOK, AbsentInv
<1>9. /\ TypeInv' /\ ArrayInv' /\ AbsentInv' /\ DeferInv' /\ DeferredExact' /\ FreeingInv'
      /\ ParentInv' /\ PoolInv' /\ ResetInv' /\ SweepInv' /\ PartitionValid'
      /\ Live' = Live /\ Listed' = Listed
  BY <1>1, <1>2, <1>4, <1>5, <1>6, <1>7, <1>8, LinkKeeps
<1>10. OrderInv'
  BY <1>1, <1>3, <1>9, OrderRemoved
<1>11. ControlInv'
  BY <1>1, <1>2, <1>3, SetUp DEF ControlInv
<1> QED BY <1>9, <1>10, <1>11 DEF IInv

\* An effect whose time is over leaves the list, or is freed.
LEMMA ReleaseKeeps ==
  ASSUME IInv, firepipe_releaseEffectObject
  PROVE  IInv'
<1>1. /\ MayCall /\ phase = "update" /\ cursor \in Effects /\ running' = FALSE /\ ops' = ops + 1
      /\ UNCHANGED <<mem, parent, gObjDefCaptureMode, pool, phase, cursor, i, n, present,
                     visited, freeing>>
  BY DEF firepipe_releaseEffectObject
<1>2. running /\ cursor # None /\ freeing = <<>> /\ gObjDefCaptureMode = 2
  BY <1>1, SetUp, CallsOutside DEF Passes
<1>3. cursor \in Obj /\ cursor \in Chain(gObjUpdateList) /\ cursor \in Listed
  BY <1>1, <1>2, SetUp, Places DEF ControlInv
<1>4. phase \notin Flushes \cup {"resetFree", "sweep"}
  BY <1>1 DEF Flushes
<1>5. ops' \in Nat /\ running' \in BOOLEAN /\ i' \in Nat /\ n' \in Nat
  <2>1. running' \in BOOLEAN
    BY <1>1, Zenon
  <2>2. ops \in Nat /\ i \in Nat /\ n \in Nat
    BY SetUp DEF TypeInv
  <2> QED BY <1>1, <2>1, <2>2
<1>6. ControlInv'
  BY <1>1, <1>2, <1>4 DEF ControlInv
<1>7. SweepInv'
  BY <1>1, <1>4 DEF SweepInv
<1>8. CASE cursor \in active
  <2>1. /\ gObjUpdateList' = objList_remove(gObjUpdateList, cursor)
        /\ active' = active \ {cursor}
        /\ UNCHANGED <<freed, gObjList, gObjCount, gObjPartitionPivot, gObjDeferredFreeList,
                       gObjDeferredFreeCount, overflowed>>
    BY <1>8 DEF firepipe_releaseEffectObject, deferred
  <2>5. /\ gObjUpdateList' \in UpdateList
        /\ Chain(gObjUpdateList') = Chain(gObjUpdateList) \ {cursor}
        /\ LinksKept(gObjUpdateList', gObjUpdateList, (Obj \ Chain(gObjUpdateList)) \cup {cursor})
    BY <1>3, <2>1, SetUp, ChainRemoved
  <2>6. LinksKept(gObjUpdateList', gObjUpdateList, Absent)
    <3>1. Absent \subseteq Obj \ Chain(gObjUpdateList)
      BY Places DEF Absent
    <3> QED BY <2>5, <3>1 DEF LinksKept
  <2>7. \A m \in Owners : \A e \in InPool(m) \cap Listed :
          e \in Chain(gObjUpdateList') <=> e \in active'
    <3>2. \A m \in Owners : \A e \in InPool(m) \cap Listed :
            e \in Chain(gObjUpdateList) <=> e \in active
      BY SetUp DEF PoolInv
    <3> QED BY <2>1, <2>5, <3>2
  <2>8. active' \subseteq Effects /\ active' \cap Absent = {}
    BY <2>1, SetUp DEF TypeOK, AbsentInv
  <2>9. /\ TypeInv' /\ ArrayInv' /\ AbsentInv' /\ DeferInv' /\ DeferredExact' /\ FreeingInv'
        /\ ParentInv' /\ PoolInv' /\ ResetInv' /\ PartitionValid'
        /\ Live' = Live /\ Listed' = Listed
    BY <1>1, <1>2, <1>4, <1>5, <2>1, <2>5, <2>6, <2>7, <2>8, LinkKeeps
  <2>10. OrderInv'
    BY <1>1, <1>3, <2>1, <2>9, OrderRemoved
  <2> QED BY <1>6, <1>7, <2>9, <2>10 DEF IInv
<1>9. CASE cursor \notin active
  <2>1. FreeLater(cursor) /\ active' = active
    BY <1>9 DEF firepipe_releaseEffectObject
  <2>2. \A m \in Pipes \cap Listed : cursor \notin InPool(m)
    BY <1>3, <1>9, SetUp DEF PoolInv, Owners
  <2>3. /\ TypeInv' /\ ArrayInv' /\ AbsentInv' /\ DeferInv' /\ DeferredExact' /\ FreeingInv'
        /\ ParentInv' /\ PoolInv' /\ ResetInv' /\ PartitionValid' /\ OrderInv'
    BY <1>1, <1>2, <1>3, <1>4, <1>5, <2>1, <2>2, FreeOutsideKeeps
  <2> QED BY <1>6, <1>7, <2>3 DEF IInv
<1> QED BY <1>8, <1>9

\* An effect is put back into the list.
LEMMA ReuseEffectKeeps ==
  ASSUME IInv, NEW m \in Pipes, ReuseEffect(m)
  PROVE  IInv'
<1>1. /\ MayCall /\ phase = "update" /\ cursor = m /\ ops' = ops + 1
      /\ UNCHANGED <<mem, freed, parent, gObjList, gObjCount, gObjPartitionPivot,
                     gObjDeferredFreeList, gObjDeferredFreeCount, overflowed,
                     gObjDefCaptureMode, pool, phase, cursor, running, i, n, present,
                     visited, freeing>>
  BY DEF ReuseEffect, Called, scan, deferred
<1>2. PICK e \in InPool(m) \ active :
        /\ active' = active \cup {e}
        /\ gObjUpdateList' = Obj_InsertIntoUpdateList(gObjUpdateList, e)
  BY DEF ReuseEffect
<1>3. running /\ cursor # None /\ freeing = <<>> /\ gObjDefCaptureMode = 2
  BY <1>1, SetUp, CallsOutside DEF Passes
<1>4. m \in Chain(gObjUpdateList) /\ m \in Listed
  BY <1>1, <1>3, SetUp, Places DEF ControlInv
<1>5. phase \notin Flushes \cup {"resetFree"}
  BY <1>1 DEF Flushes
<1>6. e \in Effects /\ e \in Obj /\ e # m
  <2>1. InPool(m) \subseteq Effects
    BY SetUp DEF TypeInv, InPool
  <2> QED BY <2>1, Places
<1>7. e \in Listed /\ e \notin freed /\ e \notin Chain(gObjUpdateList) /\ e \notin Absent
  <2>1. e \in Listed
    BY <1>3, <1>4, <1>5, SetUp DEF PoolInv
  <2>2. e \notin Chain(gObjUpdateList)
    BY <1>2, <1>4, <2>1, SetUp DEF PoolInv, Owners
  <2> QED BY <2>1, <2>2, Places
<1>8. /\ gObjUpdateList' \in UpdateList
      /\ Chain(gObjUpdateList') = Chain(gObjUpdateList) \cup {e}
      /\ LinksKept(gObjUpdateList', gObjUpdateList, Obj \ (Chain(gObjUpdateList) \cup {e}))
  BY <1>2, <1>4, <1>6, <1>7, SetUp, ChainInserted
<1>9. LinksKept(gObjUpdateList', gObjUpdateList, Absent)
  <2>1. Absent \subseteq Obj \ (Chain(gObjUpdateList) \cup {e})
    BY <1>7, Places DEF Absent
  <2> QED BY <1>8, <2>1 DEF LinksKept
<1>10. \A p \in Owners : \A x \in InPool(p) \cap Listed :
        x \in Chain(gObjUpdateList') <=> x \in active'
  <2>1. \A p \in Owners : \A x \in InPool(p) \cap Listed :
          x \in Chain(gObjUpdateList) <=> x \in active
    BY SetUp DEF PoolInv
  <2> QED BY <1>2, <1>8, <2>1
<1>11. /\ active' \subseteq Effects /\ active' \cap Absent = {} /\ ops' \in Nat /\ running' \in BOOLEAN
  BY <1>1, <1>2, <1>6, <1>7, SetUp DEF TypeInv, TypeOK, AbsentInv
<1>12. /\ TypeInv' /\ ArrayInv' /\ AbsentInv' /\ DeferInv' /\ DeferredExact' /\ FreeingInv'
       /\ ParentInv' /\ PoolInv' /\ ResetInv' /\ SweepInv' /\ PartitionValid'
       /\ Live' = Live /\ Listed' = Listed
  BY <1>1, <1>3, <1>5, <1>8, <1>9, <1>10, <1>11, LinkKeeps
<1>13. OrderInv'
  <2>1. Live' = Live \cup {e} /\ Listed' = Listed \cup {e} /\ Chain(gObjUpdateList) # {}
    BY <1>4, <1>7, <1>12, Places
  <2> QED BY <1>1, <1>2, <1>3, <1>6, <1>7, <2>1, OrderInserted
<1>14. ControlInv'
  BY <1>1, <1>3, <1>8, SetUp DEF ControlInv
<1> QED BY <1>12, <1>13, <1>14 DEF IInv

------------------------------------------------------------------------------
\* An object is set up; an effect may join a pool.
LEMMA RegisterKeeps ==
  ASSUME IInv, NEW o \in Obj, NEW par, Register(o, par),
         par \in Carriers \cup {None}, par \in Live \cup {None},
         freeing = <<>>, phase \notin Flushes \cup {"resetFree", "sweep"},
         phase \in Passes => cursor # None,
         UNCHANGED <<gObjDefCaptureMode, phase, cursor, running, i, n, present, visited, freeing>>,
         ops' \in Nat, active' \subseteq Effects,
         NEW q, q = None => active' = active /\ pool' = pool,
         q # None => /\ q \in Pipes \cap Listed /\ o \in Effects /\ par = parent[q]
                     /\ active' = active \cup {o} /\ InPool(q)' = InPool(q) \cup {o},
         pool' \in [Pipes -> Seq(Effects)],
         \A m \in Pipes : m # q => pool'[m] = pool[m]
  PROVE  IInv'
<1>1. /\ gObjCount < Cardinality(Obj) /\ gObjCount' = gObjCount + 1
      /\ o \notin Listed \cup Live \cup freed \cup active /\ o \in Absent
      /\ Live' = Live \cup {o} /\ Absent' = Absent \ {o}
      /\ Listed' = Listed \cup {o} /\ Waiting' = Waiting
      /\ gObjList' = [gObjList EXCEPT ![gObjCount] = o]
      /\ ArrayInv'
  BY SetUp, RegisterArray
<1>2. /\ mem' = [mem EXCEPT ![o] = "live"] /\ parent' = [parent EXCEPT ![o] = par]
      /\ gObjUpdateList' = Obj_InsertIntoUpdateList(gObjUpdateList, o)
      /\ gObjPartitionPivot' = IF o \in HasModels THEN 0 ELSE gObjPartitionPivot
      /\ UNCHANGED <<freed, gObjDeferredFreeList, gObjDeferredFreeCount, overflowed>>
  BY DEF Register, deferred
<1>3. /\ Chain(gObjUpdateList) \subseteq Listed /\ Listed \subseteq Live /\ Live \cap Absent = {}
      /\ Listed \cap freed = {} /\ None \notin Obj /\ Pipes \cap Effects = {} /\ Live \subseteq Obj
  BY Places
<1>4. o \notin Chain(gObjUpdateList)
  BY <1>1, <1>3
<1>5. /\ Chain(gObjUpdateList') = Chain(gObjUpdateList) \cup {o}
      /\ LinksKept(gObjUpdateList', gObjUpdateList, Obj \ (Chain(gObjUpdateList) \cup {o}))
  BY <1>1, <1>2, <1>4, SetUp, ChainInserted
<1>6. /\ mem \in [Obj -> {"absent", "live"}] /\ parent \in [Obj -> Obj \cup {None}]
      /\ gObjList \in [Indices -> Obj \cup {None}]
      /\ gObjCount \in Nat /\ Cardinality(Obj) \in Nat /\ gObjPartitionPivot \in 0 .. gObjCount
  BY SetUp, ListedCounted DEF TypeOK
<1>7. /\ mem'[o] = "live" /\ \A x \in Obj \ {o} : mem'[x] = mem[x]
      /\ parent'[o] = par /\ \A x \in Obj \ {o} : parent'[x] = parent[x]
  BY <1>2, <1>6
<1>8. TypeInv'
  <2>1. par \in Obj \cup {None}
    BY <1>3
  <2>2. TypeOK'
    BY <2>1, RegisterKeepsTypes
  <2>3. overflowed' \in BOOLEAN
    BY <1>2, SetUp DEF TypeInv
  <2> QED BY <2>2, <2>3, SetUp DEF TypeInv
<1>9. o \in Pipes => pool[o] = <<>> /\ InPool(o) = {} /\ o # q
  <2> SUFFICES ASSUME o \in Pipes PROVE pool[o] = <<>> /\ InPool(o) = {} /\ o # q
    OBVIOUS
  <2>1. mem[o] # "live"
    BY <1>1 DEF Live
  <2>2. pool[o] = <<>>
    BY <2>1, SetUp DEF AbsentInv
  <2>3. InPool(o) = {}
    BY <2>2, NoCalls DEF InPool
  <2> QED BY <1>1, <1>3, <2>2, <2>3
<1>10. AbsentInv'
  <2>1. (freed' \cup active') \cap Absent' = {}
    BY <1>1, <1>2, SetUp DEF AbsentInv
  <2>2. \A x \in Absent' : gObjUpdateList'.next[x] = None
    <3>1. \A x \in Absent' : x \in Absent /\ x \in Obj \ (Chain(gObjUpdateList) \cup {o})
      BY <1>1, <1>3 DEF Absent
    <3> QED BY <1>5, <3>1, SetUp DEF LinksKept, AbsentInv
  <2>3. ASSUME NEW m \in Pipes, mem'[m] # "live" PROVE pool'[m] = <<>>
    <3>1. m \in Obj /\ m # o /\ mem[m] # "live"
      BY <1>7, <2>3, Places
    <3>2. m # q
      BY <1>3, <3>1 DEF Live
    <3> QED BY <3>1, <3>2, SetUp DEF AbsentInv
  <2> QED BY <2>1, <2>2, <2>3 DEF AbsentInv
<1>11. DeferInv'
  <2>1. phase' \notin Flushes /\ phase' # "resetFree"
    OBVIOUS
  <2>2. /\ \A j, k \in 0 .. (gObjDeferredFreeCount - 1) :
             gObjDeferredFreeList[j] = gObjDeferredFreeList[k] /\ gObjDeferredFreeList[k] # None
               => j = k
        /\ Waiting \subseteq freed \cap Live
        /\ \A k \in 0 .. (gObjDeferredFreeCount - 1) : gObjDeferredFreeList[k] # None
    BY SetUp DEF DeferInv
  <2> QED BY <1>1, <1>2, <2>1, <2>2 DEF DeferInv
<1>12. DeferredExact'
  <2>1. freed' \cap Live' = freed \cap Live
    BY <1>1, <1>2
  <2>2. overflowed' = overflowed
    BY <1>2
  <2>3. Waiting' \cup InFreeing' = Waiting \cup InFreeing
    BY <1>1 DEF InFreeing
  <2>4. ~overflowed => freed \cap Live = Waiting \cup InFreeing
    BY SetUp DEF DeferredExact, InFreeing
  <2>5. ~overflowed' => freed' \cap Live' = Waiting' \cup InFreeing'
    BY <2>1, <2>2, <2>3, <2>4
  <2> QED BY <2>5 DEF DeferredExact, InFreeing
<1>13. ControlInv'
  BY <1>5, SetUp DEF ControlInv
<1>14. FreeingInv'
  <2>1. DOMAIN freeing' = {} /\ InFreeing' = {}
    BY NoCalls DEF InFreeing
  <2> QED BY <2>1 DEF FreeingInv
<1>15. ParentInv'
  <2>1. ASSUME NEW x \in Listed'
        PROVE  parent'[x] \in Carriers \cup {None} /\ parent'[x] \in Live' \cup {None}
    <3>1. CASE x = o
      BY <1>1, <1>7, <3>1
    <3>2. CASE x # o
      <4>1. x \in Listed /\ parent'[x] = parent[x]
        BY <1>1, <1>3, <1>7, <3>2
      <4>2. parent[x] \in Carriers \cup {None} /\ parent[x] \in Live \cup {None}
        BY <4>1, SetUp DEF ParentInv
      <4> QED BY <1>1, <4>1, <4>2
    <3> QED BY <3>1, <3>2
  <2> QED BY <2>1 DEF ParentInv
<1>16. PoolInv'
  <2>1. /\ \A m \in Owners : InPool(m) \cap Absent = {}
        /\ \A m1, m2 \in Owners : InPool(m1) \cap InPool(m2) # {} => m1 = m2
        /\ \A m \in Owners : \A e \in InPool(m) \cap Listed :
             e \in Chain(gObjUpdateList) <=> e \in active
        /\ \A m \in Pipes \cap Listed : \A e \in InPool(m) :
             e \in Listed /\ parent[e] = parent[m]
    BY SetUp DEF PoolInv, Takings, Flushes
  <2>2. \A m \in Pipes : m # q => InPool(m)' = InPool(m)
    BY DEF InPool
  <2>3. Owners' \subseteq Owners \cup {o} /\ Owners' \subseteq Pipes
    <3>1. Owners' = Pipes \cap (Listed' \cup Waiting')
      BY DEF Owners
    <3> QED BY <1>1, <3>1 DEF Owners
  <2>4. ASSUME NEW m \in Owners', NEW e \in InPool(m)'
        PROVE  /\ m \in Owners
               /\ \/ e \in InPool(m) /\ e # o
                  \/ e = o /\ m = q /\ q # None
    <3>1. m \in Owners
      <4>1. CASE m = o
        BY <1>9, <2>2, <2>3, <4>1
      <4> QED BY <2>3, <4>1
    <3>2. o \notin InPool(m)
      BY <1>1, <2>1, <3>1
    <3>3. CASE m = q
      <4>1. q # None
        BY <3>1, <3>3, Places DEF Owners
      <4> QED BY <3>1, <3>2, <3>3, <4>1
    <3>4. CASE m # q
      BY <2>2, <2>3, <3>1, <3>2, <3>4
    <3> QED BY <3>3, <3>4
  <2>5. \A m \in Owners' : InPool(m)' \cap Absent' = {}
    BY <1>1, <2>1, <2>4
  <2>6. \A m1, m2 \in Owners' : InPool(m1)' \cap InPool(m2)' # {} => m1 = m2
    BY <2>1, <2>4
  <2>7. ASSUME NEW m \in Owners', NEW e \in InPool(m)' \cap Listed'
        PROVE  e \in Chain(gObjUpdateList') <=> e \in active'
    <3>1. CASE e = o
      BY <1>5, <2>4, <3>1
    <3>2. CASE e # o
      <4>1. m \in Owners /\ e \in InPool(m) \cap Listed
        BY <1>1, <2>4, <3>2
      <4>2. e \in active' <=> e \in active
        BY <3>2
      <4> QED BY <1>5, <2>1, <3>2, <4>1, <4>2
    <3> QED BY <3>1, <3>2
  <2>8. ASSUME NEW m \in Pipes \cap Listed', NEW e \in InPool(m)'
        PROVE  e \in Listed' /\ parent'[e] = parent'[m]
    <3>1. m \in Owners'
      BY DEF Owners
    <3>2. m \in Owners /\ m # o
      BY <1>1, <2>1, <2>4, <3>1, <1>9, <2>2
    <3>3. m \in Listed /\ parent'[m] = parent[m]
      BY <1>1, <1>3, <1>7, <3>2
    <3>4. CASE e = o
      BY <1>1, <1>7, <2>4, <3>1, <3>3, <3>4
    <3>5. CASE e # o
      <4>1. e \in InPool(m)
        BY <2>4, <3>1, <3>5
      <4>2. e \in Listed /\ parent[e] = parent[m]
        BY <2>1, <3>3, <4>1
      <4> QED BY <1>1, <1>3, <1>7, <3>3, <3>5, <4>2
    <3> QED BY <3>4, <3>5
  <2> QED BY <2>5, <2>6, <2>7, <2>8 DEF PoolInv
<1>17. ResetInv' /\ SweepInv'
  BY DEF ResetInv, SweepInv
<1>18. PartitionValid'
  <2> SUFFICES ASSUME gObjPartitionPivot' # 0, NEW k \in 0 .. (gObjCount' - 1)
               PROVE  k < gObjPartitionPivot' <=> gObjList'[k] \in HasModels
    BY DEF PartitionValid
  <2>1. o \notin HasModels /\ gObjPartitionPivot' = gObjPartitionPivot
    BY <1>2
  <2>2. k \in 0 .. gObjCount /\ 0 .. gObjCount \subseteq Indices
    BY <1>1, <1>6 DEF Indices
  <2>3. CASE k = gObjCount
    <3>1. gObjList'[k] = o /\ ~(k < gObjPartitionPivot)
      BY <1>1, <1>6, <2>2, <2>3
    <3> QED BY <2>1, <3>1
  <2>4. CASE k # gObjCount
    <3>1. gObjList'[k] = gObjList[k] /\ k \in 0 .. (gObjCount - 1)
      BY <1>1, <1>6, <2>2, <2>4
    <3> QED BY <2>1, <3>1, SetUp DEF PartitionValid
  <2> QED BY <2>3, <2>4
<1>19. OrderInv'
  <2>1. phase \in Passes => cursor # None /\ cursor # o
    <3>1. phase \in Passes => cursor \in Live \cup {None}
      BY SetUp DEF OrderInv, Passing
    <3> QED BY <1>1, <3>1
  <2> QED BY <1>1, <1>2, <1>4, <2>1, OrderInserted
<1> QED BY <1>1, <1>8, <1>10, <1>11, <1>12, <1>13, <1>14, <1>15, <1>16, <1>17, <1>18, <1>19
        DEF IInv

LEMMA SetupKeeps ==
  ASSUME IInv, NEW o \in Obj, NEW par \in {None} \cup (Carriers \cap Live), objSetupObject(o, par)
  PROVE  IInv'
<1>1. /\ MayCall /\ Register(o, par) /\ ops' = ops + 1
      /\ UNCHANGED <<gObjDefCaptureMode, phase, cursor, running, i, n, present, visited, freeing,
                     pool, active>>
  BY DEF objSetupObject, OtherCode, Called, scan, pools
<1>2. /\ phase \in {"game", "late", "update", "hit"} /\ phase \notin Flushes
      /\ phase \in Passes => running /\ cursor # None
      /\ freeing = <<>>
  BY <1>1, SetUp, CallsOutside
<1>3. phase \notin Flushes \cup {"resetFree", "sweep"} /\ (phase \in Passes => cursor # None)
  BY <1>2
<1>4. /\ ops' \in Nat /\ active' \subseteq Effects /\ pool' \in [Pipes -> Seq(Effects)]
      /\ \A m \in Pipes : m # None => pool'[m] = pool[m]
  BY <1>1, SetUp DEF TypeInv, TypeOK
<1>5. par \in Carriers \cup {None} /\ par \in Live \cup {None}
  OBVIOUS
<1>6. PICK q : q = None
  OBVIOUS
<1>7. /\ q = None => active' = active /\ pool' = pool
      /\ \A m \in Pipes : m # q => pool'[m] = pool[m]
  BY <1>1
<1> QED BY <1>1, <1>2, <1>3, <1>4, <1>5, <1>6, <1>7, RegisterKeeps

LEMMA NewEffectKeeps ==
  ASSUME IInv, NEW m \in Pipes, NEW e \in Effects, NewEffect(m, e)
  PROVE  IInv'
<1>1. PICK par : par = parent[m]
  OBVIOUS
<1>2. /\ MayCall /\ phase = "update" /\ cursor = m /\ Register(e, par) /\ ops' = ops + 1
      /\ UNCHANGED <<gObjDefCaptureMode, phase, cursor, running, i, n, present, visited, freeing>>
  BY <1>1 DEF NewEffect, Called, scan
<1>3. running /\ cursor # None /\ freeing = <<>>
  BY <1>2, SetUp, CallsOutside DEF Passes
<1>4. m \in Listed /\ e \in Obj
  BY <1>2, <1>3, SetUp, Places DEF ControlInv
<1>5. phase \notin Flushes \cup {"resetFree", "sweep"} /\ (phase \in Passes => cursor # None)
  BY <1>2, <1>3 DEF Flushes
<1>6. par \in Carriers \cup {None} /\ par \in Live \cup {None}
  BY <1>1, <1>4, <1>5, SetUp DEF ParentInv
<1>7. ops' \in Nat /\ pool \in [Pipes -> Seq(Effects)] /\ active \subseteq Effects
  BY <1>2, SetUp DEF TypeInv, TypeOK
<1>8. CASE Len(pool[m]) # PoolSize
  <2>1. pool' = [pool EXCEPT ![m] = Append(@, e)] /\ active' = active \cup {e}
    BY <1>8 DEF NewEffect
  <2>2. pool[m] \in Seq(Effects) /\ pool'[m] = Append(pool[m], e)
    BY <1>7, <2>1
  <2>3. pool' \in [Pipes -> Seq(Effects)] /\ \A p \in Pipes : p # m => pool'[p] = pool[p]
    <3>1. Append(pool[m], e) \in Seq(Effects)
      BY <2>2
    <3> QED BY <1>7, <2>1, <3>1
  <2>4. InPool(m)' = InPool(m) \cup {e}
    <3>1. InPool(m)' = {pool'[m][k] : k \in DOMAIN pool'[m]}
      BY DEF InPool
    <3>2. PICK s \in Seq(Effects) : s = pool[m] /\ pool'[m] = Append(s, e)
      BY <2>2
    <3>3. PICK len \in Nat : len = Len(s) /\ DOMAIN s = 1 .. len
      OBVIOUS
    <3>4. /\ DOMAIN Append(s, e) = 1 .. (len + 1) /\ Append(s, e)[len + 1] = e
          /\ \A k \in 1 .. len : Append(s, e)[k] = s[k]
      BY <3>3
    <3>5. 1 .. (len + 1) = (1 .. len) \cup {len + 1}
      BY <3>3
    <3>6. {Append(s, e)[k] : k \in DOMAIN Append(s, e)} = {s[k] : k \in DOMAIN s} \cup {e}
      <4>1. ASSUME NEW x \in {Append(s, e)[k] : k \in DOMAIN Append(s, e)}
            PROVE  x \in {s[k] : k \in DOMAIN s} \cup {e}
        BY <3>3, <3>4, <3>5
      <4>2. ASSUME NEW x \in {s[k] : k \in DOMAIN s} \cup {e}
            PROVE  x \in {Append(s, e)[k] : k \in DOMAIN Append(s, e)}
        BY <3>3, <3>4, <3>5
      <4> QED BY <4>1, <4>2
    <3>7. {pool'[m][k] : k \in DOMAIN pool'[m]} = {pool[m][k] : k \in DOMAIN pool[m]} \cup {e}
      BY <3>2, <3>6
    <3> QED BY <3>1, <3>7 DEF InPool
  <2>5. m # None /\ active' \subseteq Effects
    BY <1>7, <2>1, Places
  <2>6. /\ m = None => active' = active /\ pool' = pool
        /\ m # None => /\ m \in Pipes \cap Listed /\ e \in Effects /\ par = parent[m]
                       /\ active' = active \cup {e} /\ InPool(m)' = InPool(m) \cup {e}
    BY <1>1, <1>4, <2>1, <2>4, <2>5
  <2> QED BY <1>2, <1>3, <1>4, <1>5, <1>6, <1>7, <2>3, <2>5, <2>6, RegisterKeeps
<1>9. CASE Len(pool[m]) = PoolSize
  <2>1. pool' = pool /\ active' = active
    BY <1>9 DEF NewEffect, pools
  <2>2. PICK q : q = None
    OBVIOUS
  <2>3. /\ q = None => active' = active /\ pool' = pool
        /\ \A p \in Pipes : p # q => pool'[p] = pool[p]
        /\ pool' \in [Pipes -> Seq(Effects)] /\ active' \subseteq Effects
    BY <1>7, <2>1
  <2> QED BY <1>2, <1>3, <1>4, <1>5, <1>6, <1>7, <2>2, <2>3, RegisterKeeps
<1> QED BY <1>8, <1>9

------------------------------------------------------------------------------
\* objFreeObjdef.  The innermost call goes on to what it frees next.
LEMMA PoppedCalls ==
  ASSUME IInv, freeing # <<>>, Top.todo # <<>>, freeing' = PopTodo
  PROVE  /\ freeing' # <<>> /\ freeing' \in Seq(Calls) /\ Len(freeing') = Len(freeing)
         /\ DOMAIN freeing' = DOMAIN freeing /\ InFreeing' = InFreeing
         /\ Top'.obj = Top.obj /\ Top'.riders = Top.riders
         /\ \A k \in DOMAIN freeing : freeing'[k].obj = freeing[k].obj
         /\ Todo = {Head(Top.todo)} \cup Todo' /\ Head(Top.todo) \in Todo
<1>1. /\ freeing' \in Seq(Calls) /\ Len(freeing') = Len(freeing) /\ freeing' # <<>>
      /\ \A k \in 1 .. Len(freeing) :
           /\ freeing'[k].obj = freeing[k].obj
           /\ freeing'[k].riders = freeing[k].riders
           /\ freeing'[k].todo = IF k = Len(freeing) THEN Tail(Top.todo) ELSE freeing[k].todo
      /\ Todo = {Head(Top.todo)} \cup {Tail(Top.todo)[k] : k \in DOMAIN Tail(Top.todo)}
  BY SetUp, Popped
<1>2. /\ Len(freeing) \in Nat \ {0} /\ DOMAIN freeing = 1 .. Len(freeing)
      /\ Top = freeing[Len(freeing)]
  BY SetUp, Stacked
<1>3. PICK len \in Nat \ {0} : len = Len(freeing)
  BY <1>2
<1>4. /\ DOMAIN freeing' = 1 .. len /\ DOMAIN freeing = 1 .. len /\ len \in 1 .. len
      /\ Top' = freeing'[len] /\ Top = freeing[len]
  BY <1>1, <1>2, <1>3 DEF Top, Last
<1>5. InFreeing' = InFreeing
  <2>1. InFreeing' = {freeing'[k].obj : k \in 1 .. len} /\ InFreeing = {freeing[k].obj : k \in 1 .. len}
    BY <1>4 DEF InFreeing
  <2>2. \A k \in 1 .. len : freeing'[k].obj = freeing[k].obj
    BY <1>1, <1>3
  <2> HIDE <1>1
  <2>3. \A x \in InFreeing' : x \in InFreeing
    BY <2>1, <2>2
  <2>4. \A x \in InFreeing : x \in InFreeing'
    BY <2>1, <2>2
  <2> QED BY <2>3, <2>4
<1>6. Top'.obj = Top.obj /\ Top'.riders = Top.riders /\ Top'.todo = Tail(Top.todo)
  BY <1>1, <1>3, <1>4
<1>7. Todo' = {Tail(Top.todo)[k] : k \in DOMAIN Tail(Top.todo)}
  BY <1>6 DEF Todo
<1> QED BY <1>1, <1>3, <1>4, <1>5, <1>6, <1>7

LEMMA PopFreeing ==
  ASSUME IInv, freeing # <<>>, Top.todo # <<>>, freeing' = PopTodo,
         phase' = phase, i' = i, freed \subseteq freed', Live' = Live,
         Listed' \subseteq Listed, Head(Top.todo) \notin Listed', parent' = parent, pool' = pool,
         phase \in Flushes =>
           /\ gObjDeferredFreeCount <= gObjDeferredFreeCount' /\ gObjDeferredFreeCount' \in Nat
           /\ \A k \in 0 .. (gObjDeferredFreeCount - 1) :
                gObjDeferredFreeList'[k] = gObjDeferredFreeList[k]
  PROVE  FreeingInv'
<1>1. /\ freeing' # <<>> /\ Len(freeing') = Len(freeing)
      /\ DOMAIN freeing' = DOMAIN freeing /\ InFreeing' = InFreeing
      /\ Top'.obj = Top.obj /\ Top'.riders = Top.riders
      /\ \A k \in DOMAIN freeing : freeing'[k].obj = freeing[k].obj
      /\ Todo = {Head(Top.todo)} \cup Todo'
  BY PoppedCalls
<1>2. \A m : InPool(m)' = InPool(m)
  BY DEF InPool
<1>3. ASSUME phase \in Flushes
      PROVE  /\ Len(freeing') = 1
             /\ i' < gObjDeferredFreeCount' /\ gObjDeferredFreeList'[i'] = Top'.obj
             /\ Top'.riders => \A o \in Listed' : parent'[o] # Top'.obj
             /\ \A e \in Todo' \cap Effects \cap Listed' : \A m \in Pipes \cap Listed' :
                  e \in InPool(m)' => m \in Todo'
  <2>1. /\ Len(freeing) = 1
        /\ i < gObjDeferredFreeCount /\ gObjDeferredFreeList[i] = Top.obj
        /\ Top.riders => \A o \in Listed : parent[o] # Top.obj
        /\ \A e \in Todo \cap Effects \cap Listed : \A m \in Pipes \cap Listed :
             e \in InPool(m) => m \in Todo
    BY <1>3, SetUp DEF FreeingInv
  <2>2. i \in Nat /\ gObjDeferredFreeCount \in Nat
    BY SetUp DEF TypeInv, TypeOK
  <2>3. i < gObjDeferredFreeCount' /\ gObjDeferredFreeList'[i] = Top.obj
    BY <1>3, <2>1, <2>2
  <2> QED BY <1>1, <1>2, <2>1, <2>3
<1>4. /\ freeing # <<>> => phase \in Flushes \cup {"resetFree"}
      /\ \A j, k \in DOMAIN freeing : freeing[j].obj = freeing[k].obj => j = k
      /\ InFreeing \subseteq freed \cap Live
  BY SetUp DEF FreeingInv
<1>5. /\ \A j, k \in DOMAIN freeing' : freeing'[j].obj = freeing'[k].obj => j = k
      /\ InFreeing' \subseteq freed' \cap Live'
      /\ phase' \in Flushes \cup {"resetFree"}
  BY <1>1, <1>4
<1> QED BY <1>3, <1>5 DEF FreeingInv

\* A step of objFreeObjdef outside the reset, or one that only looks.
LEMMA FreeNextSkips ==
  ASSUME IInv, freeing # <<>>, Top.todo # <<>>, freeing' = PopTodo,
         Head(Top.todo) \notin Live \ freed,
         SameObjects, UNCHANGED <<phase, cursor, running, i, n, present, visited, ops>>
  PROVE  IInv'
<1>1. /\ freeing' # <<>> /\ freeing' \in Seq(Calls) /\ InFreeing' = InFreeing
      /\ Todo = {Head(Top.todo)} \cup Todo'
  BY PoppedCalls
<1>2. /\ Live' = Live /\ Listed' = Listed /\ Absent' = Absent /\ Waiting' = Waiting
      /\ Owners' = Owners /\ \A m : InPool(m)' = InPool(m)
      /\ UNCHANGED <<mem, freed, parent, gObjList, gObjCount, gObjUpdateList, gObjPartitionPivot,
                  gObjDeferredFreeList, gObjDeferredFreeCount, overflowed, gObjDefCaptureMode,
                  pool, active>>
  BY SamePlaces
<1>3. phase \in Flushes \cup {"resetFree"} /\ phase \notin Passes
  BY SetUp DEF FreeingInv, Flushes, Passes
<1>4. TypeInv'
  <2>1. TypeOK'
    BY <1>2, SetUp DEF TypeOK, Indices
  <2> QED BY <1>1, <1>2, <2>1, SetUp DEF TypeInv
<1>5. ArrayInv' /\ AbsentInv' /\ PartitionValid' /\ ParentInv'
  BY <1>2, SetUp DEF ArrayInv, AbsentInv, PartitionValid, ParentInv
<1>6. DeferInv'
  BY <1>2, SetUp DEF DeferInv
<1>7. DeferredExact'
  <2>1. ~overflowed => freed \cap Live = Waiting \cup InFreeing
    BY SetUp DEF DeferredExact, InFreeing
  <2>2. ~overflowed' => freed' \cap Live' = Waiting' \cup InFreeing'
    BY <1>1, <1>2, <2>1
  <2> QED BY <2>2 DEF DeferredExact, InFreeing
<1>8. ControlInv'
  BY <1>2, SetUp DEF ControlInv
<1>9. ResetInv' /\ SweepInv'
  BY <1>2, SetUp DEF ResetInv, SweepInv
<1>10. FreeingInv'
  <2>1. Head(Top.todo) \notin Listed'
    BY <1>2, Places
  <2>2. gObjDeferredFreeCount' \in Nat /\ gObjDeferredFreeCount <= gObjDeferredFreeCount'
    BY <1>2, SetUp DEF TypeOK
  <2> QED BY <1>2, <2>1, <2>2, PopFreeing
<1>11. PoolInv'
  <2>1. /\ phase' \in Takings
        /\ \A m1, m2 \in Owners : InPool(m1) \cap InPool(m2) # {} => m1 = m2
        /\ \A m \in Owners : \A e \in InPool(m) \cap Listed :
             e \in Chain(gObjUpdateList) <=> e \in active
    BY <1>3, SetUp DEF PoolInv, Flushes, Takings
  <2>2. ASSUME phase # "resetFree", NEW m \in Pipes \cap Listed, NEW e \in InPool(m)
        PROVE  \/ e \in Listed /\ parent[e] = parent[m]
               \/ e \in freed \cap Live /\ freeing' # <<>> /\ m \in Todo'
    <3>1. m # Head(Top.todo)
      BY Places
    <3>2. \/ e \in Listed /\ parent[e] = parent[m]
          \/ e \in freed \cap Live /\ freeing # <<>> /\ m \in Todo
      BY <2>2, SetUp DEF PoolInv
    <3> QED BY <1>1, <3>1, <3>2
  <2> QED BY <1>2, <2>1, <2>2 DEF PoolInv
<1>12. OrderInv'
  <2>1. LinksKept(gObjUpdateList', gObjUpdateList, Listed) /\ Listed \subseteq Live'
    BY <1>2, Places DEF LinksKept
  <2> QED BY <1>2, <1>3, <2>1, OrderOutside
<1> QED BY <1>4, <1>5, <1>6, <1>7, <1>8, <1>9, <1>10, <1>11, <1>12 DEF IInv

LEMMA FreeNextDefers ==
  ASSUME IInv, freeing # <<>>, Top.todo # <<>>, freeing' = PopTodo,
         Head(Top.todo) \in Live \ freed, gObjDefCaptureMode = 2,
         FreeLater(Head(Top.todo)),
         UNCHANGED <<mem, parent, gObjDefCaptureMode, pool, active, phase, cursor, running, i, n,
                     present, visited, ops>>
  PROVE  IInv'
<1>1. PICK o : o = Head(Top.todo)
  OBVIOUS
<1>2. o \in Listed
  BY <1>1, Places
<1>3. /\ freeing' # <<>> /\ freeing' \in Seq(Calls) /\ InFreeing' = InFreeing
      /\ Todo = {o} \cup Todo' /\ o \in Todo
  BY <1>1, PoppedCalls
<1>4. phase \in Flushes /\ phase \notin {"resetFree", "sweep"} /\ phase \notin Passes
  <2>1. phase \in Flushes \cup {"resetFree"} /\ phase # "resetFree"
    BY SetUp DEF FreeingInv, ControlInv
  <2> QED BY <2>1 DEF Flushes, Passes
<1>5. /\ TypeOK' /\ ArrayInv' /\ AbsentInv' /\ DeferInv' /\ DeferredExact'
      /\ ParentInv' /\ ResetInv' /\ PartitionValid' /\ OrderInv'
      /\ Listed' = Listed \ {o} /\ Live' = Live /\ freed' = freed \cup {o} /\ Absent' = Absent
  BY <1>1, <1>2, <1>3, <1>4, FreeLaterKeeps
<1>6. TypeInv'
  <2>1. overflowed' \in BOOLEAN
    <3>1. overflowed' = TRUE \/ overflowed' = overflowed
      BY <1>1, <1>2, SetUp, FreeLaterArray
    <3> QED BY <3>1, SetUp DEF TypeInv
  <2> QED BY <1>3, <1>5, <2>1, SetUp DEF TypeInv
<1>7. ControlInv'
  BY <1>4, SetUp DEF ControlInv
<1>8. SweepInv'
  BY <1>4 DEF SweepInv
<1>9. PoolInv'
  <2>1. ASSUME NEW m \in Pipes \cap Listed, o \in InPool(m)
        PROVE  freeing' # <<>> /\ m \in Todo'
    <3>1. o \in Effects
      BY <2>1, SetUp DEF TypeInv, InPool
    <3>2. m \in Todo
      BY <1>2, <1>3, <1>4, <2>1, <3>1, SetUp DEF FreeingInv
    <3> QED BY <1>3, <3>1, <3>2, Places
  <2>2. Todo \ {o} \subseteq Todo'
    BY <1>3
  <2> QED BY <1>1, <1>2, <1>3, <1>4, <2>1, <2>2, FreeLaterPools
<1>10. FreeingInv'
  <2>1. /\ gObjDeferredFreeCount <= gObjDeferredFreeCount' /\ gObjDeferredFreeCount' \in Nat
        /\ \A k \in 0 .. (gObjDeferredFreeCount - 1) :
             gObjDeferredFreeList'[k] = gObjDeferredFreeList[k]
    <3>1. \/ gObjDeferredFreeCount' = gObjDeferredFreeCount
          \/ gObjDeferredFreeCount' = gObjDeferredFreeCount + 1
      BY <1>1, <1>2, SetUp, FreeLaterArray
    <3>2. gObjDeferredFreeCount \in Nat
      BY SetUp DEF TypeOK
    <3>3. \A k \in 0 .. (gObjDeferredFreeCount - 1) :
             gObjDeferredFreeList'[k] = gObjDeferredFreeList[k]
      BY <1>1, <1>2, SetUp, FreeLaterArray
    <3> QED BY <3>1, <3>2, <3>3
  <2>2. o \notin Listed' /\ Listed' \subseteq Listed /\ freed \subseteq freed'
    BY <1>5
  <2> QED BY <1>1, <1>5, <2>1, <2>2, PopFreeing
<1> QED BY <1>5, <1>6, <1>7, <1>8, <1>9, <1>10 DEF IInv

------------------------------------------------------------------------------
\* In the reset an object is taken apart at once, on top of the calls there are.
LEMMA ResetUnlists ==
  ASSUME IInv, phase = "resetFree", NEW o \in Listed, Unlist(o),
         NEW calls \in Seq(Calls), Begin(o, calls), Len(calls) = Len(freeing),
         \A k \in DOMAIN freeing : calls[k].obj = freeing[k].obj,
         UNCHANGED <<mem, parent, gObjDeferredFreeList, gObjDeferredFreeCount, overflowed,
                     gObjDefCaptureMode, pool, active, phase, cursor, running, n, present, visited>>,
         i' \in Nat, gObjCount - 1 <= i', i' <= i
  PROVE  IInv'
<1>1. /\ MovedUp(gObjList', gObjList, gObjCount, o)
      /\ gObjCount' = gObjCount - 1 /\ gObjCount - 1 \in Nat
      /\ o \in Live /\ o \notin freed /\ o \in Obj /\ freed' = freed \cup {o}
      /\ Live' = Live /\ Absent' = Absent /\ Listed' = Listed \ {o}
      /\ gObjList' \in [Indices -> Obj \cup {None}]
      /\ \A k \in Indices : k >= gObjCount - 1 => gObjList'[k] = gObjList[k]
      /\ ArrayInv'
  BY SetUp, UnlistArray
<1>2. gObjUpdateList' = objList_remove(gObjUpdateList, o) /\ gObjPartitionPivot' = 0
  BY DEF Unlist
<1>3. /\ Chain(gObjUpdateList') = Chain(gObjUpdateList) \ {o}
      /\ LinksKept(gObjUpdateList', gObjUpdateList, (Obj \ Chain(gObjUpdateList)) \cup {o})
  BY <1>1, <1>2, SetUp, ChainRemoved
<1>4. Waiting' = Waiting /\ \A m : InPool(m)' = InPool(m)
  BY DEF Waiting, InPool
<1>5. PICK todo \in Seq(Obj) : Begins(o, calls, todo)
  BY <1>1, SetUp, Begun
<1>6. PICK len \in Nat : len = Len(freeing) /\ DOMAIN freeing = 1 .. len /\ len = Len(calls)
  BY SetUp DEF TypeInv
<1>7. DOMAIN freeing' = (1 .. len) \cup {len + 1} /\ len + 1 \notin 1 .. len
  BY <1>5, <1>6 DEF Begins
<1>8. /\ \A k \in 1 .. len : freeing'[k].obj = freeing[k].obj /\ freeing'[k].todo = calls[k].todo
      /\ freeing'[len + 1].obj = o /\ freeing'[len + 1].todo = todo
  BY <1>5, <1>6 DEF Begins
<1>9. InFreeing' = InFreeing \cup {o}
  <2>1. /\ InFreeing' = {freeing'[k].obj : k \in (1 .. len) \cup {len + 1}}
        /\ InFreeing = {freeing[k].obj : k \in 1 .. len}
    BY <1>6, <1>7 DEF InFreeing
  <2>2. \A x \in InFreeing' : x \in InFreeing \/ x = o
    BY <1>8, <2>1
  <2>3. \A k \in 1 .. len : freeing[k].obj \in InFreeing'
    BY <1>8, <2>1
  <2>4. o \in InFreeing'
    BY <1>8, <2>1
  <2>5. InFreeing \subseteq InFreeing'
    BY <2>1, <2>3
  <2> QED BY <2>2, <2>4, <2>5
<1>10. TypeInv'
  <2>1. TypeOK'
    BY UnlistKeepsTypes DEF deferred
  <2> QED BY <1>5, <2>1, SetUp DEF TypeInv, Begins
<1>11. AbsentInv'
  <2>1. \A x \in Absent : x \notin Chain(gObjUpdateList) /\ x \in Obj /\ x # o
    BY <1>1, Places DEF Absent
  <2>2. \A x \in Absent : gObjUpdateList'.next[x] = None
    BY <1>3, <2>1, SetUp DEF LinksKept, AbsentInv
  <2> QED BY <1>1, <2>1, <2>2, SetUp DEF AbsentInv
<1>12. DeferInv'
  <2>1. /\ \A j, k \in 0 .. (gObjDeferredFreeCount - 1) :
             gObjDeferredFreeList[j] = gObjDeferredFreeList[k] /\ gObjDeferredFreeList[k] # None
               => j = k
        /\ Waiting \subseteq freed \cap Live
        /\ phase \notin Flushes
        /\ \A k \in 0 .. (gObjDeferredFreeCount - 1) : gObjDeferredFreeList[k] # None
        /\ gObjDeferredFreeCount = 0
    BY SetUp DEF DeferInv, Flushes
  <2> QED BY <1>1, <1>4, <2>1 DEF DeferInv
<1>13. DeferredExact'
  <2>1. ~overflowed => freed \cap Live = Waiting \cup InFreeing
    BY SetUp DEF DeferredExact, InFreeing
  <2>2. ~overflowed' => freed' \cap Live' = Waiting' \cup InFreeing'
    BY <1>1, <1>4, <1>9, <2>1
  <2> QED BY <2>2 DEF DeferredExact, InFreeing
<1>14. ControlInv'
  <2>1. ~running
    BY SetUp DEF ControlInv, Passes
  <2> QED BY <2>1, SetUp DEF ControlInv
<1>15. FreeingInv'
  <2>1. InFreeing \subseteq freed \cap Live
        /\ \A j, k \in 1 .. len : freeing[j].obj = freeing[k].obj => j = k
    BY <1>6, SetUp DEF FreeingInv
  <2>2. \A k \in 1 .. len : freeing[k].obj # o
    BY <1>1, <1>6, <2>1 DEF InFreeing
  <2>3. \A j, k \in DOMAIN freeing' : freeing'[j].obj = freeing'[k].obj => j = k
    BY <1>7, <1>8, <2>1, <2>2
  <2>6. InFreeing' \subseteq freed' \cap Live'
    BY <1>1, <1>9, <2>1
  <2>7. phase' \in Flushes \cup {"resetFree"} /\ phase' \notin Flushes
    BY DEF Flushes
  <2> QED BY <2>3, <2>6, <2>7 DEF FreeingInv
<1>16. ParentInv' /\ PartitionValid'
  BY <1>1, <1>2, SetUp DEF ParentInv, PartitionValid
<1>17. PoolInv'
  <2>1. /\ phase' \in Takings
        /\ \A m1, m2 \in Owners : InPool(m1) \cap InPool(m2) # {} => m1 = m2
        /\ \A m \in Owners : \A e \in InPool(m) \cap Listed :
             e \in Chain(gObjUpdateList) <=> e \in active
    BY SetUp DEF PoolInv, Takings
  <2>2. Owners' \subseteq Owners
    <3>1. Owners' = Pipes \cap (Listed' \cup Waiting')
      BY DEF Owners
    <3> QED BY <1>1, <1>4, <3>1 DEF Owners
  <2> QED BY <1>1, <1>3, <1>4, <2>1, <2>2 DEF PoolInv
<1>18. ResetInv'
  <2>1. gObjCount <= i /\ i <= Cardinality(Obj)
    BY SetUp DEF ResetInv
  <2>2. i \in Nat /\ gObjCount \in Nat /\ Cardinality(Obj) \in Nat
    BY SetUp, ListedCounted DEF TypeInv
  <2>3. gObjCount' <= i' /\ i' <= Cardinality(Obj)
    BY <1>1, <2>1, <2>2
  <2> QED BY <2>3 DEF ResetInv
<1>19. SweepInv'
  BY DEF SweepInv
<1>20. OrderInv'
  <2>1. o \in freed' /\ Listed' = Listed \ {o} /\ freed \subseteq freed'
    BY <1>1
  <2> QED BY <1>1, <1>2, <2>1, OrderRemoved
<1> QED BY <1>1, <1>10, <1>11, <1>12, <1>13, <1>14, <1>15, <1>16, <1>17, <1>18, <1>19, <1>20 DEF IInv

LEMMA FreeNextKeeps ==
  ASSUME IInv, FreeNext
  PROVE  IInv'
<1>1. freeing # <<>> /\ Top.todo # <<>>
      /\ UNCHANGED <<mem, parent, gObjDefCaptureMode, pool, active, phase, cursor, running, i, n,
                     present, visited>>
  BY DEF FreeNext, InFree, scan, pools
<1>2. PICK o : o = Head(Top.todo)
  OBVIOUS
<1>3. CASE /\ o \notin Live \ freed
           /\ freeing' = PopTodo
           /\ UNCHANGED <<freed, lists, deferred, ops>>
  <2>1. SameObjects /\ ops' = ops
    BY <1>1, <1>3 DEF SameObjects, lists, deferred
  <2> QED BY <1>1, <1>2, <1>3, <2>1, FreeNextSkips
<1>4. CASE /\ o \in Live \ freed /\ gObjDefCaptureMode = 2
           /\ FreeLater(o)
           /\ freeing' = PopTodo
           /\ UNCHANGED ops
  BY <1>1, <1>2, <1>4, FreeNextDefers
<1>5. CASE /\ o \in Live \ freed /\ gObjDefCaptureMode = 0
           /\ Unlist(o)
           /\ Begin(o, PopTodo)
           /\ UNCHANGED deferred
  <2>1. phase = "resetFree"
    BY <1>5, SetUp DEF ControlInv
  <2>2. o \in Listed
    BY <1>5, Places
  <2>3. PICK calls : calls = PopTodo
    OBVIOUS
  <2>4. /\ calls \in Seq(Calls) /\ Len(calls) = Len(freeing) /\ DOMAIN freeing = 1 .. Len(freeing)
        /\ \A k \in 1 .. Len(freeing) : calls[k].obj = freeing[k].obj
    BY <1>1, <1>2, <2>3, SetUp, Popped, Stacked
  <2>7. i' \in Nat /\ gObjCount - 1 <= i' /\ i' <= i
    <3>1. gObjCount <= i /\ i \in Nat /\ gObjCount \in Nat
      BY <2>1, SetUp DEF ResetInv, TypeInv, TypeOK
    <3> QED BY <1>1, <3>1
  <2>8. UNCHANGED <<gObjDeferredFreeList, gObjDeferredFreeCount, overflowed>>
    BY <1>5 DEF deferred
  <2> QED BY <1>1, <1>5, <2>1, <2>2, <2>3, <2>4, <2>7, <2>8, ResetUnlists
<1> QED BY <1>2, <1>3, <1>4, <1>5 DEF FreeNext

------------------------------------------------------------------------------
\* What a call that begins has to free.
LEMMA BegunTodo ==
  ASSUME IInv, NEW o \in Obj, NEW calls \in Seq(Calls), NEW todo \in Seq(Obj),
         Begins(o, calls, todo), o \in Listed \cup Waiting
  PROVE  \A j \in DOMAIN todo : todo[j] \in Effects => o \in Pipes /\ todo[j] \in InPool(o)
<1>1. CASE o \in Pipes
  BY <1>1 DEF InPool, Begins
<1>2. CASE o \notin Pipes
  <2>1. CASE todo = <<>>
    BY <2>1, NoCalls
  <2>2. CASE todo # <<>>
    <3>1. PICK c \in Obj \ Effects : todo = <<c>>
      BY <1>2, <2>2 DEF Begins
    <3>2. DOMAIN todo = {1} /\ todo[1] = c
      BY <3>1
    <3> QED BY <3>1, <3>2, Places
  <2> QED BY <2>1, <2>2
<1> QED BY <1>1, <1>2

\* The flush takes the next object of the deferred list apart.
LEMMA FlushNextKeeps ==
  ASSUME IInv, FlushNext
  PROVE  IInv'
<1>1. /\ phase \in Flushes /\ freeing = <<>> /\ i < gObjDeferredFreeCount
      /\ SameObjects /\ UNCHANGED <<phase, cursor, running, i, n, present, visited>>
      /\ Begin(gObjDeferredFreeList[i], <<>>)
  BY DEF FlushNext, SameObjects, Flushes, lists, deferred, pools, scan
<1>2. PICK o : o = gObjDeferredFreeList[i]
  OBVIOUS
<1>3. o \in Waiting /\ o \in freed \cap Live /\ o \in Obj
  <2>1. i \in Nat /\ gObjDeferredFreeCount \in Nat /\ i \in 0 .. (gObjDeferredFreeCount - 1)
    BY <1>1, SetUp DEF TypeInv, TypeOK
  <2>2. o # None
    BY <1>1, <1>2, <2>1, SetUp DEF DeferInv
  <2>3. o \in Waiting
    BY <1>2, <2>1, <2>2 DEF Waiting
  <2> QED BY <2>3, Places
<1>4. <<>> \in Seq(Calls) /\ Len(<<>>) = 0
  OBVIOUS
<1>5. PICK todo \in Seq(Obj) : Begins(o, <<>>, todo)
  <2>1. TypeInv /\ Begin(o, <<>>)
    BY <1>1, <1>2, SetUp
  <2> QED BY <1>3, <1>4, <2>1, Begun
<1>6. /\ freeing' \in Seq(Calls) /\ Len(freeing') = 1 /\ freeing'[1] = Call(o, todo)
      /\ freeing'[1].obj = o /\ freeing'[1].todo = todo /\ freeing'[1].riders = FALSE
      /\ ops' \in Nat
  BY <1>4, <1>5 DEF Begins
<1>7. DOMAIN freeing' = {1} /\ freeing' # <<>> /\ Top' = freeing'[1]
  <2>1. DOMAIN freeing' = 1 .. 1 /\ 1 .. 1 = {1}
    BY <1>6
  <2>2. freeing' # <<>>
    BY <2>1, NoCalls
  <2>3. Top' = freeing'[1]
    BY <1>6 DEF Top, Last
  <2> QED BY <2>1, <2>2, <2>3
<1>8. InFreeing' = {o} /\ Todo' = {todo[k] : k \in DOMAIN todo}
  BY <1>6, <1>7 DEF InFreeing, Todo
<1>9. /\ Live' = Live /\ Listed' = Listed /\ Absent' = Absent /\ Waiting' = Waiting
      /\ Owners' = Owners /\ \A m : InPool(m)' = InPool(m)
      /\ UNCHANGED <<mem, freed, parent, gObjList, gObjCount, gObjUpdateList, gObjPartitionPivot,
                  gObjDeferredFreeList, gObjDeferredFreeCount, overflowed, gObjDefCaptureMode,
                  pool, active>>
  BY <1>1, SamePlaces
<1>10. TypeInv'
  <2>1. TypeOK'
    BY <1>1, <1>9, SetUp DEF TypeOK, Indices
  <2> QED BY <1>1, <1>6, <1>9, <2>1, SetUp DEF TypeInv
<1>11. ArrayInv' /\ AbsentInv' /\ PartitionValid' /\ ParentInv'
  BY <1>1, <1>9, SetUp DEF ArrayInv, AbsentInv, PartitionValid, ParentInv
<1>12. DeferInv'
  BY <1>1, <1>9, SetUp DEF DeferInv
<1>13. DeferredExact'
  <2>1. InFreeing = {}
    BY <1>1, NoCalls DEF InFreeing
  <2>2. ~overflowed => freed \cap Live = Waiting \cup InFreeing
    BY SetUp DEF DeferredExact, InFreeing
  <2>3. ~overflowed' => freed' \cap Live' = Waiting' \cup InFreeing'
    BY <1>3, <1>8, <1>9, <2>1, <2>2
  <2> QED BY <2>3 DEF DeferredExact, InFreeing
<1>14. ControlInv'
  BY <1>1, <1>9, SetUp DEF ControlInv
<1>15. ResetInv' /\ SweepInv'
  BY <1>1, <1>9, SetUp DEF ResetInv, SweepInv
<1>16. FreeingInv'
  <2>1. \A j \in DOMAIN todo : todo[j] \in Effects => o \in Pipes /\ todo[j] \in InPool(o)
    BY <1>3, <1>4, <1>5, BegunTodo
  <2>2. ASSUME NEW e \in Todo' \cap Effects \cap Listed', NEW m \in Pipes \cap Listed',
               e \in InPool(m)'
        PROVE  m \in Todo'
    <3>1. o \in Pipes /\ e \in InPool(o)
      BY <1>8, <2>1
    <3>2. o \in Owners /\ m \in Owners /\ e \in InPool(m)
      BY <1>3, <1>9, <2>2, <3>1 DEF Owners
    <3>3. o = m
      BY <3>1, <3>2, SetUp DEF PoolInv
    <3> QED BY <1>3, <1>9, <2>2, <3>3, Places
  <2>3. /\ \A j, k \in DOMAIN freeing' : freeing'[j].obj = freeing'[k].obj => j = k
        /\ InFreeing' \subseteq freed' \cap Live'
        /\ phase' \in Flushes
    BY <1>1, <1>3, <1>6, <1>7, <1>8, <1>9
  <2>4. /\ Len(freeing') = 1 /\ ~Top'.riders
        /\ i' < gObjDeferredFreeCount' /\ gObjDeferredFreeList'[i'] = Top'.obj
    BY <1>1, <1>2, <1>6, <1>7, <1>9
  <2> QED BY <2>2, <2>3, <2>4 DEF FreeingInv
<1>17. PoolInv'
  <2>1. /\ phase' \in Takings
        /\ \A m1, m2 \in Owners : InPool(m1) \cap InPool(m2) # {} => m1 = m2
        /\ \A m \in Owners : \A e \in InPool(m) \cap Listed :
             e \in Chain(gObjUpdateList) <=> e \in active
        /\ phase # "resetFree" => \A m \in Pipes \cap Listed : \A e \in InPool(m) :
             e \in Listed /\ parent[e] = parent[m]
    BY <1>1, SetUp DEF PoolInv, Flushes, Takings
  <2> QED BY <1>1, <1>9, <2>1 DEF PoolInv
<1>18. OrderInv'
  <2>1. LinksKept(gObjUpdateList', gObjUpdateList, Listed) /\ Listed \subseteq Live'
    BY <1>9, Places DEF LinksKept
  <2>2. phase' \notin Passes
    BY <1>1 DEF Flushes, Passes
  <2> QED BY <1>9, <2>1, <2>2, OrderOutside
<1> QED BY <1>10, <1>11, <1>12, <1>13, <1>14, <1>15, <1>16, <1>17, <1>18 DEF IInv

------------------------------------------------------------------------------
\* The riders of a carrier, in the order of the array.
LEMMA Ordered ==
  ASSUME TypeInv, ArrayInv, NEW go \in SUBSET (0 .. (gObjCount - 1))
  PROVE  /\ InArrayOrder(go) \in Seq(Obj)
         /\ {InArrayOrder(go)[j] : j \in DOMAIN InArrayOrder(go)} = {gObjList[k] : k \in go}
<1>1. IsFiniteSet(go) /\ go \in SUBSET Nat /\ Cardinality(go) \in Nat
      /\ \A k \in go : gObjList[k] \in Obj
  <2>1. gObjCount \in Nat /\ \A k \in 0 .. (gObjCount - 1) : gObjList[k] \in Obj
    BY ListedCounted
  <2>2. IsFiniteSet(0 .. (gObjCount - 1))
    BY <2>1, FS_Interval
  <2>3. IsFiniteSet(go)
    BY <2>2, FS_Subset
  <2> QED BY <2>1, <2>3, FS_CardinalityType
<1>2. PICK size \in Nat : size = Cardinality(go)
  BY <1>1
<1>3. PICK f : f = [k \in go |-> Cardinality(AtMost(go, k))]
  OBVIOUS
<1>4. /\ f \in [go -> 1 .. size] /\ \A x, y \in go : f[x] = f[y] => x = y
      /\ \A j \in 1 .. size : \E x \in go : f[x] = j
  <2>1. /\ \A j \in go : Cardinality(AtMost(go, j)) \in 1 .. Cardinality(go)
        /\ \A j, k \in go :
              Cardinality(AtMost(go, j)) = Cardinality(AtMost(go, k)) => j = k
    BY <1>1, CountedUp
  <2>2. f \in [go -> 1 .. size] /\ \A x, y \in go : f[x] = f[y] => x = y
    BY <1>2, <1>3, <2>1
  <2> QED BY <1>1, <1>2, <2>2, AllTaken
<1>5. PICK at : at = [j \in 1 .. size |-> CHOOSE k \in go : f[k] = j]
  OBVIOUS
<1>6. \A j \in 1 .. size : at[j] \in go /\ f[at[j]] = j
  BY <1>4, <1>5
<1>7. PICK list : list = InArrayOrder(go)
  OBVIOUS
<1>8. list = [j \in 1 .. size |-> gObjList[at[j]]]
  <2>1. ASSUME NEW j \in 1 .. size
        PROVE  (CHOOSE k \in go : Cardinality({h \in go : h <= k}) = j) = at[j]
    <3>1. \A k \in go : Cardinality({h \in go : h <= k}) = f[k]
      BY <1>3 DEF AtMost
    <3>2. at[j] = CHOOSE k \in go : f[k] = j
      BY <1>5
    <3> QED BY <3>1, <3>2
  <2>2. list = [j \in 1 .. size |->
                  gObjList[CHOOSE k \in go : Cardinality({h \in go : h <= k}) = j]]
    BY <1>2, <1>7 DEF InArrayOrder
  <2>3. \A j \in 1 .. size :
          gObjList[CHOOSE k \in go : Cardinality({h \in go : h <= k}) = j] = gObjList[at[j]]
    BY <2>1
  <2> QED BY <2>2, <2>3, Zenon
<1>9. list \in [1 .. size -> Obj]
  BY <1>1, <1>6, <1>8
<1>10. list \in Seq(Obj) /\ DOMAIN list = 1 .. size
  BY <1>9
<1>11. ASSUME NEW x \in {list[j] : j \in DOMAIN list} PROVE x \in {gObjList[k] : k \in go}
  BY <1>6, <1>8, <1>10
<1>12. ASSUME NEW x \in {gObjList[k] : k \in go} PROVE x \in {list[j] : j \in DOMAIN list}
  <2>1. PICK k \in go : x = gObjList[k]
    OBVIOUS
  <2>2. PICK j \in 1 .. size : f[k] = j
    BY <1>4
  <2>3. at[j] = k
    BY <1>4, <1>6, <2>2
  <2>4. list[j] = x
    BY <1>8, <2>1, <2>3
  <2> QED BY <1>10, <2>4
<1> QED BY <1>7, <1>10, <1>11, <1>12

------------------------------------------------------------------------------
LEMMA FreeRidersKeeps ==
  ASSUME IInv, FreeRiders
  PROVE  IInv'
<1>1. /\ freeing # <<>> /\ Top.todo = <<>> /\ Top.obj \in Carriers /\ gObjDefCaptureMode = 2
      /\ UNCHANGED <<mem, freed, gObjList, gObjCount, gObjUpdateList, gObjPartitionPivot,
                     gObjDeferredFreeList, gObjDeferredFreeCount, overflowed, gObjDefCaptureMode,
                     pool, active, phase, cursor, running, i, n, present, visited, ops>>
  BY DEF FreeRiders, InFree, lists, deferred, pools, scan
<1>2. PICK t : t = Top.obj
  OBVIOUS
<1>3. PICK go : go = {k \in 0 .. (gObjCount - 1) :
                        (gObjList[k] \in Listed /\ parent[gObjList[k]] = t) /\ gObjList[k] \in Placed}
  OBVIOUS
<1>4. PICK todo : todo = InArrayOrder(go)
  OBVIOUS
<1>5. /\ freeing' = [freeing EXCEPT ![Len(freeing)].riders = TRUE, ![Len(freeing)].todo = todo]
      /\ parent' = [o \in Obj |-> IF o \in Listed /\ parent[o] = t THEN None ELSE parent[o]]
  BY <1>2, <1>3, <1>4 DEF FreeRiders
<1>6. /\ phase \in Flushes /\ Len(freeing) = 1
      /\ i < gObjDeferredFreeCount /\ gObjDeferredFreeList[i] = t
      /\ phase \notin {"resetFree", "sweep"} /\ phase \notin Passes
  <2>1. phase \in Flushes \cup {"resetFree"} /\ phase # "resetFree"
    BY <1>1, SetUp DEF FreeingInv, ControlInv
  <2> QED BY <1>1, <1>2, <2>1, SetUp DEF FreeingInv, Flushes, Passes
<1>7. todo \in Seq(Obj) /\ {todo[j] : j \in DOMAIN todo} = {gObjList[k] : k \in go}
  <2>1. go \in SUBSET (0 .. (gObjCount - 1))
    BY <1>3
  <2> QED BY <1>4, <2>1, Ordered, SetUp
<1>8. {gObjList[k] : k \in go} = {o \in Listed : parent[o] = t /\ o \in Placed}
  BY <1>3 DEF Listed
<1>9. /\ DOMAIN freeing = {1} /\ freeing[1] \in Calls /\ t = freeing[1].obj /\ t \in Obj
      /\ freeing \in [{1} -> Calls]
  <2>1. DOMAIN freeing = 1 .. 1 /\ 1 .. 1 = {1} /\ Top = freeing[1] /\ Top \in Calls /\ Top.obj \in Obj
    BY <1>1, <1>6, SetUp, Stacked
  <2>2. freeing \in Seq(Calls)
    BY SetUp DEF TypeInv
  <2>3. freeing \in [1 .. Len(freeing) -> Calls]
    BY <2>2
  <2>4. freeing \in [{1} -> Calls]
    BY <1>6, <2>1, <2>3
  <2> QED BY <1>2, <2>1, <2>4
<1>10. PICK call : call = [freeing[1] EXCEPT !.riders = TRUE, !.todo = todo]
  OBVIOUS
<1>11. call \in Calls /\ call.obj = t /\ call.todo = todo /\ call.riders = TRUE
  BY <1>7, <1>9, <1>10 DEF Calls
<1>12. freeing' = [freeing EXCEPT ![1] = call]
  <2>1. freeing' = [freeing EXCEPT ![1].riders = TRUE, ![1].todo = todo]
    BY <1>5, <1>6
  <2> QED BY <1>9, <1>10, <2>1
<1>13. /\ freeing' \in Seq(Calls) /\ Len(freeing') = 1 /\ freeing'[1] = call
       /\ DOMAIN freeing' = {1} /\ freeing' # <<>>
  <2>1. freeing' \in [{1} -> Calls] /\ 1 .. 1 = {1} /\ freeing'[1] = call
    BY <1>9, <1>11, <1>12
  <2>2. freeing' \in [1 .. 1 -> Calls]
    BY <2>1
  <2>3. freeing' \in Seq(Calls) /\ Len(freeing') = 1
    <3>1. PICK one \in Nat : one = 1
      OBVIOUS
    <3>2. PICK list : list = freeing'
      OBVIOUS
    <3>3. list \in [1 .. one -> Calls]
      BY <2>2, <3>1, <3>2
    <3>4. list \in Seq(Calls) /\ Len(list) = one
      BY <3>3
    <3> QED BY <3>1, <3>2, <3>4
  <2> QED BY <2>1, <2>3, NoCalls
<1>14. Top' = call
  BY <1>13 DEF Top, Last
<1>15. InFreeing' = {t} /\ InFreeing = {t} /\ Todo' = {o \in Listed : parent[o] = t /\ o \in Placed}
  <2>1. InFreeing' = {t} /\ InFreeing = {t}
    BY <1>9, <1>11, <1>13 DEF InFreeing
  <2> QED BY <1>7, <1>8, <1>11, <1>14, <2>1 DEF Todo
<1>16. /\ Live' = Live /\ Listed' = Listed /\ Absent' = Absent /\ Waiting' = Waiting
       /\ \A m : InPool(m)' = InPool(m)
  BY <1>1 DEF Live, Listed, Absent, Waiting, InPool
<1>17. Owners' = Owners
  BY <1>16 DEF Owners
<1>18. /\ parent' \in [Obj -> Obj \cup {None}]
       /\ \A o \in Listed : parent'[o] = IF parent[o] = t THEN None ELSE parent[o]
  BY <1>5, SetUp, Places DEF TypeOK
<1>19. TypeInv'
  <2>1. TypeOK'
    BY <1>1, <1>18, SetUp DEF TypeOK, Indices
  <2> QED BY <1>1, <1>13, <2>1, SetUp DEF TypeInv
<1>20. ArrayInv' /\ AbsentInv' /\ PartitionValid'
  BY <1>1, <1>16, SetUp DEF ArrayInv, AbsentInv, PartitionValid
<1>21. DeferInv'
  BY <1>1, <1>16, SetUp DEF DeferInv
<1>22. DeferredExact'
  <2>1. ~overflowed => freed \cap Live = Waiting \cup InFreeing
    BY SetUp DEF DeferredExact, InFreeing
  <2>2. ~overflowed' => freed' \cap Live' = Waiting' \cup InFreeing'
    BY <1>1, <1>15, <1>16, <2>1
  <2> QED BY <2>2 DEF DeferredExact, InFreeing
<1>23. ControlInv'
  BY <1>1, SetUp DEF ControlInv
<1>24. ResetInv' /\ SweepInv'
  BY <1>1, <1>6 DEF ResetInv, SweepInv
<1>25. ParentInv'
  BY <1>16, <1>18, <1>1, SetUp DEF ParentInv
<1>26. \A m \in Pipes \cap Listed : \A e \in InPool(m) : e \in Listed /\ parent[e] = parent[m]
  <2>1. Todo = {}
    BY <1>1, NoCalls DEF Todo
  <2> QED BY <1>6, <2>1, SetUp DEF PoolInv
<1>27. FreeingInv'
  <2>1. ASSUME NEW e \in Todo' \cap Effects \cap Listed', NEW m \in Pipes \cap Listed',
               e \in InPool(m)'
        PROVE  m \in Todo'
    <3>1. e \in InPool(m) /\ m \in Listed /\ parent[e] = t /\ m \in Placed
      BY <1>15, <1>16, <2>1, ObjectConstants
    <3>2. parent[m] = t
      BY <1>26, <2>1, <3>1
    <3> QED BY <1>15, <3>1, <3>2
  <2>2. \A o \in Listed' : parent'[o] # Top'.obj
    BY <1>9, <1>11, <1>14, <1>16, <1>18, Places
  <2>3. InFreeing \subseteq freed \cap Live
    BY SetUp DEF FreeingInv
  <2>5. \A j, k \in DOMAIN freeing' : freeing'[j].obj = freeing'[k].obj => j = k
    BY <1>13
  <2>6. /\ Len(freeing') = 1 /\ InFreeing' \subseteq freed' \cap Live' /\ phase' \in Flushes
        /\ i' < gObjDeferredFreeCount' /\ gObjDeferredFreeList'[i'] = Top'.obj
    BY <1>1, <1>6, <1>11, <1>13, <1>14, <1>15, <1>16, <2>3
  <2> QED BY <2>1, <2>2, <2>5, <2>6 DEF FreeingInv
<1>28. PoolInv'
  <2>1. /\ phase' \in Takings
        /\ \A m1, m2 \in Owners : InPool(m1) \cap InPool(m2) # {} => m1 = m2
        /\ \A m \in Owners : \A e \in InPool(m) \cap Listed :
             e \in Chain(gObjUpdateList) <=> e \in active
    BY <1>1, <1>6, SetUp DEF PoolInv, Flushes, Takings
  <2>2. \A m \in Pipes \cap Listed : \A e \in InPool(m) : e \in Listed /\ parent'[e] = parent'[m]
    BY <1>18, <1>26
  <2> QED BY <1>1, <1>16, <1>17, <2>1, <2>2 DEF PoolInv
<1>29. OrderInv'
  <2>1. LinksKept(gObjUpdateList', gObjUpdateList, Listed) /\ Listed \subseteq Live'
    BY <1>1, <1>16, Places DEF LinksKept
  <2> QED BY <1>1, <1>6, <1>16, <2>1, OrderOutside
<1> QED BY <1>19, <1>20, <1>21, <1>22, <1>23, <1>24, <1>25, <1>27, <1>28, <1>29 DEF IInv

------------------------------------------------------------------------------
\* The innermost call ends.
LEMMA FrontCalls ==
  ASSUME TypeInv, freeing # <<>>, NEW calls, calls = Front(freeing)
  PROVE  /\ calls \in Seq(Calls) /\ Len(calls) = Len(freeing) - 1
         /\ \A k \in 1 .. (Len(freeing) - 1) : calls[k] = freeing[k]
<1>1. PICK len \in Nat \ {0} : len = Len(freeing)
  BY Stacked
<1>2. freeing \in Seq(Calls) /\ \A k \in 1 .. len : freeing[k] \in Calls
  BY <1>1 DEF TypeInv
<1>3. \A k \in 1 .. (len - 1) : freeing[k] \in Calls
  BY <1>2
<1>4. calls = SubSeq(freeing, 1, len - 1)
  BY <1>1 DEF Front
<1>5. 1 \in Int /\ len - 1 \in Int /\ (len - 1) - 1 + 1 = len - 1
  BY <1>1
<1>6. /\ calls \in Seq(Calls)
      /\ Len(calls) = IF 1 <= len - 1 THEN (len - 1) - 1 + 1 ELSE 0
      /\ \A k \in 1 .. ((len - 1) - 1 + 1) : calls[k] = freeing[1 + k - 1]
  BY <1>3, <1>4, <1>5, SubSeqProperties
<1>7. Len(calls) = len - 1
  BY <1>1, <1>6
<1>8. ASSUME NEW k \in 1 .. (len - 1) PROVE calls[k] = freeing[k]
  <2>1. 1 + k - 1 = k
    OBVIOUS
  <2> QED BY <1>5, <1>6, <2>1
<1> QED BY <1>1, <1>6, <1>7, <1>8

\* Links of objects outside the list do not matter.
LEMMA ChainKept ==
  ASSUME TypeInv, ArrayInv, OrderInv, NEW new \in UpdateList,
         new.head = gObjUpdateList.head, LinksKept(new, gObjUpdateList, Listed)
  PROVE  Chain(new) = Chain(gObjUpdateList)
<1>1. PICK D \in SUBSET Live, C \in SUBSET Listed, rank \in Ranks :
        Ranked(gObjUpdateList, C, rank)
  BY DEF OrderInv
<1>2. C \in SUBSET Obj
  BY ListedCounted
<1>3. \A x \in C : new.next[x] = gObjUpdateList.next[x]
  BY DEF LinksKept
<1>4. Ranked(new, C, rank)
  BY <1>1, <1>3 DEF Ranked
<1>5. Chain(new) = C
  BY <1>2, <1>4, ChainOf
<1>6. Chain(gObjUpdateList) = C
  BY <1>1, <1>2, ListOrdered, ChainOf
<1> QED BY <1>5, <1>6

LEMMA ReclaimKeeps ==
  ASSUME IInv, Reclaim
  PROVE  IInv'
<1>1. /\ freeing # <<>> /\ Top.todo = <<>>
      /\ Top.riders \/ Top.obj \notin Carriers \/ gObjDefCaptureMode = 0
      /\ freeing' = Front(freeing)
      /\ UNCHANGED <<gObjList, gObjCount, gObjPartitionPivot, gObjDeferredFreeCount, overflowed,
                     gObjDefCaptureMode, phase, cursor, running, n, present, visited, ops>>
  BY DEF Reclaim, InFree
<1>2. PICK t : t = Top.obj
  OBVIOUS
<1>3. /\ mem' = [mem EXCEPT ![t] = "absent"] /\ freed' = freed \ {t} /\ active' = active \ {t}
      /\ parent' = [parent EXCEPT ![t] = None]
      /\ gObjUpdateList' = [gObjUpdateList EXCEPT !.next[t] = None]
      /\ pool' = [m \in Pipes |-> IF m = t THEN <<>> ELSE pool[m]]
      /\ phase = "resetFree" => UNCHANGED <<gObjDeferredFreeList, i>>
      /\ phase # "resetFree" =>
           gObjDeferredFreeList' = [gObjDeferredFreeList EXCEPT ![i] = None] /\ i' = i + 1
  BY <1>2 DEF Reclaim, GiveBack
<1>4. PICK len \in Nat \ {0} : /\ len = Len(freeing) /\ DOMAIN freeing = 1 .. len
                              /\ t = freeing[len].obj
  BY <1>1, <1>2, SetUp, Stacked
<1>5. /\ \A j, k \in 1 .. len : freeing[j].obj = freeing[k].obj => j = k
      /\ InFreeing \subseteq freed \cap Live /\ phase \in Flushes \cup {"resetFree"}
  BY <1>1, <1>4, SetUp DEF FreeingInv
<1>6. t \in InFreeing /\ t \in freed /\ t \in Live /\ t \in Obj /\ t \notin Listed
  BY <1>1, <1>2, <1>5, SetUp, Stacked, Places
<1>7. /\ freeing' \in Seq(Calls) /\ Len(freeing') = len - 1 /\ DOMAIN freeing' = 1 .. (len - 1)
      /\ \A k \in 1 .. (len - 1) : freeing'[k] = freeing[k]
  BY <1>1, <1>4, SetUp, FrontCalls
<1>8. InFreeing' = InFreeing \ {t}
  <2>1. InFreeing' = {freeing'[k].obj : k \in 1 .. (len - 1)}
        /\ InFreeing = {freeing[k].obj : k \in 1 .. len}
    BY <1>4, <1>7 DEF InFreeing
  <2>2. ASSUME NEW x \in InFreeing' PROVE x \in InFreeing \ {t}
    <3>1. PICK k \in 1 .. (len - 1) : x = freeing[k].obj
      BY <1>7, <2>1
    <3>2. k \in 1 .. len /\ len \in 1 .. len /\ k # len
      OBVIOUS
    <3> QED BY <1>4, <1>5, <2>1, <3>1, <3>2
  <2>3. ASSUME NEW x \in InFreeing \ {t} PROVE x \in InFreeing'
    <3>1. PICK k \in 1 .. len : x = freeing[k].obj
      BY <2>1
    <3>2. k # len
      BY <1>4, <3>1
    <3>3. k \in 1 .. (len - 1)
      BY <3>2
    <3> QED BY <1>7, <2>1, <3>1, <3>3
  <2> QED BY <2>2, <2>3
<1>9. /\ Live' = Live \ {t} /\ Absent' = Absent \cup {t} /\ Listed' = Listed
      /\ \A o \in Obj : mem'[o] = IF o = t THEN "absent" ELSE mem[o]
      /\ mem' \in [Obj -> {"absent", "live"}]
  <2>1. mem \in [Obj -> {"absent", "live"}]
    BY SetUp DEF TypeOK
  <2>2. mem[t] = "live"
    BY <1>6 DEF Live
  <2>3. Live' = Live \ {t} /\ Absent' = Absent \cup {t}
    BY <1>3, <1>6, <2>1, <2>2 DEF Live, Absent
  <2>4. Listed' = Listed
    BY <1>1 DEF Listed
  <2> QED BY <1>3, <1>6, <2>1, <2>3, <2>4
<1>10. /\ gObjDeferredFreeList \in [0 .. (DeferredCap - 1) -> Obj \cup {None}]
       /\ gObjDeferredFreeCount \in 0 .. (DeferredCap - 1) /\ DeferredCap \in Nat /\ i \in Nat
  BY SetUp, ObjectConstants DEF TypeOK, TypeInv
<1>11. ASSUME phase # "resetFree"
       PROVE  /\ phase \in Flushes /\ freeing' = <<>> /\ len = 1
              /\ i < gObjDeferredFreeCount /\ gObjDeferredFreeList[i] = t
              /\ i \in 0 .. (gObjDeferredFreeCount - 1) /\ i \in 0 .. (DeferredCap - 1)
              /\ Top.riders => \A o \in Listed : parent[o] # t
              /\ i' = i + 1
              /\ \A k \in 0 .. (gObjDeferredFreeCount - 1) :
                   gObjDeferredFreeList'[k] = IF k = i THEN None ELSE gObjDeferredFreeList[k]
  <2>1. /\ phase \in Flushes /\ len = 1 /\ i < gObjDeferredFreeCount /\ gObjDeferredFreeList[i] = t
        /\ Top.riders => \A o \in Listed : parent[o] # t
    BY <1>1, <1>2, <1>4, <1>5, <1>11, SetUp DEF FreeingInv
  <2>2. i \in 0 .. (gObjDeferredFreeCount - 1) /\ i \in 0 .. (DeferredCap - 1)
        /\ \A k \in 0 .. (gObjDeferredFreeCount - 1) : k \in 0 .. (DeferredCap - 1)
    BY <1>10, <2>1
  <2>3. freeing' = <<>>
    BY <1>7, <2>1, EmptySeq
  <2> QED BY <1>3, <1>10, <1>11, <2>1, <2>2, <2>3
<1>12. \A j, k \in 0 .. (gObjDeferredFreeCount - 1) :
         gObjDeferredFreeList[j] = gObjDeferredFreeList[k] /\ gObjDeferredFreeList[k] # None => j = k
  BY SetUp DEF DeferInv
<1>13. Waiting' = Waiting \ {t} /\ gObjDeferredFreeList' \in [0 .. (DeferredCap - 1) -> Obj \cup {None}]
       /\ i' \in Nat
  <2>1. CASE phase = "resetFree"
    <3>1. gObjDeferredFreeCount = 0
      BY <2>1, SetUp DEF DeferInv
    <3>2. Waiting = {} /\ Waiting' = {}
      BY <1>1, <3>1 DEF Waiting
    <3> QED BY <1>3, <1>10, <2>1, <3>2
  <2>2. CASE phase # "resetFree"
    <3>1. ASSUME NEW x \in Waiting' PROVE x \in Waiting \ {t}
      <4>1. PICK k \in 0 .. (gObjDeferredFreeCount - 1) : x = gObjDeferredFreeList'[k] /\ x # None
        BY <1>1 DEF Waiting
      <4>2. k # i /\ x = gObjDeferredFreeList[k]
        BY <1>11, <2>2, <4>1
      <4>3. x # t
        BY <1>11, <1>12, <2>2, <4>1, <4>2
      <4> QED BY <4>1, <4>2, <4>3 DEF Waiting
    <3>2. ASSUME NEW x \in Waiting \ {t} PROVE x \in Waiting'
      <4>1. PICK k \in 0 .. (gObjDeferredFreeCount - 1) : x = gObjDeferredFreeList[k] /\ x # None
        BY DEF Waiting
      <4>2. x = gObjDeferredFreeList'[k]
        BY <1>11, <2>2, <3>2, <4>1
      <4> QED BY <1>1, <4>1, <4>2 DEF Waiting
    <3>3. gObjDeferredFreeList' \in [0 .. (DeferredCap - 1) -> Obj \cup {None}]
      BY <1>3, <1>10, <2>2
    <3> QED BY <1>10, <1>11, <2>2, <3>1, <3>2, <3>3
  <2> QED BY <2>1, <2>2
<1>14. /\ \A m \in Pipes : pool'[m] = IF m = t THEN <<>> ELSE pool[m]
       /\ pool' \in [Pipes -> Seq(Effects)]
  <2>1. pool \in [Pipes -> Seq(Effects)] /\ <<>> \in Seq(Effects)
    BY SetUp DEF TypeInv
  <2> QED BY <1>3, <2>1
<1>15. /\ gObjUpdateList' \in UpdateList /\ gObjUpdateList'.head = gObjUpdateList.head
       /\ \A o \in Obj : gObjUpdateList'.next[o] = IF o = t THEN None ELSE gObjUpdateList.next[o]
       /\ LinksKept(gObjUpdateList', gObjUpdateList, Listed)
       /\ Chain(gObjUpdateList') = Chain(gObjUpdateList)
       /\ parent' \in [Obj -> Obj \cup {None}] /\ \A o \in Listed : parent'[o] = parent[o]
  <2>1. gObjUpdateList \in UpdateList /\ parent \in [Obj -> Obj \cup {None}] /\ Listed \subseteq Obj
    BY SetUp, Places DEF TypeOK, UpdateList
  <2>2. /\ gObjUpdateList' \in UpdateList /\ gObjUpdateList'.head = gObjUpdateList.head
        /\ \A o \in Obj :
             gObjUpdateList'.next[o] = IF o = t THEN None ELSE gObjUpdateList.next[o]
    BY <1>3, <1>6, <2>1 DEF UpdateList
  <2>3. LinksKept(gObjUpdateList', gObjUpdateList, Listed)
    BY <1>6, <2>1, <2>2 DEF LinksKept
  <2>4. Chain(gObjUpdateList') = Chain(gObjUpdateList)
    BY <2>2, <2>3, SetUp, ChainKept
  <2>5. parent' \in [Obj -> Obj \cup {None}] /\ \A o \in Listed : parent'[o] = parent[o]
    BY <1>3, <1>6, <2>1
  <2> QED BY <2>2, <2>3, <2>4, <2>5
<1>16. TypeInv'
  <2>1. TypeOK'
    <3>1. freed' \subseteq Obj /\ active' \subseteq Effects
      BY <1>3, SetUp DEF TypeOK
    <3> QED BY <1>1, <1>9, <1>13, <1>15, <3>1, SetUp DEF TypeOK, Indices, UpdateList
  <2> QED BY <1>1, <1>7, <1>13, <1>14, <2>1, SetUp DEF TypeInv
<1>17. ArrayInv' /\ PartitionValid' /\ AbsentInv'
  <2>1. ArrayInv' /\ PartitionValid'
    BY <1>1, <1>3, <1>6, <1>9, SetUp DEF ArrayInv, PartitionValid
  <2>2. \A m \in Pipes : mem'[m] # "live" => pool'[m] = <<>>
    BY <1>9, <1>14, SetUp, ObjectConstants DEF AbsentInv
  <2>3. (freed' \cup active') \cap Absent' = {}
    BY <1>3, <1>9, SetUp DEF AbsentInv
  <2>4. \A o \in Absent' : gObjUpdateList'.next[o] = None
    BY <1>6, <1>9, <1>15, SetUp DEF AbsentInv, Absent
  <2> QED BY <2>1, <2>2, <2>3, <2>4 DEF AbsentInv
<1>18. DeferInv'
  <2>1. Waiting' \subseteq freed' \cap Live'
    BY <1>3, <1>9, <1>13, Places
  <2>2. CASE phase = "resetFree"
    BY <1>1, <1>3, <2>1, <2>2, SetUp DEF DeferInv, Flushes
  <2>3. CASE phase # "resetFree"
    <3>1. \A k \in 0 .. (gObjDeferredFreeCount - 1) : gObjDeferredFreeList[k] = None <=> k < i
      BY <1>11, <2>3, SetUp DEF DeferInv
    <3>2. i' <= gObjDeferredFreeCount
      BY <1>10, <1>11, <2>3
    <3>3. \A k \in 0 .. (gObjDeferredFreeCount - 1) : gObjDeferredFreeList'[k] = None <=> k < i'
      BY <1>10, <1>11, <2>3, <3>1
    <3>4. \A j, k \in 0 .. (gObjDeferredFreeCount - 1) :
            gObjDeferredFreeList'[j] = gObjDeferredFreeList'[k] /\ gObjDeferredFreeList'[k] # None
              => j = k
      BY <1>11, <1>12, <2>3
    <3> QED BY <1>1, <1>11, <2>1, <2>3, <3>2, <3>3, <3>4 DEF DeferInv
  <2> QED BY <2>2, <2>3
<1>19. DeferredExact'
  <2>1. ~overflowed => freed \cap Live = Waiting \cup InFreeing
    BY SetUp DEF DeferredExact, InFreeing
  <2>2. ~overflowed' => freed' \cap Live' = Waiting' \cup InFreeing'
    BY <1>1, <1>3, <1>8, <1>9, <1>13, <2>1
  <2> QED BY <2>2 DEF DeferredExact, InFreeing
<1>20. ControlInv' /\ SweepInv'
  <2>1. phase \notin Passes /\ phase # "sweep" /\ ~running
    BY <1>5, SetUp DEF Passes, Flushes, ControlInv
  <2> QED BY <1>1, <2>1, SetUp DEF ControlInv, SweepInv
<1>21. FreeingInv'
  <2>1. \A j, k \in DOMAIN freeing' : freeing'[j].obj = freeing'[k].obj => j = k
    <3>1. \A k \in 1 .. (len - 1) : k \in 1 .. len
      OBVIOUS
    <3> QED BY <1>5, <1>7, <3>1
  <2>2. InFreeing' \subseteq freed' \cap Live'
    BY <1>3, <1>5, <1>8, <1>9
  <2>3. phase' \in Flushes => freeing' = <<>>
    BY <1>1, <1>11 DEF Flushes
  <2> QED BY <1>1, <1>5, <2>1, <2>2, <2>3 DEF FreeingInv
<1>22. ParentInv'
  <2>1. ASSUME NEW o \in Listed, phase # "resetFree" PROVE parent[o] \in Live' \cup {None}
    <3>1. parent[o] \in Carriers \cup {None} /\ parent[o] \in Live \cup {None}
      BY <2>1, SetUp DEF ParentInv
    <3>2. gObjDefCaptureMode # 0
      BY <2>1, SetUp DEF ControlInv
    <3>3. parent[o] # t
      BY <1>1, <1>2, <1>6, <1>11, <2>1, <3>1, <3>2, Places
    <3> QED BY <1>9, <3>1, <3>3
  <2> QED BY <1>1, <1>9, <1>15, <2>1, SetUp DEF ParentInv
<1>23. PoolInv'
  <2>1. /\ \A m1, m2 \in Owners : InPool(m1) \cap InPool(m2) # {} => m1 = m2
        /\ \A m \in Owners : \A e \in InPool(m) \cap Listed :
             e \in Chain(gObjUpdateList) <=> e \in active
    BY SetUp DEF PoolInv
  <2>2. Owners' \subseteq Owners /\ t \notin Owners'
    <3>1. Owners' = Pipes \cap (Listed' \cup Waiting')
      BY DEF Owners
    <3> QED BY <1>6, <1>9, <1>13, <3>1 DEF Owners
  <2>3. \A m \in Pipes : m # t => InPool(m)' = InPool(m)
    BY <1>14 DEF InPool
  <2>4. \A m \in Owners' : m \in Owners /\ m # t /\ InPool(m)' = InPool(m)
    BY <2>2, <2>3 DEF Owners
  <2>5. phase # "resetFree" => \A m \in Pipes \cap Listed : \A e \in InPool(m) :
             e \in Listed /\ parent[e] = parent[m]
    <3>1. Todo = {}
      BY <1>1, NoCalls DEF Todo
    <3> QED BY <3>1, SetUp DEF PoolInv
  <2>6. phase' # "resetFree" => \A m \in Pipes \cap Listed' : \A e \in InPool(m)' :
             e \in Listed' /\ parent'[e] = parent'[m]
    BY <1>1, <1>6, <1>9, <1>15, <2>3, <2>5
  <2>7. /\ phase' \in Takings
        /\ \A m1, m2 \in Owners' : InPool(m1)' \cap InPool(m2)' # {} => m1 = m2
        /\ \A m \in Owners' : \A e \in InPool(m)' \cap Listed' :
             e \in Chain(gObjUpdateList') <=> e \in active'
    BY <1>1, <1>3, <1>5, <1>6, <1>9, <1>15, <2>1, <2>4 DEF Takings, Flushes
  <2> QED BY <2>6, <2>7 DEF PoolInv
<1>24. ResetInv'
  BY <1>1, <1>3, <1>9, SetUp DEF ResetInv
<1>25. OrderInv'
  <2>1. Listed \subseteq Live'
    BY <1>6, <1>9, Places
  <2>2. phase' \notin Passes
    BY <1>1, <1>5 DEF Flushes, Passes
  <2> QED BY <1>1, <1>9, <1>15, <2>1, <2>2, OrderOutside
<1> QED BY <1>15, <1>16, <1>17, <1>18, <1>19, <1>20, <1>21, <1>22, <1>23, <1>24, <1>25 DEF IInv

------------------------------------------------------------------------------
\* The flush is over and the reset goes on to the objects left.
LEMMA NoneWaits ==
  ASSUME IInv, phase \in Flushes, i >= gObjDeferredFreeCount
  PROVE  Waiting = {}
<1>1. /\ \A k \in 0 .. (gObjDeferredFreeCount - 1) : gObjDeferredFreeList[k] = None <=> k < i
      /\ gObjDeferredFreeCount \in Nat /\ i \in Nat
  BY SetUp DEF DeferInv, TypeInv, TypeOK
<1>2. \A k \in 0 .. (gObjDeferredFreeCount - 1) : gObjDeferredFreeList[k] = None
  BY <1>1
<1> QED BY <1>2 DEF Waiting

LEMMA ResetFlushedKeeps ==
  ASSUME IInv, ResetFlushed
  PROVE  IInv'
<1>1. /\ phase = "resetFlush" /\ phase \in Flushes /\ freeing = <<>> /\ i >= gObjDeferredFreeCount
      /\ gObjDeferredFreeCount' = 0 /\ gObjDefCaptureMode' = 0
      /\ phase' = "resetFree" /\ i' = gObjCount
      /\ UNCHANGED <<mem, freed, parent, gObjList, gObjCount, gObjUpdateList, gObjPartitionPivot,
                     gObjDeferredFreeList, overflowed, pool, active, cursor, running, n, present,
                     visited, freeing, ops>>
  BY DEF ResetFlushed, lists, pools, Flushes
<1>2. Waiting = {} /\ Waiting' = {}
  <2>1. Waiting' = {}
    BY <1>1 DEF Waiting
  <2> QED BY <1>1, <2>1, NoneWaits
<1>3. /\ Live' = Live /\ Listed' = Listed /\ Absent' = Absent /\ \A m : InPool(m)' = InPool(m)
  BY <1>1 DEF Live, Listed, Absent, InPool
<1>4. Owners' = Owners
  BY <1>2, <1>3 DEF Owners
<1>5. /\ gObjCount \in Nat /\ gObjCount <= Cardinality(Obj) /\ DeferredCap \in Nat \ {0}
      /\ \A k \in 0 .. (gObjCount - 1) : gObjList[k] \in Listed
  BY SetUp, ListedCounted, ObjectConstants
<1>6. TypeInv'
  <2>1. TypeOK'
    <3>1. 0 \in 0 .. (DeferredCap - 1)
      BY <1>5
    <3> QED BY <1>1, <3>1, SetUp DEF TypeOK, Indices
  <2> QED BY <1>1, <1>5, <2>1, SetUp DEF TypeInv, Phases
<1>7. ArrayInv' /\ AbsentInv' /\ PartitionValid'
  BY <1>1, <1>3, SetUp DEF ArrayInv, AbsentInv, PartitionValid
<1>8. DeferInv'
  BY <1>1, <1>2 DEF DeferInv, Flushes
<1>9. DeferredExact'
  BY <1>1, <1>2, <1>3, SetUp DEF DeferredExact
<1>10. ControlInv' /\ SweepInv' /\ ParentInv'
  <2>1. ~running
    BY <1>1, SetUp DEF Passes, ControlInv
  <2> QED BY <1>1, <1>3, <2>1, SetUp DEF ControlInv, SweepInv, ParentInv
<1>11. FreeingInv'
  <2>1. InFreeing' = {} /\ DOMAIN freeing' = {}
    BY <1>1, NoCalls DEF InFreeing
  <2> QED BY <1>1, <2>1 DEF FreeingInv
<1>12. PoolInv'
  <2>1. /\ phase' \in Takings
        /\ \A m1, m2 \in Owners : InPool(m1) \cap InPool(m2) # {} => m1 = m2
        /\ \A m \in Owners : \A e \in InPool(m) \cap Listed :
             e \in Chain(gObjUpdateList) <=> e \in active
    BY <1>1, SetUp DEF PoolInv, Takings
  <2> QED BY <1>1, <1>3, <1>4, <2>1 DEF PoolInv
<1>13. ResetInv'
  BY <1>1, <1>3, <1>5 DEF ResetInv
<1>14. OrderInv'
  <2>1. LinksKept(gObjUpdateList', gObjUpdateList, Listed) /\ Listed \subseteq Live'
    BY <1>1, <1>3, Places DEF LinksKept
  <2>2. phase' \notin Passes
    BY <1>1 DEF Passes
  <2> QED BY <1>1, <1>3, <2>1, <2>2, OrderOutside
<1> QED BY <1>6, <1>7, <1>8, <1>9, <1>10, <1>11, <1>12, <1>13, <1>14 DEF IInv

\* The reset looks at one more place of the array.
LEMMA ResetSkipKeeps ==
  ASSUME IInv, phase = "resetFree", freeing = <<>>, i > 0, gObjList[i - 1] \notin Live \ freed,
         SameObjects, i' = i - 1,
         UNCHANGED <<phase, cursor, running, n, present, visited, freeing, ops>>
  PROVE  IInv'
<1>1. /\ Live' = Live /\ Listed' = Listed /\ Absent' = Absent /\ Waiting' = Waiting
      /\ Owners' = Owners /\ \A m : InPool(m)' = InPool(m)
      /\ UNCHANGED <<mem, freed, parent, gObjList, gObjCount, gObjUpdateList, gObjPartitionPivot,
                  gObjDeferredFreeList, gObjDeferredFreeCount, overflowed, gObjDefCaptureMode,
                  pool, active>>
  BY SamePlaces
<1>2. i \in Nat /\ i' \in Nat
  BY SetUp DEF TypeInv
<1>3. TypeInv'
  <2>1. TypeOK'
    BY <1>1, SetUp DEF TypeOK, Indices
  <2> QED BY <1>1, <1>2, <2>1, SetUp DEF TypeInv
<1>4. ArrayInv' /\ AbsentInv' /\ PartitionValid' /\ ParentInv'
  BY <1>1, SetUp DEF ArrayInv, AbsentInv, PartitionValid, ParentInv
<1>5. DeferInv'
  BY <1>1, SetUp DEF DeferInv, Flushes
<1>6. DeferredExact' /\ ControlInv'
  BY <1>1, SetUp DEF DeferredExact, ControlInv
<1>7. FreeingInv' /\ SweepInv'
  <2>1. InFreeing' = {} /\ DOMAIN freeing' = {}
    BY NoCalls DEF InFreeing
  <2> QED BY <2>1 DEF FreeingInv, SweepInv
<1>8. PoolInv'
  BY <1>1, SetUp DEF PoolInv
<1>9. ResetInv'
  <2>1. gObjCount <= i /\ i <= Cardinality(Obj)
    BY SetUp DEF ResetInv
  <2>2. /\ gObjCount \in Nat /\ Cardinality(Obj) \in Nat
        /\ \A k \in 0 .. (gObjCount - 1) : gObjList[k] \in Listed
    BY SetUp, ListedCounted
  <2>3. gObjCount # i
    <3> SUFFICES ASSUME gObjCount = i PROVE FALSE
      OBVIOUS
    <3>1. gObjList[i - 1] \in Listed
      BY <1>2, <2>2
    <3> QED BY <3>1, Places
  <2>4. gObjCount <= i' /\ i' <= Cardinality(Obj)
    BY <1>2, <2>1, <2>2, <2>3
  <2> QED BY <1>1, <2>1, <2>4 DEF ResetInv
<1>10. OrderInv'
  <2>1. LinksKept(gObjUpdateList', gObjUpdateList, Listed) /\ Listed \subseteq Live'
    BY <1>1, Places DEF LinksKept
  <2>2. phase' \notin Passes
    BY DEF Passes
  <2> QED BY <1>1, <2>1, <2>2, OrderOutside
<1> QED BY <1>3, <1>4, <1>5, <1>6, <1>7, <1>8, <1>9, <1>10 DEF IInv

LEMMA ResetNextKeeps ==
  ASSUME IInv, ResetNext
  PROVE  IInv'
<1>1. /\ phase = "resetFree" /\ freeing = <<>> /\ i > 0 /\ i' = i - 1
      /\ UNCHANGED <<mem, parent, gObjDeferredFreeList, gObjDeferredFreeCount, overflowed,
                     gObjDefCaptureMode, pool, active, phase, cursor, running, n, present, visited>>
  BY DEF ResetNext, deferred, pools
<1>2. PICK o : o = gObjList[i - 1]
  OBVIOUS
<1>3. CASE o \notin Live \ freed /\ UNCHANGED <<freed, lists, freeing, ops>>
  <2>1. SameObjects
    BY <1>1, <1>3 DEF SameObjects, lists
  <2> QED BY <1>1, <1>2, <1>3, <2>1, ResetSkipKeeps
<1>4. CASE o \in Live \ freed /\ Unlist(o) /\ Begin(o, <<>>)
  <2>1. i \in Nat /\ gObjCount \in Nat /\ gObjCount <= i
    BY <1>1, SetUp DEF TypeInv, TypeOK, ResetInv
  <2>2. o \in Listed
    BY <1>4, Places
  <2>3. i' \in Nat /\ gObjCount - 1 <= i' /\ i' <= i
    BY <1>1, <2>1
  <2>4. /\ <<>> \in Seq(Calls) /\ Len(<<>>) = Len(freeing)
        /\ \A k \in DOMAIN freeing : <<>>[k].obj = freeing[k].obj
    BY <1>1, NoCalls
  <2> QED BY <1>1, <1>4, <2>2, <2>3, <2>4, ResetUnlists
<1> QED BY <1>2, <1>3, <1>4 DEF ResetNext

------------------------------------------------------------------------------
\* At the end of a frame or of a reset nothing waits, and the lists stay.
LEMMA LastKeeps ==
  ASSUME IInv, phase \in {"flush", "resetFree"}, phase' = "game", Waiting = {},
         freeing = <<>>, freeing' = freeing, gObjDeferredFreeCount' = 0, gObjDefCaptureMode' = 2,
         i' = 0, ops' \in Nat, phase = "resetFree" => gObjCount = 0,
         gObjCount' = gObjCount, gObjList' \in [Indices -> Obj \cup {None}],
         \A k \in 0 .. (gObjCount - 1) : gObjList'[k] = gObjList[k],
         gObjPartitionPivot' \in {0, gObjPartitionPivot},
         \/ gObjUpdateList' = gObjUpdateList
         \/ (phase = "resetFree" /\ gObjUpdateList' = [gObjUpdateList EXCEPT !.head = None]),
         UNCHANGED <<mem, freed, parent, gObjDeferredFreeList, overflowed, pool, active, cursor,
                     running, n, present, visited>>
  PROVE  IInv'
<1>1. /\ Live' = Live /\ Absent' = Absent /\ Listed' = Listed /\ Waiting' = {}
      /\ \A m : InPool(m)' = InPool(m)
  BY DEF Live, Absent, Listed, Waiting, InPool
<1>2. /\ gObjCount \in Nat /\ DeferredCap \in Nat \ {0} /\ gObjCount \in 0 .. Cardinality(Obj)
      /\ phase = "resetFree" => Listed = {}
  <2>1. phase = "resetFree" => Listed = {}
    BY DEF Listed
  <2> QED BY <2>1, SetUp, ListedCounted, ObjectConstants DEF TypeOK
<1>3. gObjUpdateList' = gObjUpdateList
  <2>1. gObjUpdateList \in UpdateList /\ gObjUpdateList.head \in Chain(gObjUpdateList) \cup {None}
    BY SetUp, ListOrdered
  <2>2. phase = "resetFree" => gObjUpdateList.head = None
    BY <1>2, <2>1, Places
  <2> QED BY <2>1, <2>2 DEF UpdateList
<1>4. TypeInv'
  <2>1. TypeOK'
    <3>1. gObjDeferredFreeCount' \in 0 .. (DeferredCap - 1)
      BY <1>2
    <3>2. gObjPartitionPivot' \in 0 .. gObjCount'
      BY <1>2, SetUp DEF TypeOK
    <3> QED BY <1>2, <1>3, <3>1, <3>2, SetUp DEF TypeOK
  <2> QED BY <2>1, SetUp DEF TypeInv, Phases
<1>5. ArrayInv' /\ AbsentInv'
  <2>1. OneEach(gObjList', gObjCount')
    BY SetUp DEF ArrayInv, OneEach
  <2> QED BY <1>1, <1>3, <2>1, SetUp DEF ArrayInv, AbsentInv
<1>6. DeferInv'
  BY <1>1 DEF DeferInv, Flushes
<1>7. DeferredExact'
  <2>1. InFreeing = {} /\ InFreeing' = {}
    BY NoCalls DEF InFreeing
  <2>2. ~overflowed => freed \cap Live = Waiting \cup InFreeing
    BY SetUp DEF DeferredExact, InFreeing
  <2>3. ~overflowed' => freed' \cap Live' = Waiting' \cup InFreeing'
    BY <1>1, <2>1, <2>2
  <2> QED BY <2>3 DEF DeferredExact, InFreeing
<1>8. ControlInv' /\ SweepInv' /\ ResetInv'
  <2>1. ~running
    BY SetUp DEF Passes, ControlInv
  <2> QED BY <2>1 DEF ControlInv, SweepInv, ResetInv
<1>9. FreeingInv'
  <2>1. InFreeing' = {} /\ DOMAIN freeing' = {}
    BY NoCalls DEF InFreeing
  <2> QED BY <2>1 DEF FreeingInv, Flushes
<1>10. ParentInv'
  <2>1. ASSUME NEW o \in Listed PROVE parent[o] \in Carriers \cup {None} /\ parent[o] \in Live \cup {None}
    BY <1>2, <2>1, SetUp DEF ParentInv
  <2> QED BY <1>1, <2>1 DEF ParentInv
<1>11. PoolInv'
  <2>1. /\ \A m1, m2 \in Owners : InPool(m1) \cap InPool(m2) # {} => m1 = m2
        /\ \A m \in Owners : \A e \in InPool(m) \cap Listed :
             e \in Chain(gObjUpdateList) <=> e \in active
    BY SetUp DEF PoolInv
  <2>2. Owners = Pipes \cap Listed /\ Owners' = Pipes \cap Listed
    BY <1>1 DEF Owners
  <2>3. \A m \in Pipes \cap Listed : \A e \in InPool(m) : e \in Listed /\ parent[e] = parent[m]
    BY <1>2, SetUp DEF PoolInv
  <2>4. \A m \in Pipes \cap Listed : InPool(m) \cap Absent = {}
    BY <2>3, Places
  <2> QED BY <1>1, <1>3, <2>1, <2>2, <2>3, <2>4 DEF PoolInv
<1>12. PartitionValid'
  BY SetUp DEF PartitionValid
<1>13. OrderInv'
  <2>1. Listed \subseteq Live' /\ LinksKept(gObjUpdateList', gObjUpdateList, Listed)
    BY <1>1, <1>3, Places DEF LinksKept
  <2>2. phase' \notin Passes
    BY DEF Passes
  <2> QED BY <1>1, <1>3, <2>1, <2>2, OrderOutside
<1> QED BY <1>4, <1>5, <1>6, <1>7, <1>8, <1>9, <1>10, <1>11, <1>12, <1>13 DEF IInv

LEMMA EndKeeps ==
  ASSUME IInv, FlushEnd \/ ResetEnd
  PROVE  IInv'
<1>1. CASE FlushEnd
  <2>1. /\ phase = "flush" /\ phase \in Flushes /\ freeing = <<>> /\ i >= gObjDeferredFreeCount
        /\ gObjDeferredFreeCount' = 0 /\ phase' = "game" /\ i' = 0 /\ ops' = 0
        /\ UNCHANGED <<mem, freed, parent, gObjList, gObjCount, gObjUpdateList, gObjPartitionPivot,
                       gObjDeferredFreeList, overflowed, gObjDefCaptureMode, pool, active, cursor,
                       running, n, present, visited, freeing>>
    BY <1>1 DEF FlushEnd, Flushes, lists, pools
  <2>2. Waiting = {}
    BY <2>1, NoneWaits
  <2>3. gObjDefCaptureMode = 2 /\ gObjList \in [Indices -> Obj \cup {None}]
    BY <2>1, SetUp DEF ControlInv, TypeInv, TypeOK
  <2>4. gObjDefCaptureMode' = 2 /\ gObjList' \in [Indices -> Obj \cup {None}] /\ ops' \in Nat
        /\ phase \in {"flush", "resetFree"} /\ phase # "resetFree"
        /\ gObjPartitionPivot' \in {0, gObjPartitionPivot}
        /\ \A k \in 0 .. (gObjCount - 1) : gObjList'[k] = gObjList[k]
    BY <2>1, <2>3 DEF Indices
  <2> QED BY <2>1, <2>2, <2>4, LastKeeps
<1>2. CASE ResetEnd
  <2>1. /\ phase = "resetFree" /\ freeing = <<>> /\ i = 0
        /\ gObjDefCaptureMode' = 2
        /\ gObjCount' = 0 /\ gObjDeferredFreeCount' = 0 /\ gObjPartitionPivot' = 0
        /\ gObjList' = [k \in Indices |-> None] /\ phase' = "game"
        /\ gObjUpdateList' = [gObjUpdateList EXCEPT !.head = None]
        /\ UNCHANGED <<mem, freed, parent, gObjDeferredFreeList, overflowed, pool, active, cursor,
                       running, i, n, present, visited, freeing, ops>>
    BY <1>2 DEF ResetEnd, scan, pools
  <2>2. gObjCount = 0
    <3>1. gObjCount <= i /\ gObjCount \in Nat
      BY <2>1, SetUp, ListedCounted DEF ResetInv
    <3> QED BY <2>1, <3>1
  <2>3. Waiting = {}
    <3>1. gObjDeferredFreeCount = 0
      BY <2>1, SetUp DEF DeferInv
    <3> QED BY <3>1 DEF Waiting
  <2>4. gObjList' \in [Indices -> Obj \cup {None}]
        /\ phase \in {"flush", "resetFree"} /\ i' = 0
        /\ gObjPartitionPivot' \in {0, gObjPartitionPivot}
        /\ \A k \in 0 .. (gObjCount - 1) : gObjList'[k] = gObjList[k]
    BY <2>1, <2>2 DEF Indices
  <2>5. ops' \in Nat
    BY <2>1, SetUp DEF TypeInv
  <2> QED BY <2>1, <2>2, <2>3, <2>4, <2>5, LastKeeps
<1> QED BY <1>1, <1>2

------------------------------------------------------------------------------
LEMMA InvInit ==
  ASSUME Init
  PROVE  IInv
<1>1. /\ mem = [o \in Obj |-> "absent"] /\ freed = {} /\ parent = [o \in Obj |-> None]
      /\ gObjList = [k \in Indices |-> None] /\ gObjCount = 0
      /\ gObjUpdateList = [head |-> None, next |-> [o \in Obj |-> None]]
      /\ gObjPartitionPivot = 0
      /\ gObjDeferredFreeList = [k \in 0 .. (DeferredCap - 1) |-> None]
      /\ gObjDeferredFreeCount = 0 /\ overflowed = FALSE /\ gObjDefCaptureMode = 2
      /\ pool = [m \in Pipes |-> <<>>] /\ active = {} /\ phase = "game" /\ cursor = None
      /\ running = FALSE /\ i = 0 /\ n = 0 /\ present = {} /\ visited = {}
      /\ freeing = <<>> /\ ops = 0
  BY DEF Init
<1>2. Listed = {} /\ Waiting = {} /\ Live = {} /\ InFreeing = {} /\ Absent = Obj
  BY <1>1, NoCalls DEF Listed, Waiting, Live, InFreeing, Absent
<1>3. Cardinality(Obj) \in Nat /\ DeferredCap \in Nat \ {0}
  BY ObjectConstants, FS_CardinalityType
<1>4. gObjUpdateList \in UpdateList
  BY <1>1 DEF UpdateList
<1>5. TypeInv
  <2>1. 0 \in 0 .. Cardinality(Obj) /\ 0 \in 0 .. (DeferredCap - 1) /\ 0 \in 0 .. 0
    BY <1>3
  <2>2. TypeOK
    BY <1>1, <1>4, <2>1 DEF TypeOK, UpdateList
  <2>3. <<>> \in Seq(Calls) /\ <<>> \in Seq(Effects)
    OBVIOUS
  <2>4. running \in BOOLEAN /\ overflowed \in BOOLEAN
    BY <1>1, Zenon
  <2> QED BY <1>1, <2>2, <2>3, <2>4 DEF TypeInv, Phases
<1>6. ArrayInv /\ AbsentInv /\ PartitionValid
  BY <1>1, <1>2 DEF ArrayInv, AbsentInv, PartitionValid, OneEach
<1>7. DeferInv
  BY <1>1, <1>2 DEF DeferInv, Flushes
<1>8. DeferredExact /\ ParentInv
  BY <1>1, <1>2, NoCalls DEF DeferredExact, ParentInv
<1>9. ControlInv
  <2>1. ~running
    BY <1>1, Zenon
  <2> QED BY <1>1, <2>1 DEF ControlInv
<1>10. FreeingInv
  <2>1. DOMAIN freeing = {}
    BY <1>1, NoCalls
  <2> QED BY <1>1, <1>2, <2>1 DEF FreeingInv, Flushes
<1>11. PoolInv
  <2>1. Owners = {}
    BY <1>2 DEF Owners
  <2> QED BY <1>2, <2>1 DEF PoolInv
<1>12. ResetInv /\ SweepInv
  BY <1>1 DEF ResetInv, SweepInv
<1>13. OrderInv
  <2>1. PICK rank : rank = [o \in Obj |-> 0]
    OBVIOUS
  <2>2. rank \in Ranks
    <3>1. 1 \in Nat /\ \A o \in Obj : rank[o] < 1
      BY <2>1
    <3> QED BY <2>1, <3>1 DEF Ranks
  <2>3. Ranked(gObjUpdateList, {}, rank) /\ SlotOrdered({}, rank) /\ phase \notin Passes
    BY <1>1 DEF Ranked, SlotOrdered, Passes
  <2> QED BY <2>2, <2>3 DEF OrderInv
<1> QED BY <1>5, <1>6, <1>7, <1>8, <1>9, <1>10, <1>11, <1>12, <1>13 DEF IInv

LEMMA StutterKeeps ==
  ASSUME IInv, UNCHANGED vars
  PROVE  IInv'
<1>1. SameObjects /\ UNCHANGED <<phase, cursor, running, i, n, present, visited, freeing, ops>>
  BY DEF vars, lists, deferred, pools, scan, SameObjects
<1>2. /\ Live' = Live /\ Listed' = Listed /\ Absent' = Absent /\ Waiting' = Waiting
      /\ Owners' = Owners /\ \A m : InPool(m)' = InPool(m)
      /\ UNCHANGED <<mem, freed, parent, gObjList, gObjCount, gObjUpdateList, gObjPartitionPivot,
                  gObjDeferredFreeList, gObjDeferredFreeCount, overflowed, gObjDefCaptureMode,
                  pool, active>>
  BY <1>1, SamePlaces
<1>3. TypeInv'
  <2>1. TypeOK'
    BY <1>1, <1>2, SetUp DEF TypeOK, Indices
  <2> QED BY <1>1, <1>2, <2>1, SetUp DEF TypeInv
<1>4. ArrayInv' /\ AbsentInv' /\ PartitionValid' /\ ParentInv'
  BY <1>1, <1>2, SetUp DEF ArrayInv, AbsentInv, PartitionValid, ParentInv
<1>5. DeferInv'
  BY <1>1, <1>2, SetUp DEF DeferInv
<1>6. DeferredExact' /\ ControlInv'
  BY <1>1, <1>2, SetUp DEF DeferredExact, ControlInv
<1>7. ResetInv' /\ SweepInv'
  BY <1>1, <1>2, SetUp DEF ResetInv, SweepInv
<1>8. Top' = Top
  BY <1>1 DEF Top, Last
<1>9. Todo' = Todo /\ InFreeing' = InFreeing
  BY <1>1, <1>8 DEF Todo, InFreeing
<1>10. FreeingInv'
  BY <1>1, <1>2, <1>8, <1>9, SetUp DEF FreeingInv
<1>11. PoolInv'
  BY <1>1, <1>2, <1>9, SetUp DEF PoolInv
<1>12. OrderInv'
  <2>1. PICK D \in SUBSET Live, C \in SUBSET Listed, rank \in Ranks :
          /\ C \subseteq D
          /\ Ranked(gObjUpdateList, C, rank)
          /\ SlotOrdered(D, rank)
          /\ phase \in Passes => Passing(D, C, rank)
    BY SetUp DEF OrderInv
  <2>2. phase' \in Passes => Passing(D, C, rank)'
    BY <1>1, <1>2, <2>1 DEF Passing
  <2> QED BY <1>1, <1>2, <2>1, <2>2 DEF OrderInv
<1> QED BY <1>3, <1>4, <1>5, <1>6, <1>7, <1>10, <1>11, <1>12 DEF IInv

LEMMA InvNext ==
  ASSUME IInv, [Next]_vars, ~FreesGarbage
  PROVE  IInv'
<1>1. ASSUME NEW o \in Obj, NEW par \in {None} \cup (Carriers \cap Live), objSetupObject(o, par)
      PROVE  IInv'
  BY <1>1, SetupKeeps
<1>2. ASSUME NEW o \in Obj, Obj_FreeObject(o) PROVE IInv'
  BY <1>2, FreeObjectKeeps
<1>3. CASE Park
  BY <1>3, ParkKeeps
<1>4. ASSUME NEW m \in Pipes, ReuseEffect(m) PROVE IInv'
  BY <1>4, ReuseEffectKeeps
<1>5. ASSUME NEW m \in Pipes, NEW e \in Effects, NewEffect(m, e) PROVE IInv'
  BY <1>5, NewEffectKeeps
<1>6. CASE firepipe_releaseEffectObject
  BY <1>6, ReleaseKeeps
<1>7. CASE StartUpdate \/ StartHit
  <2>1. CASE StartUpdate
    <3>1. "update" \in Passes /\ phase = "game" /\ StartPass("update")
      BY <2>1 DEF StartUpdate, Passes
    <3> QED BY <3>1, StartPassKeeps
  <2>2. CASE StartHit
    <3>1. "hit" \in Passes /\ phase = "update" /\ StartPass("hit")
      BY <2>2 DEF StartHit, Passes
    <3> QED BY <3>1, StartPassKeeps
  <2> QED BY <1>7, <2>1, <2>2
<1>8. CASE Advance
  BY <1>8, AdvanceKeeps
<1>9. CASE EndPasses \/ EndSweep \/ StartSweep \/ SweepKeep
           \/ Obj_FlushDeferredFreeList \/ Obj_ResetObjectSystem
  BY <1>9, ScanKeeps
<1>10. CASE SweepUnload
  BY <1>10, SweepUnloadKeeps
<1>11. CASE FlushNext
  BY <1>11, FlushNextKeeps
<1>12. CASE FlushEnd \/ ResetEnd
  BY <1>12, EndKeeps
<1>13. CASE FreeNext
  BY <1>13, FreeNextKeeps
<1>14. CASE FreeRiders
  BY <1>14, FreeRidersKeeps
<1>15. CASE Reclaim
  BY <1>15, ReclaimKeeps
<1>16. CASE ResetFlushed
  BY <1>16, ResetFlushedKeeps
<1>17. CASE ResetNext
  BY <1>17, ResetNextKeeps
<1>18. CASE ObjList_PartitionForRender
  BY <1>18, PartitionKeepsAll
<1>19. CASE UNCHANGED vars
  BY <1>19, StutterKeeps
<1> QED
  BY <1>1, <1>2, <1>3, <1>4, <1>5, <1>6, <1>7, <1>8, <1>9, <1>10, <1>11, <1>12, <1>13, <1>14,
     <1>15, <1>16, <1>17, <1>18, <1>19 DEF Next, Callbacks, Engine

------------------------------------------------------------------------------
\* What the properties say of a state, from the invariant.
LEMMA InvAgrees ==
  ASSUME IInv
  PROVE  ListsAgree
<1>1. ArraySound
  BY SetUp, ListedCounted DEF ArraySound, ArrayInv
<1>2. ChainSound
  <2>1. /\ Nth(gObjUpdateList)[gObjCount] = None
        /\ Chain(gObjUpdateList) \subseteq Listed
        /\ \A o \in Chain(gObjUpdateList) :
             gObjUpdateList.next[o] # None => Slot[o] >= Slot[gObjUpdateList.next[o]]
    BY SetUp, ListOrdered
  <2>2. \A m \in Pipes \cap Listed : \A e \in InPool(m) \cap Listed :
          e \in Chain(gObjUpdateList) <=> e \in active
    BY SetUp DEF PoolInv, Owners
  <2> QED BY <2>1, <2>2 DEF ChainSound
<1> QED BY <1>1, <1>2, SetUp DEF ListsAgree

LEMMA InvReclaims ==
  ASSUME IInv
  PROVE  NothingReclaimedInUse
<1>1. Chain(gObjUpdateList) \cup Waiting \subseteq Live
  BY Places
<1>2. {freeing[k].obj : k \in DOMAIN freeing} \subseteq Live
  BY SetUp DEF FreeingInv, InFreeing
<1>3. ASSUME phase \in Passes PROVE cursor \in Live \cup {None}
  <2>1. PICK D \in SUBSET Live, C \in SUBSET Listed, rank \in Ranks : Passing(D, C, rank)
    BY <1>3, SetUp DEF OrderInv
  <2> QED BY <2>1 DEF Passing
<1>4. ASSUME phase # "resetFree"
      PROVE  /\ \A o \in Listed : parent[o] \in Live \cup {None}
             /\ \A m \in Pipes \cap Listed : \A e \in InPool(m) : e \in Live
  BY <1>4, SetUp, Places DEF ParentInv, PoolInv
<1> QED BY <1>1, <1>2, <1>3, <1>4 DEF NothingReclaimedInUse, Passes

LEMMA InvReaches ==
  ASSUME IInv
  PROVE  ScansReachEveryone
<1>1. ASSUME phase \in Passes, cursor = None
      PROVE  present \cap Chain(gObjUpdateList) \subseteq visited
  <2>1. PICK D \in SUBSET Live, C \in SUBSET Listed, rank \in Ranks :
          Ranked(gObjUpdateList, C, rank) /\ Passing(D, C, rank)
    BY <1>1, SetUp DEF OrderInv
  <2>2. gObjUpdateList \in UpdateList /\ C \in SUBSET Obj
    BY SetUp, ListOrdered, Places
  <2>3. Chain(gObjUpdateList) = C
    BY <2>1, <2>2, ChainOf
  <2> QED BY <1>1, <2>1, <2>3 DEF Passing
<1>2. ASSUME phase = "sweep", i >= n
      PROVE  present \cap Listed \subseteq visited
  <2>1. i \in Nat /\ n \in Nat
    BY SetUp DEF TypeInv
  <2>2. {gObjList[k] : k \in i .. (n - 1)} = {}
    BY <1>2, <2>1
  <2> QED BY <1>2, <2>2, SetUp DEF SweepInv
<1>3. ASSUME phase = "resetFree", i = 0 PROVE gObjCount = 0
  BY <1>3, SetUp, ListedCounted DEF ResetInv
<1> QED BY <1>1, <1>2, <1>3 DEF ScansReachEveryone, Passes

\* Where a record given back was taken for an object the program is at an end:
\* what the properties say was true up to there.
Promised ==
  TypeOK /\ ListsAgree /\ NothingReclaimedInUse /\ DeferredExact /\ PartitionValid
  /\ ScansReachEveryone
Stuck == phase = "undefined" /\ ~running /\ Promised
WholeInv == IInv \/ Stuck

LEMMA InvPromises ==
  ASSUME IInv
  PROVE  Promised
BY InvAgrees, InvReclaims, InvReaches, SetUp DEF Promised

LEMMA GetsStuck ==
  ASSUME IInv, FreesGarbage
  PROVE  Stuck' /\ phase \notin Passes
<1>1. /\ phase' = "undefined" /\ Promised
      /\ UNCHANGED <<mem, freed, parent, gObjList, gObjCount, gObjUpdateList, gObjPartitionPivot,
                     gObjDeferredFreeList, gObjDeferredFreeCount, overflowed, gObjDefCaptureMode,
                     pool, active, cursor, running, i, n, present, visited, freeing, ops>>
  BY InvPromises DEF FreesGarbage, lists, deferred, pools, scan
<1>2. phase \notin Passes
  <2>1. InFree => phase \notin Passes
    BY SetUp DEF InFree, FreeingInv, Flushes, Passes
  <2> QED BY <2>1 DEF FreesGarbage, Passes
<1>3. ~running
  BY <1>2, SetUp DEF ControlInv
<1>4. Live' = Live /\ Listed' = Listed /\ Waiting' = Waiting /\ \A m : InPool(m)' = InPool(m)
  BY <1>1 DEF Live, Listed, Waiting, InPool
<1>5. TypeOK' /\ DeferredExact' /\ PartitionValid' /\ ScansReachEveryone'
  BY <1>1, <1>4 DEF Promised, TypeOK, Indices, DeferredExact, PartitionValid, ScansReachEveryone
<1>6. ListsAgree'
  <2>1. Nth(gObjUpdateList)' = Nth(gObjUpdateList) /\ Chain(gObjUpdateList)' = Chain(gObjUpdateList)
    BY <1>1
  <2>2. ArraySound' /\ ChainSound'
    BY <1>1, <1>4, <2>1 DEF Promised, ListsAgree, ArraySound, ChainSound
  <2> QED BY <1>5, <2>2 DEF ListsAgree
<1>7. NothingReclaimedInUse'
  BY <1>1, <1>4 DEF Promised, NothingReclaimedInUse
<1> QED BY <1>1, <1>2, <1>3, <1>5, <1>6, <1>7 DEF Stuck, Promised

LEMMA StaysStuck ==
  ASSUME Stuck, [Next]_vars
  PROVE  UNCHANGED vars
<1>1. phase = "undefined" /\ ~running /\ ~MayCall /\ ~InFree
  BY DEF Stuck, MayCall, InFree
<1>2. ~Callbacks
  BY <1>1 DEF Callbacks, objSetupObject, Obj_FreeObject, OtherCode, Park, ReuseEffect, NewEffect,
     firepipe_releaseEffectObject
<1>3. ~(StartUpdate \/ Advance \/ StartHit \/ EndPasses \/ StartSweep \/ SweepKeep \/ SweepUnload
        \/ EndSweep)
  BY <1>1 DEF StartUpdate, Advance, StartHit, EndPasses, StartSweep, SweepKeep, SweepUnload, EndSweep
<1>4. ~(Obj_FlushDeferredFreeList \/ FlushNext \/ FlushEnd \/ FreeNext \/ FreeRiders \/ Reclaim
        \/ ResetFlushed \/ ResetNext \/ ResetEnd \/ FreesGarbage)
  BY <1>1 DEF Obj_FlushDeferredFreeList, FlushNext, FlushEnd, FreeNext, FreeRiders, Reclaim,
     ResetFlushed, ResetNext, ResetEnd, FreesGarbage
<1>5. ~ObjList_PartitionForRender /\ ~Obj_ResetObjectSystem
  BY <1>1 DEF ObjList_PartitionForRender, Obj_ResetObjectSystem
<1> QED BY <1>2, <1>3, <1>4, <1>5 DEF Next, Engine

LEMMA WholeNext ==
  ASSUME WholeInv, [Next]_vars
  PROVE  WholeInv'
<1>1. CASE IInv /\ FreesGarbage
  BY <1>1, GetsStuck DEF WholeInv
<1>2. CASE IInv /\ ~FreesGarbage
  BY <1>2, InvNext DEF WholeInv
<1>3. CASE Stuck
  <2>1. UNCHANGED <<mem, freed, parent, gObjList, gObjCount, gObjUpdateList, gObjPartitionPivot,
                    gObjDeferredFreeList, gObjDeferredFreeCount, overflowed, gObjDefCaptureMode,
                    pool, active, phase, cursor, running, i, n, present, visited, freeing, ops>>
    BY <1>3, StaysStuck DEF vars, lists, deferred, pools, scan
  <2>2. Live' = Live /\ Listed' = Listed /\ Waiting' = Waiting /\ \A m : InPool(m)' = InPool(m)
    BY <2>1 DEF Live, Listed, Waiting, InPool
  <2>3. TypeOK' /\ DeferredExact' /\ PartitionValid' /\ ScansReachEveryone'
    BY <1>3, <2>1, <2>2
    DEF Stuck, Promised, TypeOK, Indices, DeferredExact, PartitionValid, ScansReachEveryone
  <2>4. ListsAgree' /\ NothingReclaimedInUse'
    BY <1>3, <2>1, <2>2, <2>3
    DEF Stuck, Promised, ListsAgree, ArraySound, ChainSound, NothingReclaimedInUse
  <2> QED BY <1>3, <2>1, <2>3, <2>4 DEF WholeInv, Stuck, Promised
<1> QED BY <1>1, <1>2, <1>3 DEF WholeInv

LEMMA AlwaysInv == Spec => []WholeInv
<1>1. Init => WholeInv
  BY InvInit DEF WholeInv
<1> QED BY <1>1, WholeNext, PTL DEF Spec

LEMMA AlwaysPromised == Spec => []Promised
<1>1. WholeInv => Promised
  BY InvPromises DEF WholeInv, Stuck
<1> QED BY <1>1, AlwaysInv, PTL

------------------------------------------------------------------------------
\* The variables of object.c always have their types, and the counts and indices
\* stay within the arrays.
THEOREM ObjectTypesCorrect == Spec => []TypeOK
<1>1. Promised => TypeOK
  BY DEF Promised
<1> QED BY <1>1, AlwaysPromised, PTL

\* gObjList holds what was set up and not freed, each once; the update list ends,
\* is ordered and holds none but these; and the effects in it are those in use.
THEOREM ListsAlwaysAgree == Spec => []ListsAgree
<1>1. Promised => ListsAgree
  BY DEF Promised
<1> QED BY <1>1, AlwaysPromised, PTL

\* No list, pass, pool or parent points at memory that was given back, and
\* objFreeObjdef is never called for it.
THEOREM NeverReclaimedInUse == Spec => []NothingReclaimedInUse
<1>1. Promised => NothingReclaimedInUse
  BY DEF Promised
<1> QED BY <1>1, AlwaysPromised, PTL

\* Unless the deferred list was ever full, what was freed and is in memory waits
\* in it or is being taken apart: Obj_FreeObject and the flush lose none.
THEOREM DeferredAlwaysExact == Spec => []DeferredExact
<1>1. Promised => DeferredExact
  BY DEF Promised
<1> QED BY <1>1, AlwaysPromised, PTL

\* The pivot of ObjList_PartitionForRender, as long as it is kept, divides the
\* objects with models from those without.
THEOREM PartitionAlwaysValid == Spec => []PartitionValid
<1>1. Promised => PartitionValid
  BY DEF Promised
<1> QED BY <1>1, AlwaysPromised, PTL

\* Whoever is taken out, parked and put back under a pass, the unloading or the
\* reset, none that was there and still is is passed over.
THEOREM EveryoneReached == Spec => []ScansReachEveryone
<1>1. Promised => ScansReachEveryone
  BY DEF Promised
<1> QED BY <1>1, AlwaysPromised, PTL

------------------------------------------------------------------------------
LEMMA CursorMoves ==
  ASSUME IInv, [Next]_vars, phase' = phase, phase \in {"update", "hit"}, cursor' # cursor
  PROVE  cursor' \notin visited
<1>1. CASE Advance
  BY <1>1, Advanced
<1>2. ~StartUpdate /\ ~StartHit
  BY DEF StartUpdate, StartHit, StartPass
<1>3. CASE ~Advance
  BY <1>2, <1>3 DEF Next, Callbacks, Engine, objSetupObject, Called, scan, Obj_FreeObject, Park,
     ReuseEffect, NewEffect, firepipe_releaseEffectObject, EndPasses, ToLate, StartSweep,
     SweepKeep, SweepUnload, EndSweep, Obj_FlushDeferredFreeList, Obj_ResetObjectSystem, Flush,
     FlushNext, FlushEnd, FreeNext, FreeRiders, Reclaim, ResetFlushed, ResetNext, ResetEnd,
     FreesGarbage, ObjList_PartitionForRender, vars
<1> QED BY <1>1, <1>3

\* A pass comes to an object once (Obj_UpdateAllObjects walks on from the link its
\* object has when the callback is over).
THEOREM AlwaysUpdatedOnce == Spec => UpdatedOnce
<1>1. WholeInv /\ [Next]_vars
        => [phase' = phase /\ phase \in {"update", "hit"} /\ cursor' # cursor
              => cursor' \notin visited]_vars
  BY CursorMoves, StaysStuck DEF WholeInv
<1> QED BY <1>1, AlwaysInv, PTL DEF Spec, UpdatedOnce

------------------------------------------------------------------------------
\* What a step does to the life of objects.
Kept == mem' = mem /\ freed' = freed
Comes(o) == /\ mem[o] = "absent" /\ o \notin freed /\ mem' = [mem EXCEPT ![o] = "live"]
            /\ freed' = freed /\ phase' = phase
Leaves(o) == o \in Live \ freed /\ mem' = mem /\ freed' = freed \cup {o} /\ phase' = phase
Expires(o) == /\ o \in freed \cap Live /\ mem' = [mem EXCEPT ![o] = "absent"]
              /\ freed' = freed \ {o} /\ phase' = phase /\ phase \notin Passes

LEMMA Unlists ==
  ASSUME IInv, NEW o \in Listed, Unlist(o) \/ FreeLater(o), mem' = mem, phase' = phase
  PROVE  Leaves(o)
BY Places DEF Unlist, FreeLater, Leaves

LEMMA Registers ==
  ASSUME IInv, NEW o \in Obj, NEW par, Register(o, par), phase' = phase
  PROVE  Comes(o)
<1>1. o \notin freed
  BY SetUp, RegisterArray
<1> QED BY <1>1 DEF Register, Comes

LEMMA StepTells ==
  ASSUME IInv, Next
  PROVE  Kept \/ \E o \in Obj : Comes(o) \/ Leaves(o) \/ Expires(o)
<1>1. ASSUME NEW o \in Obj, NEW par, objSetupObject(o, par) PROVE Comes(o)
  BY <1>1, Registers DEF objSetupObject, Called
<1>2. ASSUME NEW o \in Obj, Obj_FreeObject(o) PROVE Leaves(o)
  <2>1. o \in Listed
    BY <1>2, Places DEF Obj_FreeObject
  <2> QED BY <1>2, <2>1, Unlists DEF Obj_FreeObject, Called
<1>3. ASSUME NEW m \in Pipes, NEW e \in Effects, NewEffect(m, e) PROVE Comes(e)
  BY <1>3, Registers, Places DEF NewEffect, Called
<1>4. CASE firepipe_releaseEffectObject
  <2>1. CASE cursor \in active
    BY <1>4, <2>1 DEF firepipe_releaseEffectObject, Kept
  <2>2. CASE cursor \notin active
    <3>1. running
      BY <1>4 DEF firepipe_releaseEffectObject, MayCall
    <3>2. cursor \in Listed
      BY <1>4, <3>1, SetUp, Places DEF firepipe_releaseEffectObject, ControlInv
    <3>3. FreeLater(cursor) /\ mem' = mem /\ phase' = phase
      BY <1>4, <2>2 DEF firepipe_releaseEffectObject
    <3> QED BY <3>2, <3>3, Unlists, Places
  <2> QED BY <2>1, <2>2
<1>5. CASE SweepUnload
  <2>1. i < n /\ i \in Nat /\ n = gObjCount /\ gObjCount \in Nat
    BY <1>5, SetUp DEF SweepUnload, SweepInv, TypeInv, TypeOK
  <2>2. gObjList[i] \in Listed
    <3>1. i \in 0 .. (gObjCount - 1)
      BY <2>1
    <3> QED BY <3>1, SetUp, ListedCounted
  <2>3. FreeLater(gObjList[i]) /\ mem' = mem /\ phase' = phase
    BY <1>5 DEF SweepUnload
  <2> QED BY <2>2, <2>3, Unlists, Places
<1>6. CASE FreeNext
  <2>1. PICK o : o = Head(Top.todo)
    OBVIOUS
  <2>2. /\ mem' = mem /\ phase' = phase
        /\ freed' = freed \/ (o \in Live \ freed /\ (FreeLater(o) \/ Unlist(o)))
    BY <1>6, <2>1 DEF FreeNext
  <2>3. CASE freed' = freed
    BY <2>2, <2>3 DEF Kept
  <2>4. CASE o \in Live \ freed /\ (FreeLater(o) \/ Unlist(o))
    <3>1. o \in Listed
      BY <2>4, Places
    <3> QED BY <2>2, <2>4, <3>1, Unlists, Places
  <2> QED BY <2>2, <2>3, <2>4
<1>7. CASE Reclaim
  <2>1. /\ freeing # <<>> /\ mem' = [mem EXCEPT ![Top.obj] = "absent"]
        /\ freed' = freed \ {Top.obj} /\ phase' = phase
    BY <1>7 DEF Reclaim, GiveBack, InFree
  <2>2. Top.obj \in Obj /\ Top.obj \in freed \cap Live /\ phase \notin Passes
    BY <2>1, SetUp, Stacked DEF FreeingInv, Flushes, Passes
  <2> QED BY <2>1, <2>2 DEF Expires
<1>8. CASE ResetNext
  <2>1. PICK o : o = gObjList[i - 1]
    OBVIOUS
  <2>2. /\ mem' = mem /\ phase' = phase
        /\ freed' = freed \/ (o \in Live \ freed /\ Unlist(o))
    BY <1>8, <2>1 DEF ResetNext
  <2>3. CASE freed' = freed
    BY <2>2, <2>3 DEF Kept
  <2>4. CASE o \in Live \ freed /\ Unlist(o)
    <3>1. o \in Listed
      BY <2>4, Places
    <3> QED BY <2>2, <2>4, <3>1, Unlists, Places
  <2> QED BY <2>2, <2>3, <2>4
<1>9. CASE FlushEnd \/ ResetEnd \/ FreesGarbage
  BY <1>9 DEF FlushEnd, ResetEnd, FreesGarbage, Kept
<1>10. CASE Park \/ \E m \in Pipes : ReuseEffect(m)
  BY <1>10 DEF Park, ReuseEffect, Kept
<1>11. CASE StartUpdate \/ Advance \/ StartHit \/ EndPasses \/ StartSweep \/ SweepKeep \/ EndSweep
            \/ Obj_FlushDeferredFreeList \/ Obj_ResetObjectSystem
  BY <1>11 DEF StartUpdate, StartHit, StartPass, Advance, EndPasses, ToLate, StartSweep, SweepKeep,
     EndSweep, Obj_FlushDeferredFreeList, Obj_ResetObjectSystem, Flush, Kept
<1>12. CASE FlushNext \/ FreeRiders \/ ResetFlushed \/ ObjList_PartitionForRender
  BY <1>12 DEF FlushNext, FreeRiders, ResetFlushed, ObjList_PartitionForRender, Kept
<1> QED
  BY <1>1, <1>2, <1>3, <1>4, <1>5, <1>6, <1>7, <1>8, <1>9, <1>10, <1>11, <1>12, Places
  DEF Next, Callbacks, Engine

InPass == phase \in {"update", "hit"}

LEMMA StepIsLifecycle ==
  ASSUME IInv, [Next]_vars
  PROVE  [Lifecycle!Next]_<<Life, InPass>>
<1>1. mem \in [Obj -> {"absent", "live"}] /\ freed \subseteq Obj
  BY SetUp DEF TypeOK
<1>2. CASE Kept
  <2>1. Life' = Life
    BY <1>2 DEF Kept, Life
  <2>2. InPass' = InPass \/ InPass' = ~InPass
    BY DEF InPass
  <2> QED BY <2>1, <2>2 DEF Lifecycle!Next, Lifecycle!Pass, InPass
<1>3. ASSUME NEW o \in Obj, Comes(o) PROVE Lifecycle!Setup(o)
  <2>1. Life[o] = "absent" /\ Life' = [Life EXCEPT ![o] = "live"]
    BY <1>1, <1>3 DEF Comes, Life
  <2>2. InPass' = InPass
    BY <1>3 DEF Comes, InPass
  <2> QED BY <2>1, <2>2 DEF Lifecycle!Setup, Lifecycle!Become, InPass
<1>4. ASSUME NEW o \in Obj, Leaves(o) PROVE Lifecycle!Free(o)
  <2>1. Life[o] = "live" /\ Life' = [Life EXCEPT ![o] = "freed"]
    BY <1>1, <1>4 DEF Leaves, Live, Life
  <2>2. InPass' = InPass
    BY <1>4 DEF Leaves, InPass
  <2> QED BY <2>1, <2>2 DEF Lifecycle!Free, Lifecycle!Become, InPass
<1>5. ASSUME NEW o \in Obj, Expires(o) PROVE Lifecycle!Reclaim(o)
  <2>1. Life[o] = "freed" /\ Life' = [Life EXCEPT ![o] = "absent"]
    BY <1>1, <1>5 DEF Expires, Live, Life
  <2>2. InPass' = InPass /\ ~InPass
    BY <1>5 DEF Expires, InPass, Passes
  <2> QED BY <2>1, <2>2 DEF Lifecycle!Reclaim, Lifecycle!Become, InPass
<1>6. CASE UNCHANGED vars
  BY <1>6 DEF vars, Life, InPass
<1>7. CASE Next
  <2>1. Kept \/ \E o \in Obj : Comes(o) \/ Leaves(o) \/ Expires(o)
    BY <1>7, StepTells
  <2> QED BY <1>2, <1>3, <1>4, <1>5, <2>1 DEF Lifecycle!Next
<1> QED BY <1>6, <1>7

\* object.c implements the life cycle of ObjectLifecycle: an object is freed once,
\* its memory given back once and never under a pass, and only then is its address
\* handed out again.
THEOREM LifecycleAlwaysKept == Spec => KeepsLifecycle
<1>1. Init => Lifecycle!Init
  BY DEF Init, Lifecycle!Init, Life
<1>2. WholeInv /\ [Next]_vars => [Lifecycle!Next]_(Lifecycle!vars)
  <2>1. IInv /\ [Next]_vars => [Lifecycle!Next]_(Lifecycle!vars)
    BY StepIsLifecycle DEF Lifecycle!vars, InPass
  <2>2. Stuck /\ [Next]_vars => UNCHANGED Lifecycle!vars
    BY StaysStuck DEF Lifecycle!vars, vars, Life
  <2> QED BY <2>1, <2>2 DEF WholeInv
<1> QED BY <1>1, <1>2, AlwaysInv, PTL DEF Spec, KeepsLifecycle, Lifecycle!Spec

------------------------------------------------------------------------------
\* The groups of objlib.c.
\* As few registrations as the array has entries and a u8 can count: 255.
Fits == Registrations < Width /\ Registrations <= ListMax

\* The inductive invariant.
GroupsInv == Sound /\ Once

\* The bytes do not wrap.
LEMMA NoWrap ==
  ASSUME NEW w \in Nat \ {0}, NEW x \in Nat
  PROVE  /\ x < w => x % w = x
         /\ 0 < x /\ x <= w => (x + w - 1) % w = x - 1
<1>1. ASSUME NEW y \in Nat, y < w PROVE y % w = y
  BY <1>1
<1>2. ASSUME 0 < x, x <= w PROVE (x + w - 1) % w = x - 1
  <2>1. (x - 1) \in Nat /\ x - 1 < w
    BY <1>2
  <2>2. ((x - 1) + w) % w = (x - 1) % w
    BY <2>1
  <2> QED BY <1>1, <2>1, <2>2
<1> QED BY <1>1, <1>2

\* A set of natural numbers that is not empty has a first element.
LEMMA HasFirst ==
  ASSUME NEW S \in SUBSET Nat, S # {}
  PROVE  First(S) \in S /\ \A k \in S : First(S) <= k
<1>1. \E k \in S : \A j \in S : k <= j
  BY LeastOne
<1> QED BY <1>1 DEF First

\* Where the entries of a group are.
LEMMA SliceFacts ==
  ASSUME Sound, NEW g \in Group
  PROVE  /\ offsets[g] \in Nat /\ offsets[g + 1] \in Nat
         /\ offsets[g] <= offsets[g + 1] /\ offsets[g + 1] <= gObjectTypeListCount
         /\ gObjectTypeListCount \in Nat
         /\ Slice(g) \subseteq 0 .. (gObjectTypeListCount - 1)
         /\ \A k \in Slice(g) : gObjectTypeList[k] \in Object
<1>1. g \in 0 .. TypeCount /\ g + 1 \in 0 .. TypeCount /\ TypeCount \in Nat
  BY TypesConstants DEF Group
<1>2. /\ offsets[g] \in 0 .. gObjectTypeListCount
      /\ offsets[g + 1] \in 0 .. gObjectTypeListCount
      /\ gObjectTypeListCount \in Nat
      /\ offsets[g] <= offsets[g + 1]
  BY <1>1, TypesConstants DEF Sound
<1>3. Slice(g) \subseteq 0 .. (gObjectTypeListCount - 1)
  BY <1>2 DEF Slice
<1> QED
  BY <1>2, <1>3 DEF Sound

\* Different groups have different entries.
LEMMA SlicesApart ==
  ASSUME Sound, NEW g \in Group, NEW h \in Group, g < h
  PROVE  offsets[g + 1] <= offsets[h]
<1>1. g + 1 \in 0 .. TypeCount /\ h \in 0 .. TypeCount /\ g + 1 <= h
  BY TypesConstants DEF Group
<1> QED
  BY <1>1 DEF Sound

------------------------------------------------------------------------------
\* Where objAddObjectType puts the new entry, and what it does to the others.
LEMMA AddSteps ==
  ASSUME Fits, GroupsInv, NEW o \in Object, NEW g \in Group, RegisterType(o, g),
         NEW at, at = IF offsets[g + 1] = offsets[g] THEN offsets[g] ELSE offsets[g + 1] - 1
  PROVE  /\ at \in Nat /\ offsets[g] <= at /\ at <= offsets[g + 1]
         /\ gObjectTypeListCount \in Nat /\ gObjectTypeListCount < Registrations
         /\ gObjectTypeListCount' = gObjectTypeListCount + 1
         /\ offsets' = [h \in 0 .. TypeCount |-> IF g < h THEN offsets[h] + 1 ELSE offsets[h]]
         /\ gObjectTypeList' =
              [k \in Entries |-> IF k = at THEN o
                                 ELSE IF at < k /\ k <= gObjectTypeListCount
                                   THEN gObjectTypeList[k - 1] ELSE gObjectTypeList[k]]
         /\ at < offsets[g + 1] \/ offsets[g + 1] = offsets[g]
<1>1. /\ Registrations \in Nat /\ Width \in Nat \ {0} /\ ListMax \in Nat /\ TypeCount \in Nat
      /\ Registrations < Width /\ Registrations <= ListMax
  BY TypesConstants DEF Fits
<1>2. /\ offsets[g] \in Nat /\ offsets[g + 1] \in Nat
      /\ offsets[g] <= offsets[g + 1] /\ offsets[g + 1] <= gObjectTypeListCount
      /\ gObjectTypeListCount \in Nat
  BY SliceFacts DEF GroupsInv
<1>3. gObjectTypeListCount < Registrations /\ objAddObjectType(o, g)
  BY DEF RegisterType
<1>4. at \in Nat /\ offsets[g] <= at /\ at <= offsets[g + 1]
  BY <1>2
<1>5. (gObjectTypeListCount + 1) % Width = gObjectTypeListCount + 1
  <2>1. gObjectTypeListCount + 1 \in Nat /\ gObjectTypeListCount + 1 < Width
    BY <1>1, <1>2, <1>3
  <2> QED BY <2>1, <1>1, NoWrap
<1>6. \A h \in 0 .. TypeCount : (offsets[h] + 1) % Width = offsets[h] + 1
  <2> TAKE h \in 0 .. TypeCount
  <2>1. offsets[h] \in 0 .. gObjectTypeListCount
    BY DEF GroupsInv, Sound
  <2>2. offsets[h] + 1 \in Nat /\ offsets[h] + 1 < Width
    BY <2>1, <1>1, <1>2, <1>3
  <2> QED BY <2>2, <1>1, NoWrap
<1>7. gObjectTypeListCount' = gObjectTypeListCount + 1
  BY <1>3, <1>5 DEF objAddObjectType
<1>8. offsets' = [h \in 0 .. TypeCount |-> IF g < h THEN (offsets[h] + 1) % Width ELSE offsets[h]]
  BY <1>3 DEF objAddObjectType
<1>9. gObjectTypeList' =
        [k \in Entries |-> IF k = at THEN o
                           ELSE IF at < k /\ k < gObjectTypeListCount + 1
                             THEN gObjectTypeList[k - 1] ELSE gObjectTypeList[k]]
  BY <1>3, <1>5 DEF objAddObjectType
<1>10. \A k \in Entries : k < gObjectTypeListCount + 1 <=> k <= gObjectTypeListCount
  BY <1>1, <1>2 DEF Entries
<1>11. at < offsets[g + 1] \/ offsets[g + 1] = offsets[g]
  BY <1>2
<1> QED
  BY <1>2, <1>3, <1>4, <1>6, <1>7, <1>8, <1>9, <1>10, <1>11

\* The entries of every group move together, with what they hold.
LEMMA AddMoves ==
  ASSUME Fits, GroupsInv, NEW o \in Object, NEW g \in Group, RegisterType(o, g),
         NEW at, at = IF offsets[g + 1] = offsets[g] THEN offsets[g] ELSE offsets[g + 1] - 1,
         NEW h \in Group
  PROVE  /\ \A k \in Slice(h) : LET m == IF k < at THEN k ELSE k + 1 IN
              m \in Slice(h)' /\ m # at /\ gObjectTypeList'[m] = gObjectTypeList[k]
         /\ \A m \in Slice(h)' : \/ h = g /\ m = at
                                 \/ \E k \in Slice(h) : m = IF k < at THEN k ELSE k + 1
         /\ h = g => at \in Slice(h)' /\ gObjectTypeList'[at] = o
<1>1. /\ at \in Nat /\ offsets[g] <= at /\ at <= offsets[g + 1]
      /\ gObjectTypeListCount \in Nat /\ gObjectTypeListCount < Registrations
      /\ gObjectTypeListCount' = gObjectTypeListCount + 1
      /\ offsets' = [f \in 0 .. TypeCount |-> IF g < f THEN offsets[f] + 1 ELSE offsets[f]]
      /\ gObjectTypeList' =
           [k \in Entries |-> IF k = at THEN o
                              ELSE IF at < k /\ k <= gObjectTypeListCount
                                THEN gObjectTypeList[k - 1] ELSE gObjectTypeList[k]]
      /\ at < offsets[g + 1] \/ offsets[g + 1] = offsets[g]
  BY AddSteps
<1>2. /\ offsets[g] \in Nat /\ offsets[g + 1] \in Nat /\ offsets[g] <= offsets[g + 1]
      /\ offsets[g + 1] <= gObjectTypeListCount
      /\ offsets[h] \in Nat /\ offsets[h + 1] \in Nat /\ offsets[h] <= offsets[h + 1]
      /\ offsets[h + 1] <= gObjectTypeListCount
  BY SliceFacts DEF GroupsInv
<1>3. /\ g \in Int /\ h \in Int /\ h \in 0 .. TypeCount /\ h + 1 \in 0 .. TypeCount
      /\ Registrations \in Nat /\ ListMax \in Nat /\ Registrations <= ListMax
  BY TypesConstants DEF Group, Fits
<1>4. offsets'[h] = (IF g < h THEN offsets[h] + 1 ELSE offsets[h])
  BY <1>1, <1>3
<1>5. offsets'[h + 1] = (IF g < h + 1 THEN offsets[h + 1] + 1 ELSE offsets[h + 1])
  BY <1>1, <1>3
<1>6. \A k \in 0 .. gObjectTypeListCount :
        gObjectTypeList'[k] = IF k = at THEN o
                              ELSE IF at < k THEN gObjectTypeList[k - 1] ELSE gObjectTypeList[k]
  <2> TAKE k \in 0 .. gObjectTypeListCount
  <2>1. k \in Entries /\ k <= gObjectTypeListCount
    BY <1>1, <1>3 DEF Entries
  <2> QED BY <2>1, <1>1
<1>7. CASE h < g
  <2>1. offsets[h + 1] <= offsets[g]
    BY <1>7, SlicesApart DEF GroupsInv
  <2>2. Slice(h)' = Slice(h) /\ \A k \in Slice(h) : k \in Int /\ 0 <= k /\ k < at /\ k <= gObjectTypeListCount
    <3>1. offsets'[h] = offsets[h] /\ offsets'[h + 1] = offsets[h + 1]
      BY <1>3, <1>4, <1>5, <1>7
    <3>2. Slice(h)' = Slice(h)
      BY <3>1 DEF Slice
    <3>3. \A k \in Slice(h) : k \in Int /\ offsets[h] <= k /\ k < offsets[h + 1]
      BY <1>2 DEF Slice
    <3> QED BY <3>2, <3>3, <2>1, <1>1, <1>2
  <2>3. \A k \in Slice(h) : gObjectTypeList'[k] = gObjectTypeList[k]
    BY <2>2, <1>1, <1>6
  <2>4. h # g
    BY <1>3, <1>7
  <2> QED BY <2>2, <2>3, <2>4, <1>1
<1>8. CASE h = g
  <2>1. Slice(h)' = offsets[g] .. offsets[g + 1]
    BY <1>2, <1>3, <1>4, <1>5, <1>8 DEF Slice
  <2>2. Slice(h) = offsets[g] .. (offsets[g + 1] - 1)
    BY <1>8 DEF Slice
  <2>3. at \in Slice(h)' /\ gObjectTypeList'[at] = o
    BY <2>1, <1>1, <1>2, <1>6
  <2>4. \A k \in Slice(h) : LET m == IF k < at THEN k ELSE k + 1 IN
          m \in Slice(h)' /\ m # at /\ gObjectTypeList'[m] = gObjectTypeList[k]
    BY <2>1, <2>2, <1>1, <1>2, <1>6, SMTT(20)
  <2>5. \A m \in Slice(h)' : m = at \/ \E k \in Slice(h) : m = IF k < at THEN k ELSE k + 1
    <3> TAKE m \in Slice(h)'
    <3>1. CASE m < at
      BY <3>1, <2>1, <2>2, <1>1, <1>2
    <3>2. CASE at < m
      <4>1. m - 1 \in Slice(h) /\ m = IF m - 1 < at THEN m - 1 ELSE (m - 1) + 1
        BY <3>2, <2>1, <2>2, <1>1, <1>2
      <4> QED BY <4>1
    <3> QED BY <3>1, <3>2, <2>1, <1>1, <1>2
  <2> QED BY <2>3, <2>4, <2>5, <1>8
<1>9. CASE g < h
  <2>1. offsets[g + 1] <= offsets[h]
    BY <1>9, SlicesApart DEF GroupsInv
  <2>2. Slice(h)' = (offsets[h] + 1) .. offsets[h + 1]
    BY <1>2, <1>3, <1>4, <1>5, <1>9 DEF Slice
  <2>3. Slice(h) = offsets[h] .. (offsets[h + 1] - 1)
    BY DEF Slice
  <2>4. ASSUME NEW k \in Slice(h)
        PROVE  ~(k < at) /\ k + 1 \in Slice(h)' /\ k + 1 # at
               /\ gObjectTypeList'[k + 1] = gObjectTypeList[k]
    <3>1. k \in Int /\ at <= k /\ k + 1 \in 0 .. gObjectTypeListCount
      BY <2>1, <2>3, <1>1, <1>2
    <3>2. (k + 1) - 1 = k /\ at < k + 1 /\ k + 1 # at
      BY <3>1, <1>1
    <3>3. gObjectTypeList'[k + 1] = gObjectTypeList[k]
      BY <3>1, <3>2, <1>6
    <3>4. k + 1 \in Slice(h)'
      BY <2>2, <2>3, <1>2
    <3> QED BY <3>1, <3>2, <3>3, <3>4, <1>1
  <2>5. \A m \in Slice(h)' : \E k \in Slice(h) : m = IF k < at THEN k ELSE k + 1
    <3> TAKE m \in Slice(h)'
    <3>1. m - 1 \in Slice(h) /\ m = IF m - 1 < at THEN m - 1 ELSE (m - 1) + 1
      BY <2>1, <2>2, <2>3, <1>1, <1>2, SMTT(20)
    <3> QED BY <3>1
  <2> QED BY <2>4, <2>5, <1>3, <1>9
<1> QED
  BY <1>3, <1>7, <1>8, <1>9

\* Joining keeps the invariant and is what Join of ObjectGroups says.
LEMMA AddEffect ==
  ASSUME Fits, GroupsInv, NEW o \in Object, NEW g \in Group, RegisterType(o, g)
  PROVE  /\ GroupsInv'
         /\ o \notin Members(g)
         /\ \A h \in Group :
              /\ Members(h)' = IF h = g THEN Members(h) \cup {o} ELSE Members(h)
              /\ (offsets[h + 1] - offsets[h])' =
                   IF h = g THEN offsets[h + 1] - offsets[h] + 1 ELSE offsets[h + 1] - offsets[h]
<1>0. PICK at : at = IF offsets[g + 1] = offsets[g] THEN offsets[g] ELSE offsets[g + 1] - 1
  OBVIOUS
<1>1. /\ at \in Nat /\ offsets[g] <= at /\ at <= offsets[g + 1]
      /\ gObjectTypeListCount \in Nat /\ gObjectTypeListCount < Registrations
      /\ gObjectTypeListCount' = gObjectTypeListCount + 1
      /\ offsets' = [h \in 0 .. TypeCount |-> IF g < h THEN offsets[h] + 1 ELSE offsets[h]]
      /\ gObjectTypeList' =
           [k \in Entries |-> IF k = at THEN o
                              ELSE IF at < k /\ k <= gObjectTypeListCount
                                THEN gObjectTypeList[k - 1] ELSE gObjectTypeList[k]]
  BY <1>0, AddSteps
<1> DEFINE M(k) == IF k < at THEN k ELSE k + 1
<1>2. \A h \in Group :
        /\ \A k \in Slice(h) : M(k) \in Slice(h)' /\ M(k) # at
                             /\ gObjectTypeList'[M(k)] = gObjectTypeList[k]
        /\ \A m \in Slice(h)' : (h = g /\ m = at) \/ \E k \in Slice(h) : m = M(k)
        /\ h = g => at \in Slice(h)' /\ gObjectTypeList'[at] = o
  BY <1>0, AddMoves
<1> HIDE DEF M
<1>3. o \notin Members(g)
  BY DEF RegisterType, objAddObjectType, At, Members
<1>4. \A h \in Group : Members(h)' = IF h = g THEN Members(h) \cup {o} ELSE Members(h)
  <2> TAKE h \in Group
  <2>1. Members(h)' = {gObjectTypeList'[k] : k \in Slice(h)'}
    BY DEF Members
  <2>2. Members(h) = {gObjectTypeList[k] : k \in Slice(h)}
    BY DEF Members
  <2>3. ASSUME NEW k \in Slice(h) PROVE gObjectTypeList[k] \in Members(h)'
    BY <1>2, <2>1
  <2>4. ASSUME NEW m \in Slice(h)'
        PROVE  (h = g /\ gObjectTypeList'[m] = o) \/ gObjectTypeList'[m] \in Members(h)
    BY <1>2, <2>2
  <2>5. h = g => o \in Members(h)'
    BY <1>2, <2>1
  <2> QED BY <2>1, <2>2, <2>3, <2>4, <2>5
<1>5. \A h \in Group : h \in Int /\ h \in 0 .. TypeCount /\ h + 1 \in 0 .. TypeCount
  BY TypesConstants DEF Group
<1>6. \A h \in Group : (offsets[h + 1] - offsets[h])' =
        IF h = g THEN offsets[h + 1] - offsets[h] + 1 ELSE offsets[h + 1] - offsets[h]
  <2> TAKE h \in Group
  <2>1. /\ offsets'[h] = (IF g < h THEN offsets[h] + 1 ELSE offsets[h])
        /\ offsets'[h + 1] = (IF g < h + 1 THEN offsets[h + 1] + 1 ELSE offsets[h + 1])
    BY <1>1, <1>5
  <2>2. offsets[h] \in Nat /\ offsets[h + 1] \in Nat
    BY SliceFacts DEF GroupsInv
  <2> QED BY <2>1, <2>2, <1>5
<1>7. Once'
  <2>1. ASSUME NEW h \in Group, NEW j \in Slice(h)', NEW k \in Slice(h)',
               gObjectTypeList'[j] = gObjectTypeList'[k]
        PROVE  j = k
    <3>1. h = g => \A x \in Slice(h) : gObjectTypeList[x] # o
      BY <1>3 DEF Members
    <3>2. CASE h = g /\ (j = at \/ k = at)
      BY <3>1, <3>2, <1>2, <2>1
    <3>3. CASE ~(h = g /\ (j = at \/ k = at))
      <4>1. PICK x \in Slice(h), y \in Slice(h) : j = M(x) /\ k = M(y)
        BY <3>3, <1>2
      <4>2. gObjectTypeList[x] = gObjectTypeList[y]
        BY <4>1, <1>2, <2>1
      <4> QED BY <4>1, <4>2 DEF GroupsInv, Once
    <3> QED BY <3>2, <3>3
  <2> QED BY <2>1 DEF Once
<1>8. Sound'
  <2>1. /\ TypeCount \in Nat /\ Registrations \in Nat /\ g \in Int /\ 0 <= g /\ g < TypeCount
    BY TypesConstants DEF Group
  <2>2. gObjectTypeListCount' \in 0 .. Registrations
    BY <1>1, <2>1
  <2>3. \A h \in 0 .. TypeCount : offsets[h] \in Nat /\ offsets[h] <= gObjectTypeListCount
    BY <1>1 DEF GroupsInv, Sound
  <2>4. offsets' \in [0 .. TypeCount -> 0 .. gObjectTypeListCount']
    BY <1>1, <2>3
  <2>5. offsets'[0] = 0 /\ offsets'[TypeCount] = gObjectTypeListCount'
    BY <1>1, <2>1 DEF GroupsInv, Sound
  <2>6. \A f, h \in 0 .. TypeCount : f <= h => offsets'[f] <= offsets'[h]
    <3> SUFFICES ASSUME NEW f \in 0 .. TypeCount, NEW h \in 0 .. TypeCount, f <= h
                 PROVE  offsets'[f] <= offsets'[h]
      OBVIOUS
    <3>1. offsets[f] <= offsets[h] /\ offsets[f] \in Nat /\ offsets[h] \in Nat
      BY <2>3 DEF GroupsInv, Sound
    <3>2. /\ offsets'[f] = (IF g < f THEN offsets[f] + 1 ELSE offsets[f])
          /\ offsets'[h] = (IF g < h THEN offsets[h] + 1 ELSE offsets[h])
      BY <1>1
    <3> QED BY <3>1, <3>2, <2>1
  <2>7. /\ gObjectTypeList \in [Entries -> Object \cup {Unused}]
        /\ gObjectTypeListCount \in Nat /\ ListMax \in Nat
        /\ gObjectTypeListCount < ListMax /\ at <= gObjectTypeListCount
        /\ \A k \in 0 .. (gObjectTypeListCount - 1) : gObjectTypeList[k] \in Object
    BY <1>1, <2>1, SliceFacts, TypesConstants DEF GroupsInv, Sound, Fits
  <2>8. \A k \in Entries : k - 1 \in Entries \/ k = 0
    BY <2>7 DEF Entries
  <2>9. gObjectTypeList' \in [Entries -> Object \cup {Unused}]
    <3>1. ASSUME NEW k \in Entries PROVE gObjectTypeList'[k] \in Object \cup {Unused}
      <4>1. at < k => k - 1 \in Entries
        BY <2>7, <1>1 DEF Entries
      <4> QED BY <4>1, <1>1, <2>7
    <3> QED BY <3>1, <1>1
  <2>10. ASSUME NEW k \in 0 .. (gObjectTypeListCount' - 1) PROVE gObjectTypeList'[k] \in Object
    <3>1. k \in Entries /\ k \in Nat /\ k <= gObjectTypeListCount
      BY <1>1, <2>7 DEF Entries
    <3>2. gObjectTypeList'[k] = IF k = at THEN o ELSE IF at < k THEN gObjectTypeList[k - 1]
                                                        ELSE gObjectTypeList[k]
      BY <3>1, <1>1
    <3>3. at < k => k - 1 \in 0 .. (gObjectTypeListCount - 1)
      BY <3>1, <1>1
    <3>4. k < at => k \in 0 .. (gObjectTypeListCount - 1)
      BY <3>1, <2>7, <1>1
    <3> QED BY <3>1, <3>2, <3>3, <3>4, <2>7, <1>1
  <2> QED BY <2>2, <2>4, <2>5, <2>6, <2>9, <2>10 DEF Sound
<1> QED BY <1>3, <1>4, <1>6, <1>7, <1>8 DEF GroupsInv

------------------------------------------------------------------------------
\* What objFreeObjectType takes out, and what it does to the others.
LEMMA FreeSteps ==
  ASSUME Fits, GroupsInv, NEW o \in Object, NEW g \in Group, objFreeObjectType(o, g),
         NEW at, at = First(At(o, Slice(g)))
  PROVE  /\ at \in Slice(g) /\ gObjectTypeList[at] = o
         /\ at \in Nat /\ offsets[g] <= at /\ at < offsets[g + 1]
         /\ gObjectTypeListCount \in Nat /\ 0 < gObjectTypeListCount
         /\ gObjectTypeListCount <= Registrations
         /\ gObjectTypeListCount' = gObjectTypeListCount - 1
         /\ offsets' = [h \in 0 .. TypeCount |-> IF g < h THEN offsets[h] - 1 ELSE offsets[h]]
         /\ gObjectTypeList' =
              [k \in Entries |-> IF at <= k /\ k < gObjectTypeListCount - 1
                                 THEN gObjectTypeList[k + 1] ELSE gObjectTypeList[k]]
<1>1. /\ Registrations \in Nat /\ Width \in Nat \ {0} /\ TypeCount \in Nat /\ Registrations < Width
  BY TypesConstants DEF Fits
<1>2. /\ offsets[g] \in Nat /\ offsets[g + 1] \in Nat
      /\ offsets[g] <= offsets[g + 1] /\ offsets[g + 1] <= gObjectTypeListCount
      /\ gObjectTypeListCount \in Nat /\ gObjectTypeListCount <= Registrations
      /\ Slice(g) \subseteq 0 .. (gObjectTypeListCount - 1)
  BY SliceFacts DEF GroupsInv, Sound
<1>3. At(o, Slice(g)) \in SUBSET Nat /\ At(o, Slice(g)) # {}
  BY <1>2 DEF At, objFreeObjectType
<1>4. at \in At(o, Slice(g))
  BY <1>3, HasFirst
<1>5. at \in Slice(g) /\ gObjectTypeList[at] = o
  BY <1>4 DEF At
<1>6. at \in Nat /\ offsets[g] <= at /\ at < offsets[g + 1] /\ 0 < gObjectTypeListCount
  BY <1>2, <1>5 DEF Slice
<1>7. (gObjectTypeListCount + Width - 1) % Width = gObjectTypeListCount - 1
  <2>1. gObjectTypeListCount <= Width
    BY <1>1, <1>2
  <2> QED BY <2>1, <1>1, <1>2, <1>6, NoWrap
<1>8. \A h \in 0 .. TypeCount : g < h => (offsets[h] + Width - 1) % Width = offsets[h] - 1
  <2> SUFFICES ASSUME NEW h \in 0 .. TypeCount, g < h
               PROVE  (offsets[h] + Width - 1) % Width = offsets[h] - 1
    OBVIOUS
  <2>1. g + 1 \in 0 .. TypeCount /\ g + 1 <= h
    BY <1>1 DEF Group
  <2>2. offsets[h] \in 0 .. gObjectTypeListCount /\ offsets[g + 1] <= offsets[h]
    BY <2>1 DEF GroupsInv, Sound
  <2>3. offsets[h] \in Nat /\ 0 < offsets[h] /\ offsets[h] <= Width
    BY <2>2, <1>1, <1>2, <1>6
  <2> QED BY <2>3, <1>1, NoWrap
<1>9. gObjectTypeListCount' = gObjectTypeListCount - 1
  BY <1>7 DEF objFreeObjectType
<1>10. offsets' = [h \in 0 .. TypeCount |->
                     IF g < h THEN (offsets[h] + Width - 1) % Width ELSE offsets[h]]
  BY DEF objFreeObjectType
<1>11. gObjectTypeList' =
         [k \in Entries |-> IF at <= k /\ k < gObjectTypeListCount - 1
                            THEN gObjectTypeList[k + 1] ELSE gObjectTypeList[k]]
  BY <1>7 DEF objFreeObjectType
<1> QED
  BY <1>2, <1>5, <1>6, <1>8, <1>9, <1>10, <1>11

\* The entries of every group move together, with what they hold.
LEMMA FreeMoves ==
  ASSUME Fits, GroupsInv, NEW o \in Object, NEW g \in Group, objFreeObjectType(o, g),
         NEW at, at = First(At(o, Slice(g))), NEW h \in Group
  PROVE  /\ \A k \in Slice(h) : k # at =>
              LET m == IF k < at THEN k ELSE k - 1 IN
              m \in Slice(h)' /\ gObjectTypeList'[m] = gObjectTypeList[k]
         /\ \A m \in Slice(h)' : \E k \in Slice(h) :
              k # at /\ m = IF k < at THEN k ELSE k - 1
         /\ at \in Slice(h) <=> h = g
<1>1. /\ at \in Slice(g) /\ gObjectTypeList[at] = o
      /\ at \in Nat /\ offsets[g] <= at /\ at < offsets[g + 1]
      /\ gObjectTypeListCount \in Nat /\ 0 < gObjectTypeListCount
      /\ gObjectTypeListCount <= Registrations
      /\ gObjectTypeListCount' = gObjectTypeListCount - 1
      /\ offsets' = [f \in 0 .. TypeCount |-> IF g < f THEN offsets[f] - 1 ELSE offsets[f]]
      /\ gObjectTypeList' =
           [k \in Entries |-> IF at <= k /\ k < gObjectTypeListCount - 1
                              THEN gObjectTypeList[k + 1] ELSE gObjectTypeList[k]]
  BY FreeSteps
<1>2. /\ offsets[g] \in Nat /\ offsets[g + 1] \in Nat /\ offsets[g] <= offsets[g + 1]
      /\ offsets[g + 1] <= gObjectTypeListCount
      /\ offsets[h] \in Nat /\ offsets[h + 1] \in Nat /\ offsets[h] <= offsets[h + 1]
      /\ offsets[h + 1] <= gObjectTypeListCount
  BY SliceFacts DEF GroupsInv
<1>3. /\ g \in Int /\ h \in Int /\ h \in 0 .. TypeCount /\ h + 1 \in 0 .. TypeCount
      /\ Registrations \in Nat /\ ListMax \in Nat /\ Registrations <= ListMax
  BY TypesConstants DEF Group, Fits
<1>4. offsets'[h] = (IF g < h THEN offsets[h] - 1 ELSE offsets[h])
  BY <1>1, <1>3
<1>5. offsets'[h + 1] = (IF g < h + 1 THEN offsets[h + 1] - 1 ELSE offsets[h + 1])
  BY <1>1, <1>3
<1>6. \A k \in 0 .. (gObjectTypeListCount - 2) :
        gObjectTypeList'[k] = IF at <= k THEN gObjectTypeList[k + 1] ELSE gObjectTypeList[k]
  <2> TAKE k \in 0 .. (gObjectTypeListCount - 2)
  <2>1. k \in Entries /\ k < gObjectTypeListCount - 1
    BY <1>1, <1>3 DEF Entries
  <2> QED BY <2>1, <1>1
<1>7. Slice(h) = offsets[h] .. (offsets[h + 1] - 1)
  BY DEF Slice
<1>8. CASE h < g
  <2>1. offsets[h + 1] <= offsets[g]
    BY <1>8, SlicesApart DEF GroupsInv
  <2>2. Slice(h)' = Slice(h)
    BY <1>2, <1>3, <1>4, <1>5, <1>7, <1>8 DEF Slice
  <2>3. \A k \in Slice(h) : k \in 0 .. (gObjectTypeListCount - 2) /\ k < at /\ k # at
    BY <2>1, <1>1, <1>2, <1>7
  <2>4. \A k \in Slice(h) : gObjectTypeList'[k] = gObjectTypeList[k]
    BY <2>3, <1>1, <1>6
  <2>5. h # g
    BY <1>3, <1>8
  <2> QED BY <2>2, <2>3, <2>4, <2>5
<1>9. CASE h = g
  <2>1. Slice(h)' = offsets[g] .. (offsets[g + 1] - 2)
    BY <1>2, <1>3, <1>4, <1>5, <1>9 DEF Slice
  <2>2. ASSUME NEW k \in Slice(h), k < at
        PROVE  k \in Slice(h)' /\ gObjectTypeList'[k] = gObjectTypeList[k]
    <3>1. k \in 0 .. (gObjectTypeListCount - 2) /\ ~(at <= k) /\ k \in Slice(h)'
      BY <2>1, <2>2, <1>1, <1>2, <1>7, <1>9
    <3> QED BY <3>1, <1>6
  <2>3. ASSUME NEW k \in Slice(h), at < k
        PROVE  k - 1 \in Slice(h)' /\ gObjectTypeList'[k - 1] = gObjectTypeList[k]
    <3>1. /\ k - 1 \in 0 .. (gObjectTypeListCount - 2) /\ at <= k - 1
          /\ k - 1 \in Slice(h)' /\ (k - 1) + 1 = k
      BY <2>1, <2>3, <1>1, <1>2, <1>7, <1>9
    <3>2. gObjectTypeList'[k - 1] = gObjectTypeList[(k - 1) + 1]
      BY <3>1, <1>6
    <3> QED BY <3>1, <3>2
  <2>4. ASSUME NEW m \in Slice(h)'
        PROVE  \E k \in Slice(h) : k # at /\ m = IF k < at THEN k ELSE k - 1
    <3>1. CASE m < at
      <4>1. m \in Slice(h) /\ m # at
        BY <3>1, <2>1, <1>1, <1>2, <1>7, <1>9
      <4> QED BY <4>1, <3>1
    <3>2. CASE ~(m < at)
      <4>1. m + 1 \in Slice(h) /\ m + 1 # at /\ ~(m + 1 < at) /\ m = (m + 1) - 1
        BY <3>2, <2>1, <1>1, <1>2, <1>7, <1>9
      <4> QED BY <4>1
    <3> QED BY <3>1, <3>2
  <2>5. \A k \in Slice(h) : k \in Int
    BY <1>7
  <2>6. \A k \in Slice(h) : k # at => k < at \/ (at < k /\ ~(k < at))
    BY <2>5, <1>1
  <2> QED BY <2>2, <2>3, <2>4, <2>6, <1>1, <1>9
<1>10. CASE g < h
  <2>1. offsets[g + 1] <= offsets[h]
    BY <1>10, SlicesApart DEF GroupsInv
  <2>2. Slice(h)' = (offsets[h] - 1) .. (offsets[h + 1] - 2)
    BY <1>2, <1>3, <1>4, <1>5, <1>10 DEF Slice
  <2>3. ASSUME NEW k \in Slice(h)
        PROVE  /\ at < k /\ ~(k < at) /\ k # at
               /\ k - 1 \in Slice(h)' /\ gObjectTypeList'[k - 1] = gObjectTypeList[k]
    <3>0. k \in Int /\ offsets[h] <= k /\ k < offsets[h + 1] /\ at < k
      BY <2>1, <2>3, <1>1, <1>2, <1>7
    <3>3. k - 1 \in Slice(h)'
      BY <3>0, <2>2, <1>2
    <3>1. /\ k - 1 \in 0 .. (gObjectTypeListCount - 2) /\ at <= k - 1 /\ at < k
          /\ k - 1 \in Slice(h)' /\ (k - 1) + 1 = k /\ ~(k < at) /\ k # at
      BY <3>0, <3>3, <1>1, <1>2
    <3>2. gObjectTypeList'[k - 1] = gObjectTypeList[(k - 1) + 1]
      BY <3>1, <1>6
    <3> QED BY <3>1, <3>2
  <2>4. ASSUME NEW m \in Slice(h)'
        PROVE  m + 1 \in Slice(h) /\ m = (m + 1) - 1
    BY <2>2, <1>2, <1>7
  <2>5. h # g
    BY <1>3, <1>10
  <2> QED BY <2>3, <2>4, <2>5
<1> QED
  BY <1>3, <1>8, <1>9, <1>10

\* Leaving keeps the invariant and is what Leave of ObjectGroups says.
LEMMA FreeEffect ==
  ASSUME Fits, GroupsInv, NEW o \in Object, NEW g \in Group, objFreeObjectType(o, g)
  PROVE  /\ GroupsInv'
         /\ o \in Members(g)
         /\ \A h \in Group :
              /\ Members(h)' = IF h = g THEN Members(h) \ {o} ELSE Members(h)
              /\ (offsets[h + 1] - offsets[h])' =
                   IF h = g THEN offsets[h + 1] - offsets[h] - 1 ELSE offsets[h + 1] - offsets[h]
<1>0. PICK at : at = First(At(o, Slice(g)))
  OBVIOUS
<1>1. /\ at \in Slice(g) /\ gObjectTypeList[at] = o
      /\ at \in Nat /\ offsets[g] <= at /\ at < offsets[g + 1]
      /\ gObjectTypeListCount \in Nat /\ 0 < gObjectTypeListCount
      /\ gObjectTypeListCount <= Registrations
      /\ gObjectTypeListCount' = gObjectTypeListCount - 1
      /\ offsets' = [h \in 0 .. TypeCount |-> IF g < h THEN offsets[h] - 1 ELSE offsets[h]]
      /\ gObjectTypeList' =
           [k \in Entries |-> IF at <= k /\ k < gObjectTypeListCount - 1
                              THEN gObjectTypeList[k + 1] ELSE gObjectTypeList[k]]
  BY <1>0, FreeSteps
<1> DEFINE M(k) == IF k < at THEN k ELSE k - 1
<1>2. \A h \in Group :
        /\ \A k \in Slice(h) : k # at => M(k) \in Slice(h)' /\ gObjectTypeList'[M(k)] = gObjectTypeList[k]
        /\ \A m \in Slice(h)' : \E k \in Slice(h) : k # at /\ m = M(k)
        /\ at \in Slice(h) <=> h = g
  BY <1>0, FreeMoves
<1> HIDE DEF M
<1>3. o \in Members(g)
  BY <1>1 DEF Members
<1>4. \A k \in Slice(g) : gObjectTypeList[k] = o <=> k = at
  BY <1>1 DEF GroupsInv, Once
<1>5. \A h \in Group : Members(h)' = IF h = g THEN Members(h) \ {o} ELSE Members(h)
  <2> TAKE h \in Group
  <2>1. Members(h)' = {gObjectTypeList'[k] : k \in Slice(h)'}
    BY DEF Members
  <2>2. Members(h) = {gObjectTypeList[k] : k \in Slice(h)}
    BY DEF Members
  <2>3. ASSUME NEW k \in Slice(h), k # at PROVE gObjectTypeList[k] \in Members(h)'
    BY <1>2, <2>1, <2>3
  <2>4. ASSUME NEW m \in Slice(h)'
        PROVE  \E k \in Slice(h) : k # at /\ gObjectTypeList'[m] = gObjectTypeList[k]
    BY <1>2
  <2>5. CASE h = g
    BY <1>4, <2>1, <2>2, <2>3, <2>4, <2>5
  <2>6. CASE h # g
    <3>1. at \notin Slice(h)
      BY <1>2, <2>6
    <3> QED BY <3>1, <2>1, <2>2, <2>3, <2>4, <2>6
  <2> QED BY <2>5, <2>6
<1>6. \A h \in Group : h \in Int /\ h \in 0 .. TypeCount /\ h + 1 \in 0 .. TypeCount
  BY TypesConstants DEF Group
<1>7. \A h \in Group : (offsets[h + 1] - offsets[h])' =
        IF h = g THEN offsets[h + 1] - offsets[h] - 1 ELSE offsets[h + 1] - offsets[h]
  <2> TAKE h \in Group
  <2>1. /\ offsets'[h] = (IF g < h THEN offsets[h] - 1 ELSE offsets[h])
        /\ offsets'[h + 1] = (IF g < h + 1 THEN offsets[h + 1] - 1 ELSE offsets[h + 1])
    BY <1>1, <1>6
  <2>2. offsets[h] \in Nat /\ offsets[h + 1] \in Nat
    BY SliceFacts DEF GroupsInv
  <2> QED BY <2>1, <2>2, <1>6
<1>8. Once'
  <2>1. ASSUME NEW h \in Group, NEW j \in Slice(h)', NEW k \in Slice(h)',
               gObjectTypeList'[j] = gObjectTypeList'[k]
        PROVE  j = k
    <3>1. PICK x \in Slice(h), y \in Slice(h) : x # at /\ j = M(x) /\ y # at /\ k = M(y)
      BY <1>2
    <3>2. gObjectTypeList[x] = gObjectTypeList[y]
      BY <3>1, <1>2, <2>1
    <3> QED BY <3>1, <3>2 DEF GroupsInv, Once
  <2> QED BY <2>1 DEF Once
<1>9. Sound'
  <2>1. /\ TypeCount \in Nat /\ Registrations \in Nat /\ g \in Int /\ 0 <= g /\ g < TypeCount
        /\ g + 1 \in 0 .. TypeCount
    BY TypesConstants DEF Group
  <2>2. gObjectTypeListCount' \in 0 .. Registrations
    BY <1>1, <2>1
  <2>3. \A h \in 0 .. TypeCount : offsets[h] \in Nat /\ offsets[h] <= gObjectTypeListCount
    BY <1>1 DEF GroupsInv, Sound
  <2>4. \A h \in 0 .. TypeCount :
          /\ g < h => 0 < offsets[h]
          /\ ~(g < h) => offsets[h] < gObjectTypeListCount
    <3> SUFFICES ASSUME NEW h \in 0 .. TypeCount
                 PROVE  /\ g < h => 0 < offsets[h]
                        /\ ~(g < h) => offsets[h] < gObjectTypeListCount
      OBVIOUS
    <3>1. g < h => g + 1 <= h
      BY <2>1
    <3>2. g < h => offsets[g + 1] <= offsets[h]
      BY <3>1, <2>1 DEF GroupsInv, Sound
    <3>3. ~(g < h) => offsets[h] <= offsets[g]
      BY <2>1 DEF GroupsInv, Sound
    <3>4. /\ offsets[g] \in Nat /\ offsets[g + 1] \in Nat /\ offsets[h] \in Nat
          /\ offsets[g + 1] <= gObjectTypeListCount
      BY <2>1, <2>3
    <3> QED BY <3>2, <3>3, <3>4, <1>1
  <2>5. offsets' \in [0 .. TypeCount -> 0 .. gObjectTypeListCount']
    <3>1. ASSUME NEW h \in 0 .. TypeCount
          PROVE  (IF g < h THEN offsets[h] - 1 ELSE offsets[h]) \in 0 .. (gObjectTypeListCount - 1)
      <4>1. /\ offsets[h] \in Nat /\ offsets[h] <= gObjectTypeListCount
            /\ g < h => 0 < offsets[h]
            /\ ~(g < h) => offsets[h] < gObjectTypeListCount
        BY <2>3, <2>4
      <4> QED BY <4>1, <1>1
    <3> QED BY <3>1, <1>1
  <2>6. offsets'[0] = 0 /\ offsets'[TypeCount] = gObjectTypeListCount'
    BY <1>1, <2>1 DEF GroupsInv, Sound
  <2>7. \A f, h \in 0 .. TypeCount : f <= h => offsets'[f] <= offsets'[h]
    <3> SUFFICES ASSUME NEW f \in 0 .. TypeCount, NEW h \in 0 .. TypeCount, f <= h
                 PROVE  offsets'[f] <= offsets'[h]
      OBVIOUS
    <3>1. offsets[f] <= offsets[h] /\ offsets[f] \in Nat /\ offsets[h] \in Nat
      BY <2>3 DEF GroupsInv, Sound
    <3>2. /\ offsets'[f] = (IF g < f THEN offsets[f] - 1 ELSE offsets[f])
          /\ offsets'[h] = (IF g < h THEN offsets[h] - 1 ELSE offsets[h])
      BY <1>1
    <3>3. ~(g < f) => offsets[f] <= offsets[g]
      BY <2>1 DEF GroupsInv, Sound
    <3>4. g < h => offsets[g + 1] <= offsets[h]
      BY <2>1 DEF GroupsInv, Sound
    <3>5. offsets[g] \in Nat /\ offsets[g + 1] \in Nat /\ offsets[g] < offsets[g + 1]
      BY <1>1, <2>1, <2>3
    <3> QED BY <3>1, <3>2, <3>3, <3>4, <3>5, <2>1
  <2>8. /\ gObjectTypeList \in [Entries -> Object \cup {Unused}]
        /\ ListMax \in Nat /\ gObjectTypeListCount <= ListMax
        /\ \A k \in 0 .. (gObjectTypeListCount - 1) : gObjectTypeList[k] \in Object
    BY <1>1, <2>1, TypesConstants DEF GroupsInv, Sound, Fits
  <2>9. gObjectTypeList' \in [Entries -> Object \cup {Unused}]
    <3>1. ASSUME NEW k \in Entries PROVE gObjectTypeList'[k] \in Object \cup {Unused}
      <4>1. k < gObjectTypeListCount - 1 => k + 1 \in Entries
        BY <2>8, <1>1 DEF Entries
      <4> QED BY <4>1, <1>1, <2>8
    <3> QED BY <3>1, <1>1
  <2>10. ASSUME NEW k \in 0 .. (gObjectTypeListCount' - 1) PROVE gObjectTypeList'[k] \in Object
    <3>1. k \in Entries /\ k \in Nat /\ k < gObjectTypeListCount - 1
      BY <1>1, <2>8 DEF Entries
    <3>2. gObjectTypeList'[k] = IF at <= k THEN gObjectTypeList[k + 1] ELSE gObjectTypeList[k]
      BY <3>1, <1>1
    <3>3. k + 1 \in 0 .. (gObjectTypeListCount - 1) /\ k \in 0 .. (gObjectTypeListCount - 1)
      BY <3>1, <1>1
    <3> QED BY <3>2, <3>3, <2>8
  <2> QED BY <2>2, <2>5, <2>6, <2>7, <2>9, <2>10 DEF Sound
<1> QED BY <1>3, <1>5, <1>7, <1>8, <1>9 DEF GroupsInv

------------------------------------------------------------------------------
\* The registry starts sound.
LEMMA InitSound == TypesInit => GroupsInv
<1> SUFFICES ASSUME TypesInit PROVE GroupsInv
  OBVIOUS
<1>1. TypeCount \in Nat /\ Registrations \in Nat
  BY TypesConstants
<1>2. \A g \in Group : g \in 0 .. TypeCount /\ g + 1 \in 0 .. TypeCount
  BY <1>1 DEF Group
<1>3. \A g \in Group : Slice(g) = {}
  BY <1>2 DEF Slice, TypesInit
<1>4. Once
  BY <1>3 DEF Once
<1>5. Sound
  BY <1>1 DEF TypesInit, Sound
<1> QED BY <1>4, <1>5 DEF GroupsInv

\* objTypeInit leaves every group empty.
LEMMA ResetEffect ==
  ASSUME GroupsInv, objTypeInit
  PROVE  /\ GroupsInv'
         /\ \A g \in Group : Members(g)' = {} /\ (offsets[g + 1] - offsets[g])' = 0
<1>1. TypeCount \in Nat /\ Registrations \in Nat
  BY TypesConstants
<1>2. \A g \in Group : g \in 0 .. TypeCount /\ g + 1 \in 0 .. TypeCount
  BY <1>1 DEF Group
<1>3. \A g \in Group : offsets'[g] = 0 /\ offsets'[g + 1] = 0
  BY <1>2 DEF objTypeInit
<1>4. \A g \in Group : Slice(g)' = {}
  BY <1>3 DEF Slice
<1>5. Once'
  BY <1>4 DEF Once
<1>6. Sound'
  BY <1>1 DEF GroupsInv, Sound, objTypeInit
<1> QED BY <1>3, <1>4, <1>5, <1>6 DEF GroupsInv, Members

\* What objGetObjectType answers: a group, and the object is in it.
LEMMA LookupFacts ==
  ASSUME GroupsInv, NEW o \in Object
  PROVE  /\ objGetObjectType(o) \in Nat
         /\ LET g == objGetObjectType(o) - 1 IN
              IF g = -1 THEN \A h \in Group : At(o, Slice(h)) = {}
              ELSE g \in Group /\ At(o, Slice(g)) # {}
<1> DEFINE S == At(o, 0 .. (gObjectTypeListCount - 1))
           k == First(S)
           Ends == {g \in 0 .. (TypeCount + 1) : g = TypeCount + 1 \/ offsets[g] > k}
           e == First(Ends)
<1>1. TypeCount \in Nat \ {0} /\ gObjectTypeListCount \in Nat
  BY TypesConstants DEF GroupsInv, Sound
<1>2. CASE S = {}
  <2>1. objGetObjectType(o) = 0
    BY <1>2 DEF objGetObjectType
  <2>2. \A h \in Group : At(o, Slice(h)) = {}
    BY <1>2, SliceFacts DEF GroupsInv, At
  <2> QED BY <2>1, <2>2
<1>3. CASE S # {}
  <2>1. S \in SUBSET Nat
    BY <1>1 DEF At
  <2>2. k \in S
    BY <1>3, <2>1, HasFirst
  <2>3. k \in Nat /\ k < gObjectTypeListCount /\ gObjectTypeList[k] = o
    BY <1>1, <2>2 DEF At
  <2> HIDE DEF k
  <2>4. \A g \in 0 .. TypeCount : offsets[g] \in Nat
    BY <1>1 DEF GroupsInv, Sound
  <2>5. TypeCount \in Ends
    BY <1>1, <2>3 DEF GroupsInv, Sound
  <2>6. Ends \in SUBSET Nat
    BY <1>1
  <2>7. e \in Ends /\ \A g \in Ends : e <= g
    BY <2>5, <2>6, HasFirst
  <2>8. e \in Nat /\ e <= TypeCount
    BY <2>5, <2>6, <2>7
  <2>9. offsets[e] > k
    BY <1>1, <2>7, <2>8
  <2>10. e # 0
    BY <2>3, <2>9 DEF GroupsInv, Sound
  <2>11. e - 1 \in Group /\ e - 1 \in 0 .. TypeCount /\ (e - 1) + 1 = e /\ e - 1 \in 0 .. (TypeCount + 1)
    BY <1>1, <2>8, <2>10 DEF Group
  <2>12. e - 1 \notin Ends
    BY <2>6, <2>7, <2>8
  <2>13. offsets[e - 1] <= k
    BY <2>3, <2>4, <2>11, <2>12
  <2>14. k \in Slice(e - 1)
    BY <2>3, <2>4, <2>8, <2>9, <2>11, <2>13 DEF Slice
  <2>15. objGetObjectType(o) = e
    BY <1>3 DEF objGetObjectType, k
  <2>16. At(o, Slice(e - 1)) # {}
    BY <2>3, <2>14 DEF At
  <2>17. e - 1 # -1
    BY <2>8, <2>10
  <2> HIDE DEF e
  <2> QED BY <2>8, <2>11, <2>15, <2>16, <2>17
<1> QED BY <1>2, <1>3

\* objFreeObjdef takes the object out of a group.
LEMMA LastGroupIsOne ==
  ASSUME GroupsInv, NEW o \in Object, LeaveLastGroup(o)
  PROVE  \E g \in Group : objFreeObjectType(o, g)
<1> DEFINE g == objGetObjectType(o) - 1
<1>1. objGetObjectType(o) # 0 /\ objFreeObjectType(o, g)
  BY DEF LeaveLastGroup
<1>2. g = -1 \/ g \in Group
  BY LookupFacts
<1>3. g # -1
  BY <1>1, LookupFacts
<1> QED BY <1>1, <1>2, <1>3

\* Every step keeps the invariant.
LEMMA StepSound ==
  ASSUME Fits, GroupsInv, [TypesNext]_typesVars
  PROVE  GroupsInv'
<1>1. ASSUME NEW o \in Object, NEW g \in Group, RegisterType(o, g) PROVE GroupsInv'
  BY <1>1, AddEffect
<1>2. ASSUME NEW o \in Object, NEW g \in Group, objFreeObjectType(o, g) PROVE GroupsInv'
  BY <1>2, FreeEffect
<1>3. ASSUME NEW o \in Object, LeaveLastGroup(o) PROVE GroupsInv'
  <2>1. PICK g \in Group : objFreeObjectType(o, g)
    BY <1>3, LastGroupIsOne
  <2> QED BY <2>1, FreeEffect
<1>4. ASSUME objTypeInit PROVE GroupsInv'
  BY <1>4, ResetEffect
<1>5. ASSUME UNCHANGED typesVars PROVE GroupsInv'
  BY <1>5 DEF typesVars, GroupsInv, Sound, Once, Slice
<1> QED
  BY <1>1, <1>2, <1>3, <1>4, <1>5 DEF TypesNext

------------------------------------------------------------------------------
\* While objAddObjectType has no more than 255 entries to count, the offsets
\* divide the entries in use and no object is twice in a group.
THEOREM AlwaysSound ==
  ASSUME Fits
  PROVE  TypesSpec => []GroupsInv
<1>1. TypesInit => GroupsInv
  BY InitSound
<1>2. GroupsInv /\ [TypesNext]_typesVars => GroupsInv'
  BY StepSound
<1> QED
  BY <1>1, <1>2, PTL DEF TypesSpec

\* objGetObjectType then always finds a group the object is in, if there is one:
\* objFreeObjdef takes a dying object out of a group it is in.
THEOREM LookupAlwaysRight ==
  ASSUME Fits
  PROVE  TypesSpec => []LookupRight
<1>1. GroupsInv => LookupRight
  BY LookupFacts DEF LookupRight
<1> QED
  BY <1>1, AlwaysSound, PTL

\* What the group tables show of one step, told for all groups at once.
LEMMA StepIsGroups ==
  ASSUME Fits, GroupsInv, [TypesNext]_typesVars
  PROVE  [Groups!Next]_<<[g \in Group |-> Members(g)],
                         [g \in Group |-> offsets[g + 1] - offsets[g]]>>
<1> DEFINE groups == [g \in Group |-> Members(g)]
           size == [g \in Group |-> offsets[g + 1] - offsets[g]]
<1>1. ASSUME NEW o \in Object, NEW g \in Group, RegisterType(o, g) PROVE Groups!Join(o, g)
  <2>1. o \notin groups[g]
    BY <1>1, AddEffect
  <2>2. groups' = [groups EXCEPT ![g] = @ \cup {o}]
    BY <1>1, AddEffect, ZenonT(30)
  <2>3. size' = [size EXCEPT ![g] = @ + 1]
    BY <1>1, AddEffect
  <2> QED BY <2>1, <2>2, <2>3 DEF Groups!Join
<1>2. ASSUME NEW o \in Object, NEW g \in Group, objFreeObjectType(o, g) PROVE Groups!Leave(o, g)
  <2>1. o \in groups[g]
    BY <1>2, FreeEffect
  <2>2. groups' = [groups EXCEPT ![g] = @ \ {o}]
    BY <1>2, FreeEffect, ZenonT(30)
  <2>3. size' = [size EXCEPT ![g] = @ - 1]
    BY <1>2, FreeEffect
  <2> QED BY <2>1, <2>2, <2>3 DEF Groups!Leave
<1>3. ASSUME NEW o \in Object, LeaveLastGroup(o) PROVE \E g \in Group : Groups!Leave(o, g)
  <2>1. PICK g \in Group : objFreeObjectType(o, g)
    BY <1>3, LastGroupIsOne
  <2> QED BY <2>1, <1>2
<1>4. ASSUME objTypeInit PROVE Groups!Empty
  BY <1>4, ResetEffect DEF Groups!Empty
<1>5. ASSUME UNCHANGED typesVars PROVE UNCHANGED <<groups, size>>
  BY <1>5 DEF typesVars, Members, Slice
<1> QED
  BY <1>1, <1>2, <1>3, <1>4, <1>5 DEF TypesNext, Groups!Next

\* The shared array implements the groups: objAddObjectType and objFreeObjectType
\* change the membership they are told to and no other.
THEOREM GroupsAlwaysKept ==
  ASSUME Fits
  PROVE  TypesSpec => GroupsKept
<1>1. TypesInit => Groups!Init
  <2> SUFFICES ASSUME TypesInit PROVE Groups!Init
    OBVIOUS
  <2>1. ASSUME NEW g \in Group PROVE Members(g) = {} /\ offsets[g + 1] - offsets[g] = 0
    <3>1. TypeCount \in Nat /\ g \in 0 .. TypeCount /\ g + 1 \in 0 .. TypeCount
      BY TypesConstants DEF Group
    <3>2. offsets[g] = 0 /\ offsets[g + 1] = 0
      BY <3>1 DEF TypesInit
    <3> QED BY <3>2 DEF Members, Slice
  <2> QED BY <2>1 DEF Groups!Init
<1>2. GroupsInv /\ [TypesNext]_typesVars
        => [Groups!Next]_<<[g \in Group |-> Members(g)],
                           [g \in Group |-> offsets[g + 1] - offsets[g]]>>
  BY StepIsGroups
<1> QED
  BY <1>1, <1>2, AlwaysSound, PTL DEF TypesSpec, GroupsKept, Groups!Spec
=============================================================================
