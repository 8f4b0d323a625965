--------------------------- MODULE ModPatchesProofs ---------------------------
\* The safety properties of ModPatches for any number of mods, slots, targets and
\* host calls.  In a slot patched in load order the originals a mod recorded are
\* its own or those of mods loaded before it, and the first one is never its own:
\* closing the mods last to first closes no library that is still led to.
EXTENDS ModPatches, TLAPS, WellFoundedInduction

\* In a slot patched in load order: what it and the records of its patches lead
\* to, and that a mod's first record there is not of its own callback.
Ordered ==
  \A s \in Slots : inOrder[s] =>
    /\ slots[s] \in {Game} \cup Patchers(s)
    /\ \A m \in Mods : \A k \in PatchesOf(m, s) :
         LET original == patches[m][k].original IN
         /\ original \in {Game} \cup Patchers(s) /\ original <= m
         /\ (\A j \in PatchesOf(m, s) : k <= j) => original # m

\* A target no mod took from another is listed only by the mod it branches to.
ListsExact ==
  \A t \in Targets, m \in Mods : ~foreign[t] /\ t \in hooks[m] => code[t] = m

\* Mods are loaded one at a time, patch nothing before, and are closed at exit.
Loading ==
  /\ pc = "initialize" => next \in Mods
  /\ pc \notin {"shutdown", "exit"} =>
       \A m \in Mods \ open, s \in Slots : PatchesOf(m, s) = {}
  /\ pc = "exit" => open = {}

IInv == TypeOK /\ Loading /\ CallbacksLoaded /\ Ordered /\ HooksLoaded /\ ListsExact

\* A set of natural numbers that is not empty has a least element.
LEMMA HasMin ==
  ASSUME NEW S \in SUBSET Nat, S # {}
  PROVE  Min(S) \in S /\ \A x \in S : Min(S) <= x
<1> DEFINE Less == {ss \in Nat \X Nat : ss[1] < ss[2]}
<1>1. IsWellFoundedOn(Less, Nat)
  BY NatLessThanWellFounded DEF OpToRel
<1> HIDE DEF Less
<1>2. PICK x \in S : \A y \in S : ~(<<y, x>> \in Less)
  BY <1>1, WFMin
<1>3. ASSUME NEW y \in S PROVE x =< y
  <2>1. x \in Nat /\ y \in Nat /\ ~(<<y, x>> \in Less)
    BY <1>2
  <2>2. <<y, x>> \in Nat \X Nat
    BY <2>1
  <2>3. ~(y < x)
    BY <2>1, <2>2 DEF Less
  <2> QED BY <2>1, <2>3
<1> QED
  BY <1>3 DEF Min

\* The mods that are open, if any, have a last one.
LEMMA HasLast ==
  ASSUME BoundsAreNumbers, TypeOK, open # {}
  PROVE  LastOpen \in open /\ \A q \in open : q <= LastOpen
<1> DEFINE Behind == {NumMods - q : q \in open}
<1>0. open \in SUBSET (1..NumMods) /\ NumMods \in Nat
  BY DEF BoundsAreNumbers, TypeOK, Mods
<1>1. Behind \in SUBSET Nat /\ Behind # {}
  <2>1. ASSUME NEW q \in open PROVE NumMods - q \in Nat
    BY <1>0
  <2> QED BY <2>1
<1> HIDE DEF Behind
<1>2. PICK m \in open : NumMods - m = Min(Behind)
  BY <1>1, HasMin DEF Behind
<1>3. \A q \in open : Min(Behind) <= NumMods - q
  BY <1>1, HasMin DEF Behind
<1>4. \A q \in open : q <= m
  BY <1>0, <1>2, <1>3
<1> QED
  BY <1>4 DEF LastOpen

\* Patches are numbered, and have the fields of a patch.
LEMMA PatchesTyped ==
  ASSUME TypeOK, NEW m \in Mods, NEW s \in Slots
  PROVE  /\ PatchesOf(m, s) \in SUBSET Nat
         /\ \A k \in PatchesOf(m, s) : patches[m][k] \in Patch
<1>1. patches[m] \in Seq(Patch)
  BY DEF TypeOK
<1>2. \A k \in DOMAIN patches[m] : k \in Nat /\ patches[m][k] \in Patch
  BY <1>1
<1> QED
  BY <1>2 DEF PatchesOf

\* What closing mod m leaves in a slot.
LEMMA RestoredFacts ==
  ASSUME TypeOK, NEW m \in Mods, NEW s \in Slots
  PROVE  \/ m \notin Patchers(s) /\ Restored(m)[s] = slots[s]
         \/ \E k \in PatchesOf(m, s) :
              /\ Restored(m)[s] = patches[m][k].original
              /\ \A j \in PatchesOf(m, s) : k <= j
<1>1. CASE PatchesOf(m, s) = {}
  BY <1>1 DEF Restored, Patchers
<1>2. CASE PatchesOf(m, s) # {}
  BY <1>2, PatchesTyped, HasMin DEF Restored
<1> QED
  BY <1>1, <1>2

\* What a replaced callback adds to the patches.
LEMMA ReplaceFacts ==
  ASSUME TypeOK, NEW m \in Mods, NEW s \in Slots, classReplaceCallback(m, s)
  PROVE  /\ patches' \in [Mods -> Seq(Patch)]
         /\ PatchesOf(m, s)' = PatchesOf(m, s) \cup {Len(patches[m]) + 1}
         /\ \A k \in PatchesOf(m, s) : k < Len(patches[m]) + 1
         /\ patches'[m][Len(patches[m]) + 1].original = slots[s]
         /\ \A q \in Mods, u \in Slots : q # m \/ u # s => PatchesOf(q, u)' = PatchesOf(q, u)
         /\ \A q \in Mods, u \in Slots : \A k \in PatchesOf(q, u) : patches'[q][k] = patches[q][k]
<1> DEFINE patch == [slot |-> s, original |-> slots[s]]
           n == Len(patches[m]) + 1
<1>1. patches \in [Mods -> Seq(Patch)] /\ patch \in Patch
  BY DEF TypeOK, Patch
<1>2. patches' = [patches EXCEPT ![m] = Append(patches[m], patch)]
  BY DEF classReplaceCallback
<1>3. /\ patches'[m] = Append(patches[m], patch)
      /\ \A q \in Mods : q # m => patches'[q] = patches[q]
  BY <1>1, <1>2
<1>4. /\ DOMAIN patches[m] = 1..(n - 1) /\ n \in Nat
      /\ DOMAIN patches'[m] = 1..n /\ patches'[m][n] = patch
      /\ \A k \in 1..(n - 1) : patches'[m][k] = patches[m][k]
  BY <1>1, <1>3
<1>5. patches' \in [Mods -> Seq(Patch)]
  BY <1>1, <1>2
<1>6. /\ PatchesOf(m, s)' = PatchesOf(m, s) \cup {n}
      /\ \A k \in PatchesOf(m, s) : k < n
  BY <1>4 DEF PatchesOf
<1>7. ASSUME NEW q \in Mods, NEW u \in Slots, q # m \/ u # s
      PROVE  PatchesOf(q, u)' = PatchesOf(q, u)
  <2>1. CASE q # m
    BY <1>3, <2>1 DEF PatchesOf
  <2>2. CASE q = m /\ u # s
    BY <1>4, <2>2, SMTT(20) DEF PatchesOf
  <2> QED BY <1>7, <2>1, <2>2
<1>8. ASSUME NEW q \in Mods, NEW u \in Slots, NEW k \in PatchesOf(q, u)
      PROVE  patches'[q][k] = patches[q][k]
  <2>1. CASE q # m
    BY <1>3, <2>1
  <2>2. CASE q = m
    BY <1>4, <2>2 DEF PatchesOf
  <2> QED BY <2>1, <2>2
<1> QED
  BY <1>4, <1>5, <1>6, <1>7, <1>8

------------------------------------------------------------------------------
\* Every step keeps the types.
LEMMA TypeInductive == TypeOK /\ Loading /\ [Next]_vars => TypeOK'
<1> SUFFICES ASSUME TypeOK, Loading, [Next]_vars PROVE TypeOK'
  OBVIOUS
<1> USE BoundsAreNumbers
<1>1. CASE Skip \/ load_native \/ Initialized \/ fhModsInit_Done \/ fhModsShutdown \/ Exit
  <2>1. /\ pc' \in {"init", "initialize", "run", "shutdown", "exit"}
        /\ next' = next \/ (next \in Mods /\ next' = next + 1)
        /\ open' \subseteq Mods
        /\ UNCHANGED <<slotVars, hookVars>>
    <3>1. open \subseteq Mods /\ pc \in {"init", "initialize", "run", "shutdown", "exit"}
      BY DEF TypeOK
    <3>2. CASE load_native
      BY <3>1, <3>2 DEF load_native
    <3>3. CASE Initialized
      BY <3>1, <3>3 DEF Initialized, Loading
    <3>4. CASE Skip \/ fhModsInit_Done \/ fhModsShutdown \/ Exit
      BY <3>1, <3>4 DEF Skip, fhModsInit_Done, fhModsShutdown, Exit
    <3> QED BY <1>1, <3>2, <3>3, <3>4
  <2>2. next' \in 1..(NumMods + 1)
    BY <2>1 DEF TypeOK, Mods, BoundsAreNumbers
  <2> QED
    BY <2>1, <2>2 DEF TypeOK, slotVars, hookVars
<1>2. ASSUME NEW m \in Mods, NEW s \in Slots, classReplaceCallback(m, s) PROVE TypeOK'
  <2>1. patches' \in [Mods -> Seq(Patch)]
    BY <1>2, ReplaceFacts
  <2>2. \A k \in PatchesOf(m, s) : patches[m][k].original \in Callback
    BY PatchesTyped DEF Patch
  <2>3. Replacements(m, s) \subseteq Callback
    BY <2>2 DEF Replacements, Callback
  <2>4. slots' \in [Slots -> Callback] /\ inOrder' \in [Slots -> BOOLEAN]
    BY <1>2, <2>3 DEF classReplaceCallback, TypeOK
  <2> QED
    BY <1>2, <2>1, <2>4 DEF classReplaceCallback, TypeOK, hookVars
<1>3. ASSUME NEW m \in Mods, NEW t \in Targets, hookInstall(m, t) \/ hookRemove(m, t)
      PROVE  TypeOK'
  <2>1. code' \in [Targets -> {NoMod} \cup Mods]
    BY <1>3 DEF hookInstall, hookRemove, TypeOK
  <2>4. hooks' \in [Mods -> SUBSET Targets]
    <3>1. hooks \in [Mods -> SUBSET Targets]
      BY DEF TypeOK
    <3>2. CASE hooks' = [hooks EXCEPT ![m] = hooks[m] \cup {t}]
      BY <3>1, <3>2
    <3>3. CASE hooks' = [hooks EXCEPT ![m] = hooks[m] \ {t}]
      BY <3>1, <3>3
    <3> QED BY <1>3, <3>2, <3>3 DEF hookInstall, hookRemove
  <2>2. foreign \in [Targets -> BOOLEAN]
    BY DEF TypeOK
  <2>3. foreign' \in [Targets -> BOOLEAN]
    <3>1. (foreign[t] \/ code[t] \notin {NoMod, m}) \in BOOLEAN
      OBVIOUS
    <3> QED BY <1>3, <2>2, <3>1, Zenon DEF hookInstall, hookRemove
  <2> QED
    BY <1>3, <2>1, <2>3, <2>4 DEF hookInstall, hookRemove, TypeOK, slotVars
<1>4. CASE Close
  <2>1. LastOpen \in open /\ LastOpen \in Mods
    BY <1>4, HasLast DEF Close, TypeOK
  <2>2. ASSUME NEW s \in Slots PROVE Restored(LastOpen)[s] \in Callback
    <3>1. slots[s] \in Callback
      BY DEF TypeOK
    <3>2. \A k \in PatchesOf(LastOpen, s) : patches[LastOpen][k].original \in Callback
      BY <2>1, PatchesTyped DEF Patch
    <3> QED BY <2>1, <3>1, <3>2, RestoredFacts
  <2>3. slots' \in [Slots -> Callback]
    BY <1>4, <2>2 DEF Close, Restored
  <2>4. code' \in [Targets -> {NoMod} \cup Mods] /\ hooks' \in [Mods -> SUBSET Targets]
    BY <1>4, <2>1 DEF Close, Unhooked, TypeOK
  <2> QED
    BY <1>4, <2>3, <2>4 DEF Close, TypeOK
<1>5. CASE UNCHANGED vars
  BY <1>5 DEF TypeOK, vars, slotVars, hookVars
<1> QED
  BY <1>1, <1>2, <1>3, <1>4, <1>5 DEF Next, HostCall

\* Every step keeps what the slots lead to.
LEMMA SlotsInductive ==
  TypeOK /\ Loading /\ CallbacksLoaded /\ Ordered /\ [Next]_vars =>
    CallbacksLoaded' /\ Ordered'
<1> SUFFICES ASSUME TypeOK, Loading, CallbacksLoaded, Ordered, [Next]_vars
             PROVE  CallbacksLoaded' /\ Ordered'
  OBVIOUS
<1> USE BoundsAreNumbers
<1>1. CASE Skip \/ Initialized \/ fhModsInit_Done \/ fhModsShutdown \/ Exit \/ UNCHANGED vars
  <2>1. /\ UNCHANGED <<open, slots, patches, inOrder>>
        /\ pc' \notin {"shutdown", "exit"} => pc \notin {"shutdown", "exit"}
    BY <1>1 DEF Skip, Initialized, fhModsInit_Done, fhModsShutdown, Exit, vars, slotVars
  <2> QED
    BY <2>1 DEF CallbacksLoaded, Ordered, Callable, PatchesOf, Patchers
<1>2. CASE load_native
  <2>1. /\ UNCHANGED <<slots, patches, inOrder>> /\ open \subseteq open'
        /\ pc \notin {"shutdown", "exit"}
    BY <1>2 DEF load_native, slotVars
  <2>2. Ordered'
    BY <2>1 DEF Ordered, PatchesOf, Patchers
  <2>3. open' \subseteq Mods /\ \A m \in Mods, s \in Slots : PatchesOf(m, s)' = PatchesOf(m, s)
    BY <1>2, <2>1 DEF load_native, TypeOK, PatchesOf
  <2>4. ASSUME NEW s \in Slots, NEW m \in open', NEW k \in PatchesOf(m, s)
        PROVE  patches[m][k].original \in {Game} \cup open
    <3>1. m \in open
      BY <2>1, <2>3 DEF Loading
    <3> QED BY <2>1, <3>1 DEF CallbacksLoaded, Callable
  <2>5. \A s \in Slots : slots[s] \in {Game} \cup open
    BY <2>1 DEF CallbacksLoaded, Callable
  <2>6. CallbacksLoaded'
    BY <2>1, <2>3, <2>4, <2>5 DEF CallbacksLoaded, Callable
  <2> QED BY <2>2, <2>6
<1>3. ASSUME HostCall, UNCHANGED slotVars, UNCHANGED <<pc, open>>
      PROVE  CallbacksLoaded' /\ Ordered'
  BY <1>3 DEF CallbacksLoaded, Ordered, Callable, PatchesOf, Patchers, slotVars
<1>4. ASSUME NEW m \in Mods, NEW s \in Slots, classReplaceCallback(m, s)
      PROVE  CallbacksLoaded' /\ Ordered'
  <2> DEFINE n == Len(patches[m]) + 1
  <2>1. /\ m \in open /\ UNCHANGED <<pc, open>>
        /\ slots \in [Slots -> Callback]
        /\ \E c \in Replacements(m, s) : slots' = [slots EXCEPT ![s] = c]
        /\ inOrder \in [Slots -> BOOLEAN]
        /\ inOrder' = [inOrder EXCEPT ![s] = inOrder[s] /\ \A q \in Patchers(s) : q <= m]
    BY <1>4 DEF classReplaceCallback, Calls, TypeOK
  <2>2. PICK c \in Replacements(m, s) : slots' = [slots EXCEPT ![s] = c]
    BY <2>1
  <2>3. slots'[s] = c /\ \A u \in Slots : u # s => slots'[u] = slots[u]
    BY <2>1, <2>2
  <2>4. /\ \A u \in Slots : inOrder'[u] => inOrder[u]
        /\ inOrder'[s] => \A q \in Patchers(s) : q <= m
    BY <2>1, Zenon
  <2>5. /\ PatchesOf(m, s)' = PatchesOf(m, s) \cup {n}
        /\ \A k \in PatchesOf(m, s) : k < n
        /\ patches'[m][n].original = slots[s]
        /\ \A q \in Mods, u \in Slots : q # m \/ u # s => PatchesOf(q, u)' = PatchesOf(q, u)
        /\ \A q \in Mods, u \in Slots : \A k \in PatchesOf(q, u) : patches'[q][k] = patches[q][k]
    BY <1>4, ReplaceFacts
  <2>6. /\ Patchers(s)' = Patchers(s) \cup {m}
        /\ \A u \in Slots : u # s => Patchers(u)' = Patchers(u)
    BY <2>5 DEF Patchers
  <2> HIDE DEF n
  <2>7. ASSUME NEW u \in Slots, pc \notin {"shutdown", "exit"} \/ inOrder'[u]
        PROVE  /\ Callable(slots'[u])
               /\ \A q \in open : \A k \in PatchesOf(q, u)' : Callable(patches'[q][k].original)
    <3>1. /\ Callable(slots[u])
          /\ \A q \in open : \A k \in PatchesOf(q, u) : Callable(patches[q][k].original)
      BY <2>4, <2>7 DEF CallbacksLoaded
    <3>2. Callable(slots'[u])
      BY <2>1, <2>2, <2>3, <3>1 DEF Replacements, Callable
    <3>3. ASSUME NEW q \in open, NEW k \in PatchesOf(q, u)'
          PROVE  Callable(patches'[q][k].original)
      <4>1. q \in Mods
        BY DEF TypeOK
      <4>2. CASE k \in PatchesOf(q, u)
        BY <2>5, <3>1, <4>1, <4>2
      <4>3. CASE k \notin PatchesOf(q, u)
        BY <2>5, <3>1, <4>1, <4>3
      <4> QED BY <4>2, <4>3
    <3> QED BY <3>2, <3>3
  <2>8. CallbacksLoaded'
    BY <2>1, <2>7 DEF CallbacksLoaded, Callable
  <2>9. ASSUME NEW u \in Slots, inOrder'[u]
        PROVE  /\ slots'[u] \in {Game} \cup Patchers(u)'
               /\ \A q \in Mods : \A k \in PatchesOf(q, u)' :
                    LET original == patches'[q][k].original IN
                    /\ original \in {Game} \cup Patchers(u)' /\ original <= q
                    /\ (\A j \in PatchesOf(q, u)' : k <= j) => original # q
    <3>1. /\ slots[u] \in {Game} \cup Patchers(u)
          /\ \A q \in Mods : \A k \in PatchesOf(q, u) :
               LET original == patches[q][k].original IN
               /\ original \in {Game} \cup Patchers(u) /\ original <= q
               /\ (\A j \in PatchesOf(q, u) : k <= j) => original # q
      BY <2>4, <2>9 DEF Ordered
    <3>2. slots'[u] \in {Game} \cup Patchers(u)'
      <4>1. CASE u = s
        BY <2>2, <2>3, <2>6, <3>1, <4>1 DEF Replacements
      <4>2. CASE u # s
        BY <2>3, <2>6, <3>1, <4>2
      <4> QED BY <4>1, <4>2
    <3>3. ASSUME NEW q \in Mods, NEW k \in PatchesOf(q, u)'
          PROVE  /\ patches'[q][k].original \in {Game} \cup Patchers(u)'
                 /\ patches'[q][k].original <= q
                 /\ (\A j \in PatchesOf(q, u)' : k <= j) => patches'[q][k].original # q
      <4>1. CASE k \in PatchesOf(q, u)
        <5>1. Patchers(u) \subseteq Patchers(u)' /\ PatchesOf(q, u) \subseteq PatchesOf(q, u)'
          BY <2>5, <2>6
        <5> QED BY <2>5, <3>1, <4>1, <5>1
      <4>2. CASE k \notin PatchesOf(q, u)
        <5>1. q = m /\ u = s /\ k = n /\ patches'[q][k].original = slots[s]
          BY <2>5, <4>2
        <5>2. slots[s] <= m
          BY <2>4, <2>9, <3>1, <5>1 DEF Game, Mods
        <5>3. slots[s] = m => m \in Patchers(s)
          BY <3>1, <5>1 DEF Game, Mods
        <5>4. slots[s] = m => \E j \in PatchesOf(m, s)' : j < n
          BY <2>5, <5>3 DEF Patchers
        <5>5. PatchesOf(m, s) \subseteq Nat /\ n \in Nat
          <6>1. Len(patches[m]) \in Nat
            BY DEF TypeOK
          <6> QED BY <6>1, PatchesTyped DEF n
        <5>6. (\A j \in PatchesOf(m, s)' : n <= j) => slots[s] # m
          BY <2>5, <5>4, <5>5
        <5> QED BY <2>6, <3>1, <5>1, <5>2, <5>6
      <4> QED BY <4>1, <4>2
    <3> QED BY <3>2, <3>3
  <2>10. Ordered'
    BY <2>9 DEF Ordered
  <2> QED BY <2>8, <2>10
<1>5. CASE Close
  <2>1. /\ LastOpen \in open /\ LastOpen \in Mods
        /\ \A q \in open : q <= LastOpen
    BY <1>5, HasLast DEF Close, TypeOK
  <2>2. /\ pc = "shutdown" /\ slots' = Restored(LastOpen)
        /\ open' = open \ {LastOpen} /\ UNCHANGED <<pc, patches, inOrder>>
    BY <1>5 DEF Close
  <2>3. ASSUME NEW s \in Slots
        PROVE  Patchers(s)' = Patchers(s) /\ \A m \in Mods : PatchesOf(m, s)' = PatchesOf(m, s)
    BY <2>2 DEF Patchers, PatchesOf
  <2>4. ASSUME NEW s \in Slots, inOrder[s]
        PROVE  /\ slots'[s] \in {Game} \cup open'
               /\ slots'[s] \in {Game} \cup Patchers(s)
               /\ \A m \in open' : \A k \in PatchesOf(m, s) :
                    patches[m][k].original \in {Game} \cup open'
    <3>1. /\ slots[s] \in {Game} \cup Patchers(s)
          /\ \A m \in Mods : \A k \in PatchesOf(m, s) :
               LET original == patches[m][k].original IN
               /\ original \in {Game} \cup Patchers(s) /\ original <= m
               /\ (\A j \in PatchesOf(m, s) : k <= j) => original # m
      BY <2>4 DEF Ordered
    <3>2. /\ slots[s] \in {Game} \cup open
          /\ \A m \in open : \A k \in PatchesOf(m, s) :
               patches[m][k].original \in {Game} \cup open
      BY <2>4 DEF CallbacksLoaded, Callable
    <3>3. slots'[s] \in {Game} \cup open' /\ slots'[s] \in {Game} \cup Patchers(s)
      <4>1. CASE LastOpen \notin Patchers(s) /\ Restored(LastOpen)[s] = slots[s]
        BY <2>1, <2>2, <3>1, <3>2, <4>1 DEF Game, Mods
      <4>2. ASSUME NEW k \in PatchesOf(LastOpen, s),
                   Restored(LastOpen)[s] = patches[LastOpen][k].original,
                   \A j \in PatchesOf(LastOpen, s) : k <= j
            PROVE  slots'[s] \in {Game} \cup open' /\ slots'[s] \in {Game} \cup Patchers(s)
        BY <2>1, <2>2, <3>1, <3>2, <4>2
      <4> QED BY <2>1, <4>1, <4>2, RestoredFacts
    <3>4. ASSUME NEW m \in open', NEW k \in PatchesOf(m, s)
          PROVE  patches[m][k].original \in {Game} \cup open'
      <4>1. m \in open /\ m \in 1..NumMods /\ LastOpen \in 1..NumMods /\ m <= LastOpen /\ m # LastOpen
        BY <2>1, <2>2 DEF TypeOK, Mods
      <4>2. /\ patches[m][k].original \in {Game} \cup open
            /\ patches[m][k].original <= m
        BY <3>1, <3>2, <4>1 DEF Mods
      <4>3. NumMods \in Nat /\ open \subseteq 1..NumMods
        BY DEF BoundsAreNumbers, TypeOK, Mods
      <4>4. patches[m][k].original # LastOpen
        BY <4>1, <4>2, <4>3
      <4> QED BY <2>2, <4>2, <4>4
    <3> QED BY <3>3, <3>4
  <2>5. CallbacksLoaded'
    <3>1. open' \subseteq Mods
      BY <2>2 DEF TypeOK
    <3> QED BY <2>2, <2>3, <2>4, <3>1 DEF CallbacksLoaded, Callable
  <2>6. Ordered'
    BY <2>2, <2>3, <2>4 DEF Ordered
  <2> QED BY <2>5, <2>6
<1> QED
  BY <1>1, <1>2, <1>3, <1>4, <1>5 DEF Next, HostCall, hookInstall, hookRemove

\* Every step keeps the order of loading.
LEMMA LoadingInductive == TypeOK /\ Loading /\ [Next]_vars => Loading'
<1> SUFFICES ASSUME TypeOK, Loading, [Next]_vars PROVE Loading'
  OBVIOUS
<1> USE DEF Loading
<1>1. CASE Skip \/ Initialized \/ fhModsInit_Done \/ fhModsShutdown \/ Exit \/ UNCHANGED vars
  <2>1. /\ UNCHANGED <<open, patches>>
        /\ pc' = "exit" => pc = "exit" \/ open = {}
        /\ pc' = "initialize" => pc = "initialize" /\ next' = next
        /\ pc' \notin {"shutdown", "exit"} => pc \notin {"shutdown", "exit"}
    BY <1>1 DEF Skip, Initialized, fhModsInit_Done, fhModsShutdown, Exit, vars, slotVars
  <2> QED BY <2>1 DEF PatchesOf
<1>2. CASE load_native
  BY <1>2 DEF load_native, slotVars, PatchesOf
<1>3. ASSUME NEW m \in Mods, NEW s \in Slots, classReplaceCallback(m, s) PROVE Loading'
  <2>1. m \in open /\ UNCHANGED <<pc, next, open>>
    BY <1>3 DEF classReplaceCallback, Calls
  <2>2. \A q \in Mods \ open, u \in Slots : PatchesOf(q, u)' = PatchesOf(q, u)
    BY <1>3, <2>1, ReplaceFacts
  <2> QED BY <2>1, <2>2
<1>4. ASSUME NEW m \in Mods, NEW t \in Targets, hookInstall(m, t) \/ hookRemove(m, t)
      PROVE  Loading'
  BY <1>4 DEF hookInstall, hookRemove, slotVars, PatchesOf
<1>5. CASE Close
  BY <1>5 DEF Close
<1> QED
  BY <1>1, <1>2, <1>3, <1>4, <1>5 DEF Next, HostCall

\* Every step keeps what hooked functions branch to, and takes a hook away only
\* as HookKept allows.
LEMMA HooksInductive ==
  TypeOK /\ HooksLoaded /\ ListsExact /\ [Next]_vars =>
    /\ HooksLoaded' /\ ListsExact'
    /\ \A t \in Targets, m \in Mods :
         code[t] = m /\ code'[t] # m /\ ~foreign'[t] => m \notin open' \/ t \notin hooks'[m]
<1> SUFFICES ASSUME TypeOK, HooksLoaded, ListsExact, [Next]_vars
             PROVE  /\ HooksLoaded' /\ ListsExact'
                    /\ \A t \in Targets, m \in Mods :
                         code[t] = m /\ code'[t] # m /\ ~foreign'[t] =>
                           m \notin open' \/ t \notin hooks'[m]
  OBVIOUS
<1>0. /\ code \in [Targets -> {NoMod} \cup Mods] /\ hooks \in [Mods -> SUBSET Targets]
      /\ open \subseteq Mods /\ NoMod \notin Mods
  BY DEF TypeOK, NoMod, Mods
<1>1. CASE open \subseteq open' /\ UNCHANGED hookVars
  BY <1>1 DEF HooksLoaded, ListsExact, hookVars
<1>2. ASSUME NEW m \in Mods, NEW t \in Targets, hookInstall(m, t)
      PROVE  /\ HooksLoaded' /\ ListsExact'
             /\ \A u \in Targets, q \in Mods : code[u] = q => code'[u] = q
  <2>1. /\ m \in open /\ UNCHANGED <<open, foreign>> /\ code[t] = NoMod
        /\ code'[t] = m /\ \A u \in Targets : u # t => code'[u] = code[u]
        /\ hooks'[m] = hooks[m] \cup {t} /\ \A q \in Mods : q # m => hooks'[q] = hooks[q]
    BY <1>0, <1>2 DEF hookInstall, Calls
  <2>2. HooksLoaded'
    BY <1>0, <2>1 DEF HooksLoaded
  <2>3. ListsExact'
    BY <1>0, <2>1 DEF ListsExact
  <2> QED BY <1>0, <2>1, <2>2, <2>3
<1>3. ASSUME NEW m \in Mods, NEW t \in Targets, hookRemove(m, t)
      PROVE  /\ HooksLoaded' /\ ListsExact'
             /\ \A u \in Targets, q \in Mods :
                  code[u] = q /\ code'[u] # q /\ ~foreign'[u] => u \notin hooks'[q]
  <2>1. /\ UNCHANGED open
        /\ code'[t] = NoMod /\ \A u \in Targets : u # t => code'[u] = code[u]
        /\ hooks'[m] = hooks[m] \ {t} /\ \A q \in Mods : q # m => hooks'[q] = hooks[q]
    BY <1>0, <1>3 DEF hookRemove
  <2>2. /\ ~foreign'[t] => ~foreign[t] /\ code[t] \in {NoMod, m}
        /\ \A u \in Targets : u # t => foreign'[u] = foreign[u]
    <3>1. foreign \in [Targets -> BOOLEAN]
      BY DEF TypeOK
    <3>2. foreign' = [foreign EXCEPT ![t] = foreign[t] \/ code[t] \notin {NoMod, m}]
      BY <1>3 DEF hookRemove
    <3> QED BY <3>1, <3>2, Zenon
  <2>3. HooksLoaded'
    BY <1>0, <2>1 DEF HooksLoaded
  <2>4. ASSUME NEW u \in Targets, NEW q \in Mods, ~foreign'[u], u \in hooks'[q]
        PROVE  code'[u] = q
    <3>1. CASE u # t
      BY <2>1, <2>2, <2>4, <3>1 DEF ListsExact
    <3>2. CASE u = t
      <4>1. q # m /\ t \in hooks[q] /\ ~foreign[t] /\ code[t] \in {NoMod, m}
        BY <2>1, <2>2, <2>4, <3>2
      <4> QED BY <1>0, <4>1 DEF ListsExact
    <3> QED BY <3>1, <3>2
  <2>5. ListsExact'
    BY <2>4 DEF ListsExact
  <2>6. ASSUME NEW u \in Targets, NEW q \in Mods, code[u] = q, code'[u] # q, ~foreign'[u]
        PROVE  u \notin hooks'[q]
    BY <1>0, <2>1, <2>2, <2>6
  <2> QED BY <2>3, <2>5, <2>6
<1>4. CASE Close
  <2>1. LastOpen \in open /\ LastOpen \in Mods
    BY <1>4, BoundsAreNumbers, HasLast DEF Close, TypeOK
  <2> DEFINE L == LastOpen
  <2>2. /\ open' = open \ {L} /\ UNCHANGED foreign
        /\ \A t \in Targets : code'[t] = IF t \in hooks[L] THEN NoMod ELSE code[t]
        /\ hooks'[L] = {} /\ \A q \in Mods : q # L => hooks'[q] = hooks[q]
    BY <1>0, <1>4, <2>1 DEF Close, Unhooked
  <2> HIDE DEF L
  <2>3. HooksLoaded'
    BY <1>0, <2>2 DEF HooksLoaded
  <2>4. ListsExact'
    BY <1>0, <2>1, <2>2 DEF ListsExact, L
  <2>5. ASSUME NEW t \in Targets, NEW m \in Mods, code[t] = m, code'[t] # m, ~foreign'[t]
        PROVE  m \notin open'
    <3>1. t \in hooks[L] /\ ~foreign[t] /\ L \in Mods
      BY <2>1, <2>2, <2>5 DEF L
    <3>2. m = L
      BY <2>5, <3>1 DEF ListsExact
    <3> QED BY <2>2, <3>2
  <2> QED BY <2>3, <2>4, <2>5
<1>5. ASSUME Next, ~HostCall, ~Close PROVE open \subseteq open' /\ UNCHANGED hookVars
  BY <1>5 DEF Next, Skip, load_native, Initialized, fhModsInit_Done, fhModsShutdown, Exit
<1>6. ASSUME NEW m \in Mods, NEW s \in Slots, classReplaceCallback(m, s)
      PROVE  open \subseteq open' /\ UNCHANGED hookVars
  BY <1>6 DEF classReplaceCallback
<1>7. CASE UNCHANGED vars
  BY <1>1, <1>7 DEF vars
<1>8. CASE HostCall
  <2>1. ASSUME NEW m \in Mods, NEW s \in Slots, classReplaceCallback(m, s)
        PROVE  open \subseteq open' /\ UNCHANGED hookVars
    BY <1>6, <2>1
  <2> QED BY <1>1, <1>2, <1>3, <1>8, <2>1 DEF HostCall
<1> QED
  BY <1>1, <1>4, <1>5, <1>7, <1>8

------------------------------------------------------------------------------
\* The invariant holds in every reachable state.
LEMMA Inductive == Spec => []IInv
<1>1. Init => IInv
  <2> SUFFICES ASSUME Init PROVE IInv
    OBVIOUS
  <2>1. \A m \in Mods, s \in Slots : patches[m] = <<>> /\ PatchesOf(m, s) = {}
    BY DEF Init, PatchesOf
  <2>2. TypeOK
    BY BoundsAreNumbers DEF Init, TypeOK, Callback
  <2>3. CallbacksLoaded /\ Ordered /\ Loading
    BY <2>1 DEF Init, CallbacksLoaded, Callable, Ordered, Loading
  <2>4. HooksLoaded /\ ListsExact
    BY DEF Init, HooksLoaded, ListsExact
  <2> QED BY <2>2, <2>3, <2>4 DEF IInv
<1>2. IInv /\ [Next]_vars => IInv'
  BY TypeInductive, LoadingInductive, SlotsInductive, HooksInductive DEF IInv
<1> QED
  BY <1>1, <1>2, PTL DEF Spec

\* Every variable keeps its type.
THEOREM TypeCorrect == Spec => []TypeOK
<1>1. IInv => TypeOK
  BY DEF IInv
<1> QED
  BY Inductive, <1>1, PTL

\* No class callback leads into a closed library, before shutdown and, where mods
\* patched in load order, while and after the mods are closed.
THEOREM CallbacksAlwaysLoaded == Spec => []CallbacksLoaded
<1>1. IInv => CallbacksLoaded
  BY DEF IInv
<1> QED
  BY Inductive, <1>1, PTL

\* At exit every slot that mods patched in load order is the game's again.
THEOREM SlotsRestored == Spec => []RestoredAtExit
<1>1. IInv => RestoredAtExit
  BY DEF IInv, Loading, CallbacksLoaded, Callable, RestoredAtExit
<1> QED
  BY Inductive, <1>1, PTL

\* No hooked function branches into a closed library.
THEOREM HooksAlwaysLoaded == Spec => []HooksLoaded
<1>1. IInv => HooksLoaded
  BY DEF IInv
<1> QED
  BY Inductive, <1>1, PTL

\* Whatever mods have put into the game leads into open libraries.
THEOREM PatchesAlwaysLoaded == Spec => []PatchesLoaded
<1>1. CallbacksLoaded /\ HooksLoaded => PatchesLoaded
  BY DEF PatchesLoaded
<1> QED
  BY <1>1, CallbacksAlwaysLoaded, HooksAlwaysLoaded, PTL

\* A hook is taken away only by its mod or its shutdown, unless mods removed each
\* other's hooks from that target.
THEOREM HooksKept == Spec => HookKept
<1>1. IInv /\ [Next]_vars =>
        [\A t \in Targets, m \in Mods :
           code[t] = m /\ code'[t] # m /\ ~foreign'[t] =>
             m \notin open' \/ t \notin hooks'[m]]_vars
  BY HooksInductive DEF IInv
<1> QED
  BY Inductive, <1>1, PTL DEF Spec, HookKept
===============================================================================
