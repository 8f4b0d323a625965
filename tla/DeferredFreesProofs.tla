------------------------- MODULE DeferredFreesProofs -------------------------
\* The safety properties of DeferredFrees for any set of blocks and any capacity.
\* A block the unfinished frame may have drawn with has not been passed by a tick
\* yet: the invariant says where in the loop, and how far doQueuedLoads has emptied
\* the stack.
EXTENDS DeferredFrees, TLAPS

LoadPlaces == {"tickLoad1", "reloading", "tickLoad2", "load"}

\* doQueuedLoads: where frees are immediate and how many ticks the entries passed.
LoadSteps ==
  /\ pc = "flush" => freeDelay = 2
  /\ pc \in LoadPlaces \cup {"unload"} => freeDelay = 0
  /\ pc \in LoadPlaces => old = 0
  /\ pc = "tickLoad1" => \A k \in 1..Len(stack) : k < d => stack[k].delay = 1
  /\ pc \in {"reloading", "tickLoad2"} => \A k \in 1..Len(stack) : stack[k].delay = 1
  /\ pc = "tickLoad2" => d = 1
  /\ pc = "load" => stack = <<>>

\* Where no frame is unfinished that may have drawn with a freed block.
Finished == {"flush", "objflush", "tickEnd", "loads", "unload", "load", "tickLoad1", "reloading", "tickLoad2"}

\* Where the entries of the unfinished frame are the youngest: no tick has passed them.
DrawnSteps ==
  /\ pc = "update" =>
       \A k \in 1..Len(stack) : stack[k].ptr \in drawn => stack[k].delay = 2
  /\ pc \in {"tickWait", "tickPause"} =>
       \A k \in 1..Len(stack) : k >= d /\ stack[k].ptr \in drawn => stack[k].delay = 2
  /\ pc \in Finished => drawn = {}

IInv ==
  TypeOK /\ PendingExact /\ LoadSteps /\ DeferralEndsAtFirstLoad /\ DrawnSteps

\* Dropping an entry: one shorter, with the last entry in its place.
LEMMA DropAtFacts ==
  ASSUME stack \in Seq(Entry), NEW k \in 1..Len(stack)
  PROVE  /\ DropAt(k) \in Seq(Entry)
         /\ Len(DropAt(k)) = Len(stack) - 1
         /\ \A j \in 1..(Len(stack) - 1) :
              DropAt(k)[j] = IF j = k THEN stack[Len(stack)] ELSE stack[j]
<1> DEFINE t == [stack EXCEPT ![k] = stack[Len(stack)]]
<1>1. /\ t \in Seq(Entry) /\ Len(t) = Len(stack)
      /\ \A j \in 1..Len(stack) : t[j] = IF j = k THEN stack[Len(stack)] ELSE stack[j]
  OBVIOUS
<1>2. DropAt(k) = SubSeq(t, 1, Len(stack) - 1)
  BY <1>1 DEF DropAt, Front, Last
<1> HIDE DEF t
<1> QED
  BY <1>1, <1>2

\* Appending an entry.
LEMMA PushFacts ==
  ASSUME stack \in Seq(Entry), NEW e \in Entry
  PROVE  /\ Append(stack, e) \in Seq(Entry)
         /\ Len(Append(stack, e)) = Len(stack) + 1
         /\ Append(stack, e)[Len(stack) + 1] = e
         /\ \A j \in 1..Len(stack) : Append(stack, e)[j] = stack[j]
OBVIOUS

\* One entry's delay is changed.
LEMMA DelayFacts ==
  ASSUME stack \in Seq(Entry), NEW k \in 1..Len(stack), NEW left \in 1..2
  PROVE  /\ SetDelay(k, left) \in Seq(Entry) /\ Len(SetDelay(k, left)) = Len(stack)
         /\ \A j \in 1..Len(stack) : SetDelay(k, left)[j].ptr = stack[j].ptr
         /\ SetDelay(k, left)[k].delay = left
         /\ \A j \in 1..Len(stack) : j # k => SetDelay(k, left)[j] = stack[j]
<1>1. stack[k] \in Entry
  OBVIOUS
<1>2. [stack[k] EXCEPT !.delay = left] \in Entry
      /\ [stack[k] EXCEPT !.delay = left].ptr = stack[k].ptr
      /\ [stack[k] EXCEPT !.delay = left].delay = left
  BY <1>1 DEF Entry
<1> QED
  BY <1>2 DEF SetDelay

\* Initially nothing is freed and nothing waits.
LEMMA InitInv == Init => IInv
<1> SUFFICES ASSUME Init PROVE IInv
  OBVIOUS
<1>1. TypeOK
  <2>1. stack \in Seq(Entry) /\ Len(stack) <= Capacity
    BY CapacityPositive DEF Init
  <2>2. d \in 1..(Capacity + 1) /\ freeDelay \in {0, 2} /\ old \in {0, 2}
    BY CapacityPositive DEF Init
  <2>3. drawn \subseteq Blocks /\ loaded \in BOOLEAN /\ p \in Blocks
        /\ from \in Drawing \cup {"objflush"}
        /\ used \subseteq Blocks /\ held \subseteq used /\ pc \in Callers
    BY DEF Init, Callers, Drawing
  <2> QED BY <2>1, <2>2, <2>3 DEF TypeOK
<1>2. PendingExact
  BY DEF Init, PendingExact, Pending
<1>3. LoadSteps /\ DeferralEndsAtFirstLoad
  BY DEF Init, LoadSteps, LoadPlaces, DeferralEndsAtFirstLoad
<1>4. DrawnSteps
  BY DEF Init, DrawnSteps, Finished
<1> QED
  BY <1>1, <1>2, <1>3, <1>4 DEF IInv

\* A step keeps the types.
LEMMA TypeStep == IInv /\ [Next]_vars => TypeOK'
<1> SUFFICES ASSUME IInv, [Next]_vars PROVE TypeOK'
  OBVIOUS
<1> USE CapacityPositive DEF Callers, Drawing
<1>0. /\ TypeOK /\ stack \in Seq(Entry) /\ Len(stack) \in Nat /\ Capacity \in Nat
      /\ pc = "flush" => freeDelay = 2
  BY DEF IInv, TypeOK, LoadSteps
<1>1. ASSUME NEW b \in Blocks, mmAlloc(b) PROVE TypeOK'
  BY <1>0, <1>1 DEF TypeOK, mmAlloc
<1>2. ASSUME NEW b \in Blocks, FreeAtOnce(b) \/ FreeNow(b) PROVE TypeOK'
  <2>1. b \in used => used' \subseteq Blocks /\ held' \subseteq used'
    BY <1>0, <1>2 DEF TypeOK, FreeAtOnce, FreeNow, mmFree
  <2> QED BY <1>0, <1>2, <2>1 DEF TypeOK, FreeAtOnce, FreeNow, mmFree
<1>3. ASSUME NEW b \in Blocks, mmFreeDeferred(b) PROVE TypeOK'
  <2>1. [ptr |-> b, delay |-> freeDelay] \in Entry
    BY <1>0, <1>3 DEF TypeOK, mmFreeDeferred, Entry
  <2>2. stack' \in Seq(Entry) /\ Len(stack') <= Capacity
    BY <1>0, <1>3, <2>1, PushFacts DEF mmFreeDeferred, Push
  <2> QED BY <1>0, <1>3, <2>2 DEF TypeOK, mmFreeDeferred
<1>4. ASSUME NEW b \in Blocks, Overflow(b) PROVE TypeOK'
  BY <1>0, <1>4 DEF TypeOK, Overflow, GXFlush_
<1>5. CASE FlushStep
  <2>1. 1 \in 1..Len(stack) /\ stack[1].ptr \in Pending
    BY <1>0, <1>5 DEF FlushStep, Pending
  <2>2. stack' \in Seq(Entry) /\ Len(stack') <= Capacity
    BY <1>0, <1>5, <2>1, DropAtFacts DEF FlushStep, TypeOK
  <2>3. stack[1].ptr \notin held
    BY <2>1 DEF IInv, PendingExact
  <2> QED BY <1>0, <1>5, <2>2, <2>3 DEF TypeOK, FlushStep, mmFree
<1>6. CASE FlushDone
  <2>1. [ptr |-> p, delay |-> freeDelay] \in Entry
    BY <1>0, <1>6 DEF TypeOK, FlushDone, Entry
  <2>2. stack' \in Seq(Entry) /\ Len(stack') <= Capacity
    BY <1>0, <1>6, <2>1, PushFacts DEF FlushDone, Push
  <2> QED BY <1>0, <1>6, <2>2 DEF TypeOK, FlushDone
<1>7. CASE TickStep
  <2>1. d \in 1..Len(stack) /\ stack[d] \in Entry
    BY <1>0, <1>7 DEF TickStep, TypeOK
  <2>2. stack[d].ptr \notin held
    BY <1>0, <2>1 DEF IInv, PendingExact, Pending
  <2>3. CASE stack[d].delay - 1 = 0
    <3>1. stack' = DropAt(d) /\ d' = d /\ used' = used \ {stack[d].ptr}
      BY <1>7, <2>3 DEF TickStep, mmFree
    <3>2. stack' \in Seq(Entry) /\ Len(stack') <= Capacity
      BY <1>0, <2>1, <3>1, DropAtFacts DEF TypeOK
    <3> QED BY <1>0, <1>7, <2>2, <3>1, <3>2 DEF TypeOK, TickStep
  <2>4. CASE stack[d].delay - 1 # 0
    <3>1. stack' = SetDelay(d, stack[d].delay - 1) /\ d' = d + 1
          /\ used' = used
      BY <1>7, <2>4 DEF TickStep
    <3>2. stack[d].delay - 1 \in 1..2
      BY <2>1, <2>4 DEF Entry
    <3>3. stack' \in Seq(Entry) /\ Len(stack') = Len(stack)
      BY <1>0, <2>1, <3>1, <3>2, DelayFacts
    <3>4. d' \in 1..(Capacity + 1) /\ Len(stack') <= Capacity
      BY <1>0, <2>1, <3>1, <3>3 DEF TypeOK
    <3>5. UNCHANGED <<pc, used, held, freeDelay, old, p, from, loaded, drawn>>
      BY <1>7, <3>1 DEF TickStep
    <3>6. pc' \in Callers \cup Ticks \cup {"flush", "loads", "reloading", "pause"}
          /\ used' \subseteq Blocks /\ held' \subseteq used' /\ p' \in Blocks
          /\ freeDelay' \in {0, 2} /\ old' \in {0, 2}
      BY <1>0, <3>5 DEF TypeOK
    <3>7. loaded' \in BOOLEAN /\ drawn' \subseteq Blocks /\ from' \in Drawing \cup {"objflush"}
      BY <1>0, <3>5 DEF TypeOK
    <3> QED BY <3>3, <3>4, <3>6, <3>7 DEF TypeOK
  <2> QED BY <2>3, <2>4
<1>8. CASE TickDone
  BY <1>0, <1>8 DEF TypeOK, TickDone, Ticks, After
<1>9. CASE EndFrame \/ ObjectsFlushed \/ TickThenWait
  BY <1>0, <1>9 DEF TypeOK, EndFrame, ObjectsFlushed, TickThenWait, StartTick, GXFlush_, Ticks
<1>10. CASE WaitThenTick
  BY <1>0, <1>10 DEF TypeOK, WaitThenTick, StartTick, waitNextFrame, Ticks
<1>11. CASE Pause \/ Finish \/ NextFrame
  BY <1>0, <1>11 DEF TypeOK, Pause, Finish, NextFrame, waitNextFrame, GXFlush_, Ticks
<1>12. CASE StartLoads
  BY <1>0, <1>12 DEF TypeOK, StartLoads, GXFlush_, Ticks
<1>13. CASE Unloaded \/ SecondTick
  BY <1>0, <1>13 DEF TypeOK, Unloaded, SecondTick, StartTick, Ticks
<1>14. CASE Loaded
  BY <1>0, <1>14 DEF TypeOK, Loaded, waitNextFrame, Ticks
<1>15. CASE UNCHANGED vars
  BY <1>0, <1>15 DEF TypeOK, vars, Ticks, Entry
<1> QED
  BY <1>1, <1>2, <1>3, <1>4, <1>5, <1>6, <1>7, <1>8, <1>9, <1>10, <1>11, <1>12,
     <1>13, <1>14, <1>15 DEF Next, GameLoop

Distinct == \A j, k \in 1..Len(stack) : stack[j].ptr = stack[k].ptr => j = k

\* The pending blocks, by position.
LEMMA PendingByPlace ==
  ASSUME stack \in Seq(Entry)
  PROVE  /\ Pending = {stack[k].ptr : k \in 1..Len(stack)}
         /\ PendingExact => Distinct
BY DEF Pending, PendingExact, Distinct

\* Dropping an entry takes its block, and only that, out of the stack.
LEMMA DropPending ==
  ASSUME stack \in Seq(Entry), Distinct, NEW k \in 1..Len(stack), stack' = DropAt(k)
  PROVE  /\ Pending' = Pending \ {stack[k].ptr}
         /\ \A i, j \in DOMAIN stack' : stack'[i].ptr = stack'[j].ptr => i = j
<1>1. /\ stack' \in Seq(Entry) /\ Len(stack') = Len(stack) - 1
      /\ \A j \in 1..(Len(stack) - 1) :
           stack'[j] = IF j = k THEN stack[Len(stack)] ELSE stack[j]
  BY DropAtFacts
<1>2. Len(stack) \in Nat /\ DOMAIN stack' = 1..(Len(stack) - 1)
      /\ DOMAIN stack = 1..Len(stack)
  BY <1>1
<1>3. \A i, j \in DOMAIN stack' : stack'[i].ptr = stack'[j].ptr => i = j
  BY <1>1, <1>2 DEF Distinct
<1>4. ASSUME NEW b \in Pending' PROVE b \in Pending /\ b # stack[k].ptr
  <2>1. PICK j \in 1..(Len(stack) - 1) : b = stack'[j].ptr
    BY <1>2 DEF Pending
  <2> QED
    BY <2>1, <1>1, <1>2 DEF Pending, Distinct
<1>5. ASSUME NEW b \in Pending, b # stack[k].ptr PROVE b \in Pending'
  <2>1. PICK j \in 1..Len(stack) : b = stack[j].ptr
    BY <1>2 DEF Pending
  <2>2. CASE j = Len(stack)
    <3>1. k \in 1..(Len(stack) - 1) /\ stack'[k] = stack[j]
      BY <2>1, <2>2, <1>1, <1>2, <1>5
    <3> QED BY <2>1, <3>1, <1>2 DEF Pending
  <2>3. CASE j # Len(stack)
    <3>1. j \in 1..(Len(stack) - 1) /\ stack'[j] = stack[j]
      BY <2>1, <2>3, <1>1, <1>2, <1>5
    <3> QED BY <2>1, <3>1, <1>2 DEF Pending
  <2> QED BY <2>2, <2>3
<1> QED
  BY <1>3, <1>4, <1>5

\* Appending an entry adds its block.
LEMMA PushPending ==
  ASSUME stack \in Seq(Entry), Distinct, NEW b \in Blocks, freeDelay \in 1..2,
         b \notin Pending, Push(b)
  PROVE  /\ Pending' = Pending \cup {b}
         /\ \A i, j \in DOMAIN stack' : stack'[i].ptr = stack'[j].ptr => i = j
<1> DEFINE e == [ptr |-> b, delay |-> freeDelay]
<1>1. e \in Entry /\ e.ptr = b
  BY DEF Entry
<1>2. stack' = Append(stack, e)
  BY DEF Push
<1> HIDE DEF e
<1>3. /\ stack' \in Seq(Entry) /\ Len(stack') = Len(stack) + 1
      /\ stack'[Len(stack) + 1] = e
      /\ \A j \in 1..Len(stack) : stack'[j] = stack[j]
  BY <1>1, <1>2, PushFacts
<1>4. Len(stack) \in Nat /\ DOMAIN stack' = 1..(Len(stack) + 1)
      /\ DOMAIN stack = 1..Len(stack)
  BY <1>3
<1>5. \A j \in 1..(Len(stack) + 1) : j \in 1..Len(stack) \/ j = Len(stack) + 1
  BY <1>4
<1>6. \A j \in 1..Len(stack) : stack[j].ptr # b
  BY <1>4 DEF Pending
<1> QED
  BY <1>1, <1>3, <1>4, <1>5, <1>6 DEF Pending, Distinct

\* A step keeps each pending block in the stack exactly once.
LEMMA PendingStep == IInv /\ [Next]_vars => PendingExact'
<1> SUFFICES ASSUME IInv, [Next]_vars PROVE PendingExact'
  OBVIOUS
<1>0. /\ TypeOK /\ PendingExact /\ stack \in Seq(Entry) /\ Len(stack) \in Nat
      /\ held \subseteq used /\ used \subseteq Blocks
      /\ used \ held = Pending \cup (IF pc = "flush" THEN {p} ELSE {})
      /\ pc = "flush" => p \notin Pending /\ freeDelay = 2 /\ p \in Blocks
      /\ freeDelay # 0 => freeDelay \in 1..2
      /\ Distinct
  BY PendingByPlace DEF IInv, TypeOK, LoadSteps, PendingExact
<1>a. ASSUME UNCHANGED stack, UNCHANGED pc, UNCHANGED p,
             used' \ held' = used \ held
      PROVE  PendingExact'
  BY <1>0, <1>a DEF PendingExact, Pending
<1>b. ASSUME UNCHANGED stack, UNCHANGED <<used, held>>, pc # "flush", pc' # "flush"
      PROVE  PendingExact'
  BY <1>0, <1>b DEF PendingExact, Pending
<1>1. ASSUME NEW b \in Blocks, mmAlloc(b) PROVE PendingExact'
  <2>1. used' \ held' = used \ held
    BY <1>0, <1>1 DEF mmAlloc
  <2> QED BY <1>1, <1>a, <2>1 DEF mmAlloc
<1>2. ASSUME NEW b \in Blocks, FreeAtOnce(b) \/ FreeNow(b) PROVE PendingExact'
  <2>1. used' \ held' = used \ held
    BY <1>0, <1>2 DEF FreeAtOnce, FreeNow, mmFree
  <2> QED BY <1>2, <1>a, <2>1 DEF FreeAtOnce, FreeNow
<1>3. ASSUME NEW b \in Blocks, mmFreeDeferred(b) PROVE PendingExact'
  <2>1. /\ b \in held /\ held' = held \ {b} /\ used' = used /\ pc' = pc /\ pc # "flush"
        /\ Push(b) /\ freeDelay \in 1..2 /\ b \notin Pending
    BY <1>0, <1>3 DEF mmFreeDeferred, Callers, Drawing
  <2>2. /\ Pending' = Pending \cup {b}
        /\ \A i, j \in DOMAIN stack' : stack'[i].ptr = stack'[j].ptr => i = j
    BY <1>0, <2>1, PushPending
  <2> QED BY <1>0, <2>1, <2>2 DEF PendingExact
<1>4. ASSUME NEW b \in Blocks, Overflow(b) PROVE PendingExact'
  <2>1. /\ b \in held /\ held' = held \ {b} /\ used' = used /\ pc' = "flush"
        /\ pc # "flush" /\ p' = b /\ stack' = stack
    BY <1>4 DEF Overflow, Drawing
  <2> QED BY <1>0, <2>1 DEF PendingExact, Pending
<1>5. CASE FlushStep
  <2>1. /\ pc = "flush" /\ pc' = pc /\ p' = p /\ held' = held
        /\ 1 \in 1..Len(stack) /\ used' = used \ {stack[1].ptr} /\ stack' = DropAt(1)
    BY <1>0, <1>5 DEF FlushStep, mmFree
  <2>2. /\ Pending' = Pending \ {stack[1].ptr}
        /\ \A i, j \in DOMAIN stack' : stack'[i].ptr = stack'[j].ptr => i = j
    BY <1>0, <2>1, DropPending
  <2>3. stack[1].ptr \in Pending
    BY <1>0, <2>1 DEF Pending
  <2> QED BY <1>0, <2>1, <2>2, <2>3 DEF PendingExact
<1>6. CASE FlushDone
  <2>1. /\ pc = "flush" /\ pc' # "flush" /\ held' = held /\ used' = used /\ Push(p)
    BY <1>0, <1>6 DEF FlushDone, TypeOK, Drawing
  <2>2. /\ Pending' = Pending \cup {p}
        /\ \A i, j \in DOMAIN stack' : stack'[i].ptr = stack'[j].ptr => i = j
    BY <1>0, <2>1, PushPending
  <2> QED BY <1>0, <2>1, <2>2 DEF PendingExact
<1>7. CASE TickStep
  <2>1. /\ d \in 1..Len(stack) /\ stack[d] \in Entry /\ pc # "flush" /\ pc' = pc
        /\ held' = held
    BY <1>0, <1>7 DEF TickStep, TypeOK, Ticks
  <2>2. CASE stack[d].delay - 1 = 0
    <3>1. stack' = DropAt(d) /\ used' = used \ {stack[d].ptr}
      BY <1>7, <2>2 DEF TickStep, mmFree
    <3>2. /\ Pending' = Pending \ {stack[d].ptr}
          /\ \A i, j \in DOMAIN stack' : stack'[i].ptr = stack'[j].ptr => i = j
      BY <1>0, <2>1, <3>1, DropPending
    <3> QED BY <1>0, <2>1, <3>1, <3>2 DEF PendingExact
  <2>3. CASE stack[d].delay - 1 # 0
    <3>1. stack' = SetDelay(d, stack[d].delay - 1) /\ used' = used
      BY <1>7, <2>3 DEF TickStep
    <3>2. stack[d].delay - 1 \in 1..2
      BY <2>1, <2>3 DEF Entry
    <3>3. /\ Len(stack') = Len(stack) /\ stack' \in Seq(Entry)
          /\ \A j \in 1..Len(stack) : stack'[j].ptr = stack[j].ptr
      BY <1>0, <2>1, <3>1, <3>2, DelayFacts
    <3>4. DOMAIN stack' = 1..Len(stack) /\ DOMAIN stack = 1..Len(stack)
      BY <1>0, <3>3
    <3>5. Pending' = Pending
      BY <3>3, <3>4 DEF Pending
    <3> QED BY <1>0, <2>1, <3>1, <3>3, <3>4, <3>5 DEF PendingExact, Distinct
  <2> QED BY <2>2, <2>3
<1>8. CASE TickDone
  <2>1. After[pc] # "flush" /\ pc # "flush"
    BY <1>8 DEF TickDone, After, Ticks
  <2> QED BY <1>8, <1>b, <2>1 DEF TickDone
<1>9. CASE EndFrame \/ ObjectsFlushed \/ TickThenWait \/ WaitThenTick \/ Pause \/ Finish
  BY <1>9, <1>b DEF EndFrame, ObjectsFlushed, TickThenWait, WaitThenTick, Pause, Finish, StartTick
<1>10. CASE NextFrame \/ StartLoads \/ Unloaded \/ SecondTick \/ Loaded
  BY <1>10, <1>b DEF NextFrame, StartLoads, Unloaded, SecondTick, Loaded, StartTick
<1>11. CASE UNCHANGED vars
  BY <1>11, <1>a DEF vars
<1> QED
  BY <1>1, <1>2, <1>3, <1>4, <1>5, <1>6, <1>7, <1>8, <1>9, <1>10, <1>11
     DEF Next, GameLoop

\* What one step of mmFreeTick's loop does.
LEMMA TickFacts ==
  ASSUME IInv, TickStep
  PROVE  /\ d \in 1..Len(stack) /\ pc \in Ticks /\ pc' = pc
         /\ UNCHANGED <<freeDelay, old, loaded, drawn>>
         /\ stack \in Seq(Entry) /\ Len(stack) \in Nat
         /\ stack[d].delay \in 1..2
         /\ \/ /\ stack[d].delay = 1 /\ d' = d /\ stack' = DropAt(d)
               /\ used' = used \ {stack[d].ptr}
               /\ stack' \in Seq(Entry) /\ Len(stack') = Len(stack) - 1
               /\ \A j \in 1..(Len(stack) - 1) :
                    stack'[j] = IF j = d THEN stack[Len(stack)] ELSE stack[j]
            \/ /\ stack[d].delay = 2 /\ d' = d + 1 /\ used' = used
               /\ stack' \in Seq(Entry) /\ Len(stack') = Len(stack)
               /\ \A j \in 1..Len(stack) : stack'[j].ptr = stack[j].ptr
               /\ stack'[d].delay = 1
               /\ \A j \in 1..Len(stack) : j # d => stack'[j] = stack[j]
<1>1. /\ d \in 1..Len(stack) /\ stack \in Seq(Entry) /\ Len(stack) \in Nat
      /\ stack[d] \in Entry
  BY DEF IInv, TypeOK, TickStep
<1>2. /\ pc \in Ticks /\ pc' = pc /\ UNCHANGED <<freeDelay, old, loaded, drawn>>
  BY DEF TickStep
<1>3. stack[d].delay \in 1..2
  BY <1>1 DEF Entry
<1>4. CASE stack[d].delay = 1
  <2>1. d' = d /\ stack' = DropAt(d) /\ used' = used \ {stack[d].ptr}
    BY <1>4 DEF TickStep, mmFree
  <2>2. /\ stack' \in Seq(Entry) /\ Len(stack') = Len(stack) - 1
        /\ \A j \in 1..(Len(stack) - 1) :
             stack'[j] = IF j = d THEN stack[Len(stack)] ELSE stack[j]
    BY <1>1, <2>1, DropAtFacts
  <2> QED BY <1>1, <1>2, <1>3, <1>4, <2>1, <2>2
<1>5. CASE stack[d].delay = 2
  <2>1. d' = d + 1 /\ stack' = SetDelay(d, 1) /\ used' = used
    BY <1>5 DEF TickStep
  <2>2. /\ stack' \in Seq(Entry) /\ Len(stack') = Len(stack)
        /\ \A j \in 1..Len(stack) : stack'[j].ptr = stack[j].ptr
        /\ stack'[d].delay = 1
        /\ \A j \in 1..Len(stack) : j # d => stack'[j] = stack[j]
    BY <1>1, <2>1, DelayFacts
  <2> QED BY <1>1, <1>2, <1>3, <1>5, <2>1, <2>2
<1> QED
  BY <1>3, <1>4, <1>5

\* A step keeps what doQueuedLoads has reached.
LEMMA LoadStep == IInv /\ [Next]_vars => LoadSteps' /\ DeferralEndsAtFirstLoad'
<1> SUFFICES ASSUME IInv, [Next]_vars PROVE LoadSteps' /\ DeferralEndsAtFirstLoad'
  OBVIOUS
<1>0. /\ LoadSteps /\ DeferralEndsAtFirstLoad /\ stack \in Seq(Entry)
      /\ Len(stack) \in Nat /\ freeDelay \in {0, 2} /\ d \in Nat \ {0}
  BY CapacityPositive DEF IInv, TypeOK
<1>a. ASSUME UNCHANGED <<pc, stack, freeDelay, old, d, loaded>>
      PROVE  LoadSteps' /\ DeferralEndsAtFirstLoad'
  BY <1>0, <1>a DEF LoadSteps, DeferralEndsAtFirstLoad
<1>b. ASSUME pc' \notin LoadPlaces \cup {"unload", "flush"}, freeDelay' = freeDelay,
             stack' = stack, loaded' = loaded
      PROVE  LoadSteps' /\ DeferralEndsAtFirstLoad'
  BY <1>0, <1>b DEF LoadSteps, DeferralEndsAtFirstLoad, LoadPlaces
<1>1. ASSUME NEW b \in Blocks, mmAlloc(b) \/ FreeAtOnce(b) \/ FreeNow(b)
      PROVE  LoadSteps' /\ DeferralEndsAtFirstLoad'
  BY <1>1, <1>a DEF mmAlloc, FreeAtOnce, FreeNow
<1>2. ASSUME NEW b \in Blocks, mmFreeDeferred(b)
      PROVE  LoadSteps' /\ DeferralEndsAtFirstLoad'
  <2>1. pc \in Drawing \cup {"objflush"} /\ pc' = pc /\ ~loaded /\ loaded' = loaded
    BY <1>0, <1>2 DEF mmFreeDeferred, Callers, LoadSteps, LoadPlaces, DeferralEndsAtFirstLoad
  <2> QED BY <2>1 DEF LoadSteps, DeferralEndsAtFirstLoad, LoadPlaces, Drawing
<1>3. ASSUME NEW b \in Blocks, Overflow(b)
      PROVE  LoadSteps' /\ DeferralEndsAtFirstLoad'
  <2>1. pc' = "flush" /\ freeDelay' = 2 /\ ~loaded /\ loaded' = loaded
    BY <1>0, <1>3 DEF Overflow, DeferralEndsAtFirstLoad
  <2> QED BY <2>1 DEF LoadSteps, DeferralEndsAtFirstLoad, LoadPlaces
<1>4. CASE FlushStep \/ FlushDone
  <2>1. from \in Drawing \cup {"objflush"}
    BY DEF IInv, TypeOK
  <2>2. /\ pc' \in {"flush", "objflush"} \cup Drawing /\ freeDelay' = 2 /\ ~loaded /\ loaded' = loaded
    BY <1>0, <1>4, <2>1 DEF FlushStep, FlushDone, LoadSteps, DeferralEndsAtFirstLoad
  <2> QED BY <2>2 DEF LoadSteps, DeferralEndsAtFirstLoad, LoadPlaces, Drawing
<1>5. CASE TickStep
  <2>1. ~loaded /\ loaded' = loaded
    <3>1. d \in 1..Len(stack) /\ loaded' = loaded
      BY <1>5, TickFacts
    <3>2. stack # <<>>
      BY <1>0, <3>1
    <3> QED BY <1>0, <3>1, <3>2 DEF DeferralEndsAtFirstLoad
  <2>2. pc \in Ticks /\ pc' = pc /\ freeDelay' = freeDelay /\ old' = old
    BY <1>5, TickFacts
  <2>3. pc = "tickLoad1" => \A k \in 1..Len(stack') : k < d' => stack'[k].delay = 1
    <3> SUFFICES ASSUME pc = "tickLoad1", NEW k \in 1..Len(stack'), k < d'
                 PROVE  stack'[k].delay = 1
      OBVIOUS
    <3>1. \A j \in 1..Len(stack) : j < d => stack[j].delay = 1
      BY <1>0 DEF LoadSteps
    <3> QED BY <3>1, <1>5, TickFacts
  <2>4. pc = "tickLoad2" =>
          d' = 1 /\ \A k \in 1..Len(stack') : stack'[k].delay = 1
    <3> SUFFICES ASSUME pc = "tickLoad2"
                 PROVE  d' = 1 /\ \A k \in 1..Len(stack') : stack'[k].delay = 1
      OBVIOUS
    <3>1. d = 1 /\ \A j \in 1..Len(stack) : stack[j].delay = 1
      BY <1>0 DEF LoadSteps
    <3> QED BY <3>1, <1>5, TickFacts
  <2>5. LoadSteps'
    BY <1>0, <2>2, <2>3, <2>4 DEF LoadSteps, LoadPlaces, Ticks
  <2> QED BY <2>1, <2>5 DEF DeferralEndsAtFirstLoad
<1>6. CASE TickDone
  <2>1. /\ d > Len(stack) /\ pc \in Ticks /\ pc' = After[pc]
        /\ UNCHANGED <<stack, freeDelay, old, d, loaded>>
    BY <1>6 DEF TickDone
  <2>2. CASE pc = "tickLoad1"
    <3>1. pc' = "reloading" /\ \A k \in 1..Len(stack) : stack[k].delay = 1
      BY <1>0, <2>1, <2>2 DEF After, LoadSteps
    <3> QED BY <1>0, <2>1, <2>2, <3>1 DEF LoadSteps, DeferralEndsAtFirstLoad, LoadPlaces
  <2>3. CASE pc = "tickLoad2"
    <3>1. pc' = "load" /\ stack = <<>>
      BY <1>0, <2>1, <2>3 DEF After, LoadSteps
    <3> QED BY <1>0, <2>1, <2>3, <3>1 DEF LoadSteps, DeferralEndsAtFirstLoad, LoadPlaces
  <2>4. CASE pc \in {"tickEnd", "tickWait", "tickPause"}
    <3>1. pc' \in {"loads", "finish", "pause"}
      BY <2>1, <2>4 DEF After
    <3> QED BY <2>1, <3>1, <1>b DEF LoadPlaces
  <2> QED BY <2>1, <2>2, <2>3, <2>4 DEF Ticks
<1>7. CASE EndFrame \/ ObjectsFlushed \/ TickThenWait \/ WaitThenTick \/ Pause \/ Finish \/ NextFrame
  BY <1>7, <1>b DEF EndFrame, ObjectsFlushed, TickThenWait, WaitThenTick, Pause, Finish, NextFrame,
     StartTick, LoadPlaces
<1>8. CASE StartLoads
  BY <1>0, <1>8 DEF StartLoads, LoadSteps, DeferralEndsAtFirstLoad, LoadPlaces
<1>9. CASE Unloaded
  <2>1. /\ pc' = "tickLoad1" /\ freeDelay' = 0 /\ old' = 0 /\ d' = 1
        /\ UNCHANGED <<stack, loaded>>
    BY <1>0, <1>9 DEF Unloaded, StartTick, LoadSteps
  <2> QED BY <1>0, <2>1 DEF LoadSteps, DeferralEndsAtFirstLoad, LoadPlaces
<1>10. CASE SecondTick
  <2>1. /\ pc = "reloading" /\ pc' = "tickLoad2" /\ d' = 1
        /\ UNCHANGED <<stack, freeDelay, old, loaded>>
    BY <1>10 DEF SecondTick, StartTick
  <2> QED BY <1>0, <2>1 DEF LoadSteps, DeferralEndsAtFirstLoad, LoadPlaces
<1>11. CASE Loaded
  <2>1. pc' = "update" /\ freeDelay' = 0 /\ stack' = <<>>
    BY <1>0, <1>11 DEF Loaded, LoadSteps, LoadPlaces
  <2> QED BY <2>1 DEF LoadSteps, DeferralEndsAtFirstLoad, LoadPlaces
<1>12. CASE UNCHANGED vars
  BY <1>12, <1>a DEF vars
<1> QED
  BY <1>1, <1>2, <1>3, <1>4, <1>5, <1>6, <1>7, <1>8, <1>9, <1>10, <1>11, <1>12
     DEF Next, GameLoop

\* A step that keeps the stack, adds nothing to the frame and enters no place that
\* asks more.
LEMMA SamePlaces ==
  ASSUME IInv, UNCHANGED stack, drawn' \subseteq drawn,
         \/ pc' = pc /\ d' = d
         \/ pc \in Finished
         \/ pc' \in {"pause", "finish"}
         \/ pc = "update" /\ pc' \in {"tickWait", "tickPause"}
  PROVE  DrawnSteps'
<1>1. DrawnSteps
  BY DEF IInv
<1>2. CASE pc' = pc /\ d' = d
  BY <1>1, <1>2 DEF DrawnSteps
<1>3. CASE pc \in Finished
  <2>1. drawn' = {}
    BY <1>1, <1>3 DEF DrawnSteps
  <2> QED BY <2>1 DEF DrawnSteps
<1>4. CASE pc' \in {"pause", "finish"}
  BY <1>4 DEF DrawnSteps, Finished
<1>5. CASE pc = "update" /\ pc' \in {"tickWait", "tickPause"}
  BY <1>1, <1>5 DEF DrawnSteps, Finished
<1> QED
  BY <1>2, <1>3, <1>4, <1>5

\* A step that ends the frame.
LEMMA FrameEnds == GXFlush_ => DrawnSteps'
BY DEF GXFlush_, DrawnSteps

\* A step keeps who may be drawn.
LEMMA DrawnStep == IInv /\ [Next]_vars => DrawnSteps'
<1> SUFFICES ASSUME IInv, [Next]_vars PROVE DrawnSteps'
  OBVIOUS
<1>0. /\ DrawnSteps /\ LoadSteps /\ stack \in Seq(Entry) /\ Len(stack) \in Nat
      /\ freeDelay \in {0, 2} /\ d \in Nat
  BY CapacityPositive DEF IInv, TypeOK
<1>1. ASSUME NEW b \in Blocks, mmAlloc(b) \/ FreeAtOnce(b) \/ FreeNow(b)
      PROVE  DrawnSteps'
  BY <1>1, SamePlaces DEF mmAlloc, FreeAtOnce, FreeNow
<1>2. ASSUME NEW b \in Blocks, mmFreeDeferred(b) PROVE DrawnSteps'
  <2>1. /\ pc \in Drawing \cup {"objflush"} /\ pc' = pc /\ freeDelay = 2 /\ b \in held
        /\ drawn' = (IF pc \in Drawing THEN drawn \cup {b} ELSE drawn) /\ Push(b)
    BY <1>0, <1>2 DEF mmFreeDeferred, Callers, LoadSteps, LoadPlaces
  <2> DEFINE e == [ptr |-> b, delay |-> freeDelay]
  <2>2. e \in Entry /\ e.delay = 2 /\ stack' = Append(stack, e)
    BY <2>1 DEF Entry, Push
  <2> HIDE DEF e
  <2>3. /\ Len(stack') = Len(stack) + 1 /\ stack'[Len(stack) + 1] = e
        /\ \A j \in 1..Len(stack) : stack'[j] = stack[j]
    BY <1>0, <2>2, PushFacts
  <2>4. \A j \in 1..Len(stack) : stack[j].ptr # b
    <3>1. b \notin Pending
      BY <2>1 DEF IInv, PendingExact
    <3>2. Pending = {stack[k].ptr : k \in 1..Len(stack)}
      BY <1>0, PendingByPlace
    <3> QED BY <3>1, <3>2
  <2>5. ASSUME pc = "update", NEW k \in 1..Len(stack'), stack'[k].ptr \in drawn'
        PROVE  stack'[k].delay = 2
    <3>1. CASE k = Len(stack) + 1
      BY <2>2, <2>3, <3>1
    <3>2. CASE k # Len(stack) + 1
      <4>1. k \in 1..Len(stack) /\ stack'[k] = stack[k]
        BY <1>0, <2>3, <3>2
      <4>2. stack[k].ptr \in drawn
        BY <2>1, <2>4, <2>5, <4>1
      <4> QED BY <1>0, <2>5, <4>1, <4>2 DEF DrawnSteps
    <3> QED BY <3>1, <3>2
  <2>6. pc = "objflush" => drawn' = {}
    BY <1>0, <2>1 DEF DrawnSteps, Finished, Drawing
  <2> QED BY <2>1, <2>5, <2>6 DEF DrawnSteps, Finished, Drawing
<1>3. ASSUME NEW b \in Blocks, Overflow(b) PROVE DrawnSteps'
  BY <1>3, FrameEnds DEF Overflow
<1>4. CASE FlushStep \/ FlushDone
  <2>1. drawn' = {}
    BY <1>0, <1>4 DEF FlushStep, FlushDone, DrawnSteps, Finished
  <2> QED BY <2>1 DEF DrawnSteps
<1>5. CASE TickStep
  <2>1. /\ d \in 1..Len(stack) /\ pc \in Ticks /\ pc' = pc /\ drawn' = drawn
    BY <1>5, TickFacts
  <2>2. ASSUME pc \in {"tickWait", "tickPause"}, NEW k \in 1..Len(stack'), k >= d',
               stack'[k].ptr \in drawn
        PROVE  stack'[k].delay = 2
    <3>1. \A j \in 1..Len(stack) : j >= d /\ stack[j].ptr \in drawn => stack[j].delay = 2
      BY <1>0, <2>2 DEF DrawnSteps
    <3>2. CASE stack[d].delay = 1
      <4>1. /\ d' = d /\ k \in 1..(Len(stack) - 1)
            /\ stack'[k] = IF k = d THEN stack[Len(stack)] ELSE stack[k]
        BY <1>5, <3>2, TickFacts
      <4>2. Len(stack) >= d /\ Len(stack) \in 1..Len(stack)
        BY <1>0, <2>1
      <4> QED BY <1>0, <2>2, <3>1, <4>1, <4>2
    <3>3. CASE stack[d].delay = 2
      <4>1. d' = d + 1 /\ k \in 1..Len(stack) /\ (k # d => stack'[k] = stack[k])
        BY <1>5, <3>3, TickFacts
      <4>2. k # d /\ k >= d
        BY <1>0, <2>1, <2>2, <4>1
      <4>3. stack'[k] = stack[k]
        BY <4>1, <4>2
      <4>4. stack[k].ptr \in drawn
        BY <2>2, <4>3
      <4> QED BY <3>1, <4>1, <4>2, <4>3, <4>4
    <3>4. stack[d].delay \in 1..2
      BY <1>5, TickFacts
    <3> QED BY <3>2, <3>3, <3>4
  <2>3. pc \in {"tickEnd", "tickLoad1", "tickLoad2"} => drawn' = {}
    BY <1>0, <2>1 DEF DrawnSteps, Finished
  <2> QED BY <2>1, <2>2, <2>3 DEF DrawnSteps, Ticks, Finished
<1>6. CASE TickDone
  <2>1. /\ pc \in Ticks /\ pc' = After[pc] /\ UNCHANGED <<stack, drawn>>
    BY <1>6 DEF TickDone
  <2>2. pc \in {"tickWait", "tickPause"} => pc' \in {"pause", "finish"}
    BY <2>1 DEF After
  <2> QED BY <2>1, <2>2, SamePlaces DEF Ticks, Finished
<1>7. CASE EndFrame \/ Finish \/ StartLoads
  BY <1>7, FrameEnds DEF EndFrame, Finish, StartLoads
<1>8. CASE WaitThenTick \/ TickThenWait \/ Pause
  <2>1. drawn' \subseteq drawn /\ stack' = stack
    BY <1>8 DEF WaitThenTick, TickThenWait, Pause, waitNextFrame
  <2> QED BY <1>8, <2>1, SamePlaces DEF WaitThenTick, TickThenWait, Pause, StartTick
<1>9. CASE ObjectsFlushed \/ NextFrame \/ Unloaded \/ SecondTick \/ Loaded
  <2>1. drawn' \subseteq drawn /\ stack' = stack /\ pc \in Finished
    BY <1>9 DEF ObjectsFlushed, NextFrame, Unloaded, SecondTick, Loaded, waitNextFrame, Finished
  <2> QED BY <2>1, SamePlaces
<1>10. CASE UNCHANGED vars
  BY <1>10, SamePlaces DEF vars
<1> QED
  BY <1>1, <1>2, <1>3, <1>4, <1>5, <1>6, <1>7, <1>8, <1>9, <1>10
     DEF Next, GameLoop

\* The inductive invariant holds throughout.
LEMMA Inductive == Spec => []IInv
<1>1. IInv /\ [Next]_vars => IInv'
  BY TypeStep, PendingStep, LoadStep, DrawnStep DEF IInv
<1> QED
  BY InitInv, <1>1, PTL DEF Spec

------------------------------------------------------------------------------
\* Every variable keeps its type; the stack never outgrows its array.
THEOREM TypeCorrect == Spec => []TypeOK
<1>1. IInv => TypeOK
  BY DEF IInv
<1> QED
  BY Inductive, <1>1, PTL

\* A freed block that is still allocated waits in the stack exactly once.
THEOREM PendingAlwaysExact == Spec => []PendingExact
<1>1. IInv => PendingExact
  BY DEF IInv
<1> QED
  BY Inductive, <1>1, PTL

\* doQueuedLoads loads the new map with nothing left in the stack.
THEOREM LoadAlwaysClean == Spec => []LoadStartsClean
<1>1. ASSUME IInv PROVE LoadStartsClean
  <2> SUFFICES ASSUME pc = "load" PROVE used = held
    BY DEF LoadStartsClean
  <2>1. Pending = {}
    BY <1>1 DEF IInv, LoadSteps, Pending
  <2> QED BY <1>1, <2>1 DEF IInv, TypeOK, PendingExact
<1> QED
  BY Inductive, <1>1, PTL

\* After the first map load no free is deferred any more.
THEOREM DeferralEnds == Spec => []DeferralEndsAtFirstLoad
<1>1. IInv => DeferralEndsAtFirstLoad
  BY DEF IInv
<1> QED
  BY Inductive, <1>1, PTL

\* A deferred block is returned to the heap only when the frame that may have drawn
\* with it is finished (the two ticks of mmFreeTick, GXFlush_ of the overflow and of
\* the loops that tick), whether or not waitNextFrame ever waits.
THEOREM FreedOnlyAfterAFrame == Spec => FreedAfterAFrame
<1>1. ASSUME IInv, [Next]_vars, NEW b \in Pending, b \notin used' PROVE b \notin drawn
  <2>0. /\ Pending = {stack[k].ptr : k \in 1..Len(stack)}
        /\ Distinct /\ DrawnSteps /\ LoadSteps /\ b \in used /\ b \notin held
        /\ stack \in Seq(Entry) /\ Len(stack) \in Nat
    BY <1>1, PendingByPlace DEF IInv, TypeOK, PendingExact
  <2>1. ASSUME used \subseteq used' PROVE b \notin drawn
    BY <1>1, <2>0, <2>1
  <2>2. ASSUME NEW c \in held, used' = used \ {c} PROVE b \notin drawn
    BY <1>1, <2>0, <2>2
  <2>3. CASE FlushStep
    <3>1. /\ pc = "flush" /\ used' = used \ {stack[1].ptr} /\ 1 \in 1..Len(stack)
      BY <2>0, <2>3 DEF FlushStep, mmFree
    <3>2. b = stack[1].ptr
      BY <1>1, <2>0, <3>1
    <3> QED BY <2>0, <3>1, <3>2 DEF DrawnSteps, Finished
  <2>4. CASE TickStep
    <3>1. d \in 1..Len(stack) /\ stack[d].delay = 1 /\ b = stack[d].ptr /\ pc \in Ticks
      BY <1>1, <2>0, <2>4, TickFacts
    <3> QED BY <2>0, <3>1 DEF DrawnSteps, Finished, Ticks
  <2>5. ASSUME NEW c \in Blocks, FreeAtOnce(c) \/ FreeNow(c) PROVE b \notin drawn
    BY <2>5, <2>2 DEF FreeAtOnce, FreeNow, mmFree
  <2>6. ASSUME NEW c \in Blocks, mmAlloc(c) \/ mmFreeDeferred(c) \/ Overflow(c)
        PROVE  b \notin drawn
    BY <2>6, <2>1 DEF mmAlloc, mmFreeDeferred, Overflow
  <2>7. CASE UNCHANGED used
    BY <2>1, <2>7
  <2>8. ASSUME GameLoop, ~FlushStep, ~TickStep PROVE UNCHANGED used
    BY <2>8 DEF GameLoop, FlushDone, EndFrame, ObjectsFlushed, WaitThenTick, TickThenWait, Pause, Finish,
       TickDone, NextFrame, StartLoads, Unloaded, SecondTick, Loaded
  <2> QED
    BY <1>1, <2>3, <2>4, <2>5, <2>6, <2>7, <2>8 DEF Next, vars
<1>2. IInv /\ [Next]_vars => [\A b \in Pending : b \notin used' => b \notin drawn]_vars
  BY <1>1
<1> QED
  BY Inductive, <1>2, PTL DEF Spec, FreedAfterAFrame
==============================================================================
