--------------------------- MODULE ObjectLifecycle ---------------------------
\* What src/game/src/main/object.c promises the code of the game's objects: an
\* object is set up, freed once, and its memory given back once, after which the
\* address may be handed out again; while the update or the hit-detection pass
\* runs no memory is given back, so a pointer to an object stays good to the end
\* of the pass whoever frees the object.
CONSTANT Obj

VARIABLES life, inPass

vars == <<life, inPass>>

Become(o, from, to) ==
  /\ life[o] = from
  /\ life' = [life EXCEPT ![o] = to]
  /\ UNCHANGED inPass

Init ==
  /\ life = [o \in Obj |-> "absent"]
  /\ inPass = FALSE

Setup(o) == Become(o, "absent", "live")
Free(o) == Become(o, "live", "freed")
Reclaim(o) == ~inPass /\ Become(o, "freed", "absent")

Pass == inPass' = ~inPass /\ UNCHANGED life

Next ==
  \/ \E o \in Obj : Setup(o) \/ Free(o) \/ Reclaim(o)
  \/ Pass

Spec == Init /\ [][Next]_vars
=============================================================================
