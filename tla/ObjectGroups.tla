---------------------------- MODULE ObjectGroups ----------------------------
\* What the classes of the game rely on: a group is a set of objects with its
\* size, which is what objGetAllOfType tells of it; objAddObjectType lets an
\* object join it, objFreeObjectType leave it and objTypeInit empties all, and
\* nobody's joining or leaving touches another group.
EXTENDS Integers

CONSTANTS Obj, Group

VARIABLES groups, size

Init ==
  /\ groups = [g \in Group |-> {}]
  /\ size = [g \in Group |-> 0]

Join(o, g) ==
  /\ o \notin groups[g]
  /\ groups' = [groups EXCEPT ![g] = @ \cup {o}]
  /\ size' = [size EXCEPT ![g] = @ + 1]

Leave(o, g) ==
  /\ o \in groups[g]
  /\ groups' = [groups EXCEPT ![g] = @ \ {o}]
  /\ size' = [size EXCEPT ![g] = @ - 1]

Empty ==
  /\ groups' = [g \in Group |-> {}]
  /\ size' = [g \in Group |-> 0]

Next ==
  \/ \E o \in Obj, g \in Group : Join(o, g) \/ Leave(o, g)
  \/ Empty

Spec == Init /\ [][Next]_<<groups, size>>
=============================================================================
