----------------------------- MODULE ObjectTypes -----------------------------
\* The groups of objects of src/game/src/main/objlib.c.  All groups share one
\* array: group g is the part from offsets[g] up to offsets[g + 1], and who joins
\* or leaves a group moves the groups behind it.  The offsets and the count are
\* bytes.
EXTENDS Integers

CONSTANTS
  Object,         \* addresses of objects
  Unused,         \* what an entry holds before its first use
  TypeCount,      \* OBJTYPE_COUNT
  ListMax,        \* OBJTYPE_LIST_MAX
  Width,          \* values of the u8 that counts the entries
  Registrations   \* bound: entries that the game's objects take at once

ASSUME TypesConstants ==
  /\ TypeCount \in Nat \ {0} /\ ListMax \in Nat \ {0} /\ Width \in Nat \ {0}
  /\ Registrations \in Nat

VARIABLES gObjectTypeList, offsets, gObjectTypeListCount

typesVars == <<gObjectTypeList, offsets, gObjectTypeListCount>>

Group == 0 .. (TypeCount - 1)
Entries == 0 .. (ListMax - 1)

\* What objGetAllOfType hands out, and where an object is in it.
Slice(g) == offsets[g] .. (offsets[g + 1] - 1)
At(o, S) == {k \in S : gObjectTypeList[k] = o}
Members(g) == {gObjectTypeList[k] : k \in Slice(g)}
First(S) == CHOOSE k \in S : \A j \in S : k <= j

TypesInit ==
  /\ gObjectTypeList = [k \in Entries |-> Unused]
  /\ offsets = [g \in 0 .. TypeCount |-> 0]
  /\ gObjectTypeListCount = 0

\* Mutant: an object that is there already joins again.
objAddObjectType_Twice(o, g) ==
  LET first == offsets[g]
      limit == offsets[g + 1]
      at == IF limit = first THEN first ELSE limit - 1
      count == (gObjectTypeListCount + 1) % Width
  IN  /\ gObjectTypeListCount < ListMax
      /\ gObjectTypeListCount' = count
      /\ gObjectTypeList' =
           [k \in Entries |-> IF k = at THEN o
                              ELSE IF at < k /\ k < count THEN gObjectTypeList[k - 1]
                              ELSE gObjectTypeList[k]]
      /\ offsets' = [h \in 0 .. TypeCount |->
                       IF g < h THEN (offsets[h] + 1) % Width ELSE offsets[h]]

\* In front of the last of its group, unless it is there already.
objAddObjectType(o, g) ==
  LET first == offsets[g]
      limit == offsets[g + 1]
      at == IF limit = first THEN first ELSE limit - 1
      count == (gObjectTypeListCount + 1) % Width
  IN  /\ gObjectTypeListCount < ListMax
      /\ At(o, Slice(g)) = {}
      /\ gObjectTypeListCount' = count
      /\ gObjectTypeList' =
           [k \in Entries |-> IF k = at THEN o
                              ELSE IF at < k /\ k < count THEN gObjectTypeList[k - 1]
                              ELSE gObjectTypeList[k]]
      /\ offsets' = [h \in 0 .. TypeCount |->
                       IF g < h THEN (offsets[h] + 1) % Width ELSE offsets[h]]

objFreeObjectType(o, g) ==
  LET at == First(At(o, Slice(g)))
      count == (gObjectTypeListCount + Width - 1) % Width
  IN  /\ At(o, Slice(g)) # {}
      /\ gObjectTypeListCount' = count
      /\ gObjectTypeList' =
           [k \in Entries |-> IF at <= k /\ k < count THEN gObjectTypeList[k + 1]
                              ELSE gObjectTypeList[k]]
      /\ offsets' = [h \in 0 .. TypeCount |->
                       IF g < h THEN (offsets[h] + Width - 1) % Width ELSE offsets[h]]

\* Mutant: the search stops at an empty group in front of the right one.
objGetObjectType_StopsEarly(o) ==
  LET S == At(o, 0 .. (gObjectTypeListCount - 1))
  IN  IF S = {} THEN 0
      ELSE First({g \in 0 .. (TypeCount + 1) :
                    g = TypeCount + 1 \/ offsets[g] >= First(S)})

\* One more than a group the object is in, 0 if it is in none.
objGetObjectType(o) ==
  LET S == At(o, 0 .. (gObjectTypeListCount - 1))
  IN  IF S = {} THEN 0
      ELSE First({g \in 0 .. (TypeCount + 1) :
                    g = TypeCount + 1 \/ offsets[g] > First(S)})

\* objFreeObjdef takes an object that goes away out of a last group.
LeaveLastGroup(o) ==
  /\ objGetObjectType(o) # 0
  /\ objFreeObjectType(o, objGetObjectType(o) - 1)

objTypeInit ==
  /\ offsets' = [g \in 0 .. TypeCount |-> 0]
  /\ gObjectTypeListCount' = 0
  /\ UNCHANGED gObjectTypeList

RegisterType(o, g) ==
  /\ gObjectTypeListCount < Registrations
  /\ objAddObjectType(o, g)

TypesNext ==
  \/ \E o \in Object :
       \/ \E g \in Group : RegisterType(o, g) \/ objFreeObjectType(o, g)
       \/ LeaveLastGroup(o)
  \/ objTypeInit

TypesSpec == TypesInit /\ [][TypesNext]_typesVars

------------------------------------------------------------------------------
\* The groups divide the entries in use, in order, and hold objects.
Sound ==
  /\ gObjectTypeList \in [Entries -> Object \cup {Unused}]
  /\ offsets \in [0 .. TypeCount -> 0 .. gObjectTypeListCount]
  /\ gObjectTypeListCount \in 0 .. Registrations
  /\ offsets[0] = 0 /\ offsets[TypeCount] = gObjectTypeListCount
  /\ \A g, h \in 0 .. TypeCount : g <= h => offsets[g] <= offsets[h]
  /\ \A k \in 0 .. (gObjectTypeListCount - 1) : gObjectTypeList[k] \in Object

\* No object is twice in a group.
Once ==
  \A g \in Group : \A j, k \in Slice(g) :
    gObjectTypeList[j] = gObjectTypeList[k] => j = k

\* objFreeObjdef relies on objGetObjectType to find a group that a dying object is
\* still in: what it answers is such a group, and none only if there is none.
LookupRight ==
  \A o \in Object :
    LET g == objGetObjectType(o) - 1 IN
      IF g = -1 THEN \A h \in Group : At(o, Slice(h)) = {}
      ELSE g \in Group /\ At(o, Slice(g)) # {}

\* The array, the offsets and the count are groups: objAddObjectType and
\* objFreeObjectType change the group they are told to, by the object they are
\* told, and no other, however the groups lie in the array.
Groups == INSTANCE ObjectGroups WITH
  Obj <- Object,
  groups <- [g \in Group |-> Members(g)],
  size <- [g \in Group |-> offsets[g + 1] - offsets[g]]
GroupsKept == Groups!Spec

\* Joining a group pushes nobody out of one: at OBJTYPE_LIST_MAX, says the code,
\* "objAddObjectType: Reached MAXTYPES!!", and refuses.
NobodyPushedOut ==
  [][\A o \in Object, g \in Group : objAddObjectType(o, g) =>
       \A h \in Group : Members(h) \subseteq Members(h)']_typesVars
=============================================================================
