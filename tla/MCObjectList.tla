---------------------------- MODULE MCObjectList ----------------------------
EXTENDS ObjectList

CONSTANTS carrier, pipe, effect, spark, rock

\* A carrier is before the others in the update list.
MCSlot == [o \in Obj |-> IF o \in Carriers THEN 2 ELSE 1]
=============================================================================
