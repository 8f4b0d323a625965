---------------------------- MODULE MCNetSession ----------------------------
EXTENDS NetSession

CONSTANTS a, b, modA, modB

\* Two rooms of two mods: a change of room is a change of owner.
MCModOf == [r \in Rooms |-> IF r = a THEN modA ELSE modB]

\* A room with two tickets, of which one expires, and in the safety run a second
\* room: the launcher may change the room, the ticket or nothing, and change back.
\* The session compares a target as a whole, so that a change of ticket and of expiry
\* stands for a change of either.
Ticket(r, t, e) == [room |-> r, ticket |-> t, expiresAt |-> e]
MCTargets == {Ticket(r, 1, 0) : r \in Rooms} \cup {Ticket(a, 2, 1)}
=============================================================================
