--------------------------- MODULE SocketContract ---------------------------
\* What the multiplayer session may rely on about a connection object: the
\* interface `WebSocket` of src/port/src/net/websocket.hpp, without the threads.
\* A connection hands out one Open before any data, data only while it is open,
\* and nothing at all after one Closed.
EXTENDS Sequences

CONSTANTS Data,      \* the contents of Text and Binary events
          CloseCodes \* the codes a Closed event may carry

VARIABLES phase,     \* "connecting", "open" or "closed"
          queue      \* the events produced and not yet polled, oldest first

cvars == <<phase, queue>>

OpenEvent == [type |-> "Open"]
DataEvent(d) == [type |-> "Data", data |-> d]
ClosedEvent(c) == [type |-> "Closed", code |-> c]

SocketEvent ==
  {OpenEvent} \cup {DataEvent(d) : d \in Data} \cup {ClosedEvent(c) : c \in CloseCodes}

TypeOK ==
  /\ phase \in {"connecting", "open", "closed"}
  /\ queue \in Seq(SocketEvent)

Init ==
  /\ phase = "connecting"
  /\ queue = <<>>

\* The upgrade succeeded.
Open ==
  /\ phase = "connecting"
  /\ phase' = "open"
  /\ queue' = Append(queue, OpenEvent)

\* A complete message arrived.
Receive(d) ==
  /\ phase = "open"
  /\ queue' = Append(queue, DataEvent(d))
  /\ UNCHANGED phase

\* The connection ended or could never be made.
Close(c) ==
  /\ phase # "closed"
  /\ phase' = "closed"
  /\ queue' = Append(queue, ClosedEvent(c))

\* WebSocket::poll returning true.
Poll ==
  /\ queue # <<>>
  /\ queue' = Tail(queue)
  /\ UNCHANGED phase

Produce == Open \/ (\E d \in Data : Receive(d)) \/ (\E c \in CloseCodes : Close(c))

Next == Produce \/ Poll

Spec == Init /\ [][Next]_cvars
=============================================================================
