------------------------------ MODULE WebSocket ------------------------------
\* CurlWebSocket (src/port/src/net/websocket_curl.cpp) with its EventQueue
\* (websocket.hpp): one worker thread that upgrades, sends and receives, one
\* owner (the game's main thread) that sends, polls and destroys, and the relay
\* at the other end of the socket.  curl and the relay are external: their
\* answers are the nondeterminism of the worker's steps.
EXTENDS Naturals, Sequences, SequencesExt

CONSTANTS
  Out,            \* messages the owner sends
  Size,           \* Size[m]: how many pieces curl_ws_send needs for m
  In,             \* messages the relay sends
  Frags,          \* Frags[m]: how many pieces curl_ws_recv hands m over in
  PeerCodes,      \* codes a relay's close frame may carry
  HttpStatus,     \* statuses of a refused upgrade
  MaxOut, MaxIn   \* bounds: messages the owner, the relay sends in a behaviour

ASSUME SizesPositive ==
  /\ Size \in [Out -> Nat \ {0}]
  /\ Frags \in [In -> Nat \ {0}]
ASSUME CodesAreNumbers == PeerCodes \subseteq Nat /\ HttpStatus \subseteq Nat
ASSUME BoundsAreNumbers == MaxOut \in Nat /\ MaxIn \in Nat

kUnsupportedCode == 4900
Abnormal == 1006
CloseCodes == PeerCodes \cup HttpStatus \cup {kUnsupportedCode, Abnormal}

VARIABLES
  mEvents,     \* EventQueue: events pushed and not yet polled
  mClosed,     \* EventQueue: a Closed event has been pushed
  mOutgoing,   \* messages the owner sent and the worker has not taken
  mStopping,   \* the owner is in the destructor
  owner,       \* "live", "joining" (in ~CurlWebSocket) or "gone"
  pc,          \* where the worker is in run()
  pending,     \* flush(): the messages it took and has not sent whole
  offset,      \* flush(): the pieces of Head(pending) already sent
  message,     \* run(): the buffer, with the pieces received since the last push
  inbound,     \* the relay's pieces, on their way or with curl, not handed over yet
  writable,    \* curl_ws_send would not answer CURLE_AGAIN
  wire,        \* history: the pieces sent, in order
  sent,        \* history: the messages the owner sent, in order
  relayed,     \* history: the messages the relay sent, in order
  polled       \* history: the events the owner polled, in order

workerVars == <<pc, pending, offset, message>>
ownerVars == <<owner, mStopping, sent, polled>>
peerVars == <<relayed, writable>>
vars == <<mEvents, mClosed, mOutgoing, workerVars, ownerVars, peerVars, inbound, wire>>

OpenEvent == [type |-> "Open"]
DataEvent(d) == [type |-> "Data", data |-> d]
ClosedEvent(c) == [type |-> "Closed", code |-> c]
CloseFrame == [kind |-> "close"]

Piece(m, k) == [kind |-> "piece", msg |-> m, nth |-> k]
\* The pieces of message m, in order.
Pieces(m, n) == [k \in 1..n |-> Piece(m, k)]
Closing(c) == [kind |-> "closing", code |-> c]
InPiece == [kind : {"piece"}, msg : In, nth : Nat]
InFrame == InPiece \cup {Closing(c) : c \in PeerCodes}
\* What the relay's message m is, whole.
Message(m) == Pieces(m, Frags[m])

\* An event carries the buffer run() had built, whatever pieces are in it.
SocketEvent ==
  {OpenEvent} \cup [type : {"Data"}, data : Seq(InPiece)] \cup {ClosedEvent(c) : c \in CloseCodes}

Init ==
  /\ mEvents = <<>> /\ mClosed = FALSE /\ mOutgoing = <<>>
  /\ owner = "live" /\ mStopping = FALSE /\ sent = <<>> /\ polled = <<>>
  /\ pc = "start" /\ pending = <<>> /\ offset = 0 /\ message = <<>>
  /\ inbound = <<>> /\ relayed = <<>> /\ writable = TRUE
  /\ wire = <<>>

------------------------------------------------------------------------------
\* Mutant: mClosed is never set.
push_NeverCloses(e) ==
  /\ mEvents' = IF mClosed THEN mEvents ELSE Append(mEvents, e)
  /\ mClosed' = mClosed

\* EventQueue::push: everything after a Closed is dropped.
push(e) ==
  /\ mEvents' = IF mClosed THEN mEvents ELSE Append(mEvents, e)
  /\ mClosed' = (mClosed \/ e.type = "Closed")

fail(c) == push(ClosedEvent(c))

\* The owner: send_binary and send_text.
Send(m) ==
  /\ owner = "live"
  /\ Len(sent) < MaxOut
  /\ mOutgoing' = Append(mOutgoing, m)
  /\ sent' = Append(sent, m)
  /\ UNCHANGED <<mEvents, mClosed, workerVars, owner, mStopping, polled, peerVars, inbound, wire>>

\* The owner: poll, which is EventQueue::pop.
Poll ==
  /\ owner = "live"
  /\ mEvents # <<>>
  /\ mEvents' = Tail(mEvents)
  /\ polled' = Append(polled, Head(mEvents))
  /\ UNCHANGED <<mClosed, mOutgoing, workerVars, owner, mStopping, sent, peerVars, inbound, wire>>

\* The owner: ~CurlWebSocket up to join().
Destroy ==
  /\ owner = "live"
  /\ owner' = "joining"
  /\ mStopping' = TRUE
  /\ UNCHANGED <<mEvents, mClosed, mOutgoing, workerVars, sent, polled, peerVars, inbound, wire>>

\* The owner: join() returns.
Joined ==
  /\ owner = "joining"
  /\ pc = "done"
  /\ owner' = "gone"
  /\ UNCHANGED <<mEvents, mClosed, mOutgoing, workerVars, mStopping, sent, polled, peerVars, inbound, wire>>

------------------------------------------------------------------------------
\* The worker: run() before the upgrade; libcurl may lack WebSocket support or
\* fail to make a handle.
Begin ==
  /\ pc = "start"
  /\ \/ pc' = "upgrade" /\ UNCHANGED <<mEvents, mClosed>>
     \/ \E c \in {kUnsupportedCode, Abnormal} : fail(c) /\ pc' = "done"
  /\ UNCHANGED <<mOutgoing, pending, offset, message, ownerVars, peerVars, inbound, wire>>

\* curl_easy_perform succeeds.
Upgraded ==
  /\ pc = "upgrade"
  /\ push(OpenEvent)
  /\ pc' = "loop"
  /\ UNCHANGED <<mOutgoing, pending, offset, message, ownerVars, peerVars, inbound, wire>>

\* curl_easy_perform fails: a status other than 101, or no connection, a
\* timeout, or abort_when_stopping.
UpgradeFailed ==
  /\ pc = "upgrade"
  /\ \E c \in HttpStatus \cup {Abnormal} : fail(c)
  /\ pc' = "done"
  /\ UNCHANGED <<mOutgoing, pending, offset, message, ownerVars, peerVars, inbound, wire>>

\* Mutant: one message is taken per round and the rest cleared.
Flush_TakesOne ==
  /\ pc = "loop"
  /\ \/ mStopping /\ pc' = "closing" /\ UNCHANGED <<pending, offset, mOutgoing>>
     \/ /\ ~mStopping
        /\ pending' = IF mOutgoing = <<>> THEN <<>> ELSE <<Head(mOutgoing)>>
        /\ mOutgoing' = <<>>
        /\ offset' = 0
        /\ pc' = "send"
  /\ UNCHANGED <<mEvents, mClosed, message, ownerVars, peerVars, inbound, wire>>

\* The head of `while (!mStopping)` and flush() taking what has been queued.
Flush ==
  /\ pc = "loop"
  /\ \/ mStopping /\ pc' = "closing" /\ UNCHANGED <<pending, offset, mOutgoing>>
     \/ /\ ~mStopping
        /\ pending' = mOutgoing
        /\ mOutgoing' = <<>>
        /\ offset' = 0
        /\ pc' = "send"
  /\ UNCHANGED <<mEvents, mClosed, message, ownerVars, peerVars, inbound, wire>>

\* Mutant: a message accepted in part is sent again from its start.
SendPart_Restarts ==
  /\ pc = "send"
  /\ pending # <<>>
  /\ writable
  /\ LET m == Head(pending) IN
     \E n \in 1..Size[m] :
       /\ wire' = wire \o SubSeq(Pieces(m, Size[m]), 1, n)
       /\ pending' = IF n = Size[m] THEN Tail(pending) ELSE pending
  /\ UNCHANGED <<mEvents, mClosed, mOutgoing, pc, offset, message, ownerVars, peerVars, inbound>>

\* curl_ws_send accepts n of the pieces left of the message at hand.
SendPart ==
  /\ pc = "send"
  /\ pending # <<>>
  /\ writable
  /\ LET m == Head(pending) IN
     \E n \in 1..(Size[m] - offset) :
       /\ wire' = wire \o SubSeq(Pieces(m, Size[m]), offset + 1, offset + n)
       /\ IF offset + n = Size[m]
            THEN pending' = Tail(pending) /\ offset' = 0
            ELSE pending' = pending /\ offset' = offset + n
  /\ UNCHANGED <<mEvents, mClosed, mOutgoing, pc, message, ownerVars, peerVars, inbound>>

\* Mutant: CURLE_AGAIN is retried even while the owner waits.
SendFailed_RetriesForever ==
  /\ pc = "send"
  /\ pending # <<>>
  /\ writable
  /\ fail(Abnormal)
  /\ pc' = "closing"
  /\ pending' = <<>> /\ offset' = 0
  /\ UNCHANGED <<mOutgoing, message, ownerVars, peerVars, inbound, wire>>

\* Mutant: the loop ends without fail(1006).
SendFailed_Silent ==
  /\ pc = "send"
  /\ pending # <<>>
  /\ writable \/ mStopping
  /\ pc' = "closing"
  /\ pending' = <<>> /\ offset' = 0
  /\ UNCHANGED <<mEvents, mClosed, mOutgoing, message, ownerVars, peerVars, inbound, wire>>

\* curl_ws_send fails, or answers CURLE_AGAIN while the owner is waiting: the
\* messages not sent yet are dropped.
SendFailed ==
  /\ pc = "send"
  /\ pending # <<>>
  /\ writable \/ mStopping
  /\ fail(Abnormal)
  /\ pc' = "closing"
  /\ pending' = <<>> /\ offset' = 0
  /\ UNCHANGED <<mOutgoing, message, ownerVars, peerVars, inbound, wire>>

\* flush() returns true and ::poll() returns.
Flushed ==
  /\ pc = "send"
  /\ pending = <<>>
  /\ pc' = "recv"
  /\ UNCHANGED <<mEvents, mClosed, mOutgoing, pending, offset, message, ownerVars, peerVars, inbound, wire>>

\* Mutant: bytesleft and CURLWS_CONT are not looked at.
RecvPiece_EveryFragment ==
  /\ pc = "recv"
  /\ inbound # <<>> /\ Head(inbound).kind = "piece"
  /\ inbound' = Tail(inbound)
  /\ push(DataEvent(Append(message, Head(inbound)))) /\ message' = <<>>
  /\ UNCHANGED <<mOutgoing, pc, pending, offset, ownerVars, peerVars, wire>>

\* curl_ws_recv hands over a piece, which is appended to the buffer; after the
\* last one of its message the buffer, whatever it holds, is pushed and cleared.
RecvPiece ==
  /\ pc = "recv"
  /\ inbound # <<>> /\ Head(inbound).kind = "piece"
  /\ inbound' = Tail(inbound)
  /\ LET p == Head(inbound)
         buffer == Append(message, p)
     IN IF p.nth = Frags[p.msg]
          THEN push(DataEvent(buffer)) /\ message' = <<>>
          ELSE message' = buffer /\ UNCHANGED <<mEvents, mClosed>>
  /\ UNCHANGED <<mOutgoing, pc, pending, offset, ownerVars, peerVars, wire>>

\* curl_ws_recv hands over a close frame.
RecvClose ==
  /\ pc = "recv"
  /\ inbound # <<>> /\ Head(inbound).kind = "closing"
  /\ inbound' = Tail(inbound)
  /\ fail(Head(inbound).code)
  /\ pc' = "closing"
  /\ UNCHANGED <<mOutgoing, pending, offset, message, ownerVars, peerVars, wire>>

\* curl_ws_recv fails.
RecvFailed ==
  /\ pc = "recv"
  /\ fail(Abnormal)
  /\ pc' = "closing"
  /\ UNCHANGED <<mOutgoing, pending, offset, message, ownerVars, peerVars, inbound, wire>>

\* Mutant: the buffer is declared inside the outer loop, so a message half
\* received is forgotten.
RecvAgain_ForgetsMessage ==
  /\ pc = "recv"
  /\ pc' = "loop"
  /\ message' = <<>>
  /\ UNCHANGED <<mEvents, mClosed, mOutgoing, pending, offset, ownerVars, peerVars, inbound, wire>>

\* curl_ws_recv answers CURLE_AGAIN: the next piece, if there is one, has not
\* arrived.  Back to the head of the loop, also between two pieces of a message.
RecvAgain ==
  /\ pc = "recv"
  /\ pc' = "loop"
  /\ UNCHANGED <<mEvents, mClosed, mOutgoing, pending, offset, message, ownerVars, peerVars, inbound, wire>>

\* After the loop: a close frame when the owner asked for the end.
Finish ==
  /\ pc = "closing"
  /\ pc' = "done"
  /\ wire' = IF mStopping THEN Append(wire, CloseFrame) ELSE wire
  /\ UNCHANGED <<mEvents, mClosed, mOutgoing, pending, offset, message, ownerVars, peerVars, inbound>>

Worker ==
  \/ Begin \/ Upgraded \/ UpgradeFailed \/ Flush \/ SendPart \/ SendFailed \/ Flushed
  \/ RecvPiece \/ RecvClose \/ RecvFailed \/ RecvAgain \/ Finish

------------------------------------------------------------------------------
Connected == pc \in {"loop", "send", "recv"}
PeerClosed == \E i \in 1..Len(inbound) : inbound[i].kind = "closing"

\* The relay sends a message.
RelaySend(m) ==
  /\ Connected /\ ~PeerClosed
  /\ Len(relayed) < MaxIn
  /\ relayed' = Append(relayed, m)
  /\ inbound' = inbound \o Message(m)
  /\ UNCHANGED <<mEvents, mClosed, mOutgoing, workerVars, ownerVars, writable, wire>>

\* The relay sends a close frame; it sends nothing after it.
RelayClose(c) ==
  /\ Connected /\ ~PeerClosed
  /\ inbound' = Append(inbound, Closing(c))
  /\ UNCHANGED <<mEvents, mClosed, mOutgoing, workerVars, ownerVars, peerVars, wire>>

\* The relay stops or resumes reading, so that the send buffer fills or drains.
RelayReads ==
  /\ Connected
  /\ writable' = ~writable
  /\ UNCHANGED <<mEvents, mClosed, mOutgoing, workerVars, ownerVars, relayed, inbound, wire>>

Owner == (\E m \in Out : Send(m)) \/ Poll \/ Destroy \/ Joined
Relay == (\E m \in In : RelaySend(m)) \/ (\E c \in PeerCodes : RelayClose(c)) \/ RelayReads

Next == Owner \/ Worker \/ Relay

Spec == Init /\ [][Next]_vars

\* The worker is a running thread, join() returns once it has ended, and the
\* transfer's own timeouts end the upgrade.  Nothing is assumed of the relay.
FairSpec == Spec /\ WF_vars(Worker) /\ WF_vars(Joined)

------------------------------------------------------------------------------
EventsSoFar == polled \o mEvents
Whole(m) == Pieces(m, Size[m])
IsData(e) == e.type = "Data"
\* What went over the wire before the close frame.
WireData == IF wire # <<>> /\ Last(wire) = CloseFrame THEN Front(wire) ELSE wire
\* The pieces of every message the owner sent, in the order it sent them.
AllPieces(msgs) == FlattenSeq([i \in DOMAIN msgs |-> Whole(msgs[i])])
\* Those flush() took and has not sent.
InHand ==
  IF pending = <<>> THEN <<>>
  ELSE SubSeq(Whole(Head(pending)), offset + 1, Size[Head(pending)]) \o AllPieces(Tail(pending))

TypeOK ==
  /\ mEvents \in Seq(SocketEvent) /\ polled \in Seq(SocketEvent)
  /\ mClosed \in BOOLEAN /\ mStopping \in BOOLEAN /\ writable \in BOOLEAN
  /\ mOutgoing \in Seq(Out) /\ pending \in Seq(Out) /\ sent \in Seq(Out)
  /\ offset \in Nat
  /\ owner \in {"live", "joining", "gone"}
  /\ pc \in {"start", "upgrade", "loop", "send", "recv", "closing", "done"}
  /\ relayed \in Seq(In) /\ message \in Seq(InPiece)
  /\ inbound \in Seq(InFrame)

\* The connection keeps the promises of SocketContract: Open comes first, data
\* only while open and only whole messages of the relay, and Closed is the last
\* event of all (EventQueue::push).
ContractPhase ==
  IF mClosed THEN "closed"
  ELSE IF pc \in {"start", "upgrade"} THEN "connecting"
  ELSE "open"
Contract == INSTANCE SocketContract
              WITH Data <- {Message(m) : m \in In}, phase <- ContractPhase, queue <- mEvents
KeepsContract == Contract!Spec

\* What run() and flush() put on the wire is, piece by piece, what the owner
\* sent and in that order: no message is repeated, reordered or cut into, even
\* when curl takes a message in several parts and a failure drops the rest.
WireInOrder ==
  /\ IsPrefix(WireData, AllPieces(sent))
  /\ \A i \in 1..Len(wire) : wire[i] = CloseFrame => i = Len(wire) /\ mStopping

\* Until the connection fails or is being destroyed, each piece the owner sent
\* is on the wire, in the worker's hands or in mOutgoing: flush()'s swap under
\* the lock loses nothing.
NothingLostWhileOpen ==
  ~mClosed /\ ~mStopping => wire \o InHand \o AllPieces(mOutgoing) = AllPieces(sent)

\* Both at once: what reaches the relay is what the owner sent, as far as it got.
WireExact == WireInOrder /\ NothingLostWhileOpen

\* The owner sees the relay's messages whole, once each and in order, right after
\* the one Open: the buffer run() pushes holds the pieces of one message and of
\* no other, wherever curl pauses between them.
MessagesInOrder ==
  \A i \in 1..Len(EventsSoFar) :
    IsData(EventsSoFar[i]) =>
      i > 1 /\ i - 1 <= Len(relayed) /\ EventsSoFar[i].data = Message(relayed[i - 1])

\* A worker that ended by itself has told the owner so: the session never waits
\* on a connection whose thread is dead.
DeathIsReported == pc = "done" /\ ~mStopping => mClosed

\* The destructor returns, whatever the relay does: flush() gives up on
\* CURLE_AGAIN once mStopping is set, and the loop reads it on every round.
DestructorReturns == (owner = "joining") ~> (owner = "gone")
==============================================================================
