--------------------------- MODULE WebSocketProofs ---------------------------
EXTENDS WebSocket, SequenceTheorems, WellFoundedInduction, TLAPS

\* Once the queue is closed the worker has left its loop, so nothing pushes to a
\* closed queue and every push appends.
ClosedMeansLeaving == mClosed => pc \in {"closing", "done"}

IInv == TypeOK /\ ClosedMeansLeaving

\* The events pushed are events.
LEMMA EventTypes ==
  /\ OpenEvent \in SocketEvent
  /\ \A d \in Seq(InPiece) : DataEvent(d) \in SocketEvent
  /\ \A c \in CloseCodes : ClosedEvent(c) \in SocketEvent
BY DEF SocketEvent, DataEvent

\* push and fail keep the queue well typed and close it on a Closed event only.
LEMMA PushType ==
  ASSUME NEW e \in SocketEvent, mEvents \in Seq(SocketEvent), mClosed \in BOOLEAN, push(e)
  PROVE  mEvents' \in Seq(SocketEvent) /\ mClosed' \in BOOLEAN
BY DEF push

\* The inductive invariant holds initially.
LEMMA InvInit == Init => IInv
<1> SUFFICES ASSUME Init PROVE IInv
  OBVIOUS
<1>1. /\ mEvents \in Seq(SocketEvent) /\ polled \in Seq(SocketEvent)
      /\ mOutgoing \in Seq(Out) /\ pending \in Seq(Out) /\ sent \in Seq(Out)
      /\ relayed \in Seq(In) /\ message \in Seq(InPiece) /\ inbound \in Seq(InFrame)
  BY DEF Init
<1> QED BY <1>1 DEF Init, IInv, TypeOK, ClosedMeansLeaving

\* Every step keeps the inductive invariant.
LEMMA InvNext == IInv /\ [Next]_vars => IInv'
<1> SUFFICES ASSUME IInv, [Next]_vars PROVE IInv'
  OBVIOUS
<1> USE DEF IInv, ClosedMeansLeaving
<1>1. ASSUME NEW m \in Out, Send(m) PROVE IInv'
  BY <1>1 DEF Send, TypeOK, workerVars, peerVars
<1>2. CASE Poll
  BY <1>2 DEF Poll, TypeOK, workerVars, peerVars
<1>3. CASE Destroy
  BY <1>3 DEF Destroy, TypeOK, workerVars, peerVars
<1>4. CASE Joined
  BY <1>4 DEF Joined, TypeOK, workerVars, peerVars
<1>5. CASE Begin
  <2>1. mEvents' \in Seq(SocketEvent) /\ mClosed' \in BOOLEAN /\ (pc' = "upgrade" => mClosed' = mClosed)
    <3>1. ASSUME NEW c \in {kUnsupportedCode, Abnormal}, fail(c)
          PROVE  mEvents' \in Seq(SocketEvent) /\ mClosed' \in BOOLEAN
      BY <3>1, PushType, EventTypes DEF TypeOK, fail, CloseCodes
    <3> QED BY <1>5, <3>1 DEF Begin, TypeOK
  <2> QED BY <1>5, <2>1 DEF Begin, TypeOK, ownerVars, peerVars
<1>6. CASE Upgraded
  <2>1. mEvents' \in Seq(SocketEvent) /\ mClosed' \in BOOLEAN /\ (mClosed' => mClosed)
    BY <1>6, PushType, EventTypes DEF Upgraded, TypeOK, push, OpenEvent
  <2> QED BY <1>6, <2>1 DEF Upgraded, TypeOK, ownerVars, peerVars
<1>7. CASE UpgradeFailed
  BY <1>7, PushType, EventTypes DEF UpgradeFailed, TypeOK, ownerVars, peerVars, fail, push, CloseCodes, ClosedEvent
<1>8. CASE Flush
  <2>1. /\ mOutgoing' \in Seq(Out) /\ pending' \in Seq(Out) /\ offset' \in Nat
        /\ pc' \in {"send", "closing"}
    <3>1. \/ UNCHANGED <<pending, offset, mOutgoing>> /\ pc' = "closing"
          \/ pending' = mOutgoing /\ mOutgoing' = <<>> /\ offset' = 0 /\ pc' = "send"
      BY <1>8 DEF Flush
    <3>2. mOutgoing \in Seq(Out) /\ pending \in Seq(Out) /\ offset \in Nat
      BY DEF TypeOK
    <3>3. CASE UNCHANGED <<pending, offset, mOutgoing>> /\ pc' = "closing"
      BY <3>2, <3>3
    <3>4. CASE pending' = mOutgoing /\ mOutgoing' = <<>> /\ offset' = 0 /\ pc' = "send"
      BY <3>2, <3>4
    <3> QED BY <3>1, <3>3, <3>4
  <2> QED BY <1>8, <2>1 DEF Flush, TypeOK, ownerVars, peerVars
<1>9. CASE SendPart
  <2>1. pending' \in Seq(Out) /\ offset' \in Nat
    <3>1. pending # <<>> /\ Tail(pending) \in Seq(Out)
      BY <1>9 DEF SendPart, TypeOK
    <3>2. PICK n \in 1..(Size[Head(pending)] - offset) :
            \/ pending' = Tail(pending) /\ offset' = 0
            \/ pending' = pending /\ offset' = offset + n
      BY <1>9 DEF SendPart
    <3>3. offset \in Nat /\ pending \in Seq(Out)
      BY DEF TypeOK
    <3>4. n \in Int /\ n >= 1
      <4>1. Size[Head(pending)] \in Nat
        BY <3>1, <3>3, SizesPositive
      <4> QED BY <3>3, <4>1
    <3> QED BY <3>1, <3>2, <3>3, <3>4
  <2> QED BY <1>9, <2>1 DEF SendPart, TypeOK, ownerVars, peerVars
<1>10. CASE SendFailed
  BY <1>10, PushType, EventTypes DEF SendFailed, TypeOK, ownerVars, peerVars, fail, push, CloseCodes, ClosedEvent
<1>11. CASE Flushed
  BY <1>11 DEF Flushed, TypeOK, ownerVars, peerVars
<1>12. CASE RecvPiece
  <2> DEFINE p == Head(inbound)
         b == Append(message, p)
  <2>1. /\ p \in InPiece /\ b \in Seq(InPiece)
        /\ inbound' \in Seq(InFrame)
    BY <1>12 DEF RecvPiece, TypeOK, InFrame, InPiece, Closing
  <2>2. CASE p.nth = Frags[p.msg]
    <3>1. push(DataEvent(b)) /\ message' = <<>>
      BY <1>12, <2>2 DEF RecvPiece
    <3>2. DataEvent(b).type # "Closed" /\ DataEvent(b) \in SocketEvent
      BY <2>1, EventTypes DEF DataEvent
    <3>3. mEvents' \in Seq(SocketEvent) /\ mClosed' \in BOOLEAN /\ (mClosed' => mClosed)
      BY <3>1, <3>2, PushType, EventTypes DEF TypeOK, push
    <3> QED BY <1>12, <2>1, <3>1, <3>3 DEF RecvPiece, TypeOK, ownerVars, peerVars
  <2>3. CASE p.nth # Frags[p.msg]
    <3>1. message' = b /\ UNCHANGED <<mEvents, mClosed>>
      BY <1>12, <2>3 DEF RecvPiece
    <3>2. message' \in Seq(InPiece)
      BY <3>1, <2>1
    <3> QED BY <1>12, <2>1, <3>1, <3>2 DEF RecvPiece, TypeOK, ownerVars, peerVars
  <2> QED BY <2>2, <2>3
<1>13. CASE RecvClose
  <2>1. /\ Head(inbound).code \in CloseCodes
        /\ inbound' \in Seq(InFrame)
    BY <1>13 DEF RecvClose, TypeOK, InFrame, InPiece, Closing, CloseCodes
  <2>2. mEvents' \in Seq(SocketEvent) /\ mClosed' \in BOOLEAN
    BY <1>13, <2>1, PushType, EventTypes DEF RecvClose, fail, TypeOK
  <2> QED BY <1>13, <2>1, <2>2 DEF RecvClose, TypeOK, ownerVars, peerVars
<1>14. CASE RecvFailed
  BY <1>14, PushType, EventTypes DEF RecvFailed, TypeOK, ownerVars, peerVars, fail, push, CloseCodes, ClosedEvent
<1>15. CASE RecvAgain
  BY <1>15 DEF RecvAgain, TypeOK, ownerVars, peerVars
<1>16. CASE Finish
  BY <1>16 DEF Finish, TypeOK, ownerVars, peerVars
<1>17. ASSUME NEW m \in In, RelaySend(m) PROVE IInv'
  <2>1. Pieces(m, Frags[m]) \in Seq(InPiece)
    <3>1. Frags[m] \in Nat
      BY SizesPositive
    <3>2. \A k \in 1..Frags[m] : Piece(m, k) \in InPiece
      BY <3>1 DEF Piece, InPiece
    <3> QED BY <3>1, <3>2, SMTT(20) DEF Pieces
  <2> QED BY <1>17, <2>1 DEF RelaySend, Message, TypeOK, workerVars, ownerVars, InFrame
<1>18. ASSUME NEW c \in PeerCodes, RelayClose(c) PROVE IInv'
  BY <1>18 DEF RelayClose, TypeOK, workerVars, ownerVars, peerVars, InFrame
<1>19. CASE RelayReads
  BY <1>19 DEF RelayReads, TypeOK, workerVars, ownerVars
<1>20. CASE UNCHANGED vars
  BY <1>20 DEF vars, TypeOK, workerVars, ownerVars, peerVars
<1> QED
  BY <1>1, <1>2, <1>3, <1>4, <1>5, <1>6, <1>7, <1>8, <1>9, <1>10, <1>11, <1>12, <1>13,
     <1>14, <1>15, <1>16, <1>17, <1>18, <1>19, <1>20 DEF Next, Owner, Worker, Relay

\* Every variable of a connection keeps its type, whatever curl and the relay
\* answer (run(), flush(), EventQueue).
THEOREM TypeCorrect == Spec => []TypeOK
<1>1. IInv => TypeOK
  BY DEF IInv
<1> QED BY InvInit, InvNext, <1>1, PTL DEF Spec

------------------------------------------------------------------------------
\* Induction over the naturals, for a set of them.
LEMMA NaturalsReached ==
  ASSUME NEW S, 0 \in S, \A n \in Nat : n \in S => n + 1 \in S
  PROVE  Nat \subseteq S
<1> DEFINE T == Nat \ S
<1> SUFFICES ASSUME T # {} PROVE FALSE
  OBVIOUS
<1>1. IsWellFoundedOn(OpToRel(<, Nat), Nat)
  BY NatLessThanWellFounded, Zenon
<1>2. PICK x \in T : \A y \in T : ~(<<y, x>> \in OpToRel(<, Nat))
  <2> HIDE DEF T
  <2>1. T \subseteq Nat
    BY DEF T
  <2> QED BY <1>1, <2>1, WFMin, Zenon
<1>3. x \in Nat /\ x # 0
  OBVIOUS
<1>4. x - 1 \in Nat /\ x - 1 < x /\ (x - 1) + 1 = x
  BY <1>3
<1>5. <<x - 1, x>> \in OpToRel(<, Nat)
  BY <1>3, <1>4, Zenon DEF OpToRel
<1>6. x - 1 \in S
  BY <1>2, <1>4, <1>5
<1> QED BY <1>4, <1>6

\* What is recursive in FlattenSeq.
Flattens(f, ss, n) ==
  \A k \in 1..n : f[k] = IF k = 1 THEN ss[k] ELSE f[k - 1] \o ss[k]

LEMMA FlattenExists ==
  ASSUME NEW T, NEW ss \in Seq(Seq(T))
  PROVE  \E f \in [1..Len(ss) -> Seq(T)] : Flattens(f, ss, Len(ss))
<1> DEFINE N == {n \in Nat : n <= Len(ss) => \E f \in [1..n -> Seq(T)] : Flattens(f, ss, n)}
<1>1. 0 \in N
  <2>1. [k \in 1..0 |-> <<>>] \in [1..0 -> Seq(T)] /\ Flattens([k \in 1..0 |-> <<>>], ss, 0)
    BY DEF Flattens
  <2> QED BY <2>1
<1>2. ASSUME NEW n \in Nat, n \in N PROVE n + 1 \in N
  <2> SUFFICES ASSUME n + 1 <= Len(ss)
               PROVE  \E f \in [1..(n + 1) -> Seq(T)] : Flattens(f, ss, n + 1)
    OBVIOUS
  <2>1. PICK f \in [1..n -> Seq(T)] : Flattens(f, ss, n)
    BY <1>2
  <2>2. ss[n + 1] \in Seq(T)
    OBVIOUS
  <2> DEFINE g == [k \in 1..(n + 1) |->
                     IF k <= n THEN f[k] ELSE IF n = 0 THEN ss[n + 1] ELSE f[n] \o ss[n + 1]]
  <2>3. g \in [1..(n + 1) -> Seq(T)]
    <3> SUFFICES ASSUME NEW k \in 1..(n + 1) PROVE g[k] \in Seq(T)
      OBVIOUS
    <3>1. CASE k <= n
      BY <3>1
    <3>2. CASE ~(k <= n) /\ n = 0
      BY <2>2, <3>2
    <3>3. CASE ~(k <= n) /\ n # 0
      <4>1. f[n] \in Seq(T)
        BY <3>3
      <4>2. f[n] \o ss[n + 1] \in Seq(T)
        BY <2>2, <4>1
      <4> QED BY <3>3, <4>2
    <3> QED BY <3>1, <3>2, <3>3
  <2>4. ASSUME NEW k \in 1..(n + 1)
        PROVE  g[k] = IF k = 1 THEN ss[k] ELSE g[k - 1] \o ss[k]
    <3>1. CASE k <= n
      <4>1. g[k] = f[k] /\ (k # 1 => g[k - 1] = f[k - 1])
        BY <3>1
      <4>2. k \in 1..n
        BY <3>1
      <4> HIDE DEF g
      <4> QED BY <2>1, <4>1, <4>2 DEF Flattens
    <3>2. CASE k = n + 1 /\ n = 0
      BY <3>2
    <3>3. CASE k = n + 1 /\ n # 0
      <4>1. ~(k <= n) /\ k # 1 /\ k - 1 = n /\ n \in 1..(n + 1) /\ n <= n
        BY <3>3
      <4>2. g[n] = f[n]
        BY <4>1
      <4>3. g[k] = f[n] \o ss[n + 1]
        BY <3>3, <4>1
      <4> HIDE DEF g
      <4>4. g[k - 1] = f[n] /\ ss[k] = ss[n + 1]
        BY <3>3, <4>1, <4>2
      <4> QED BY <4>1, <4>3, <4>4
    <3> QED BY <3>1, <3>2, <3>3
  <2> HIDE DEF g
  <2> QED BY <2>3, <2>4 DEF Flattens
<1> HIDE DEF N
<1>3. Nat \subseteq N
  BY <1>1, <1>2, NaturalsReached
<1>4. Len(ss) \in N
  BY <1>3
<1> QED BY <1>4 DEF N

LEMMA FlattenUnique ==
  ASSUME NEW ss, NEW n \in Nat, NEW f, NEW g, Flattens(f, ss, n), Flattens(g, ss, n)
  PROVE  \A k \in 1..n : f[k] = g[k]
<1> DEFINE N == {k \in Nat : k \in 1..n => f[k] = g[k]}
<1>1. 0 \in N
  OBVIOUS
<1>2. ASSUME NEW k \in Nat, k \in N PROVE k + 1 \in N
  <2> SUFFICES ASSUME k + 1 \in 1..n PROVE f[k + 1] = g[k + 1]
    OBVIOUS
  <2>1. (k + 1) - 1 = k /\ (k + 1 # 1 => k \in 1..n)
    OBVIOUS
  <2> QED BY <1>2, <2>1 DEF Flattens
<1> HIDE DEF N
<1>3. Nat \subseteq N
  BY <1>1, <1>2, NaturalsReached
<1> QED BY <1>3 DEF N

LEMMA FlattenDef ==
  ASSUME NEW T, NEW ss \in Seq(Seq(T)), ss # <<>>
  PROVE  \E f \in [1..Len(ss) -> Seq(T)] : Flattens(f, ss, Len(ss)) /\ FlattenSeq(ss) = f[Len(ss)]
<1> DEFINE Rec(f) == f = [k \in 1..Len(ss) |-> IF k = 1 THEN ss[k] ELSE f[k - 1] \o ss[k]]
           flatten == CHOOSE f : Rec(f)
<1>1. Len(ss) \in Nat /\ Len(ss) # 0
  OBVIOUS
<1>2. FlattenSeq(ss) = flatten[Len(ss)]
  BY <1>1 DEF FlattenSeq
<1>3. PICK g \in [1..Len(ss) -> Seq(T)] : Flattens(g, ss, Len(ss))
  BY FlattenExists
<1>4. Rec(g)
  BY <1>3 DEF Flattens
<1>5. Rec(flatten)
  BY <1>4
<1> HIDE DEF flatten
<1>6. Flattens(flatten, ss, Len(ss))
  BY <1>5 DEF Flattens
<1>7. \A k \in 1..Len(ss) : flatten[k] = g[k]
  BY <1>1, <1>3, <1>6, FlattenUnique
<1>8. \A k \in 1..Len(ss) : flatten[k] \in Seq(T)
  BY <1>3, <1>7
<1>9. flatten = [k \in 1..Len(ss) |-> flatten[k]]
  BY <1>5
<1>10. flatten \in [1..Len(ss) -> Seq(T)]
  BY <1>8, <1>9
<1> QED BY <1>2, <1>6, <1>10

\* Flattening, one more sequence at the end.
LEMMA FlattenEmpty == FlattenSeq(<<>>) = <<>>
BY DEF FlattenSeq

LEMMA FlattenAppend ==
  ASSUME NEW T, NEW ss \in Seq(Seq(T)), NEW s \in Seq(T)
  PROVE  /\ FlattenSeq(ss) \in Seq(T)
         /\ FlattenSeq(Append(ss, s)) = FlattenSeq(ss) \o s
<1> DEFINE tt == Append(ss, s)
<1>1. /\ tt \in Seq(Seq(T)) /\ tt # <<>> /\ Len(tt) = Len(ss) + 1 /\ Len(ss) \in Nat
      /\ \A k \in 1..Len(ss) : tt[k] = ss[k]
      /\ tt[Len(ss) + 1] = s
  BY AppendProperties
<1> HIDE DEF tt
<1>2. PICK f \in [1..Len(tt) -> Seq(T)] : Flattens(f, tt, Len(tt)) /\ FlattenSeq(tt) = f[Len(tt)]
  BY <1>1, FlattenDef
<1>3. CASE ss = <<>>
  <2>1. Len(ss) = 0 /\ FlattenSeq(ss) = <<>>
    BY <1>3, FlattenEmpty
  <2>2. f[1] = s
    BY <1>1, <1>2, <2>1 DEF Flattens
  <2>3. <<>> \o s = s /\ <<>> \in Seq(T)
    OBVIOUS
  <2> QED BY <1>1, <1>2, <2>1, <2>2, <2>3 DEF tt
<1>4. CASE ss # <<>>
  <2>1. PICK g \in [1..Len(ss) -> Seq(T)] : Flattens(g, ss, Len(ss)) /\ FlattenSeq(ss) = g[Len(ss)]
    BY <1>4, FlattenDef
  <2>2. Flattens(f, ss, Len(ss))
    <3> SUFFICES ASSUME NEW k \in 1..Len(ss)
                 PROVE  f[k] = IF k = 1 THEN ss[k] ELSE f[k - 1] \o ss[k]
      BY DEF Flattens
    <3>1. k \in 1..Len(tt) /\ tt[k] = ss[k]
      BY <1>1
    <3> QED BY <1>2, <3>1 DEF Flattens
  <2>3. Len(ss) \in 1..Len(ss) /\ Len(ss) >= 1
    BY <1>1, <1>4
  <2>4. f[Len(ss)] = g[Len(ss)]
    BY <1>1, <2>1, <2>2, <2>3, FlattenUnique
  <2>5. f[Len(ss) + 1] = f[(Len(ss) + 1) - 1] \o tt[Len(ss) + 1]
    <3>1. Len(ss) + 1 \in 1..Len(tt) /\ Len(ss) + 1 # 1
      BY <1>1, <2>3
    <3> QED BY <1>2, <3>1 DEF Flattens
  <2>6. (Len(ss) + 1) - 1 = Len(ss)
    BY <1>1
  <2> QED BY <1>1, <1>2, <2>1, <2>3, <2>4, <2>5, <2>6 DEF tt
<1> QED BY <1>3, <1>4

\* The concatenation of what w makes of each message of a sequence.
Spread(w, q) == FlattenSeq([k \in DOMAIN q |-> w[q[k]]])

\* w makes a sequence over T of every element of M.
WordsOf(M, T, w) == \A m \in M : w[m] \in Seq(T)

LEMMA SpreadEmpty ==
  ASSUME NEW w
  PROVE  Spread(w, <<>>) = <<>>
<1>1. [k \in DOMAIN <<>> |-> w[<<>>[k]]] = <<>>
  OBVIOUS
<1> QED BY <1>1, FlattenEmpty DEF Spread

LEMMA SpreadAppend ==
  ASSUME NEW M, NEW T, NEW w, WordsOf(M, T, w), NEW q \in Seq(M), NEW m \in M
  PROVE  /\ Spread(w, q) \in Seq(T)
         /\ Spread(w, Append(q, m)) = Spread(w, q) \o w[m]
<1> DEFINE ss == [k \in DOMAIN q |-> w[q[k]]]
           qm == Append(q, m)
           tt == [k \in DOMAIN qm |-> w[qm[k]]]
<1>1. Len(q) \in Nat /\ DOMAIN q = 1..Len(q) /\ \A k \in 1..Len(q) : q[k] \in M
  OBVIOUS
<1>2. ss \in Seq(Seq(T)) /\ Len(ss) = Len(q)
  <2>1. \A k \in 1..Len(q) : w[q[k]] \in Seq(T)
    BY <1>1 DEF WordsOf
  <2>2. ss = [k \in 1..Len(q) |-> w[q[k]]]
    BY <1>1
  <2> QED BY <1>1, <2>1, <2>2, IsASeq
<1>3. /\ qm \in Seq(M) /\ Len(qm) = Len(q) + 1 /\ DOMAIN qm = 1..(Len(q) + 1)
      /\ \A k \in 1..Len(q) : qm[k] = q[k]
      /\ qm[Len(q) + 1] = m
  BY AppendProperties
<1>4. w[m] \in Seq(T)
  BY DEF WordsOf
<1>5. tt = Append(ss, w[m])
  <2>1. tt \in Seq(Seq(T)) /\ Len(tt) = Len(q) + 1
    <3>1. \A k \in 1..(Len(q) + 1) : w[qm[k]] \in Seq(T)
      BY <1>3 DEF WordsOf
    <3>2. tt = [k \in 1..(Len(q) + 1) |-> w[qm[k]]]
      BY <1>3
    <3> QED BY <1>1, <3>1, <3>2, IsASeq
  <2>2. /\ Append(ss, w[m]) \in Seq(Seq(T)) /\ Len(Append(ss, w[m])) = Len(q) + 1
        /\ \A k \in 1..Len(q) : Append(ss, w[m])[k] = ss[k]
        /\ Append(ss, w[m])[Len(q) + 1] = w[m]
    <3> HIDE DEF ss
    <3> QED BY <1>2, <1>4, AppendProperties
  <2>3. ASSUME NEW k \in 1..(Len(q) + 1) PROVE tt[k] = Append(ss, w[m])[k]
    <3>1. CASE k = Len(q) + 1
      BY <1>1, <1>3, <2>2, <3>1
    <3>2. CASE k # Len(q) + 1
      <4>1. k \in 1..Len(q)
        BY <1>1, <3>2
      <4>2. tt[k] = w[q[k]]
        BY <1>3, <4>1
      <4>3. ss[k] = w[q[k]]
        BY <1>1, <4>1
      <4> QED BY <2>2, <4>1, <4>2, <4>3
    <3> QED BY <3>1, <3>2
  <2> HIDE DEF tt, ss
  <2> QED BY <2>1, <2>2, <2>3, SeqEqual
<1> HIDE DEF ss, tt
<1>6. FlattenSeq(ss) \in Seq(T) /\ FlattenSeq(Append(ss, w[m])) = FlattenSeq(ss) \o w[m]
  BY <1>2, <1>4, FlattenAppend
<1> QED BY <1>5, <1>6 DEF Spread, ss, tt, qm

\* A sequence of one element, and one of more.
LEMMA OneElement ==
  ASSUME NEW M, NEW p \in Seq(M), Len(p) = 1
  PROVE  \E x \in M : p = Append(<<>>, x) /\ Head(p) = x /\ Tail(p) = <<>>
<1>1. p[1] \in M /\ Head(p) = p[1] /\ Tail(p) = <<>>
  <2>0. p # <<>>
    OBVIOUS
  <2>1. Tail(p) \in Seq(M) /\ Len(Tail(p)) = 0
    BY <2>0, HeadTailProperties
  <2>4. Tail(p) = <<>>
    BY <2>1, EmptySeq
  <2>5. p[1] \in M /\ Head(p) = p[1]
    OBVIOUS
  <2> QED BY <2>4, <2>5
<1>2. Append(<<>>, p[1]) \in Seq(M) /\ Len(Append(<<>>, p[1])) = 1 /\ Append(<<>>, p[1])[1] = p[1]
  BY <1>1
<1>3. p = Append(<<>>, p[1])
  BY <1>2, SeqEqual
<1> QED BY <1>1, <1>3

LEMMA MoreElements ==
  ASSUME NEW M, NEW p \in Seq(M), Len(p) > 1
  PROVE  \E f \in Seq(M), x \in M :
           /\ p = Append(f, x) /\ Len(f) = Len(p) - 1 /\ f # <<>>
           /\ Head(p) = Head(f) /\ Head(f) \in M
           /\ Tail(p) = Append(Tail(f), x) /\ Tail(f) \in Seq(M)
<1>1. p # <<>>
  OBVIOUS
<1>2. PICK f \in Seq(M), x \in M : p = Append(f, x)
  BY <1>1, SequenceEmptyOrAppend
<1>3. Len(f) = Len(p) - 1 /\ f # <<>>
  BY <1>2
<1>4. Head(f) \in M /\ Tail(f) \in Seq(M)
  BY <1>3
<1> QED BY <1>2, <1>3, <1>4, HeadTailAppend

LEMMA SpreadHead ==
  ASSUME NEW M, NEW T, NEW w, WordsOf(M, T, w), NEW q \in Seq(M), q # <<>>
  PROVE  Spread(w, q) = w[Head(q)] \o Spread(w, Tail(q))
<1> DEFINE Splits(p) == Spread(w, p) = w[Head(p)] \o Spread(w, Tail(p))
           N == {n \in Nat : \A p \in Seq(M) : Len(p) = n + 1 => Splits(p)}
<1>0. ASSUME NEW p \in Seq(M), NEW m \in M
      PROVE  Spread(w, p) \in Seq(T) /\ Spread(w, Append(p, m)) = Spread(w, p) \o w[m]
  <2>1. Spread(w, p) \in Seq(T)
    BY <1>0, SpreadAppend
  <2>2. Spread(w, Append(p, m)) = Spread(w, p) \o w[m]
    BY <1>0, SpreadAppend
  <2> QED BY <2>1, <2>2
<1>1. ASSUME NEW p \in Seq(M), Len(p) = 1 PROVE Splits(p)
  <2>1. PICK x \in M : p = Append(<<>>, x) /\ Head(p) = x /\ Tail(p) = <<>>
    BY <1>1, OneElement
  <2>2. <<>> \in Seq(M)
    OBVIOUS
  <2>3. Spread(w, Append(<<>>, x)) = Spread(w, <<>>) \o w[x]
    BY <2>2, <1>0, Zenon
  <2>4. w[x] \in Seq(T)
    BY DEF WordsOf
  <2>5. <<>> \o w[x] = w[x] \o <<>>
    BY <2>4, ConcatEmptySeq
  <2> QED BY <2>1, <2>3, <2>5, SpreadEmpty
<1>2. ASSUME NEW f \in Seq(M), NEW x \in M, Head(f) \in M, Tail(f) \in Seq(M), Splits(f),
             NEW p, p = Append(f, x), Head(p) = Head(f), Tail(p) = Append(Tail(f), x)
      PROVE  Splits(p)
  <2> DEFINE a == w[Head(f)]
             b == Spread(w, Tail(f))
             c == w[x]
  <2>1. a \in Seq(T) /\ b \in Seq(T) /\ c \in Seq(T)
    BY <1>0, <1>2 DEF WordsOf
  <2>2. Spread(w, f) = a \o b /\ Spread(w, p) = Spread(w, f) \o c
    BY <1>0, <1>2
  <2>3. Spread(w, Tail(p)) = b \o c /\ w[Head(p)] = a
    BY <1>0, <1>2
  <2> HIDE DEF a, b, c
  <2>4. (a \o b) \o c = a \o (b \o c)
    BY <2>1, ConcatAssociative, SMTT(30)
  <2> QED BY <2>2, <2>3, <2>4
<1>3. 0 \in N
  BY <1>1
<1>4. ASSUME NEW n \in Nat, n \in N PROVE n + 1 \in N
  <2> SUFFICES ASSUME NEW p \in Seq(M), Len(p) = (n + 1) + 1 PROVE Splits(p)
    OBVIOUS
  <2> HIDE DEF Splits
  <2>3. Len(p) > 1 /\ Len(p) - 1 = n + 1
    OBVIOUS
  <2>1. PICK f \in Seq(M), x \in M :
          /\ p = Append(f, x) /\ Len(f) = Len(p) - 1 /\ f # <<>>
          /\ Head(p) = Head(f) /\ Head(f) \in M
          /\ Tail(p) = Append(Tail(f), x) /\ Tail(f) \in Seq(M)
    BY <2>3, MoreElements, Zenon
  <2>2. Splits(f)
    BY <1>4, <2>1, <2>3
  <2> QED BY <1>2, <2>1, <2>2
<1> HIDE DEF N
<1>5. Nat \subseteq N
  BY <1>3, <1>4, NaturalsReached
<1>6. Len(q) - 1 \in N /\ (Len(q) - 1) + 1 = Len(q)
  <2>1. Len(q) \in Nat /\ Len(q) # 0
    OBVIOUS
  <2> QED BY <1>5, <2>1
<1> QED BY <1>6 DEF N

\* Cutting and joining.
LEMMA PrefixOfLonger ==
  ASSUME NEW T, NEW s \in Seq(T), NEW t \in Seq(T)
  PROVE  /\ IsPrefix(s, s \o t) /\ IsPrefix(s, s)
         /\ \A u \in Seq(T) : IsPrefix(u, s) => IsPrefix(u, s \o t)
<1>1. /\ Len(s) \in Nat /\ Len(t) \in Nat /\ Len(s \o t) = Len(s) + Len(t) /\ s \o t \in Seq(T)
      /\ \A k \in 1..Len(s) : (s \o t)[k] = s[k]
  OBVIOUS
<1>2. ASSUME NEW u \in Seq(T), Len(u) <= Len(s) PROVE SubSeq(s \o t, 1, Len(u)) = SubSeq(s, 1, Len(u))
  <2>1. /\ Len(u) \in Nat
        /\ \A k \in 1..Len(u) : (s \o t)[k] = s[k]
    BY <1>1, <1>2
  <2>2. /\ SubSeq(s \o t, 1, Len(u)) = [k \in 1..Len(u) |-> (s \o t)[k]]
        /\ SubSeq(s, 1, Len(u)) = [k \in 1..Len(u) |-> s[k]]
    BY <1>1, <1>2, <2>1
  <2> QED BY <2>1, <2>2
<1>3. IsPrefix(s, s)
  BY <1>1 DEF IsPrefix
<1>4. ASSUME NEW u \in Seq(T), IsPrefix(u, s) PROVE IsPrefix(u, s \o t)
  BY <1>1, <1>2, <1>4 DEF IsPrefix
<1> QED BY <1>3, <1>4

\* What is left of two equal sequences after as many elements of each.
LEMMA SameRest ==
  ASSUME NEW T, NEW a \in Seq(T), NEW b \in Seq(T), NEW c \in Seq(T), NEW d \in Seq(T),
         a \o b = c \o d, Len(a) = Len(c)
  PROVE  b = d /\ a = c
<1>1. Len(a) + Len(b) = Len(c) + Len(d)
  <2>1. Len(a \o b) = Len(a) + Len(b) /\ Len(c \o d) = Len(c) + Len(d)
    BY SMTT(30)
  <2> QED BY <2>1
<1>2. Len(b) = Len(d) /\ Len(a) \in Nat /\ Len(b) \in Nat
  BY <1>1
<1>3. ASSUME NEW k \in 1..Len(b) PROVE b[k] = d[k]
  <2>1. (a \o b)[Len(a) + k] = b[k]
    BY <1>2
  <2>2. (c \o d)[Len(c) + k] = d[k]
    BY <1>2
  <2> QED BY <2>1, <2>2
<1>4. ASSUME NEW k \in 1..Len(a) PROVE a[k] = c[k]
  <2>1. k \in 1..Len(c) /\ k <= Len(a) + Len(b) /\ k <= Len(c) + Len(d)
    BY <1>2
  <2>2. (a \o b)[k] = a[k]
    BY <1>2, <2>1
  <2>3. (c \o d)[k] = c[k]
    BY <1>2, <2>1
  <2> QED BY <2>2, <2>3
<1>5. a = c
  BY <1>4, SeqEqual
<1>6. b = d
  BY <1>2, <1>3, SeqEqual
<1> QED BY <1>5, <1>6
OutPiece == [kind : {"piece"}, msg : Out, nth : Nat]
OutWord == [m \in Out |-> Whole(m)]
InWord == [m \in In |-> Pieces(m, Frags[m])]
\* The worker leaves its loop for a reason it has reported, or because the owner
\* asked it to.
LeavingIsReported == pc \in {"closing", "done"} => mClosed \/ mStopping

\* Where flush() is, between two calls of curl_ws_send.
FlushPlace ==
  /\ pc # "send" => pending = <<>>
  /\ pending = <<>> => offset = 0
  /\ pending # <<>> => offset < Size[Head(pending)]

\* What went out is a prefix of what the owner sent, and until the worker leaves
\* its loop the rest is in its hands or in mOutgoing.
WireHolds ==
  /\ \E d \in Seq(OutPiece) :
       /\ IsPrefix(d, AllPieces(sent))
       /\ wire = d \/ (pc = "done" /\ mStopping /\ wire = Append(d, CloseFrame))
  /\ pc \notin {"closing", "done"} =>
       (wire \o InHand) \o AllPieces(mOutgoing) = AllPieces(sent)

\* With n events in the owner's hands, the messages r that the relay has sent, the
\* frames i in flight and the pieces g in run()'s `message`: every event after the
\* Open has delivered one message, and the pieces of the others are those in g
\* and then those of i, which may end with the relay's close frame.
Reassembles(n, r, i, g) ==
  /\ n >= 1 /\ n <= Len(r) + 1
  /\ \E p \in Seq(InPiece) :
       /\ i = p \/ \E c \in PeerCodes : i = Append(p, Closing(c))
       /\ g \o p = Spread(InWord, SubSeq(r, n, Len(r)))
  /\ n <= Len(r) => Len(g) < Frags[r[n]]
  /\ n = Len(r) + 1 => g = <<>>

InboundHolds ==
  /\ pc \in {"start", "upgrade"} =>
       EventsSoFar = <<>> /\ inbound = <<>> /\ relayed = <<>> /\ message = <<>>
  /\ Connected => Reassembles(Len(EventsSoFar), relayed, inbound, message)

------------------------------------------------------------------------------
\* The pieces of a message are pieces, and there are as many as its size says.
LEMMA PiecesShape ==
  ASSUME NEW S, NEW m \in S, NEW n \in Nat
  PROVE  /\ Pieces(m, n) \in Seq([kind : {"piece"}, msg : S, nth : Nat])
         /\ Len(Pieces(m, n)) = n
         /\ \A k \in 1..n : Pieces(m, n)[k] = Piece(m, k)
<1>1. \A k \in 1..n : Piece(m, k) \in [kind : {"piece"}, msg : S, nth : Nat]
  BY DEF Piece
<1>2. Pieces(m, n) = [k \in 1..n |-> Piece(m, k)]
  BY DEF Pieces
<1> QED BY <1>1, <1>2, IsASeq

LEMMA WordsFit == WordsOf(Out, OutPiece, OutWord) /\ WordsOf(In, InPiece, InWord)
<1>1. ASSUME NEW m \in Out PROVE OutWord[m] \in Seq(OutPiece)
  <2>1. Size[m] \in Nat
    BY SizesPositive
  <2>2. OutWord[m] = Pieces(m, Size[m])
    BY DEF OutWord, Whole
  <2> QED BY <2>1, <2>2, PiecesShape DEF OutPiece
<1>2. ASSUME NEW m \in In PROVE InWord[m] \in Seq(InPiece)
  <2>1. Frags[m] \in Nat
    BY SizesPositive
  <2>2. InWord[m] = Pieces(m, Frags[m])
    BY DEF InWord
  <2> QED BY <2>1, <2>2, PiecesShape DEF InPiece
<1> QED BY <1>1, <1>2 DEF WordsOf

\* The pieces of a sequence of messages, one message more or less.
LEMMA AllPiecesSpread ==
  ASSUME NEW q \in Seq(Out)
  PROVE  AllPieces(q) = Spread(OutWord, q)
<1>1. \A k \in DOMAIN q : Whole(q[k]) = OutWord[q[k]]
  BY DEF OutWord
<1>2. [k \in DOMAIN q |-> Whole(q[k])] = [k \in DOMAIN q |-> OutWord[q[k]]]
  BY <1>1
<1> QED BY <1>2 DEF AllPieces, Spread

LEMMA AllPiecesAppend ==
  ASSUME NEW q \in Seq(Out), NEW m \in Out
  PROVE  /\ AllPieces(q) \in Seq(OutPiece)
         /\ AllPieces(Append(q, m)) = AllPieces(q) \o Whole(m)
<1>1. Append(q, m) \in Seq(Out) /\ Whole(m) = OutWord[m]
  BY DEF OutWord
<1>2. AllPieces(q) = Spread(OutWord, q) /\ AllPieces(Append(q, m)) = Spread(OutWord, Append(q, m))
  BY <1>1, AllPiecesSpread
<1>3. Spread(OutWord, q) \in Seq(OutPiece)
  BY WordsFit, SpreadAppend
<1>4. Spread(OutWord, Append(q, m)) = Spread(OutWord, q) \o OutWord[m]
  BY WordsFit, SpreadAppend
<1> QED BY <1>1, <1>2, <1>3, <1>4

LEMMA AllPiecesType ==
  ASSUME NEW q \in Seq(Out)
  PROVE  AllPieces(q) \in Seq(OutPiece)
<1>1. CASE q = <<>>
  <2>1. AllPieces(q) = <<>>
    BY <1>1, AllPiecesSpread, SpreadEmpty
  <2> QED BY <2>1
<1>2. CASE q # <<>>
  BY <1>2, AllPiecesAppend
<1> QED BY <1>1, <1>2

LEMMA AllPiecesHead ==
  ASSUME NEW q \in Seq(Out), q # <<>>
  PROVE  AllPieces(q) = Whole(Head(q)) \o AllPieces(Tail(q))
<1>1. Tail(q) \in Seq(Out) /\ Head(q) \in Out
  OBVIOUS
<1>2. AllPieces(q) = Spread(OutWord, q) /\ AllPieces(Tail(q)) = Spread(OutWord, Tail(q))
  BY <1>1, AllPiecesSpread
<1>3. OutWord[Head(q)] = Whole(Head(q))
  BY <1>1 DEF OutWord
<1>4. Spread(OutWord, q) = OutWord[Head(q)] \o Spread(OutWord, Tail(q))
  BY WordsFit, SpreadHead
<1> QED BY <1>2, <1>3, <1>4

LEMMA AllPiecesEmpty == AllPieces(<<>>) = <<>>
<1>1. <<>> \in Seq(Out)
  OBVIOUS
<1> QED BY <1>1, AllPiecesSpread, SpreadEmpty

\* A sequence cut in two and joined again.
LEMMA CutAndJoin ==
  ASSUME NEW T, NEW s \in Seq(T), NEW i \in Nat, NEW j \in Nat, i <= j, j <= Len(s)
  PROVE  /\ SubSeq(s, i + 1, j) \in Seq(T) /\ Len(SubSeq(s, i + 1, j)) = j - i
         /\ SubSeq(s, i + 1, j) \o SubSeq(s, j + 1, Len(s)) = SubSeq(s, i + 1, Len(s))
<1> DEFINE a == SubSeq(s, i + 1, j)
           b == SubSeq(s, j + 1, Len(s))
           c == SubSeq(s, i + 1, Len(s))
<1>1. /\ a \in Seq(T) /\ Len(a) = j - i
      /\ \A k \in 1..(j - i) : a[k] = s[i + k]
  OBVIOUS
<1>2. /\ b \in Seq(T) /\ Len(b) = Len(s) - j
      /\ \A k \in 1..(Len(s) - j) : b[k] = s[j + k]
  OBVIOUS
<1>3. /\ c \in Seq(T) /\ Len(c) = Len(s) - i
      /\ \A k \in 1..(Len(s) - i) : c[k] = s[i + k]
  OBVIOUS
<1> HIDE DEF a, b, c
<1>4. a \o b \in Seq(T) /\ Len(a \o b) = Len(s) - i
  <2>0. a \in Seq(T) /\ b \in Seq(T)
    BY <1>1, <1>2
  <2>1. a \o b \in Seq(T) /\ Len(a \o b) = Len(a) + Len(b)
    BY <2>0
  <2>2. Len(a) + Len(b) = Len(s) - i
    <3>1. Len(s) \in Nat
      OBVIOUS
    <3> QED BY <1>1, <1>2, <3>1
  <2> QED BY <2>1, <2>2
<1>5. ASSUME NEW k \in 1..(Len(s) - i) PROVE (a \o b)[k] = c[k]
  <2>1. CASE k <= j - i
    <3>1. (a \o b)[k] = a[k]
      BY <1>1, <1>2, <2>1
    <3> QED BY <1>1, <1>3, <2>1, <3>1
  <2>2. CASE ~(k <= j - i)
    <3>1. (a \o b)[k] = b[k - (j - i)]
      BY <1>1, <1>2, <2>2
    <3>2. k - (j - i) \in 1..(Len(s) - j) /\ j + (k - (j - i)) = i + k
      <4>1. Len(s) \in Nat
        OBVIOUS
      <4> QED BY <2>2, <4>1
    <3>3. b[k - (j - i)] = s[i + k]
      BY <1>2, <3>2
    <3> QED BY <1>3, <3>1, <3>3
  <2> QED BY <2>1, <2>2
<1>6. a \o b = c
  BY <1>3, <1>4, <1>5, SeqEqual
<1> QED BY <1>1, <1>6 DEF a, b, c

------------------------------------------------------------------------------
\* A worker that leaves its loop has closed the queue or was asked to stop.
LEMMA LeavingInit == Init => LeavingIsReported
BY DEF Init, LeavingIsReported

LEMMA LeavingNext == TypeOK /\ LeavingIsReported /\ [Next]_vars => LeavingIsReported'
<1> SUFFICES ASSUME TypeOK, LeavingIsReported, [Next]_vars PROVE LeavingIsReported'
  OBVIOUS
<1> USE DEF LeavingIsReported
<1>1. ASSUME NEW c, fail(c) PROVE mClosed'
  BY <1>1 DEF fail, push, ClosedEvent
<1>2. CASE Owner
  BY <1>2 DEF Owner, Send, Poll, Destroy, Joined, workerVars
<1>3. CASE Begin
  BY <1>1, <1>3 DEF Begin
<1>4. CASE UpgradeFailed
  BY <1>1, <1>4 DEF UpgradeFailed
<1>5. CASE SendFailed \/ RecvFailed \/ RecvClose
  BY <1>1, <1>5 DEF SendFailed, RecvFailed, RecvClose
<1>6. CASE Upgraded \/ Flush \/ SendPart \/ Flushed \/ RecvPiece \/ RecvAgain
  BY <1>6 DEF Upgraded, Flush, SendPart, Flushed, RecvPiece, RecvAgain, ownerVars
<1>7. CASE Finish
  BY <1>7 DEF Finish, ownerVars
<1>8. CASE Relay \/ UNCHANGED vars
  BY <1>8 DEF Relay, RelaySend, RelayClose, RelayReads, vars, workerVars, ownerVars
<1> QED BY <1>2, <1>3, <1>4, <1>5, <1>6, <1>7, <1>8 DEF Next, Worker

\* A worker that ended by itself has closed the queue, whichever way it left
\* run(): every failure path calls fail() first, and the one that does not is
\* taken only while the owner waits in the destructor.
THEOREM DeathReported == Spec => []DeathIsReported
<1>1. IInv => TypeOK
  BY DEF IInv
<1>2. LeavingIsReported => DeathIsReported
  BY DEF LeavingIsReported, DeathIsReported
<1> QED BY InvInit, InvNext, LeavingInit, LeavingNext, <1>1, <1>2, PTL DEF Spec

------------------------------------------------------------------------------
\* flush() is always at a place inside the message it is sending.
LEMMA PlaceInit == Init => FlushPlace
BY DEF Init, FlushPlace

LEMMA PlaceNext == TypeOK /\ FlushPlace /\ [Next]_vars => FlushPlace'
<1> SUFFICES ASSUME TypeOK, FlushPlace, [Next]_vars PROVE FlushPlace'
  OBVIOUS
<1>1. ASSUME UNCHANGED <<pending, offset>>, pc = "send" => pc' = "send" \/ pending = <<>> PROVE FlushPlace'
  BY <1>1 DEF FlushPlace
<1>2. CASE Owner \/ Relay \/ UNCHANGED vars
  BY <1>1, <1>2 DEF Owner, Send, Poll, Destroy, Joined, Relay, RelaySend, RelayClose,
                    RelayReads, vars, workerVars
<1>3. CASE Begin \/ Upgraded \/ UpgradeFailed \/ Flushed \/ RecvPiece \/ RecvClose
             \/ RecvFailed \/ RecvAgain \/ Finish
  BY <1>1, <1>3 DEF Begin, Upgraded, UpgradeFailed, Flushed, RecvPiece, RecvClose, RecvFailed,
                    RecvAgain, Finish
<1>4. CASE Flush
  <2>1. CASE UNCHANGED <<pending, offset>> /\ pc = "loop"
    BY <1>1, <2>1
  <2>2. CASE pending' = mOutgoing /\ offset' = 0 /\ pc' = "send"
    <3>1. mOutgoing # <<>> => Head(mOutgoing) \in Out
      BY DEF TypeOK
    <3>2. mOutgoing # <<>> => Size[Head(mOutgoing)] \in Nat \ {0}
      BY <3>1, SizesPositive
    <3> QED BY <2>2, <3>2 DEF FlushPlace
  <2> QED BY <1>4, <2>1, <2>2 DEF Flush
<1>5. CASE SendPart
  <2> DEFINE m == Head(pending)
  <2>1. /\ pending \in Seq(Out) /\ pending # <<>> /\ offset \in Nat /\ pc' = "send"
        /\ Tail(pending) \in Seq(Out) /\ m \in Out
    BY <1>5 DEF SendPart, TypeOK
  <2>2. PICK n \in 1..(Size[m] - offset) :
          IF offset + n = Size[m] THEN pending' = Tail(pending) /\ offset' = 0
                                  ELSE pending' = pending /\ offset' = offset + n
    BY <1>5 DEF SendPart
  <2>3. Size[m] \in Nat
    BY <2>1, SizesPositive
  <2>4. CASE offset + n = Size[m]
    <3>1. pending' # <<>> => Head(pending') \in Out
      BY <2>1, <2>2, <2>4
    <3>2. pending' # <<>> => Size[Head(pending')] \in Nat \ {0}
      BY <3>1, SizesPositive
    <3> QED BY <2>1, <2>2, <2>4, <3>2 DEF FlushPlace
  <2>5. CASE offset + n # Size[m]
    <3>1. offset + n < Size[m]
      BY <2>1, <2>3, <2>5
    <3>2. pending' = pending /\ offset' = offset + n
      BY <2>2, <2>5
    <3>3. Size[Head(pending')] = Size[m]
      BY <3>2
    <3> QED BY <2>1, <3>1, <3>2, <3>3 DEF FlushPlace
  <2> QED BY <2>4, <2>5
<1>6. CASE SendFailed
  BY <1>6 DEF SendFailed, FlushPlace
<1> QED BY <1>2, <1>3, <1>4, <1>5, <1>6 DEF Next, Worker

------------------------------------------------------------------------------
\* What flush() still has to send of q, o pieces into its first message.
HandOf(q, o) ==
  IF q = <<>> THEN <<>> ELSE SubSeq(Whole(Head(q)), o + 1, Size[Head(q)]) \o AllPieces(Tail(q))

LEMMA WholeShape ==
  ASSUME NEW m \in Out
  PROVE  Whole(m) \in Seq(OutPiece) /\ Len(Whole(m)) = Size[m] /\ Size[m] \in Nat /\ Size[m] > 0
<1>1. Size[m] \in Nat /\ Size[m] > 0
  BY SizesPositive
<1> QED BY <1>1, PiecesShape DEF Whole, OutPiece

LEMMA HandWhole ==
  ASSUME NEW q \in Seq(Out)
  PROVE  HandOf(q, 0) = AllPieces(q)
<1>1. CASE q = <<>>
  BY <1>1, AllPiecesEmpty DEF HandOf
<1>2. CASE q # <<>>
  <2>1. Head(q) \in Out
    BY <1>2
  <2>2. SubSeq(Whole(Head(q)), 1, Len(Whole(Head(q)))) = Whole(Head(q))
    BY <2>1, WholeShape
  <2>3. SubSeq(Whole(Head(q)), 0 + 1, Size[Head(q)]) = Whole(Head(q))
    BY <2>1, <2>2, WholeShape
  <2>4. HandOf(q, 0) = SubSeq(Whole(Head(q)), 0 + 1, Size[Head(q)]) \o AllPieces(Tail(q))
    BY <1>2 DEF HandOf
  <2> QED BY <1>2, <2>3, <2>4, AllPiecesHead
<1> QED BY <1>1, <1>2

LEMMA HandType ==
  ASSUME NEW q \in Seq(Out), NEW o \in Nat, q # <<>> => o < Size[Head(q)]
  PROVE  HandOf(q, o) \in Seq(OutPiece)
<1>1. CASE q = <<>>
  BY <1>1 DEF HandOf
<1>2. CASE q # <<>>
  <2> DEFINE W == Whole(Head(q))
             S == Size[Head(q)]
  <2>1. Head(q) \in Out /\ Tail(q) \in Seq(Out)
    BY <1>2
  <2>2. W \in Seq(OutPiece) /\ Len(W) = S /\ S \in Nat /\ o <= S /\ S <= Len(W)
    BY <1>2, <2>1, WholeShape
  <2>3. AllPieces(Tail(q)) \in Seq(OutPiece)
    BY <2>1, AllPiecesType
  <2>4. HandOf(q, o) = SubSeq(W, o + 1, S) \o AllPieces(Tail(q))
    BY <1>2 DEF HandOf
  <2> HIDE DEF W, S
  <2>5. SubSeq(W, o + 1, S) \in Seq(OutPiece)
    BY <2>2, CutAndJoin
  <2> QED BY <2>3, <2>4, <2>5
<1> QED BY <1>1, <1>2

\* A call of curl_ws_send moves n pieces out of it.
LEMMA HandPart ==
  ASSUME NEW q \in Seq(Out), q # <<>>, NEW o \in Nat, NEW n \in 1..(Size[Head(q)] - o)
  PROVE  LET part == SubSeq(Whole(Head(q)), o + 1, o + n)
             left == IF o + n = Size[Head(q)] THEN HandOf(Tail(q), 0) ELSE HandOf(q, o + n)
         IN  part \in Seq(OutPiece) /\ left \in Seq(OutPiece) /\ HandOf(q, o) = part \o left
<1> DEFINE W == Whole(Head(q))
           S == Size[Head(q)]
           R == AllPieces(Tail(q))
           x == SubSeq(W, o + 1, o + n)
           y == SubSeq(W, (o + n) + 1, S)
<1>1. Head(q) \in Out /\ Tail(q) \in Seq(Out)
  OBVIOUS
<1>2. W \in Seq(OutPiece) /\ Len(W) = S /\ S \in Nat
  BY <1>1, WholeShape
<1>3. n \in Nat /\ o + n \in Nat /\ o <= o + n /\ o + n <= S
  BY <1>2
<1>4. R \in Seq(OutPiece) /\ HandOf(Tail(q), 0) = R
  BY <1>1, AllPiecesType, HandWhole
<1>5. HandOf(q, o) = SubSeq(W, o + 1, S) \o R /\ HandOf(q, o + n) = y \o R
  BY DEF HandOf
<1> HIDE DEF W, S, R
<1>6. x \in Seq(OutPiece) /\ x \o SubSeq(W, (o + n) + 1, Len(W)) = SubSeq(W, o + 1, Len(W))
  BY <1>2, <1>3, CutAndJoin
<1>7. x \in Seq(OutPiece) /\ x \o y = SubSeq(W, o + 1, S)
  BY <1>2, <1>6
<1>8. CASE o + n = S
  BY <1>4, <1>5, <1>7, <1>8 DEF W, S
<1>9. CASE o + n # S
  <2>1. (o + n) + 1 \in Nat /\ y \in Seq(OutPiece)
    <3>1. S \in Nat /\ S <= Len(W)
      BY <1>2
    <3> QED BY <1>2, <1>3, <3>1
  <2> HIDE DEF x, y
  <2>2. (x \o y) \o R = x \o (y \o R)
    <3>1. x \in Seq(OutPiece) /\ y \in Seq(OutPiece) /\ R \in Seq(OutPiece)
      BY <1>4, <1>7, <2>1
    <3> QED BY <3>1, ConcatAssociative, SMTT(30)
  <2>3. y \o R \in Seq(OutPiece)
    BY <1>4, <2>1
  <2> QED BY <1>5, <1>7, <1>9, <2>2, <2>3 DEF x, W, S
<1> QED BY <1>8, <1>9

------------------------------------------------------------------------------
\* Four sequences joined.
LEMMA Regroup ==
  ASSUME NEW T, NEW a \in Seq(T), NEW b \in Seq(T), NEW c \in Seq(T), NEW e \in Seq(T)
  PROVE  /\ ((a \o b) \o c) \o e = (a \o b) \o (c \o e)
         /\ IsPrefix(a \o b, ((a \o b) \o c) \o e)
<1> DEFINE ab == a \o b
<1>1. ab \in Seq(T)
  OBVIOUS
<1> HIDE DEF ab
<1>2. (ab \o c) \o e = ab \o (c \o e)
  BY <1>1, ConcatAssociative, SMTT(30)
<1>3. c \o e \in Seq(T)
  OBVIOUS
<1>4. IsPrefix(ab, ab \o (c \o e))
  BY <1>1, <1>3, PrefixOfLonger
<1>5. IsPrefix(ab, (ab \o c) \o e)
  BY <1>2, <1>4, Zenon
<1> QED BY <1>2, <1>5 DEF ab

\* A step that puts nothing on the wire keeps WireHolds, if it also leaves what
\* is to be sent alone or takes the worker out of its loop.
LEMMA WireKept ==
  ASSUME WireHolds, UNCHANGED <<wire, sent>>,
         pc = "done" => pc' = "done" /\ (mStopping => mStopping'),
         pc' \notin {"closing", "done"} =>
           pc \notin {"closing", "done"} /\ UNCHANGED <<mOutgoing, pending, offset>>
  PROVE  WireHolds'
<1>1. PICK d \in Seq(OutPiece) :
        /\ IsPrefix(d, AllPieces(sent))
        /\ wire = d \/ (pc = "done" /\ mStopping /\ wire = Append(d, CloseFrame))
  BY DEF WireHolds
<1>2. /\ IsPrefix(d, AllPieces(sent'))
      /\ wire' = d \/ (pc' = "done" /\ mStopping' /\ wire' = Append(d, CloseFrame))
  BY <1>1
<1>3. ASSUME pc' \notin {"closing", "done"}
      PROVE  (wire' \o InHand') \o AllPieces(mOutgoing') = AllPieces(sent')
  <2>1. InHand' = InHand
    BY <1>3 DEF InHand
  <2> QED BY <1>3, <2>1 DEF WireHolds
<1> QED BY <1>2, <1>3 DEF WireHolds

LEMMA WireInit == Init => WireHolds
<1> SUFFICES ASSUME Init PROVE WireHolds
  OBVIOUS
<1>1. wire = <<>> /\ sent = <<>> /\ mOutgoing = <<>> /\ pending = <<>>
  BY DEF Init
<1>2. <<>> \in Seq(OutPiece) /\ IsPrefix(<<>>, <<>>)
  BY DEF IsPrefix
<1>3. InHand = <<>> /\ AllPieces(mOutgoing) = <<>> /\ AllPieces(sent) = <<>>
  BY <1>1, AllPiecesEmpty DEF InHand
<1>4. (<<>> \o <<>>) \o <<>> = <<>>
  OBVIOUS
<1> QED BY <1>1, <1>2, <1>3, <1>4 DEF WireHolds

LEMMA WireNext == TypeOK /\ FlushPlace /\ WireHolds /\ [Next]_vars => WireHolds'
<1> SUFFICES ASSUME TypeOK, FlushPlace, WireHolds, [Next]_vars PROVE WireHolds'
  OBVIOUS
<1>1. PICK d \in Seq(OutPiece) :
        /\ IsPrefix(d, AllPieces(sent))
        /\ wire = d \/ (pc = "done" /\ mStopping /\ wire = Append(d, CloseFrame))
  BY DEF WireHolds
<1>2. /\ pending \in Seq(Out) /\ mOutgoing \in Seq(Out) /\ sent \in Seq(Out) /\ offset \in Nat
      /\ pending # <<>> => offset < Size[Head(pending)]
  BY DEF TypeOK, FlushPlace
<1>3. /\ InHand = HandOf(pending, offset) /\ InHand \in Seq(OutPiece)
      /\ AllPieces(mOutgoing) \in Seq(OutPiece) /\ AllPieces(sent) \in Seq(OutPiece)
  BY <1>2, HandType, AllPiecesType DEF InHand, HandOf
<1>4. ASSUME NEW m \in Out, Send(m) PROVE WireHolds'
  <2> DEFINE A == AllPieces(sent)
             B == AllPieces(mOutgoing)
             H == InHand
             W == Whole(m)
  <2>1. /\ sent' = Append(sent, m) /\ mOutgoing' = Append(mOutgoing, m)
        /\ UNCHANGED <<wire, pc, pending, offset, mStopping>>
    BY <1>4 DEF Send, workerVars
  <2>2. /\ A \in Seq(OutPiece) /\ B \in Seq(OutPiece) /\ W \in Seq(OutPiece) /\ H \in Seq(OutPiece)
        /\ AllPieces(sent') = A \o W /\ AllPieces(mOutgoing') = B \o W
        /\ InHand' = H
    BY <1>2, <1>3, <2>1, AllPiecesAppend, WholeShape DEF InHand
  <2> HIDE DEF A, B, H, W
  <2>3. IsPrefix(d, A)
    BY <1>1 DEF A
  <2>4. IsPrefix(d, A \o W)
    BY <2>2, <2>3, PrefixOfLonger
  <2>5. /\ IsPrefix(d, AllPieces(sent'))
        /\ wire' = d \/ (pc' = "done" /\ mStopping' /\ wire' = Append(d, CloseFrame))
    BY <1>1, <2>1, <2>2, <2>4
  <2>6. ASSUME pc' \notin {"closing", "done"}
        PROVE  (wire' \o InHand') \o AllPieces(mOutgoing') = AllPieces(sent')
    <3>1. wire \in Seq(OutPiece)
      BY <1>1, <2>1, <2>6
    <3>2. (wire \o H) \o B = A
      BY <2>1, <2>6 DEF WireHolds, A, B, H
    <3>4. (wire \o H) \o (B \o W) = A \o W
      <4>1. H \in Seq(OutPiece) /\ B \in Seq(OutPiece) /\ W \in Seq(OutPiece)
        BY <2>2
      <4> DEFINE wh == wire \o H
      <4>2. wh \in Seq(OutPiece)
        BY <3>1, <4>1
      <4> HIDE DEF wh
      <4>3. \A a, b, c \in Seq(OutPiece) : (a \o b) \o c = a \o (b \o c)
        BY ONLY ConcatAssociative, SMTT(30)
      <4>4. (wh \o B) \o W = wh \o (B \o W)
        BY ONLY <4>1, <4>2, <4>3
      <4> QED BY <3>2, <4>4 DEF wh
    <3>5. (wire' \o InHand') \o AllPieces(mOutgoing') = (wire \o H) \o (B \o W)
      BY <2>1, <2>2
    <3> QED BY <2>2, <3>4, <3>5
  <2>7. \E dd \in Seq(OutPiece) :
          /\ IsPrefix(dd, AllPieces(sent'))
          /\ wire' = dd \/ (pc' = "done" /\ mStopping' /\ wire' = Append(dd, CloseFrame))
    BY <2>5, Zenon
  <2> QED BY <2>6, <2>7 DEF WireHolds
<1>5. CASE Flush
  <2>1. CASE pc' = "closing"
    BY <1>5, <2>1, WireKept DEF Flush, ownerVars
  <2>2. CASE pc' # "closing"
    <3> DEFINE B == AllPieces(mOutgoing)
    <3>1. /\ pc = "loop" /\ pc' = "send" /\ pending' = mOutgoing /\ mOutgoing' = <<>> /\ offset' = 0
          /\ UNCHANGED <<wire, sent>>
      BY <1>5, <2>2 DEF Flush, ownerVars
    <3>2. pending = <<>> /\ InHand = <<>> /\ wire = d
      BY <1>1, <3>1 DEF FlushPlace, InHand
    <3>3. InHand' = HandOf(mOutgoing, 0)
      BY <3>1 DEF InHand, HandOf
    <3>4. InHand' = B /\ AllPieces(mOutgoing') = <<>> /\ B \in Seq(OutPiece)
      BY <1>2, <1>3, <3>1, <3>3, HandWhole, AllPiecesEmpty
    <3>5. (wire \o <<>>) \o B = AllPieces(sent)
      BY <3>1, <3>2 DEF WireHolds
    <3> HIDE DEF B
    <3>6. (d \o <<>>) \o B = (d \o B) \o <<>>
      <4>1. d \o <<>> = d /\ d \o B \in Seq(OutPiece)
        BY <3>4
      <4>2. (d \o B) \o <<>> = d \o B
        BY <4>1
      <4> QED BY <4>1, <4>2
    <3>7. (wire' \o InHand') \o AllPieces(mOutgoing') = AllPieces(sent')
      BY <3>1, <3>2, <3>4, <3>5, <3>6
    <3> QED BY <1>1, <3>1, <3>2, <3>7 DEF WireHolds
  <2> QED BY <2>1, <2>2
<1>6. CASE SendPart
  <2> DEFINE m == Head(pending)
             H == InHand'
             B == AllPieces(mOutgoing)
  <2>1. /\ pc = "send" /\ pending # <<>> /\ UNCHANGED <<mOutgoing, pc, sent>>
    BY <1>6 DEF SendPart, ownerVars
  <2>2. PICK n \in 1..(Size[m] - offset) :
          /\ wire' = wire \o SubSeq(Whole(m), offset + 1, offset + n)
          /\ IF offset + n = Size[m] THEN pending' = Tail(pending) /\ offset' = 0
                                     ELSE pending' = pending /\ offset' = offset + n
    BY <1>6 DEF SendPart, Whole
  <2> DEFINE x == SubSeq(Whole(m), offset + 1, offset + n)
             L == IF offset + n = Size[m] THEN HandOf(Tail(pending), 0) ELSE HandOf(pending, offset + n)
  <2>3. x \in Seq(OutPiece) /\ L \in Seq(OutPiece) /\ InHand = x \o L
    BY <1>2, <1>3, <2>1, HandPart
  <2>4. H = L
    BY <2>2 DEF InHand, HandOf
  <2>5. wire = d /\ (wire \o InHand) \o B = AllPieces(sent)
    BY <1>1, <2>1 DEF WireHolds
  <2> HIDE DEF x, L, H, B
  <2>6. (d \o (x \o L)) \o B = ((d \o x) \o L) \o B
    BY <2>3, ConcatAssociative, SMTT(30)
  <2>7. wire' = d \o x /\ d \o x \in Seq(OutPiece)
    BY <2>2, <2>3, <2>5 DEF x
  <2>8. ((d \o x) \o L) \o B = AllPieces(sent)
    BY <2>3, <2>5, <2>6
  <2>9. IsPrefix(d \o x, AllPieces(sent))
    <3>1. B \in Seq(OutPiece)
      BY <1>3 DEF B
    <3>2. x \in Seq(OutPiece) /\ L \in Seq(OutPiece)
      BY <2>3
    <3>3. IsPrefix(d \o x, ((d \o x) \o L) \o B)
      BY <3>1, <3>2, Regroup
    <3> QED BY <2>8, <3>3
  <2>10. (wire' \o InHand') \o AllPieces(mOutgoing') = AllPieces(sent')
    BY <2>1, <2>4, <2>7, <2>8 DEF B, H
  <2> QED BY <2>1, <2>7, <2>9, <2>10 DEF WireHolds
<1>7. CASE Finish
  <2>1. /\ pc = "closing" /\ pc' = "done" /\ UNCHANGED <<sent, mStopping>>
        /\ wire' = IF mStopping THEN Append(wire, CloseFrame) ELSE wire
    BY <1>7 DEF Finish, ownerVars
  <2> QED BY <1>1, <2>1 DEF WireHolds
<1>8. CASE SendFailed \/ RecvFailed \/ RecvClose
  <2>1. UNCHANGED <<wire, sent>> /\ pc # "done" /\ pc' = "closing"
    BY <1>8 DEF SendFailed, RecvFailed, RecvClose, ownerVars
  <2> QED BY <2>1, WireKept
<1>9. CASE Begin \/ Upgraded \/ UpgradeFailed
  <2>1. /\ UNCHANGED <<wire, sent, mOutgoing, pending, offset>> /\ pc \in {"start", "upgrade"}
    BY <1>9 DEF Begin, Upgraded, UpgradeFailed, ownerVars
  <2> QED BY <2>1, WireKept
<1>10. CASE Flushed \/ RecvPiece \/ RecvAgain
  <2>1. /\ UNCHANGED <<wire, sent, mOutgoing, pending, offset>> /\ pc \in {"send", "recv"}
    BY <1>10 DEF Flushed, RecvPiece, RecvAgain, ownerVars
  <2> QED BY <2>1, WireKept
<1>11. CASE Poll \/ Destroy \/ Joined \/ Relay \/ UNCHANGED vars
  <2>1. UNCHANGED <<wire, sent, mOutgoing, pending, offset, pc>> /\ (mStopping => mStopping')
    BY <1>11 DEF Poll, Destroy, Joined, Relay, RelaySend, RelayClose, RelayReads, vars,
                 workerVars, ownerVars
  <2> QED BY <2>1, WireKept
<1> QED BY <1>4, <1>5, <1>6, <1>7, <1>8, <1>9, <1>10, <1>11 DEF Next, Owner, Worker

LEMMA WireShows == IInv /\ LeavingIsReported /\ FlushPlace /\ WireHolds => WireExact
<1> SUFFICES ASSUME IInv, LeavingIsReported, WireHolds PROVE WireExact
  OBVIOUS
<1>1. PICK d \in Seq(OutPiece) :
        /\ IsPrefix(d, AllPieces(sent))
        /\ wire = d \/ (pc = "done" /\ mStopping /\ wire = Append(d, CloseFrame))
  BY DEF WireHolds
<1>2. ASSUME NEW i \in 1..Len(d) PROVE d[i] # CloseFrame
  <2>1. d[i] \in OutPiece
    OBVIOUS
  <2>2. d[i].kind = "piece" /\ CloseFrame.kind = "close"
    BY <2>1 DEF OutPiece, CloseFrame
  <2> QED BY <2>2
<1>5. NothingLostWhileOpen
  BY DEF LeavingIsReported, WireHolds, NothingLostWhileOpen
<1>3. CASE wire = d
  <2>1. WireData = d
    <3>1. d # <<>> => Last(d) # CloseFrame
      BY <1>2 DEF Last
    <3> QED BY <1>3, <3>1 DEF WireData
  <2>2. \A i \in 1..Len(wire) : wire[i] # CloseFrame
    BY <1>2, <1>3
  <2>3. IsPrefix(WireData, AllPieces(sent))
    BY <1>1, <2>1
  <2>4. WireInOrder
    BY <2>2, <2>3 DEF WireInOrder
  <2> QED BY <1>5, <2>4 DEF WireExact
<1>4. CASE mStopping /\ wire = Append(d, CloseFrame)
  <2>1. /\ wire # <<>> /\ Len(wire) = Len(d) + 1 /\ Len(d) \in Nat
        /\ wire[Len(d) + 1] = CloseFrame
        /\ \A i \in 1..Len(d) : wire[i] = d[i]
    BY <1>4
  <2>2. Last(wire) = CloseFrame
    BY <2>1 DEF Last
  <2>3. Front(wire) = d
    BY <1>4, <2>1 DEF Front
  <2>4. WireData = d
    BY <2>1, <2>2, <2>3 DEF WireData
  <2>5. ASSUME NEW i \in 1..Len(wire), wire[i] = CloseFrame PROVE i = Len(wire)
    BY <1>2, <2>1, <2>5
  <2>6. IsPrefix(WireData, AllPieces(sent))
    BY <1>1, <2>4
  <2>7. WireInOrder
    BY <1>4, <2>5, <2>6 DEF WireInOrder
  <2> QED BY <1>5, <2>7 DEF WireExact
<1> QED BY <1>1, <1>3, <1>4

\* Whatever parts curl takes a message in, the relay gets what the owner sent, in
\* order and as far as the connection lasted, and while it lasts no piece is lost
\* between Send, flush()'s swap and the wire.
THEOREM WireCorrect == Spec => []WireExact
<1>1. IInv => TypeOK
  BY DEF IInv
<1> QED BY InvInit, InvNext, LeavingInit, LeavingNext, PlaceInit, PlaceNext, WireInit, WireNext,
           WireShows, <1>1, PTL DEF Spec

------------------------------------------------------------------------------
\* Sequences joined and cut, an element at a time.
LEMMA AppendBehind ==
  ASSUME NEW T, NEW a \in Seq(T), NEW b \in Seq(T), NEW e \in T
  PROVE  a \o Append(b, e) = Append(a \o b, e)
<1>1. <<e>> \in Seq(T)
  OBVIOUS
<1>2. Append(b, e) = b \o <<e>> /\ Append(a \o b, e) = (a \o b) \o <<e>>
  BY AppendIsConcat, ConcatProperties
<1>3. (a \o b) \o <<e>> = a \o (b \o <<e>>)
  BY <1>1, ConcatAssociative, SMTT(30)
<1> QED BY <1>2, <1>3

LEMMA MoveOver ==
  ASSUME NEW T, NEW a \in Seq(T), NEW b \in Seq(T), b # <<>>
  PROVE  Append(a, Head(b)) \o Tail(b) = a \o b
<1> DEFINE h == Head(b)
           t == Tail(b)
<1>1. h \in T /\ t \in Seq(T) /\ b = <<h>> \o t
  <2>1. h \in T /\ t \in Seq(T) /\ Len(t) = Len(b) - 1 /\ Len(b) \in Nat /\ Len(b) >= 1
    OBVIOUS
  <2>2. <<h>> \o t \in Seq(T) /\ Len(<<h>> \o t) = Len(b)
    BY <2>1
  <2>3. ASSUME NEW k \in 1..Len(b) PROVE b[k] = (<<h>> \o t)[k]
    OBVIOUS
  <2> HIDE DEF h, t
  <2>4. b = <<h>> \o t
    BY <2>2, <2>3, SeqEqual
  <2> QED BY <2>1, <2>4
<1> HIDE DEF h, t
<1>2. <<h>> \in Seq(T)
  BY <1>1
<1>3. Append(a, h) = a \o <<h>>
  BY <1>1, AppendIsConcat
<1>4. (a \o <<h>>) \o t = a \o (<<h>> \o t)
  BY <1>1, <1>2, ConcatAssociative, SMTT(30)
<1> QED BY <1>1, <1>3, <1>4 DEF h, t

\* What is left of a sequence from place i on.
LEMMA LeftTail ==
  ASSUME NEW T, NEW s \in Seq(T), NEW i \in Nat, 1 <= i, i <= Len(s)
  PROVE  /\ SubSeq(s, i, Len(s)) \in Seq(T) /\ SubSeq(s, i, Len(s)) # <<>>
         /\ Head(SubSeq(s, i, Len(s))) = s[i]
         /\ Tail(SubSeq(s, i, Len(s))) = SubSeq(s, i + 1, Len(s))
<1> DEFINE u == SubSeq(s, i, Len(s))
           v == SubSeq(s, i + 1, Len(s))
<1>1. /\ Len(s) \in Nat /\ u \in Seq(T) /\ Len(u) = (Len(s) - i) + 1
      /\ \A k \in 1..((Len(s) - i) + 1) : u[k] = s[(i + k) - 1]
  OBVIOUS
<1>2. /\ v \in Seq(T) /\ Len(v) = Len(s) - i
      /\ \A k \in 1..(Len(s) - i) : v[k] = s[i + k]
  OBVIOUS
<1> HIDE DEF u, v
<1>3. u # <<>> /\ Head(u) = s[i]
  BY <1>1
<1>4. Tail(u) \in Seq(T) /\ Len(Tail(u)) = Len(s) - i
  BY <1>1, <1>3
<1>5. ASSUME NEW k \in 1..(Len(s) - i) PROVE Tail(u)[k] = v[k]
  <2>1. Tail(u)[k] = u[k + 1]
    BY <1>1, <1>3
  <2>2. k + 1 \in 1..((Len(s) - i) + 1) /\ (i + (k + 1)) - 1 = i + k
    BY <1>1
  <2> QED BY <1>1, <1>2, <2>1, <2>2
<1>6. Tail(u) = v
  BY <1>2, <1>4, <1>5, SeqEqual
<1> QED BY <1>1, <1>3, <1>6 DEF u, v

LEMMA LeftNothing ==
  ASSUME NEW T, NEW s \in Seq(T), NEW i \in Nat, i > Len(s)
  PROVE  SubSeq(s, i, Len(s)) = <<>>
OBVIOUS

LEMMA LeftAppend ==
  ASSUME NEW T, NEW s \in Seq(T), NEW x \in T, NEW i \in Nat, 1 <= i, i <= Len(s) + 1
  PROVE  /\ SubSeq(s, i, Len(s)) \in Seq(T)
         /\ SubSeq(Append(s, x), i, Len(Append(s, x))) = Append(SubSeq(s, i, Len(s)), x)
<1> DEFINE u == SubSeq(s, i, Len(s))
           sx == Append(s, x)
           v == SubSeq(sx, i, Len(sx))
<1>1. /\ Len(s) \in Nat /\ u \in Seq(T) /\ Len(u) = (Len(s) - i) + 1
      /\ \A k \in 1..((Len(s) - i) + 1) : u[k] = s[(i + k) - 1]
  OBVIOUS
<1>2. /\ sx \in Seq(T) /\ Len(sx) = Len(s) + 1
      /\ \A k \in 1..Len(s) : sx[k] = s[k]
      /\ sx[Len(s) + 1] = x
  BY AppendProperties
<1> HIDE DEF sx
<1>3. /\ v \in Seq(T) /\ Len(v) = (Len(s) - i) + 2
      /\ \A k \in 1..((Len(s) - i) + 2) : v[k] = sx[(i + k) - 1]
  BY <1>1, <1>2
<1> HIDE DEF u, v
<1>4. /\ Append(u, x) \in Seq(T) /\ Len(Append(u, x)) = (Len(s) - i) + 2
      /\ \A k \in 1..((Len(s) - i) + 1) : Append(u, x)[k] = u[k]
      /\ Append(u, x)[(Len(s) - i) + 2] = x
  BY <1>1, AppendProperties
<1>5. ASSUME NEW k \in 1..((Len(s) - i) + 2) PROVE v[k] = Append(u, x)[k]
  <2>1. CASE k = (Len(s) - i) + 2
    <3>1. (i + k) - 1 = Len(s) + 1
      BY <1>1, <2>1
    <3> QED BY <1>2, <1>3, <1>4, <2>1, <3>1
  <2>2. CASE k # (Len(s) - i) + 2
    <3>0. Len(s) \in Nat
      OBVIOUS
    <3>1. k \in 1..((Len(s) - i) + 1) /\ (i + k) - 1 \in 1..Len(s)
      BY <2>2, <3>0
    <3>2. v[k] = s[(i + k) - 1]
      BY <1>2, <1>3, <3>1
    <3>3. Append(u, x)[k] = s[(i + k) - 1]
      BY <1>1, <1>4, <3>1
    <3> QED BY <3>2, <3>3
  <2> QED BY <2>1, <2>2
<1>6. v = Append(u, x)
  BY <1>3, <1>4, <1>5, SeqEqual
<1> QED BY <1>1, <1>6 DEF u, v, sx

------------------------------------------------------------------------------
\* The pieces of a message of the relay.
LEMMA FragShape ==
  ASSUME NEW m \in In
  PROVE  /\ InWord[m] = Pieces(m, Frags[m]) /\ InWord[m] \in Seq(InPiece)
         /\ Frags[m] \in Nat /\ Frags[m] > 0 /\ Len(InWord[m]) = Frags[m]
         /\ \A k \in 1..Frags[m] : InWord[m][k].msg = m /\ InWord[m][k].nth = k
<1>1. Frags[m] \in Nat /\ Frags[m] > 0 /\ InWord[m] = Pieces(m, Frags[m])
  BY SizesPositive DEF InWord
<1>2. /\ Pieces(m, Frags[m]) \in Seq(InPiece) /\ Len(Pieces(m, Frags[m])) = Frags[m]
      /\ \A k \in 1..Frags[m] : Pieces(m, Frags[m])[k] = Piece(m, k)
  BY <1>1, PiecesShape DEF InPiece
<1>3. \A k \in 1..Frags[m] : Piece(m, k).msg = m /\ Piece(m, k).nth = k
  BY DEF Piece
<1>4. InWord[m] \in Seq(InPiece) /\ Len(InWord[m]) = Frags[m]
  BY <1>1, <1>2, Zenon
<1>5. \A k \in 1..Frags[m] : InWord[m][k] = Piece(m, k)
  BY <1>1, <1>2, Zenon
<1> QED BY <1>1, <1>3, <1>4, <1>5

\* Right after the Open.
LEMMA ReassemblesOpen == Reassembles(1, <<>>, <<>>, <<>>)
<1> DEFINE v == SubSeq(<<>>, 1, Len(<<>>))
<1>1. <<>> \in Seq(InPiece) /\ Len(<<>>) = 0 /\ <<>> \o <<>> = <<>>
  OBVIOUS
<1>2. v = <<>>
  OBVIOUS
<1> HIDE DEF v
<1>3. <<>> \o <<>> = Spread(InWord, v)
  <2>1. Spread(InWord, v) = <<>>
    BY <1>2, SpreadEmpty
  <2> QED BY <1>1, <2>1
<1>4. \E p \in Seq(InPiece) :
        /\ <<>> = p \/ \E c \in PeerCodes : <<>> = Append(p, Closing(c))
        /\ <<>> \o p = Spread(InWord, v)
  BY <1>1, <1>3
<1> QED BY <1>1, <1>4 DEF Reassembles, v

\* The relay sends a message.
LEMMA ReassemblesSend ==
  ASSUME NEW n \in Nat, NEW r \in Seq(In), NEW i, NEW g \in Seq(InPiece), NEW m \in In,
         Reassembles(n, r, i, g), ~\E k \in 1..Len(i) : i[k].kind = "closing"
  PROVE  Reassembles(n, Append(r, m), i \o Message(m), g)
<1> DEFINE W == Message(m)
           u == SubSeq(r, n, Len(r))
           rm == Append(r, m)
           v == SubSeq(rm, n, Len(rm))
<1>1. PICK p \in Seq(InPiece) :
        /\ i = p \/ \E c \in PeerCodes : i = Append(p, Closing(c))
        /\ g \o p = Spread(InWord, u)
  BY DEF Reassembles
<1>2. i = p
  <2>1. ASSUME NEW c, i = Append(p, Closing(c)) PROVE FALSE
    <3>1. Len(p) + 1 \in 1..Len(i) /\ i[Len(p) + 1] = Closing(c)
      BY <2>1
    <3>2. Closing(c).kind = "closing"
      BY DEF Closing
    <3> QED BY <3>1, <3>2
  <2> QED BY <1>1, <2>1
<1>3. 1 <= n /\ n <= Len(r) + 1
  BY DEF Reassembles
<1>4. W = InWord[m] /\ W \in Seq(InPiece) /\ Frags[m] > 0
  <2>1. W = InWord[m]
    BY DEF InWord, Message
  <2>2. InWord[m] \in Seq(InPiece)
    BY FragShape
  <2> HIDE DEF W
  <2>3. Frags[m] > 0
    BY FragShape
  <2> QED BY <2>1, <2>2, <2>3
<1>5. u \in Seq(In) /\ v = Append(u, m)
  <2>1. u \in Seq(In)
    BY <1>3, LeftAppend, SMTT(20)
  <2>2. v = Append(u, m)
    BY <1>3, LeftAppend, SMTT(20)
  <2> HIDE DEF u, v
  <2> QED BY <2>1, <2>2
<1> HIDE DEF W, u, v
<1>6. Spread(InWord, v) = Spread(InWord, u) \o InWord[m]
  BY <1>5, WordsFit, SpreadAppend
<1>7. p \o W \in Seq(InPiece) /\ g \o (p \o W) = (g \o p) \o W
  <2>1. W \in Seq(InPiece)
    BY <1>4
  <2>2. p \o W \in Seq(InPiece)
    BY <2>1
  <2>3. \A c \in Seq(InPiece) : g \o (p \o c) = (g \o p) \o c
    BY ConcatAssociative, SMTT(30)
  <2>4. g \o (p \o W) = (g \o p) \o W
    BY <2>1, <2>3, Zenon
  <2> QED BY <2>2, <2>4
<1>8. g \o (p \o W) = Spread(InWord, v)
  BY <1>1, <1>4, <1>6, <1>7
<1>9. /\ Len(rm) = Len(r) + 1 /\ Len(r) \in Nat /\ rm[Len(r) + 1] = m
      /\ \A k \in 1..Len(r) : rm[k] = r[k]
  BY AppendProperties
<1>10. n <= Len(rm) => Len(g) < Frags[rm[n]]
  <2>1. CASE n <= Len(r)
    BY <1>3, <1>9, <2>1 DEF Reassembles
  <2>2. CASE n = Len(r) + 1
    <3>1. g = <<>> /\ rm[n] = m
      BY <1>9, <2>2 DEF Reassembles
    <3>2. Len(g) = 0
      BY <3>1
    <3> QED BY <1>4, <3>1, <3>2
  <2> QED BY <1>3, <1>9, <2>1, <2>2
<1>11. n <= Len(rm) + 1 /\ n # Len(rm) + 1
  BY <1>3, <1>9
<1> HIDE DEF rm
<1>12. \E q \in Seq(InPiece) : i \o W = q /\ g \o q = Spread(InWord, v)
  BY <1>2, <1>7, <1>8
<1> QED BY <1>3, <1>10, <1>11, <1>12 DEF Reassembles, W, v, rm

\* The relay sends its close frame.
LEMMA ReassemblesClose ==
  ASSUME NEW n \in Nat, NEW r \in Seq(In), NEW i, NEW g \in Seq(InPiece), NEW c \in PeerCodes,
         Reassembles(n, r, i, g), ~\E k \in 1..Len(i) : i[k].kind = "closing"
  PROVE  Reassembles(n, r, Append(i, Closing(c)), g)
<1>1. PICK p \in Seq(InPiece) :
        /\ i = p \/ \E d \in PeerCodes : i = Append(p, Closing(d))
        /\ g \o p = Spread(InWord, SubSeq(r, n, Len(r)))
  BY DEF Reassembles
<1>2. i = p
  <2>1. ASSUME NEW d, i = Append(p, Closing(d)) PROVE FALSE
    <3>1. Len(p) + 1 \in 1..Len(i) /\ i[Len(p) + 1] = Closing(d)
      BY <2>1
    <3>2. Closing(d).kind = "closing"
      BY DEF Closing
    <3> QED BY <3>1, <3>2
  <2> QED BY <1>1, <2>1
<1>3. Append(i, Closing(c)) = Append(p, Closing(c))
  BY <1>2
<1> QED BY <1>1, <1>3 DEF Reassembles

\* curl hands over a piece: it is the next one of the message being received, and
\* with the last one the buffer is that message.
LEMMA ReassemblesPiece ==
  ASSUME NEW n \in Nat, NEW r \in Seq(In), NEW i \in Seq(InFrame), NEW g \in Seq(InPiece),
         Reassembles(n, r, i, g), i # <<>>, Head(i).kind = "piece"
  PROVE  LET x == Head(i) IN
         /\ 1 <= n /\ n <= Len(r) /\ x.msg = r[n]
         /\ x.nth = Frags[x.msg] => /\ Append(g, x) = Message(r[n])
                                     /\ Reassembles(n + 1, r, Tail(i), <<>>)
         /\ x.nth # Frags[x.msg] => Reassembles(n, r, Tail(i), Append(g, x))
<1> DEFINE x == Head(i)
           u == SubSeq(r, n, Len(r))
           v == SubSeq(r, n + 1, Len(r))
           h == r[n]
           W == InWord[h]
<1>1. PICK p \in Seq(InPiece) :
        /\ i = p \/ \E c \in PeerCodes : i = Append(p, Closing(c))
        /\ g \o p = Spread(InWord, u)
  BY DEF Reassembles
<1>2. 1 <= n /\ n <= Len(r) + 1 /\ Len(r) \in Nat
  BY DEF Reassembles
<1>3. /\ p # <<>> /\ Head(p) = x
      /\ Tail(i) = Tail(p) \/ \E c \in PeerCodes : Tail(i) = Append(Tail(p), Closing(c))
  <2>1. CASE i = p
    BY <2>1
  <2>2. ASSUME NEW c \in PeerCodes, i = Append(p, Closing(c))
        PROVE  p # <<>> /\ Head(p) = x /\ Tail(i) = Append(Tail(p), Closing(c))
    <3>1. Closing(c) \in InFrame /\ p \in Seq(InFrame)
      BY DEF InFrame
    <3>2. p # <<>>
      <4>1. ASSUME p = <<>> PROVE x = Closing(c)
        BY <2>2, <4>1
      <4>2. Closing(c).kind = "closing"
        BY DEF Closing
      <4> QED BY <4>1, <4>2
    <3> QED BY <2>2, <3>1, <3>2, HeadTailAppend
  <2> QED BY <1>1, <2>1, <2>2
<1>4. x \in InPiece /\ Tail(p) \in Seq(InPiece)
  BY <1>3
<1>5. n <= Len(r)
  <2>1. ASSUME n = Len(r) + 1 PROVE FALSE
    <3>1. g = <<>> /\ u = <<>>
      BY <1>2, <2>1, LeftNothing DEF Reassembles
    <3>2. Spread(InWord, u) = <<>>
      BY <3>1, SpreadEmpty
    <3>3. g \o p = p
      BY <3>1
    <3> QED BY <1>1, <1>3, <3>2, <3>3
  <2> QED BY <1>2, <2>1
<1>6. h \in In /\ Len(g) < Frags[h]
  BY <1>2, <1>5 DEF Reassembles
<1>7. u # <<>> /\ u \in Seq(In) /\ Head(u) = h /\ Tail(u) = v /\ v \in Seq(In)
  <2>1. u # <<>> /\ u \in Seq(In) /\ Head(u) = h /\ Tail(u) = v
    BY <1>2, <1>5, LeftTail
  <2>2. Tail(u) \in Seq(In)
    BY <2>1
  <2> QED BY <2>1, <2>2
<1>8. /\ W \in Seq(InPiece) /\ Frags[h] \in Nat /\ Len(W) = Frags[h]
      /\ \A k \in 1..Frags[h] : W[k].msg = h /\ W[k].nth = k
  BY <1>6, FragShape
<1> HIDE DEF u, v, h, W
<1>9. /\ Spread(InWord, v) \in Seq(InPiece)
      /\ g \o p = W \o Spread(InWord, v)
  <2>1. Spread(InWord, v) \in Seq(InPiece)
    <3>1. WordsOf(In, InPiece, InWord)
      BY WordsFit
    <3> QED BY <1>6, <1>7, <3>1, SpreadAppend
  <2>2. Spread(InWord, u) = InWord[Head(u)] \o Spread(InWord, Tail(u))
    BY <1>7, WordsFit, SpreadHead
  <2> QED BY <1>1, <1>7, <2>1, <2>2 DEF W
<1> DEFINE gx == Append(g, x)
           t == Tail(p)
           R == Spread(InWord, v)
<1>10. gx \in Seq(InPiece) /\ Len(gx) = Len(g) + 1 /\ gx[Len(g) + 1] = x /\ Len(g) \in Nat
  BY <1>4, AppendProperties
<1>11. gx \o t = W \o R
  <2>1. gx \o t = g \o p
    BY <1>3, MoveOver
  <2> QED BY <1>9, <2>1
<1>12. t \in Seq(InPiece) /\ R \in Seq(InPiece)
  BY <1>4, <1>9
<1> HIDE DEF gx, t, R
<1>13. x.msg = h /\ x.nth = Len(g) + 1
  <2>1. Len(g) + 1 \in 1..Len(gx) /\ Len(g) + 1 \in 1..Frags[h]
    BY <1>6, <1>8, <1>10
  <2>2. (gx \o t)[Len(g) + 1] = gx[Len(g) + 1]
    BY <1>10, <1>12, <2>1
  <2>3. (W \o R)[Len(g) + 1] = W[Len(g) + 1]
    BY <1>8, <1>12, <2>1
  <2>4. x = W[Len(g) + 1]
    BY <1>10, <1>11, <2>2, <2>3
  <2> QED BY <1>8, <2>1, <2>4
<1>14. ASSUME x.nth = Frags[x.msg] PROVE gx = W /\ Reassembles(n + 1, r, Tail(i), <<>>)
  <2>1. Len(gx) = Len(W)
    BY <1>8, <1>10, <1>13, <1>14
  <2>2. t = R /\ gx = W
    BY <1>8, <1>10, <1>11, <1>12, <2>1, SameRest
  <2>3. <<>> \o t = Spread(InWord, SubSeq(r, n + 1, Len(r)))
    <3>1. <<>> \o t = t
      BY <1>12
    <3> QED BY <2>2, <3>1 DEF R, v
  <2>4. \E q \in Seq(InPiece) :
          /\ Tail(i) = q \/ \E c \in PeerCodes : Tail(i) = Append(q, Closing(c))
          /\ <<>> \o q = Spread(InWord, SubSeq(r, n + 1, Len(r)))
    BY <1>3, <1>12, <2>3 DEF t
  <2>5. n + 1 <= Len(r) => Len(<<>>) < Frags[r[n + 1]]
    <3>1. ASSUME n + 1 <= Len(r) PROVE Frags[r[n + 1]] > 0
      <4>1. r[n + 1] \in In
        BY <1>2, <3>1
      <4> QED BY <4>1, FragShape
    <3>2. Len(<<>>) = 0
      OBVIOUS
    <3> QED BY <3>1, <3>2
  <2>6. n + 1 >= 1 /\ n + 1 <= Len(r) + 1
    BY <1>2, <1>5
  <2> QED BY <2>2, <2>4, <2>5, <2>6 DEF Reassembles
<1>15. ASSUME x.nth # Frags[x.msg] PROVE Reassembles(n, r, Tail(i), gx)
  <2>1. Len(gx) < Frags[h]
    BY <1>6, <1>8, <1>10, <1>13, <1>15
  <2>2. gx \o t = Spread(InWord, SubSeq(r, n, Len(r)))
    <3>1. gx \o t = g \o p
      BY <1>9, <1>11 DEF R
    <3> QED BY <1>1, <3>1 DEF u
  <2>3. \E q \in Seq(InPiece) :
          /\ Tail(i) = q \/ \E c \in PeerCodes : Tail(i) = Append(q, Closing(c))
          /\ gx \o q = Spread(InWord, SubSeq(r, n, Len(r)))
    BY <1>3, <1>12, <2>2 DEF t
  <2>4. Len(gx) < Frags[r[n]] /\ n # Len(r) + 1
    BY <1>2, <1>5, <2>1 DEF h
  <2> QED BY <1>2, <2>3, <2>4 DEF Reassembles
<1>16. W = Message(h)
  BY <1>6 DEF W, InWord, Message
<1> QED BY <1>2, <1>5, <1>13, <1>14, <1>15, <1>16 DEF gx, h

------------------------------------------------------------------------------
LEMMA EventsType == TypeOK => EventsSoFar \in Seq(SocketEvent)
BY DEF TypeOK, EventsSoFar

\* A push on an open queue adds an event to those the owner has or will have.
LEMMA EventPushed ==
  ASSUME TypeOK, NEW e \in SocketEvent, push(e), ~mClosed, UNCHANGED polled
  PROVE  EventsSoFar' = Append(EventsSoFar, e)
<1>1. mEvents' = Append(mEvents, e) /\ polled' = polled
  BY DEF push
<1>2. polled \in Seq(SocketEvent) /\ mEvents \in Seq(SocketEvent)
  BY DEF TypeOK
<1>3. polled \o Append(mEvents, e) = Append(polled \o mEvents, e)
  BY <1>2, AppendBehind
<1> QED BY <1>1, <1>3 DEF EventsSoFar

\* MessagesInOrder outlives an event that is no message, or is the next one.
LEMMA InOrderAppend ==
  ASSUME TypeOK, MessagesInOrder, UNCHANGED relayed, NEW e,
         EventsSoFar' = Append(EventsSoFar, e),
         IsData(e) => /\ Len(EventsSoFar) >= 1 /\ Len(EventsSoFar) <= Len(relayed)
                      /\ e.data = Message(relayed[Len(EventsSoFar)])
  PROVE  MessagesInOrder'
<1> DEFINE E == EventsSoFar
<1>1. E \in Seq(SocketEvent) /\ Len(E) \in Nat
  BY EventsType
<1> DEFINE F == Append(E, e)
<1>2. Len(F) = Len(E) + 1 /\ F[Len(E) + 1] = e /\ \A i \in 1..Len(E) : F[i] = E[i]
  BY <1>1
<1> HIDE DEF F
<1>3. ASSUME NEW i \in 1..Len(F), IsData(F[i])
      PROVE  i > 1 /\ i - 1 <= Len(relayed) /\ F[i].data = Message(relayed[i - 1])
  <2>1. CASE i \in 1..Len(E)
    BY <1>2, <1>3, <2>1 DEF MessagesInOrder
  <2>2. CASE i = Len(E) + 1
    <3>1. i - 1 = Len(E) /\ F[i] = e
      BY <1>1, <1>2, <2>2
    <3> QED BY <1>1, <1>3, <2>2, <3>1
  <2> QED BY <1>1, <1>2, <2>1, <2>2
<1>4. EventsSoFar' = F /\ relayed' = relayed
  BY DEF F
<1> QED BY <1>3, <1>4 DEF MessagesInOrder

\* A Closed event and the worker's leaving keep both.
LEMMA InOrderFails ==
  ASSUME TypeOK, MessagesInOrder, ~mClosed, UNCHANGED <<relayed, polled>>,
         pc' \in {"closing", "done"}, NEW c \in CloseCodes, fail(c)
  PROVE  MessagesInOrder' /\ InboundHolds'
<1>1. ClosedEvent(c) \in SocketEvent /\ push(ClosedEvent(c)) /\ ~IsData(ClosedEvent(c))
  BY EventTypes DEF fail, ClosedEvent, IsData
<1>2. EventsSoFar' = Append(EventsSoFar, ClosedEvent(c))
  BY <1>1, EventPushed
<1>3. MessagesInOrder'
  BY <1>1, <1>2, InOrderAppend
<1> QED BY <1>3 DEF InboundHolds, Connected

\* A step that changes neither the events, the relay's messages nor what is being
\* received keeps both.
LEMMA InOrderKept ==
  ASSUME MessagesInOrder, InboundHolds, EventsSoFar' = EventsSoFar,
         UNCHANGED <<relayed, inbound, message>>,
         pc' \in {"start", "upgrade"} => pc \in {"start", "upgrade"},
         Connected' => Connected
  PROVE  MessagesInOrder' /\ InboundHolds'
<1>1. MessagesInOrder'
  BY DEF MessagesInOrder
<1>2. pc' \in {"start", "upgrade"} =>
        EventsSoFar' = <<>> /\ inbound' = <<>> /\ relayed' = <<>> /\ message' = <<>>
  BY DEF InboundHolds
<1>3. Connected' => Reassembles(Len(EventsSoFar'), relayed', inbound', message')
  BY DEF InboundHolds
<1> QED BY <1>1, <1>2, <1>3 DEF InboundHolds

LEMMA InOrderInit == Init => MessagesInOrder /\ InboundHolds
<1> SUFFICES ASSUME Init PROVE MessagesInOrder /\ InboundHolds
  OBVIOUS
<1>1. EventsSoFar = <<>>
  BY DEF Init, EventsSoFar
<1>2. Len(EventsSoFar) = 0
  BY <1>1
<1> QED BY <1>1, <1>2 DEF Init, MessagesInOrder, InboundHolds, Connected

LEMMA InOrderNext == IInv /\ MessagesInOrder /\ InboundHolds /\ [Next]_vars
                     => MessagesInOrder' /\ InboundHolds'
<1> SUFFICES ASSUME IInv, MessagesInOrder, InboundHolds, [Next]_vars
             PROVE  MessagesInOrder' /\ InboundHolds'
  OBVIOUS
<1>1. /\ TypeOK /\ EventsSoFar \in Seq(SocketEvent) /\ Len(EventsSoFar) \in Nat
      /\ mClosed => pc \in {"closing", "done"}
  BY EventsType DEF IInv, ClosedMeansLeaving
<1>2. CASE \/ (\E m \in Out : Send(m)) \/ Destroy \/ Joined \/ Flush \/ SendPart \/ Flushed
           \/ RecvAgain \/ Finish \/ RelayReads \/ UNCHANGED vars
  <2>1. /\ UNCHANGED <<mEvents, polled, relayed, inbound, message>>
        /\ pc' = pc \/ (pc \in {"loop", "send", "recv", "closing"}
                        /\ pc' \in {"loop", "send", "recv", "closing", "done"}
                        /\ (pc = "closing" => pc' = "done"))
    BY <1>2 DEF Send, Destroy, Joined, Flush, SendPart, Flushed, RecvAgain, Finish, RelayReads,
                vars, workerVars, ownerVars, peerVars
  <2>2. EventsSoFar' = EventsSoFar
    BY <2>1 DEF EventsSoFar
  <2> QED BY <2>1, <2>2, InOrderKept DEF Connected
<1>3. CASE Poll
  <2>1. /\ mEvents # <<>> /\ mEvents' = Tail(mEvents) /\ polled' = Append(polled, Head(mEvents))
        /\ UNCHANGED <<relayed, inbound, message, pc>>
    BY <1>3 DEF Poll, workerVars, peerVars
  <2>2. polled \in Seq(SocketEvent) /\ mEvents \in Seq(SocketEvent)
    BY <1>1 DEF TypeOK
  <2>3. Append(polled, Head(mEvents)) \o Tail(mEvents) = polled \o mEvents
    BY <2>1, <2>2, MoveOver
  <2>4. EventsSoFar' = EventsSoFar
    BY <2>1, <2>3 DEF EventsSoFar
  <2> QED BY <2>1, <2>4, InOrderKept DEF Connected
<1>4. CASE Begin
  <2>1. UNCHANGED <<relayed, inbound, message, polled>> /\ pc = "start"
    BY <1>4 DEF Begin, ownerVars, peerVars
  <2>2. CASE pc' = "upgrade" /\ UNCHANGED <<mEvents, mClosed>>
    <3>1. EventsSoFar' = EventsSoFar
      BY <2>1, <2>2 DEF EventsSoFar
    <3> QED BY <2>1, <2>2, <3>1, InOrderKept DEF Connected
  <2>3. ASSUME NEW c \in {kUnsupportedCode, Abnormal}, fail(c), pc' = "done"
        PROVE  MessagesInOrder' /\ InboundHolds'
    BY <1>1, <2>1, <2>3, InOrderFails DEF CloseCodes
  <2> QED BY <1>4, <2>2, <2>3 DEF Begin
<1>5. CASE Upgraded
  <2>1. /\ UNCHANGED <<relayed, inbound, message, polled>> /\ pc = "upgrade" /\ pc' = "loop"
        /\ push(OpenEvent)
    BY <1>5 DEF Upgraded, ownerVars, peerVars
  <2>2. EventsSoFar' = Append(EventsSoFar, OpenEvent)
    BY <1>1, <2>1, EventTypes, EventPushed
  <2>3. MessagesInOrder'
    BY <1>1, <2>1, <2>2, InOrderAppend DEF IsData, OpenEvent
  <2>4. /\ EventsSoFar = <<>> /\ relayed' = <<>> /\ inbound' = <<>> /\ message' = <<>>
    BY <2>1 DEF InboundHolds
  <2>5. Len(EventsSoFar') = 1
    BY <2>2, <2>4
  <2> QED BY <2>1, <2>3, <2>4, <2>5, ReassemblesOpen DEF InboundHolds
<1>6. CASE UpgradeFailed
  BY <1>1, <1>6, InOrderFails DEF UpgradeFailed, CloseCodes, ownerVars, peerVars
<1>7. CASE SendFailed \/ RecvFailed
  BY <1>1, <1>7, InOrderFails DEF SendFailed, RecvFailed, CloseCodes, ownerVars, peerVars
<1>8. CASE RecvClose
  <2>1. Head(inbound).code \in CloseCodes
    BY <1>1, <1>8 DEF RecvClose, TypeOK, InFrame, InPiece, Closing, CloseCodes
  <2> QED BY <1>1, <1>8, <2>1, InOrderFails DEF RecvClose, ownerVars, peerVars
<1>9. CASE RecvPiece
  <2> DEFINE x == Head(inbound)
             n == Len(EventsSoFar)
             b == Append(message, x)
  <2>1. /\ pc = "recv" /\ pc' = "recv" /\ inbound # <<>> /\ x.kind = "piece"
        /\ inbound' = Tail(inbound) /\ UNCHANGED <<relayed, polled>>
    BY <1>9 DEF RecvPiece, ownerVars, peerVars
  <2>2. /\ relayed \in Seq(In) /\ inbound \in Seq(InFrame) /\ message \in Seq(InPiece)
        /\ Reassembles(n, relayed, inbound, message)
    BY <1>1, <2>1 DEF TypeOK, InboundHolds, Connected
  <2>3. /\ 1 <= n /\ n <= Len(relayed) /\ x.msg = relayed[n]
        /\ x.nth = Frags[x.msg] => /\ b = Message(relayed[n])
                                    /\ Reassembles(n + 1, relayed, Tail(inbound), <<>>)
        /\ x.nth # Frags[x.msg] => Reassembles(n, relayed, Tail(inbound), b)
    BY <1>1, <2>1, <2>2, ReassemblesPiece
  <2>4. CASE x.nth = Frags[x.msg]
    <3>1. push(DataEvent(b)) /\ message' = <<>> /\ ~mClosed
      BY <1>1, <1>9, <2>1, <2>4 DEF RecvPiece
    <3>2. b \in Seq(InPiece)
      BY <2>1, <2>2 DEF InFrame, Closing
    <3>3. DataEvent(b) \in SocketEvent
      BY <3>2, EventTypes
    <3>4. EventsSoFar' = Append(EventsSoFar, DataEvent(b))
      BY <1>1, <2>1, <3>1, <3>3, EventPushed
    <3>5. DataEvent(b).data = Message(relayed[n])
      BY <2>3, <2>4 DEF DataEvent
    <3>6. MessagesInOrder'
      BY <1>1, <2>1, <2>3, <3>4, <3>5, InOrderAppend
    <3>7. Len(EventsSoFar') = n + 1
      BY <1>1, <3>4
    <3>8. Reassembles(Len(EventsSoFar'), relayed', inbound', message')
      BY <2>1, <2>3, <2>4, <3>1, <3>7
    <3> QED BY <2>1, <3>6, <3>8 DEF InboundHolds
  <2>5. CASE x.nth # Frags[x.msg]
    <3>1. message' = b /\ UNCHANGED <<mEvents, mClosed>>
      BY <1>9, <2>5 DEF RecvPiece
    <3>2. EventsSoFar' = EventsSoFar
      BY <2>1, <3>1 DEF EventsSoFar
    <3>3. MessagesInOrder'
      BY <2>1, <3>2 DEF MessagesInOrder
    <3>4. Reassembles(Len(EventsSoFar'), relayed', inbound', message')
      BY <2>1, <2>3, <2>5, <3>1, <3>2
    <3> QED BY <2>1, <3>3, <3>4 DEF InboundHolds
  <2> QED BY <2>4, <2>5
<1>10. ASSUME NEW m \in In, RelaySend(m) PROVE MessagesInOrder' /\ InboundHolds'
  <2>1. /\ Connected /\ ~\E k \in 1..Len(inbound) : inbound[k].kind = "closing"
        /\ relayed' = Append(relayed, m) /\ inbound' = inbound \o Message(m)
        /\ UNCHANGED <<mEvents, polled, message, pc>>
    BY <1>10 DEF RelaySend, workerVars, ownerVars, PeerClosed
  <2>2. EventsSoFar' = EventsSoFar
    BY <2>1 DEF EventsSoFar
  <2>3. /\ relayed \in Seq(In) /\ inbound \in Seq(InFrame) /\ message \in Seq(InPiece)
        /\ Reassembles(Len(EventsSoFar), relayed, inbound, message)
    BY <1>1, <2>1 DEF TypeOK, InboundHolds
  <2>4. Reassembles(Len(EventsSoFar), Append(relayed, m), inbound \o Message(m), message)
    BY <1>1, <2>1, <2>3, ReassemblesSend
  <2>5. MessagesInOrder'
    <3>1. /\ Len(Append(relayed, m)) = Len(relayed) + 1 /\ Len(relayed) \in Nat
          /\ \A i \in 1..Len(relayed) : Append(relayed, m)[i] = relayed[i]
      BY <2>3
    <3>2. ASSUME NEW i \in 1..Len(EventsSoFar), IsData(EventsSoFar[i])
          PROVE  /\ i > 1 /\ i - 1 <= Len(Append(relayed, m))
                 /\ EventsSoFar[i].data = Message(Append(relayed, m)[i - 1])
      <4>1. i > 1 /\ i - 1 <= Len(relayed) /\ EventsSoFar[i].data = Message(relayed[i - 1])
        BY <3>2 DEF MessagesInOrder
      <4>2. i - 1 \in 1..Len(relayed) /\ i - 1 <= Len(Append(relayed, m))
        BY <1>1, <3>1, <4>1
      <4> QED BY <3>1, <4>1, <4>2
    <3> QED BY <2>1, <2>2, <3>2 DEF MessagesInOrder
  <2>6. Reassembles(Len(EventsSoFar'), relayed', inbound', message') /\ pc' \notin {"start", "upgrade"}
    BY <2>1, <2>2, <2>4 DEF Connected
  <2> QED BY <2>5, <2>6 DEF InboundHolds
<1>11. ASSUME NEW c \in PeerCodes, RelayClose(c) PROVE MessagesInOrder' /\ InboundHolds'
  <2>1. /\ Connected /\ ~\E k \in 1..Len(inbound) : inbound[k].kind = "closing"
        /\ inbound' = Append(inbound, Closing(c))
        /\ UNCHANGED <<mEvents, polled, relayed, message, pc>>
    BY <1>11 DEF RelayClose, workerVars, ownerVars, peerVars, PeerClosed
  <2>2. EventsSoFar' = EventsSoFar
    BY <2>1 DEF EventsSoFar
  <2>3. /\ relayed \in Seq(In) /\ message \in Seq(InPiece)
        /\ Reassembles(Len(EventsSoFar), relayed, inbound, message)
    BY <1>1, <2>1 DEF TypeOK, InboundHolds
  <2>4. Reassembles(Len(EventsSoFar), relayed, Append(inbound, Closing(c)), message)
    BY <1>1, <2>1, <2>3, ReassemblesClose
  <2>5. MessagesInOrder'
    BY <2>1, <2>2 DEF MessagesInOrder
  <2>6. Reassembles(Len(EventsSoFar'), relayed', inbound', message') /\ pc' \notin {"start", "upgrade"}
    BY <2>1, <2>2, <2>4 DEF Connected
  <2> QED BY <2>5, <2>6 DEF InboundHolds
<1> QED BY <1>2, <1>3, <1>4, <1>5, <1>6, <1>7, <1>8, <1>9, <1>10, <1>11
        DEF Next, Owner, Worker, Relay

\* However curl cuts the relay's messages into fragments, wherever it answers
\* CURLE_AGAIN between them and wherever the owner is in polling, the owner gets
\* each message whole, once and in the relay's order, right behind the one Open
\* (the buffer of run()'s receive loop).
THEOREM MessagesCorrect == Spec => []MessagesInOrder
BY InvInit, InvNext, InOrderInit, InOrderNext, PTL DEF Spec

------------------------------------------------------------------------------
\* A push while the queue is open is one of the contract's productions.
LEMMA FailCloses ==
  ASSUME NEW c \in CloseCodes, fail(c), ~mClosed, pc' \in {"closing", "done"}
  PROVE  Contract!Next
<1>1. mEvents' = Append(mEvents, ClosedEvent(c)) /\ mClosed'
  BY DEF fail, push, ClosedEvent
<1>2. Contract!Close(c)
  BY <1>1 DEF Contract!Close, ContractPhase, ClosedEvent, Contract!ClosedEvent
<1> QED BY <1>2 DEF Contract!Next, Contract!Produce

\* A step that leaves the queue alone and does not leave the upgrade is a stutter.
LEMMA Stutters ==
  ASSUME UNCHANGED <<mEvents, mClosed>>,
         pc \in {"start", "upgrade"} <=> pc' \in {"start", "upgrade"}
  PROVE  UNCHANGED Contract!cvars
BY DEF Contract!cvars, ContractPhase

\* Every step is a step of the contract or a stutter.
LEMMA ContractNext == IInv /\ InboundHolds /\ [Next]_vars => [Contract!Next]_Contract!cvars
<1> SUFFICES ASSUME IInv, InboundHolds, [Next]_vars PROVE [Contract!Next]_Contract!cvars
  OBVIOUS
<1> USE DEF IInv, ClosedMeansLeaving
<1>1. CASE Poll
  <2>1. Contract!Poll
    BY <1>1 DEF Poll, Contract!Poll, ContractPhase, workerVars
  <2> QED BY <2>1 DEF Contract!Next
<1>2. CASE Begin
  <2>1. CASE pc' = "upgrade" /\ UNCHANGED <<mEvents, mClosed>>
    BY <1>2, <2>1, Stutters DEF Begin
  <2>2. CASE \E c \in {kUnsupportedCode, Abnormal} : fail(c) /\ pc' = "done"
    BY <1>2, <2>2, FailCloses DEF Begin, CloseCodes
  <2> QED BY <1>2, <2>1, <2>2 DEF Begin
<1>3. CASE Upgraded
  <2>1. pc = "upgrade" /\ ~mClosed /\ pc' = "loop"
    BY <1>3 DEF Upgraded
  <2>2. mEvents' = Append(mEvents, OpenEvent) /\ ~mClosed'
    BY <1>3, <2>1 DEF Upgraded, push, OpenEvent
  <2>3. Contract!Open
    BY <2>1, <2>2 DEF Contract!Open, ContractPhase, OpenEvent, Contract!OpenEvent
  <2> QED BY <2>3 DEF Contract!Next, Contract!Produce
<1>4. CASE UpgradeFailed
  BY <1>4, FailCloses DEF UpgradeFailed, CloseCodes
<1>5. CASE SendFailed
  BY <1>5, FailCloses DEF SendFailed, CloseCodes
<1>6. CASE RecvFailed
  BY <1>6, FailCloses DEF RecvFailed, CloseCodes
<1>7. CASE RecvClose
  <2>1. Head(inbound).code \in CloseCodes
    BY <1>7 DEF RecvClose, TypeOK, InFrame, InPiece, Closing, CloseCodes
  <2> QED BY <1>7, <2>1, FailCloses DEF RecvClose
<1>8. CASE RecvPiece
  <2> DEFINE p == Head(inbound)
         b == Append(message, p)
         n == Len(EventsSoFar)
  <2>1. pc = "recv" /\ pc' = pc /\ ~mClosed
    BY <1>8 DEF RecvPiece
  <2>2. CASE p.nth = Frags[p.msg]
    <3>1. push(DataEvent(b))
      BY <1>8, <2>2 DEF RecvPiece
    <3>2. mEvents' = Append(mEvents, DataEvent(b)) /\ ~mClosed'
      BY <3>1, <2>1 DEF push, DataEvent
    <3>3. \E m \in In : b = Message(m)
      <4>1. /\ relayed \in Seq(In) /\ inbound \in Seq(InFrame) /\ message \in Seq(InPiece)
            /\ Reassembles(n, relayed, inbound, message) /\ n \in Nat
            /\ inbound # <<>> /\ Head(inbound).kind = "piece"
        BY <1>8, <2>1, EventsType DEF RecvPiece, TypeOK, InboundHolds, Connected
      <4>2. 1 <= n /\ n <= Len(relayed) /\ b = Message(relayed[n])
        BY <2>2, <4>1, ReassemblesPiece
      <4>3. relayed[n] \in In
        BY <4>1, <4>2
      <4> QED BY <4>2, <4>3
    <3>4. PICK m \in In : b = Message(m)
      BY <3>3
    <3>5. Contract!Receive(Message(m))
      BY <3>2, <3>4, <2>1 DEF Contract!Receive, ContractPhase, DataEvent, Contract!DataEvent
    <3> QED BY <2>1, <3>5 DEF Contract!Next, Contract!Produce
  <2>3. CASE p.nth # Frags[p.msg]
    BY <1>8, <2>1, <2>3, Stutters DEF RecvPiece
  <2> QED BY <2>2, <2>3
<1>9. CASE Flush \/ SendPart \/ Flushed \/ RecvAgain \/ Finish
  BY <1>9, Stutters DEF Flush, SendPart, Flushed, RecvAgain, Finish
<1>10. CASE (\E m \in Out : Send(m)) \/ Destroy \/ Joined \/ Relay \/ UNCHANGED vars
  <2>1. UNCHANGED <<mEvents, mClosed, pc>>
    BY <1>10 DEF Send, Destroy, Joined, Relay, RelaySend, RelayClose, RelayReads, vars, workerVars
  <2> QED BY <2>1, Stutters
<1> QED
  BY <1>1, <1>2, <1>3, <1>4, <1>5, <1>6, <1>7, <1>8, <1>9, <1>10 DEF Next, Owner, Worker

\* The threaded connection implements the contract the session is written
\* against: one Open before any data, every data event a whole message of the
\* relay, nothing after one Closed (EventQueue::push and every push of run()).
THEOREM ContractKept == Spec => KeepsContract
<1>1. Init => Contract!Init
  BY DEF Init, Contract!Init, ContractPhase
<1> QED BY <1>1, InvInit, InvNext, InOrderInit, InOrderNext, ContractNext, PTL DEF Spec, KeepsContract, Contract!Spec
==============================================================================
