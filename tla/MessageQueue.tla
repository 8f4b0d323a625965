---------------------------- MODULE MessageQueue ----------------------------
\* The message queues of port/src/os_msg_shim.c: rings over storage the caller
\* lends them.  Nobody ever waits: the port has one thread, so that a send to a
\* full queue and a receive from an empty one return at once, whatever the
\* caller asked for.
EXTENDS Integers, Sequences

Storage(n, msg) ==
  [msgArray |-> [i \in 0 .. n - 1 |-> msg], msgCount |-> n, firstIndex |-> 0, usedCount |-> 0]

\* Mutant: what was sent before is still waiting.
OSInitMessageQueue_Counted(mq) == [mq EXCEPT !.firstIndex = 0]

\* What was in the storage stays there.
OSInitMessageQueue(mq) == [mq EXCEPT !.firstIndex = 0, !.usedCount = 0]

Full(mq) == mq.usedCount >= mq.msgCount
Empty(mq) == mq.usedCount = 0

Slot(mq, i) == (mq.firstIndex + i) % mq.msgCount

\* The message is lost when the queue is full.
OSSendMessage(mq, msg) ==
  IF Full(mq) THEN mq
  ELSE [mq EXCEPT !.msgArray[Slot(mq, mq.usedCount)] = msg, !.usedCount = @ + 1]

Received(mq) == mq.msgArray[mq.firstIndex]
OSReceiveMessage(mq) ==
  IF Empty(mq) THEN mq ELSE [mq EXCEPT !.firstIndex = Slot(mq, 1), !.usedCount = @ - 1]

\* What has been sent and not received, the oldest first.
Waiting(mq) == [i \in 1 .. mq.usedCount |-> mq.msgArray[Slot(mq, i - 1)]]
=============================================================================
