----------------------------- MODULE MCWebSocket -----------------------------
EXTENDS WebSocket

\* A message of one piece and a message of two, each way: "flush() is between
\* two parts" and "a fragment is pending" both happen.
MCSize == [m \in Out |-> IF m = "text" THEN 1 ELSE 2]
MCFrags == [m \in In |-> IF m = "short" THEN 1 ELSE 2]
==============================================================================
