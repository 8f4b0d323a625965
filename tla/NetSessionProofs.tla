--------------------------- MODULE NetSessionProofs ---------------------------
\* The safety properties of NetSession for any rooms, mods, players and times.
EXTENDS NetSession, FiniteSetTheorems, TLAPS

\* The floor of AttemptsSpacedOut, number by number.
LEMMA FloorIs ==
  /\ Floor(1) = kInitialBackoff
  /\ Floor(2) = Smaller(kInitialBackoff * 2, kMaxBackoff)
  /\ Floor(3) = Smaller(kInitialBackoff * 4, kMaxBackoff)
<1>1. <<1, 2, 4>>[1] = 1 /\ <<1, 2, 4>>[2] = 2 /\ <<1, 2, 4>>[3] = 4
  OBVIOUS
<1> QED BY <1>1, TimesOrdered DEF Floor, Smaller

------------------------------------------------------------------------------
\* What can be in the queue.
LEMMA MessageKinds ==
  ASSUME NEW m \in Messages
  PROVE  /\ m.t = "welcome" => m.players \in SUBSET Players /\ m.host \in Players \cup {0}
         /\ m.t \in {"join", "leave"} => m.id \in Players
         /\ m.t = "host" => m.id \in Players \cup {0}
BY DEF Messages, Welcome, Message

LEMMA EventKinds ==
  ASSUME NEW e \in Connection!SocketEvent
  PROVE  /\ e.type = "Data" => e.data \in Messages
         /\ e.type = "Closed" => e.code \in CloseCodes
BY DEF Connection!SocketEvent, Connection!OpenEvent, Connection!DataEvent, Connection!ClosedEvent

\* Taking an event.
LEMMA TakenTypes ==
  ASSUME TypeOK, Take
  PROVE  /\ Head(queue) \in Connection!SocketEvent
         /\ Tail(queue) \in Seq(Connection!SocketEvent)
         /\ Head(queue) = queue[1]
BY DEF TypeOK, Take, Connection!TypeOK

\* Destroying the connection.
LEMMA Dropped ==
  ASSUME DropConnection
  PROVE  /\ sSocket' = FALSE /\ queue' = <<>> /\ phase' = "connecting"
         /\ members' = {} /\ host' = 0
         /\ Connection!TypeOK'
<1>1. <<>> \in Seq(Connection!SocketEvent)
  OBVIOUS
<1>2. Connection!SocketEvent' = Connection!SocketEvent
  BY DEF Connection!SocketEvent
<1> QED BY <1>1 DEF DropConnection, Connection!TypeOK

LEMMA Disconnected ==
  ASSUME TypeOK, disconnect
  PROVE  /\ sSocket' = FALSE /\ queue' = <<>> /\ phase' = "connecting"
         /\ members' = {} /\ host' = 0
         /\ Connection!TypeOK'
         /\ sOpen' = FALSE /\ sWelcomed' = FALSE /\ sLocal' = 0 /\ sHost' = 0 /\ sPlayers' = {}
         /\ told' \in [Mods -> [depth : Int, players : SUBSET Players]]
<1>1. DropConnection /\ reset_room_state
  BY DEF disconnect
<1>2. told' \in [Mods -> [depth : Int, players : SUBSET Players]]
  <2>1. CASE sWelcomed /\ owner # NoMod
    <3>1. owner \in Mods /\ told[owner] \in [depth : Int, players : SUBSET Players]
      BY <2>1 DEF TypeOK
    <3>2. [depth |-> View.depth - 1, players |-> {}] \in [depth : Int, players : SUBSET Players]
      BY <3>1 DEF View
    <3>3. told' = [told EXCEPT ![owner] = [depth |-> View.depth - 1, players |-> {}]]
      BY <2>1 DEF disconnect, Tell
    <3> QED BY <3>1, <3>2, <3>3 DEF TypeOK
  <2>2. CASE ~(sWelcomed /\ owner # NoMod)
    BY <2>2 DEF disconnect, TypeOK
  <2> QED BY <2>1, <2>2
<1> QED BY <1>1, <1>2, Dropped DEF reset_room_state

\* Every text keeps the types.
LEMMA TextTypes ==
  ASSUME TypeOK, NEW m \in Messages, handle_text(m)
  PROVE  /\ sWelcomed' \in BOOLEAN /\ sLocal' \in {0, Me}
         /\ sHost' \in Players \cup {0} /\ sPlayers' \in SUBSET Players
         /\ sBackoff' \in kInitialBackoff..kMaxBackoff /\ streak' \in 0..3
         /\ told' \in [Mods -> [depth : Int, players : SUBSET Players]]
<1> DEFINE T == [Mods -> [depth : Int, players : SUBSET Players]]
<1>1. /\ sWelcomed \in BOOLEAN /\ sLocal \in {0, Me} /\ sHost \in Players \cup {0}
      /\ sPlayers \in SUBSET Players /\ sBackoff \in kInitialBackoff..kMaxBackoff
      /\ streak \in 0..3 /\ told \in T /\ owner \in Mods \cup {NoMod}
  BY DEF TypeOK
<1>2. ASSUME NEW view, Tell(view),
             owner \in Mods => view \in [depth : Int, players : SUBSET Players]
      PROVE  told' \in T
  BY <1>1, <1>2 DEF Tell
<1>3. owner \in Mods => View \in [depth : Int, players : SUBSET Players]
  BY <1>1 DEF View
<1> HIDE DEF T
<1>4. CASE m.t = "welcome"
  <2>1. /\ sLocal' = Me /\ sHost' = m.host /\ sPlayers' \in SUBSET m.players /\ sWelcomed' = TRUE
        /\ sBackoff' = kInitialBackoff /\ streak' = 0
        /\ Tell([depth |-> View.depth + 1, players |-> View.players \cup (sPlayers' \ {Me})])
    BY <1>4 DEF handle_text, resetBackoff
  <2>2. m.players \in SUBSET Players /\ m.host \in Players \cup {0}
    BY <1>4, MessageKinds
  <2>3. sPlayers' \in SUBSET Players
    BY <2>1, <2>2
  <2>4. told' \in T
    <3>1. owner \in Mods => [depth |-> View.depth + 1, players |-> View.players \cup (sPlayers' \ {Me})]
                              \in [depth : Int, players : SUBSET Players]
      BY <1>3, <2>3
    <3> QED BY <3>1, <2>1, <1>2
  <2>5. kInitialBackoff \in kInitialBackoff..kMaxBackoff
    BY TimesOrdered
  <2> QED BY <2>1, <2>2, <2>3, <2>4, <2>5 DEF T
<1>5. CASE m.t = "join"
  <2>1. /\ sWelcomed' = sWelcomed /\ sLocal' = sLocal /\ sHost' = sHost
        /\ sBackoff' = sBackoff /\ streak' = streak
        /\ \/ sPlayers' = sPlayers /\ told' = told
           \/ sPlayers' = sPlayers \cup {m.id} /\ Tell([View EXCEPT !.players = @ \cup {m.id}])
    BY <1>5 DEF handle_text, backoffVars
  <2>2. m.id \in Players
    BY <1>5, MessageKinds
  <2>3. owner \in Mods => [View EXCEPT !.players = @ \cup {m.id}] \in [depth : Int, players : SUBSET Players]
    BY <1>3, <2>2
  <2>4. told' \in T
    BY <2>1, <2>3, <1>1, <1>2
  <2>5. sPlayers' \in SUBSET Players
    BY <2>1, <2>2, <1>1
  <2> QED BY <2>1, <2>4, <2>5, <1>1 DEF T
<1>6. CASE m.t = "leave"
  <2>1. /\ sWelcomed' = sWelcomed /\ sLocal' = sLocal /\ sHost' = sHost
        /\ sBackoff' = sBackoff /\ streak' = streak
        /\ sPlayers' = sPlayers \ {m.id} /\ Tell([View EXCEPT !.players = @ \ {m.id}])
    BY <1>6 DEF handle_text, backoffVars
  <2>2. owner \in Mods => [View EXCEPT !.players = @ \ {m.id}] \in [depth : Int, players : SUBSET Players]
    BY <1>3
  <2>3. told' \in T
    BY <2>1, <2>2, <1>2
  <2>4. sPlayers' \in SUBSET Players
    BY <2>1, <1>1
  <2> QED BY <2>1, <2>3, <2>4, <1>1 DEF T
<1>7. CASE m.t \notin {"welcome", "join", "leave"}
  <2>1. /\ sWelcomed' = sWelcomed /\ sLocal' = sLocal /\ sPlayers' = sPlayers
        /\ sBackoff' = sBackoff /\ streak' = streak /\ told' = told
        /\ sHost' = sHost \/ (m.t = "host" /\ sHost' = m.id)
    BY <1>7 DEF handle_text, backoffVars
  <2> QED BY <2>1, <1>1, MessageKinds DEF T
<1> QED BY <1>4, <1>5, <1>6, <1>7

------------------------------------------------------------------------------
\* A room has one connection at a time, and a session that gave up or has no
\* room has none.
ConnectionHasRoom ==
  /\ ~sSocket => /\ ~sOpen /\ ~sWelcomed /\ sPlayers = {} /\ sHost = 0
                 /\ phase = "connecting" /\ queue = <<>> /\ members = {}
  /\ sSocket => ~sFatal /\ sTarget # NoTarget

\* A refusal stands as long as the file holds nothing else: a poll has nothing new
\* to read, and the session stays fatal.
RefusalStands ==
  refused # NoTarget => file.target = refused /\ sTarget = refused /\ sFatal

\* The backoff is never less than the next attempt's distance, and what is left
\* to wait is never less than what is still missing.
BackoffGrows ==
  /\ sBackoff >= Floor(Smaller(streak + 1, 3))
  /\ streak > 0 => quiet + wait >= Floor(streak)

IInv == TypeOK /\ ConnectionHasRoom /\ RefusalStands /\ BackoffGrows

LEMMA InvInit == Init => IInv
<1> SUFFICES ASSUME Init PROVE IInv
  OBVIOUS
<1>1. TypeOK
  <2>1. queue \in Seq(Connection!SocketEvent)
    BY DEF Init, Connection!Init
  <2>2. sBackoff \in kInitialBackoff..kMaxBackoff
    BY TimesOrdered DEF Init
  <2>3. told \in [Mods -> [depth : Int, players : SUBSET Players]]
    BY DEF Init, Silent
  <2>4. file \in [mtime : Nat, target : Targets \cup {NoTarget}] /\ sTarget \in Targets \cup {NoTarget}
    BY DEF Init
  <2>5. /\ 0 \in 0..kConfigPoll /\ 0 \in 0..kMaxBackoff /\ 0 \in 0..kPingInterval
        /\ 0 \in 0..kMaxMessagesPerUpdate /\ 0 \in 0..3
    BY TimesOrdered, LimitsPositive
  <2> QED BY <2>1, <2>2, <2>3, <2>4, <2>5 DEF Init, TypeOK, Connection!TypeOK, Connection!Init
<1>2. ConnectionHasRoom /\ RefusalStands
  BY DEF Init, ConnectionHasRoom, RefusalStands, Connection!Init
<1>3. BackoffGrows
  BY FloorIs, TimesOrdered DEF Init, BackoffGrows, Smaller
<1> QED BY <1>1, <1>2, <1>3 DEF IInv

\* Only the absence of a target has no room.
LEMMA TargetRooms ==
  ASSUME NEW t \in Targets \cup {NoTarget}
  PROVE  /\ t.room \in Rooms \cup {NoRoom}
         /\ t.room = NoRoom <=> t = NoTarget
BY RoomsHaveMods, TargetsHaveRooms DEF NoTarget

\* The mod that owns the room in use.
LEMMA OwnerType ==
  ASSUME IInv
  PROVE  ModId \in Mods \cup {NoMod}
BY RoomsHaveMods, TargetRooms DEF IInv, TypeOK, ModId

\* The types in parts, for the steps that touch several.
FileTypes ==
  /\ file \in [mtime : Nat, target : Targets \cup {NoTarget}] /\ clock \in Nat
  /\ sConfigTime \in Nat /\ pollWait \in 0..kConfigPoll
  /\ sTarget \in Targets \cup {NoTarget}
RoomTypes ==
  /\ sSocket \in BOOLEAN /\ Connection!TypeOK
  /\ sOpen \in BOOLEAN /\ sWelcomed \in BOOLEAN
  /\ sLocal \in {0, Me} /\ sHost \in Players \cup {0} /\ sPlayers \in SUBSET Players
  /\ told \in [Mods -> [depth : Int, players : SUBSET Players]]
RetryTypes ==
  /\ wait \in 0..kMaxBackoff /\ sBackoff \in kInitialBackoff..kMaxBackoff
  /\ pingWait \in 0..kPingInterval /\ sFatal \in BOOLEAN
  /\ streak \in 0..3 /\ quiet \in 0..kMaxBackoff
StepTypes ==
  /\ pc \in {"frame", "poll", "check", "drain", "stopped"}
  /\ owner \in Mods \cup {NoMod} /\ delivered \in 0..kMaxMessagesPerUpdate
  /\ sQuitRequested \in BOOLEAN
  /\ members \in SUBSET Players /\ host \in Players \cup {0}
  /\ refused \in Targets \cup {NoTarget} /\ raced \in BOOLEAN

LEMMA TypeParts == TypeOK <=> FileTypes /\ RoomTypes /\ RetryTypes /\ StepTypes
BY DEF TypeOK, FileTypes, RoomTypes, RetryTypes, StepTypes

LEMMA TypeNext ==
  ASSUME IInv, [Next]_vars
  PROVE  TypeOK'
<1>001. FileTypes /\ RoomTypes /\ RetryTypes /\ StepTypes
  BY TypeParts DEF IInv
<1>002. ASSUME FileTypes', RoomTypes', RetryTypes', StepTypes' PROVE TypeOK'
  BY <1>002, ZenonT(20) DEF TypeOK, FileTypes, RoomTypes, RetryTypes, StepTypes
<1> USE DEF TypeOK, Connection!TypeOK
<1>0. TypeOK
  BY DEF IInv
<1>01. /\ kInitialBackoff \in kInitialBackoff..kMaxBackoff /\ 0 \in 0..kMaxBackoff
       /\ kConfigPoll \in 0..kConfigPoll /\ kPingInterval \in 0..kPingInterval
       /\ 0 \in 0..kMaxMessagesPerUpdate
       /\ \A b \in kInitialBackoff..kMaxBackoff : b \in 0..kMaxBackoff
  BY TimesOrdered, LimitsPositive
<1>02. /\ wait \in 0..kMaxBackoff /\ sBackoff \in kInitialBackoff..kMaxBackoff
       /\ streak \in 0..3 /\ sFatal \in BOOLEAN /\ quiet \in 0..kMaxBackoff
  BY <1>0
<1>03. members \in SUBSET Players /\ host \in Players \cup {0}
  BY <1>0
<1>04. ASSUME wait' = 0, sBackoff' = kInitialBackoff, streak' = 0, sFatal' = FALSE, quiet' = quiet
       PROVE  /\ wait' \in 0..kMaxBackoff /\ sBackoff' \in kInitialBackoff..kMaxBackoff
              /\ streak' \in 0..3 /\ sFatal' \in BOOLEAN /\ quiet' \in 0..kMaxBackoff
  <2>1. wait' \in 0..kMaxBackoff
    BY <1>04, <1>01
  <2>2. sBackoff' \in kInitialBackoff..kMaxBackoff
    BY <1>04, <1>01
  <2>3. streak' \in 0..3
    BY <1>04
  <2>4. sFatal' \in BOOLEAN
    BY <1>04
  <2>5. quiet' \in 0..kMaxBackoff
    BY <1>04, <1>02
  <2> QED BY <2>1, <2>2, <2>3, <2>4, <2>5
<1>1. CASE StartUpdate
  <2>1. UNCHANGED <<file, clock, sConfigTime, sTarget, pollWait>>
    BY <1>1 DEF StartUpdate, launcherVars, configVars
  <2>2. UNCHANGED <<sSocket, phase, queue, sOpen, sWelcomed, sLocal, sHost, sPlayers, told>>
    BY <1>1 DEF StartUpdate, connectionVars, roomVars
  <2>3. UNCHANGED <<wait, sBackoff, pingWait, sFatal, streak, quiet>>
    BY <1>1 DEF StartUpdate, retryVars, backoffVars
  <2>4. StepTypes'
    BY <1>001, <1>1, OwnerType DEF StartUpdate, StepTypes, relayVars
  <2> QED BY <1>001, <1>002, <2>1, <2>2, <2>3, <2>4 DEF FileTypes, RoomTypes, RetryTypes
<1>2. CASE PollNothing
  <2>1. FileTypes'
    BY <1>001, <1>01, <1>2 DEF PollNothing, FileTypes, launcherVars
  <2>2. RoomTypes'
    BY <1>001, <1>2 DEF PollNothing, RoomTypes, connectionVars, roomVars
  <2>3. RetryTypes'
    BY <1>001, <1>2 DEF PollNothing, RetryTypes, retryVars, backoffVars
  <2>4. StepTypes'
    BY <1>001, <1>2 DEF PollNothing, StepTypes, relayVars
  <2> QED BY <1>002, <2>1, <2>2, <2>3, <2>4
<1>3. CASE PollTicket
  <2>1. sTarget' = file.target /\ sConfigTime' = file.mtime /\ pollWait' = kConfigPoll /\ pc' = "check"
    BY <1>3 DEF PollTicket, PollReads
  <2>2. sTarget' \in Targets \cup {NoTarget} /\ sConfigTime' \in Nat
    BY <1>0, <2>1
  <2>3. /\ wait' \in 0..kMaxBackoff /\ sBackoff' \in kInitialBackoff..kMaxBackoff
        /\ streak' \in 0..3 /\ sFatal' \in BOOLEAN /\ quiet' \in 0..kMaxBackoff
    <3>1. CASE sFatal /\ ~sSocket
      <4>1. wait' = 0 /\ sBackoff' = kInitialBackoff /\ streak' = 0 /\ sFatal' = FALSE /\ quiet' = quiet
        BY <1>3, <3>1 DEF PollTicket, resetBackoff
      <4> QED BY <4>1, <1>04
    <3>2. CASE ~(sFatal /\ ~sSocket)
      BY <1>3, <3>2, <1>02 DEF PollTicket, retryVars, backoffVars
    <3> QED BY <3>1, <3>2
  <2>4. FileTypes'
    BY <1>001, <1>01, <1>3, <2>1, <2>2 DEF PollTicket, FileTypes, launcherVars
  <2>5. RoomTypes'
    BY <1>001, <1>3 DEF PollTicket, RoomTypes, connectionVars, roomVars
  <2>6. RetryTypes'
    BY <1>001, <1>3, <2>3 DEF PollTicket, RetryTypes
  <2>7. StepTypes'
    BY <1>001, <1>3, <2>1 DEF PollTicket, StepTypes, relayVars
  <2> QED BY <1>002, <2>4, <2>5, <2>6, <2>7
<1>4. CASE PollRoom
  <2>1. sTarget' = file.target /\ sConfigTime' = file.mtime /\ pollWait' = kConfigPoll /\ pc' = "check"
    BY <1>4 DEF PollRoom, PollReads
  <2>2. sTarget' \in Targets \cup {NoTarget} /\ sConfigTime' \in Nat
    BY <1>0, <2>1
  <2>3. /\ wait' \in 0..kMaxBackoff /\ sBackoff' \in kInitialBackoff..kMaxBackoff
        /\ streak' \in 0..3 /\ sFatal' \in BOOLEAN /\ quiet' \in 0..kMaxBackoff
    <3>1. wait' = 0 /\ sBackoff' = kInitialBackoff /\ streak' = 0 /\ sFatal' = FALSE /\ quiet' = quiet
      BY <1>4 DEF PollRoom, resetBackoff
    <3> QED BY <3>1, <1>04
  <2>4. UNCHANGED <<file, clock, pingWait, owner, delivered, sQuitRequested, refused, raced>>
    BY <1>4 DEF PollRoom, launcherVars
  <2>5. disconnect
    BY <1>4 DEF PollRoom
  <2>6. RoomTypes'
    BY <1>0, <2>5, Disconnected DEF RoomTypes
  <2>7. members' = {} /\ host' = 0
    BY <1>0, <2>5, Disconnected
  <2>8. StepTypes'
    BY <1>001, <2>1, <2>4, <2>7 DEF StepTypes
  <2>9. FileTypes' /\ RetryTypes'
    BY <1>001, <1>01, <2>1, <2>2, <2>3, <2>4 DEF FileTypes, RetryTypes
  <2> QED BY <1>002, <2>6, <2>8, <2>9
<1>5. CASE CheckReturns
  BY <1>0, <1>01, <1>5 DEF CheckReturns, EndUpdate, launcherVars, configVars, connectionVars, roomVars, retryVars, backoffVars, relayVars
<1>6. CASE CheckExpired
  BY <1>0, <1>01, <1>6, Disconnected DEF CheckExpired, EndUpdate, launcherVars, configVars, retryVars, backoffVars
<1>7. CASE Connect
  BY <1>0, <1>01, <1>7 DEF Connect, reset_room_state, launcherVars, configVars, retryVars, backoffVars, relayVars
<1>8. CASE CheckConnected
  BY <1>0, <1>8 DEF CheckConnected, launcherVars, configVars, connectionVars, roomVars, retryVars, backoffVars, relayVars
<1>9. ASSUME Take, Continue PROVE delivered' \in 0..kMaxMessagesPerUpdate
  BY <1>0, <1>9, LimitsPositive DEF Take, Continue
<1>10. CASE TakeOpen
  <2>1. queue' \in Seq(Connection!SocketEvent)
    BY <1>0, <1>10, TakenTypes DEF TakeOpen, Connection!Poll
  <2>2. FileTypes'
    BY <1>001, <1>10 DEF TakeOpen, FileTypes, launcherVars, configVars
  <2>3. RoomTypes'
    BY <1>001, <1>10, <2>1 DEF TakeOpen, RoomTypes, Connection!Poll
  <2>4. RetryTypes'
    BY <1>001, <1>01, <1>10 DEF TakeOpen, RetryTypes, retryVars, backoffVars
  <2>5. StepTypes'
    BY <1>001, <1>9, <1>10 DEF TakeOpen, StepTypes, Continue
  <2> QED BY <1>002, <2>2, <2>3, <2>4, <2>5
<1>11. CASE TakeMessage
  <2>1. Head(queue).data \in Messages
    BY <1>0, <1>11, TakenTypes, EventKinds DEF TakeMessage
  <2>2. /\ sWelcomed' \in BOOLEAN /\ sLocal' \in {0, Me}
        /\ sHost' \in Players \cup {0} /\ sPlayers' \in SUBSET Players
        /\ sBackoff' \in kInitialBackoff..kMaxBackoff /\ streak' \in 0..3
        /\ told' \in [Mods -> [depth : Int, players : SUBSET Players]]
    BY <1>0, <1>11, <2>1, TextTypes DEF TakeMessage
  <2>3. delivered' \in 0..kMaxMessagesPerUpdate /\ queue' \in Seq(Connection!SocketEvent)
    BY <1>0, <1>9, <1>11, TakenTypes DEF TakeMessage, Connection!Poll
  <2>4. FileTypes'
    BY <1>001, <1>11 DEF TakeMessage, FileTypes, launcherVars, configVars
  <2>5. RoomTypes'
    BY <1>001, <1>11, <2>2, <2>3 DEF TakeMessage, RoomTypes, Connection!Poll
  <2>6. RetryTypes'
    BY <1>001, <1>11, <2>2 DEF TakeMessage, RetryTypes
  <2>7. StepTypes'
    BY <1>001, <1>11, <2>3 DEF TakeMessage, StepTypes, Continue, relayVars
  <2> QED BY <1>002, <2>4, <2>5, <2>6, <2>7
<1>12. CASE TakeKicked
  BY <1>0, <1>01, <1>12, Disconnected DEF TakeKicked, Refuse, EndUpdate, launcherVars, configVars, backoffVars
<1>13. CASE TakeClosed
  <2>1. disconnect /\ EndUpdate /\ UNCHANGED <<file, clock, sConfigTime, sTarget, pollWait, pingWait, raced>>
    BY <1>13 DEF TakeClosed, handle_closed, launcherVars, configVars
  <2>2. /\ wait' \in 0..kMaxBackoff /\ sBackoff' \in kInitialBackoff..kMaxBackoff
        /\ streak' \in 0..3 /\ quiet' \in 0..kMaxBackoff /\ sFatal' \in BOOLEAN
        /\ sQuitRequested' \in BOOLEAN /\ refused' \in Targets \cup {NoTarget}
    <3>1. Smaller(sBackoff * 2, kMaxBackoff) \in kInitialBackoff..kMaxBackoff /\ Smaller(streak + 1, 3) \in 0..3
      BY <1>0, TimesOrdered DEF Smaller
    <3> QED BY <1>0, <1>01, <1>13, <3>1 DEF TakeClosed, handle_closed, Refuse, backoffVars
  <2> QED BY <1>0, <1>01, <2>1, <2>2, Disconnected DEF EndUpdate
<1>14. CASE DrainEnds
  BY <1>0, <1>01, <1>14 DEF DrainEnds, EndUpdate, launcherVars, configVars, connectionVars, roomVars, retryVars, backoffVars, relayVars
<1>15. CASE session_shutdown
  BY <1>0, <1>15, Dropped DEF session_shutdown, reset_room_state, launcherVars, configVars, retryVars, backoffVars
<1>16. ASSUME NEW e \in Connection!SocketEvent, queue' = Append(queue, e)
       PROVE  queue' \in Seq(Connection!SocketEvent)
  BY <1>0, <1>16
<1>17. CASE ConnectionOpens
  <2>1. queue' \in Seq(Connection!SocketEvent)
    BY <1>16, <1>17 DEF ConnectionOpens, Connection!Open, Connection!SocketEvent
  <2> QED BY <1>0, <1>17, <2>1 DEF ConnectionOpens, Connection!Open, launcherVars, sessionVars, configVars, roomVars, retryVars, backoffVars, updateVars, relayVars
<1>18. ASSUME NEW c \in CloseCodes, ConnectionCloses(c) PROVE TypeOK'
  <2>1. queue' \in Seq(Connection!SocketEvent)
    BY <1>16, <1>18 DEF ConnectionCloses, Connection!Close, Connection!SocketEvent
  <2> QED BY <1>0, <1>18, <2>1 DEF ConnectionCloses, Connection!Close, launcherVars, sessionVars, configVars, roomVars, retryVars, backoffVars, updateVars, relayVars
<1>19. ASSUME NEW m \in Messages, RelaySays(m), members' \in SUBSET Players, host' \in Players \cup {0}
       PROVE  TypeOK'
  <2>1. queue' \in Seq(Connection!SocketEvent)
    BY <1>16, <1>19 DEF RelaySays, Connection!Receive, Connection!SocketEvent
  <2> QED BY <1>0, <1>19, <2>1 DEF RelaySays, Connection!Receive, launcherVars, sessionVars, configVars, roomVars, retryVars, backoffVars, updateVars
<1>20. CASE Relay
  <2>1. CASE RelayWelcomes
    <3>1. PICK ps \in SUBSET Players : \E h \in ps \cup {0} :
            members' = ps /\ host' = h /\ RelaySays(Welcome(ps, h))
      BY <2>1, MeIsAPlayer DEF RelayWelcomes
    <3>2. PICK h \in ps \cup {0} : members' = ps /\ host' = h /\ RelaySays(Welcome(ps, h))
      BY <3>1
    <3>3. Welcome(ps, h) \in Messages
      BY <3>2 DEF Messages
    <3> QED BY <3>1, <3>2, <3>3, <1>19
  <2>2. CASE RelayJoins
    <3>1. PICK p \in Players : members' = members \cup {p} /\ host' = host /\ RelaySays(Message("join", p))
      BY <2>2 DEF RelayJoins
    <3>2. Message("join", p) \in Messages
      BY DEF Messages
    <3> QED BY <1>03, <1>19, <3>1, <3>2
  <2>3. CASE RelayLeaves
    <3>1. PICK p \in members : members' = members \ {p} /\ host' = host /\ RelaySays(Message("leave", p))
      BY <2>3 DEF RelayLeaves
    <3>2. Message("leave", p) \in Messages
      BY <1>03 DEF Messages
    <3> QED BY <1>03, <1>19, <3>1, <3>2
  <2>4. CASE RelayMovesHost
    <3>1. PICK h \in members \cup {0} : members' = members /\ host' = h /\ RelaySays(Message("host", h))
      BY <2>4 DEF RelayMovesHost
    <3>2. h \in Players \cup {0} /\ Message("host", h) \in Messages
      BY <1>03 DEF Messages
    <3> QED BY <1>03, <1>19, <3>1, <3>2
  <2>5. CASE RelayOther
    <3>1. /\ members' = members /\ host' = host
          /\ RelaySays(Message("kicked", 0)) \/ RelaySays(Message("other", 0)) \/ RelaySays(Message("payload", Me))
      BY <2>5 DEF RelayOther
    <3>2. {Message("kicked", 0), Message("other", 0), Message("payload", Me)} \subseteq Messages
      BY MeIsAPlayer DEF Messages
    <3> QED BY <1>03, <1>19, <3>1, <3>2
  <2> QED BY <1>20, <2>1, <2>2, <2>3, <2>4, <2>5 DEF Relay
<1>21. ASSUME NEW t \in Targets \cup {NoTarget}, LauncherWrites(t) PROVE TypeOK'
  BY <1>0, <1>21 DEF LauncherWrites, sessionVars, configVars, roomVars, retryVars, backoffVars, updateVars, relayVars
<1>22. ASSUME NEW now \in 0..MaxClock, ClockMoves(now) PROVE TypeOK'
  BY <1>0, <1>22, BoundsAreNumbers DEF ClockMoves, sessionVars, configVars, roomVars, retryVars, backoffVars, updateVars, relayVars
<1>23. CASE UserQuits
  BY <1>0, <1>23 DEF UserQuits, launcherVars, configVars, connectionVars, roomVars, retryVars, backoffVars, updateVars, relayVars
<1>24. CASE Tick
  BY <1>0, <1>24, TimesOrdered DEF Tick, CountDown, Smaller, launcherVars, connectionVars, roomVars, backoffVars, updateVars, relayVars
<1>25. CASE UNCHANGED vars
  BY <1>0, <1>25 DEF vars, launcherVars, configVars, connectionVars, roomVars, retryVars, backoffVars, updateVars, relayVars
<1> QED
  BY <1>1, <1>2, <1>3, <1>4, <1>5, <1>6, <1>7, <1>8, <1>10, <1>11, <1>12, <1>13, <1>14, <1>15,
     <1>17, <1>18, <1>20, <1>21, <1>22, <1>23, <1>24, <1>25
  DEF Next, Update, Environment

------------------------------------------------------------------------------
\* The steps that destroy the connection.
Disconnects == PollRoom \/ CheckExpired \/ TakeKicked \/ TakeClosed

\* The steps that neither make nor destroy it, nor take or add an event.
ConnectionKept == UNCHANGED <<connectionVars, roomVars, members>>

LEMMA DisconnectsDisconnect == Disconnects => disconnect
BY DEF Disconnects, PollRoom, CheckExpired, TakeKicked, TakeClosed, handle_closed

LEMMA RelaySpeaks ==
  ASSUME Relay
  PROVE  /\ sSocket /\ phase = "open" /\ phase' = "open" /\ sSocket' = sSocket
         /\ UNCHANGED <<sessionVars, launcherVars, refused, raced>>
BY DEF Relay, RelayWelcomes, RelayJoins, RelayLeaves, RelayMovesHost, RelayOther, RelaySays,
       Connection!Receive, sessionVars

LEMMA RelayMessage ==
  ASSUME TypeOK, Relay
  PROVE  \E m \in Messages : RelaySays(m)
<1>1. members \in SUBSET Players
  BY DEF TypeOK
<1>2. CASE RelayWelcomes
  <2>1. PICK ps \in SUBSET Players : \E h \in ps \cup {0} : RelaySays(Welcome(ps, h))
    BY <1>2, MeIsAPlayer DEF RelayWelcomes
  <2>2. \A h \in ps \cup {0} : Welcome(ps, h) \in Messages
    BY DEF Messages
  <2> QED BY <2>1, <2>2
<1>3. CASE RelayJoins \/ RelayLeaves
  <2>1. PICK p \in Players, t \in {"join", "leave"} : RelaySays(Message(t, p))
    BY <1>1, <1>3 DEF RelayJoins, RelayLeaves
  <2>2. Message(t, p) \in Messages
    BY DEF Messages
  <2> QED BY <2>1, <2>2
<1>4. CASE RelayMovesHost
  <2>1. PICK h \in Players \cup {0} : RelaySays(Message("host", h))
    BY <1>1, <1>4 DEF RelayMovesHost
  <2>2. Message("host", h) \in Messages
    BY DEF Messages
  <2> QED BY <2>1, <2>2
<1>5. CASE RelayOther
  <2>1. {Message("kicked", 0), Message("other", 0), Message("payload", Me)} \subseteq Messages
    BY MeIsAPlayer DEF Messages
  <2> QED BY <1>5, <2>1 DEF RelayOther
<1> QED BY <1>2, <1>3, <1>4, <1>5 DEF Relay

LEMMA ConnectionNext ==
  ASSUME IInv, [Next]_vars
  PROVE  ConnectionHasRoom'
<1>0. TypeOK /\ ConnectionHasRoom
  BY DEF IInv
<1>1. ASSUME ConnectionKept, UNCHANGED <<sFatal, sTarget>> PROVE ConnectionHasRoom'
  BY <1>0, <1>1 DEF ConnectionKept, ConnectionHasRoom, connectionVars, roomVars
<1>2. CASE StartUpdate \/ PollNothing \/ CheckReturns \/ CheckConnected \/ DrainEnds
  <2>1. ConnectionKept /\ UNCHANGED <<sFatal, sTarget>>
    BY <1>2 DEF StartUpdate, PollNothing, CheckReturns, CheckConnected, DrainEnds, ConnectionKept,
                connectionVars, roomVars, configVars, retryVars, relayVars
  <2> QED BY <2>1, <1>1
<1>3. CASE (\E now \in 0..MaxClock : ClockMoves(now)) \/ UserQuits \/ Tick \/ UNCHANGED vars
  <2>1. ConnectionKept /\ UNCHANGED <<sFatal, sTarget>>
    BY <1>3 DEF ClockMoves, UserQuits, Tick, ConnectionKept, vars, sessionVars,
                connectionVars, roomVars, configVars, retryVars, relayVars
  <2> QED BY <2>1, <1>1
<1>4. ASSUME NEW t \in Targets \cup {NoTarget}, LauncherWrites(t) PROVE ConnectionHasRoom'
  <2>1. ConnectionKept /\ UNCHANGED <<sFatal, sTarget>>
    BY <1>4 DEF LauncherWrites, ConnectionKept, sessionVars,
                connectionVars, roomVars, configVars, retryVars, relayVars
  <2> QED BY <2>1, <1>1
<1>5. CASE Disconnects
  BY <1>0, <1>5, DisconnectsDisconnect, Disconnected DEF ConnectionHasRoom
<1>6. CASE session_shutdown
  BY <1>6, Dropped DEF session_shutdown, reset_room_state, ConnectionHasRoom
<1>7. CASE PollTicket
  <2>1. ConnectionKept
    BY <1>7 DEF PollTicket, ConnectionKept, connectionVars, roomVars, relayVars
  <2>2. sSocket => sTarget' # NoTarget
    <3>1. sTarget' = file.target /\ file.target.room = sTarget.room
      BY <1>7 DEF PollTicket
    <3>2. file.target \in Targets \cup {NoTarget} /\ sTarget \in Targets \cup {NoTarget}
      BY <1>0 DEF TypeOK
    <3>3. sSocket => sTarget.room # NoRoom
      BY <1>0, <3>2, TargetRooms DEF ConnectionHasRoom
    <3> QED BY <3>1, <3>2, <3>3, TargetRooms
  <2>3. sSocket => sFatal' = sFatal
    BY <1>7 DEF PollTicket, retryVars
  <2> QED BY <1>0, <2>1, <2>2, <2>3 DEF ConnectionKept, ConnectionHasRoom, connectionVars, roomVars
<1>8. CASE Connect
  BY <1>0, <1>8 DEF Connect, Idle, ConnectionHasRoom, retryVars, configVars
<1>9. CASE TakeOpen \/ TakeMessage
  BY <1>0, <1>9 DEF TakeOpen, TakeMessage, Take, ConnectionHasRoom, retryVars, configVars
<1>10. CASE Relay
  BY <1>0, <1>10, RelaySpeaks DEF ConnectionHasRoom, sessionVars, retryVars, configVars
<1>11. CASE ConnectionOpens \/ \E c \in CloseCodes : ConnectionCloses(c)
  BY <1>0, <1>11 DEF ConnectionOpens, ConnectionCloses, ConnectionHasRoom, sessionVars, retryVars, configVars
<1> QED
  BY <1>2, <1>3, <1>4, <1>5, <1>6, <1>7, <1>8, <1>9, <1>10, <1>11
  DEF Next, Update, Environment, Disconnects

------------------------------------------------------------------------------
\* The variables a refusal is about.
RefusalKept == UNCHANGED <<file, sTarget, refused, sFatal>>

LEMMA RefusalNext ==
  ASSUME IInv, [Next]_vars
  PROVE  RefusalStands'
<1>0. RefusalStands
  BY DEF IInv
<1>1. ASSUME RefusalKept PROVE RefusalStands'
  BY <1>0, <1>1 DEF RefusalKept, RefusalStands
<1>2. CASE StartUpdate \/ PollNothing \/ CheckReturns \/ CheckExpired \/ Connect \/ CheckConnected \/ DrainEnds
  <2>1. RefusalKept
    BY <1>2 DEF StartUpdate, PollNothing, CheckReturns, CheckExpired, Connect, CheckConnected, DrainEnds,
                RefusalKept, launcherVars, configVars, retryVars, relayVars
  <2> QED BY <2>1, <1>1
<1>3. CASE TakeOpen \/ TakeMessage \/ session_shutdown
  <2>1. RefusalKept
    BY <1>3 DEF TakeOpen, TakeMessage, session_shutdown, RefusalKept,
                launcherVars, configVars, retryVars, relayVars
  <2> QED BY <2>1, <1>1
<1>4. CASE ConnectionOpens \/ (\E c \in CloseCodes : ConnectionCloses(c))
           \/ (\E now \in 0..MaxClock : ClockMoves(now)) \/ UserQuits \/ Tick \/ UNCHANGED vars
  <2>1. RefusalKept
    BY <1>4 DEF ConnectionOpens, ConnectionCloses, ClockMoves, UserQuits, Tick, vars, RefusalKept,
                sessionVars, launcherVars, configVars, retryVars, relayVars
  <2> QED BY <2>1, <1>1
<1>5. CASE Relay
  BY <1>5, <1>1, RelaySpeaks DEF RefusalKept, sessionVars, launcherVars, configVars, retryVars
<1>6. ASSUME NEW t \in Targets \cup {NoTarget}, LauncherWrites(t) PROVE RefusalStands'
  <2>1. /\ file'.target = t /\ UNCHANGED <<sTarget, sFatal>>
        /\ refused' = IF t = refused THEN refused ELSE NoTarget
    BY <1>6 DEF LauncherWrites, sessionVars, configVars, retryVars
  <2> QED BY <1>0, <2>1 DEF RefusalStands
<1>7. CASE PollTicket \/ PollRoom
  <2>1. file.target # sTarget /\ refused' = refused
    BY <1>7 DEF PollTicket, PollRoom, PollReads, relayVars
  <2> QED BY <1>0, <2>1 DEF RefusalStands
<1>8. ASSUME UNCHANGED <<file, sTarget>>, Refuse, sFatal' PROVE RefusalStands'
  BY <1>8 DEF Refuse, RefusalStands
<1>9. CASE TakeKicked
  BY <1>8, <1>9 DEF TakeKicked, launcherVars, configVars
<1>10. CASE TakeClosed
  <2>1. UNCHANGED <<file, sTarget>>
    BY <1>10 DEF TakeClosed, launcherVars, configVars
  <2>2. CASE Head(queue).code = Lost
    <3>1. RefusalKept
      BY <1>10, <2>1, <2>2 DEF TakeClosed, handle_closed, RefusalKept
    <3> QED BY <3>1, <1>1
  <2>3. CASE Head(queue).code # Lost
    BY <1>8, <1>10, <2>1, <2>3 DEF TakeClosed, handle_closed
  <2> QED BY <2>2, <2>3
<1> QED
  BY <1>2, <1>3, <1>4, <1>5, <1>6, <1>7, <1>9, <1>10
  DEF Next, Update, Environment

------------------------------------------------------------------------------
LEMMA BackoffNext ==
  ASSUME IInv, [Next]_vars
  PROVE  BackoffGrows'
<1>0. TypeOK /\ BackoffGrows
  BY DEF IInv
<1>01. /\ wait \in 0..kMaxBackoff /\ sBackoff \in kInitialBackoff..kMaxBackoff
       /\ streak \in 0..3 /\ quiet \in 0..kMaxBackoff
  BY <1>0 DEF TypeOK
<1>1. ASSUME UNCHANGED <<sBackoff, streak, quiet, wait>> PROVE BackoffGrows'
  BY <1>0, <1>1 DEF BackoffGrows, Floor, Smaller
<1>2. ASSUME sBackoff' = kInitialBackoff, streak' = 0 PROVE BackoffGrows'
  BY <1>2, FloorIs, TimesOrdered DEF BackoffGrows, Smaller
<1>3. CASE StartUpdate \/ PollNothing \/ CheckReturns \/ CheckExpired \/ Connect \/ CheckConnected
           \/ TakeOpen \/ TakeKicked \/ DrainEnds \/ session_shutdown
  <2>1. UNCHANGED <<sBackoff, streak, quiet, wait>>
    BY <1>3 DEF StartUpdate, PollNothing, CheckReturns, CheckExpired, Connect, CheckConnected,
                TakeOpen, TakeKicked, DrainEnds, session_shutdown, retryVars, backoffVars
  <2> QED BY <2>1, <1>1
<1>4. CASE ConnectionOpens \/ (\E c \in CloseCodes : ConnectionCloses(c)) \/ (\E now \in 0..MaxClock : ClockMoves(now))
           \/ (\E t \in Targets \cup {NoTarget} : LauncherWrites(t)) \/ UserQuits \/ UNCHANGED vars
  <2>1. UNCHANGED <<sBackoff, streak, quiet, wait>>
    BY <1>4 DEF ConnectionOpens, ConnectionCloses, ClockMoves, LauncherWrites, UserQuits, vars,
                sessionVars, retryVars, backoffVars
  <2> QED BY <2>1, <1>1
<1>5. CASE Relay
  BY <1>5, <1>1, RelaySpeaks DEF sessionVars, retryVars, backoffVars
<1>6. CASE PollTicket \/ PollRoom
  <2>1. \/ sBackoff' = kInitialBackoff /\ streak' = 0
        \/ UNCHANGED <<sBackoff, streak, quiet, wait>>
    BY <1>6 DEF PollTicket, PollRoom, resetBackoff, retryVars, backoffVars
  <2> QED BY <2>1, <1>1, <1>2
<1>7. CASE TakeMessage
  <2>1. wait' = wait /\ quiet' = quiet
    BY <1>7 DEF TakeMessage
  <2>2. \/ sBackoff' = kInitialBackoff /\ streak' = 0
        \/ sBackoff' = sBackoff /\ streak' = streak
    BY <1>7 DEF TakeMessage, handle_text, resetBackoff, backoffVars
  <2> QED BY <2>1, <2>2, <1>1, <1>2
<1>8. CASE TakeClosed
  <2>1. CASE Head(queue).code = Lost
    <3>1. /\ wait' = sBackoff /\ sBackoff' = Smaller(sBackoff * 2, kMaxBackoff)
          /\ streak' = Smaller(streak + 1, 3) /\ quiet' = 0
      BY <1>8, <2>1 DEF TakeClosed, handle_closed
    <3>2. sBackoff >= Floor(streak')
      BY <1>0, <3>1 DEF BackoffGrows
    <3>3. CASE streak = 0
      BY <1>01, <3>1, <3>2, <3>3, FloorIs, TimesOrdered DEF BackoffGrows, Smaller
    <3>4. CASE streak = 1
      BY <1>01, <3>1, <3>2, <3>4, FloorIs, TimesOrdered DEF BackoffGrows, Smaller
    <3>5. CASE streak \in {2, 3}
      BY <1>01, <3>1, <3>2, <3>5, FloorIs, TimesOrdered DEF BackoffGrows, Smaller
    <3> QED BY <1>01, <3>3, <3>4, <3>5
  <2>2. CASE Head(queue).code # Lost
    BY <1>1, <1>8, <2>2 DEF TakeClosed, handle_closed, backoffVars
  <2> QED BY <2>1, <2>2
<1>9. CASE Tick
  <2>1. /\ wait' = CountDown(wait) /\ quiet' = Smaller(quiet + 1, kMaxBackoff)
        /\ sBackoff' = sBackoff /\ streak' = streak
    BY <1>9 DEF Tick, backoffVars
  <2>2. streak > 0 => Floor(streak) <= kMaxBackoff /\ Floor(streak) \in Int
    <3>1. streak \in {0, 1, 2, 3}
      BY <1>01
    <3> QED BY <3>1, FloorIs, TimesOrdered DEF Smaller
  <2>3. streak > 0 => quiet' + wait' >= Floor(streak)
    BY <1>0, <1>01, <2>1, <2>2, TimesOrdered DEF BackoffGrows, CountDown, Smaller
  <2> QED BY <1>0, <2>1, <2>3 DEF BackoffGrows, Floor, Smaller
<1> QED
  BY <1>3, <1>4, <1>5, <1>6, <1>7, <1>8, <1>9
  DEF Next, Update, Environment

LEMMA InvNext == IInv /\ [Next]_vars => IInv'
BY TypeNext, ConnectionNext, RefusalNext, BackoffNext DEF IInv

\* The invariant holds of every reachable state.
THEOREM InvHolds == Spec => []IInv
<1> QED BY InvInit, InvNext, PTL DEF Spec

\* Every variable keeps its type: the backoff its limits, the events taken in
\* an update theirs.
THEOREM TypeCorrect == Spec => []TypeOK
<1>1. IInv => TypeOK
  BY DEF IInv
<1> QED BY <1>1, InvHolds, PTL

\* No room, welcome or player is left behind by a connection that is gone, and a
\* session that gave up or lost its room has no connection (disconnect on every
\* path), for any number of rooms, mods and players and any backoff.
THEOREM RoomEndsWithConnection == Spec => []NothingOutlivesTheConnection
<1>1. IInv => NothingOutlivesTheConnection
  BY DEF IInv, ConnectionHasRoom, NothingOutlivesTheConnection
<1> QED BY <1>1, InvHolds, PTL

LEMMA OnlyConnectConnects ==
  ASSUME IInv, [Next]_vars, ~sSocket, sSocket'
  PROVE  Connect
<1>0. TypeOK
  BY DEF IInv
<1>1. sSocket' # sSocket
  OBVIOUS
<1>2. ~(StartUpdate \/ PollNothing \/ PollTicket \/ CheckReturns \/ CheckConnected \/ DrainEnds)
  BY <1>1 DEF StartUpdate, PollNothing, PollTicket, CheckReturns, CheckConnected, DrainEnds, connectionVars
<1>3. ~(TakeOpen \/ TakeMessage \/ session_shutdown)
  BY <1>1, Dropped DEF TakeOpen, TakeMessage, session_shutdown
<1>4. ~Disconnects
  BY <1>0, DisconnectsDisconnect, Disconnected
<1>5. ~(ConnectionOpens \/ (\E c \in CloseCodes : ConnectionCloses(c)) \/ (\E now \in 0..MaxClock : ClockMoves(now))
        \/ (\E t \in Targets \cup {NoTarget} : LauncherWrites(t)) \/ UserQuits \/ Tick \/ UNCHANGED vars)
  BY <1>1 DEF ConnectionOpens, ConnectionCloses, ClockMoves, LauncherWrites, UserQuits, Tick, vars,
              sessionVars, connectionVars
<1>6. ~Relay
  BY <1>1, RelaySpeaks
<1> QED BY <1>2, <1>3, <1>4, <1>5, <1>6 DEF Next, Update, Environment, Disconnects

\* However the launcher, the relay and the frames interleave, a session that gave up
\* on a target makes no connection with it until the file has held another one:
\* sFatal is cleared only by a poll that finds something else than sTarget.
THEOREM RefusedStaysRefused == Spec => RefusedTargetNotRetried
<1>1. IInv /\ [Next]_vars => [~sSocket /\ sSocket' => sTarget # refused]_vars
  <2> SUFFICES ASSUME IInv, [Next]_vars, ~sSocket, sSocket'
               PROVE  sTarget # refused
    OBVIOUS
  <2>1. sTarget # NoTarget /\ ~sFatal
    BY OnlyConnectConnects DEF Connect, Idle
  <2> QED BY <2>1 DEF IInv, RefusalStands
<1> QED BY <1>1, InvHolds, PTL DEF Spec, RefusedTargetNotRetried

\* For every initial backoff and limit, the attempts after one, two and three
\* lost connections are spaced as sBackoff doubles (handle_closed).
THEOREM BackoffSpacesAttempts == Spec => AttemptsSpacedOut
<1>1. IInv /\ [Next]_vars => [~sSocket /\ sSocket' /\ streak > 0 => quiet >= Floor(streak)]_vars
  <2> SUFFICES ASSUME IInv, [Next]_vars, ~sSocket, sSocket', streak > 0
               PROVE  quiet >= Floor(streak)
    OBVIOUS
  <2>1. wait = 0
    BY OnlyConnectConnects DEF Connect
  <2>2. quiet + wait >= Floor(streak) /\ quiet \in Nat
    BY TimesOrdered DEF IInv, BackoffGrows, TypeOK
  <2> QED BY <2>1, <2>2
<1> QED BY <1>1, InvHolds, PTL DEF Spec, AttemptsSpacedOut

------------------------------------------------------------------------------
\* What the mods are told.  The relay's queue is a welcome, then changes to the
\* room, none of them this player joining.
IsData(i) == queue[i].type = "Data"
FirstData(i) == IsData(i) /\ \A j \in 1..(i - 1) : ~IsData(j)

RoomTold ==
  /\ \A i \in 1..Len(queue) : IsData(i) =>
       /\ queue[i].data.t = "welcome" <=> (~sWelcomed /\ FirstData(i))
       /\ queue[i].data.t = "join" => queue[i].data.id # Me
  /\ members # {} => Me \in members
  /\ members = {} <=> (~sWelcomed /\ \A i \in 1..Len(queue) : ~IsData(i))

\* No message is taken before the Open.
OpenFirst ==
  /\ sWelcomed => sOpen
  /\ sOpen => phase # "connecting"
  /\ ~sOpen => IF phase = "connecting" THEN queue = <<>>
               ELSE queue # <<>> /\ queue[1].type # "Data"

\* The owner update_session captured is the room's, unless this update has left
\* the room: then the next connection has not opened, or it raced the update.
OwnerCaptured ==
  /\ pc = "poll" => owner = ModId
  /\ pc \in {"check", "drain"} => owner = ModId \/ raced \/ ~sOpen

\* The mod told of the room, between two updates and in one.
Told == IF pc = "frame" THEN ModId ELSE owner

CallbacksKept ==
  pc # "stopped" /\ ~raced =>
    \A m \in Mods : told[m] = IF sWelcomed /\ Told = m
                              THEN [depth |-> 1, players |-> sPlayers \ {Me}] ELSE Silent

CInv == RoomTold /\ OpenFirst /\ OwnerCaptured /\ CallbacksKept

\* An event at the end of the queue, and one off its head.
LEMMA EventAdded ==
  ASSUME TypeOK, NEW e \in Connection!SocketEvent, queue' = Append(queue, e)
  PROVE  /\ Len(queue) \in Nat /\ Len(queue') = Len(queue) + 1
         /\ \A i \in 1..Len(queue) : queue'[i] = queue[i]
         /\ queue'[Len(queue) + 1] = e
BY DEF TypeOK, Connection!TypeOK

LEMMA EventTaken ==
  ASSUME TypeOK, Take, queue' = Tail(queue)
  PROVE  /\ Len(queue) \in Nat /\ Len(queue) >= 1 /\ Len(queue') = Len(queue) - 1
         /\ \A i \in 1..Len(queue') : queue'[i] = queue[i + 1]
         /\ Head(queue) = queue[1]
BY DEF TypeOK, Connection!TypeOK, Take

\* The first message a connection hands out is the welcome, and no later one is.
LEMMA WelcomeFirst ==
  ASSUME TypeOK, RoomTold, Take, Head(queue).type = "Data"
  PROVE  /\ Head(queue).data.t = "welcome" <=> ~sWelcomed
         /\ Head(queue).data.t = "join" => Head(queue).data.id # Me
<1>1. Head(queue) = queue[1] /\ 1 \in 1..Len(queue)
  BY DEF TypeOK, Connection!TypeOK, Take
<1>2. FirstData(1)
  BY <1>1 DEF FirstData, IsData
<1> QED BY <1>1, <1>2 DEF RoomTold, IsData

LEMMA ToldInit == Init => CInv
<1> SUFFICES ASSUME Init PROVE CInv
  OBVIOUS
<1>1. Len(queue) = 0
  BY DEF Init, Connection!Init
<1> QED BY <1>1 DEF Init, CInv, RoomTold, OpenFirst, OwnerCaptured, CallbacksKept, Connection!Init

LEMMA RoomNext ==
  ASSUME IInv, RoomTold, [Next]_vars
  PROVE  RoomTold'
<1>0. TypeOK /\ ConnectionHasRoom
  BY DEF IInv
<1>1. ASSUME UNCHANGED <<queue, sWelcomed, members>> PROVE RoomTold'
  BY <1>1 DEF RoomTold, IsData, FirstData
<1>2. CASE StartUpdate \/ PollNothing \/ PollTicket \/ CheckReturns \/ CheckConnected \/ DrainEnds
  <2>1. UNCHANGED <<queue, sWelcomed, members>>
    BY <1>2 DEF StartUpdate, PollNothing, PollTicket, CheckReturns, CheckConnected, DrainEnds,
                connectionVars, roomVars, relayVars
  <2> QED BY <2>1, <1>1
<1>3. CASE (\E now \in 0..MaxClock : ClockMoves(now)) \/ (\E t \in Targets \cup {NoTarget} : LauncherWrites(t)) \/ UserQuits \/ Tick
           \/ UNCHANGED vars
  <2>1. UNCHANGED <<queue, sWelcomed, members>>
    BY <1>3 DEF ClockMoves, LauncherWrites, UserQuits, Tick, vars, sessionVars, connectionVars, roomVars, relayVars
  <2> QED BY <2>1, <1>1
<1>4. CASE Disconnects \/ session_shutdown
  <2>1. queue' = <<>> /\ sWelcomed' = FALSE /\ members' = {}
    BY <1>0, <1>4, DisconnectsDisconnect, Disconnected, Dropped DEF session_shutdown, reset_room_state
  <2> QED BY <2>1 DEF RoomTold
<1>5. CASE Connect
  <2>1. queue' = queue /\ members' = members /\ sWelcomed' = FALSE /\ sWelcomed = FALSE
    BY <1>0, <1>5 DEF Connect, reset_room_state, ConnectionHasRoom, relayVars, TypeOK
  <2> QED BY <2>1, <1>1
<1>6. CASE TakeOpen
  <2>1. Take /\ queue' = Tail(queue) /\ Head(queue).type = "Open" /\ UNCHANGED <<sWelcomed, members>>
    BY <1>6 DEF TakeOpen, Connection!Poll, relayVars
  <2>2. /\ Len(queue) \in Nat /\ Len(queue) >= 1 /\ Len(queue') = Len(queue) - 1
        /\ \A i \in 1..Len(queue') : queue'[i] = queue[i + 1]
        /\ ~IsData(1)
    BY <1>0, <2>1, EventTaken DEF IsData
  <2>3. ASSUME NEW i \in 1..Len(queue')
        PROVE  /\ i + 1 \in 1..Len(queue) /\ queue'[i] = queue[i + 1]
               /\ FirstData(i)' <=> FirstData(i + 1)
    <3>1. i + 1 \in 1..Len(queue) /\ queue'[i] = queue[i + 1]
      BY <2>2
    <3>2. \A j \in 1..(i - 1) : /\ j \in 1..Len(queue') /\ j + 1 \in 1..i
                                /\ queue'[j] = queue[j + 1]
      BY <2>2
    <3>3. \A j \in 1..i : j = 1 \/ (j - 1 \in 1..(i - 1) /\ (j - 1) + 1 = j)
      BY <2>2
    <3>4. ASSUME \A j \in 1..(i - 1) : ~IsData(j)' PROVE \A j \in 1..i : ~IsData(j)
      <4> SUFFICES ASSUME NEW j \in 1..i, j # 1 PROVE ~IsData(j)
        BY <2>2
      <4>1. j - 1 \in 1..(i - 1) /\ queue'[j - 1] = queue[j]
        BY <3>2, <3>3
      <4> QED BY <3>4, <4>1 DEF IsData
    <3>5. ASSUME \A j \in 1..i : ~IsData(j) PROVE \A j \in 1..(i - 1) : ~IsData(j)'
      BY <3>2, <3>5 DEF IsData
    <3>6. (i + 1) - 1 = i
      BY <2>2
    <3> QED BY <3>1, <3>4, <3>5, <3>6 DEF FirstData, IsData
  <2>4. \A i \in 1..Len(queue') : IsData(i)' =>
          /\ queue'[i].data.t = "welcome" <=> (~sWelcomed' /\ FirstData(i)')
          /\ queue'[i].data.t = "join" => queue'[i].data.id # Me
    BY <2>1, <2>3 DEF RoomTold, IsData
  <2>5. (\A i \in 1..Len(queue') : ~IsData(i)') <=> \A i \in 1..Len(queue) : ~IsData(i)
    <3>1. ASSUME \A i \in 1..Len(queue') : ~IsData(i)' PROVE \A i \in 1..Len(queue) : ~IsData(i)
      <4> SUFFICES ASSUME NEW i \in 1..Len(queue), i # 1 PROVE ~IsData(i)
        BY <2>2
      <4>1. i - 1 \in 1..Len(queue') /\ (i - 1) + 1 = i
        BY <2>2
      <4>2. queue'[i - 1] = queue[i]
        BY <2>2, <4>1
      <4> QED BY <3>1, <4>1, <4>2 DEF IsData
    <3> QED BY <2>3, <3>1 DEF IsData
  <2> QED BY <2>1, <2>4, <2>5 DEF RoomTold
<1>7. CASE TakeMessage
  <2>1. Take /\ queue' = Tail(queue) /\ Head(queue).type = "Data" /\ members' = members
    BY <1>7 DEF TakeMessage, Connection!Poll, relayVars
  <2>2. /\ Len(queue) \in Nat /\ Len(queue) >= 1 /\ Len(queue') = Len(queue) - 1
        /\ \A i \in 1..Len(queue') : queue'[i] = queue[i + 1]
        /\ IsData(1)
    BY <1>0, <2>1, EventTaken DEF IsData
  <2>3. sWelcomed' = TRUE
    <3>1. Head(queue).data.t = "welcome" <=> ~sWelcomed
      BY <1>0, <2>1, WelcomeFirst
    <3>2. IF Head(queue).data.t = "welcome" THEN sWelcomed' = TRUE ELSE sWelcomed' = sWelcomed
      BY <1>7 DEF TakeMessage, handle_text
    <3>3. sWelcomed \in BOOLEAN
      BY <1>0 DEF TypeOK
    <3> QED BY <3>1, <3>2, <3>3
  <2>4. ASSUME NEW i \in 1..Len(queue'), IsData(i)'
        PROVE  queue'[i].data.t # "welcome" /\ (queue'[i].data.t = "join" => queue'[i].data.id # Me)
    <3>1. i + 1 \in 1..Len(queue) /\ queue'[i] = queue[i + 1] /\ 1 \in 1..((i + 1) - 1)
      BY <2>2
    <3>2. ~FirstData(i + 1)
      BY <2>2, <3>1 DEF FirstData
    <3> QED BY <2>4, <3>1, <3>2 DEF RoomTold, IsData
  <2>5. members # {}
    <3>1. 1 \in 1..Len(queue)
      BY <2>2
    <3> QED BY <2>2, <3>1 DEF RoomTold
  <2> QED BY <2>1, <2>3, <2>4, <2>5 DEF RoomTold
<1>8. ASSUME NEW e \in Connection!SocketEvent, queue' = Append(queue, e), NEW n, n = Len(queue) + 1
      PROVE  /\ \A i \in 1..Len(queue') : i \in 1..Len(queue) \/ i = n
             /\ \A i \in 1..Len(queue) :
                  i \in 1..Len(queue') /\ queue'[i] = queue[i] /\ (FirstData(i)' <=> FirstData(i))
             /\ n \in 1..Len(queue') /\ queue'[n] = e
             /\ FirstData(n)' <=> (e.type = "Data" /\ \A i \in 1..Len(queue) : ~IsData(i))
  <2>1. /\ Len(queue) \in Nat /\ Len(queue') = n
        /\ \A i \in 1..Len(queue) : queue'[i] = queue[i]
        /\ queue'[n] = e
    BY <1>0, <1>8, EventAdded
  <2>2. ASSUME NEW i \in 1..Len(queue) PROVE FirstData(i)' <=> FirstData(i)
    <3>1. \A j \in 1..(i - 1) : j \in 1..Len(queue)
      BY <2>1
    <3> QED BY <2>1, <3>1 DEF FirstData, IsData
  <2>3. FirstData(n)' <=> (e.type = "Data" /\ \A i \in 1..Len(queue) : ~IsData(i))
    <3>1. n - 1 = Len(queue)
      BY <1>8, <2>1
    <3> QED BY <2>1, <3>1 DEF FirstData, IsData
  <2>4. /\ \A i \in 1..Len(queue') : i \in 1..Len(queue) \/ i = n
        /\ \A i \in 1..Len(queue) : i \in 1..Len(queue')
        /\ n \in 1..Len(queue')
    BY <1>8, <2>1
  <2> QED BY <2>1, <2>2, <2>3, <2>4
<1>9. ASSUME NEW e \in Connection!SocketEvent, queue' = Append(queue, e), e.type # "Data",
             UNCHANGED <<sWelcomed, members>>
      PROVE  RoomTold'
  <2>0. PICK n : n = Len(queue) + 1
    OBVIOUS
  <2>1. \A i \in 1..Len(queue') : IsData(i)' =>
          /\ queue'[i].data.t = "welcome" <=> (~sWelcomed' /\ FirstData(i)')
          /\ queue'[i].data.t = "join" => queue'[i].data.id # Me
    BY <1>8, <1>9, <2>0 DEF RoomTold, IsData
  <2>2. (\A i \in 1..Len(queue') : ~IsData(i)') <=> \A i \in 1..Len(queue) : ~IsData(i)
    BY <1>8, <1>9, <2>0 DEF IsData
  <2> QED BY <1>9, <2>1, <2>2 DEF RoomTold
<1>10. CASE ConnectionOpens \/ \E c \in CloseCodes : ConnectionCloses(c)
  <2>1. UNCHANGED <<sWelcomed, members>>
    BY <1>10 DEF ConnectionOpens, ConnectionCloses, sessionVars, roomVars, relayVars
  <2>2. CASE ConnectionOpens
    <3>1. queue' = Append(queue, Connection!OpenEvent)
      BY <2>2 DEF ConnectionOpens, Connection!Open
    <3>2. Connection!OpenEvent \in Connection!SocketEvent /\ Connection!OpenEvent.type # "Data"
      BY DEF Connection!SocketEvent, Connection!OpenEvent
    <3> QED BY <2>1, <3>1, <3>2, <1>9
  <2>3. ASSUME NEW c \in CloseCodes, ConnectionCloses(c) PROVE RoomTold'
    <3>1. queue' = Append(queue, Connection!ClosedEvent(c))
      BY <2>3 DEF ConnectionCloses, Connection!Close
    <3>2. Connection!ClosedEvent(c) \in Connection!SocketEvent /\ Connection!ClosedEvent(c).type # "Data"
      BY DEF Connection!SocketEvent, Connection!ClosedEvent
    <3> QED BY <2>1, <3>1, <3>2, <1>9
  <2> QED BY <1>10, <2>2, <2>3
<1>11. ASSUME NEW m \in Messages, RelaySays(m), Me \in members',
              m.t = "welcome" <=> members = {},
              m.t = "join" => m.id # Me
       PROVE  RoomTold'
  <2> DEFINE e == Connection!DataEvent(m)
  <2>1. queue' = Append(queue, e) /\ e \in Connection!SocketEvent /\ sWelcomed' = sWelcomed
    BY <1>11 DEF RelaySays, Connection!Receive, Connection!SocketEvent, sessionVars, roomVars
  <2>2. e.type = "Data" /\ e.data = m
    BY DEF Connection!DataEvent
  <2> HIDE DEF e
  <2>3. PICK n : n = Len(queue) + 1
    OBVIOUS
  <2>4. \A i \in 1..Len(queue) : IsData(i)' =>
          /\ queue'[i].data.t = "welcome" <=> (~sWelcomed' /\ FirstData(i)')
          /\ queue'[i].data.t = "join" => queue'[i].data.id # Me
    BY <1>8, <2>1, <2>3 DEF RoomTold, IsData
  <2>5. queue'[n] = e /\ n \in 1..Len(queue') /\ \A i \in 1..Len(queue') : i \in 1..Len(queue) \/ i = n
    BY <1>8, <2>1, <2>3
  <2>6. FirstData(n)' <=> \A i \in 1..Len(queue) : ~IsData(i)
    BY <1>8, <2>1, <2>2, <2>3
  <2>7. members = {} <=> (~sWelcomed' /\ FirstData(n)')
    BY <2>1, <2>6 DEF RoomTold
  <2>8. /\ queue'[n].data.t = "welcome" <=> (~sWelcomed' /\ FirstData(n)')
        /\ queue'[n].data.t = "join" => queue'[n].data.id # Me
    BY <1>11, <2>2, <2>5, <2>7
  <2>9. \A i \in 1..Len(queue') : IsData(i)' =>
          /\ queue'[i].data.t = "welcome" <=> (~sWelcomed' /\ FirstData(i)')
          /\ queue'[i].data.t = "join" => queue'[i].data.id # Me
    BY <2>4, <2>5, <2>8
  <2>10. IsData(n)'
    BY <2>2, <2>5 DEF IsData
  <2> QED BY <1>11, <2>5, <2>9, <2>10 DEF RoomTold
<1>12. CASE Relay
  <2>1. CASE RelayWelcomes
    <3>1. PICK ps \in SUBSET Players :
            Me \in ps /\ members = {} /\ members' = ps /\ \E h \in ps \cup {0} : RelaySays(Welcome(ps, h))
      BY <2>1, MeIsAPlayer DEF RelayWelcomes
    <3>2. PICK h \in ps \cup {0} : RelaySays(Welcome(ps, h))
      BY <3>1
    <3>3. Welcome(ps, h) \in Messages /\ Welcome(ps, h).t = "welcome"
      BY <3>2 DEF Messages, Welcome
    <3> QED BY <3>1, <3>2, <3>3, <1>11
  <2>2. CASE RelayJoins
    <3>1. PICK p \in Players : /\ p \notin members /\ members # {} /\ members' = members \cup {p}
                               /\ RelaySays(Message("join", p))
      BY <2>2 DEF RelayJoins
    <3>2. Message("join", p) \in Messages /\ Message("join", p).t = "join" /\ Message("join", p).id = p
      BY DEF Messages, Message
    <3>3. Me \in members
      BY <3>1 DEF RoomTold
    <3> QED BY <3>1, <3>2, <3>3, <1>11
  <2>3. CASE RelayLeaves
    <3>1. PICK p \in members \ {Me} : members' = members \ {p} /\ RelaySays(Message("leave", p))
      BY <2>3 DEF RelayLeaves
    <3>2. p \in Players
      BY <1>0 DEF TypeOK
    <3>3. Message("leave", p) \in Messages
      BY <3>2 DEF Messages
    <3>5. Message("leave", p).t = "leave"
      BY DEF Message
    <3>4. Me \in members
      BY <3>1 DEF RoomTold
    <3> QED BY <3>1, <3>3, <3>4, <3>5, <1>11
  <2>4. CASE RelayMovesHost
    <3>1. PICK h \in members \cup {0} : members # {} /\ members' = members /\ RelaySays(Message("host", h))
      BY <2>4 DEF RelayMovesHost
    <3>2. h \in Players \cup {0}
      BY <1>0 DEF TypeOK
    <3>3. Message("host", h) \in Messages
      BY <3>2 DEF Messages
    <3>5. Message("host", h).t = "host"
      BY DEF Message
    <3>4. Me \in members
      BY <3>1 DEF RoomTold
    <3> QED BY <3>1, <3>3, <3>4, <3>5, <1>11
  <2>5. CASE RelayOther
    <3>1. /\ members # {} /\ members' = members
          /\ RelaySays(Message("kicked", 0)) \/ RelaySays(Message("other", 0)) \/ RelaySays(Message("payload", Me))
      BY <2>5 DEF RelayOther
    <3>2. \A m \in {Message("kicked", 0), Message("other", 0), Message("payload", Me)} :
            m \in Messages /\ m.t \notin {"welcome", "join"}
      BY MeIsAPlayer DEF Messages, Message
    <3>3. Me \in members
      BY <3>1 DEF RoomTold
    <3> QED BY <3>1, <3>2, <3>3, <1>11
  <2> QED BY <1>12, <2>1, <2>2, <2>3, <2>4, <2>5 DEF Relay
<1> QED
  BY <1>2, <1>3, <1>4, <1>5, <1>6, <1>7, <1>10, <1>12
  DEF Next, Update, Environment, Disconnects

LEMMA OpenNext ==
  ASSUME IInv, OpenFirst, [Next]_vars
  PROVE  OpenFirst'
<1>0. TypeOK /\ ConnectionHasRoom
  BY DEF IInv
<1>1. ASSUME UNCHANGED <<sOpen, sWelcomed, phase, queue>> PROVE OpenFirst'
  BY <1>1 DEF OpenFirst
<1>2. CASE StartUpdate \/ PollNothing \/ PollTicket \/ CheckReturns \/ CheckConnected \/ DrainEnds
  <2>1. UNCHANGED <<sOpen, sWelcomed, phase, queue>>
    BY <1>2 DEF StartUpdate, PollNothing, PollTicket, CheckReturns, CheckConnected, DrainEnds,
                connectionVars, roomVars
  <2> QED BY <2>1, <1>1
<1>3. CASE (\E now \in 0..MaxClock : ClockMoves(now))
           \/ (\E t \in Targets \cup {NoTarget} : LauncherWrites(t)) \/ UserQuits \/ Tick \/ UNCHANGED vars
  <2>1. UNCHANGED <<sOpen, sWelcomed, phase, queue>>
    BY <1>3 DEF ClockMoves, LauncherWrites, UserQuits, Tick, vars, sessionVars, connectionVars, roomVars
  <2> QED BY <2>1, <1>1
<1>4. CASE Disconnects \/ session_shutdown
  <2>1. sOpen' = FALSE /\ sWelcomed' = FALSE /\ phase' = "connecting" /\ queue' = <<>>
    BY <1>0, <1>4, DisconnectsDisconnect, Disconnected, Dropped DEF session_shutdown, reset_room_state
  <2> QED BY <2>1 DEF OpenFirst
<1>5. CASE Connect
  <2>1. sOpen' = FALSE /\ sWelcomed' = FALSE /\ phase' = "connecting" /\ queue' = <<>>
    BY <1>0, <1>5 DEF Connect, reset_room_state, ConnectionHasRoom
  <2> QED BY <2>1 DEF OpenFirst
<1>6. ASSUME Take, Connection!Poll PROVE phase # "connecting" /\ phase' = phase
  <2>1. queue # <<>> /\ phase' = phase
    BY <1>6 DEF Take, Connection!Poll
  <2> QED BY <2>1 DEF OpenFirst
<1>7. CASE TakeOpen
  <2>1. sOpen' = TRUE /\ Take /\ Connection!Poll
    BY <1>7 DEF TakeOpen
  <2> QED BY <1>6, <2>1 DEF OpenFirst
<1>8. CASE TakeMessage
  <2>1. Take /\ Connection!Poll /\ Head(queue).type = "Data" /\ sOpen' = sOpen
    BY <1>8 DEF TakeMessage
  <2>2. Head(queue) = queue[1]
    BY <1>0, <2>1, TakenTypes
  <2>3. sOpen
    BY <2>1, <2>2, <1>6 DEF OpenFirst
  <2> QED BY <1>6, <2>1, <2>3 DEF OpenFirst
<1>9. ASSUME NEW e \in Connection!SocketEvent, queue' = Append(queue, e), phase' # "connecting",
             phase = "connecting" => e.type # "Data", UNCHANGED <<sOpen, sWelcomed>>
      PROVE  OpenFirst'
  <2>1. /\ Len(queue) \in Nat /\ queue' # <<>>
        /\ queue' = Append(queue, e) /\ queue # <<>> => queue'[1] = queue[1]
        /\ queue = <<>> => queue'[1] = e
    BY <1>0, <1>9 DEF TypeOK, Connection!TypeOK
  <2> QED BY <1>9, <2>1 DEF OpenFirst
<1>10. CASE ConnectionOpens
  BY <1>9, <1>10 DEF ConnectionOpens, Connection!Open, Connection!SocketEvent, Connection!OpenEvent,
                     sessionVars, roomVars
<1>11. ASSUME NEW c \in CloseCodes, ConnectionCloses(c) PROVE OpenFirst'
  <2>1. Connection!ClosedEvent(c) \in Connection!SocketEvent /\ Connection!ClosedEvent(c).type # "Data"
    BY DEF Connection!SocketEvent, Connection!ClosedEvent
  <2> QED BY <1>9, <1>11, <2>1 DEF ConnectionCloses, Connection!Close, sessionVars, roomVars
<1>12. CASE Relay
  <2>1. PICK m \in Messages : RelaySays(m)
    BY <1>0, <1>12, RelayMessage
  <2>2. queue' = Append(queue, Connection!DataEvent(m)) /\ phase = "open" /\ phase' = "open"
        /\ UNCHANGED <<sOpen, sWelcomed>>
    BY <2>1 DEF RelaySays, Connection!Receive, sessionVars, roomVars
  <2>3. Connection!DataEvent(m) \in Connection!SocketEvent
    BY DEF Connection!SocketEvent
  <2> QED BY <1>9, <2>2, <2>3
<1> QED
  BY <1>2, <1>3, <1>4, <1>5, <1>7, <1>8, <1>10, <1>11, <1>12
  DEF Next, Update, Environment, Disconnects

LEMMA OwnerNext ==
  ASSUME IInv, CInv, [Next]_vars
  PROVE  OwnerCaptured'
<1>0. TypeOK /\ OwnerCaptured
  BY DEF IInv, CInv
<1>1. ASSUME UNCHANGED <<pc, owner, sTarget, sOpen, raced>> PROVE OwnerCaptured'
  BY <1>0, <1>1 DEF OwnerCaptured, ModId
<1>2. ASSUME pc' \in {"frame", "stopped"} PROVE OwnerCaptured'
  BY <1>2 DEF OwnerCaptured
<1>3. CASE StartUpdate
  BY <1>3 DEF StartUpdate, OwnerCaptured, ModId, configVars
<1>4. CASE PollNothing
  BY <1>0, <1>4 DEF PollNothing, OwnerCaptured, ModId, configVars
<1>5. CASE PollTicket
  <2>1. pc = "poll" /\ pc' = "check" /\ owner' = owner /\ sTarget' = file.target
        /\ file.target.room = sTarget.room /\ file.target # sTarget
    BY <1>5 DEF PollTicket, PollReads
  <2>2. sTarget # NoTarget /\ file.target # NoTarget
    BY <1>0, <2>1, TargetRooms DEF TypeOK
  <2>3. ModId' = ModId
    BY <2>1, <2>2 DEF ModId
  <2> QED BY <1>0, <2>1, <2>3 DEF OwnerCaptured
<1>6. CASE PollRoom
  <2>1. disconnect /\ pc' = "check"
    BY <1>6 DEF PollRoom, PollReads
  <2> QED BY <1>0, <2>1, Disconnected DEF OwnerCaptured
<1>7. CASE CheckReturns \/ CheckExpired \/ TakeKicked \/ TakeClosed \/ DrainEnds \/ session_shutdown
  BY <1>2, <1>7 DEF CheckReturns, CheckExpired, TakeKicked, TakeClosed, DrainEnds, session_shutdown, EndUpdate
<1>8. CASE Connect
  <2>1. sOpen' = FALSE /\ pc' = "drain"
    BY <1>8 DEF Connect, reset_room_state
  <2> QED BY <2>1 DEF OwnerCaptured
<1>9. CASE CheckConnected
  BY <1>0, <1>9 DEF CheckConnected, OwnerCaptured, ModId, configVars, roomVars, relayVars
<1>10. CASE TakeOpen
  <2>1. /\ pc = "drain" /\ pc' = "drain" /\ owner' = owner /\ sTarget' = sTarget
        /\ raced' = (raced \/ owner # ModId)
    BY <1>10 DEF TakeOpen, Take, Continue, configVars
  <2> QED BY <2>1 DEF OwnerCaptured, ModId
<1>11. CASE TakeMessage
  <2>1. UNCHANGED <<pc, owner, sTarget, sOpen, raced>>
    BY <1>11 DEF TakeMessage, Continue, configVars, relayVars
  <2> QED BY <2>1, <1>1
<1>12. CASE ConnectionOpens \/ (\E c \in CloseCodes : ConnectionCloses(c))
  <2>1. UNCHANGED <<pc, owner, sTarget, sOpen, raced>>
    BY <1>12 DEF ConnectionOpens, ConnectionCloses, sessionVars, updateVars, configVars, roomVars, relayVars
  <2> QED BY <2>1, <1>1
<1>13. CASE Relay
  BY <1>1, <1>13, RelaySpeaks DEF sessionVars, updateVars, configVars, roomVars
<1>14. CASE (\E now \in 0..MaxClock : ClockMoves(now))
            \/ (\E t \in Targets \cup {NoTarget} : LauncherWrites(t)) \/ UserQuits \/ Tick \/ UNCHANGED vars
  <2>1. UNCHANGED <<pc, owner, sTarget, sOpen, raced>>
    BY <1>14 DEF ClockMoves, LauncherWrites, UserQuits, Tick, vars, sessionVars, updateVars,
                 configVars, roomVars, relayVars
  <2> QED BY <2>1, <1>1
<1> QED
  BY <1>3, <1>4, <1>5, <1>6, <1>7, <1>8, <1>9, <1>10, <1>11, <1>12, <1>13, <1>14
  DEF Next, Update, Environment

\* Once an update has raced an Open, the premise of what the mods know is gone.
LEMMA RacedStays ==
  ASSUME TypeOK, [Next]_vars, raced
  PROVE  raced'
<1>1. CASE Update \/ session_shutdown
  BY <1>1 DEF Update, StartUpdate, PollNothing, PollTicket, PollRoom, CheckReturns, CheckExpired, Connect,
              CheckConnected, TakeOpen, TakeMessage, TakeKicked, TakeClosed, DrainEnds, session_shutdown, relayVars
<1>2. CASE Relay
  BY <1>2, RelaySpeaks
<1>3. CASE ConnectionOpens \/ (\E c \in CloseCodes : ConnectionCloses(c))
           \/ (\E t \in Targets \cup {NoTarget} : LauncherWrites(t))
           \/ (\E now \in 0..MaxClock : ClockMoves(now)) \/ UserQuits \/ Tick \/ UNCHANGED vars
  BY <1>3 DEF ConnectionOpens, ConnectionCloses, LauncherWrites, ClockMoves, UserQuits, Tick, vars, relayVars
<1> QED BY <1>1, <1>2, <1>3 DEF Next, Environment

LEMMA CallbacksNext ==
  ASSUME IInv, CInv, [Next]_vars
  PROVE  CallbacksKept'
<1> SUFFICES ASSUME ~raced' PROVE CallbacksKept'
  BY DEF CallbacksKept
<1>0. TypeOK /\ ConnectionHasRoom /\ RoomTold /\ OpenFirst /\ OwnerCaptured /\ CallbacksKept /\ ~raced
  BY RacedStays DEF IInv, CInv
<1>01. /\ sWelcomed \in BOOLEAN /\ owner \in Mods \cup {NoMod} /\ NoMod \notin Mods
       /\ told \in [Mods -> [depth : Int, players : SUBSET Players]]
  BY <1>0, RoomsHaveMods DEF TypeOK
<1>1. ASSUME UNCHANGED <<pc, owner, sTarget, sWelcomed, sPlayers, told>> PROVE CallbacksKept'
  BY <1>0, <1>1 DEF CallbacksKept, Told, ModId
<1>2. ASSUME told' = told, sWelcomed = FALSE, sWelcomed' = FALSE, pc # "stopped"
      PROVE  CallbacksKept'
  BY <1>0, <1>2 DEF CallbacksKept
<1>3. CASE StartUpdate
  BY <1>0, <1>3 DEF StartUpdate, CallbacksKept, Told, ModId, configVars, roomVars
<1>4. CASE PollNothing \/ PollTicket \/ CheckConnected
  <2>1. /\ pc \in {"poll", "check"} /\ pc' \in {"check", "drain"}
        /\ UNCHANGED <<owner, sWelcomed, sPlayers, told>>
    BY <1>4 DEF PollNothing, PollTicket, PollReads, CheckConnected, roomVars
  <2> QED BY <1>0, <2>1 DEF CallbacksKept, Told
<1>5. CASE CheckReturns \/ DrainEnds
  <2>1. /\ pc \in {"check", "drain"} /\ pc' = "frame"
        /\ UNCHANGED <<sTarget, sWelcomed, sPlayers, told>>
    BY <1>5 DEF CheckReturns, DrainEnds, EndUpdate, roomVars, configVars
  <2>2. CASE sWelcomed = FALSE
    BY <1>2, <2>1, <2>2
  <2>3. CASE sWelcomed = TRUE
    <3>1. owner = ModId
      BY <1>0, <2>1, <2>3 DEF OwnerCaptured, OpenFirst
    <3>2. Told = owner /\ Told' = ModId
      BY <2>1 DEF Told, ModId
    <3> QED BY <1>0, <2>1, <3>1, <3>2 DEF CallbacksKept
  <2> QED BY <1>01, <2>2, <2>3
<1>6. CASE Connect
  <2>1. told' = told /\ sWelcomed = FALSE /\ sWelcomed' = FALSE /\ pc = "check"
    BY <1>0, <1>01, <1>6 DEF Connect, reset_room_state, ConnectionHasRoom
  <2> QED BY <1>2, <2>1
<1>7. ASSUME disconnect, pc \notin {"frame", "stopped"} PROVE CallbacksKept'
  <2>1. sWelcomed' = FALSE
    BY <1>0, <1>7, Disconnected
  <2>2. Told = owner
    BY <1>7 DEF Told
  <2>3. CASE sWelcomed /\ owner # NoMod
    <3>1. told[owner] = [depth |-> 1, players |-> sPlayers \ {Me}]
      BY <1>0, <1>01, <1>7, <2>2, <2>3 DEF CallbacksKept
    <3>2. told' = [told EXCEPT ![owner] = [depth |-> View.depth - 1, players |-> {}]]
      BY <1>7, <2>3 DEF disconnect, Tell
    <3>3. [depth |-> View.depth - 1, players |-> {}] = Silent
      BY <3>1 DEF View, Silent
    <3>4. told' = [told EXCEPT ![owner] = Silent]
      BY <3>2, <3>3
    <3>5. \A m \in Mods : m # owner => told[m] = Silent
      BY <1>0, <1>7, <2>2 DEF CallbacksKept
    <3>6. \A m \in Mods : told'[m] = Silent
      BY <1>01, <3>4, <3>5
    <3> QED BY <2>1, <3>6 DEF CallbacksKept
  <2>4. CASE ~sWelcomed
    BY <1>2, <1>7, <2>1, <2>4, <1>01 DEF disconnect
  <2>5. CASE owner = NoMod
    <3>1. told' = told
      BY <1>7, <2>5 DEF disconnect
    <3>2. \A m \in Mods : told[m] = Silent
      BY <1>0, <1>01, <1>7, <2>2, <2>5 DEF CallbacksKept
    <3> QED BY <2>1, <3>1, <3>2 DEF CallbacksKept
  <2> QED BY <2>3, <2>4, <2>5
<1>8. CASE Disconnects
  <2>1. pc \notin {"frame", "stopped"}
    BY <1>8 DEF Disconnects, PollRoom, PollReads, CheckExpired, TakeKicked, TakeClosed, Take
  <2> QED BY <1>7, <1>8, <2>1, DisconnectsDisconnect
<1>9. CASE TakeOpen
  BY <1>1, <1>9 DEF TakeOpen, Continue, configVars
<1>10. CASE TakeMessage
  <2> DEFINE m == Head(queue).data
  <2>1. /\ pc = "drain" /\ pc' = "drain" /\ owner' = owner /\ Take /\ Head(queue).type = "Data"
        /\ handle_text(m)
    BY <1>10 DEF TakeMessage, Take, Continue
  <2>2. (m.t = "welcome" <=> ~sWelcomed) /\ (m.t = "join" => m.id # Me)
    BY <1>0, <2>1, WelcomeFirst
  <2>3. Told = owner /\ Told' = owner
    BY <2>1 DEF Told
  <2>4. \A n \in Mods : n # owner \/ ~sWelcomed => told[n] = Silent
    BY <1>0, <2>1, <2>3 DEF CallbacksKept
  <2>5. owner \in Mods /\ sWelcomed => View = [depth |-> 1, players |-> sPlayers \ {Me}]
    BY <1>0, <2>1, <2>3 DEF CallbacksKept, View
  <2>6. owner \in Mods /\ ~sWelcomed => View = Silent
    BY <2>4 DEF View
  <2> HIDE DEF m
  <2>7. ASSUME NEW view, Tell(view), sWelcomed',
               owner \in Mods => view = [depth |-> 1, players |-> sPlayers' \ {Me}]
        PROVE  CallbacksKept'
    <3>1. CASE owner \in Mods
      <4>1. told' = [told EXCEPT ![owner] = view]
        BY <1>01, <2>7, <3>1 DEF Tell
      <4>2. told'[owner] = [depth |-> 1, players |-> sPlayers' \ {Me}]
        BY <1>01, <2>7, <3>1, <4>1
      <4>3. \A n \in Mods : n # owner => told'[n] = Silent
        BY <1>01, <2>4, <4>1
      <4> QED BY <2>3, <2>7, <4>2, <4>3 DEF CallbacksKept
    <3>2. CASE owner = NoMod
      <4>1. told' = told
        BY <2>7, <3>2 DEF Tell
      <4> QED BY <1>01, <2>3, <2>4, <3>2, <4>1 DEF CallbacksKept
    <3> QED BY <1>01, <3>1, <3>2
  <2>8. CASE m.t = "welcome"
    <3>1. /\ sWelcomed' = TRUE
          /\ Tell([depth |-> View.depth + 1, players |-> View.players \cup (sPlayers' \ {Me})])
      BY <2>1, <2>8 DEF handle_text
    <3>2. owner \in Mods => [depth |-> View.depth + 1, players |-> View.players \cup (sPlayers' \ {Me})]
                              = [depth |-> 1, players |-> sPlayers' \ {Me}]
      BY <2>2, <2>6, <2>8 DEF Silent
    <3> QED BY <2>7, <3>1, <3>2
  <2>9. ASSUME told' = told, sPlayers' = sPlayers, sWelcomed' = sWelcomed PROVE CallbacksKept'
    BY <1>0, <2>1, <2>3, <2>9 DEF CallbacksKept
  <2>10. CASE m.t = "join"
    <3>1. sWelcomed' = sWelcomed /\ sWelcomed
      BY <2>1, <2>2, <2>10 DEF handle_text
    <3>2. CASE RoomFullFor(m.id)
      BY <2>1, <2>9, <2>10, <3>1, <3>2 DEF handle_text
    <3>3. CASE ~RoomFullFor(m.id)
      <4>1. sPlayers' = sPlayers \cup {m.id} /\ Tell([View EXCEPT !.players = @ \cup {m.id}])
        BY <2>1, <2>10, <3>3 DEF handle_text
      <4>2. (sPlayers \ {Me}) \cup {m.id} = (sPlayers \cup {m.id}) \ {Me}
        BY <2>2, <2>10
      <4>3. owner \in Mods => [View EXCEPT !.players = @ \cup {m.id}]
                                = [depth |-> 1, players |-> (sPlayers \ {Me}) \cup {m.id}]
        BY <2>5, <3>1
      <4> QED BY <2>7, <3>1, <4>1, <4>2, <4>3
    <3> QED BY <3>2, <3>3
  <2>11. CASE m.t = "leave"
    <3>1. /\ sWelcomed' = sWelcomed /\ sWelcomed
          /\ sPlayers' = sPlayers \ {m.id} /\ Tell([View EXCEPT !.players = @ \ {m.id}])
      BY <2>1, <2>2, <2>11 DEF handle_text
    <3>2. (sPlayers \ {Me}) \ {m.id} = (sPlayers \ {m.id}) \ {Me}
      OBVIOUS
    <3>3. owner \in Mods => [View EXCEPT !.players = @ \ {m.id}]
                              = [depth |-> 1, players |-> (sPlayers \ {Me}) \ {m.id}]
      BY <2>5, <3>1
    <3> QED BY <2>7, <3>1, <3>2, <3>3
  <2>12. CASE m.t \notin {"welcome", "join", "leave"}
    <3>1. told' = told /\ sPlayers' = sPlayers /\ sWelcomed' = sWelcomed
      BY <2>1, <2>12 DEF handle_text
    <3> QED BY <2>9, <3>1
  <2> QED BY <2>8, <2>10, <2>11, <2>12
<1>11. CASE session_shutdown
  BY <1>11 DEF session_shutdown, CallbacksKept
<1>12. CASE ConnectionOpens \/ (\E c \in CloseCodes : ConnectionCloses(c)) \/ (\E now \in 0..MaxClock : ClockMoves(now))
            \/ (\E t \in Targets \cup {NoTarget} : LauncherWrites(t))
  <2>1. UNCHANGED <<pc, owner, sTarget, sWelcomed, sPlayers, told>>
    BY <1>12 DEF ConnectionOpens, ConnectionCloses, ClockMoves, LauncherWrites,
                 sessionVars, updateVars, configVars, roomVars
  <2> QED BY <2>1, <1>1
<1>13. CASE UserQuits \/ Tick \/ UNCHANGED vars
  <2>1. UNCHANGED <<pc, owner, sTarget, sWelcomed, sPlayers, told>>
    BY <1>13 DEF UserQuits, Tick, vars, updateVars, configVars, roomVars
  <2> QED BY <2>1, <1>1
<1>14. CASE Relay
  BY <1>1, <1>14, RelaySpeaks DEF sessionVars, updateVars, configVars, roomVars
<1> QED
  BY <1>3, <1>4, <1>5, <1>6, <1>8, <1>9, <1>10, <1>11, <1>12, <1>13, <1>14
  DEF Next, Update, Environment, Disconnects

\* Between two updates the mod of the room knows exactly the session's players and
\* no other mod believes it is connected, whatever the launcher writes and the relay
\* sends, as long as no Open was taken with the callbacks of the mod whose room the
\* same update left (the owner update_session captured before it).
THEOREM CallbacksFollowSession == Spec => []CallbacksMatchSession
<1>1. IInv /\ CInv /\ [Next]_vars => CInv'
  BY RoomNext, OpenNext, OwnerNext, CallbacksNext DEF CInv
<1>2. CInv => CallbacksMatchSession
  BY DEF CInv, CallbacksKept, CallbacksMatchSession, Told, Silent
<1> QED BY <1>1, <1>2, ToldInit, InvHolds, PTL DEF Spec

------------------------------------------------------------------------------
\* What an event makes of the players and of the host of the room it is about.
PlayersAfter(e, ps) ==
  IF e.type # "Data" THEN ps
  ELSE CASE e.data.t = "welcome" -> e.data.players
         [] e.data.t = "join" -> ps \cup {e.data.id}
         [] e.data.t = "leave" -> ps \ {e.data.id}
         [] OTHER -> ps
HostAfter(e, h) ==
  IF e.type # "Data" THEN h
  ELSE CASE e.data.t = "welcome" -> e.data.host
         [] e.data.t = "host" -> e.data.id
         [] OTHER -> h

\* The queue leads from the room as the session has it to the room as the relay
\* has it, event by event, through rooms none of which is over-full: ps[i] and
\* hs[i] are the players and the host before event i.
RoomsFold ==
  \E ps \in [Nat -> SUBSET Players], hs \in [Nat -> Players \cup {0}] :
    /\ ps[1] = sPlayers /\ ps[Len(queue) + 1] = members
    /\ hs[1] = sHost /\ hs[Len(queue) + 1] = host
    /\ \A k \in 1..Len(queue) : /\ ps[k + 1] = PlayersAfter(queue[k], ps[k])
                                /\ hs[k + 1] = HostAfter(queue[k], hs[k])
    /\ \A k \in 1..(Len(queue) + 1) : Cardinality(ps[k]) <= kMaxPlayers

\* An event that says what the relay did to its room.
LEMMA FoldAdds ==
  ASSUME TypeOK, RoomsFold, NEW e \in Connection!SocketEvent, queue' = Append(queue, e),
         UNCHANGED <<sPlayers, sHost>>,
         members' \in SUBSET Players, host' \in Players \cup {0},
         members' = PlayersAfter(e, members), host' = HostAfter(e, host),
         Cardinality(members') <= kMaxPlayers
  PROVE  RoomsFold'
<1>1. PICK ps \in [Nat -> SUBSET Players], hs \in [Nat -> Players \cup {0}] :
        /\ ps[1] = sPlayers /\ ps[Len(queue) + 1] = members
        /\ hs[1] = sHost /\ hs[Len(queue) + 1] = host
        /\ \A k \in 1..Len(queue) : /\ ps[k + 1] = PlayersAfter(queue[k], ps[k])
                                    /\ hs[k + 1] = HostAfter(queue[k], hs[k])
        /\ \A k \in 1..(Len(queue) + 1) : Cardinality(ps[k]) <= kMaxPlayers
  BY DEF RoomsFold
<1>2. PICK n : n = Len(queue)
  OBVIOUS
<1>3. /\ n \in Nat /\ Len(queue') = n + 1
      /\ \A k \in 1..n : queue'[k] = queue[k]
      /\ queue'[n + 1] = e
  BY <1>2, EventAdded
<1> DEFINE qs == [k \in Nat |-> IF k = n + 2 THEN members' ELSE ps[k]]
           gs == [k \in Nat |-> IF k = n + 2 THEN host' ELSE hs[k]]
<1>4. qs \in [Nat -> SUBSET Players] /\ gs \in [Nat -> Players \cup {0}]
  OBVIOUS
<1>5. qs[1] = sPlayers' /\ gs[1] = sHost'
  BY <1>1, <1>3
<1>6. qs[Len(queue') + 1] = members' /\ gs[Len(queue') + 1] = host'
  BY <1>3
<1>7. ASSUME NEW k \in 1..Len(queue')
      PROVE  qs[k + 1] = PlayersAfter(queue'[k], qs[k]) /\ gs[k + 1] = HostAfter(queue'[k], gs[k])
  <2>1. CASE k = n + 1
    <3>1. qs[k + 1] = members' /\ gs[k + 1] = host' /\ qs[k] = members /\ gs[k] = host
      BY <1>1, <1>2, <1>3, <2>1
    <3> QED BY <1>3, <2>1, <3>1
  <2>2. CASE k # n + 1
    <3>1. /\ k \in 1..n /\ qs[k + 1] = ps[k + 1] /\ gs[k + 1] = hs[k + 1]
          /\ qs[k] = ps[k] /\ gs[k] = hs[k]
      BY <1>3, <2>2
    <3> QED BY <1>1, <1>2, <1>3, <3>1
  <2> QED BY <2>1, <2>2
<1>8. ASSUME NEW k \in 1..(Len(queue') + 1) PROVE Cardinality(qs[k]) <= kMaxPlayers
  <2>1. CASE k = n + 2
    BY <2>1
  <2>2. CASE k # n + 2
    BY <1>1, <1>2, <1>3, <2>2
  <2> QED BY <2>1, <2>2
<1> HIDE DEF qs, gs
<1> QED BY <1>4, <1>5, <1>6, <1>7, <1>8 DEF RoomsFold

\* An event the session has followed.
LEMMA FoldTakes ==
  ASSUME TypeOK, RoomsFold, Take, queue' = Tail(queue), UNCHANGED <<members, host>>,
         sPlayers' = PlayersAfter(queue[1], sPlayers), sHost' = HostAfter(queue[1], sHost)
  PROVE  RoomsFold'
<1>1. PICK ps \in [Nat -> SUBSET Players], hs \in [Nat -> Players \cup {0}] :
        /\ ps[1] = sPlayers /\ ps[Len(queue) + 1] = members
        /\ hs[1] = sHost /\ hs[Len(queue) + 1] = host
        /\ \A k \in 1..Len(queue) : /\ ps[k + 1] = PlayersAfter(queue[k], ps[k])
                                    /\ hs[k + 1] = HostAfter(queue[k], hs[k])
        /\ \A k \in 1..(Len(queue) + 1) : Cardinality(ps[k]) <= kMaxPlayers
  BY DEF RoomsFold
<1>2. /\ Len(queue) \in Nat /\ Len(queue) >= 1 /\ Len(queue') = Len(queue) - 1
      /\ \A k \in 1..Len(queue') : queue'[k] = queue[k + 1]
  BY EventTaken
<1> DEFINE qs == [k \in Nat |-> ps[k + 1]]
           gs == [k \in Nat |-> hs[k + 1]]
<1>3. qs \in [Nat -> SUBSET Players] /\ gs \in [Nat -> Players \cup {0}]
  OBVIOUS
<1>4. qs[1] = sPlayers' /\ gs[1] = sHost'
  <2>1. 1 \in 1..Len(queue)
    BY <1>2
  <2>2. ps[1 + 1] = PlayersAfter(queue[1], ps[1]) /\ hs[1 + 1] = HostAfter(queue[1], hs[1])
    BY <1>1, <2>1
  <2> QED BY <1>1, <2>2
<1>5. qs[Len(queue') + 1] = members' /\ gs[Len(queue') + 1] = host'
  <2>1. Len(queue') + 1 \in Nat /\ (Len(queue') + 1) + 1 = Len(queue) + 1
    BY <1>2
  <2> QED BY <1>1, <2>1
<1>6. ASSUME NEW k \in 1..Len(queue')
      PROVE  qs[k + 1] = PlayersAfter(queue'[k], qs[k]) /\ gs[k + 1] = HostAfter(queue'[k], gs[k])
  <2>1. k + 1 \in 1..Len(queue) /\ queue'[k] = queue[k + 1]
    BY <1>2
  <2>2. qs[k + 1] = ps[(k + 1) + 1] /\ gs[k + 1] = hs[(k + 1) + 1] /\ qs[k] = ps[k + 1] /\ gs[k] = hs[k + 1]
    <3>1. k \in Nat /\ k + 1 \in Nat
      BY <1>2
    <3> QED BY <3>1
  <2> QED BY <1>1, <2>1, <2>2
<1>7. ASSUME NEW k \in 1..(Len(queue') + 1) PROVE Cardinality(qs[k]) <= kMaxPlayers
  <2>1. k \in Nat /\ k + 1 \in 1..(Len(queue) + 1)
    BY <1>2
  <2> QED BY <1>1, <2>1
<1> HIDE DEF qs, gs
<1> QED BY <1>3, <1>4, <1>5, <1>6, <1>7 DEF RoomsFold

\* The room the session is about to enter is not over-full.
LEMMA NextRoomFits ==
  ASSUME TypeOK, RoomsFold, Take
  PROVE  /\ PlayersAfter(queue[1], sPlayers) \in SUBSET Players
         /\ Cardinality(PlayersAfter(queue[1], sPlayers)) <= kMaxPlayers
<1>1. PICK ps \in [Nat -> SUBSET Players], hs \in [Nat -> Players \cup {0}] :
        /\ ps[1] = sPlayers
        /\ \A k \in 1..Len(queue) : ps[k + 1] = PlayersAfter(queue[k], ps[k])
        /\ \A k \in 1..(Len(queue) + 1) : Cardinality(ps[k]) <= kMaxPlayers
  BY DEF RoomsFold
<1>2. 1 \in 1..Len(queue) /\ 1 + 1 \in 1..(Len(queue) + 1) /\ 1 + 1 \in Nat
  BY DEF TypeOK, Connection!TypeOK, Take
<1> QED BY <1>1, <1>2

\* The room of the relay is never over-full.
LEMMA RelayRoomFits ==
  ASSUME TypeOK, RoomsFold
  PROVE  Cardinality(members) <= kMaxPlayers
<1>1. Len(queue) + 1 \in 1..(Len(queue) + 1)
  BY DEF TypeOK, Connection!TypeOK
<1> QED BY <1>1 DEF RoomsFold

\* No queue, no players on either side.
LEMMA FoldEmpty ==
  ASSUME sPlayers = {}, members = {}, sHost = 0, host = 0, queue = <<>>
  PROVE  RoomsFold
<1> DEFINE qs == [k \in Nat |-> {}]
           gs == [k \in Nat |-> 0]
<1>1. qs \in [Nat -> SUBSET Players] /\ gs \in [Nat -> Players \cup {0}]
  OBVIOUS
<1>2. Len(queue) = 0
  OBVIOUS
<1>3. \A k \in Nat : qs[k] = {} /\ gs[k] = 0
  OBVIOUS
<1>4. Cardinality({}) <= kMaxPlayers
  BY FS_EmptySet, LimitsPositive
<1> HIDE DEF qs, gs
<1>5. \A k \in 1..(Len(queue) + 1) : Cardinality(qs[k]) <= kMaxPlayers
  <2>1. \A k \in 1..(Len(queue) + 1) : k \in Nat
    BY <1>2
  <2> QED BY <1>3, <1>4, <2>1
<1>6. qs[1] = sPlayers /\ gs[1] = sHost /\ qs[Len(queue) + 1] = members /\ gs[Len(queue) + 1] = host
  BY <1>2, <1>3
<1> QED BY <1>1, <1>2, <1>5, <1>6 DEF RoomsFold

LEMMA FoldNext ==
  ASSUME IInv, IInv', RoomsFold, [Next]_vars
  PROVE  RoomsFold'
<1>0. TypeOK /\ ConnectionHasRoom /\ TypeOK'
  BY DEF IInv
<1>1. ASSUME UNCHANGED <<queue, sPlayers, sHost, members, host>> PROVE RoomsFold'
  BY <1>1 DEF RoomsFold
<1>2. CASE StartUpdate \/ PollNothing \/ PollTicket \/ CheckReturns \/ CheckConnected \/ DrainEnds
  <2>1. UNCHANGED <<queue, sPlayers, sHost, members, host>>
    BY <1>2 DEF StartUpdate, PollNothing, PollTicket, CheckReturns, CheckConnected, DrainEnds,
                connectionVars, roomVars, relayVars
  <2> QED BY <2>1, <1>1
<1>3. CASE (\E now \in 0..MaxClock : ClockMoves(now)) \/ (\E t \in Targets \cup {NoTarget} : LauncherWrites(t)) \/ UserQuits \/ Tick
           \/ UNCHANGED vars
  <2>1. UNCHANGED <<queue, sPlayers, sHost, members, host>>
    BY <1>3 DEF ClockMoves, LauncherWrites, UserQuits, Tick, vars, sessionVars, connectionVars, roomVars, relayVars
  <2> QED BY <2>1, <1>1
<1>4. CASE Disconnects \/ session_shutdown
  <2>1. sPlayers' = {} /\ members' = {} /\ sHost' = 0 /\ host' = 0 /\ queue' = <<>>
    BY <1>0, <1>4, DisconnectsDisconnect, Disconnected, Dropped DEF session_shutdown, reset_room_state
  <2> DEFINE qs == [k \in Nat |-> {}]
             gs == [k \in Nat |-> 0]
  <2>2. qs \in [Nat -> SUBSET Players] /\ gs \in [Nat -> Players \cup {0}]
    OBVIOUS
  <2>3. Len(queue') = 0 /\ \A k \in Nat : qs[k] = {} /\ gs[k] = 0
    BY <2>1
  <2>4. Cardinality({}) <= kMaxPlayers
    BY FS_EmptySet, LimitsPositive
  <2> HIDE DEF qs, gs
  <2>5. \A k \in 1..(Len(queue') + 1) : Cardinality(qs[k]) <= kMaxPlayers
    <3>1. \A k \in 1..(Len(queue') + 1) : k \in Nat
      BY <2>3
    <3> QED BY <2>3, <2>4, <3>1
  <2>6. qs[1] = sPlayers' /\ gs[1] = sHost' /\ qs[Len(queue') + 1] = members' /\ gs[Len(queue') + 1] = host'
    BY <2>1, <2>3
  <2> QED BY <2>2, <2>3, <2>5, <2>6 DEF RoomsFold
<1>5. CASE Connect
  <2>1. UNCHANGED <<queue, sPlayers, sHost, members, host>>
    BY <1>0, <1>5 DEF Connect, reset_room_state, ConnectionHasRoom, relayVars
  <2> QED BY <2>1, <1>1
<1>6. CASE TakeOpen
  <2>1. Take /\ queue' = Tail(queue) /\ Head(queue).type = "Open"
        /\ UNCHANGED <<sPlayers, sHost, members, host>>
    BY <1>6 DEF TakeOpen, Connection!Poll, relayVars
  <2>2. Head(queue) = queue[1]
    BY <1>0, <2>1, EventTaken
  <2> QED BY <1>0, <2>1, <2>2, FoldTakes DEF PlayersAfter, HostAfter
<1>7. CASE TakeMessage
  <2>1. Take /\ queue' = Tail(queue) /\ UNCHANGED <<members, host>>
        /\ queue[1].type = "Data" /\ queue[1] \in Connection!SocketEvent /\ handle_text(queue[1].data)
    BY <1>0, <1>7, TakenTypes DEF TakeMessage, Connection!Poll, relayVars
  <2> DEFINE m == queue[1].data
  <2>2. m \in Messages
    BY <2>1, EventKinds
  <2>3. /\ PlayersAfter(queue[1], sPlayers) \in SUBSET Players
        /\ Cardinality(PlayersAfter(queue[1], sPlayers)) <= kMaxPlayers
    BY <1>0, <2>1, NextRoomFits
  <2>4. \A S \in SUBSET Players : IsFiniteSet(S) /\ Cardinality(S) \in Nat
    BY MeIsAPlayer, FS_Subset, FS_CardinalityType
  <2>5. sPlayers \in SUBSET Players /\ kMaxPlayers \in Nat
    BY <1>0, LimitsPositive DEF TypeOK
  <2>6. sHost' = HostAfter(queue[1], sHost)
    BY <2>1 DEF handle_text, HostAfter
  <2>7. sPlayers' = PlayersAfter(queue[1], sPlayers)
    <3>1. CASE m.t = "welcome"
      <4>1. m.players = PlayersAfter(queue[1], sPlayers)
        BY <2>1, <3>1 DEF PlayersAfter
      <4>2. sPlayers' \in SUBSET m.players
            /\ Cardinality(sPlayers') = IF Cardinality(m.players) < kMaxPlayers
                                        THEN Cardinality(m.players) ELSE kMaxPlayers
        BY <2>1, <3>1 DEF handle_text
      <4>3. Cardinality(sPlayers') = Cardinality(m.players)
        BY <2>3, <2>4, <2>5, <4>1, <4>2
      <4> QED BY <2>3, <2>4, <4>1, <4>2, <4>3, FS_Subset
    <3>2. CASE m.t = "join"
      <4>1. sPlayers \cup {m.id} = PlayersAfter(queue[1], sPlayers)
        BY <2>1, <3>2 DEF PlayersAfter
      <4>2. ~RoomFullFor(m.id)
        <5> SUFFICES ASSUME m.id \notin sPlayers, Cardinality(sPlayers) >= kMaxPlayers PROVE FALSE
          BY DEF RoomFullFor
        <5>1. Cardinality(sPlayers \cup {m.id}) = Cardinality(sPlayers) + 1
          BY <2>4, <2>5, FS_AddElement
        <5>2. Cardinality(sPlayers) \in Nat
          BY <2>4, <2>5
        <5>3. Cardinality(sPlayers \cup {m.id}) <= kMaxPlayers
          BY <2>3, <4>1
        <5> QED BY <2>5, <5>1, <5>2, <5>3
      <4> QED BY <2>1, <3>2, <4>1, <4>2 DEF handle_text
    <3>3. CASE m.t = "leave"
      BY <2>1, <3>3 DEF handle_text, PlayersAfter
    <3>4. CASE m.t \notin {"welcome", "join", "leave"}
      BY <2>1, <3>4 DEF handle_text, PlayersAfter
    <3> QED BY <3>1, <3>2, <3>3, <3>4
  <2> QED BY <1>0, <2>1, <2>6, <2>7, FoldTakes
<1>8. CASE ConnectionOpens \/ \E c \in CloseCodes : ConnectionCloses(c)
  <2>1. UNCHANGED <<sPlayers, sHost, members, host>>
    BY <1>8 DEF ConnectionOpens, ConnectionCloses, sessionVars, roomVars, relayVars
  <2>2. PICK e \in Connection!SocketEvent : e.type # "Data" /\ queue' = Append(queue, e)
    BY <1>8 DEF ConnectionOpens, ConnectionCloses, Connection!Open, Connection!Close,
                Connection!SocketEvent, Connection!OpenEvent, Connection!ClosedEvent
  <2>3. members' = PlayersAfter(e, members) /\ host' = HostAfter(e, host)
    BY <2>1, <2>2 DEF PlayersAfter, HostAfter
  <2>4. members' \in SUBSET Players /\ host' \in Players \cup {0}
    BY <1>0 DEF TypeOK
  <2>5. Cardinality(members') <= kMaxPlayers
    BY <1>0, <2>1, RelayRoomFits
  <2> QED BY <1>0, <2>1, <2>2, <2>3, <2>4, <2>5, FoldAdds
<1>9. ASSUME NEW m \in Messages, RelaySays(m), Cardinality(members') <= kMaxPlayers,
             members' = PlayersAfter(Connection!DataEvent(m), members),
             host' = HostAfter(Connection!DataEvent(m), host)
      PROVE  RoomsFold'
  <2>1. queue' = Append(queue, Connection!DataEvent(m)) /\ UNCHANGED <<sPlayers, sHost>>
    BY <1>9 DEF RelaySays, Connection!Receive, sessionVars, roomVars
  <2>2. Connection!DataEvent(m) \in Connection!SocketEvent
    BY DEF Connection!SocketEvent
  <2>3. members' \in SUBSET Players /\ host' \in Players \cup {0}
    BY <1>0 DEF TypeOK
  <2> QED BY <1>0, <1>9, <2>1, <2>2, <2>3, FoldAdds
<1>10. \A S \in SUBSET Players : IsFiniteSet(S) /\ Cardinality(S) \in Nat
  BY MeIsAPlayer, FS_Subset, FS_CardinalityType
<1>11. Cardinality(members) <= kMaxPlayers /\ kMaxPlayers \in Nat /\ members \in SUBSET Players
  BY <1>0, RelayRoomFits, LimitsPositive DEF TypeOK
<1>12. \A m : Connection!DataEvent(m).type = "Data" /\ Connection!DataEvent(m).data = m
  BY DEF Connection!DataEvent
<1>13. CASE Relay
  <2>1. CASE RelayWelcomes
    <3>1. PICK ps \in SUBSET Players :
            /\ Cardinality(ps) <= kMaxPlayers /\ members' = ps
            /\ \E h \in ps \cup {0} : host' = h /\ RelaySays(Welcome(ps, h))
      BY <2>1, MeIsAPlayer DEF RelayWelcomes
    <3>2. PICK h \in ps \cup {0} : host' = h /\ RelaySays(Welcome(ps, h))
      BY <3>1
    <3>3. /\ Welcome(ps, h) \in Messages /\ Welcome(ps, h).t = "welcome"
          /\ Welcome(ps, h).players = ps /\ Welcome(ps, h).host = h
      BY <3>2 DEF Messages, Welcome
    <3> QED BY <1>9, <1>12, <3>1, <3>2, <3>3 DEF PlayersAfter, HostAfter
  <2>2. CASE RelayJoins
    <3>1. PICK p \in Players : /\ p \notin members /\ members' = members \cup {p} /\ host' = host
                               /\ Cardinality(members) < kMaxPlayers /\ RelaySays(Message("join", p))
      BY <2>2 DEF RelayJoins
    <3>2. Message("join", p) \in Messages /\ Message("join", p).t = "join" /\ Message("join", p).id = p
      BY DEF Messages, Message
    <3>3. Cardinality(members \cup {p}) = Cardinality(members) + 1
      BY <1>10, <1>11, <3>1, FS_AddElement
    <3>4. Cardinality(members') <= kMaxPlayers
      BY <1>10, <1>11, <3>1, <3>3
    <3> QED BY <1>9, <1>12, <3>1, <3>2, <3>4 DEF PlayersAfter, HostAfter
  <2>3. CASE RelayLeaves
    <3>1. PICK p \in members : members' = members \ {p} /\ host' = host /\ RelaySays(Message("leave", p))
      BY <2>3 DEF RelayLeaves
    <3>2. Message("leave", p) \in Messages
      BY <1>11, <3>1 DEF Messages
    <3>3. Message("leave", p).t = "leave" /\ Message("leave", p).id = p
      BY DEF Message
    <3>4. Cardinality(members') <= Cardinality(members)
      BY <1>10, <1>11, <3>1, FS_Subset
    <3>5. Cardinality(members') <= kMaxPlayers
      <4>1. members' \in SUBSET Players
        BY <1>11, <3>1
      <4> QED BY <1>10, <1>11, <3>4, <4>1
    <3> QED BY <1>9, <1>12, <3>1, <3>2, <3>3, <3>5 DEF PlayersAfter, HostAfter
  <2>4. CASE RelayMovesHost
    <3>1. PICK h \in members \cup {0} : members' = members /\ host' = h /\ RelaySays(Message("host", h))
      BY <2>4 DEF RelayMovesHost
    <3>2. Message("host", h) \in Messages
      BY <1>11, <3>1 DEF Messages
    <3>3. Message("host", h).t = "host" /\ Message("host", h).id = h
      BY DEF Message
    <3> QED BY <1>9, <1>11, <1>12, <3>1, <3>2, <3>3 DEF PlayersAfter, HostAfter
  <2>5. CASE RelayOther
    <3>1. PICK m \in {Message("kicked", 0), Message("other", 0), Message("payload", Me)} :
            members' = members /\ host' = host /\ RelaySays(m)
      BY <2>5 DEF RelayOther
    <3>2. m \in Messages /\ m.t \notin {"welcome", "join", "leave", "host"}
      BY <3>1, MeIsAPlayer DEF Messages, Message
    <3> QED BY <1>9, <1>11, <1>12, <3>1, <3>2 DEF PlayersAfter, HostAfter
  <2> QED BY <1>13, <2>1, <2>2, <2>3, <2>4, <2>5 DEF Relay
<1> QED
  BY <1>2, <1>3, <1>4, <1>5, <1>6, <1>7, <1>8, <1>13 DEF Next, Update, Environment, Disconnects

\* Once the session has taken every event, its players and its host are the
\* relay's, for any number of players and events, any limit on the room and any
\* number of events taken per update: handle_text follows welcome, join, leave and
\* host as the relay applied them, and never meets a room that is full.
THEOREM SessionFollowsRelay == Spec => []AgreesWithRelay
<1>1. Init => RoomsFold
  BY FoldEmpty DEF Init, Connection!Init
<1>2. IInv /\ IInv' /\ RoomsFold /\ [Next]_vars => RoomsFold'
  BY FoldNext
<1>3. IInv /\ RoomsFold => AgreesWithRelay
  <2>1. ASSUME queue = <<>> PROVE Len(queue) + 1 = 1
    BY <2>1
  <2> QED BY <2>1 DEF RoomsFold, AgreesWithRelay
<1> QED BY <1>1, <1>2, <1>3, InvHolds, PTL DEF Spec
=============================================================================
