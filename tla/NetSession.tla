------------------------------ MODULE NetSession ------------------------------
\* The multiplayer session of src/port/src/net/session.cpp, run once a frame by
\* update_session of src/port/src/foxhollow_mods.cpp: it follows the launcher's
\* config file, keeps one connection to the relay and tells the mod that owns
\* the room what happens in it.  The connection behaves as SocketContract says;
\* the relay, the launcher and the clocks are external.
EXTENDS Integers, Sequences, FiniteSets

CONSTANTS
  Rooms,            \* the (url, room, modId) triples the launcher may write
  Targets,          \* what it may write: a room, a ticket for it and when that expires
  ModOf,            \* ModOf[r]: the mod room r belongs to
  Mods,             \* the initialized native mods
  NoMod,            \* no initialized mod owns the session
  NoRoom,           \* no room
  Players,          \* player ids the relay hands out
  Me,               \* the id it gives this player
  kInitialBackoff, kMaxBackoff, kConfigPoll, kPingInterval, \* in ticks
  kMaxPlayers, kMaxMessagesPerUpdate,
  ReadsMayFail,     \* fopen may fail, or the file be read half written
  MaxWrites,        \* bound: how often the launcher writes the file
  MaxClock,         \* bound: the latest time of the system clock
  MaxQueue          \* bound: events waiting in the connection

ASSUME RoomsHaveMods == ModOf \in [Rooms -> Mods \cup {NoMod}] /\ NoMod \notin Mods /\ NoRoom \notin Rooms
ASSUME MeIsAPlayer == Me \in Players /\ 0 \notin Players /\ Players \subseteq Nat /\ IsFiniteSet(Players)
ASSUME TimesOrdered ==
  /\ kInitialBackoff \in Nat \ {0} /\ kMaxBackoff \in Nat /\ kInitialBackoff <= kMaxBackoff
  /\ kConfigPoll \in Nat \ {0} /\ kPingInterval \in Nat \ {0}
ASSUME LimitsPositive == kMaxPlayers \in Nat \ {0} /\ kMaxMessagesPerUpdate \in Nat \ {0}
ASSUME TargetsHaveRooms == Targets \subseteq [room : Rooms, ticket : Nat, expiresAt : Nat]
ASSUME BoundsAreNumbers == MaxWrites \in Nat /\ MaxClock \in Nat /\ MaxQueue \in Nat
ASSUME SwitchIsBoolean == ReadsMayFail \in BOOLEAN

VARIABLES
  file,          \* the config file: its mtime and the target in it, or NoTarget
  clock,         \* the system clock, against which tickets expire
  sConfigTime,   \* mtime of the file when it was last read, 0 before that
  sTarget,       \* the target in use, or NoTarget
  pollWait,      \* ticks until sNextConfigPoll
  sSocket,       \* a connection object exists
  phase, queue,  \* that connection (SocketContract)
  sOpen, sWelcomed, sLocal, sHost, sPlayers,
  wait,          \* ticks until sNextAttempt
  sBackoff, pingWait, sFatal,
  pc,            \* "frame", or where session_update is: "poll", "check", "drain"
  owner,         \* the mod whose callbacks this update uses
  delivered,     \* events taken by this update
  sQuitRequested,
  told,          \* told[m]: what mod m knows from its callbacks
  members, host, \* the room as the relay last described it on this connection
  refused,       \* history: the target given up on, as long as the file holds no other
  raced,         \* history: an update took an Open with the callbacks of another mod
  streak,        \* history: connections lost in a row (up to 3)
  quiet          \* history: ticks since the last one was lost (up to kMaxBackoff)

configVars == <<sConfigTime, sTarget, pollWait>>
roomVars == <<sOpen, sWelcomed, sLocal, sHost, sPlayers>>
backoffVars == <<sBackoff, streak>>
retryVars == <<wait, backoffVars, sFatal, quiet>>
connectionVars == <<sSocket, phase, queue>>
relayVars == <<members, host, refused, raced>>
launcherVars == <<file, clock>>
updateVars == <<pc, owner, delivered>>
vars == <<launcherVars, configVars, connectionVars, roomVars, retryVars, pingWait,
          updateVars, sQuitRequested, told, relayVars>>

NoTarget == [room |-> NoRoom, ticket |-> 0, expiresAt |-> 0]
Lost == 1006       \* any code handle_closed does not name
Refused == 403     \* 401, 403 and 409
Kicked == 4001
Unsupported == 4900
CloseCodes == {Lost, Refused, Kicked, Unsupported}

Welcome(ps, h) == [t |-> "welcome", players |-> ps, host |-> h]
Message(t, p) == [t |-> t, id |-> p]
Messages ==
  {Welcome(ps, h) : ps \in SUBSET Players, h \in Players \cup {0}}
    \cup {Message(t, p) : t \in {"join", "leave", "payload"}, p \in Players}
    \cup {Message("host", p) : p \in Players \cup {0}}
    \cup {Message("kicked", 0), Message("other", 0)}

Connection == INSTANCE SocketContract WITH Data <- Messages

ModId == IF sTarget = NoTarget THEN NoMod ELSE ModOf[sTarget.room]
Silent == [depth |-> 0, players |-> {}]

Init ==
  /\ file \in [mtime : {1}, target : Targets \cup {NoTarget}] /\ clock = 0
  /\ sConfigTime = 0 /\ sTarget = NoTarget /\ pollWait = 0
  /\ sSocket = FALSE /\ Connection!Init
  /\ sOpen = FALSE /\ sWelcomed = FALSE /\ sLocal = 0 /\ sHost = 0 /\ sPlayers = {}
  /\ wait = 0 /\ sBackoff = kInitialBackoff /\ sFatal = FALSE /\ pingWait = 0
  /\ pc = "frame" /\ owner = NoMod /\ delivered = 0
  /\ sQuitRequested = FALSE
  /\ told = [m \in Mods |-> Silent]
  /\ members = {} /\ host = 0 /\ refused = NoTarget /\ raced = FALSE
  /\ streak = 0 /\ quiet = 0

------------------------------------------------------------------------------
\* Calls to the callbacks of the owner that update_session captured.
Tell(view) ==
  told' = IF owner = NoMod THEN told ELSE [told EXCEPT ![owner] = view]
View == told[owner]

reset_room_state ==
  /\ sOpen' = FALSE /\ sWelcomed' = FALSE
  /\ sLocal' = 0 /\ sHost' = 0 /\ sPlayers' = {}

\* The connection object is destroyed; the relay forgets this member.
DropConnection ==
  /\ sSocket' = FALSE /\ phase' = "connecting" /\ queue' = <<>>
  /\ members' = {} /\ host' = 0

\* Mutant: the room's state is kept.
disconnect_KeepsRoom ==
  /\ DropConnection
  /\ UNCHANGED <<roomVars, told>>

\* Mutant: the mod is not told.
disconnect_Silent ==
  /\ DropConnection
  /\ reset_room_state
  /\ UNCHANGED told

disconnect ==
  /\ DropConnection
  /\ reset_room_state
  /\ IF sWelcomed /\ owner # NoMod
       THEN Tell([depth |-> View.depth - 1, players |-> {}])
       ELSE UNCHANGED told

\* update_session captures the owner, then session_update begins.
StartUpdate ==
  /\ pc = "frame" /\ ~sQuitRequested
  /\ owner' = ModId
  /\ pc' = "poll"
  /\ UNCHANGED <<launcherVars, configVars, connectionVars, roomVars, retryVars, pingWait,
                 delivered, sQuitRequested, told, relayVars>>

resetBackoff == sBackoff' = kInitialBackoff /\ streak' = 0

\* Mutant: a session that gave up does not read the file it has seen change.
PollNothing_WhileFatal ==
  /\ pc = "poll"
  /\ \/ pollWait > 0 /\ UNCHANGED <<pollWait, sConfigTime>>
     \/ /\ pollWait = 0
        /\ file.mtime = sConfigTime \/ file.target = sTarget \/ ReadsMayFail \/ sFatal
        /\ pollWait' = kConfigPoll
        /\ sConfigTime' = file.mtime
  /\ pc' = "check"
  /\ UNCHANGED <<launcherVars, sTarget, connectionVars, roomVars, retryVars, pingWait, owner,
                 delivered, sQuitRequested, told, relayVars>>

\* poll_config returns early: not due, or the same mtime, or nothing new in the file.
PollNothing ==
  /\ pc = "poll"
  /\ \/ pollWait > 0 /\ UNCHANGED <<pollWait, sConfigTime>>
     \/ /\ pollWait = 0
        /\ file.mtime = sConfigTime \/ file.target = sTarget \/ ReadsMayFail
        /\ pollWait' = kConfigPoll
        /\ sConfigTime' = file.mtime
  /\ pc' = "check"
  /\ UNCHANGED <<launcherVars, sTarget, connectionVars, roomVars, retryVars, pingWait, owner,
                 delivered, sQuitRequested, told, relayVars>>

PollReads ==
  /\ pc = "poll" /\ pollWait = 0
  /\ file.mtime # sConfigTime /\ file.target # sTarget
  /\ sConfigTime' = file.mtime
  /\ pollWait' = kConfigPoll
  /\ pc' = "check"

\* poll_config: another ticket or another expiry for the same room.
PollTicket ==
  /\ PollReads
  /\ file.target.room = sTarget.room
  /\ sTarget' = file.target
  /\ IF sFatal /\ ~sSocket
       THEN sFatal' = FALSE /\ resetBackoff /\ wait' = 0 /\ UNCHANGED quiet
       ELSE UNCHANGED retryVars
  /\ UNCHANGED <<launcherVars, connectionVars, roomVars, pingWait, owner, delivered,
                 sQuitRequested, told, relayVars>>

\* poll_config: another room, or none.
PollRoom ==
  /\ PollReads
  /\ file.target.room # sTarget.room
  /\ disconnect
  /\ sTarget' = file.target
  /\ sFatal' = FALSE /\ resetBackoff /\ wait' = 0
  /\ UNCHANGED <<launcherVars, quiet, pingWait, owner, delivered, sQuitRequested, refused, raced>>

TicketExpired == sTarget.expiresAt # 0 /\ clock >= sTarget.expiresAt
Idle == sTarget = NoTarget \/ sFatal

EndUpdate == pc' = "frame" /\ owner' = NoMod /\ delivered' = 0

\* session_update returns before touching the connection.
CheckReturns ==
  /\ pc = "check"
  /\ Idle \/ (~TicketExpired /\ ~sSocket /\ wait > 0) \/ (TicketExpired /\ ~sSocket)
  /\ EndUpdate
  /\ UNCHANGED <<launcherVars, configVars, connectionVars, roomVars, retryVars, pingWait,
                 sQuitRequested, told, relayVars>>

\* session_update: the ticket of a live connection has expired.
CheckExpired ==
  /\ pc = "check" /\ ~Idle
  /\ TicketExpired /\ sSocket
  /\ disconnect
  /\ EndUpdate
  /\ UNCHANGED <<launcherVars, configVars, retryVars, pingWait, sQuitRequested, refused, raced>>

\* Mutant: no more attempts once the backoff has reached its limit.
Connect_GivesUp ==
  /\ pc = "check" /\ ~Idle /\ ~TicketExpired
  /\ ~sSocket /\ wait = 0 /\ sBackoff < kMaxBackoff
  /\ sSocket' = TRUE
  /\ reset_room_state
  /\ pingWait' = kPingInterval
  /\ pc' = "drain"
  /\ UNCHANGED <<launcherVars, configVars, phase, queue, retryVars, owner, delivered,
                 sQuitRequested, told, relayVars>>

\* session_update: connect_websocket.
Connect ==
  /\ pc = "check" /\ ~Idle /\ ~TicketExpired
  /\ ~sSocket /\ wait = 0
  /\ sSocket' = TRUE
  /\ reset_room_state
  /\ pingWait' = kPingInterval
  /\ pc' = "drain"
  /\ UNCHANGED <<launcherVars, configVars, phase, queue, retryVars, owner, delivered,
                 sQuitRequested, told, relayVars>>

CheckConnected ==
  /\ pc = "check" /\ ~Idle /\ ~TicketExpired /\ sSocket
  /\ pc' = "drain"
  /\ UNCHANGED <<launcherVars, configVars, connectionVars, roomVars, retryVars, pingWait, owner,
                 delivered, sQuitRequested, told, relayVars>>

------------------------------------------------------------------------------
\* The loop that takes events.  Each step takes one; a step that destroys the
\* connection ends the update.
Take ==
  /\ pc = "drain" /\ sSocket
  /\ queue # <<>> /\ delivered < kMaxMessagesPerUpdate

Continue == pc' = pc /\ owner' = owner /\ delivered' = delivered + 1

\* Mutant: the backoff restarts when the connection opens, not at the welcome.
TakeOpen_ResetsBackoff ==
  /\ Take /\ Head(queue).type = "Open"
  /\ Connection!Poll
  /\ sOpen' = TRUE
  /\ pingWait' = kPingInterval
  /\ sBackoff' = kInitialBackoff
  /\ raced' = (raced \/ owner # ModId)
  /\ Continue
  /\ UNCHANGED <<launcherVars, configVars, sSocket, sWelcomed, sLocal, sHost, sPlayers,
                 wait, streak, quiet, sFatal, sQuitRequested, told, members, host, refused>>

TakeOpen ==
  /\ Take /\ Head(queue).type = "Open"
  /\ Connection!Poll
  /\ sOpen' = TRUE
  /\ pingWait' = kPingInterval
  /\ raced' = (raced \/ owner # ModId)
  /\ Continue
  /\ UNCHANGED <<launcherVars, configVars, sSocket, sWelcomed, sLocal, sHost, sPlayers,
                 retryVars, sQuitRequested, told, members, host, refused>>

\* Mutant: one place too few.
RoomFullFor_OffByOne(p) == Cardinality(sPlayers) >= kMaxPlayers - 1 /\ p \notin sPlayers

\* A join is ignored when the room has no place for another player.
RoomFullFor(p) == Cardinality(sPlayers) >= kMaxPlayers /\ p \notin sPlayers

\* handle_text and the Binary case: the messages that leave the connection up.
\* The sort after a join is not visible in a set.
handle_text(m) ==
  CASE m.t = "welcome" ->
         /\ sLocal' = Me /\ sHost' = m.host
         /\ \E ps \in SUBSET m.players :
              /\ Cardinality(ps) = IF Cardinality(m.players) < kMaxPlayers
                                   THEN Cardinality(m.players) ELSE kMaxPlayers
              /\ sPlayers' = ps
         /\ sWelcomed' = TRUE
         /\ resetBackoff
         /\ Tell([depth |-> View.depth + 1, players |-> View.players \cup (sPlayers' \ {Me})])
    [] m.t = "join" ->
         /\ IF RoomFullFor(m.id)
              THEN UNCHANGED <<sPlayers, told>>
              ELSE /\ sPlayers' = sPlayers \cup {m.id}
                   /\ Tell([View EXCEPT !.players = @ \cup {m.id}])
         /\ UNCHANGED <<sWelcomed, sLocal, sHost, backoffVars>>
    [] m.t = "leave" ->
         /\ sPlayers' = sPlayers \ {m.id}
         /\ Tell([View EXCEPT !.players = @ \ {m.id}])
         /\ UNCHANGED <<sWelcomed, sLocal, sHost, backoffVars>>
    [] m.t = "host" ->
         /\ sHost' = m.id
         /\ UNCHANGED <<sWelcomed, sLocal, sPlayers, backoffVars, told>>
    [] OTHER -> UNCHANGED <<sWelcomed, sLocal, sHost, sPlayers, backoffVars, told>>

TakeMessage ==
  /\ Take /\ Head(queue).type = "Data" /\ Head(queue).data.t # "kicked"
  /\ Connection!Poll
  /\ handle_text(Head(queue).data)
  /\ Continue
  /\ UNCHANGED <<launcherVars, configVars, sSocket, sOpen, wait, sFatal, quiet, pingWait,
                 sQuitRequested, relayVars>>

\* The session gives up on the target it holds, unless the file holds another by now.
Refuse == refused' = IF file.target = sTarget THEN sTarget ELSE NoTarget

\* handle_text: the room's owner removed this player.
TakeKicked ==
  /\ Take /\ Head(queue).type = "Data" /\ Head(queue).data.t = "kicked"
  /\ sFatal' = TRUE
  /\ disconnect
  /\ sQuitRequested' = TRUE
  /\ Refuse
  /\ EndUpdate
  /\ UNCHANGED <<launcherVars, configVars, wait, backoffVars, quiet, pingWait, raced>>

Smaller(a, b) == IF a < b THEN a ELSE b

\* Mutant: the doubled backoff is not limited.
handle_closed_Unlimited(code) ==
  /\ disconnect
  /\ code = Lost
  /\ wait' = sBackoff
  /\ sBackoff' = sBackoff * 2
  /\ streak' = Smaller(streak + 1, 3) /\ quiet' = 0
  /\ UNCHANGED <<sFatal, sQuitRequested, refused>>

\* Mutant: a refused ticket is retried like a lost connection.
handle_closed_RetriesRefused(code) ==
  /\ disconnect
  /\ IF code = Refused THEN Refuse ELSE UNCHANGED refused
  /\ wait' = sBackoff
  /\ sBackoff' = Smaller(sBackoff * 2, kMaxBackoff)
  /\ streak' = Smaller(streak + 1, 3) /\ quiet' = 0
  /\ UNCHANGED <<sFatal, sQuitRequested>>

handle_closed(code) ==
  /\ disconnect
  /\ IF code = Lost
       THEN /\ wait' = sBackoff
            /\ sBackoff' = Smaller(sBackoff * 2, kMaxBackoff)
            /\ streak' = Smaller(streak + 1, 3) /\ quiet' = 0
            /\ UNCHANGED <<sFatal, sQuitRequested, refused>>
       ELSE /\ sFatal' = TRUE
            /\ sQuitRequested' = (sQuitRequested \/ code = Kicked)
            /\ Refuse
            /\ UNCHANGED <<wait, backoffVars, quiet>>

TakeClosed ==
  /\ Take /\ Head(queue).type = "Closed"
  /\ handle_closed(Head(queue).code)
  /\ EndUpdate
  /\ UNCHANGED <<launcherVars, configVars, pingWait, raced>>

\* Mutant: the events behind the limit are dropped with the update.
DrainEnds_DropsRest ==
  /\ pc = "drain"
  /\ queue = <<>> \/ delivered >= kMaxMessagesPerUpdate
  /\ queue' = <<>>
  /\ pingWait' = IF sOpen /\ pingWait = 0 THEN kPingInterval ELSE pingWait
  /\ EndUpdate
  /\ UNCHANGED <<launcherVars, configVars, sSocket, phase, roomVars, retryVars,
                 sQuitRequested, told, relayVars>>

\* Mutant: a ping is sent only by an update that took an event.
DrainEnds_PingsWhenBusy ==
  /\ pc = "drain"
  /\ queue = <<>> \/ delivered >= kMaxMessagesPerUpdate
  /\ pingWait' = IF sOpen /\ pingWait = 0 /\ delivered > 0 THEN kPingInterval ELSE pingWait
  /\ EndUpdate
  /\ UNCHANGED <<launcherVars, configVars, connectionVars, roomVars, retryVars,
                 sQuitRequested, told, relayVars>>

\* The loop ends, and a ping is sent when one is due.
DrainEnds ==
  /\ pc = "drain"
  /\ queue = <<>> \/ delivered >= kMaxMessagesPerUpdate
  /\ pingWait' = IF sOpen /\ pingWait = 0 THEN kPingInterval ELSE pingWait
  /\ EndUpdate
  /\ UNCHANGED <<launcherVars, configVars, connectionVars, roomVars, retryVars,
                 sQuitRequested, told, relayVars>>

\* fhModsShutdown: session_shutdown, which calls no callback.
session_shutdown ==
  /\ pc = "frame" /\ sQuitRequested
  /\ DropConnection
  /\ reset_room_state
  /\ pc' = "stopped"
  /\ UNCHANGED <<launcherVars, configVars, retryVars, pingWait, owner, delivered,
                 sQuitRequested, told, refused, raced>>

Update ==
  \/ StartUpdate \/ PollNothing \/ PollTicket \/ PollRoom
  \/ CheckReturns \/ CheckExpired \/ Connect \/ CheckConnected
  \/ TakeOpen \/ TakeMessage \/ TakeKicked \/ TakeClosed \/ DrainEnds

------------------------------------------------------------------------------
sessionVars == <<configVars, sSocket, roomVars, retryVars, pingWait, updateVars,
                 sQuitRequested, told>>

Room == Len(queue) < MaxQueue

ConnectionOpens ==
  /\ sSocket /\ Room
  /\ Connection!Open
  /\ UNCHANGED <<launcherVars, sessionVars, relayVars>>

ConnectionCloses(code) ==
  /\ sSocket /\ Room
  /\ Connection!Close(code)
  /\ UNCHANGED <<launcherVars, sessionVars, relayVars>>

\* The relay: welcome comes first and once, the rest describes changes to the
\* room it announced.  A room holds at most kMaxPlayers.
RelaySays(m) ==
  /\ sSocket /\ Room
  /\ Connection!Receive(m)
  /\ UNCHANGED <<launcherVars, sessionVars, refused, raced>>

RelayWelcomes ==
  /\ members = {}
  /\ \E others \in SUBSET (Players \ {Me}) :
       LET ps == others \cup {Me} IN
       /\ Cardinality(ps) <= kMaxPlayers
       /\ members' = ps
       /\ \E h \in ps \cup {0} : host' = h /\ RelaySays(Welcome(ps, h))

RelayJoins ==
  \E p \in Players \ members :
    /\ members # {} /\ Cardinality(members) < kMaxPlayers
    /\ members' = members \cup {p}
    /\ RelaySays(Message("join", p))
    /\ UNCHANGED host

RelayLeaves ==
  \E p \in members \ {Me} :
    /\ members' = members \ {p}
    /\ RelaySays(Message("leave", p))
    /\ UNCHANGED host

RelayMovesHost ==
  \E h \in members \cup {0} :
    /\ members # {} /\ h # host
    /\ host' = h
    /\ RelaySays(Message("host", h))
    /\ UNCHANGED members

RelayOther ==
  /\ members # {}
  /\ RelaySays(Message("kicked", 0)) \/ RelaySays(Message("other", 0)) \/ RelaySays(Message("payload", Me))
  /\ UNCHANGED <<members, host>>

Relay == RelayWelcomes \/ RelayJoins \/ RelayLeaves \/ RelayMovesHost \/ RelayOther

\* The launcher writes a target, the one that is there included, or removes it.
LauncherWrites(t) ==
  /\ file.mtime < MaxWrites
  /\ file' = [mtime |-> file.mtime + 1, target |-> t]
  /\ refused' = IF t = refused THEN refused ELSE NoTarget
  /\ UNCHANGED <<clock, sessionVars, phase, queue, members, host, raced>>

\* The system clock goes on, or is set.
ClockMoves(now) ==
  /\ clock' = now
  /\ UNCHANGED <<file, sessionVars, phase, queue, relayVars>>

\* The window is closed.
UserQuits ==
  /\ ~sQuitRequested
  /\ sQuitRequested' = TRUE
  /\ UNCHANGED <<launcherVars, configVars, connectionVars, roomVars, retryVars, pingWait,
                 updateVars, told, relayVars>>

\* A tick passes between two frames.
CountDown(n) == IF n > 0 THEN n - 1 ELSE 0
Tick ==
  /\ pc = "frame"
  /\ pollWait' = CountDown(pollWait)
  /\ wait' = CountDown(wait)
  /\ pingWait' = CountDown(pingWait)
  /\ quiet' = Smaller(quiet + 1, kMaxBackoff)
  /\ UNCHANGED <<launcherVars, sConfigTime, sTarget, connectionVars, roomVars, backoffVars, sFatal,
                 updateVars, sQuitRequested, told, relayVars>>

Environment ==
  \/ ConnectionOpens \/ (\E c \in CloseCodes : ConnectionCloses(c)) \/ Relay
  \/ (\E t \in Targets \cup {NoTarget} : LauncherWrites(t))
  \/ (\E now \in 0..MaxClock : ClockMoves(now)) \/ UserQuits \/ Tick

Next == Update \/ session_shutdown \/ Environment

Spec == Init /\ [][Next]_vars

\* The main loop calls update_session every frame, and time passes between
\* frames, so a clock that ticks between updates ticks again and again.
FairSpec == Spec /\ WF_vars(Update) /\ SF_vars(Tick)

------------------------------------------------------------------------------
TypeOK ==
  /\ file \in [mtime : Nat, target : Targets \cup {NoTarget}] /\ clock \in Nat
  /\ sConfigTime \in Nat /\ pollWait \in 0..kConfigPoll
  /\ sTarget \in Targets \cup {NoTarget}
  /\ sSocket \in BOOLEAN /\ Connection!TypeOK
  /\ sOpen \in BOOLEAN /\ sWelcomed \in BOOLEAN
  /\ sLocal \in {0, Me} /\ sHost \in Players \cup {0} /\ sPlayers \in SUBSET Players
  /\ wait \in 0..kMaxBackoff /\ sBackoff \in kInitialBackoff..kMaxBackoff
  /\ pingWait \in 0..kPingInterval /\ sFatal \in BOOLEAN
  /\ pc \in {"frame", "poll", "check", "drain", "stopped"}
  /\ owner \in Mods \cup {NoMod} /\ delivered \in 0..kMaxMessagesPerUpdate
  /\ sQuitRequested \in BOOLEAN
  /\ told \in [Mods -> [depth : Int, players : SUBSET Players]]
  /\ members \in SUBSET Players /\ host \in Players \cup {0}
  /\ refused \in Targets \cup {NoTarget} /\ raced \in BOOLEAN
  /\ streak \in 0..3 /\ quiet \in 0..kMaxBackoff

\* Room state never outlives its connection, and a session that gave up or has
\* no room keeps no connection (disconnect on every path out of a room); nothing
\* leaves its type, the backoff with its limit included.
NothingOutlivesTheConnection ==
  /\ TypeOK
  /\ ~sSocket => ~sOpen /\ ~sWelcomed /\ sPlayers = {} /\ sHost = 0
  /\ sSocket => ~sFatal /\ sTarget # NoTarget

\* Once every event has been taken, the session's players and host are those of
\* the relay's room: welcome, join, leave and host fold to the same room,
\* however the events were spread over the updates.
AgreesWithRelay ==
  sSocket /\ sWelcomed /\ phase = "open" /\ queue = <<>> =>
    sPlayers = members /\ sHost = host

\* Between two updates the mod that owns the room, and no other mod, believes it
\* is connected, and the players it has been told of are the session's: each
\* connected is answered by one disconnected before the mod loses the room
\* (update_session's captured owner).  The premise: no update that changed the
\* room has also seen the new room's connection open, since its callbacks are
\* still those of the mod that owned the room before.
CallbacksMatchSession ==
  pc = "frame" /\ ~raced =>
    \A m \in Mods :
      /\ told[m].depth = IF sWelcomed /\ ModId = m THEN 1 ELSE 0
      /\ told[m].players = IF sWelcomed /\ ModId = m THEN sPlayers \ {Me} ELSE {}

\* A session that was refused does not try again with the target it holds until
\* the file has held something else: sFatal survives every poll, and every write
\* of the same content.  (After another ticket, or another expiry for the same
\* ticket, it does try again, with a ticket refused before as well.)
RefusedTargetNotRetried == [][~sSocket /\ sSocket' => sTarget # refused]_vars

\* After one, two, three connections lost in a row the next attempt comes at least
\* one, two, four times kInitialBackoff, at most kMaxBackoff, later; only a welcome,
\* another room or a new ticket after a refusal start the count again.
Floor(n) == Smaller(kInitialBackoff * <<1, 2, 4>>[n], kMaxBackoff)
AttemptsSpacedOut ==
  [][~sSocket /\ sSocket' /\ streak > 0 => quiet >= Floor(streak)]_vars

MayConnect == sTarget # NoTarget /\ ~sFatal /\ ~TicketExpired /\ ~sQuitRequested

\* A session that may connect does not stay without a connection: every lost
\* connection is followed by another attempt.
KeepsTrying == (MayConnect /\ ~sSocket) ~> (sSocket \/ ~MayConnect)

\* The target the launcher wrote last becomes the session's, if the file can be read.
FollowsLauncher ==
  \A t \in Targets \cup {NoTarget} :
    (file.target = t) ~> (sTarget = t \/ file.target # t \/ sQuitRequested)

\* A connection the relay has closed is always noticed, however many events are
\* queued before the Closed.
ClosedIsNoticed == (sSocket /\ phase = "closed") ~> (~sSocket \/ phase # "closed" \/ sQuitRequested)
\* An open connection is pinged again and again, also when nothing arrives: the
\* relay sees the player is alive.
PingsKeepComing == (sOpen /\ pingWait = 0) ~> (pingWait > 0 \/ ~sOpen \/ sQuitRequested)
===============================================================================
