SPECIFICATION Spec
CONSTANTS
  a = a
  b = b
  modA = modA
  modB = modB
  Rooms = {a, b}
  ModOf <- MCModOf
  Mods = {modA, modB}
  NoMod = NoMod
  NoRoom = NoRoom
  Players = {1, 2}
  Me = 1
  kInitialBackoff = 1
  kMaxBackoff = 1
  kConfigPoll = 1
  kPingInterval = 1
  kMaxPlayers = 2
  kMaxMessagesPerUpdate = 2
  Targets <- MCTargets
  ReadsMayFail = TRUE
  MaxWrites = 2
  MaxClock = 1
  MaxQueue = 2
INVARIANTS
  NothingOutlivesTheConnection
  AgreesWithRelay
  CallbacksMatchSession
CHECK_DEADLOCK FALSE
