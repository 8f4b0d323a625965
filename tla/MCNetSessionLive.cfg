SPECIFICATION FairSpec
CONSTANTS
  a = a
  b = b
  modA = NoMod
  modB = modB
  Rooms = {a}
  ModOf <- MCModOf
  Mods = {}
  NoMod = NoMod
  NoRoom = NoRoom
  Players = {1}
  Me = 1
  kInitialBackoff = 1
  kMaxBackoff = 4
  kConfigPoll = 1
  kPingInterval = 1
  kMaxPlayers = 2
  kMaxMessagesPerUpdate = 1
  Targets <- MCTargets
  ReadsMayFail = FALSE
  MaxWrites = 3
  MaxClock = 1
  MaxQueue = 1
PROPERTIES
  RefusedTargetNotRetried
  AttemptsSpacedOut
  KeepsTrying
  FollowsLauncher
  ClosedIsNoticed
  PingsKeepComing
CHECK_DEADLOCK FALSE
