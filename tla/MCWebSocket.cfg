SPECIFICATION FairSpec
CONSTANTS
  Out = {"text", "frame"}
  In = {"short", "long"}
  Size <- MCSize
  Frags <- MCFrags
  PeerCodes = {4001}
  HttpStatus = {403}
  MaxOut = 2
  MaxIn = 2
INVARIANTS
  WireExact
  MessagesInOrder
  DeathIsReported
PROPERTIES
  KeepsContract
  DestructorReturns
CHECK_DEADLOCK FALSE
