\* Two calls of connect() and two connections that the peer closes.
SPECIFICATION Spec
CONSTANTS
  MaxCalls = 2
  MaxConnections = 2
INVARIANTS
  TypeOK
  NoFault
  SocketsAccounted
PROPERTIES
  StopHolds
  StopSettles
  Connects
CHECK_DEADLOCK FALSE
