SPECIFICATION Spec
CONSTANTS
  vehicle1 = vehicle1
  vehicle2 = vehicle2
  broadcast = broadcast
  NoRemote = broadcast
  Senders <- MCSenders
  HeartbeatTimeout = 2
  BindMayFail = TRUE
  ImpatientCaller = TRUE
  MaxCommands = 2
  MaxQueue = 2
INVARIANTS
  TypeOK
  SessionConsistent
  StatusMatchesSilence
  TelemetryUnderItsStatus
  CommandsInOrder
PROPERTIES
  ShowsLegalMoves
