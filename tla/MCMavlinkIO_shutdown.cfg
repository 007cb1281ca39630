SPECIFICATION FairSpec
CONSTANTS
  vehicle1 = vehicle1
  vehicle2 = vehicle2
  broadcast = broadcast
  NoRemote = broadcast
  Senders <- MCSenders
  HeartbeatTimeout = 1
  BindMayFail = TRUE
  ImpatientCaller = FALSE
  MaxCommands = 0
  MaxQueue = 1
PROPERTIES
  StopReturns
