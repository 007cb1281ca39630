SPECIFICATION FairSpec
CONSTANTS
  vehicle1 = vehicle1
  vehicle2 = vehicle2
  broadcast = broadcast
  NoRemote = broadcast
  Senders <- MCSenders
  HeartbeatTimeout = 2
  BindMayFail = FALSE
  ImpatientCaller = FALSE
  MaxCommands = 1
  MaxQueue = 2
INVARIANTS
  HeardThisSession
PROPERTIES
  RemotePinned
  StopReturns
  IndicatorCatchesUp
