SPECIFICATION GoodSpec
CONSTANTS
  Tiles <- MCTiles
  Viewports <- MCWindow
  MaxConcurrent = 1
  MaxRetries = 2
  CacheSize = 1
  Cancels = FALSE
  MaxTimers = 2
INVARIANTS
  NothingLost
PROPERTIES
  IsTileService
  RequestsAnswered
