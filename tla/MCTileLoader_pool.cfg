SPECIFICATION Spec
CONSTANTS
  Tiles <- MCTiles
  Viewports <- MCViewports
  MaxConcurrent = 2
  MaxRetries = 2
  CacheSize = 1
  Cancels = TRUE
  MaxTimers = 2
INVARIANTS
  PoolConsistent
  CancelledInFlight
  WorkConserving
PROPERTIES
  NearestFirst
