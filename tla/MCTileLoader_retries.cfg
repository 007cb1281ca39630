SPECIFICATION FairSpec
CONSTANTS
  Tiles <- MCPair
  Viewports <- MCWindow
  MaxConcurrent = 1
  MaxRetries = 2
  CacheSize = 1
  Cancels = FALSE
  MaxTimers = 1
PROPERTIES
  RetriesEnd
