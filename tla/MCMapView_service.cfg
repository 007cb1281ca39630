SPECIFICATION FairSpec
CONSTANTS
  MaxZoom = 2
  Positions <- MCZero
  Home = 0
  HalfWidth = 1
  TileRadius = 0
  TilesFail = TRUE
  Repeats = TRUE
  CacheTiles = 1
PROPERTIES
  UsesLoader
  ResumesAtLast
