SPECIFICATION Spec
CONSTANTS
  MaxZoom = 2
  Positions <- MCOne
  Home = 1
  HalfWidth = 1
  TileRadius = 0
  TilesFail = FALSE
  Repeats = FALSE
  CacheTiles = 1
PROPERTIES
  ResumesOnlyWhenLoaded
