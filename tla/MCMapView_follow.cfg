SPECIFICATION Spec
CONSTANTS
  MaxZoom = 2
  Positions <- MCOne
  Home = 1
  HalfWidth = 1
  TileRadius = 1
  TilesFail = TRUE
  Repeats = FALSE
  CacheTiles = 1
INVARIANTS
  FollowConsistent
  ReadinessCurrent
  EveryGapAsked
PROPERTIES
  PansOverLoadedTiles
  UserWins
