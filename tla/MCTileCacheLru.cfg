SPECIFICATION Spec
CONSTANTS
  a = a
  b = b
  c = c
  Tiles <- MCTiles
  Sizes <- MCSizes
  Limits <- MCLimits
  MaxUses = 6
INVARIANTS
  CacheConsistent
PROPERTIES
  IsLru
