--------------------------- MODULE MCTileCacheLru ---------------------------
(* A small instance of TileCacheLru: images that fit one to four to a cache *)
(* and, once it is shrunk, not at all.                                     *)
EXTENDS TileCacheLru

CONSTANTS a, b, c

MCTiles  == {a, b, c}
MCSizes  == {1, 2, 3}
MCLimits == {1, 4}
=============================================================================
