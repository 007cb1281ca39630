---------------------------- MODULE MCTileLoader ----------------------------
(* Small instances of TileLoader: four tiles in a row, and windows on     *)
(* whose two sizes their priorities differ.                                *)
EXTENDS TileLoader

MCTiles == {[x |-> i, y |-> 1] : i \in 0 .. 3}
MCPair  == {[x |-> i, y |-> 1] : i \in 1 .. 2}

MCViewports == {[widthPx |-> w, heightPx |-> 512] : w \in {512, 1536}}
MCWindow == {[widthPx |-> 512, heightPx |-> 512]}
=============================================================================
