----------------------------- MODULE MCMapView ------------------------------
(* Small instances of MapView: two zooms, a world of two and four tiles. *)
EXTENDS MapView

MCOne  == {1}
MCZero == {0}
=============================================================================
