---------------------------- MODULE TileService -----------------------------
(***************************************************************************)
(* What the map view relies on when it asks the tile loader for tiles: a   *)
(* tile is answered at once from the cache, or later, once or more, by     *)
(* tileReady or tileFailed; until its answer it stays in hand.  TileLoader *)
(* is shown to implement this, MapView to be a client of it.               *)
(***************************************************************************)
EXTENDS Integers

CONSTANT Tiles

VARIABLES asked,   \* tiles the loader has in hand and will answer
          waiting, \* tiles the client asked for and has no answer to
          cached   \* tiles a request for which is answered at once

service == <<asked, waiting, cached>>

Init == asked \in SUBSET Tiles /\ waiting = asked /\ cached = {}

(* Requests for some tiles, one after the other in one slot. *)
Ask(wanted) ==
  /\ asked' = asked \cup (wanted \ cached)
  /\ waiting' = (waiting \ (wanted \cap cached)) \cup (wanted \ cached)
  /\ UNCHANGED cached

(* An answer.  A tile may stay in hand after it: a retry that was set off  *)
(* by an earlier failure is not called back.                               *)
Answer(c) ==
  /\ c \in asked
  /\ asked' \in {asked, asked \ {c}}
  /\ waiting' = waiting \ {c}

Ready(c) == Answer(c) /\ cached' \in SUBSET (cached \cup {c})
Failed(c) == Answer(c) /\ UNCHANGED cached

Forget == cached' \in SUBSET cached /\ UNCHANGED <<asked, waiting>>

Next ==
  \/ \E wanted \in SUBSET Tiles : Ask(wanted)
  \/ \E c \in Tiles : Ready(c) \/ Failed(c)
  \/ Forget

Spec == Init /\ [][Next]_service
=============================================================================
