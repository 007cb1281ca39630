----------------------------- MODULE LinkStatus -----------------------------
(***************************************************************************)
(* What the operator is promised about the link indicator: the single      *)
(* status it shows walks along the edges of this graph, one edge at a      *)
(* time.  A simulated link is the exception: it is shown alive from the    *)
(* start, and ends when a socket is bound, not to come back.  It is the    *)
(* abstract specification that MavlinkIO implements when `status' is the   *)
(* status the main window shows.                                           *)
(***************************************************************************)
VARIABLES status, simulated

Init == \/ status = "Disconnected" /\ simulated = FALSE
        \/ status = "HeartbeatAlive" /\ simulated = TRUE

Move(from, to) == /\ ~simulated /\ simulated' = FALSE
                  /\ status = from /\ status' = to

(* The socket is bound; no vehicle is known yet. *)
Listen   == \/ Move("Disconnected", "SocketBound")
            \/ simulated /\ simulated' = FALSE /\ status' = "SocketBound"
Discover == Move("SocketBound", "VehicleDiscovered")
Alive    == Move("VehicleDiscovered", "HeartbeatAlive")

(* Silence costs one level at a time: there is always a degraded phase. *)
Degrade  == Move("HeartbeatAlive", "Degraded")
Lose     == Move("Degraded", "Reconnecting")

Recover  == \/ Move("Degraded", "HeartbeatAlive")
            \/ Move("Reconnecting", "HeartbeatAlive")

Close    == \E from \in {"SocketBound", "VehicleDiscovered", "HeartbeatAlive",
                         "Degraded", "Reconnecting"} : Move(from, "Disconnected")

Next == Listen \/ Discover \/ Alive \/ Degrade \/ Lose \/ Recover \/ Close

Spec == Init /\ [][Next]_<<status, simulated>>
=============================================================================
