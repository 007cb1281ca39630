---------------------------- MODULE MCMavlinkIO -----------------------------
(* Small instances of MavlinkIO for TLC. *)
EXTENDS MavlinkIO

CONSTANTS vehicle1, vehicle2, broadcast

MCSenders == {vehicle1, vehicle2}
=============================================================================
