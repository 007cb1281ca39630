--------------------------- MODULE FollowVehicle ----------------------------
(***************************************************************************)
(* The follow-vehicle controller of the map view as a value               *)
(* (src/plugins/map_view/follow_vehicle_controller.cpp): its state, the    *)
(* readiness it was last told and whether its pan timer runs.  The signal  *)
(* stateChanged only updates a button and a label.                         *)
(***************************************************************************)

FollowStates == {"Active", "Suspended", "Disabled"}

NewController == [state |-> "Active", loaded |-> TRUE, panning |-> FALSE]

SetTarget(fc) == IF fc.state = "Active" THEN [fc EXCEPT !.panning = TRUE] ELSE fc

SetViewportFullyLoaded_ForcesActive(fc, ready) ==
  IF fc.loaded = ready THEN fc
    ELSE IF ready THEN [state |-> "Active", loaded |-> TRUE, panning |-> TRUE]
    ELSE IF fc.state = "Active"
           THEN [state |-> "Suspended", loaded |-> FALSE, panning |-> FALSE]
           ELSE [fc EXCEPT !.loaded = FALSE]

SetViewportFullyLoaded_KeepsPanning(fc, ready) ==
  IF fc.loaded = ready THEN fc
    ELSE IF ready /\ fc.state = "Suspended"
           THEN [state |-> "Active", loaded |-> TRUE, panning |-> TRUE]
           ELSE [fc EXCEPT !.loaded = ready]

SetViewportFullyLoaded(fc, ready) ==
  IF fc.loaded = ready THEN fc
    ELSE IF ready /\ fc.state = "Suspended"
           THEN [state |-> "Active", loaded |-> TRUE, panning |-> TRUE]
    ELSE IF ~ready /\ fc.state = "Active"
           THEN [state |-> "Suspended", loaded |-> FALSE, panning |-> FALSE]
           ELSE [fc EXCEPT !.loaded = ready]

OnUserPanned(fc) ==
  IF fc.state = "Disabled" THEN fc
    ELSE [fc EXCEPT !.state = "Disabled", !.panning = FALSE]

RequestRecenter_Unconditional(fc) == [fc EXCEPT !.state = "Active", !.panning = TRUE]

RequestRecenter(fc) ==
  IF fc.loaded THEN [fc EXCEPT !.state = "Active", !.panning = TRUE]
    ELSE [fc EXCEPT !.state = "Suspended"]

StopPan(fc) == [fc EXCEPT !.panning = FALSE]
=============================================================================
