----------------------- MODULE ConnectionStateMachine -----------------------
(***************************************************************************)
(* The link state machine of src/telemetry/connection_state_machine.cpp.   *)
(*                                                                         *)
(* The class keeps one state and has one handler per event.  A handler     *)
(* makes zero, one or two transitions and emits stateChanged for each, so  *)
(* a handler is modelled by the sequence of states it ENTERS: the signals  *)
(* it emits, in order.  After(s, entered) is the state it leaves behind.   *)
(* The audit signal stateTransitioned carries no further information.      *)
(***************************************************************************)
EXTENDS Sequences, Integers

LinkStates == {"Disconnected", "SocketBound", "VehicleDiscovered",
               "HeartbeatAlive", "Degraded", "Reconnecting"}

(* States in which the link has, in this session, heard a heartbeat. *)
HeardStates == {"HeartbeatAlive", "Degraded", "Reconnecting"}

(* A transition to the current state is dropped: nothing is emitted. *)
TransitionTo(s, new) == IF s = new THEN <<>> ELSE <<new>>

After(s, entered) == IF entered = <<>> THEN s ELSE entered[Len(entered)]

OnSocketBound(s) ==
  IF s = "Disconnected" THEN TransitionTo(s, "SocketBound") ELSE <<>>

OnPacketReceived(s) ==
  IF s = "SocketBound" THEN TransitionTo(s, "VehicleDiscovered") ELSE <<>>

OnHeartbeatReceived(s) ==
  IF s = "SocketBound"
    THEN TransitionTo(s, "VehicleDiscovered")
           \o TransitionTo("VehicleDiscovered", "HeartbeatAlive")
    ELSE IF s \in {"VehicleDiscovered", "Degraded", "Reconnecting"}
           THEN TransitionTo(s, "HeartbeatAlive") ELSE <<>>

OnHeartbeatTimeout_NoGracePeriod(s) ==
  IF s \in {"Disconnected", "Reconnecting"} THEN <<>> ELSE <<"Reconnecting">>

OnHeartbeatTimeout(s) ==
  IF s = "HeartbeatAlive" THEN TransitionTo(s, "Degraded")
    ELSE IF s \in {"Degraded", "SocketBound", "VehicleDiscovered"}
           THEN TransitionTo(s, "Reconnecting") ELSE <<>>

OnStop(s) == IF s # "Disconnected" THEN TransitionTo(s, "Disconnected") ELSE <<>>
=============================================================================
