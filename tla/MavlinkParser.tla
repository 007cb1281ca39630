--------------------------- MODULE MavlinkParser ----------------------------
(***************************************************************************)
(* From a MAVLink message to what the panels show: MavlinkParser           *)
(* (src/telemetry/parsers.cpp) writes VehicleState and emits on the bus,   *)
(* and the plugins listen to both over queued connections.  A message is   *)
(* its kind and a number for its content; each kind has one listener.      *)
(***************************************************************************)
EXTENDS Integers, Sequences

(* The fields of VehicleState, each set by the message of that kind.       *)
Fields == {"heartbeat", "attitude", "position", "battery", "mission"}

(* The fields that a panel displays: the map view is told of the current   *)
(* mission item and does nothing with it yet.                              *)
Displayed == Fields \ {"mission"}

NoData  == 0
Unknown == -1  \* remaining = -1: the battery does not say

NewVehicle == [field \in Fields |-> IF field = "battery" THEN Unknown ELSE NoData]
NewPanels  == [field \in Displayed |-> NoData]

(* parse*(): a status text and a message of another kind leave the state.  *)
Update(vehicle, message) ==
  IF message.kind \in Fields THEN [vehicle EXCEPT ![message.kind] = message.value]
    ELSE vehicle

(* The connections that initialize() of each plugin makes.                 *)
ListenerOf == [heartbeat |-> "telemetry_hud", attitude |-> "telemetry_hud",
               battery   |-> "telemetry_hud", position |-> "map_view",
               mission   |-> "map_view",      text     |-> "alert_console"]

(* What a message posts to the plugin that listens, if it is there.        *)
Post(active, message) ==
  IF message.kind \in DOMAIN ListenerOf /\ ListenerOf[message.kind] \in active
    THEN <<[to |-> "plugin", kind |-> message.kind, value |-> message.value]>>
    ELSE <<>>

(* The slots of the panels: onMissionCurrentChanged() is empty, and the    *)
(* head-up display keeps the last charge it was told.                      *)
Show(shown, event) ==
  IF event.kind \notin Displayed \/ (event.kind = "battery" /\ event.value = Unknown)
    THEN shown
    ELSE [shown EXCEPT ![event.kind] = event.value]

(* onAlert(): the newest alerts, as many as the console may hold.          *)
Raise_DropsNewest(alerts, text, maxItems) ==
  IF Len(alerts) < maxItems THEN Append(alerts, text) ELSE alerts

Raise(alerts, text, maxItems) ==
  LET all == Append(alerts, text)
  IN  IF Len(all) > maxItems THEN SubSeq(all, Len(all) - maxItems + 1, Len(all)) ELSE all
=============================================================================
