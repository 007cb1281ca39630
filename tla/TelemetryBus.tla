---------------------------- MODULE TelemetryBus ----------------------------
(***************************************************************************)
(* The topics of the telemetry bus (src/core/bus/telemetry_bus.cpp): the   *)
(* pairs of a topic and a subscriber, which a topic that was published     *)
(* meets only when the event loop dispatches it.  The multi-map of the     *)
(* code also keeps a pair twice; a subscriber here subscribes once.  The   *)
(* other signals of the bus are plain Qt signals, see MavlinkParser.       *)
(***************************************************************************)
NoSubscriptions == {}

Subscribe(subs, topic, subscriber) == subs \union {<<topic, subscriber>>}

Unsubscribe(subs, topic, subscriber) == subs \ {<<topic, subscriber>>}

Publish(topic, payload) == [to |-> "bus", kind |-> topic, value |-> payload]

(* dispatchTopic(): whose callbacks run.                                   *)
Called(subs, topic) == {s[2] : s \in {sub \in subs : sub[1] = topic}}
=============================================================================
