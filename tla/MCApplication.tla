---------------------------- MODULE MCApplication ----------------------------
(***************************************************************************)
(* The application on one instance of each kind of beginning: many         *)
(* documents with nothing happening, one document with many plugins that   *)
(* may fail, live telemetry, and replays.                                  *)
(***************************************************************************)
EXTENDS Application

Quiet == [readable |-> TRUE, found |-> {<<>>}, outcomes |-> {"ok"}, traffic |-> {}, texts |-> 0,
          files |-> {}, requests |-> 0, seeks |-> {}, tiles |-> FALSE]

(* Some of the keys, as a map without the absent ones. *)
Map(keys) == [k \in {key \in DOMAIN keys : keys[key] # Missing} |-> keys[k]]

Big == 805306368  \* does not fit the int of this instance: wraps below zero

Versions  == {Missing, Num(0), Num(1), Num(2), Num(3), Num(2 ^ 30), Digits(2)}
Telemetries ==
  {Missing, Word("none")}
    \union {Obj(Map([heartbeatTimeoutMs |-> t, reconnectIntervalMs |-> r, vendor |-> x])) :
              t \in {Missing, Num(5), Num(4000), Digits(50), Word("soon")},
              r \in {Missing, Num(700)}, x \in {Missing, Num(1)}}
Loggings ==
  {Missing, List(<<>>)}
    \union {Obj(Map([minLevel |-> m, maxSizeBytes |-> s, enableConsole |-> c])) :
              m \in {Missing, Word("error"), Word("loud")}, s \in {Missing, Num(4096), Num(Big)},
              c \in {Missing, Flag(FALSE)}}
Dummies ==
  {Missing, Flag(TRUE)}
    \union {Obj(Map([enabled |-> e, intervalMs |-> i])) :
              e \in {Missing, Flag(FALSE), Word("no"), Num(0)}, i \in {Missing, Num(0)}}
Plugins ==
  {Missing, Num(1)}
    \union {Obj(Map([alert_console |-> a, map_view |-> v, other |-> Num(1)])) :
              a \in {Missing, Obj(Map([maxItems |-> Num(0), colour |-> Word("red")])),
                     Obj(Map([maxItems |-> Num(7)]))},
              v \in {Missing, Word("x"), Obj(Map([zoom |-> Num(20)]))}}

Documents ==
  {Map([configVersion |-> v, telemetry |-> t]) : v \in Versions, t \in Telemetries}
  \union {Map([configVersion |-> v, logging |-> l]) : v \in Versions, l \in Loggings}
  \union {Map([configVersion |-> v, dummyTelemetry |-> d, plugins |-> p]) :
            v \in {Missing, Num(2)}, d \in Dummies, p \in Plugins}
  \union {Map([configVersion |-> v, vendor |-> Obj(Map([a |-> Num(1)]))]) : v \in Versions}

Chosen(ids) == Map([configVersion |-> Num(2), autostartPlugins |-> List(ids),
                    dummyTelemetry |-> Obj(Map([enabled |-> Flag(FALSE)]))])

PluginEnv ==
  [Quiet EXCEPT
     !.found    = {<<"map_view", "not a plugin", "recorder", "telemetry_hud", "map_view">>,
                   <<"recorder", "recorder", "alert_console">>},
     !.outcomes = Failures \union {"ok"}, !.tiles = TRUE,
     !.traffic  = {[kind |-> "other", value |-> 1]}]

TelemetryEnv ==
  [Quiet EXCEPT
     !.found   = {<<"telemetry_hud", "alert_console">>},
     !.traffic = {[kind |-> "battery", value |-> 1], [kind |-> "battery", value |-> Unknown],
                  [kind |-> "text", value |-> 0]},
     !.texts   = 3]

TelemetryDoc ==
  Map([configVersion |-> Num(2), autostartPlugins |-> List(<<"telemetry_hud", "alert_console">>),
       plugins |-> Obj(Map([alert_console |-> Obj(Map([maxItems |-> Num(2)]))]))])

(* Whole frames with a torn end, and a torn beginning before a whole frame. *)
LongFile == <<<<1, 1>>, <<1, 2>>, <<2, 1>>, <<2, 2>>, <<3, 1>>>>
TornFile == <<<<4, 2>>, <<5, 1>>, <<5, 2>>>>

ReplayEnv ==
  [Quiet EXCEPT
     !.found   = {<<"map_view">>},
     !.traffic = {[kind |-> "position", value |-> 7]},
     !.files   = {LongFile, TornFile}, !.requests = 2]

MCRecorded == [frame \in 1 .. 5 |-> [kind  |-> IF frame = 2 THEN "mission" ELSE "position",
                                    value |-> frame]]

MCStarts ==
  {[doc |-> document, env |-> Quiet] : document \in Documents}
  \union
  {[doc |-> Empty, env |-> [Quiet EXCEPT !.readable = FALSE]],
   [doc |-> Chosen(<<"map_view", "recorder", "telemetry_hud">>), env |-> PluginEnv],
   [doc |-> TelemetryDoc, env |-> TelemetryEnv],
   [doc |-> Chosen(<<"map_view">>), env |-> ReplayEnv],
   [doc |-> Chosen(<<>>), env |-> [ReplayEnv EXCEPT !.seeks = {0, 1, 3}]]}
==============================================================================
