---------------------------- MODULE Application -----------------------------
(***************************************************************************)
(* The application from its configuration file to its last event           *)
(* (src/app/application.cpp): migration and validation of the              *)
(* configuration, discovery and loading of plugins, and then the main      *)
(* thread, which serves one queue of posted events, the timers of the      *)
(* dummy telemetry and of the replay, and the user.  It composes Config,   *)
(* PluginHost, TelemetryBus, MavlinkParser and LogReplay; of the link      *)
(* endpoint, which MavlinkIO models, only its messages matter here.        *)
(*                                                                         *)
(* "recorder" stands for a plugin that is not in the repository.  It keeps *)
(* to the interface: it subscribes to a topic when initialize() succeeds   *)
(* and unsubscribes in shutdown().                                         *)
(***************************************************************************)
EXTENDS Config, PluginHost, MavlinkParser, TelemetryBus, LogReplay

CONSTANTS
  Starts,   \* the documents and environments a behaviour may begin with
  Recorded, \* the message in each frame of a replay file
  MaxQueue  \* bound: posted events of the main thread

ASSUME QueueAssumption == MaxQueue \in Nat \ {0}

(* A message is its kind and a number for its content.  A replay file is   *)
(* cut out of a recording: it may begin and end inside a frame.            *)
Message == [kind : STRING, value : Int]
Halves  == (DOMAIN Recorded) \X {1, 2}

Recording(file) ==
  /\ file \in Seq(Halves)
  /\ \A p \in 1 .. Len(file) - 1 : file[p][2] = 1 => file[p + 1] = <<file[p][1], 2>>

ASSUME RecordedAssumption ==
  /\ DOMAIN Recorded \subseteq Nat \ {InNoFrame}
  /\ \A frame \in DOMAIN Recorded : Recorded[frame] \in Message

ASSUME StartsAssumption ==
  \A start \in Starts :
    /\ Document(start.doc)
    /\ \A files \in start.env.found : files \in Seq(STRING)
    /\ \A message \in start.env.traffic : message \in Message
    /\ \A file \in start.env.files : Recording(file)
    /\ \A pos \in start.env.seeks : pos \in Nat

VARIABLES
  env,      \* what the environment may do: set at the start and kept
  phase,    \* how far start-up or shutdown has come
  doc,      \* the object in the configuration file
  config,   \* m_config
  host,     \* the plugin host
  todo,     \* discovered plugins the autostart loop has not come to
  docks,    \* panels of the main window, the central widget included
  subs,     \* subscriptions to topics of the bus
  events,   \* events posted to the main thread
  vehicle,  \* VehicleState
  shown,    \* what the panels display of it
  alerts,   \* the lines of the alert console
  texts,    \* number of status texts received
  ready,    \* the tile readiness last published
  noted,    \* the readiness the recorder last heard of
  dummy,    \* m_dummyTimer runs
  link,     \* the link endpoint: "down" or "up"
  replay,   \* the log replay
  channel,  \* the parser of MAVLINK_COMM_0
  requests, \* number of replays and seeks asked for
  played,   \* history: the frames replayed since the file was loaded
  alone     \* history: nothing but the ticks has read since then

configVars == <<doc, config>>
pluginVars == <<host, todo, docks, subs>>
panelVars  == <<vehicle, shown, alerts, texts>>
topicVars  == <<ready, noted>>
linkVars   == <<dummy, link>>
replayVars == <<replay, channel, requests, played, alone>>
idleVars   == <<env, phase, configVars, pluginVars>>  \* no event changes these
vars == <<idleVars, events, panelVars, topicVars, linkVars, replayVars>>

settings == Settings(config)

Topic   == "map/tilesReady"
Dummy   == 9   \* the content of the messages of emitDummyTelemetry()
Running == phase \in {"running", "closing"}
Room(n) == Len(events) + n <= MaxQueue

Init ==
  /\ \E start \in Starts : doc = start.doc /\ env = start.env
  /\ phase = "start"
  /\ config = Empty
  /\ host = NewHost /\ todo = <<>> /\ docks = <<>> /\ subs = NoSubscriptions
  /\ events = <<>>
  /\ vehicle = NewVehicle /\ shown = NewPanels /\ alerts = <<>> /\ texts = 0
  /\ ready = 0 /\ noted = 0
  /\ dummy = FALSE /\ link = "down"
  /\ replay = NewReplay /\ channel = InNoFrame /\ requests = 0
  /\ played = {} /\ alone = TRUE

-----------------------------------------------------------------------------
(* Start-up *)

(* A file that cannot be read, or holds no object, leaves m_config empty.  *)
LoadConfiguration ==
  /\ phase = "start" /\ phase' = "loaded"
  /\ config' = IF env.readable THEN doc ELSE Empty
  /\ doc' = config'
  /\ UNCHANGED <<env, pluginVars, events, panelVars, topicVars, linkVars, replayVars>>

(* Whether the backup could be written is only logged.                     *)
MigrateConfiguration ==
  /\ phase = "loaded" /\ phase' = "migrated"
  /\ config' = Migrate(config, CurrentVersion)
  /\ UNCHANGED <<env, doc, pluginVars, events, panelVars, topicVars, linkVars,
                 replayVars>>

ValidateConfiguration ==
  /\ phase = "migrated" /\ phase' = "validated"
  /\ config' = Validate(config)
  /\ UNCHANGED <<env, doc, pluginVars, events, panelVars, topicVars, linkVars,
                 replayVars>>

(* The services are made from m_config, which does not change any more;    *)
(* the logger and the link endpoint have modules of their own.             *)
DiscoverPlugins ==
  /\ phase = "validated" /\ phase' = "autostart"
  /\ \E files \in env.found :
       todo' = Discover(files) /\ host' = Register(host, Discover(files))
  /\ UNCHANGED <<env, configVars, docks, subs, events, panelVars, topicVars,
                 linkVars, replayVars>>

(* injectPlugin(): a panel that is already there is only raised.           *)
Inject(panels, id) == IF id \in ToSet(panels) THEN panels ELSE Append(panels, id)

(* onPluginLoaded() looks the plugin up among the active ones.             *)
OnPluginLoaded(now, id) == IF id \in now.active THEN Inject(docks, id) ELSE docks

LoadPlugin(id, outcome) ==
  /\ host' = Load(host, id, outcome)
  /\ docks' = IF Announces(host, id, outcome) THEN OnPluginLoaded(host', id) ELSE docks
  /\ subs' = IF id = "recorder" /\ Announces(host, id, outcome)
               THEN Subscribe(subs, Topic, id) ELSE subs

(* One round of the autostart loop; a failed load does not end it.         *)
Autostart_StopsAtFailure ==
  /\ phase = "autostart" /\ todo # <<>>
  /\ \/ /\ Head(todo) \in ToSet(settings.autostart)
        /\ \E outcome \in env.outcomes :
             /\ LoadPlugin(Head(todo), outcome)
             /\ todo' = IF outcome = "ok" THEN Tail(todo) ELSE <<>>
     \/ /\ Head(todo) \notin ToSet(settings.autostart)
        /\ todo' = Tail(todo)
        /\ UNCHANGED <<host, docks, subs>>
  /\ UNCHANGED <<env, phase, configVars, events, panelVars, topicVars, linkVars,
                 replayVars>>

Autostart ==
  /\ phase = "autostart" /\ todo # <<>> /\ todo' = Tail(todo)
  /\ \/ /\ Head(todo) \in ToSet(settings.autostart)
        /\ \E outcome \in env.outcomes : LoadPlugin(Head(todo), outcome)
     \/ /\ Head(todo) \notin ToSet(settings.autostart)
        /\ UNCHANGED <<host, docks, subs>>
  /\ UNCHANGED <<env, phase, configVars, events, panelVars, topicVars, linkVars,
                 replayVars>>

(* The status that it also puts on the connection bar is EmitDummyStatus   *)
(* in MavlinkIO.                                                           *)
StartDummyTelemetry ==
  /\ phase = "autostart" /\ todo = <<>> /\ phase' = "running"
  /\ dummy' = settings.dummyEnabled
  /\ UNCHANGED <<env, configVars, pluginVars, events, panelVars, topicVars, link,
                 replayVars>>

-----------------------------------------------------------------------------
(* Telemetry *)

(* emitDummyTelemetry(): four fields of the state, each to its listener.   *)
DummyTick ==
  LET posts(kind) == Post(host.active, [kind |-> kind, value |-> Dummy])
  IN  /\ Running /\ dummy /\ Room(4)
      /\ vehicle' = [f \in Fields |-> IF f = "mission" THEN vehicle[f] ELSE Dummy]
      /\ events' = events \o posts("heartbeat") \o posts("attitude")
                           \o posts("position") \o posts("battery")
      /\ UNCHANGED <<idleVars, shown, alerts, texts, topicVars,
                     linkVars, replayVars>>

(* The dummy telemetry ends with the first request to connect, whether or  *)
(* not the socket can be bound.                                            *)
Connect ==
  /\ phase = "running"
  /\ dummy' = FALSE /\ link' \in {link, "up"}
  /\ UNCHANGED <<idleVars, events, panelVars, topicVars,
                 replayVars>>

(* A message posted to the parser.  Status texts are numbered, to tell     *)
(* them apart.                                                             *)
PostToParser(message) ==
  LET text == message.kind = "text"
  IN  /\ events' = Append(events, [to |-> "parser", kind |-> message.kind,
                                   value |-> IF text THEN texts + 1 ELSE message.value])
      /\ texts' = IF text THEN texts + 1 ELSE texts

(* A datagram with one message arrives at the thread of the link.  The     *)
(* parser loses it when the replay left it inside a frame.                 *)
Datagram ==
  /\ Running /\ link = "up" /\ Room(1)
  /\ \E message \in env.traffic :
       /\ message.kind = "text" => texts < env.texts
       /\ IF channel = InNoFrame THEN PostToParser(message) ELSE UNCHANGED <<events, texts>>
  /\ channel' = InNoFrame
  /\ UNCHANGED <<idleVars, vehicle, shown, alerts, topicVars, linkVars, replay, requests,
                 played, alone>>

DeliverMessage_Coalesces ==
  /\ Running /\ events # <<>> /\ Head(events).to = "parser"
  /\ vehicle' = Update(vehicle, Head(events))
  /\ LET posts == Post(host.active, Head(events))
         known == \E i \in DOMAIN events : events[i].to = "plugin" /\ events[i].kind = Head(events).kind
     IN  events' = Tail(events) \o (IF known THEN <<>> ELSE posts)
  /\ UNCHANGED <<idleVars, shown, alerts, texts, topicVars,
                 linkVars, replayVars>>

(* processMessage(), and the signals of the bus and of VehicleState.       *)
DeliverMessage ==
  /\ Running /\ events # <<>> /\ Head(events).to = "parser"
  /\ vehicle' = Update(vehicle, Head(events))
  /\ events' = Tail(events) \o Post(host.active, Head(events))
  /\ UNCHANGED <<idleVars, shown, alerts, texts, topicVars,
                 linkVars, replayVars>>

DeliverToPlugin ==
  /\ Running /\ events # <<>> /\ Head(events).to = "plugin"
  /\ events' = Tail(events)
  /\ IF Head(events).kind = "text"
       THEN /\ alerts' = Raise(alerts, Head(events).value, settings.maxItems)
            /\ UNCHANGED shown
       ELSE /\ shown' = Show(shown, Head(events))
            /\ UNCHANGED alerts
  /\ UNCHANGED <<idleVars, vehicle, texts, topicVars, linkVars,
                 replayVars>>

(* publishTileReadiness() of the map view.                                 *)
PublishReadiness ==
  /\ Running /\ env.tiles /\ "map_view" \in host.active /\ Room(1)
  /\ ready' \in {1, 2}
  /\ events' = Append(events, Publish(Topic, ready'))
  /\ UNCHANGED <<idleVars, panelVars, noted, linkVars,
                 replayVars>>

DispatchTopic ==
  /\ Running /\ events # <<>> /\ Head(events).to = "bus"
  /\ events' = Tail(events)
  /\ noted' = IF "recorder" \in Called(subs, Head(events).kind)
                THEN Head(events).value ELSE noted
  /\ UNCHANGED <<idleVars, panelVars, ready, linkVars,
                 replayVars>>

-----------------------------------------------------------------------------
(* Replay *)

(* onReplayRequested() loads a file and starts it, whatever was playing;   *)
(* after a file that cannot be opened nothing is started, nor stopped.     *)
RequestReplay ==
  /\ phase = "running" /\ requests < env.requests /\ requests' = requests + 1
  /\ \/ \E file \in env.files : replay' = Start(LoadFile(replay, file))
     \/ replay' = LoadFails(replay)
  /\ played' = {} /\ alone' = (channel = InNoFrame)
  /\ UNCHANGED <<idleVars, events, panelVars, topicVars, linkVars, channel>>

(* What a read that runs while the link thread feeds the same parser may   *)
(* come to: the end of any frame further on, or of the file.               *)
Garbled ==
  LET last == Len(replay.file)
  IN  IF link = "up"
        THEN {[pos |-> p, channel |-> InNoFrame, frame |-> replay.file[p][1]] :
                p \in {q \in replay.pos + 1 .. last : replay.file[q][2] = 2}}
             \union {[pos |-> last, channel |-> c, frame |-> 0] : c \in {channel, InNoFrame}}
        ELSE {}

Play(read, paused) ==
  /\ replay'  = [(IF paused THEN Pause(replay) ELSE replay) EXCEPT !.pos = read.pos]
  /\ channel' = read.channel
  /\ played'  = played \union ({read.frame} \ {0})
  /\ IF read.frame = 0 THEN UNCHANGED <<events, texts>> ELSE PostToParser(Recorded[read.frame])

(* onTick(), once a message at the speed the application asks for.         *)
ReplayTick ==
  /\ Running /\ replay.playing /\ Room(1)
  /\ \/ /\ AtEnd(replay)
        /\ replay' = Pause(replay)
        /\ UNCHANGED <<events, texts, channel, played, alone>>
     \/ /\ ~AtEnd(replay)
        /\ \/ /\ Play(ReadNext(replay, channel), ReadNext(replay, channel).frame = 0)
              /\ UNCHANGED alone
           \/ /\ \E read \in Garbled : Play(read, read.frame = 0)
              /\ alone' = FALSE
  /\ UNCHANGED <<idleVars, vehicle, shown, alerts, topicVars, linkVars, requests>>

(* step() and seek(), which no widget calls yet.                           *)
StepReplay ==
  /\ phase = "running" /\ env.seeks # {} /\ replay.open /\ Room(1)
  /\ \/ Play(ReadNext(replay, channel), FALSE) /\ UNCHANGED alone
     \/ (\E read \in Garbled : Play(read, FALSE)) /\ alone' = FALSE
  /\ UNCHANGED <<idleVars, vehicle, shown, alerts, topicVars, linkVars, requests>>

SeekReplay ==
  /\ phase = "running" /\ replay.open
  /\ requests < env.requests /\ requests' = requests + 1
  /\ \E pos \in env.seeks : pos <= Len(replay.file) /\ replay' = Seek(replay, pos)
  /\ alone' = FALSE
  /\ UNCHANGED <<idleVars, events, panelVars, topicVars, linkVars, channel, played>>

-----------------------------------------------------------------------------
(* Shutdown *)

(* unload() calls shutdown() and deletes the plugin, and with it its       *)
(* connections and the events posted to it.                                *)
UnloadPlugins_NoShutdown ==
  /\ host' = UnloadAll(host)
  /\ events' = Only(events, {event \in ToSet(events) : event.to # "plugin"})
  /\ subs' = subs

UnloadPlugins ==
  /\ host' = UnloadAll(host)
  /\ events' = Only(events, {event \in ToSet(events) : event.to # "plugin"})
  /\ subs' = IF "recorder" \in host.active THEN Unsubscribe(subs, Topic, "recorder") ELSE subs

(* closeEvent(), onShutdown(): the timers of the application go on until   *)
(* its event loop has noticed that no window is left.                      *)
CloseWindow ==
  /\ phase = "running" /\ phase' = "closing"
  /\ UnloadPlugins /\ link' = "down"
  /\ UNCHANGED <<env, configVars, todo, docks, panelVars, topicVars, dummy, replayVars>>

Exit ==
  /\ phase = "closing" /\ phase' = "gone"
  /\ dummy' = FALSE /\ replay' = NewReplay /\ events' = <<>>
  /\ UNCHANGED <<env, configVars, pluginVars, panelVars, topicVars, link, channel,
                 requests, played, alone>>

Gone == phase = "gone" /\ UNCHANGED vars

-----------------------------------------------------------------------------
StartUp ==
  \/ LoadConfiguration \/ MigrateConfiguration \/ ValidateConfiguration
  \/ DiscoverPlugins \/ Autostart \/ StartDummyTelemetry

Deliver == DeliverMessage \/ DeliverToPlugin \/ DispatchTopic

User == Connect \/ RequestReplay \/ StepReplay \/ SeekReplay \/ CloseWindow

Next == \/ StartUp \/ Deliver \/ User
        \/ DummyTick \/ Datagram \/ PublishReadiness \/ ReplayTick \/ Exit \/ Gone

Spec == Init /\ [][Next]_vars

(* The event loop serves posted events and its timers in turn.  Fairness   *)
(* of the tick is strong because of MaxQueue, which is the model's: in the *)
(* program a long queue does not keep a timer from posting.                *)
FairSpec == Spec /\ WF_vars(Deliver) /\ SF_vars(ReplayTick)

-----------------------------------------------------------------------------
(* Properties *)

(* The main thread handles records of three kinds; the queue, the panels   *)
(* and the replay keep within their bounds.                                *)
TypeOK ==
  /\ phase \in {"start", "loaded", "migrated", "validated", "autostart", "running",
                "closing", "gone"}
  /\ host.active \subseteq host.registry
  /\ Len(events) <= MaxQueue
  /\ \A i \in DOMAIN events : events[i].to \in {"parser", "plugin", "bus"}
  /\ DOMAIN vehicle = Fields /\ DOMAIN shown = Displayed
  /\ replay.pos \in 0 .. Len(replay.file) /\ (replay.file # <<>> => replay.open)

(* Whatever the document holds, what start-up reads of m_config is in the  *)
(* range the code that uses it expects: application.cpp takes each value   *)
(* with toInt() or toBool() and checks none of them again.                 *)
SettingsInRange == phase = "validated" => InRange(settings)

(* Migration and validation together lose nothing the user wrote: every    *)
(* value the schema accepts and every key it does not know, at each level  *)
(* of nesting, reaches m_config as it was.  Only configVersion, which      *)
(* migration is there to change, is left out.                              *)
SettingsSurvive ==
  phase = "validated" =>
    Keeps(Schema, [k \in DOMAIN doc \ {"configVersion"} |-> doc[k]], config, TopKept)

(* A plugin that fails to load, at whatever step, keeps no other from      *)
(* being loaded: after the autostart loop each plugin that was found and   *)
(* asked for has exactly one panel in the main window, also when it lies   *)
(* in two of the search paths, or it has failed; no other plugin has one.  *)
FailuresIsolated ==
  phase = "running" =>
    LET asked == ToSet(settings.autostart) \intersect host.registry
    IN  /\ ToSet(docks) = host.active /\ IsInjective(docks)
        /\ host.active \subseteq asked /\ asked \subseteq host.active \union host.failed

(* Nothing is left to call a plugin that has been unloaded: no event is    *)
(* posted to it and no subscription of the bus names it; after the window  *)
(* was closed no plugin is active and the link is down, while the timers   *)
(* of the application still run.                                           *)
OnlyLivePluginsAreCalled ==
  /\ \A sub \in subs : sub[2] \in host.active
  /\ \A i \in DOMAIN events :
       events[i].to = "plugin" => ListenerOf[events[i].kind] \in host.active
  /\ phase \in {"closing", "gone"} => host.active = {} /\ link = "down"

(* A listener that knows `known' will know `value' once the queue has been *)
(* served.                                                                 *)
WillKnow(to, kind, known, value) ==
  LET queued == {i \in DOMAIN events : events[i].to = to /\ events[i].kind = kind}
  IN  \/ queued = {} /\ known = value
      \/ \E i \in queued : events[i].value = value /\ \A j \in queued : j <= i

(* The panels agree with VehicleState, in the fields they display, as soon *)
(* as the events posted to them are served, however messages of the link,  *)
(* the replay and the dummy telemetry were mixed; a charge the battery     *)
(* does not know is never shown.  A subscriber agrees with the last        *)
(* publication likewise.                                                   *)
PanelsCatchUp ==
  phase = "running" =>
    /\ \A f \in Displayed :
         ListenerOf[f] \in host.active =>
           \/ WillKnow("plugin", f, shown[f], vehicle[f])
           \/ f = "battery" /\ vehicle[f] = Unknown
    /\ shown["battery"] # Unknown
    /\ "recorder" \in host.active => WillKnow("bus", Topic, noted, ready)

(* The texts among the events posted to the parser, or to a plugin.        *)
Texts(to) ==
  [i \in DOMAIN events |->
     IF events[i].to = to /\ events[i].kind = "text" THEN events[i].value ELSE 0]

(* The newest texts up to the `served'th, as many as the console may hold. *)
Newest(served, maxItems) ==
  LET n == IF served < maxItems THEN served ELSE maxItems
  IN  [i \in 1 .. n |-> served - n + i]

(* The alert console shows the newest alerts, in the order they were sent, *)
(* as many as it may hold; those posted to it follow, and after them those *)
(* posted to the parser, up to the last text received: none is lost, shown *)
(* twice or overtaken on its way through two queued connections.           *)
AlertsInOrder ==
  phase = "running" /\ "alert_console" \in host.active =>
    \E served, parsed \in 0 .. texts :
      /\ alerts = Newest(served, settings.maxItems)
      /\ Numbered(Texts("plugin"), served + 1, parsed)
      /\ Numbered(Texts("parser"), parsed + 1, texts)

(* A replay that neither a seek nor another reader of the parser has       *)
(* disturbed replays each whole frame up to its position, and nothing      *)
(* else, also when it takes over from a replay that was still playing, and *)
(* when the file begins or ends inside a frame.                            *)
ReplayComplete ==
  alone /\ replay.open => played = WholeFrames(replay.file, replay.pos)

(* A replay that plays comes to an end: at the end of the file, whatever   *)
(* the parser makes of its bytes, and also when another file that was      *)
(* asked for meanwhile cannot be opened.                                   *)
PlaybackEnds == replay.playing ~> ~replay.playing
=============================================================================
