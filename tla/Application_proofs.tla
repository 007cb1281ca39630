------------------------- MODULE Application_proofs -------------------------
(***************************************************************************)
(* What holds of the application for every configuration file, every set   *)
(* of plugins, every traffic and every recording.                          *)
(***************************************************************************)
EXTENDS Application, Config_proofs, Queues_proofs, SequenceTheorems

Kinds == STRING \union Fields \union {Topic}
Event == [to : {"parser", "plugin", "bus"}, kind : Kinds, value : Int]

Early == phase \in {"start", "loaded", "migrated", "validated"}
Asked == ToSet(settings.autostart) \intersect host.registry

(* m_config is the document of the file, as far as start-up has come.      *)
ConfigInv ==
  /\ Document(doc)
  /\ phase = "loaded" => config = doc
  /\ phase = "migrated" => config = Migrate(doc, CurrentVersion)
  /\ phase \notin {"start", "loaded", "migrated"} =>
       config = Validate(Migrate(doc, CurrentVersion))

TypeInv ==
  /\ phase \in {"start", "loaded", "migrated", "validated", "autostart", "running",
                "closing", "gone"}
  /\ \E start \in Starts : env = start.env
  /\ vehicle \in [Fields -> Int] /\ shown \in [Displayed -> Int]
  /\ texts \in Nat /\ ready \in Int /\ noted \in Int

Replays == [open : BOOLEAN, file : Seq(Halves), pos : Nat, playing : BOOLEAN]

ReplayType ==
  /\ replay \in Replays /\ Recording(replay.file)
  /\ replay.pos <= Len(replay.file) /\ (replay.file # <<>> => replay.open)

(* Every plugin asked for is loaded, has failed or is still to come.       *)
HostInv ==
  /\ host \in [registry : SUBSET STRING, active : SUBSET STRING, failed : SUBSET STRING]
  /\ host.active \subseteq host.registry
  /\ todo \in Seq(STRING) /\ ToSet(todo) \subseteq host.registry
  /\ docks \in Seq(STRING)
  /\ subs = IF "recorder" \in host.active THEN {<<Topic, "recorder">>} ELSE {}
  /\ Early => host = NewHost /\ docks = <<>>
  /\ phase \in {"autostart", "running"} =>
       /\ ToSet(docks) = host.active /\ IsInjective(docks)
       /\ host.active \subseteq Asked
       /\ Asked \subseteq host.active \union host.failed \union ToSet(todo)
  /\ phase = "running" => todo = <<>>
  /\ phase \in {"closing", "gone"} => host.active = {}

(* Nothing happens before the event loop runs.                             *)
QuietInv ==
  ~Running /\ phase # "gone" =>
    /\ events = <<>> /\ vehicle = NewVehicle /\ shown = NewPanels
    /\ alerts = <<>> /\ texts = 0 /\ ready = 0 /\ noted = 0

LinkInv == phase # "running" => link = "down"

(* Between two reads an undisturbed replay stands at a frame.              *)
ReplayInv ==
  alone /\ replay.open =>
    /\ played = WholeFrames(replay.file, replay.pos)
    /\ \/ replay.pos = Len(replay.file)
       \/ channel = InNoFrame /\ (replay.pos = 0 \/ replay.file[replay.pos][2] = 2)

-----------------------------------------------------------------------------
(* Start-up, the closing of the window and the exit apart, a step leaves   *)
(* the phase, the configuration and the plugins alone.                     *)
LEMMA IdleStep ==
  ASSUME [Next]_vars
  PROVE  StartUp \/ CloseWindow \/ Exit \/ UNCHANGED idleVars
  <1>1. CASE Deliver
    BY <1>1 DEF Deliver, DeliverMessage, DeliverToPlugin, DispatchTopic
  <1>2. CASE User
    BY <1>2 DEF User, Connect, RequestReplay, StepReplay, SeekReplay
  <1>3. CASE DummyTick \/ Datagram \/ PublishReadiness \/ ReplayTick
    BY <1>3 DEF DummyTick, Datagram, PublishReadiness, ReplayTick
  <1>4. CASE Gone \/ UNCHANGED vars
    BY <1>4 DEF Gone, vars
  <1> QED  BY <1>1, <1>2, <1>3, <1>4 DEF Next

LEMMA ConfigInit ==
  ASSUME Init
  PROVE  ConfigInv
  BY StartsAssumption DEF Init, ConfigInv

LEMMA ConfigStep ==
  ASSUME ConfigInv, [Next]_vars
  PROVE  ConfigInv'
  <1>1. CASE LoadConfiguration
    BY <1>1, EmptyIs DEF LoadConfiguration, ConfigInv, Document
  <1>2. CASE MigrateConfiguration
    BY <1>2 DEF MigrateConfiguration, ConfigInv
  <1>3. CASE ValidateConfiguration
    BY <1>3 DEF ValidateConfiguration, ConfigInv
  <1>4. CASE DiscoverPlugins \/ Autostart \/ StartDummyTelemetry
    BY <1>4 DEF DiscoverPlugins, Autostart, StartDummyTelemetry, ConfigInv, configVars
  <1>5. CASE CloseWindow \/ Exit
    BY <1>5 DEF CloseWindow, Exit, ConfigInv, configVars
  <1>6. CASE UNCHANGED idleVars
    BY <1>6 DEF idleVars, configVars, ConfigInv
  <1> QED  BY <1>1, <1>2, <1>3, <1>4, <1>5, <1>6, IdleStep DEF StartUp

LEMMA ConfigHolds == Spec => []ConfigInv
  BY ConfigInit, ConfigStep, PTL DEF Spec

LEMMA SettingsHold ==
  ASSUME ConfigInv, phase \notin {"start", "loaded", "migrated"}
  PROVE  InRange(settings)
  BY SettingsAreInRange, MigrateIsDocument DEF ConfigInv, settings

(* What start-up reads is in the range its readers expect, whatever the    *)
(* configuration file holds (ConfigValidator, ConfigMigrator).             *)
THEOREM SettingsAlwaysInRange == Spec => []SettingsInRange
  <1>1. ConfigInv => SettingsInRange
    BY SettingsHold DEF SettingsInRange
  <1> QED  BY <1>1, ConfigHolds, PTL

(* Migration and validation lose nothing the user wrote.                   *)
THEOREM SettingsAlwaysSurvive == Spec => []SettingsSurvive
  <1>1. ConfigInv => SettingsSurvive
    BY DocumentIsKept DEF ConfigInv, SettingsSurvive
  <1> QED  BY <1>1, ConfigHolds, PTL
-----------------------------------------------------------------------------
(* The plugins.                                                            *)
LEMMA ToSetIs ==
  ASSUME NEW S, NEW q \in Seq(S)
  PROVE  /\ ToSet(q) \subseteq S
         /\ q # <<>> => /\ Head(q) \in S /\ Tail(q) \in Seq(S)
                        /\ ToSet(q) = ToSet(Tail(q)) \union {Head(q)}
         /\ \A x \in S : /\ Append(q, x) \in Seq(S)
                         /\ ToSet(Append(q, x)) = ToSet(q) \union {x}
                         /\ IsInjective(q) /\ x \notin ToSet(q) => IsInjective(Append(q, x))
  <1>1. ToSet(q) \subseteq S
    BY DEF ToSet
  <1>2. ASSUME q # <<>>
        PROVE  /\ Head(q) \in S /\ Tail(q) \in Seq(S)
               /\ ToSet(q) = ToSet(Tail(q)) \union {Head(q)}
    <2> DEFINE r == Tail(q)
    <2>1. /\ Head(q) \in S /\ Head(q) = q[1] /\ 1 \in 1 .. Len(q)
          /\ r \in Seq(S) /\ Len(q) = Len(r) + 1 /\ Len(r) \in Nat
          /\ \A i \in 1 .. Len(r) : i + 1 \in 1 .. Len(q) /\ r[i] = q[i + 1]
          /\ DOMAIN q = 1 .. Len(q) /\ DOMAIN r = 1 .. Len(r)
      BY <1>2
    <2> HIDE DEF r
    <2>2. \A i \in 1 .. Len(q) : i # 1 => i - 1 \in 1 .. Len(r) /\ q[i] = r[i - 1]
      <3> SUFFICES ASSUME NEW i \in 1 .. Len(q), i # 1
                   PROVE  i - 1 \in 1 .. Len(r) /\ q[i] = r[i - 1]
        OBVIOUS
      <3>1. i - 1 \in 1 .. Len(r) /\ (i - 1) + 1 = i
        BY <2>1
      <3> QED  BY <2>1, <3>1
    <2>3. ToSet(q) \subseteq ToSet(r) \union {Head(q)}
      <3> SUFFICES ASSUME NEW i \in 1 .. Len(q)
                   PROVE  q[i] = Head(q) \/ \E j \in 1 .. Len(r) : q[i] = r[j]
        BY <2>1 DEF ToSet
      <3> QED  BY <2>1, <2>2
    <2>4. ToSet(r) \subseteq ToSet(q)
      BY <2>1 DEF ToSet
    <2>5. Head(q) \in ToSet(q)
      BY <1>2, <2>1 DEF ToSet
    <2> QED  BY <2>1, <2>3, <2>4, <2>5 DEF r
  <1>3. ASSUME NEW x \in S
        PROVE  /\ Append(q, x) \in Seq(S)
               /\ ToSet(Append(q, x)) = ToSet(q) \union {x}
               /\ IsInjective(q) /\ x \notin ToSet(q) => IsInjective(Append(q, x))
    <2> DEFINE r == Append(q, x)
    <2>1. /\ r \in Seq(S) /\ Len(r) = Len(q) + 1 /\ r[Len(q) + 1] = x /\ Len(q) \in Nat
          /\ \A i \in 1 .. Len(q) : r[i] = q[i] /\ i \in 1 .. Len(r)
          /\ DOMAIN q = 1 .. Len(q) /\ DOMAIN r = 1 .. Len(r)
      OBVIOUS
    <2> HIDE DEF r
    <2>2. \A i \in 1 .. Len(r) : i \in 1 .. Len(q) \/ i = Len(q) + 1
      BY <2>1
    <2>3. ToSet(r) = ToSet(q) \union {x}
      <3>1. ToSet(r) \subseteq ToSet(q) \union {x}
        BY <2>1, <2>2 DEF ToSet
      <3>2. ToSet(q) \subseteq ToSet(r)
        BY <2>1 DEF ToSet
      <3>3. x \in ToSet(r)
        BY <2>1 DEF ToSet
      <3> QED  BY <3>1, <3>2, <3>3
    <2>4. IsInjective(q) /\ x \notin ToSet(q) => IsInjective(r)
      BY <2>1, <2>2 DEF IsInjective, ToSet
    <2> QED  BY <2>1, <2>3, <2>4 DEF r
  <1> QED  BY <1>1, <1>2, <1>3

LEMMA HostInit ==
  ASSUME Init
  PROVE  HostInv
  <1>1. /\ host = NewHost /\ todo = <<>> /\ docks = <<>> /\ subs = {} /\ phase = "start"
    BY DEF Init, NoSubscriptions
  <1>2. /\ host \in [registry : SUBSET STRING, active : SUBSET STRING, failed : SUBSET STRING]
        /\ host.active = {}
    BY <1>1 DEF NewHost
  <1>3. ToSet(todo) = {} /\ todo \in Seq(STRING) /\ docks \in Seq(STRING)
    BY <1>1 DEF ToSet
  <1> QED  BY <1>1, <1>2, <1>3 DEF HostInv, Early

LEMMA HostDiscover ==
  ASSUME TypeInv, HostInv, DiscoverPlugins
  PROVE  HostInv'
  <1>1. PICK files \in env.found :
          todo' = Discover(files) /\ host' = Register(host, Discover(files))
    BY DEF DiscoverPlugins
  <1>2. files \in Seq(STRING)
    BY StartsAssumption DEF TypeInv
  <1>3. todo' \in Seq(STRING)
    BY <1>1, <1>2, OnlyKeeps DEF Discover
  <1>4. ToSet(todo') \subseteq STRING
    BY <1>3, ToSetIs
  <1>5. host = NewHost /\ docks = <<>> /\ phase = "validated"
    BY DEF DiscoverPlugins, HostInv, Early
  <1>6. host' = [registry |-> ToSet(todo'), active |-> {}, failed |-> {}]
    BY <1>1, <1>5 DEF Register, NewHost
  <1>7. phase' = "autostart" /\ docks' = <<>> /\ subs' = subs /\ settings' = settings
    BY <1>5 DEF DiscoverPlugins, configVars, settings
  <1>8. subs = {}
    BY <1>5 DEF HostInv, NewHost
  <1>9. ToSet(docks') = {} /\ IsInjective(docks') /\ docks' \in Seq(STRING)
    BY <1>7 DEF ToSet, IsInjective
  <1> QED  BY <1>3, <1>4, <1>6, <1>7, <1>8, <1>9 DEF HostInv, Early, Asked

LEMMA HostLoad ==
  ASSUME HostInv, NEW id \in STRING, NEW outcome, LoadPlugin(id, outcome),
         phase = "autostart", id \in host.registry
  PROVE  /\ host' \in [registry : SUBSET STRING, active : SUBSET STRING, failed : SUBSET STRING]
         /\ host'.registry = host.registry
         /\ host.active \subseteq host'.active /\ host.failed \subseteq host'.failed
         /\ id \in host'.active \union host'.failed
         /\ host'.active \subseteq host.active \union {id}
         /\ docks' \in Seq(STRING) /\ ToSet(docks') = host'.active /\ IsInjective(docks')
         /\ subs' = IF "recorder" \in host'.active THEN {<<Topic, "recorder">>} ELSE {}
  <1>1. /\ host \in [registry : SUBSET STRING, active : SUBSET STRING, failed : SUBSET STRING]
        /\ docks \in Seq(STRING) /\ ToSet(docks) = host.active /\ IsInjective(docks)
        /\ subs = IF "recorder" \in host.active THEN {<<Topic, "recorder">>} ELSE {}
    BY DEF HostInv
  <1>2. /\ host' = Load(host, id, outcome)
        /\ docks' = IF Announces(host, id, outcome) THEN OnPluginLoaded(host', id) ELSE docks
        /\ subs' = IF id = "recorder" /\ Announces(host, id, outcome)
                     THEN Subscribe(subs, Topic, id) ELSE subs
    BY DEF LoadPlugin
  <1>3. CASE Announces(host, id, outcome)
    <2>1. id \notin host.active
      BY <1>3 DEF Announces
    <2>2. host' = [host EXCEPT !.active = @ \union {id}]
      BY <1>2, <1>3, <2>1 DEF Load
    <2>3. /\ host'.active = host.active \union {id} /\ host'.registry = host.registry
          /\ host'.failed = host.failed
          /\ host' \in [registry : SUBSET STRING, active : SUBSET STRING, failed : SUBSET STRING]
      BY <1>1, <2>2
    <2>4. docks' = Append(docks, id)
      BY <1>1, <1>2, <1>3, <2>1, <2>3 DEF OnPluginLoaded, Inject
    <2>5. docks' \in Seq(STRING) /\ ToSet(docks') = host'.active /\ IsInjective(docks')
      BY <1>1, <2>1, <2>3, <2>4, ToSetIs
    <2>6. subs' = IF "recorder" \in host'.active THEN {<<Topic, "recorder">>} ELSE {}
      BY <1>1, <1>2, <1>3, <2>1, <2>3 DEF Subscribe
    <2> QED  BY <2>3, <2>5, <2>6
  <1>4. CASE ~Announces(host, id, outcome) /\ id \in host.active
    <2>1. host' = host /\ docks' = docks /\ subs' = subs
      BY <1>2, <1>4 DEF Load
    <2> QED  BY <1>1, <1>4, <2>1
  <1>5. CASE ~Announces(host, id, outcome) /\ id \notin host.active
    <2>1. host' = [host EXCEPT !.failed = @ \union {id}] /\ docks' = docks /\ subs' = subs
      BY <1>2, <1>5 DEF Load
    <2>2. /\ host'.failed = host.failed \union {id} /\ host'.registry = host.registry
          /\ host'.active = host.active
          /\ host' \in [registry : SUBSET STRING, active : SUBSET STRING, failed : SUBSET STRING]
      BY <1>1, <2>1
    <2> QED  BY <1>1, <2>1, <2>2
  <1> QED  BY <1>3, <1>4, <1>5

LEMMA HostAutostart ==
  ASSUME HostInv, Autostart
  PROVE  HostInv'
  <1> DEFINE id == Head(todo)
  <1>1. /\ phase = "autostart" /\ phase' = "autostart" /\ todo # <<>> /\ todo' = Tail(todo)
        /\ settings' = settings
    BY DEF Autostart, configVars, settings
  <1>2. /\ todo \in Seq(STRING) /\ ToSet(todo) \subseteq host.registry
        /\ host.active \subseteq host.registry
        /\ host.active \subseteq Asked /\ Asked \subseteq host.active \union host.failed \union ToSet(todo)
    BY <1>1 DEF HostInv
  <1>3. id \in STRING /\ todo' \in Seq(STRING) /\ ToSet(todo) = ToSet(todo') \union {id}
    BY <1>1, <1>2, ToSetIs
  <1>4. id \in host.registry
    BY <1>2, <1>3
  <1> HIDE DEF id
  <1>5. CASE id \in ToSet(settings.autostart) /\ \E outcome \in env.outcomes : LoadPlugin(id, outcome)
    <2>1. PICK outcome : LoadPlugin(id, outcome)
      BY <1>5
    <2>2. /\ host' \in [registry : SUBSET STRING, active : SUBSET STRING, failed : SUBSET STRING]
          /\ host'.registry = host.registry
          /\ host.active \subseteq host'.active /\ host.failed \subseteq host'.failed
          /\ id \in host'.active \union host'.failed
          /\ host'.active \subseteq host.active \union {id}
          /\ docks' \in Seq(STRING) /\ ToSet(docks') = host'.active /\ IsInjective(docks')
          /\ subs' = IF "recorder" \in host'.active THEN {<<Topic, "recorder">>} ELSE {}
      BY <1>1, <1>3, <1>4, <2>1, HostLoad
    <2>3. Asked' = Asked
      BY <1>1, <2>2 DEF Asked
    <2>4. id \in Asked
      BY <1>4, <1>5 DEF Asked
    <2>5. host'.active \subseteq host'.registry /\ ToSet(todo') \subseteq host'.registry
      BY <1>2, <1>3, <1>4, <2>2
    <2>6. host'.active \subseteq Asked'
      BY <1>2, <2>2, <2>3, <2>4
    <2>7. Asked' \subseteq host'.active \union host'.failed \union ToSet(todo')
      BY <1>2, <1>3, <2>2, <2>3
    <2> QED  BY <1>1, <1>3, <2>2, <2>5, <2>6, <2>7 DEF HostInv, Early
  <1>6. CASE id \notin ToSet(settings.autostart) /\ UNCHANGED <<host, docks, subs>>
    <2>1. Asked' = Asked /\ id \notin Asked
      BY <1>1, <1>6 DEF Asked
    <2>2. Asked' \subseteq host'.active \union host'.failed \union ToSet(todo')
      BY <1>2, <1>3, <1>6, <2>1
    <2>3. ToSet(todo') \subseteq host'.registry
      BY <1>2, <1>3, <1>6
    <2> QED  BY <1>1, <1>2, <1>3, <1>6, <2>1, <2>2, <2>3 DEF HostInv, Early
  <1> QED  BY <1>5, <1>6 DEF Autostart, id

LEMMA HostStep ==
  ASSUME TypeInv, HostInv, [Next]_vars
  PROVE  HostInv'
  <1>1. CASE LoadConfiguration \/ MigrateConfiguration \/ ValidateConfiguration
    BY <1>1 DEF LoadConfiguration, MigrateConfiguration, ValidateConfiguration, HostInv, Early,
                pluginVars
  <1>2. CASE DiscoverPlugins
    BY <1>2, HostDiscover
  <1>3. CASE Autostart
    BY <1>3, HostAutostart
  <1>4. CASE StartDummyTelemetry
    BY <1>4 DEF StartDummyTelemetry, HostInv, Early, Asked, settings, configVars, pluginVars
  <1>5. CASE CloseWindow
    <2>1. /\ phase' = "closing" /\ host' = [host EXCEPT !.active = {}] /\ docks' = docks /\ todo' = todo
          /\ subs' = IF "recorder" \in host.active THEN Unsubscribe(subs, Topic, "recorder") ELSE subs
      BY <1>5 DEF CloseWindow, UnloadPlugins, UnloadAll
    <2>2. /\ host' \in [registry : SUBSET STRING, active : SUBSET STRING, failed : SUBSET STRING]
          /\ host'.active = {} /\ host'.registry = host.registry
      BY <2>1 DEF HostInv
    <2>3. subs' = {}
      BY <2>1 DEF HostInv, Unsubscribe
    <2> QED  BY <2>1, <2>2, <2>3 DEF HostInv, Early
  <1>6. CASE Exit
    BY <1>6 DEF Exit, HostInv, Early, pluginVars
  <1>7. CASE UNCHANGED idleVars
    BY <1>7 DEF idleVars, pluginVars, configVars, HostInv, Early, Asked, settings
  <1> QED  BY <1>1, <1>2, <1>3, <1>4, <1>5, <1>6, <1>7, IdleStep DEF StartUp
-----------------------------------------------------------------------------
(* The replay.                                                             *)
LEMMA ReplayOperations ==
  ASSUME NEW r \in Replays
  PROVE  /\ \A pos \in Nat : LET s == [r EXCEPT !.pos = pos]
                             IN  s \in Replays /\ s.pos = pos /\ s.file = r.file /\ s.open = r.open
         /\ Pause(r) \in Replays /\ Pause(r).pos = r.pos /\ Pause(r).file = r.file
         /\ Pause(r).open = r.open
  BY DEF Replays, Pause

LEMMA ReplayLoads ==
  ASSUME NEW r \in Replays
  PROVE  /\ \A file \in Seq(Halves) :
              LET s == Start(LoadFile(r, file))
              IN  s \in Replays /\ s.pos = 0 /\ s.file = file /\ s.open
         /\ LET s == LoadFails(r)
            IN  s \in Replays /\ s.pos = 0 /\ s.file = <<>> /\ ~s.open
  <1>1. ASSUME NEW file \in Seq(Halves)
        PROVE  LET s == Start(LoadFile(r, file))
               IN  s \in Replays /\ s.pos = 0 /\ s.file = file /\ s.open
    <2> DEFINE l == LoadFile(r, file)
    <2>1. l \in Replays /\ l.pos = 0 /\ l.file = file /\ l.open
      BY DEF Replays, LoadFile
    <2> HIDE DEF l
    <2> QED  BY <2>1 DEF Start, Replays, l
  <1>2. LET s == LoadFails(r)
        IN  s \in Replays /\ s.pos = 0 /\ s.file = <<>> /\ ~s.open
    <2> DEFINE none == <<>>
    <2>1. none \in Seq(Halves) /\ 0 \in Nat
      OBVIOUS
    <2> HIDE DEF none
    <2>2. LET s == [r EXCEPT !.open = FALSE, !.file = none, !.pos = 0]
          IN  s \in Replays /\ s.pos = 0 /\ s.file = none /\ ~s.open
      BY <2>1 DEF Replays
    <2> QED  BY <2>2 DEF LoadFails, none
  <1> QED  BY <1>1, <1>2

(* readNextMessage() stops behind the position, at a frame of the file or  *)
(* at its end.                                                             *)
LEMMA ReadNextStops ==
  ASSUME NEW r \in Replays, r.pos <= Len(r.file), NEW c
  PROVE  LET read == ReadNext(r, c)
         IN  /\ read.pos \in r.pos .. Len(r.file)
             /\ read.frame = 0 \/ read.frame \in DOMAIN Recorded
  <1> DEFINE file == r.file
             last == Len(file)
             at   == CHOOSE at : at = [p \in r.pos .. last |->
                       IF p = r.pos THEN c ELSE Feed(at[p - 1], file[p])]
             ends == {p \in r.pos + 1 .. last : Completes(at[p - 1], file[p])}
             stop == IF ends = {} THEN last ELSE Min(ends)
  <1>1. ReadNext(r, c) = [pos |-> stop, channel |-> at[stop],
                          frame |-> IF ends = {} THEN 0 ELSE file[stop][1]]
    BY DEF ReadNext
  <1>2. r.pos \in Nat /\ file \in Seq(Halves) /\ last \in Nat /\ r.pos <= last
    BY DEF Replays
  <1> HIDE DEF at
  <1>3. ends \subseteq r.pos + 1 .. last /\ ends \in SUBSET Nat
    BY <1>2
  <1> HIDE DEF ends
  <1>4. ends # {} => stop \in ends
    <2>1. ends # {} => \E n \in ends : \A m \in ends : n <= m
      BY <1>3, LeastOf
    <2> QED  BY <2>1 DEF Min
  <1>5. stop \in r.pos .. last
    <2>1. CASE ends = {}
      <3>1. stop = last
        BY <2>1
      <3> HIDE DEF stop
      <3> QED  BY <1>2, <3>1
    <2>2. CASE ends # {}
      <3>1. stop \in r.pos + 1 .. last
        BY <1>3, <1>4, <2>2
      <3> HIDE DEF stop
      <3> QED  BY <1>2, <3>1
    <2> QED  BY <2>1, <2>2
  <1>6. ends # {} => file[stop][1] \in DOMAIN Recorded
    <2>1. ends # {} => file[stop] \in Halves
      <3>1. ends # {} => stop \in r.pos + 1 .. last
        BY <1>3, <1>4
      <3> HIDE DEF stop
      <3> QED  BY <1>2, <3>1
    <2> QED  BY <2>1 DEF Halves
  <1> HIDE DEF stop
  <1> QED  BY <1>1, <1>5, <1>6

LEMMA GarbledStops ==
  ASSUME ReplayType, NEW read \in Garbled
  PROVE  /\ read.pos \in replay.pos .. Len(replay.file)
         /\ read.frame = 0 \/ read.frame \in DOMAIN Recorded
  <1>1. replay.pos \in Nat /\ replay.file \in Seq(Halves) /\ replay.pos <= Len(replay.file)
    BY DEF ReplayType, Replays
  <1>2. \/ \E p \in replay.pos + 1 .. Len(replay.file) :
             read.pos = p /\ read.frame = replay.file[p][1]
        \/ read.pos = Len(replay.file) /\ read.frame = 0
    BY DEF Garbled
  <1>3. \A p \in replay.pos + 1 .. Len(replay.file) : replay.file[p] \in Halves
    BY <1>1
  <1>4. \A p \in replay.pos + 1 .. Len(replay.file) : replay.file[p][1] \in DOMAIN Recorded
    BY <1>3 DEF Halves
  <1> QED  BY <1>1, <1>2, <1>4

LEMMA ReplayTypeInit ==
  ASSUME Init
  PROVE  ReplayType
  BY DEF Init, NewReplay, ReplayType, Replays, Recording

LEMMA PlayKeepsType ==
  ASSUME ReplayType, replay.open, NEW read, NEW paused \in BOOLEAN, Play(read, paused),
         read.pos \in replay.pos .. Len(replay.file)
  PROVE  ReplayType' /\ replay'.pos = read.pos /\ replay'.file = replay.file /\ replay'.open
  <1> DEFINE r == IF paused THEN Pause(replay) ELSE replay
  <1>1. r \in Replays /\ r.file = replay.file /\ r.open = replay.open
    BY ReplayOperations DEF ReplayType
  <1>2. read.pos \in Nat
    BY DEF ReplayType, Replays
  <1>3. replay' = [r EXCEPT !.pos = read.pos]
    BY DEF Play
  <1> HIDE DEF r
  <1>4. replay' \in Replays /\ replay'.pos = read.pos /\ replay'.file = r.file /\ replay'.open = r.open
    BY <1>1, <1>2, <1>3, ReplayOperations
  <1> QED  BY <1>1, <1>4 DEF ReplayType, Recording

LEMMA ReplayTypeStep ==
  ASSUME TypeInv, ReplayType, [Next]_vars
  PROVE  ReplayType'
  <1>1. CASE UNCHANGED replay
    BY <1>1 DEF ReplayType
  <1>2. CASE RequestReplay
    <2>1. CASE replay' = LoadFails(replay)
      <3>1. replay' \in Replays /\ replay'.pos = 0 /\ replay'.file = <<>>
        BY <2>1, ReplayLoads DEF ReplayType
      <3>2. Recording(<<>>) /\ Len(<<>>) = 0
        BY DEF Recording
      <3> QED  BY <3>1, <3>2 DEF ReplayType
    <2>2. ASSUME NEW file \in env.files, replay' = Start(LoadFile(replay, file))
          PROVE  ReplayType'
      <3>1. Recording(file) /\ file \in Seq(Halves)
        BY StartsAssumption DEF TypeInv, Recording
      <3>2. replay' \in Replays /\ replay'.pos = 0 /\ replay'.file = file /\ replay'.open
        BY <2>2, <3>1, ReplayLoads DEF ReplayType
      <3> QED  BY <3>1, <3>2 DEF ReplayType
    <2> QED  BY <1>2, <2>1, <2>2 DEF RequestReplay
  <1>3. CASE StepReplay
    <2>1. PICK read : /\ Play(read, FALSE) /\ replay.open
                      /\ read = ReadNext(replay, channel) \/ read \in Garbled
      BY <1>3 DEF StepReplay
    <2>2. read.pos \in replay.pos .. Len(replay.file)
      BY <2>1, ReadNextStops, GarbledStops DEF ReplayType
    <2> QED  BY <2>1, <2>2, PlayKeepsType
  <1>4. CASE ReplayTick
    <2>1. CASE replay' = Pause(replay)
      BY <2>1, ReplayOperations DEF ReplayType
    <2>2. ASSUME ~AtEnd(replay), NEW read, NEW paused \in BOOLEAN, Play(read, paused),
                 read = ReadNext(replay, channel) \/ read \in Garbled
          PROVE  ReplayType'
      <3>1. replay.open
        BY <2>2 DEF AtEnd
      <3>2. read.pos \in replay.pos .. Len(replay.file)
        BY <2>2, ReadNextStops, GarbledStops DEF ReplayType
      <3> QED  BY <2>2, <3>1, <3>2, PlayKeepsType
    <2> QED  BY <1>4, <2>1, <2>2 DEF ReplayTick
  <1>5. CASE SeekReplay
    <2>1. PICK pos \in env.seeks : pos <= Len(replay.file) /\ replay' = Seek(replay, pos)
      BY <1>5 DEF SeekReplay
    <2>2. pos \in Nat /\ replay' = [replay EXCEPT !.pos = pos]
      BY <1>5, <2>1, StartsAssumption DEF TypeInv, SeekReplay, Seek
    <2>3. replay' \in Replays /\ replay'.pos = pos /\ replay'.file = replay.file /\ replay'.open = replay.open
      BY <2>2, ReplayOperations DEF ReplayType
    <2> QED  BY <2>1, <2>3 DEF ReplayType
  <1>6. CASE Exit
    BY <1>6 DEF Exit, NewReplay, ReplayType, Replays, Recording
  <1>7. UNCHANGED replay \/ RequestReplay \/ StepReplay \/ ReplayTick \/ SeekReplay \/ Exit
    BY DEF Next, StartUp, Deliver, User, LoadConfiguration, MigrateConfiguration,
           ValidateConfiguration, DiscoverPlugins, Autostart, StartDummyTelemetry,
           DeliverMessage, DeliverToPlugin, DispatchTopic, Connect, CloseWindow, DummyTick,
           Datagram, PublishReadiness, Gone, vars, replayVars
  <1> QED  BY <1>1, <1>2, <1>3, <1>4, <1>5, <1>6, <1>7
-----------------------------------------------------------------------------
(* The queue of the main thread.                                           *)
Live(queue, active) ==
  \A i \in 1 .. Len(queue) :
    queue[i].to = "plugin" =>
      queue[i].kind \in DOMAIN ListenerOf /\ ListenerOf[queue[i].kind] \in active

Heard(active, message) == message.kind \in DOMAIN ListenerOf /\ ListenerOf[message.kind] \in active
ToPlugin(message) == [to |-> "plugin", kind |-> message.kind, value |-> message.value]

(* What is posted to a plugin goes to the end, or nowhere.                 *)
LEMMA PostIs ==
  ASSUME NEW S, NEW q \in Seq(S), NEW active, NEW message
  PROVE  q \o Post(active, message) =
           IF Heard(active, message) THEN Append(q, ToPlugin(message)) ELSE q
  <1>1. Post(active, message) = IF Heard(active, message) THEN <<ToPlugin(message)>> ELSE <<>>
    BY DEF Post, Heard, ToPlugin
  <1>2. q \o <<>> = q /\ \A e : q \o <<e>> = Append(q, e)
    OBVIOUS
  <1>3. CASE Heard(active, message)
    <2>1. Post(active, message) = <<ToPlugin(message)>>
      BY <1>1, <1>3
    <2> QED  BY <1>2, <1>3, <2>1, Zenon
  <1>4. CASE ~Heard(active, message)
    <2>1. Post(active, message) = <<>>
      BY <1>1, <1>4
    <2> QED  BY <1>2, <1>4, <2>1, Zenon
  <1> QED  BY <1>3, <1>4

LEMMA LiveAppend ==
  ASSUME NEW q \in Seq(Event), NEW active, Live(q, active), NEW e \in Event,
         e.to = "plugin" => e.kind \in DOMAIN ListenerOf /\ ListenerOf[e.kind] \in active
  PROVE  /\ Append(q, e) \in Seq(Event) /\ Len(Append(q, e)) = Len(q) + 1
         /\ Live(Append(q, e), active)
  BY DEF Live

LEMMA LivePost ==
  ASSUME NEW q \in Seq(Event), NEW active, Live(q, active), NEW message,
         message.kind \in Kinds, message.value \in Int
  PROVE  LET r == q \o Post(active, message)
         IN  r \in Seq(Event) /\ Len(r) <= Len(q) + 1 /\ Live(r, active)
  <1>1. ToPlugin(message) \in Event /\ ToPlugin(message).kind = message.kind
    BY DEF ToPlugin, Event
  <1>2. Heard(active, message) =>
          LET r == Append(q, ToPlugin(message))
          IN  r \in Seq(Event) /\ Len(r) <= Len(q) + 1 /\ Live(r, active)
    BY <1>1, LiveAppend DEF Heard
  <1>3. Len(q) \in Nat
    OBVIOUS
  <1> DEFINE r == q \o Post(active, message)
  <1>4. r = IF Heard(active, message) THEN Append(q, ToPlugin(message)) ELSE q
    BY PostIs
  <1> HIDE DEF r
  <1>5. r \in Seq(Event) /\ Len(r) <= Len(q) + 1 /\ Live(r, active)
    <2>1. CASE Heard(active, message)
      BY <1>2, <1>4, <2>1
    <2>2. CASE ~Heard(active, message)
      BY <1>3, <1>4, <2>2
    <2> QED  BY <2>1, <2>2
  <1> QED  BY <1>5 DEF r

LEMMA LiveTail ==
  ASSUME NEW q \in Seq(Event), NEW active, Live(q, active), q # <<>>
  PROVE  /\ Head(q) \in Event /\ Tail(q) \in Seq(Event) /\ Len(Tail(q)) = Len(q) - 1
         /\ Live(Tail(q), active)
  <1> DEFINE r == Tail(q)
  <1>1. /\ r \in Seq(Event) /\ Len(r) = Len(q) - 1 /\ Head(q) \in Event /\ Len(q) \in Nat
        /\ \A i \in 1 .. Len(r) : i + 1 \in 1 .. Len(q) /\ r[i] = q[i + 1]
    OBVIOUS
  <1> HIDE DEF r
  <1>2. Live(r, active)
    BY <1>1 DEF Live
  <1> QED  BY <1>1, <1>2 DEF r

QueueInv ==
  events \in Seq(Event) /\ Len(events) <= MaxQueue /\ Live(events, host.active)

LEMMA ParserPost ==
  ASSUME QueueInv, texts \in Nat, Room(1), NEW message \in Message, PostToParser(message)
  PROVE  /\ events' \in Seq(Event) /\ Len(events') <= MaxQueue /\ Live(events', host.active)
         /\ texts' \in Nat
  <1> DEFINE e == [to |-> "parser", kind |-> message.kind,
                   value |-> IF message.kind = "text" THEN texts + 1 ELSE message.value]
  <1>1. e \in Event /\ e.to = "parser"
    BY DEF Message, Event, Kinds
  <1>2. events' = Append(events, e) /\ texts' \in {texts, texts + 1}
    BY DEF PostToParser
  <1> HIDE DEF e
  <1>3. Len(events) + 1 <= MaxQueue
    BY DEF Room
  <1> QED  BY <1>1, <1>2, <1>3, LiveAppend DEF QueueInv

(* One field of the dummy telemetry.                                       *)
DummyPost(kind) == Post(host.active, [kind |-> kind, value |-> Dummy])

LEMMA LiveDummy ==
  ASSUME NEW q \in Seq(Event), Live(q, host.active), NEW kind \in Fields
  PROVE  /\ q \o DummyPost(kind) \in Seq(Event)
         /\ Len(q \o DummyPost(kind)) <= Len(q) + 1
         /\ Live(q \o DummyPost(kind), host.active)
  <1> DEFINE message == [kind |-> kind, value |-> Dummy]
  <1>1. message.kind \in Kinds /\ message.value \in Int
    BY DEF Dummy, Kinds
  <1> HIDE DEF message
  <1>2. /\ q \o Post(host.active, message) \in Seq(Event)
        /\ Len(q \o Post(host.active, message)) <= Len(q) + 1
        /\ Live(q \o Post(host.active, message), host.active)
    BY <1>1, LivePost
  <1> QED  BY <1>2 DEF message, DummyPost

(* What reads a datagram or a frame posts a message to the parser, or      *)
(* nothing.                                                                *)
LEMMA Reads ==
  ASSUME TypeInv, ReplayType, Datagram \/ StepReplay \/ ReplayTick
  PROVE  /\ UNCHANGED <<idleVars, vehicle, shown, alerts, topicVars>>
         /\ \/ UNCHANGED <<events, texts>>
            \/ \E message \in Message : Room(1) /\ PostToParser(message)
  <1>1. CASE Datagram
    <2>1. \A message \in env.traffic : message \in Message
      BY StartsAssumption DEF TypeInv
    <2> QED  BY <1>1, <2>1 DEF Datagram
  <1>2. ASSUME Room(1), NEW read, read = ReadNext(replay, channel) \/ read \in Garbled,
               IF read.frame = 0 THEN UNCHANGED <<events, texts>>
                 ELSE PostToParser(Recorded[read.frame])
        PROVE  \/ UNCHANGED <<events, texts>>
               \/ \E message \in Message : Room(1) /\ PostToParser(message)
    <2>1. read.frame = 0 \/ read.frame \in DOMAIN Recorded
      BY <1>2, ReadNextStops, GarbledStops DEF ReplayType
    <2> QED  BY <1>2, <2>1, RecordedAssumption
  <1>3. CASE StepReplay
    <2>1. UNCHANGED <<idleVars, vehicle, shown, alerts, topicVars>> /\ Room(1)
      BY <1>3 DEF StepReplay
    <2>2. \E read : /\ read = ReadNext(replay, channel) \/ read \in Garbled
                    /\ IF read.frame = 0 THEN UNCHANGED <<events, texts>>
                         ELSE PostToParser(Recorded[read.frame])
      BY <1>3 DEF StepReplay, Play
    <2> QED  BY <1>2, <2>1, <2>2
  <1>4. CASE ReplayTick
    <2>1. UNCHANGED <<idleVars, vehicle, shown, alerts, topicVars>> /\ Room(1)
      BY <1>4 DEF ReplayTick
    <2>2. \/ UNCHANGED <<events, texts>>
          \/ \E read : /\ read = ReadNext(replay, channel) \/ read \in Garbled
                       /\ IF read.frame = 0 THEN UNCHANGED <<events, texts>>
                            ELSE PostToParser(Recorded[read.frame])
      BY <1>4 DEF ReplayTick, Play
    <2> QED  BY <1>2, <2>1, <2>2
  <1> QED  BY <1>1, <1>3, <1>4

LEMMA QueueStep ==
  ASSUME TypeInv, ReplayType, HostInv, QueueInv, QuietInv, [Next]_vars
  PROVE  QueueInv' /\ texts' \in Nat
  <1> USE DEF QueueInv
  <1>0. texts \in Nat /\ MaxQueue \in Nat /\ Len(events) \in Nat
    BY QueueAssumption DEF TypeInv
  <1>1. CASE StartUp
    <2>1. UNCHANGED <<events, texts>> /\ events = <<>>
      BY <1>1 DEF StartUp, LoadConfiguration, MigrateConfiguration, ValidateConfiguration,
                  DiscoverPlugins, Autostart, StartDummyTelemetry, panelVars, QuietInv, Running
    <2> QED  BY <1>0, <2>1 DEF Live
  <1>2. CASE CloseWindow
    <2>1. events' = Only(events, {event \in ToSet(events) : event.to # "plugin"}) /\ texts' = texts
      BY <1>2 DEF CloseWindow, UnloadPlugins, panelVars
    <2>2. /\ events' \in Seq(Event) /\ Len(events') <= Len(events)
          /\ events' \in Seq(Event \intersect {event \in ToSet(events) : event.to # "plugin"})
      BY <2>1, OnlyKeeps
    <2>3. \A i \in 1 .. Len(events') : events'[i].to # "plugin"
      BY <2>2
    <2> QED  BY <1>0, <2>1, <2>2, <2>3 DEF Live
  <1>3. CASE Exit
    <2>1. events' = <<>> /\ texts' = texts
      BY <1>3 DEF Exit, panelVars
    <2> QED  BY <1>0, <2>1 DEF Live
  <1>4. CASE UNCHANGED idleVars
    <2>1. host' = host
      BY <1>4 DEF idleVars, pluginVars
    <2>2. CASE UNCHANGED <<events, texts>>
      BY <1>0, <2>1, <2>2
    <2>3. CASE Datagram \/ StepReplay \/ ReplayTick
      BY <1>0, <2>1, <2>3, Reads, ParserPost
    <2>4. CASE PublishReadiness
      <3> DEFINE e == Publish(Topic, ready')
      <3>1. Room(1) /\ ready' \in {1, 2} /\ events' = Append(events, e) /\ texts' = texts
        BY <2>4 DEF PublishReadiness, panelVars
      <3>2. e \in Event /\ e.to = "bus"
        <4>1. e = [to |-> "bus", kind |-> Topic, value |-> ready']
          BY DEF Publish
        <4>2. ready' \in Int /\ Topic \in Kinds
          BY <3>1 DEF Kinds
        <4> HIDE DEF e
        <4> QED  BY <4>1, <4>2 DEF Event
      <3> HIDE DEF e
      <3> QED  BY <1>0, <2>1, <3>1, <3>2, LiveAppend DEF Room
    <2>5. CASE DeliverToPlugin \/ DispatchTopic
      <3>1. events # <<>> /\ events' = Tail(events) /\ texts' = texts
        BY <2>5 DEF DeliverToPlugin, DispatchTopic, panelVars
      <3> QED  BY <1>0, <2>1, <3>1, LiveTail
    <2>6. CASE DeliverMessage
      <3>1. events # <<>> /\ events' = Tail(events) \o Post(host.active, Head(events)) /\ texts' = texts
        BY <2>6 DEF DeliverMessage
      <3>2. Head(events) \in Event /\ Tail(events) \in Seq(Event) /\ Len(Tail(events)) = Len(events) - 1
            /\ Live(Tail(events), host.active)
        BY <3>1, LiveTail
      <3>3. Head(events).kind \in Kinds /\ Head(events).value \in Int
        BY <3>2 DEF Event
      <3>4. events' \in Seq(Event) /\ Len(events') <= Len(Tail(events)) + 1 /\ Live(events', host.active)
        BY <3>1, <3>2, <3>3, LivePost
      <3> QED  BY <1>0, <2>1, <3>1, <3>2, <3>4
    <2>7. CASE DummyTick
      <3> DEFINE q1 == events \o DummyPost("heartbeat")
                 q2 == q1 \o DummyPost("attitude")
                 q3 == q2 \o DummyPost("position")
                 q4 == q3 \o DummyPost("battery")
      <3>1. Room(4) /\ events' = q4 /\ texts' = texts
        BY <2>7 DEF DummyTick, DummyPost
      <3>3. q1 \in Seq(Event) /\ Len(q1) <= Len(events) + 1 /\ Live(q1, host.active)
        BY LiveDummy DEF Fields
      <3> HIDE DEF q1
      <3>4. q2 \in Seq(Event) /\ Len(q2) <= Len(q1) + 1 /\ Live(q2, host.active)
        BY <3>3, LiveDummy DEF Fields
      <3> HIDE DEF q2
      <3>5. q3 \in Seq(Event) /\ Len(q3) <= Len(q2) + 1 /\ Live(q3, host.active)
        BY <3>4, LiveDummy DEF Fields
      <3> HIDE DEF q3
      <3>6. q4 \in Seq(Event) /\ Len(q4) <= Len(q3) + 1 /\ Live(q4, host.active)
        BY <3>5, LiveDummy DEF Fields
      <3> HIDE DEF q4
      <3>7. Len(q4) <= Len(events) + 4
        <4>1. Len(q1) \in Nat /\ Len(q2) \in Nat /\ Len(q3) \in Nat /\ Len(q4) \in Nat
          BY <3>3, <3>4, <3>5, <3>6
        <4> QED  BY <1>0, <3>3, <3>4, <3>5, <3>6, <4>1
      <3> QED  BY <1>0, <2>1, <3>1, <3>6, <3>7 DEF Room
    <2>8. \/ UNCHANGED <<events, texts>> \/ Datagram \/ StepReplay \/ ReplayTick
           \/ PublishReadiness \/ Deliver \/ DummyTick \/ StartUp \/ CloseWindow \/ Exit
      BY DEF Next, User, Connect, RequestReplay, SeekReplay, Gone, vars, panelVars
    <2> QED  BY <1>1, <1>2, <1>3, <2>2, <2>3, <2>4, <2>5, <2>6, <2>7, <2>8 DEF Deliver
  <1> QED  BY <1>1, <1>2, <1>3, <1>4, IdleStep

LEMMA QueueInit ==
  ASSUME Init
  PROVE  QueueInv
  BY QueueAssumption DEF Init, QueueInv, Live

(* The fields of VehicleState and the panels hold numbers.                 *)
LEMMA TypeInit ==
  ASSUME Init
  PROVE  TypeInv
  <1>1. NewVehicle \in [Fields -> Int] /\ NewPanels \in [Displayed -> Int]
    BY DEF NewVehicle, NewPanels, Unknown, NoData
  <1> QED  BY <1>1 DEF Init, TypeInv

LEMMA UpdateKeepsType ==
  ASSUME NEW v \in [Fields -> Int], NEW sh \in [Displayed -> Int], NEW e \in Event
  PROVE  Update(v, e) \in [Fields -> Int] /\ Show(sh, e) \in [Displayed -> Int]
  <1>1. e.value \in Int
    BY DEF Event
  <1> QED  BY <1>1 DEF Update, Show

LEMMA TypeStep ==
  ASSUME TypeInv, ReplayType, HostInv, QueueInv, QuietInv, [Next]_vars
  PROVE  TypeInv'
  <1>1. texts' \in Nat
    BY QueueStep
  <1>2. vehicle' \in [Fields -> Int]
    <2>1. CASE DeliverMessage
      <3>1. Head(events) \in Event
        BY <2>1, LiveTail DEF DeliverMessage, QueueInv
      <3> QED  BY <2>1, <3>1, UpdateKeepsType DEF DeliverMessage, TypeInv
    <2>2. CASE DummyTick
      <3>1. Dummy \in Int
        BY DEF Dummy
      <3> QED  BY <2>2, <3>1 DEF DummyTick, TypeInv
    <2>3. UNCHANGED vehicle \/ DeliverMessage \/ DummyTick
      BY DEF Next, StartUp, Deliver, User, LoadConfiguration, MigrateConfiguration,
             ValidateConfiguration, DiscoverPlugins, Autostart, StartDummyTelemetry,
             DeliverToPlugin, DispatchTopic, Connect, RequestReplay, StepReplay, SeekReplay,
             CloseWindow, Datagram, PublishReadiness, ReplayTick, Exit, Gone, vars, panelVars
    <2> QED  BY <2>1, <2>2, <2>3 DEF TypeInv
  <1>3. shown' \in [Displayed -> Int]
    <2>1. CASE DeliverToPlugin
      <3>1. Head(events) \in Event
        BY <2>1, LiveTail DEF DeliverToPlugin, QueueInv
      <3> QED  BY <2>1, <3>1, UpdateKeepsType DEF DeliverToPlugin, TypeInv
    <2>2. UNCHANGED shown \/ DeliverToPlugin
      BY DEF Next, StartUp, Deliver, User, LoadConfiguration, MigrateConfiguration,
             ValidateConfiguration, DiscoverPlugins, Autostart, StartDummyTelemetry,
             DeliverMessage, DispatchTopic, Connect, RequestReplay, StepReplay, SeekReplay,
             CloseWindow, DummyTick, Datagram, PublishReadiness, ReplayTick, Exit, Gone, vars,
             panelVars
    <2> QED  BY <2>1, <2>2 DEF TypeInv
  <1>4. ready' \in Int /\ noted' \in Int
    <2>1. CASE PublishReadiness
      BY <2>1 DEF PublishReadiness, TypeInv
    <2>2. CASE DispatchTopic
      <3>1. Head(events) \in Event
        BY <2>2, LiveTail DEF DispatchTopic, QueueInv
      <3>2. Head(events).value \in Int
        BY <3>1 DEF Event
      <3> QED  BY <2>2, <3>2 DEF DispatchTopic, TypeInv
    <2>3. UNCHANGED topicVars \/ PublishReadiness \/ DispatchTopic
      BY DEF Next, StartUp, Deliver, User, LoadConfiguration, MigrateConfiguration,
             ValidateConfiguration, DiscoverPlugins, Autostart, StartDummyTelemetry,
             DeliverMessage, DeliverToPlugin, Connect, RequestReplay, StepReplay, SeekReplay,
             CloseWindow, DummyTick, Datagram, ReplayTick, Exit, Gone, vars
    <2> QED  BY <2>1, <2>2, <2>3 DEF TypeInv, topicVars
  <1>5. env' = env /\ phase' \in {"start", "loaded", "migrated", "validated", "autostart",
                                  "running", "closing", "gone"}
    <2>1. CASE StartUp
      BY <2>1 DEF StartUp, LoadConfiguration, MigrateConfiguration, ValidateConfiguration,
                  DiscoverPlugins, Autostart, StartDummyTelemetry, TypeInv
    <2>2. CASE CloseWindow \/ Exit
      BY <2>2 DEF CloseWindow, Exit
    <2>3. CASE UNCHANGED idleVars
      BY <2>3 DEF idleVars, TypeInv
    <2> QED  BY <2>1, <2>2, <2>3, IdleStep
  <1> QED  BY <1>1, <1>2, <1>3, <1>4, <1>5 DEF TypeInv

LEMMA QuietInit ==
  ASSUME Init
  PROVE  QuietInv /\ LinkInv
  BY DEF Init, QuietInv, LinkInv

LEMMA QuietStep ==
  ASSUME TypeInv, QuietInv, LinkInv, [Next]_vars
  PROVE  QuietInv' /\ LinkInv'
  <1>1. CASE StartUp
    BY <1>1 DEF StartUp, LoadConfiguration, MigrateConfiguration, ValidateConfiguration,
                DiscoverPlugins, Autostart, StartDummyTelemetry, QuietInv, LinkInv, Running,
                panelVars, topicVars, linkVars
  <1>2. CASE CloseWindow \/ Exit
    BY <1>2 DEF CloseWindow, Exit, QuietInv, LinkInv, Running
  <1>3. CASE UNCHANGED idleVars
    <2>1. phase' = phase
      BY <1>3 DEF idleVars
    <2>2. CASE Running \/ phase = "gone"
      <3>1. QuietInv'
        BY <2>1, <2>2 DEF QuietInv, Running
      <3>2. link' = link \/ Connect \/ StartUp \/ CloseWindow
        BY DEF Next, Deliver, User, DeliverMessage, DeliverToPlugin, DispatchTopic,
               RequestReplay, StepReplay, SeekReplay, DummyTick, Datagram, PublishReadiness,
               ReplayTick, Exit, Gone, vars, linkVars
      <3>3. LinkInv'
        BY <1>1, <1>2, <2>1, <3>2 DEF LinkInv, Connect
      <3> QED  BY <3>1, <3>3
    <2>3. CASE ~Running /\ phase # "gone"
      <3>1. \/ StartUp \/ CloseWindow \/ Exit
            \/ UNCHANGED <<events, vehicle, shown, alerts, texts, ready, noted, link>>
        BY <2>3 DEF Next, Deliver, User, DeliverMessage, DeliverToPlugin, DispatchTopic, Connect,
               RequestReplay, StepReplay, SeekReplay, DummyTick, Datagram, PublishReadiness,
               ReplayTick, Gone, vars, linkVars, panelVars, topicVars, Running
      <3> QED  BY <1>1, <1>2, <2>1, <3>1 DEF QuietInv, LinkInv, Running
    <2> QED  BY <2>2, <2>3
  <1> QED  BY <1>1, <1>2, <1>3, IdleStep

-----------------------------------------------------------------------------
(* What is true of every state.  A part needs the others: what is posted   *)
(* depends on the plugins, these on the settings, and so on.               *)
MainInv == ConfigInv /\ TypeInv /\ ReplayType /\ HostInv /\ QueueInv /\ QuietInv /\ LinkInv

LEMMA MainStep ==
  ASSUME MainInv, [Next]_vars
  PROVE  MainInv'
  BY ConfigStep, TypeStep, ReplayTypeStep, HostStep, QueueStep, QuietStep DEF MainInv

LEMMA MainHolds == Spec => []MainInv
  <1>1. Init => MainInv
    BY ConfigInit, TypeInit, ReplayTypeInit, HostInit, QueueInit, QuietInit DEF MainInv
  <1>2. MainInv /\ [Next]_vars => MainInv'
    BY MainStep
  <1> QED  BY <1>1, <1>2, PTL DEF Spec

(* The main thread handles records of three kinds, the panels have the     *)
(* fields of VehicleState, and the replay stays inside its file.           *)
THEOREM ApplicationTypeOK == Spec => []TypeOK
  <1>1. MainInv => TypeOK
    <2> SUFFICES ASSUME MainInv
                 PROVE  TypeOK
      OBVIOUS
    <2>1. \A i \in DOMAIN events : events[i] \in Event
      BY DEF MainInv, QueueInv
    <2>2. \A i \in DOMAIN events : events[i].to \in {"parser", "plugin", "bus"}
      BY <2>1 DEF Event
    <2>3. replay.pos \in 0 .. Len(replay.file)
      BY DEF MainInv, ReplayType, Replays
    <2> QED  BY <2>2, <2>3 DEF MainInv, TypeInv, HostInv, QueueInv, ReplayType, TypeOK
  <1> QED  BY <1>1, MainHolds, PTL

(* A plugin that fails to load keeps no other from being loaded, and a     *)
(* plugin found twice gets one panel (application.cpp, injectPlugin).      *)
THEOREM FailuresAlwaysIsolated == Spec => []FailuresIsolated
  <1>1. MainInv => FailuresIsolated
    <2> SUFFICES ASSUME HostInv, phase = "running"
                 PROVE  LET asked == ToSet(settings.autostart) \intersect host.registry
                        IN  /\ ToSet(docks) = host.active /\ IsInjective(docks)
                            /\ host.active \subseteq asked
                            /\ asked \subseteq host.active \union host.failed
      BY DEF MainInv, FailuresIsolated
    <2>1. ToSet(todo) = {}
      BY DEF HostInv, ToSet
    <2> QED  BY <2>1 DEF HostInv, Asked
  <1> QED  BY <1>1, MainHolds, PTL

(* Nothing is left to call a plugin that was unloaded: neither an event    *)
(* posted to it nor a subscription of the bus.                             *)
THEOREM OnlyLivePluginsAreEverCalled == Spec => []OnlyLivePluginsAreCalled
  <1>1. MainInv => OnlyLivePluginsAreCalled
    <2> SUFFICES ASSUME MainInv
                 PROVE  OnlyLivePluginsAreCalled
      OBVIOUS
    <2>1. \A sub \in subs : sub[2] \in host.active
      BY DEF MainInv, HostInv
    <2>2. \A i \in DOMAIN events :
            events[i].to = "plugin" => ListenerOf[events[i].kind] \in host.active
      BY DEF MainInv, QueueInv, Live
    <2>3. phase \in {"closing", "gone"} => host.active = {} /\ link = "down"
      BY DEF MainInv, HostInv, LinkInv
    <2> QED  BY <2>1, <2>2, <2>3 DEF OnlyLivePluginsAreCalled
  <1> QED  BY <1>1, MainHolds, PTL
-----------------------------------------------------------------------------
(* The panels.                                                             *)
IsFor(e, to, kind) == e.to = to /\ e.kind = kind

(* WillKnow(), of any queue.                                               *)
Will(q, to, kind, known, value) ==
  \/ known = value /\ \A i \in 1 .. Len(q) : ~IsFor(q[i], to, kind)
  \/ \E i \in 1 .. Len(q) :
       /\ IsFor(q[i], to, kind) /\ q[i].value = value
       /\ \A j \in 1 .. Len(q) : IsFor(q[j], to, kind) => j <= i

LEMMA WillKnowIs ==
  ASSUME events \in Seq(Event), NEW to, NEW kind, NEW known, NEW value
  PROVE  WillKnow(to, kind, known, value) <=> Will(events, to, kind, known, value)
  <1>1. DOMAIN events = 1 .. Len(events)
    OBVIOUS
  <1> QED  BY <1>1 DEF WillKnow, Will, IsFor

LEMMA WillPushOther ==
  ASSUME NEW q \in Seq(Event), NEW e \in Event, NEW to, NEW kind, NEW known, NEW value,
         ~IsFor(e, to, kind), Will(q, to, kind, known, value)
  PROVE  Will(Append(q, e), to, kind, known, value)
  <1> DEFINE r == Append(q, e)
  <1>1. /\ Len(r) = Len(q) + 1 /\ r[Len(q) + 1] = e /\ Len(q) \in Nat
        /\ \A i \in 1 .. Len(q) : r[i] = q[i] /\ i \in 1 .. Len(r)
    OBVIOUS
  <1> HIDE DEF r
  <1>2. \A i \in 1 .. Len(r) : i \in 1 .. Len(q) \/ ~IsFor(r[i], to, kind)
    BY <1>1
  <1>3. Will(r, to, kind, known, value)
    BY <1>1, <1>2 DEF Will
  <1> QED  BY <1>3 DEF r

LEMMA WillPush ==
  ASSUME NEW q \in Seq(Event), NEW e \in Event, NEW to, NEW kind, NEW known,
         IsFor(e, to, kind)
  PROVE  Will(Append(q, e), to, kind, known, e.value)
  <1> DEFINE r == Append(q, e)
  <1>1. Len(r) = Len(q) + 1 /\ r[Len(r)] = e /\ Len(r) \in 1 .. Len(r)
    OBVIOUS
  <1> HIDE DEF r
  <1>2. Will(r, to, kind, known, e.value)
    BY <1>1 DEF Will
  <1> QED  BY <1>2 DEF r

LEMMA WillPopOther ==
  ASSUME NEW q \in Seq(Event), q # <<>>, NEW to, NEW kind, NEW known, NEW value,
         ~IsFor(Head(q), to, kind), Will(q, to, kind, known, value)
  PROVE  Will(Tail(q), to, kind, known, value)
  <1> DEFINE r == Tail(q)
  <1>1. /\ Len(q) = Len(r) + 1 /\ Head(q) = q[1] /\ Len(r) \in Nat
        /\ \A i \in 1 .. Len(r) : i + 1 \in 1 .. Len(q) /\ r[i] = q[i + 1]
    OBVIOUS
  <1> HIDE DEF r
  <1>2. ASSUME NEW i \in 1 .. Len(q), IsFor(q[i], to, kind)
        PROVE  i - 1 \in 1 .. Len(r) /\ r[i - 1] = q[i]
    <2>1. i - 1 \in 1 .. Len(r) /\ (i - 1) + 1 = i
      BY <1>1, <1>2
    <2> QED  BY <1>1, <2>1
  <1>3. CASE known = value /\ \A i \in 1 .. Len(q) : ~IsFor(q[i], to, kind)
    BY <1>1, <1>3 DEF Will
  <1>4. CASE \E i \in 1 .. Len(q) : /\ IsFor(q[i], to, kind) /\ q[i].value = value
                                   /\ \A j \in 1 .. Len(q) : IsFor(q[j], to, kind) => j <= i
    <2>0. PICK i \in 1 .. Len(q) : /\ IsFor(q[i], to, kind) /\ q[i].value = value
                                  /\ \A j \in 1 .. Len(q) : IsFor(q[j], to, kind) => j <= i
      BY <1>4
    <2>1. i - 1 \in 1 .. Len(r) /\ r[i - 1] = q[i]
      BY <1>2, <2>0
    <2>2. \A j \in 1 .. Len(r) : IsFor(r[j], to, kind) => j <= i - 1
      <3> SUFFICES ASSUME NEW j \in 1 .. Len(r), IsFor(r[j], to, kind)
                   PROVE  j <= i - 1
        OBVIOUS
      <3>1. j + 1 <= i
        BY <1>1, <2>0
      <3> QED  BY <3>1
    <2>3. \E k \in 1 .. Len(r) : /\ IsFor(r[k], to, kind) /\ r[k].value = value
                               /\ \A j \in 1 .. Len(r) : IsFor(r[j], to, kind) => j <= k
      BY <2>0, <2>1, <2>2
    <2> QED  BY <2>3 DEF Will, r
  <1> QED  BY <1>3, <1>4 DEF Will

(* Who takes an event for him from the queue knows its value, or need not  *)
(* because there is a newer one.                                           *)
LEMMA WillPop ==
  ASSUME NEW q \in Seq(Event), q # <<>>, NEW to, NEW kind, NEW known, NEW value,
         IsFor(Head(q), to, kind), Will(q, to, kind, known, value),
         NEW now, now = value \/ Head(q).value # value
  PROVE  Will(Tail(q), to, kind, now, value)
  <1> DEFINE r == Tail(q)
  <1>1. /\ Len(q) = Len(r) + 1 /\ Head(q) = q[1] /\ Len(r) \in Nat /\ 1 \in 1 .. Len(q)
        /\ \A i \in 1 .. Len(r) : i + 1 \in 1 .. Len(q) /\ r[i] = q[i + 1]
    OBVIOUS
  <1> HIDE DEF r
  <1>2. PICK i \in 1 .. Len(q) : /\ IsFor(q[i], to, kind) /\ q[i].value = value
                                /\ \A j \in 1 .. Len(q) : IsFor(q[j], to, kind) => j <= i
    BY <1>1 DEF Will
  <1>3. CASE i = 1
    <2>1. now = value
      BY <1>1, <1>2, <1>3
    <2>2. \A j \in 1 .. Len(r) : ~IsFor(r[j], to, kind)
      <3> SUFFICES ASSUME NEW j \in 1 .. Len(r), IsFor(r[j], to, kind)
                   PROVE  FALSE
        OBVIOUS
      <3>1. j + 1 <= 1
        BY <1>1, <1>2, <1>3
      <3> QED  BY <3>1
    <2> QED  BY <2>1, <2>2 DEF Will, r
  <1>4. CASE i # 1
    <2>1. i - 1 \in 1 .. Len(r) /\ (i - 1) + 1 = i
      BY <1>1, <1>4
    <2>2. r[i - 1] = q[i]
      BY <1>1, <2>1
    <2>3. \A j \in 1 .. Len(r) : IsFor(r[j], to, kind) => j <= i - 1
      <3> SUFFICES ASSUME NEW j \in 1 .. Len(r), IsFor(r[j], to, kind)
                   PROVE  j <= i - 1
        OBVIOUS
      <3>1. j + 1 <= i
        BY <1>1, <1>2
      <3> QED  BY <3>1
    <2>4. Will(r, to, kind, now, value)
      BY <1>2, <2>1, <2>2, <2>3 DEF Will
    <2> QED  BY <2>4 DEF r
  <1> QED  BY <1>3, <1>4

(* Every field that is displayed reaches its listener, if this is active.  *)
Told(q, active, v, sh) ==
  \A f \in Displayed :
    ListenerOf[f] \in active =>
      \/ Will(q, "plugin", f, sh[f], v[f])
      \/ f = "battery" /\ v[f] = Unknown

LEMMA ToldOther ==
  ASSUME NEW q \in Seq(Event), NEW e \in Event, e.to # "plugin",
         NEW active, NEW v, NEW sh, Told(q, active, v, sh)
  PROVE  /\ Told(Append(q, e), active, v, sh)
         /\ q # <<>> /\ Head(q).to # "plugin" => Told(Tail(q), active, v, sh)
  <1>1. \A f : ~IsFor(e, "plugin", f) /\ (Head(q).to # "plugin" => ~IsFor(Head(q), "plugin", f))
    BY DEF IsFor
  <1> QED  BY <1>1, WillPushOther, WillPopOther DEF Told

LEMMA ToldPost ==
  ASSUME NEW q \in Seq(Event), NEW active, NEW v \in [Fields -> Int], NEW sh,
         Told(q, active, v, sh), NEW message, message.kind \in Kinds, message.value \in Int
  PROVE  Told(q \o Post(active, message), active, Update(v, message), sh)
  <1> DEFINE r == q \o Post(active, message)
             w == Update(v, message)
             e == ToPlugin(message)
  <1>1. r = IF Heard(active, message) THEN Append(q, e) ELSE q
    BY PostIs
  <1>2. e \in Event /\ e.to = "plugin" /\ e.kind = message.kind /\ e.value = message.value
    BY DEF ToPlugin, Event
  <1>3. \A f \in Displayed : w[f] = IF f = message.kind THEN message.value ELSE v[f]
    BY DEF Update, Displayed
  <1>4. \A f \in Displayed : f \in DOMAIN ListenerOf
    BY DEF Displayed, Fields, ListenerOf
  <1> HIDE DEF r, w, e
  <1> SUFFICES ASSUME NEW f \in Displayed, ListenerOf[f] \in active
               PROVE  Will(r, "plugin", f, sh[f], w[f]) \/ (f = "battery" /\ w[f] = Unknown)
    BY DEF Told, r, w
  <1>5. CASE f = message.kind
    <2>1. r = Append(q, e)
      BY <1>1, <1>4, <1>5 DEF Heard
    <2>2. IsFor(e, "plugin", f)
      BY <1>2, <1>5 DEF IsFor
    <2>3. Will(Append(q, e), "plugin", f, sh[f], e.value)
      BY <1>2, <2>2, WillPush
    <2> QED  BY <1>2, <1>3, <1>5, <2>1, <2>3
  <1>6. CASE f # message.kind
    <2>1. w[f] = v[f]
      BY <1>3, <1>6
    <2>2. CASE f = "battery" /\ v[f] = Unknown
      BY <2>1, <2>2
    <2>3. CASE Will(q, "plugin", f, sh[f], v[f])
      <3>1. ~IsFor(e, "plugin", f)
        BY <1>2, <1>6 DEF IsFor
      <3>2. Will(Append(q, e), "plugin", f, sh[f], v[f])
        BY <1>2, <2>3, <3>1, WillPushOther
      <3> QED  BY <1>1, <2>1, <2>3, <3>2
    <2> QED  BY <2>2, <2>3 DEF Told
  <1> QED  BY <1>5, <1>6

LEMMA ToldShow ==
  ASSUME NEW q \in Seq(Event), q # <<>>, NEW active, NEW v \in [Fields -> Int],
         NEW sh \in [Displayed -> Int], Told(q, active, v, sh), Head(q).to = "plugin"
  PROVE  /\ Told(Tail(q), active, v, Show(sh, Head(q)))
         /\ sh["battery"] # Unknown => Show(sh, Head(q))["battery"] # Unknown
  <1> DEFINE e == Head(q)
             s == Show(sh, e)
  <1>1. \A f \in Displayed :
          s[f] = IF f = e.kind /\ ~(f = "battery" /\ e.value = Unknown) THEN e.value ELSE sh[f]
    BY DEF Show
  <1>2. "battery" \in Displayed
    BY DEF Displayed, Fields
  <1>3. \A f : IsFor(e, "plugin", f) <=> f = e.kind
    BY DEF IsFor
  <1> HIDE DEF s, e
  <1>4. sh["battery"] # Unknown => s["battery"] # Unknown
    BY <1>1, <1>2
  <1>5. ASSUME NEW f \in Displayed, Will(q, "plugin", f, sh[f], v[f])
        PROVE  Will(Tail(q), "plugin", f, s[f], v[f]) \/ (f = "battery" /\ v[f] = Unknown)
    <2>1. CASE f # e.kind
      <3>1. s[f] = sh[f] /\ ~IsFor(Head(q), "plugin", f)
        BY <1>1, <1>3, <2>1 DEF e
      <3> QED  BY <1>5, <3>1, WillPopOther
    <2>2. CASE f = e.kind
      <3>1. IsFor(Head(q), "plugin", f)
        BY <1>3, <2>2 DEF e
      <3>2. s[f] = v[f] \/ e.value # v[f] \/ (f = "battery" /\ v[f] = Unknown)
        BY <1>1, <2>2
      <3>3. CASE s[f] = v[f] \/ Head(q).value # v[f]
        BY <1>5, <3>1, <3>3, WillPop
      <3> QED  BY <3>2, <3>3 DEF e
    <2> QED  BY <2>1, <2>2
  <1>6. Told(Tail(q), active, v, s)
    BY <1>5 DEF Told
  <1> QED  BY <1>4, <1>6 DEF s, e

Panels(q, active, v, sh, heard, said) ==
  /\ Told(q, active, v, sh) /\ sh["battery"] # Unknown
  /\ "recorder" \in active => Will(q, "bus", Topic, heard, said)

PanelInv == phase = "running" => Panels(events, host.active, vehicle, shown, noted, ready)

LEMMA PanelsParser ==
  ASSUME NEW q \in Seq(Event), NEW e \in Event, e.to = "parser", NEW active, NEW v, NEW sh,
         NEW heard, NEW said, Panels(q, active, v, sh, heard, said)
  PROVE  /\ Panels(Append(q, e), active, v, sh, heard, said)
         /\ q # <<>> /\ Head(q).to = "parser" => Panels(Tail(q), active, v, sh, heard, said)
  <1>1. ~IsFor(e, "bus", Topic) /\ (Head(q).to = "parser" => ~IsFor(Head(q), "bus", Topic))
    BY DEF IsFor
  <1> QED  BY <1>1, ToldOther, WillPushOther, WillPopOther DEF Panels

LEMMA PanelsPost ==
  ASSUME NEW q \in Seq(Event), NEW active, NEW v \in [Fields -> Int], NEW sh,
         NEW heard, NEW said, Panels(q, active, v, sh, heard, said),
         NEW message, message.kind \in Kinds, message.value \in Int
  PROVE  Panels(q \o Post(active, message), active, Update(v, message), sh, heard, said)
  <1> DEFINE e == ToPlugin(message)
  <1>1. q \o Post(active, message) = IF Heard(active, message) THEN Append(q, e) ELSE q
    BY PostIs
  <1>2. e \in Event /\ e.to = "plugin"
    BY DEF ToPlugin, Event
  <1> HIDE DEF e
  <1>3. ~IsFor(e, "bus", Topic)
    BY <1>2 DEF IsFor
  <1>4. "recorder" \in active => Will(q \o Post(active, message), "bus", Topic, heard, said)
    BY <1>1, <1>2, <1>3, WillPushOther DEF Panels
  <1> QED  BY <1>4, ToldPost DEF Panels

LEMMA PanelsDummy ==
  ASSUME NEW q \in Seq(Event), Live(q, host.active), NEW v \in [Fields -> Int], NEW sh,
         NEW heard, NEW said, Panels(q, host.active, v, sh, heard, said), NEW kind \in Fields
  PROVE  /\ q \o DummyPost(kind) \in Seq(Event)
         /\ Live(q \o DummyPost(kind), host.active)
         /\ [v EXCEPT ![kind] = Dummy] \in [Fields -> Int]
         /\ Panels(q \o DummyPost(kind), host.active, [v EXCEPT ![kind] = Dummy], sh, heard, said)
  <1> DEFINE message == [kind |-> kind, value |-> Dummy]
  <1>1. message.kind = kind /\ message.kind \in Kinds /\ message.value \in Int /\ Dummy \in Int
    BY DEF Dummy, Kinds
  <1>2. Update(v, message) = [v EXCEPT ![kind] = Dummy]
    BY DEF Update
  <1>3. DummyPost(kind) = Post(host.active, message)
    BY DEF DummyPost
  <1> HIDE DEF message
  <1>4. Panels(q \o Post(host.active, message), host.active, Update(v, message), sh, heard, said)
    BY <1>1, PanelsPost
  <1> QED  BY <1>1, <1>2, <1>3, <1>4, LiveDummy

LEMMA PanelsStart ==
  ASSUME QuietInv, StartDummyTelemetry
  PROVE  PanelInv'
  <1>1. /\ events' = <<>> /\ vehicle' = NewVehicle /\ shown' = NewPanels
        /\ ready' = 0 /\ noted' = 0
    BY DEF StartDummyTelemetry, QuietInv, Running, panelVars, topicVars
  <1>2. \A f \in Displayed :
          NewVehicle[f] = NewPanels[f] \/ (f = "battery" /\ NewVehicle[f] = Unknown)
    BY DEF NewVehicle, NewPanels, Displayed
  <1>3. NewPanels["battery"] # Unknown
    BY DEF NewPanels, Displayed, Fields, NoData, Unknown
  <1>4. \A to, kind, known : Will(<<>>, to, kind, known, known)
    BY DEF Will
  <1> QED  BY <1>1, <1>2, <1>3, <1>4 DEF PanelInv, Panels, Told

LEMMA PanelsStep ==
  ASSUME MainInv, PanelInv, [Next]_vars
  PROVE  PanelInv'
  <1> SUFFICES ASSUME phase' = "running"
               PROVE  Panels(events, host.active, vehicle, shown, noted, ready)'
    BY DEF PanelInv
  <1>1. CASE StartDummyTelemetry
    BY <1>1, PanelsStart DEF MainInv, PanelInv
  <1>2. CASE UNCHANGED idleVars
    <2>1. phase = "running" /\ host' = host
      BY <1>2 DEF idleVars, pluginVars
    <2>2. Panels(events, host.active, vehicle, shown, noted, ready)
      BY <2>1 DEF PanelInv
    <2>3. events \in Seq(Event) /\ Live(events, host.active)
      BY DEF MainInv, QueueInv
    <2>4. vehicle \in [Fields -> Int] /\ shown \in [Displayed -> Int]
      BY DEF MainInv, TypeInv
    <2>5. CASE UNCHANGED <<events, vehicle, shown, topicVars>>
      BY <2>1, <2>2, <2>5 DEF topicVars
    <2>6. CASE Datagram \/ StepReplay \/ ReplayTick
      <3>1. UNCHANGED <<vehicle, shown, noted, ready>>
        BY <2>6, Reads DEF MainInv, topicVars
      <3>2. events' = events \/ \E message \in Message : PostToParser(message)
        BY <2>6, Reads DEF MainInv
      <3>3. ASSUME NEW message \in Message, PostToParser(message)
            PROVE  \E e \in Event : e.to = "parser" /\ events' = Append(events, e)
        <4> DEFINE e == [to |-> "parser", kind |-> message.kind,
                         value |-> IF message.kind = "text" THEN texts + 1 ELSE message.value]
        <4>1. e \in Event /\ e.to = "parser"
          BY DEF MainInv, TypeInv, Message, Event, Kinds
        <4>2. events' = Append(events, e)
          BY <3>3 DEF PostToParser
        <4> QED  BY <4>1, <4>2
      <3>4. Panels(events', host.active, vehicle, shown, noted, ready)
        BY <2>2, <2>3, <3>2, <3>3, PanelsParser
      <3> QED  BY <2>1, <3>1, <3>4
    <2>7. CASE DeliverMessage
      <3> DEFINE e == Head(events)
                 q == Tail(events)
      <3>1. /\ events # <<>> /\ e.to = "parser" /\ vehicle' = Update(vehicle, e)
            /\ events' = q \o Post(host.active, e) /\ UNCHANGED <<shown, noted, ready>>
        BY <2>7 DEF DeliverMessage, topicVars
      <3>2. e \in Event /\ q \in Seq(Event)
        BY <2>3, <3>1, LiveTail
      <3>3. Panels(q, host.active, vehicle, shown, noted, ready)
        BY <2>2, <2>3, <3>1, <3>2, PanelsParser
      <3> HIDE DEF e, q
      <3>4. e.kind \in Kinds /\ e.value \in Int
        BY <3>2 DEF Event
      <3>5. Panels(events', host.active, vehicle', shown, noted, ready)
        BY <2>4, <3>1, <3>2, <3>3, <3>4, PanelsPost
      <3> QED  BY <2>1, <3>1, <3>5
    <2>8. CASE DummyTick
      <3> DEFINE q1 == events \o DummyPost("heartbeat")
                 q2 == q1 \o DummyPost("attitude")
                 q3 == q2 \o DummyPost("position")
                 q4 == q3 \o DummyPost("battery")
                 v1 == [vehicle EXCEPT !["heartbeat"] = Dummy]
                 v2 == [v1 EXCEPT !["attitude"] = Dummy]
                 v3 == [v2 EXCEPT !["position"] = Dummy]
                 v4 == [v3 EXCEPT !["battery"] = Dummy]
      <3>1. /\ events' = q4 /\ UNCHANGED <<shown, noted, ready>>
            /\ vehicle' = [f \in Fields |-> IF f = "mission" THEN vehicle[f] ELSE Dummy]
        BY <2>8 DEF DummyTick, DummyPost, topicVars
      <3>2. vehicle' = v4
        BY <2>4, <3>1 DEF Fields
      <3> HIDE DEF q4, v4
      <3>3. /\ q1 \in Seq(Event) /\ Live(q1, host.active) /\ v1 \in [Fields -> Int]
            /\ Panels(q1, host.active, v1, shown, noted, ready)
        BY <2>2, <2>3, <2>4, PanelsDummy DEF Fields
      <3> HIDE DEF q1, v1
      <3>4. /\ q2 \in Seq(Event) /\ Live(q2, host.active) /\ v2 \in [Fields -> Int]
            /\ Panels(q2, host.active, v2, shown, noted, ready)
        BY <3>3, PanelsDummy DEF Fields
      <3> HIDE DEF q2, v2
      <3>5. /\ q3 \in Seq(Event) /\ Live(q3, host.active) /\ v3 \in [Fields -> Int]
            /\ Panels(q3, host.active, v3, shown, noted, ready)
        BY <3>4, PanelsDummy DEF Fields
      <3> HIDE DEF q3, v3
      <3>6. Panels(q4, host.active, v4, shown, noted, ready)
        BY <3>5, PanelsDummy DEF Fields, q4, v4
      <3> QED  BY <2>1, <3>1, <3>2, <3>6
    <2>9. CASE DeliverToPlugin
      <3> DEFINE e == Head(events)
                 q == Tail(events)
      <3>1. /\ events # <<>> /\ e.to = "plugin" /\ events' = q
            /\ shown' = IF e.kind = "text" THEN shown ELSE Show(shown, e)
            /\ UNCHANGED <<vehicle, noted, ready>>
        BY <2>9 DEF DeliverToPlugin, topicVars
      <3>2. /\ Told(q, host.active, vehicle, Show(shown, e))
            /\ Show(shown, e)["battery"] # Unknown
        BY <2>2, <2>3, <2>4, <3>1, ToldShow DEF Panels
      <3>3. ~IsFor(e, "bus", Topic)
        BY <3>1 DEF IsFor
      <3>4. "recorder" \in host.active => Will(q, "bus", Topic, noted, ready)
        BY <2>2, <2>3, <3>1, <3>3, WillPopOther DEF Panels
      <3>5. e.kind = "text" => Show(shown, e) = shown
        <4>1. "text" \notin Displayed
          BY DEF Displayed, Fields
        <4> QED  BY <4>1 DEF Show
      <3> HIDE DEF e, q
      <3>6. Panels(events', host.active, vehicle, shown', noted, ready)
        BY <3>1, <3>2, <3>4, <3>5 DEF Panels
      <3> QED  BY <2>1, <3>1, <3>6
    <2>10. CASE PublishReadiness
      <3> DEFINE e == Publish(Topic, ready')
      <3>1. ready' \in {1, 2} /\ events' = Append(events, e) /\ UNCHANGED <<vehicle, shown, noted>>
        BY <2>10 DEF PublishReadiness, panelVars
      <3>2. e = [to |-> "bus", kind |-> Topic, value |-> ready']
        BY DEF Publish
      <3> HIDE DEF e
      <3>3. e \in Event /\ IsFor(e, "bus", Topic) /\ e.value = ready' /\ e.to # "plugin"
        BY <3>1, <3>2 DEF Event, Kinds, IsFor
      <3>4. Told(events', host.active, vehicle, shown)
        BY <2>2, <2>3, <3>1, <3>3, ToldOther DEF Panels
      <3>5. Will(events', "bus", Topic, noted, ready')
        BY <2>3, <3>1, <3>3, WillPush
      <3>6. Panels(events', host.active, vehicle, shown, noted, ready')
        BY <2>2, <3>4, <3>5 DEF Panels
      <3> QED  BY <2>1, <3>1, <3>6
    <2>11. CASE DispatchTopic
      <3> DEFINE e == Head(events)
                 q == Tail(events)
      <3>1. /\ events # <<>> /\ e.to = "bus" /\ events' = q
            /\ noted' = IF "recorder" \in Called(subs, e.kind) THEN e.value ELSE noted
            /\ UNCHANGED <<vehicle, shown, ready>>
        BY <2>11 DEF DispatchTopic, panelVars
      <3>2. Told(q, host.active, vehicle, shown)
        BY <2>2, <2>3, <3>1, ToldOther DEF Panels
      <3>3. ASSUME "recorder" \in host.active
            PROVE  Will(q, "bus", Topic, noted', ready)
        <4>1. Will(events, "bus", Topic, noted, ready)
          BY <2>2, <3>3 DEF Panels
        <4>2. subs = {<<Topic, "recorder">>}
          BY <3>3 DEF MainInv, HostInv
        <4>3. "recorder" \in Called(subs, e.kind) <=> e.kind = Topic
          <5>1. Called(subs, e.kind) = {s[2] : s \in {sub \in subs : sub[1] = e.kind}}
            BY Zenon DEF Called
          <5> DEFINE pair == <<Topic, "recorder">>
          <5>2. pair[1] = Topic /\ pair[2] = "recorder" /\ subs = {pair}
            BY <4>2
          <5> HIDE DEF pair
          <5> QED  BY <5>1, <5>2
        <4>4. CASE e.kind = Topic
          <5>1. noted' = e.value /\ IsFor(e, "bus", Topic)
            BY <3>1, <4>3, <4>4 DEF IsFor
          <5> QED  BY <2>3, <3>1, <4>1, <5>1, WillPop
        <4>5. CASE e.kind # Topic
          <5>1. noted' = noted /\ ~IsFor(e, "bus", Topic)
            BY <3>1, <4>3, <4>5 DEF IsFor
          <5> QED  BY <2>3, <3>1, <4>1, <5>1, WillPopOther
        <4> QED  BY <4>4, <4>5
      <3> HIDE DEF e, q
      <3>4. Panels(events', host.active, vehicle, shown, noted', ready)
        BY <2>2, <3>1, <3>2, <3>3 DEF Panels
      <3> QED  BY <2>1, <3>1, <3>4
    <2>12. \/ UNCHANGED <<events, vehicle, shown, topicVars>>
           \/ Datagram \/ StepReplay \/ ReplayTick \/ DeliverMessage \/ DummyTick
           \/ DeliverToPlugin \/ PublishReadiness \/ DispatchTopic
      BY <2>1 DEF Next, StartUp, User, Deliver, Connect, RequestReplay, SeekReplay, CloseWindow,
                  Exit, Gone, vars, panelVars, LoadConfiguration, MigrateConfiguration,
                  ValidateConfiguration, DiscoverPlugins, Autostart, StartDummyTelemetry
    <2> QED  BY <2>5, <2>6, <2>7, <2>8, <2>9, <2>10, <2>11, <2>12
  <1>3. StartDummyTelemetry \/ UNCHANGED idleVars
    BY IdleStep DEF StartUp, LoadConfiguration, MigrateConfiguration, ValidateConfiguration,
                    DiscoverPlugins, Autostart, CloseWindow, Exit
  <1> QED  BY <1>1, <1>2, <1>3

(* The panels agree with VehicleState as soon as the events posted to them *)
(* are served, and a subscriber of a topic with its last publication.      *)
THEOREM PanelsAlwaysCatchUp == Spec => []PanelsCatchUp
  <1>1. Init => PanelInv
    BY DEF Init, PanelInv
  <1>2. MainInv /\ PanelInv /\ [Next]_vars => PanelInv'
    BY PanelsStep
  <1>3. MainInv /\ PanelInv => PanelsCatchUp
    <2> SUFFICES ASSUME MainInv, PanelInv, phase = "running"
                 PROVE  PanelsCatchUp
      BY DEF PanelsCatchUp
    <2>1. events \in Seq(Event)
      BY DEF MainInv, QueueInv
    <2> QED  BY <2>1, WillKnowIs DEF PanelInv, Panels, Told, PanelsCatchUp
  <1> QED  BY <1>1, <1>2, <1>3, MainHolds, PTL DEF Spec
-----------------------------------------------------------------------------
(* The alerts.                                                             *)
Text(e, to) == IF e.to = to /\ e.kind = "text" THEN e.value ELSE 0

(* Texts(), of any queue.                                                  *)
TextsOf(q, to) == [i \in 1 .. Len(q) |-> Text(q[i], to)]

(* Status texts are numbered from 1.                                       *)
Worded(q) ==
  \A i \in 1 .. Len(q) : q[i].to # "bus" /\ q[i].kind = "text" => q[i].value # 0

LEMMA TextsIs ==
  ASSUME events \in Seq(Event), NEW to
  PROVE  Texts(to) = TextsOf(events, to)
  BY DEF Texts, TextsOf, Text

LEMMA TextsOfIs ==
  ASSUME NEW q \in Seq(Event), NEW to
  PROVE  /\ TextsOf(q, to) \in Seq(Int)
         /\ \A e \in Event : TextsOf(Append(q, e), to) = Append(TextsOf(q, to), Text(e, to))
         /\ q # <<>> => /\ TextsOf(q, to) # <<>> /\ Head(TextsOf(q, to)) = Text(Head(q), to)
                        /\ TextsOf(Tail(q), to) = Tail(TextsOf(q, to))
  <1> DEFINE t == TextsOf(q, to)
  <1>1. \A e \in Event : Text(e, to) \in Int
    BY DEF Text, Event
  <1>2. t \in Seq(Int) /\ Len(t) = Len(q) /\ \A i \in 1 .. Len(q) : t[i] = Text(q[i], to)
    BY <1>1 DEF TextsOf
  <1>3. ASSUME NEW e \in Event
        PROVE  TextsOf(Append(q, e), to) = Append(t, Text(e, to))
    <2> DEFINE r == Append(q, e)
               u == TextsOf(r, to)
    <2>1. /\ r \in Seq(Event) /\ Len(r) = Len(q) + 1 /\ r[Len(q) + 1] = e /\ Len(q) \in Nat
          /\ \A i \in 1 .. Len(q) : r[i] = q[i]
      OBVIOUS
    <2> HIDE DEF r
    <2>2. u \in Seq(Int) /\ Len(u) = Len(r) /\ \A i \in 1 .. Len(r) : u[i] = Text(r[i], to)
      BY <1>1, <2>1 DEF TextsOf
    <2> HIDE DEF t, u
    <2>3. Append(t, Text(e, to)) \in Seq(Int) /\ Len(Append(t, Text(e, to))) = Len(u)
      BY <1>1, <1>2, <2>1, <2>2
    <2>4. \A i \in 1 .. Len(u) : u[i] = Append(t, Text(e, to))[i]
      BY <1>1, <1>2, <2>1, <2>2
    <2>5. u = Append(t, Text(e, to))
      BY <2>2, <2>3, <2>4, SeqEqual
    <2> QED  BY <2>5 DEF t, u, r
  <1>4. ASSUME q # <<>>
        PROVE  /\ t # <<>> /\ Head(t) = Text(Head(q), to)
               /\ TextsOf(Tail(q), to) = Tail(t)
    <2> DEFINE r == Tail(q)
               u == TextsOf(r, to)
    <2>1. /\ r \in Seq(Event) /\ Len(q) = Len(r) + 1 /\ Len(r) \in Nat /\ Head(q) = q[1]
          /\ \A i \in 1 .. Len(r) : r[i] = q[i + 1] /\ i + 1 \in 1 .. Len(q)
      BY <1>4
    <2> HIDE DEF r
    <2>2. u \in Seq(Int) /\ Len(u) = Len(r) /\ \A i \in 1 .. Len(r) : u[i] = Text(r[i], to)
      BY <1>1, <2>1 DEF TextsOf
    <2> HIDE DEF t, u
    <2>3. t # <<>> /\ Head(t) = t[1] /\ 1 \in 1 .. Len(q)
      BY <1>2, <2>1
    <2>4. /\ Tail(t) \in Seq(Int) /\ Len(Tail(t)) = Len(u)
          /\ \A i \in 1 .. Len(u) : Tail(t)[i] = t[i + 1]
      BY <1>2, <2>1, <2>2, <2>3
    <2>5. \A i \in 1 .. Len(u) : u[i] = Tail(t)[i]
      BY <1>2, <2>1, <2>2, <2>4
    <2>6. u = Tail(t)
      BY <2>2, <2>4, <2>5, SeqEqual
    <2> QED  BY <1>2, <2>1, <2>3, <2>6 DEF t, u, r
  <1> QED  BY <1>2, <1>3, <1>4

LEMMA NumberedNaturals ==
  ASSUME NEW t \in Seq(Int), NEW from \in Nat, NEW upto \in Nat, Numbered(t, from, upto)
  PROVE  t \in Seq(Nat)
  <1>1. \A i \in 1 .. Len(t) : t[i] # 0 => t[i] \in from .. upto
    BY DEF Numbered
  <1>2. \A i \in 1 .. Len(t) : t[i] \in Nat
    BY <1>1
  <1> QED  BY <1>2

LEMMA TextsPush ==
  ASSUME NEW q \in Seq(Event), NEW e \in Event, NEW to,
         NEW from \in Nat \ {0}, NEW upto \in Nat, Numbered(TextsOf(q, to), from, upto)
  PROVE  /\ Text(e, to) = upto + 1 => Numbered(TextsOf(Append(q, e), to), from, upto + 1)
         /\ Text(e, to) = 0 => Numbered(TextsOf(Append(q, e), to), from, upto)
  <1> DEFINE t == TextsOf(q, to)
  <1>1. TextsOf(Append(q, e), to) = Append(t, Text(e, to)) /\ t \in Seq(Int)
    BY TextsOfIs
  <1> HIDE DEF t
  <1>2. Numbered(t, from, upto)
    BY DEF t
  <1>3. t \in Seq(Nat)
    BY <1>1, <1>2, NumberedNaturals
  <1> QED  BY <1>1, <1>2, <1>3, NumberedPush, NumberedPushOther

LEMMA TextsPop ==
  ASSUME NEW q \in Seq(Event), q # <<>>, NEW to,
         NEW from \in Nat \ {0}, NEW upto \in Nat, Numbered(TextsOf(q, to), from, upto)
  PROVE  /\ Text(Head(q), to) = 0 => Numbered(TextsOf(Tail(q), to), from, upto)
         /\ Text(Head(q), to) # 0 =>
              /\ Text(Head(q), to) = from /\ from <= upto
              /\ Numbered(TextsOf(Tail(q), to), from + 1, upto)
  <1> DEFINE t == TextsOf(q, to)
  <1>1. /\ TextsOf(Tail(q), to) = Tail(t) /\ t \in Seq(Int)
        /\ t # <<>> /\ Head(t) = Text(Head(q), to)
    BY TextsOfIs
  <1> HIDE DEF t
  <1>2. Numbered(t, from, upto)
    BY DEF t
  <1>3. t \in Seq(Nat)
    BY <1>1, <1>2, NumberedNaturals
  <1>4. CASE Head(t) = 0
    <2>1. Numbered(Tail(t), from, upto)
      BY <1>1, <1>2, <1>3, <1>4, NumberedPopOther
    <2> QED  BY <1>1, <1>4, <2>1
  <1>5. CASE Head(t) # 0
    <2>1. Head(t) = from /\ from <= upto /\ Numbered(Tail(t), from + 1, upto)
      BY <1>1, <1>2, <1>3, <1>5, NumberedPop
    <2> QED  BY <1>1, <1>5, <2>1
  <1> QED  BY <1>4, <1>5

(* One more alert in the console: onAlert() drops the oldest when full.    *)
LEMMA RaiseIs ==
  ASSUME NEW served \in Nat, NEW max \in Nat \ {0}
  PROVE  Raise(Newest(served, max), served + 1, max) = Newest(served + 1, max)
  <1> DEFINE n   == IF served < max THEN served ELSE max
             old == Newest(served, max)
             all == Append(old, served + 1)
             new == Newest(served + 1, max)
  <1>1. old = [i \in 1 .. n |-> served - n + i] /\ n \in Nat
    BY DEF Newest
  <1>2. old \in Seq(Int) /\ Len(old) = n
    BY <1>1
  <1> HIDE DEF old
  <1>3. /\ all \in Seq(Int) /\ Len(all) = n + 1 /\ all[n + 1] = served + 1
        /\ \A i \in 1 .. n : all[i] = served - n + i
    BY <1>1, <1>2
  <1>4. Raise(old, served + 1, max) =
          IF Len(all) > max THEN SubSeq(all, Len(all) - max + 1, Len(all)) ELSE all
    BY DEF Raise
  <1> HIDE DEF all, new
  <1>5. CASE served < max
    <2>1. n = served /\ Len(all) = served + 1 /\ ~(Len(all) > max)
      BY <1>3, <1>5
    <2>2. new = [i \in 1 .. served + 1 |-> i]
      BY <1>5 DEF Newest, new
    <2>3. \A i \in 1 .. served + 1 : all[i] = i
      BY <1>3, <2>1
    <2>4. new \in Seq(Int) /\ Len(new) = served + 1 /\ \A i \in 1 .. served + 1 : new[i] = i
      BY <2>2
    <2>5. new = all
      BY <1>3, <2>1, <2>3, <2>4, SeqEqual
    <2> QED  BY <1>4, <2>1, <2>5 DEF old, new
  <1>6. CASE served >= max
    <2>1. n = max /\ Len(all) = max + 1 /\ Len(all) > max /\ Len(all) - max + 1 = 2
      BY <1>3, <1>6
    <2> DEFINE last == SubSeq(all, 2, max + 1)
    <2>2. last \in Seq(Int) /\ Len(last) = max /\ \A i \in 1 .. max : last[i] = all[i + 1]
      BY <1>3, <2>1
    <2> HIDE DEF last
    <2>3. ASSUME NEW i \in 1 .. max
          PROVE  last[i] = served + 1 - max + i
      <3>1. last[i] = all[i + 1]
        BY <2>2
      <3>2. CASE i + 1 <= n
        <4>1. i + 1 \in 1 .. n
          BY <2>1, <3>2
        <4>2. all[i + 1] = served - n + (i + 1)
          BY <1>3, <4>1
        <4> QED  BY <1>1, <2>1, <3>1, <4>2
      <3>3. CASE i = n
        BY <1>1, <1>3, <2>1, <3>1, <3>3
      <3> QED  BY <1>1, <2>1, <3>2, <3>3
    <2>4. new = [i \in 1 .. max |-> served + 1 - max + i]
      BY <1>6 DEF Newest, new
    <2>5. new \in Seq(Int) /\ Len(new) = max /\ \A i \in 1 .. max : new[i] = served + 1 - max + i
      BY <2>4
    <2>6. new = last
      BY <2>2, <2>3, <2>5, SeqEqual
    <2> QED  BY <1>4, <2>1, <2>6 DEF old, new, last
  <1> QED  BY <1>5, <1>6

(* The console shows the first `served' texts, the queue holds the others. *)
Split(q, al, n, max, served, parsed) ==
  /\ al = Newest(served, max)
  /\ Numbered(TextsOf(q, "plugin"), served + 1, parsed)
  /\ Numbered(TextsOf(q, "parser"), parsed + 1, n)

InOrder(q, al, n, max) ==
  \E served, parsed \in 0 .. n : Split(q, al, n, max, served, parsed)

AlertInv ==
  phase = "running" =>
    /\ Worded(events)
    /\ "alert_console" \in host.active => InOrder(events, alerts, texts, settings.maxItems)

LEMMA WordedIs ==
  ASSUME NEW q \in Seq(Event), Worded(q)
  PROVE  /\ \A e \in Event : (e.to # "bus" /\ e.kind = "text" => e.value # 0) => Worded(Append(q, e))
         /\ q # <<>> => /\ Worded(Tail(q))
                        /\ Head(q).to # "bus" /\ Head(q).kind = "text" => Head(q).value # 0
  <1>1. ASSUME NEW e \in Event, e.to # "bus" /\ e.kind = "text" => e.value # 0
        PROVE  Worded(Append(q, e))
    <2> DEFINE r == Append(q, e)
    <2>1. /\ Len(r) = Len(q) + 1 /\ r[Len(q) + 1] = e /\ Len(q) \in Nat
          /\ \A i \in 1 .. Len(q) : r[i] = q[i]
      OBVIOUS
    <2> HIDE DEF r
    <2>2. \A i \in 1 .. Len(r) : i \in 1 .. Len(q) \/ r[i] = e
      BY <2>1
    <2>3. Worded(r)
      BY <1>1, <2>1, <2>2 DEF Worded
    <2> QED  BY <2>3 DEF r
  <1>2. ASSUME q # <<>>
        PROVE  /\ Worded(Tail(q))
               /\ Head(q).to # "bus" /\ Head(q).kind = "text" => Head(q).value # 0
    <2> DEFINE r == Tail(q)
    <2>1. /\ Head(q) = q[1] /\ 1 \in 1 .. Len(q)
          /\ \A i \in 1 .. Len(r) : r[i] = q[i + 1] /\ i + 1 \in 1 .. Len(q)
      BY <1>2
    <2> HIDE DEF r
    <2>2. Worded(r)
      BY <2>1 DEF Worded
    <2> QED  BY <2>1, <2>2 DEF Worded, r
  <1> QED  BY <1>1, <1>2

(* An event that is no text joins or leaves the queue.                     *)
LEMMA InOrderOther ==
  ASSUME NEW q \in Seq(Event), NEW al, NEW n \in Nat, NEW max, InOrder(q, al, n, max)
  PROVE  /\ \A e \in Event : e.to = "bus" \/ e.kind # "text" => InOrder(Append(q, e), al, n, max)
         /\ q # <<>> /\ (Head(q).to = "bus" \/ Head(q).kind # "text") => InOrder(Tail(q), al, n, max)
  <1>1. PICK served \in 0 .. n, parsed \in 0 .. n : Split(q, al, n, max, served, parsed)
    BY DEF InOrder
  <1>2. served + 1 \in Nat \ {0} /\ parsed + 1 \in Nat \ {0} /\ parsed \in Nat
    OBVIOUS
  <1>3. \A e : e.to = "bus" \/ e.kind # "text" => Text(e, "plugin") = 0 /\ Text(e, "parser") = 0
    BY DEF Text
  <1>4. ASSUME NEW e \in Event, e.to = "bus" \/ e.kind # "text"
        PROVE  InOrder(Append(q, e), al, n, max)
    <2>1. Numbered(TextsOf(Append(q, e), "plugin"), served + 1, parsed)
      BY <1>1, <1>2, <1>3, <1>4, TextsPush DEF Split
    <2>2. Numbered(TextsOf(Append(q, e), "parser"), parsed + 1, n)
      BY <1>1, <1>2, <1>3, <1>4, TextsPush DEF Split
    <2>3. Split(Append(q, e), al, n, max, served, parsed)
      BY <1>1, <2>1, <2>2 DEF Split
    <2> QED  BY <2>3 DEF InOrder
  <1>5. ASSUME q # <<>>, Head(q).to = "bus" \/ Head(q).kind # "text"
        PROVE  InOrder(Tail(q), al, n, max)
    <2>1. Numbered(TextsOf(Tail(q), "plugin"), served + 1, parsed)
      BY <1>1, <1>2, <1>3, <1>5, TextsPop DEF Split
    <2>2. Numbered(TextsOf(Tail(q), "parser"), parsed + 1, n)
      BY <1>1, <1>2, <1>3, <1>5, TextsPop DEF Split
    <2>3. Split(Tail(q), al, n, max, served, parsed)
      BY <1>1, <2>1, <2>2 DEF Split
    <2> QED  BY <2>3 DEF InOrder
  <1> QED  BY <1>4, <1>5

(* A text is received: it is the next one.                                 *)
LEMMA InOrderReceive ==
  ASSUME NEW q \in Seq(Event), NEW al, NEW n \in Nat, NEW max, InOrder(q, al, n, max),
         NEW e \in Event, e.to = "parser", e.kind = "text", e.value = n + 1
  PROVE  InOrder(Append(q, e), al, n + 1, max)
  <1>1. PICK served \in 0 .. n, parsed \in 0 .. n : Split(q, al, n, max, served, parsed)
    BY DEF InOrder
  <1>2. served + 1 \in Nat \ {0} /\ parsed + 1 \in Nat \ {0} /\ parsed \in Nat
    OBVIOUS
  <1>3. Text(e, "plugin") = 0 /\ Text(e, "parser") = n + 1
    BY DEF Text
  <1>4. Numbered(TextsOf(Append(q, e), "plugin"), served + 1, parsed)
    BY <1>1, <1>2, <1>3, TextsPush DEF Split
  <1>5. Numbered(TextsOf(Append(q, e), "parser"), parsed + 1, n + 1)
    BY <1>1, <1>2, <1>3, TextsPush DEF Split
  <1>6. Split(Append(q, e), al, n + 1, max, served, parsed)
    BY <1>1, <1>4, <1>5 DEF Split
  <1>7. served \in 0 .. n + 1 /\ parsed \in 0 .. n + 1
    OBVIOUS
  <1> QED  BY <1>6, <1>7 DEF InOrder

(* The parser hands a text on: it is the next one for the console.         *)
LEMMA InOrderParse ==
  ASSUME NEW q \in Seq(Event), NEW al, NEW n \in Nat, NEW max, InOrder(q, al, n, max), q # <<>>,
         Worded(q), Head(q).to = "parser", Head(q).kind = "text",
         NEW e \in Event, e.to = "plugin", e.kind = "text", e.value = Head(q).value
  PROVE  InOrder(Append(Tail(q), e), al, n, max)
  <1>1. PICK served \in 0 .. n, parsed \in 0 .. n : Split(q, al, n, max, served, parsed)
    BY DEF InOrder
  <1>2. served + 1 \in Nat \ {0} /\ parsed + 1 \in Nat \ {0} /\ parsed \in Nat
        /\ (parsed + 1) + 1 \in Nat \ {0}
    OBVIOUS
  <1>3. Text(Head(q), "plugin") = 0 /\ Text(Head(q), "parser") = e.value /\ e.value # 0
    BY WordedIs DEF Text
  <1>4. Numbered(TextsOf(Tail(q), "plugin"), served + 1, parsed)
    BY <1>1, <1>2, <1>3, TextsPop DEF Split
  <1>5. /\ e.value = parsed + 1 /\ parsed + 1 <= n
        /\ Numbered(TextsOf(Tail(q), "parser"), (parsed + 1) + 1, n)
    BY <1>1, <1>2, <1>3, TextsPop DEF Split
  <1>6. Text(e, "plugin") = parsed + 1 /\ Text(e, "parser") = 0
    BY <1>5 DEF Text
  <1>7. Tail(q) \in Seq(Event)
    OBVIOUS
  <1>8. Numbered(TextsOf(Append(Tail(q), e), "plugin"), served + 1, parsed + 1)
    BY <1>2, <1>4, <1>6, <1>7, TextsPush
  <1>9. Numbered(TextsOf(Append(Tail(q), e), "parser"), (parsed + 1) + 1, n)
    BY <1>2, <1>5, <1>6, <1>7, TextsPush
  <1>10. Split(Append(Tail(q), e), al, n, max, served, parsed + 1)
    BY <1>1, <1>8, <1>9 DEF Split
  <1>11. parsed + 1 \in 0 .. n
    BY <1>5
  <1> QED  BY <1>10, <1>11 DEF InOrder

(* The console shows a text: it is the next one.                           *)
LEMMA InOrderShow ==
  ASSUME NEW q \in Seq(Event), NEW al, NEW n \in Nat, NEW max \in Nat \ {0},
         InOrder(q, al, n, max), q # <<>>,
         Worded(q), Head(q).to = "plugin", Head(q).kind = "text"
  PROVE  InOrder(Tail(q), Raise(al, Head(q).value, max), n, max)
  <1>1. PICK served \in 0 .. n, parsed \in 0 .. n : Split(q, al, n, max, served, parsed)
    BY DEF InOrder
  <1>2. served + 1 \in Nat \ {0} /\ parsed + 1 \in Nat \ {0} /\ parsed \in Nat
    OBVIOUS
  <1> DEFINE value == Head(q).value
  <1>3. Text(Head(q), "parser") = 0 /\ Text(Head(q), "plugin") = value /\ value # 0
    BY WordedIs DEF Text
  <1>4. /\ value = served + 1 /\ served + 1 <= parsed
        /\ Numbered(TextsOf(Tail(q), "plugin"), (served + 1) + 1, parsed)
    BY <1>1, <1>2, <1>3, TextsPop DEF Split
  <1>5. Numbered(TextsOf(Tail(q), "parser"), parsed + 1, n)
    BY <1>1, <1>2, <1>3, TextsPop DEF Split
  <1>6. Raise(al, value, max) = Newest(served + 1, max)
    BY <1>1, <1>4, RaiseIs DEF Split
  <1>7. Split(Tail(q), Raise(al, value, max), n, max, served + 1, parsed)
    BY <1>4, <1>5, <1>6 DEF Split
  <1>8. served + 1 \in 0 .. n
    BY <1>4
  <1> QED  BY <1>7, <1>8 DEF InOrder

LEMMA AlertStart ==
  ASSUME ConfigInv, QuietInv, StartDummyTelemetry
  PROVE  AlertInv'
  <1> DEFINE max == settings.maxItems
  <1>1. /\ events' = <<>> /\ alerts' = <<>> /\ texts' = 0 /\ settings' = settings
        /\ phase = "autostart"
    BY DEF StartDummyTelemetry, QuietInv, Running, panelVars, configVars, settings
  <1>2. max \in Nat \ {0}
    BY <1>1, SettingsHold, IntAssumption DEF InRange
  <1> HIDE DEF max
  <1>3. Newest(0, max) = <<>>
    BY <1>2 DEF Newest
  <1>4. \A to : TextsOf(<<>>, to) = <<>>
    BY DEF TextsOf
  <1>5. Numbered(<<>>, 0 + 1, 0)
    BY NumberedEmpty
  <1>6. Split(<<>>, <<>>, 0, max, 0, 0)
    BY <1>3, <1>4, <1>5 DEF Split
  <1>7. InOrder(<<>>, <<>>, 0, max) /\ Worded(<<>>)
    BY <1>6 DEF InOrder, Worded
  <1> QED  BY <1>1, <1>7 DEF AlertInv, max

LEMMA AlertPost ==
  ASSUME NEW q \in Seq(Event), NEW e \in Event, NEW active,
         e.to # "bus" /\ e.kind = "text" => e.value # 0, Worded(q)
  PROVE  /\ Worded(q \o Post(active, e)) \/ e.to = "bus"
         /\ \A al, max : \A n \in Nat : InOrder(q, al, n, max) /\ e.kind # "text" =>
              InOrder(q \o Post(active, e), al, n, max)
         /\ e.kind = "text" /\ "alert_console" \in active =>
              q \o Post(active, e) = Append(q, ToPlugin(e))
         /\ ToPlugin(e) \in Event
  <1>1. q \o Post(active, e) = IF Heard(active, e) THEN Append(q, ToPlugin(e)) ELSE q
    BY PostIs
  <1>2. /\ ToPlugin(e) \in Event /\ ToPlugin(e).kind = e.kind /\ ToPlugin(e).value = e.value
    BY DEF ToPlugin, Event
  <1>3. Worded(q \o Post(active, e)) \/ e.to = "bus"
    BY <1>1, <1>2, WordedIs
  <1>4. \A al, max : \A n \in Nat : InOrder(q, al, n, max) /\ e.kind # "text" =>
          InOrder(q \o Post(active, e), al, n, max)
    BY <1>1, <1>2, InOrderOther
  <1>5. e.kind = "text" /\ "alert_console" \in active => Heard(active, e)
    BY DEF Heard, ListenerOf
  <1> QED  BY <1>1, <1>2, <1>3, <1>4, <1>5

(* One field of the dummy telemetry is no text.                            *)
LEMMA AlertDummy ==
  ASSUME NEW q \in Seq(Event), Live(q, host.active), Worded(q), NEW kind \in Fields
  PROVE  /\ q \o DummyPost(kind) \in Seq(Event) /\ Live(q \o DummyPost(kind), host.active)
         /\ Worded(q \o DummyPost(kind))
         /\ \A al, max : \A n \in Nat :
              InOrder(q, al, n, max) => InOrder(q \o DummyPost(kind), al, n, max)
  <1> DEFINE message == [kind |-> kind, value |-> Dummy]
             e == ToPlugin(message)
  <1>1. message.kind # "text"
    BY DEF Fields
  <1>2. e \in Event /\ e.kind # "text"
    BY <1>1 DEF ToPlugin, Event, Kinds, Dummy
  <1>3. DummyPost(kind) = Post(host.active, message)
    BY DEF DummyPost
  <1> HIDE DEF message, e
  <1>4. q \o DummyPost(kind) = IF Heard(host.active, message) THEN Append(q, e) ELSE q
    BY <1>3, PostIs DEF e
  <1>5. Worded(q \o DummyPost(kind))
    BY <1>2, <1>4, WordedIs
  <1>6. \A al, max : \A n \in Nat :
          InOrder(q, al, n, max) => InOrder(q \o DummyPost(kind), al, n, max)
    BY <1>2, <1>4, InOrderOther
  <1> QED  BY <1>5, <1>6, LiveDummy

LEMMA AlertStep ==
  ASSUME MainInv, AlertInv, [Next]_vars
  PROVE  AlertInv'
  <1> SUFFICES ASSUME phase' = "running"
               PROVE  AlertInv'
    BY DEF AlertInv
  <1>1. CASE StartDummyTelemetry
    BY <1>1, AlertStart DEF MainInv
  <1>2. CASE UNCHANGED idleVars
    <2> DEFINE max == settings.maxItems
               listens == "alert_console" \in host.active
    <2>1. phase = "running" /\ host' = host /\ settings' = settings
      BY <1>2 DEF idleVars, pluginVars, configVars, settings
    <2>2. Worded(events) /\ (listens => InOrder(events, alerts, texts, max))
      BY <2>1 DEF AlertInv
    <2>3. events \in Seq(Event) /\ Live(events, host.active) /\ texts \in Nat
      BY DEF MainInv, QueueInv, TypeInv
    <2>4. max \in Nat \ {0}
      BY <2>1, SettingsHold, IntAssumption DEF MainInv, InRange
    <2> SUFFICES Worded(events') /\ (listens => InOrder(events', alerts', texts', max))
      BY <2>1 DEF AlertInv
    <2> HIDE DEF max, listens
    <2>5. CASE UNCHANGED <<events, alerts, texts>>
      BY <2>2, <2>5
    <2>6. CASE Datagram \/ StepReplay \/ ReplayTick
      <3>1. alerts' = alerts
        BY <2>6, Reads DEF MainInv
      <3>2. UNCHANGED <<events, texts>> \/ \E message \in Message : PostToParser(message)
        BY <2>6, Reads DEF MainInv
      <3>3. ASSUME NEW message \in Message, PostToParser(message)
            PROVE  Worded(events') /\ (listens => InOrder(events', alerts', texts', max))
        <4> DEFINE e == [to |-> "parser", kind |-> message.kind,
                         value |-> IF message.kind = "text" THEN texts + 1 ELSE message.value]
        <4>1. /\ e \in Event /\ e.to = "parser" /\ e.kind = message.kind
              /\ e.kind = "text" => e.value = texts + 1 /\ e.value # 0
          BY <2>3 DEF Message, Event, Kinds
        <4>2. /\ events' = Append(events, e)
              /\ texts' = IF e.kind = "text" THEN texts + 1 ELSE texts
          BY <3>3 DEF PostToParser
        <4> HIDE DEF e
        <4>3. Worded(events')
          BY <2>2, <2>3, <4>1, <4>2, WordedIs
        <4>4. ASSUME InOrder(events, alerts, texts, max)
              PROVE  InOrder(events', alerts, texts', max)
          <5>1. CASE e.kind = "text"
            BY <2>3, <4>1, <4>2, <4>4, <5>1, InOrderReceive
          <5>2. CASE e.kind # "text"
            BY <2>3, <4>1, <4>2, <4>4, <5>2, InOrderOther
          <5> QED  BY <5>1, <5>2
        <4> QED  BY <2>2, <3>1, <4>3, <4>4
      <3> QED  BY <2>2, <3>1, <3>2, <3>3
    <2>7. CASE DeliverMessage
      <3> DEFINE e == Head(events)
                 q == Tail(events)
      <3>1. /\ events # <<>> /\ e.to = "parser" /\ events' = q \o Post(host.active, e)
            /\ UNCHANGED <<alerts, texts>>
        BY <2>7 DEF DeliverMessage
      <3>2. e \in Event /\ q \in Seq(Event)
        BY <2>3, <3>1, LiveTail
      <3>3. Worded(q) /\ (e.to # "bus" /\ e.kind = "text" => e.value # 0)
        BY <2>2, <2>3, <3>1, WordedIs
      <3>4. Worded(events')
        BY <3>1, <3>2, <3>3, AlertPost
      <3>5. ASSUME listens
            PROVE  InOrder(events', alerts, texts, max)
        <4>1. CASE e.kind = "text"
          <5>1. events' = Append(q, ToPlugin(e)) /\ ToPlugin(e) \in Event
            BY <3>1, <3>2, <3>3, <3>5, <4>1, AlertPost DEF listens
          <5>2. ToPlugin(e).to = "plugin" /\ ToPlugin(e).kind = "text" /\ ToPlugin(e).value = e.value
            BY <4>1 DEF ToPlugin
          <5> QED  BY <2>2, <2>3, <3>1, <3>5, <4>1, <5>1, <5>2, InOrderParse
        <4>2. CASE e.kind # "text"
          <5>1. InOrder(q, alerts, texts, max)
            BY <2>2, <2>3, <3>1, <3>5, <4>2, InOrderOther
          <5> QED  BY <2>3, <3>1, <3>2, <3>3, <4>2, <5>1, AlertPost
        <4> QED  BY <4>1, <4>2
      <3> QED  BY <3>1, <3>4, <3>5
    <2>8. CASE DummyTick
      <3> DEFINE q1 == events \o DummyPost("heartbeat")
                 q2 == q1 \o DummyPost("attitude")
                 q3 == q2 \o DummyPost("position")
                 q4 == q3 \o DummyPost("battery")
                 StaysInOrder(q) == InOrder(events, alerts, texts, max) => InOrder(q, alerts, texts, max)
      <3>1. events' = q4 /\ UNCHANGED <<alerts, texts>>
        BY <2>8 DEF DummyTick, DummyPost
      <3> HIDE DEF q4
      <3>2. q1 \in Seq(Event) /\ Live(q1, host.active) /\ Worded(q1) /\ StaysInOrder(q1)
        BY <2>2, <2>3, AlertDummy DEF Fields
      <3> HIDE DEF q1
      <3>3. q2 \in Seq(Event) /\ Live(q2, host.active) /\ Worded(q2) /\ StaysInOrder(q2)
        BY <2>3, <3>2, AlertDummy DEF Fields
      <3> HIDE DEF q2
      <3>4. q3 \in Seq(Event) /\ Live(q3, host.active) /\ Worded(q3) /\ StaysInOrder(q3)
        BY <2>3, <3>3, AlertDummy DEF Fields
      <3> HIDE DEF q3
      <3>5. Worded(q4) /\ StaysInOrder(q4)
        BY <2>3, <3>4, AlertDummy DEF Fields, q4
      <3> QED  BY <2>2, <3>1, <3>5
    <2>9. CASE DeliverToPlugin
      <3>1. /\ events # <<>> /\ Head(events).to = "plugin" /\ events' = Tail(events) /\ texts' = texts
            /\ alerts' = IF Head(events).kind = "text" THEN Raise(alerts, Head(events).value, max)
                           ELSE alerts
        BY <2>9 DEF DeliverToPlugin, max
      <3>2. Worded(events')
        BY <2>2, <2>3, <3>1, WordedIs
      <3>3. InOrder(events, alerts, texts, max) => InOrder(events', alerts', texts, max)
        <4>1. CASE Head(events).kind = "text"
          BY <2>2, <2>3, <2>4, <3>1, <4>1, InOrderShow
        <4>2. CASE Head(events).kind # "text"
          BY <2>3, <3>1, <4>2, InOrderOther
        <4> QED  BY <4>1, <4>2
      <3> QED  BY <2>2, <3>1, <3>2, <3>3
    <2>10. CASE PublishReadiness
      <3> DEFINE e == Publish(Topic, ready')
      <3>1. ready' \in {1, 2} /\ events' = Append(events, e) /\ UNCHANGED <<alerts, texts>>
        BY <2>10 DEF PublishReadiness, panelVars
      <3>2. e = [to |-> "bus", kind |-> Topic, value |-> ready']
        BY DEF Publish
      <3> HIDE DEF e
      <3>3. e \in Event /\ e.to = "bus"
        BY <3>1, <3>2 DEF Event, Kinds
      <3> QED  BY <2>2, <2>3, <3>1, <3>3, WordedIs, InOrderOther
    <2>11. CASE DispatchTopic
      <3>1. /\ events # <<>> /\ Head(events).to = "bus" /\ events' = Tail(events)
            /\ UNCHANGED <<alerts, texts>>
        BY <2>11 DEF DispatchTopic, panelVars
      <3> QED  BY <2>2, <2>3, <3>1, WordedIs, InOrderOther
    <2>12. \/ UNCHANGED <<events, alerts, texts>>
           \/ Datagram \/ StepReplay \/ ReplayTick \/ DeliverMessage \/ DummyTick
           \/ DeliverToPlugin \/ PublishReadiness \/ DispatchTopic
      BY <2>1 DEF Next, StartUp, User, Deliver, Connect, RequestReplay, SeekReplay, CloseWindow,
                  Exit, Gone, vars, panelVars, LoadConfiguration, MigrateConfiguration,
                  ValidateConfiguration, DiscoverPlugins, Autostart, StartDummyTelemetry
    <2> QED  BY <2>5, <2>6, <2>7, <2>8, <2>9, <2>10, <2>11, <2>12
  <1>3. StartDummyTelemetry \/ UNCHANGED idleVars
    BY IdleStep DEF StartUp, LoadConfiguration, MigrateConfiguration, ValidateConfiguration,
                    DiscoverPlugins, Autostart, CloseWindow, Exit
  <1> QED  BY <1>1, <1>2, <1>3

(* The alert console shows the newest alerts in the order they were sent,  *)
(* and the events in the queue hold the rest: none is lost, shown twice or *)
(* overtaken between the parser, the bus and the console.                  *)
THEOREM AlertsAlwaysInOrder == Spec => []AlertsInOrder
  <1>1. Init => AlertInv
    BY DEF Init, AlertInv
  <1>2. MainInv /\ AlertInv /\ [Next]_vars => AlertInv'
    BY AlertStep
  <1>3. MainInv /\ AlertInv => AlertsInOrder
    <2> SUFFICES ASSUME MainInv, AlertInv, phase = "running", "alert_console" \in host.active
                 PROVE  \E served, parsed \in 0 .. texts :
                          /\ alerts = Newest(served, settings.maxItems)
                          /\ Numbered(Texts("plugin"), served + 1, parsed)
                          /\ Numbered(Texts("parser"), parsed + 1, texts)
      BY DEF AlertsInOrder
    <2>1. \A to : Texts(to) = TextsOf(events, to)
      BY TextsIs DEF MainInv, QueueInv
    <2> QED  BY <2>1 DEF AlertInv, InOrder, Split
  <1> QED  BY <1>1, <1>2, <1>3, MainHolds, PTL DEF Spec
-----------------------------------------------------------------------------
(* What a replay has played.                                               *)
(* Of a recording the parser that starts between two frames is in a frame  *)
(* after its first half only, wherever the frames of the file begin.       *)
LEMMA StatesOfParser ==
  ASSUME NEW file, Recording(file), NEW start \in 0 .. Len(file), start # 0 => file[start][2] = 2,
         NEW at,
         at = CHOOSE f : f = [p \in start .. Len(file) |->
                IF p = start THEN InNoFrame ELSE Feed(f[p - 1], file[p])]
  PROVE  \A p \in start .. Len(file) :
           at[p] = IF p # start /\ file[p][2] = 1 THEN file[p][1] ELSE InNoFrame
  <1> DEFINE Steps(f) == f = [p \in start .. Len(file) |->
                           IF p = start THEN InNoFrame ELSE Feed(f[p - 1], file[p])]
             known == [p \in start .. Len(file) |->
                         IF p # start /\ file[p][2] = 1 THEN file[p][1] ELSE InNoFrame]
  <1>1. /\ file \in Seq(Halves) /\ Len(file) \in Nat /\ start \in Nat
        /\ \A p \in 1 .. Len(file) - 1 : file[p][2] = 1 => file[p + 1] = <<file[p][1], 2>>
    BY DEF Recording
  <1>2. ASSUME NEW p \in start .. Len(file), p # start, file[p][2] = 1
        PROVE  p - 1 = start \/ file[p - 1][2] # 1
    <2> SUFFICES ASSUME p - 1 # start, file[p - 1][2] = 1
                 PROVE  FALSE
      OBVIOUS
    <2>1. p - 1 \in 1 .. Len(file) - 1 /\ (p - 1) + 1 = p
      BY <1>1, <1>2
    <2>2. file[p] = <<file[p - 1][1], 2>>
      BY <1>1, <2>1
    <2> QED  BY <1>2, <2>2
  <1>3. Steps(known)
    <2> SUFFICES ASSUME NEW p \in start .. Len(file), p # start
                 PROVE  known[p] = Feed(known[p - 1], file[p])
      OBVIOUS
    <2>1. p - 1 \in start .. Len(file)
      BY <1>1
    <2>2. CASE file[p][2] = 1
      <3>1. known[p - 1] = InNoFrame
        BY <1>2, <2>1, <2>2
      <3> QED  BY <2>2, <3>1 DEF Feed
    <2>3. CASE file[p][2] # 1
      BY <2>3 DEF Feed
    <2> QED  BY <2>2, <2>3
  <1>4. Steps(at)
    <2> HIDE DEF known
    <2> QED  BY <1>3, Zenon
  <1>5. at = [p \in start .. Len(file) |->
               IF p = start THEN InNoFrame ELSE Feed(at[p - 1], file[p])]
    BY <1>4
  <1> HIDE DEF Steps, known
  <1>6. ASSUME NEW p \in start .. Len(file), p # start
        PROVE  p - 1 \in start .. Len(file) /\ at[p] = Feed(at[p - 1], file[p])
    <2> DEFINE all == [q \in start .. Len(file) |->
                        IF q = start THEN InNoFrame ELSE Feed(at[q - 1], file[q])]
    <2>1. p - 1 \in start .. Len(file)
      BY <1>1, <1>6
    <2>2. all[p] = Feed(at[p - 1], file[p])
      BY <1>6
    <2>3. at = all
      BY <1>5
    <2> HIDE DEF all
    <2>4. at[p] = all[p]
      BY <2>3
    <2> QED  BY <2>1, <2>2, <2>4
  <1>7. at[start] = InNoFrame
    BY <1>1, <1>5
  <1>8. ASSUME NEW p \in start .. Len(file), file[p][2] # 1 \/ p = start
        PROVE  at[p] = InNoFrame
    BY <1>6, <1>7, <1>8 DEF Feed
  <1>9. ASSUME NEW p \in start .. Len(file), p # start, file[p][2] = 1
        PROVE  at[p] = file[p][1]
    <2>1. p - 1 \in start .. Len(file) /\ at[p] = Feed(at[p - 1], file[p])
      BY <1>6, <1>9
    <2>2. at[p - 1] = InNoFrame
      BY <1>2, <1>8, <1>9, <2>1
    <2> QED  BY <1>9, <2>1, <2>2 DEF Feed
  <1> QED  BY <1>8, <1>9

(* A read from the end of a frame on finds the next whole frame, or none   *)
(* and then the end of the file.                                           *)
LEMMA ReadNextReads ==
  ASSUME NEW r \in Replays, Recording(r.file), r.pos <= Len(r.file),
         r.pos # 0 => r.file[r.pos][2] = 2
  PROVE  LET read == ReadNext(r, InNoFrame)
         IN  /\ WholeFrames(r.file, read.pos) = WholeFrames(r.file, r.pos) \union ({read.frame} \ {0})
             /\ \/ read.pos = Len(r.file)
                \/ read.channel = InNoFrame /\ r.file[read.pos][2] = 2
  <1> DEFINE file  == r.file
             start == r.pos
             last  == Len(file)
             at    == CHOOSE at : at = [p \in start .. last |->
                        IF p = start THEN InNoFrame ELSE Feed(at[p - 1], file[p])]
             ends  == {p \in start + 1 .. last : Completes(at[p - 1], file[p])}
             stop  == IF ends = {} THEN last ELSE Min(ends)
             frame == IF ends = {} THEN 0 ELSE file[stop][1]
             Whole(p) == {q \in 2 .. p : file[q][2] = 2 /\ file[q - 1] = <<file[q][1], 1>>}
  <1>1. ReadNext(r, InNoFrame) = [pos |-> stop, channel |-> at[stop], frame |-> frame]
    BY DEF ReadNext
  <1>2. /\ start \in Nat /\ last \in Nat /\ start \in 0 .. last /\ file \in Seq(Halves)
        /\ \A p \in 1 .. last - 1 : file[p][2] = 1 => file[p + 1] = <<file[p][1], 2>>
        /\ Recording(file) /\ (start # 0 => file[start][2] = 2)
    BY DEF Replays, Recording
  <1>3. \A p : WholeFrames(file, p) = {file[q][1] : q \in Whole(p)}
    BY DEF WholeFrames
  <1> HIDE DEF at
  <1>4. \A p \in start .. last :
          at[p] = IF p # start /\ file[p][2] = 1 THEN file[p][1] ELSE InNoFrame
    BY <1>2, StatesOfParser DEF at
  <1>5. \A p \in 1 .. last :
          /\ file[p] = <<file[p][1], file[p][2]>> /\ file[p][2] \in {1, 2} /\ file[p][1] # 0
    <2> SUFFICES ASSUME NEW p \in 1 .. last
                 PROVE  /\ file[p] = <<file[p][1], file[p][2]>> /\ file[p][2] \in {1, 2}
                        /\ file[p][1] # 0
      OBVIOUS
    <2>1. file[p] \in Halves
      BY <1>2
    <2>2. \A half \in Halves : half = <<half[1], half[2]>> /\ half[2] \in {1, 2} /\ half[1] # 0
      BY RecordedAssumption DEF Halves, InNoFrame
    <2> HIDE DEF file
    <2> QED  BY <2>1, <2>2
  <1> HIDE DEF file, start, last
  (* A position ends a whole frame in both senses, or in none.             *)
  <1>6. ASSUME NEW p \in start + 1 .. last
        PROVE  p \in ends <=> p \in Whole(last)
    <2>1. p - 1 \in start .. last /\ p \in 1 .. last /\ (p - 1) + 1 = p
      BY <1>2
    <2>2. CASE p - 1 = start
      <3>1. at[p - 1] = InNoFrame
        BY <1>4, <2>1, <2>2
      <3>2. p \notin ends
        BY <3>1 DEF Completes
      <3>3. p \in 2 .. last => file[p - 1][2] = 2
        BY <1>2, <2>2
      <3>4. p \notin Whole(last)
        BY <3>3
      <3> QED  BY <3>2, <3>4
    <2>3. CASE p - 1 # start
      <3>1. p - 1 \in 1 .. last - 1 /\ p \in 2 .. last
        BY <1>2, <2>1, <2>3
      <3>2. at[p - 1] = IF file[p - 1][2] = 1 THEN file[p - 1][1] ELSE InNoFrame
        BY <1>4, <2>1, <2>3
      <3>3. CASE file[p - 1][2] = 1
        <4>1. file[p] = <<file[p - 1][1], 2>> /\ file[p - 1][1] # InNoFrame
          BY <1>2, <1>5, <2>1, <3>1, <3>3 DEF InNoFrame
        <4>2. p \in ends
          BY <3>2, <3>3, <4>1 DEF Completes
        <4>3. file[p][1] = file[p - 1][1] /\ file[p][2] = 2
          BY <4>1
        <4>4. file[p - 1] = <<file[p - 1][1], file[p - 1][2]>>
          BY <1>5, <2>1, <3>1
        <4>5. file[p - 1] = <<file[p][1], 1>>
          BY <3>3, <4>3, <4>4
        <4>6. p \in Whole(last)
          BY <3>1, <4>3, <4>5
        <4> QED  BY <4>2, <4>6
      <3>4. CASE file[p - 1][2] # 1
        <4>1. p \notin ends
          BY <3>2, <3>4 DEF Completes
        <4>2. p \notin Whole(last)
          BY <3>4
        <4> QED  BY <4>1, <4>2
      <3> QED  BY <3>3, <3>4
    <2> QED  BY <2>2, <2>3
  <1>7. \A p \in start .. last : Whole(p) = Whole(start) \union {q \in ends : q <= p}
    <2> SUFFICES ASSUME NEW p \in start .. last
                 PROVE  Whole(p) = Whole(start) \union {q \in ends : q <= p}
      OBVIOUS
    <2>1. p \in Int /\ start <= p /\ p <= last
      BY <1>2
    <2>2. ASSUME NEW q \in 2 .. p
          PROVE  q \in Whole(p) <=> q \in Whole(start) \/ (q \in ends /\ q <= p)
      <3>1. CASE q <= start
        BY <1>2, <2>1, <2>2, <3>1
      <3>2. CASE q > start
        <4>1. q \in start + 1 .. last /\ q \in 2 .. last /\ q <= p
          BY <1>2, <2>1, <2>2, <3>2
        <4>2. q \in Whole(p) <=> q \in Whole(last)
          BY <2>2, <4>1
        <4>3. q \notin Whole(start)
          BY <1>2, <3>2
        <4>4. q \in ends <=> q \in Whole(last)
          BY <1>6, <4>1
        <4> HIDE DEF ends, Whole
        <4> QED  BY <4>1, <4>2, <4>3, <4>4
      <3> QED  BY <1>2, <2>1, <2>2, <3>1, <3>2
    <2>3. Whole(p) \subseteq 2 .. p /\ Whole(start) \subseteq 2 .. p
      BY <1>2, <2>1
    <2>4. {q \in ends : q <= p} \subseteq 2 .. p
      <3>1. ASSUME NEW q \in ends, q <= p
            PROVE  q \in Whole(last) /\ q \in Int
        <4>1. q \in start + 1 .. last
          OBVIOUS
        <4> QED  BY <1>2, <1>6, <3>1, <4>1
      <3>2. \A q \in Whole(last) : q >= 2
        BY <1>2
      <3> HIDE DEF ends, Whole
      <3> QED  BY <2>1, <3>1, <3>2
    <2> HIDE DEF ends, Whole
    <2> QED  BY <2>2, <2>3, <2>4
  <1>8. ends \subseteq start + 1 .. last
    OBVIOUS
  <1>9. CASE ends = {}
    <2>1. stop = last /\ frame = 0
      BY <1>9
    <2>2. Whole(last) = Whole(start)
      <3>1. {q \in ends : q <= last} = {} /\ last \in start .. last
        BY <1>2, <1>9
      <3> HIDE DEF ends, Whole
      <3> QED  BY <1>7, <3>1
    <2> HIDE DEF ends, Whole, stop, frame
    <2> QED  BY <1>1, <1>3, <2>1, <2>2 DEF file, start, last
  <1>10. CASE ends # {}
    <2>1. PICK n \in ends : \A m \in ends : n <= m
      <3>1. ends \in SUBSET Nat
        BY <1>2, <1>8
      <3> HIDE DEF ends
      <3> QED  BY <1>10, <3>1, LeastOf
    <2>2. stop \in ends /\ \A m \in ends : stop <= m
      <3> HIDE DEF ends
      <3> QED  BY <1>10, <2>1 DEF Min
    <2>3. frame = file[stop][1]
      BY <1>10
    <2> HIDE DEF ends, stop, frame
    <2>4. stop \in start + 1 .. last /\ stop \in 1 .. last /\ stop \in start .. last /\ stop # start
      BY <1>2, <1>8, <2>2
    <2>5. {q \in ends : q <= stop} = {stop}
      <3>1. stop \in Int /\ \A q \in ends : q \in Int
        <4>1. \A q \in start + 1 .. last : q \in Int
          BY <1>2
        <4> QED  BY <1>8, <2>4, <4>1
      <3>2. ASSUME NEW q \in ends, q <= stop
            PROVE  q = stop
        <4>1. stop <= q /\ q \in Int
          BY <2>2, <3>1
        <4> QED  BY <3>1, <3>2, <4>1
      <3> QED  BY <2>2, <3>1, <3>2
    <2>6. Whole(stop) = Whole(start) \union {stop}
      <3> HIDE DEF Whole
      <3> QED  BY <1>7, <2>4, <2>5
    <2>7. frame # 0 /\ {frame} \ {0} = {file[stop][1]}
      BY <1>5, <2>3, <2>4
    <2>8. {file[q][1] : q \in Whole(stop)} = {file[q][1] : q \in Whole(start)} \union {file[stop][1]}
      <3> HIDE DEF Whole
      <3> QED  BY <2>6
    <2>9. file[stop][2] = 2
      BY <1>6, <2>2, <2>4
    <2>10. at[stop] = InNoFrame
      BY <1>4, <2>4, <2>9
    <2> HIDE DEF Whole
    <2>11. WholeFrames(file, stop) = WholeFrames(file, start) \union ({frame} \ {0})
      BY <1>3, <2>7, <2>8
    <2> QED  BY <1>1, <2>9, <2>10, <2>11 DEF file, start
  <1> QED  BY <1>9, <1>10

LEMMA ReadAtEnd ==
  ASSUME NEW r \in Replays, r.pos = Len(r.file), NEW c
  PROVE  ReadNext(r, c).pos = r.pos /\ ReadNext(r, c).frame = 0
  <1> DEFINE last == Len(r.file)
             at   == CHOOSE at : at = [p \in r.pos .. last |->
                       IF p = r.pos THEN c ELSE Feed(at[p - 1], r.file[p])]
             ends == {p \in r.pos + 1 .. last : Completes(at[p - 1], r.file[p])}
             stop == IF ends = {} THEN last ELSE Min(ends)
  <1>1. ReadNext(r, c) = [pos |-> stop, channel |-> at[stop],
                          frame |-> IF ends = {} THEN 0 ELSE r.file[stop][1]]
    BY DEF ReadNext
  <1> HIDE DEF at
  <1>2. r.pos \in Nat
    BY DEF Replays
  <1>3. ends = {}
    BY <1>2
  <1> HIDE DEF ends
  <1> QED  BY <1>1, <1>3

(* A read of the replay itself, by the timer or by step().                 *)
LEMMA ReplayReads ==
  ASSUME MainInv, ReplayInv, replay.open, NEW paused \in BOOLEAN,
         Play(ReadNext(replay, channel), paused), alone' = alone
  PROVE  ReplayInv'
  <1> DEFINE read == ReadNext(replay, channel)
  <1>1. replay \in Replays /\ Recording(replay.file) /\ replay.pos <= Len(replay.file)
    BY DEF MainInv, ReplayType
  <1>2. read.pos \in replay.pos .. Len(replay.file)
    BY <1>1, ReadNextStops
  <1>3. replay'.pos = read.pos /\ replay'.file = replay.file /\ replay'.open
    BY <1>2, PlayKeepsType DEF MainInv
  <1>4. channel' = read.channel /\ played' = played \union ({read.frame} \ {0})
    BY DEF Play
  <1> HIDE DEF read
  <1> SUFFICES ASSUME alone
               PROVE  /\ played' = WholeFrames(replay.file, read.pos)
                      /\ \/ read.pos = Len(replay.file)
                         \/ read.channel = InNoFrame /\ (read.pos = 0 \/ replay.file[read.pos][2] = 2)
    BY <1>3, <1>4 DEF ReplayInv
  <1>5. played = WholeFrames(replay.file, replay.pos)
    BY DEF ReplayInv
  <1>6. CASE replay.pos = Len(replay.file)
    <2>1. read.pos = replay.pos /\ read.frame = 0
      BY <1>1, <1>6, ReadAtEnd DEF read
    <2> QED  BY <1>4, <1>5, <1>6, <2>1
  <1>7. CASE replay.pos # Len(replay.file)
    <2>1. channel = InNoFrame /\ (replay.pos # 0 => replay.file[replay.pos][2] = 2)
      BY <1>7 DEF ReplayInv
    <2>2. read = ReadNext(replay, InNoFrame)
      BY <2>1 DEF read
    <2>3. /\ WholeFrames(replay.file, read.pos)
               = WholeFrames(replay.file, replay.pos) \union ({read.frame} \ {0})
          /\ \/ read.pos = Len(replay.file)
             \/ read.channel = InNoFrame /\ replay.file[read.pos][2] = 2
      BY <1>1, <2>1, <2>2, ReadNextReads
    <2> QED  BY <1>4, <1>5, <2>3
  <1> QED  BY <1>6, <1>7

LEMMA ReplayInvStep ==
  ASSUME MainInv, ReplayInv, [Next]_vars
  PROVE  ReplayInv'
  <1>1. CASE UNCHANGED <<replay, channel, played, alone>>
    BY <1>1 DEF ReplayInv
  <1>2. CASE Datagram
    BY <1>2 DEF Datagram, ReplayInv
  <1>3. CASE RequestReplay
    <2>1. played' = {} /\ channel' = channel /\ alone' = (channel = InNoFrame)
      BY <1>3 DEF RequestReplay
    <2>2. ~replay'.open \/ replay'.pos = 0
      <3>1. CASE replay' = LoadFails(replay)
        BY <3>1, ReplayLoads DEF MainInv, ReplayType
      <3>2. ASSUME NEW file \in env.files, replay' = Start(LoadFile(replay, file))
            PROVE  replay'.pos = 0
        <4>1. file \in Seq(Halves)
          BY StartsAssumption DEF MainInv, TypeInv, Recording
        <4> QED  BY <3>2, <4>1, ReplayLoads DEF MainInv, ReplayType
      <3> QED  BY <1>3, <3>1, <3>2 DEF RequestReplay
    <2>3. \A file : WholeFrames(file, 0) = {}
      BY DEF WholeFrames
    <2> QED  BY <2>1, <2>2, <2>3 DEF ReplayInv
  <1>4. CASE StepReplay
    <2>1. CASE alone' = FALSE
      BY <2>1 DEF ReplayInv
    <2>2. CASE Play(ReadNext(replay, channel), FALSE) /\ alone' = alone
      BY <1>4, <2>2, ReplayReads DEF StepReplay
    <2> QED  BY <1>4, <2>1, <2>2 DEF StepReplay
  <1>5. CASE ReplayTick
    <2>1. CASE alone' = FALSE
      BY <2>1 DEF ReplayInv
    <2>2. CASE replay' = Pause(replay) /\ UNCHANGED <<channel, played, alone>>
      <3>1. replay'.pos = replay.pos /\ replay'.file = replay.file /\ replay'.open = replay.open
        BY <2>2, ReplayOperations DEF MainInv, ReplayType
      <3> QED  BY <2>2, <3>1 DEF ReplayInv
    <2>3. ASSUME ~AtEnd(replay), alone' = alone, NEW paused \in BOOLEAN,
                 Play(ReadNext(replay, channel), paused)
          PROVE  ReplayInv'
      <3>1. replay.open
        BY <2>3 DEF AtEnd
      <3> QED  BY <2>3, <3>1, ReplayReads
    <2> QED  BY <1>5, <2>1, <2>2, <2>3 DEF ReplayTick
  <1>6. CASE SeekReplay
    BY <1>6 DEF SeekReplay, ReplayInv
  <1>7. CASE Exit
    BY <1>7 DEF Exit, NewReplay, ReplayInv
  <1>8. \/ UNCHANGED <<replay, channel, played, alone>>
        \/ Datagram \/ RequestReplay \/ StepReplay \/ ReplayTick \/ SeekReplay \/ Exit
    BY DEF Next, StartUp, Deliver, User, LoadConfiguration, MigrateConfiguration,
           ValidateConfiguration, DiscoverPlugins, Autostart, StartDummyTelemetry,
           DeliverMessage, DeliverToPlugin, DispatchTopic, Connect, CloseWindow, DummyTick,
           PublishReadiness, Gone, vars, replayVars
  <1> QED  BY <1>1, <1>2, <1>3, <1>4, <1>5, <1>6, <1>7, <1>8

(* A replay that nothing disturbs plays every whole frame of the file up   *)
(* to its position and no other, whatever the file begins or ends in.      *)
THEOREM ReplayAlwaysComplete == Spec => []ReplayComplete
  <1>1. Init => ReplayInv
    BY DEF Init, NewReplay, ReplayInv
  <1>2. MainInv /\ ReplayInv /\ [Next]_vars => ReplayInv'
    BY ReplayInvStep
  <1>3. ReplayInv => ReplayComplete
    BY DEF ReplayInv, ReplayComplete
  <1> QED  BY <1>1, <1>2, <1>3, MainHolds, PTL DEF Spec
=============================================================================
