# Aegis GCS in TLA+

Aegis GCS is a Qt ground control station: it talks MAVLink over UDP to a
vehicle, shows the vehicle on a tiled map, follows it, and keeps logs and
diagnostics. This directory holds TLA+ modules that model its concurrent and
reactive parts, TLC configurations that check them on small instances, and
proofs, checked by TLAPS, of what holds for every value of the constants.

Paths below are relative to the repository's sources: `telemetry/x.cpp` is
`src/src/telemetry/x.cpp`, `P1-00n_review.md` is in `src/orchestration/runs/`.

## 1. Inventory

### Threads

* The **GUI thread** runs the `Application`, the plugins, the tile loader, log
  replay and all widgets. A slot runs to completion; between slots anything
  may happen.
* The **link worker** (`MavlinkIO::m_workerThread`) runs `setupSocket()` and
  then an event loop with the socket, a heartbeat timer and a transmit timer.
* The **pool threads** of QtConcurrent write diagnostic bundles.

They share the fields of `MavlinkIO` without a lock, `TelemetryBus` and
`VehicleState` behind read-write locks, the log files on disk, and the static
parser channel of the MAVLink library.

### Components

| Component | State | Operations | Talks to |
|---|---|---|---|
| Link endpoint, `telemetry/mavlink_io` | thread, socket, two timers, `m_running`, pinned remote, last heartbeat, outbound queue | `start`, `stop`, `setupSocket`, `onReadyRead`, `onHeartbeatTimeout`, `processOutboundQueue`, `sendCommand` | state machine (calls), main thread (queued signals), blocking call from `stop` |
| Link state machine, `telemetry/connection_state_machine` | one of six states | one handler per event, up to two transitions each | signals for each transition |
| Tile cache, `map/tile_cache.hpp` | LRU list, lookup table, byte count, limit | `get`, `put`, `clear`, `setMaxBytes` | used by the loader |
| Tile loader, `map/tile_loader` | queue, active replies, cancellations, retry timers, cache, viewport | `requestTile`, `cancelTile`, `setViewport`, `clearCache`, `onReplyFinished`, `maybeRetry` | network manager, map view (signals) |
| Map view, `plugins/map_view/map_view_plugin` | zoom, centre, items, visible and loaded keys | `onPositionChanged`, `applyZoom`, `onTileReady`, `onTileFailed`, `eventFilter` | loader, controller, bus |
| Follow controller, `plugins/map_view/follow_vehicle_controller` | Active, Suspended or Disabled; readiness; pan timer | `setTarget`, `setViewportFullyLoaded`, `onUserPanned`, `requestRecenter`, `onPanTick` | map view (callback for panning) |
| Application, `app/application` | owns everything, wiring | `initialize`, connect and replay requests, `shutdown` | all |
| Telemetry bus, `core/bus` | subscribers per topic behind a lock | `subscribe`, `unsubscribe`, `publish`, `dispatchTopic`, `postCommand` | callbacks under the lock |
| Plugin host, `core/plugin_host` | loaded plugins and their libraries | `discover`, `load`, `unload`, `unloadAll` | plugins |
| Vehicle state, `core/state` | fields behind a lock | setters that signal outside the lock | widgets |
| Log replay, `telemetry/replay` | file, position, timer, `m_playing`, parser channel | `loadFile`, `start`, `pause`, `step`, `seek`, `onTick` | parser, shared with the link worker |
| Logger and diagnostics, `utils/logging`, `utils/diagnostic_exporter`, `utils/simple_zip_writer` | log file, rotation limits; bundle in progress | `log`, `rotateFiles`; `exportBundle` | files that both use |
| Configuration, `utils/config_migrator`, `utils/config_validator` | none: functions on JSON documents | `migrate`, `validate`, defaults | `Application::initialize` |
| Decoding, `telemetry/parsers` | none | one conversion per message | vehicle state |
| Widgets and other plugins, `ui`, `plugins/*` | layout | drawing | bus |

### What is hard in it, and what makes each part correct

* **Link endpoint.** `start()` and `stop()` read fields the worker writes;
  stop blocks on the worker; the heartbeat timer is never restarted, so it has
  no phase relative to the heartbeats; commands cross two queues and any
  number of restarts; states and messages reach the operator through a queue.
  Correct when the flags of a session agree with its socket and thread, the
  link state tells how long the vehicle has been silent, commands keep their
  order, the operator sees a legal history of the link, and `stop()` returns.
* **Tile cache.** Three hand-kept parts. Correct when they agree and what is
  held is what an LRU cache would hold.
* **Tile loader.** Replies, requests, cancellations and retry timers arrive
  in any order for the same tile; a failed tile is for a while only in a
  timer. Correct when there is one download per tile within the limit, no slot
  idles, no request is lost, and every request is answered.
* **Map view and controller.** Four hand-kept collections, answers of a
  previous zoom, and answers inside the request that causes them. Correct
  when the controller and the bus know the readiness of the tiles as they are,
  the view moves only over loaded tiles and never against the user, and a
  suspended view resumes.
* **Logger and exporter.** A rotation is a series of renames, any of which may
  fail unnoticed or be the last before the program is killed, while a pool
  thread reads the same files without the logger's mutex. Correct when the
  backups stay in the order of their age, only the oldest lines are dropped,
  and an export that no rotation meets is whole.
* **Configuration.** A file of any earlier version, with any mistakes, goes
  through migration, validation and the fallbacks of each reader. Correct when
  what is read is in range whatever the file says, and nothing the user wrote
  and the schema accepts is lost on the way.
* **Plugins.** A load may fail at five steps; panels, subscriptions and posted
  events refer to code that unloading deletes. Correct when a failure stays with
  its plugin, every loaded plugin has its panel, and nothing refers to one that
  was unloaded.
* **Telemetry on the main thread.** Messages of the link, of a replay and of the
  dummy telemetry change `VehicleState` at once and reach the panels through a
  queue. Correct when the panels agree with the state once the queue is served
  and the alert console holds the newest alerts in order.
* **Replay.** One timer, one file and one parser, the parser shared with the
  link and never reset. Correct when every whole frame is replayed unless
  something else read from the parser, and playing ends.

`PROJECT.json` lists the hazards one by one, at their lines, with the
properties that would catch each.

## 2. Modules

```
Queues ................. what more than one module says of event queues
LinkStatus ............. abstract: what the link indicator may show
ConnectionStateMachine . the handlers of the link state machine, as operators
MavlinkIO .............. endpoint, worker, main thread; implements LinkStatus
LruCache ............... abstract: the most recently used tiles that fit
TileCache .............. the cache's operations, as operators
TileCacheLru ........... the cache under every use; implements LruCache
TileService ............ abstract: what a client of the loader may rely on
TileLoader ............. the loader, on TileCache; implements TileService
FollowVehicle .......... the follow controller, as operators
MapView ................ the map view, on FollowVehicle; a client of TileService
Logs ................... log rotation, and the diagnostic export that reads the files
Config ................. migration, validation and reading of the configuration
PluginHost ............. discover, load and unload, as operators
TelemetryBus ........... topics: subscriptions, publication, dispatch, as operators
MavlinkParser .......... a message to the vehicle state, the panels and the alerts
LogReplay .............. file, position, timer flag and parser, as operators
Application ............ start-up, the main thread's queue, replay, shutdown, on these
MCxxx .................. constants of the instances TLC checks
xxx_proofs ............. theorems about xxx
```

An operator whose name has a suffix (`StopQuit_NoQuit`, `Get_NoSplice`) is a
plausible faulty form of the definition it stands before. No specification
uses these; they show that a property would notice the fault.

### MavlinkIO

`main` is where the main thread is: in its event loop, or at one of the reads
inside `start()` and `stop()` between which the worker can act. `thread` is the
life cycle of the worker, `workerQueue` the events posted to it (command
numbers, and `StopEvent` for the lambda that `stop()` posts and blocks on) and
`mainQueue` the queued signals. A handler of the state machine makes up to two
transitions and signals each; it is modelled by the sequence of states it
enters, and `Enter` appends that sequence to `mainQueue`. `shown` is the status
on the connection bar, and the history variable `simulated` says that it is
not the link's: `Application::initialize()` calls the bar alive when the dummy
telemetry is on (`EmitDummyStatus`), past the link and its queue, before there is
any session. The first signal of the link replaces it. Time is a number of ticks: `hbAge` since the last heartbeat, `hbLeft` to
the next alarm.

The failing bind matters: `setupSocket()` runs before the event loop and calls
`quit()`, and Qt's `exec()` then returns at once, so what was posted to the
thread meanwhile is not served by it (`SetupFail`, `WorkerExit`).

Callers: with `ImpatientCaller` a second `start()` may come while the first is
under way, as a double click on Connect does. The race on the bind address this
opens is not modelled, only its effect on the session's flags.

### TileCache, TileCacheLru, LruCache

`order` is the list `m_order`, the newest first, `lookup` the keys of
`m_lookup`, `bytes` the running total. The abstract cache has neither list nor
total: it stamps each use with a number and keeps the tiles that fit together
with everything more recent.

### TileLoader, TileService

`pending` is a set of tasks whose order is that of their priorities (`std::sort`
leaves ties in any order), `active` the keys of `m_active`, `inFlight` how many
downloads the network still has for each tile, which only the property
`PoolConsistent` says is the same thing. `retryTimers` counts the single-shot
timers that nobody can call back. `waiting` is the client's side: what it asked
for and has no answer to.

### FollowVehicle, MapView

The controller is a record, its slots are functions on it, so the map view
calls it inside its own slots as the code does. One axis of the map is modelled,
the code being the same on both. `items` is where each placeholder or tile lies,
`loaded` and `visible` are the two key sets, whose keys lack the zoom they were
asked for because `onTileReady` builds them from the current one. Cached tiles
are answered inside the request (`DuringRequests`), while `visible` is still the
set of before. An `Answer` to a tile of another zoom is therefore an answer to
the tile of the same column at this zoom: what the code does.

### Logs

`disk` maps the number of each file that exists, 0 for the log and `i` for its
backup `.i`, to the set of its lines; a line is its number in the order of
logging. `step` and `slot` are where `log()` is: `"full"` after a line that
reached the limit, `"shift"` in the loop of `rotateFiles()`, `"reopen"` after the
renames. `log()` holds the mutex throughout, so one such position stands for
any number of logging threads. `Shift` and `Push` are `QFile::rename` with the
removal of its target. `ShiftFails` and `PushFails` are the same when the rename
returns false, or when its target could not be removed, which stays and makes
the rename fail too; `RemoveOldestFails` is the same for the oldest backup. The
code ignores all of these results. Removal and rename are one step: there is
something to remove only after a failed rename, or with one file, and
`ShiftFails` followed by `Crash` covers being killed between the two.

The exporter is three loops over the files: `Collect` lists them, `Measure` takes
their sizes for the manifest, `Zip` and `Read` test for a file and copy it. Any
step of the logger may come between two of these. `Crash` kills the program
anywhere and starts it again, which opens the log for appending and knows
nothing of the rotation that was cut short. `disturbed` is a history variable:
a rotation was under way when the export began, or began since.

### Config

A document is a function from keys to values, a value a pair of its kind and its
content, so that a wrong type is a value like any other. A string is kept as what
validation makes of it: digits, or its trimmed lower-case form. `Schema` is the
table of `createAegisValidator()`; a rule with `nested` holds rules, twice at
most, which is why `TopValue`, `SectionValue` and `Leaf` stand for the one
recursive `validateValue()`. `Wrap` is the narrowing of `toInt()`; the largest
`int` is the constant `IntMax` because TLC's own integers have 32 bits.

### PluginHost, TelemetryBus, MavlinkParser, LogReplay

Values and functions on them; `Application` holds the state. `Displayed` are the
fields that a panel shows: all but the current mission item, whose slot is
empty. The outcome of a load is an argument. A message is its kind and a number that stands for its
content. A replay file is a sequence of the halves of frames, so that a file, a
seek or a parser may begin or end inside a frame; a frame's bytes are not told
apart further, and the bytes of another frame that the parser takes for the rest
of its own are lost with it.

### Application

`phase` follows `initialize()`, step by step, then the event loop and shutdown.
`events` is the queue of the main thread: messages for `processMessage()`, events
posted to plugins, and topics to dispatch. `doc` is what was read from disk and
`config` is `m_config`; `settings` is what is read of it. `env` is chosen at the
start and fixes what the environment may do (how loads end, which messages and
files there are, how many replays and seeks); it lets one instance hold several
small worlds instead of their product. `played` and `alone` are history.

`Datagram` is the link as far as this module sees it: the module `MavlinkIO`
has the rest, the status that the dummy telemetry puts on the connection bar
included. A tick or a step of the replay is one action; as the worker may feed
the same parser during it, `Garbled` lets a read end at any later frame while the
link is up. The recorder is a plugin that subscribes to a topic: none in the repository
does, and the interface is there for it. A plugin posts nothing after it was
unloaded because deleting a `QObject` removes its connections and its events.

## 3. What TLC checks

| Run | Question | Bounds |
|---|---|---|
| `link_race` | With and without the dummy telemetry: do session flags, link state, silence, command order and what is shown stay consistent in every interleaving of an impatient caller, failing binds, two senders and the worker? | timeout of two ticks, two commands, inputs pause at two queued events |
| `link_session` | For a patient caller whose bind succeeds: is a claimed heartbeat one of this session, is the peer pinned, does `stop()` return, does the status bar catch up, also from a simulated link? | one command, as above |
| `link_shutdown` | Does `stop()` return when the bind may fail? No: see section 6 | timeout of one tick, no commands |
| `cache_lru` | Do list, table and count agree, and is it an LRU cache? | three tiles of three sizes, limits of one and four, six uses |
| `loader_pool` | One download per tile, the limit kept, no idle slot, the nearest first, no stale cancellation | four tiles, two slots, two windows, two timers per tile, a cache of one tile |
| `loader_requests` | For a client that does not cancel: is nothing lost, is it a `TileService`, is everything answered on a network that delivers at last? | four tiles, one slot, one window |
| `loader_retries` | Is everything answered on a network that always fails? No: see section 6 | two tiles, one timer |
| `map_follow` | Do follow state, readiness and placeholders agree, does the view pan only over loaded tiles, does the user win? | two zooms, two of the world's ends in reach of the view, tiles that fail |
| `map_service` | Does the map view rely only on `TileService`, and does a suspended view that shows a tile resume? | two zooms, a view that can be scrolled off the map, repeated answers, failures, a cache of one tile |
| `map_zoomed` | Does following resume only once every visible tile has arrived? No: see section 6 | two zooms, tiles that never fail |
| `logs_rotation` | With a crash, or a removal or rename that fails, at any step of a rotation: are the files in order of age, is only the oldest dropped, is enough kept? Is an export exact when no rotation meets it? | four files of two lines, nine lines, one crash, one failing removal or rename |
| `application` | For every kind of mistake in the configuration: is what is read in range, and nothing lost? For every way loads may fail: does every other plugin run and have its panel? Do panels and alerts agree with what was received, replays replay every whole frame, and end? Is nothing left of an unloaded plugin? | about 500 documents; four plugins in two paths; a queue of four; three texts for a console of two; two files of five and three halves, two replays or seeks |

Why the bounds are enough. Two senders tell "pinned" from "last"; two commands
tell order from content. Three timeouts is the largest silence a state of the
link depends on, and `AgeCap` stops the count there. Inputs pause while
`MaxQueue` events wait for the main thread, but an event that is accepted always
enqueues all it signals, so a heartbeat's three events are seen together. Three
tiles of three sizes make replacement by a larger and by a smaller image,
eviction of one, eviction of two and an image larger than the limit. Four tiles on two slots leave two waiting, so order
matters; two timers for one tile come from a failure, a request during its
backoff and a second failure. Two zooms with the view at either edge give tiles
with the same column at both, tiles outside the world, and, after scrolling, no
visible tile at all: `map_service` has the vehicle at the edge of the world and
reaches every view of `ResumesAtLast`, that which stays suspended included. Four
files are the fewest with two renames in the loop, so
that one can fail or be interrupted while the other has been done; nine lines
of two per file fill all four and rotate once more after the crash or the
failure. The documents take each section alone with every version and every kind
of wrong value, and the two sections that nest deepest together; one number is
too large for an `int` of the instance, which has 30 bits. The paths list a plugin twice,
with both loads free to fail. A queue of four takes one tick of the dummy
telemetry. Three texts make a console of two drop one while another is queued.
The long file ends inside a frame and the other begins inside one, so that the
second replay meets the parser inside a frame of the first; the messages of the
link meet it there too. Seeks go to the start, into a frame and behind it.

Deadlock is checked in every run: none of these systems may stop.

### Abstract specifications

* `MavlinkIO` implements `LinkStatus` with `status <- shown`: the operator sees
  a walk along the edges of one graph, through the queue and across restarts. A
  simulated link is a state of its own of that graph: alive from the start, and
  left only for SocketBound.
* `TileCacheLru` implements `LruCache` with the list read as a function.
* `TileLoader` implements `TileService` with `asked` the tiles in its queue, on
  the network or in backoff, for a client that does not cancel.
* `MapView` is a client of `TileService`: every step of it is a step the service
  allows. Together the last two say that the map view may be checked against the
  service instead of the loader, which keeps both instances small.

### Fairness

* `MavlinkIO!FairSpec`: both event loops are scheduled, the steps of a running
  `start()` or `stop()` are taken, timers fire, the clock moves. Nothing is
  assumed of callers, the vehicle or the network. Qt and the operating system
  give this to a process that is not starved.
* `TileLoader!FairSpec`: each download ends in one of its three ways and each
  single-shot timer fires. The code sets no transfer timeout; that every
  download ends is an assumption about `QNetworkAccessManager`.
* `GoodSpec` adds that a tile downloaded again and again arrives at last
  (strong fairness, since each attempt may fail). `RequestsAnswered` needs it,
  and `RetriesEnd` is the same property without it.
* `MapView!FairSpec`: each request is answered. That is `RequestsAnswered` of the
  loader, so `ResumesAtLast` stands on `GoodSpec` too: with the endless retries
  of `loader_retries` a tile is never answered and the view over it never
  resumes. Nothing is assumed of the pan timer, the user or the vehicle.
* `Application!FairSpec`: the event loop serves posted events and lets the replay
  timer fire. The second is strong fairness because the model's bound on the
  queue may disable a tick again and again, which no queue of Qt does. Nothing
  is assumed of the user, the link or the files.

`RequestsAnswered` and `ResumesAtLast` assume a client, or a user, who stops:
without it nearer tiles overtake a far one for ever, and zooming keeps the view
suspended.

## 4. What TLAPS proves

Every safety invariant, every action property and every refinement that a passing
run checks is also a theorem, for every value of the constants that satisfies
the assumptions of its module. The runs show that the properties are not empty
and that a plausible fault breaks them; the proofs show that the bounds of
the runs hide nothing.

### Assumptions on the constants

| Assumption | Why the code justifies it |
|---|---|
| `TimeoutAssumption`, `CallerAssumption`, `BoundsAssumption` of `MavlinkIO` | a timeout of at least one tick (the schema's minimum is 100 ms); the rest are types |
| `RemoteAssumption` of `MavlinkIO` | a sender is never the broadcast address, which stands for "none pinned" |
| `RotationAssumption`, `LogsBounds` of `Logs` | the validator wants `maxFiles` at least 1 and `maxSizeBytes` at least 1024; the rest are types |
| `SizesAssumption` of `TileCacheLru` | a null image is not stored, so no size is 0; limits are `size_t` |
| `ConfigAssumption`, `ClientAssumption`, `GeometryAssumption`, `FiniteAssumption` of `TileLoader` | at least one slot; coordinates are whole; a world has finitely many tiles |
| `ZoomAssumption` of `MapView` | `qBound(1, zoom, 19)`, with the 19 as a constant |
| `IntAssumption` of `Config` | the bounds and defaults in the schema, the largest of which is 10 MB, are `int`s |
| `StartsAssumption` of `Application` | a document is an object of JSON values; a replay file is cut out of a recording and may be torn at its ends, not in its middle |
| `RecordedAssumption`, `QueueAssumption` of `Application` | types; the bound on the queue lets something be posted |

`ImplementsTileService` has `~Cancels` as its hypothesis, a configuration of the
module: the map view never calls `cancelTile()`.

### The arguments

**MavlinkIO_proofs.** `SessionConsistent` and `StatusMatchesSilence` are not
inductive. `IInv` adds to the types:

* `SessionInv`: which combinations of thread, socket, running flag and place of
  the main thread exist, so that the main thread does the work of `stop()`
  itself only when there is no socket;
* `SilenceInv`: besides the age of the heartbeat it bounds the age plus the time
  to the next alarm, which is how a timer without a phase still limits how late
  an alarm may be: alive means that the alarm comes before two timeouts have
  passed, degraded before three;
* `HeardInv`: a link that claims a heartbeat has one on record.

The lemmas named `...Handler` say what each handler of the state machine enters;
`TypeStep`, `SessionStep`, `SilenceStep` and `HeardStep` go through the actions,
and the theorems `TypeCorrect`, `SessionsAreConsistent`, `StatusBoundsSilence`,
`HeardMeansHeard` and `RemoteStaysPinned` follow from `Invariance`.

`CommandsStayInOrder` rests on `Queues_proofs`: a queue is `Numbered` from one
number to another when it holds each once and in order, whatever else lies
between them; pushing the next number, popping the first and passing anything
else through keep that.

`ImplementsLinkStatus` is about a queue too: the invariant says that the events
on their way to the main thread are a *walk* on the graph of `LinkStatus`, from
the status that the link has signalled last (`Signalled`: the one that is shown,
or Disconnected behind a simulated one) to the state of the state machine
(`Leads`). Serving
the first event is then a step along an edge, and each handler prolongs the walk
at its other end. A message is an edge from a status to itself, allowed only
where the message makes sense, which gives `TelemetryMeetsItsStatus` as well. The
second half of the invariant, that a bound socket has had no packet, is needed
because `start()` resets the first-packet flag at a moment of its own.

**TileCacheLru_proofs.** The byte count is a sum over a list, defined by a fold
of the community modules. A principle for finite sets, `SubsetInduction`, is
proved from the one the library has for natural numbers, with the property as a
set instead of an operator. With it a total is well defined (`SumsExist`,
`SumsAgree`), any element can be taken out (`TotalRemove`), and a total can be
split, compared and taken through an index. `BytesByTile` uses the last: the
bytes of the first `n` entries, counted by place, are those of their tiles, so
that moving an entry changes no total. `Promoted` is what `get()` and `put()` do
to the list, and `Evicted` says that the loop of `evictIfNeeded()` keeps the
longest front that fits; `CacheInv` is then inductive. `ImplementsLru` adds
that the list is sorted by the last use of its tiles (`LruInv`), whence the
longest front that fits is the set of the latest used tiles that fit
(`KeptIsKeep`): what `LruCache` keeps.

**TileLoader_proofs.** `PoolInv` is the conjunction of the pool's type and the
three safety properties, and it is inductive as it stands because
`ProcessQueue` restores all of them whatever the step before it broke:
`ProcessQueueSound` is the central lemma. It takes a wire that agrees with the
busy slots and a queue with each tile once, counts the batch, and gives
`OneDownloadPerTile`, `WithinLimit` and `WorkConserving` back. `NearestFirst`
needs in addition that the priorities in the queue are those of the current
viewport (`PrioritiesCurrent`), and `NothingLost` that a client that does not
cancel leaves no cancellation behind (`NothingLostInv`). With these invariants
`ServiceStep` maps each action to a step of `TileService`: a request to one of
the client, a reply to an answer of a tile in hand, `clearCache()` to `Forget`,
and the retries to nothing, since a tile in backoff is still in hand.

**MapView_proofs.** `FollowInv` joins the controller's consistency with
`ReadinessCurrent`. The lemmas `Telling`, `Reporting` and `Settling` follow one
report of readiness through the controller, `ReportingDuringRequests` the one
made while the visible set is still the old one. From `Following` come
`FollowsConsistently`, `ReadinessIsCurrent`, `PansOnlyOverLoaded` and
`UserDecides`. `GapsAreAsked` has its own induction: a tile removed from the map
is removed from the loaded ones too, so if it comes back it is asked for again.
`IsClientOfLoader` is the other side of `ImplementsTileService`: every step of
the map view is one of the client or of the service, or none. It needs only that
the zoom stays in range, so that what is asked for are tiles.

**Logs_proofs.** `DiskInv` joins the types with three facts: `RotationInv`, which
says where the loop is and, as long as nothing failed, that the target of
the next rename is free; `LineInv`, that no line is newer than the last and
that `OldestLast` and `NoHoles` hold; and `ExportInv`, which files the exporter
has listed. The free target is the heart of it: a rename that overwrites
nothing drops no line, so only `RemoveOldest` does, and it drops the file that
`OldestLast` says is the oldest. This survives a crash: a rotation that is cut
short leaves a gap, but the next one works from the oldest file down again, so
that each target has just been moved away or removed. `QuietInv` follows an
export that no rotation meets through its three loops.

`RecentLinesKept` is about how many lines remain, and sizes of sets do not add up
from one step to the next. `RecentInv` says it as an interval instead: the last
so many lines are all there. What a step must not do is drop a line of the
interval, so `DepthInv` says how many lines are newer than those of each file:
a backup was full when it was pushed, and each crash or the running rotation
leaves at most one name free. The count is taken once, at the end
(`PromiseCounts`).

**Config_proofs, Application_proofs.** The settings are the outcome of
migration, validation and the fallbacks of the readers, so their theorems need
little induction and a walk through the schema: every rule is `Proper`, its
default having its type and lying in its range (`RulesAreProper`); validating a
value under a proper rule gives one of the type and range (`LeafInRange`) and
leaves alone what was so already (`LeafIsKept`); and migration makes a document
of a document (`MigrateIsDocument`). `SettingsAlwaysInRange` and
`SettingsAlwaysSurvive` follow for every document.

`MainInv` is the invariant of the running application. `HostInv` says that every
plugin asked for is loaded, failed or still to come, with one panel for each
that is loaded, and that only loaded ones subscribe; `QueueInv` that every event
posted to a plugin is for one that is loaded. From it come `ApplicationTypeOK`,
`FailuresAlwaysIsolated` and `OnlyLivePluginsAreEverCalled`. Three invariants stand
on it:

* `PanelInv`: for each field that is displayed, its panel shows it, or the *last* event of its kind
  in the queue will make it do so (`PanelsAlwaysCatchUp`);
* `AlertInv`: the texts received are split at two points, into those of which the
  console shows the newest, those posted to it and those not yet parsed, the
  last two parts being `Numbered` in the queue (`AlertsAlwaysInOrder`);
* `ReplayInv`: between two reads an undisturbed replay has played the whole
  frames before its position, and stands where a frame begins or at the end of
  the file. `ReadNextReads` is the central lemma, about one read
  (`ReplayAlwaysComplete`).

**Only model-checked.** Liveness: `StopReturns`, `IndicatorCatchesUp`,
`RequestsAnswered`, `ResumesAtLast` and `PlaybackEnds`. Fairness and `ENABLED` are out
of the prover's reach.

## 5. Not modelled, and why

* Drawing, formatting and layout of the widgets and plugins; the mission editor,
  a table whose rows are posted as commands.
* In decoding: units and the mapping of enumerations, field by field
  conversions without control of their own.
* In the configuration: fractions, which the schema accepts nowhere, warnings,
  and the writing of backups. Of the values that JSON gives only an array is
  taken to be convertible to a `QVariantList`.
* In the plugin host: an exception that is no `std::exception`, which ends the
  program, and an `initialize()` that fails after it has subscribed.
* The locks of `TelemetryBus` and `VehicleState`: only the main thread uses
  either, and no callback in the sources subscribes.
* In the replay: speeds other than the 1.0 of the application, `pause()`, which
  only the replay itself calls, and a frame lost in the middle of a file.
* `ThreadPool` and the ring buffer, which nothing in the sources uses, and
  `main.cpp`.
* In the link: `sendMessage`, `setRemoteAddress` and a change of the timeout
  during a session, which nothing in the sources calls; a wall clock that jumps;
  a `writeDatagram` that fails, which loses a command without notice:
  `CommandsInOrder` is about what reaches the socket.
* In the loader: metrics, headers, and `setConfig` after the first request.
* In the logger: the level filter, an open that fails, and a change of path or
  limits while running. In the exporter: the configuration file in the bundle,
  write errors of the archive, the layout of the archive, and two exports at
  once. One file is read and zipped in one step.
* In the map view: the marker, the track and the grid, which do not feed back.
* The third-party MAVLink library, except for what its callers see.

## 6. Where code and documents disagree

Three runs show a documented statement that the program violates; they are the
`findings` of `PROJECT.json`.

* `link_shutdown`: a `stop()` that meets the worker on its way out after a
  failed bind posts its lambda to an event loop that will not serve it and
  waits for ever, where `P1-001_review.md:41` says that timeouts are bounded.
* `loader_retries`: the retry counter is looked up in the queue, where the
  failed tile is not, so the maximum of `P1-008_review.md:17` never applies.
* `map_zoomed`: a late answer of the previous zoom counts for a tile of this
  one, so following resumes over a missing tile (`P1-009_review.md:11`).

Others were met on the way and are part of the modelled behaviour:

* a silent link ends in Reconnecting and does not emit disconnected
  (`src/README.md:86`);
* a tile cancelled in flight and asked for again before its reply is answered
  neither way (`P1-008_review.md:37`); `NothingLost` and `IsTileService`
  therefore speak of a client that does not cancel, as the map view does not;
* tile priority is a distance to the middle of the window counted in tiles of
  the world, not to the centre of the map (`P1-008_review.md:9`); `NearestFirst`
  is about the distance the code computes;
* with the dummy telemetry on, as in `config/aegis.json`, the connection bar is
  alive from the start with no link (`application.cpp:206`). Connect stops the
  dummy telemetry and the bar goes from HeartbeatAlive to SocketBound, an edge
  that a link does not have (`connection_state_machine.hpp:38`); if nobody connects,
  or the bind fails, the bar stays alive for good. `LinkStatus` and
  `IndicatorCatchesUp` therefore tell a simulated status from one of the link;
* the current mission item is decoded, kept and posted to the map view, whose
  slot is an empty TODO (`map_view_plugin.cpp:236`): no panel ever shows it.
  `PanelsCatchUp` is about the other fields;
* a visible tile that fails counts as loaded and lets following resume
  (`P1-009_review.md:9`);
* with no tile visible the bus is told that tiles are ready and the controller
  is not told (`map_view_plugin.cpp:481`), so a view that is scrolled off the map
  while suspended stays so for good with nothing missing
  (`follow_vehicle_controller.hpp:18`); hence the guard in `ReadinessCurrent` and
  the exception in `ResumesAtLast`;
* with `maxFiles` set to one, which the validator allows, a rotation keeps two
  files where `P1-002_run.md:22` says that their total is at most `maxFiles`, and
  the exporter does not look for the second; hence `Names`;
* `config_validator.hpp:28` promises a map with defaults filled in; a section
  that is no object becomes an invalid value instead, and the fallbacks of the
  readers apply, which for `dummyTelemetry.enabled` is the opposite of the default;
* `P1-004_review.md:27` says that coercion is strict; a number is turned into a
  string and a flag into a word, while a JSON number is refused for a flag
  (`enabled: 0` leaves the dummy telemetry on), and a number beyond 32 bits is
  cut before its range is checked;
* the default of `configVersion` is 2 where `P1-004_run.md:30` says 1;
* `telemetry.bindAddress` and `bindPort` are validated and never used, as the main
  window always asks for 0.0.0.0:14550 (`main_window.cpp:103`); nothing reads
  `reconnectIntervalMs` and `enableConsole`, which the migration adds;
* `plugin_host.hpp:24` says that a crashing plugin is caught; only a
  `std::exception` is, and `pluginCrashed` is connected to nothing;
* the migrated configuration is not written back, so that every start migrates
  it again and leaves one more backup.

## 7. Plan

What is left, in this order:

1. `MapView` and `TileLoader` in one composed module: both sides of `TileService`
   are proved, that they make one system is only an argument.
2. The parser channel byte by byte, shared by the replay and the worker, and the
   worker's reads inside a tick of the replay.
3. Two exports at once, and the configuration file in the bundle.
