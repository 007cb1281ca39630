----------------------------- MODULE MavlinkIO ------------------------------
(***************************************************************************)
(* The MAVLink UDP endpoint (src/telemetry/mavlink_io.cpp) and the way its *)
(* signals reach the main window.  Two threads:                            *)
(*                                                                         *)
(*   main    calls start() and stop(), posts vehicle commands and, when it *)
(*           is in its event loop, delivers the signals queued for it;     *)
(*   worker  m_workerThread: runs setupSocket() when it starts, then an    *)
(*           event loop that serves the socket, two timers and the events  *)
(*           posted to MavlinkIO (commands, the lambda of stop()).         *)
(*                                                                         *)
(* A slot runs to completion in its thread, so it is one action; start()   *)
(* and stop() read fields the worker writes without a lock, so they are    *)
(* split at those reads.  A datagram carries at most one complete message: *)
(* the loop of onReadyRead over several is several Datagram steps.         *)
(***************************************************************************)
EXTENDS ConnectionStateMachine, Queues

CONSTANTS
  HeartbeatTimeout, \* m_heartbeatTimeoutMs, in clock ticks
  Senders,          \* addresses datagrams may come from
  NoRemote,         \* m_remoteKnown = false
  BindMayFail,      \* may QUdpSocket::bind fail?
  ImpatientCaller,  \* may start() be called while an earlier start() is under way?
  MaxCommands,      \* bound: commands the operator ever posts
  MaxQueue          \* bound: length of mainQueue at which the inputs pause

ASSUME TimeoutAssumption  == HeartbeatTimeout \in Nat \ {0}
ASSUME RemoteAssumption   == NoRemote \notin Senders
ASSUME CallerAssumption   == BindMayFail \in BOOLEAN /\ ImpatientCaller \in BOOLEAN
ASSUME BoundsAssumption   == MaxCommands \in Nat /\ MaxQueue \in Nat

VARIABLES
  main,        \* where the main thread is: its event loop, or inside start() or stop()
  mainQueue,   \* events queued for the main thread: link states and messages
  shown,       \* the status the connection bar shows
  simulated,   \* history: that is the status of the dummy telemetry
  thread,      \* the life cycle of m_workerThread
  quit,        \* QThread::quit() has been called
  workerQueue, \* events posted to MavlinkIO: command numbers and StopEvent
  running,     \* m_running
  socketOpen,  \* m_socket is bound, both timers run
  sm,          \* state of *m_stateMachine; "Disconnected" also when there is none
  firstPacket, \* m_firstPacketReceived
  remote,      \* m_remoteAddress when m_remoteKnown, else NoRemote
  hbAge,       \* ticks since m_lastHeartbeatUtc, up to AgeCap; NoHeartbeat if invalid
  hbLeft,      \* ticks until m_heartbeatTimer fires
  txQueue,     \* m_txQueue
  sent,        \* datagrams handed to the socket: command and destination (NoRemote: broadcast)
  posted       \* number of commands the operator has posted

shownVars  == <<shown, simulated>>
mainVars   == <<main, mainQueue, shownVars>>
threadVars == <<thread, quit, workerQueue>>
linkVars   == <<running, socketOpen, sm, firstPacket, remote>>
timeVars   == <<hbAge, hbLeft>>
txVars     == <<txQueue, sent, posted>>
vars       == <<mainVars, threadVars, linkVars, timeVars, txVars>>

MessageKinds == {"heartbeat", "other"}
DatagramKinds == MessageKinds \cup {"noise"}
StopEvent   == 0
NoHeartbeat == -1
AgeCap      == 3 * HeartbeatTimeout

(* Every variable has its type. *)
TypeOK ==
  /\ main \in {"idle", "starting", "stopping", "blocked", "quitting", "joining"}
  /\ mainQueue \in Seq(LinkStates \cup MessageKinds)
  /\ shown \in LinkStates /\ simulated \in BOOLEAN
  /\ thread \in {"stopped", "setup", "running", "exiting"}
  /\ quit \in BOOLEAN
  /\ workerQueue \in Seq(Nat)
  /\ running \in BOOLEAN /\ socketOpen \in BOOLEAN /\ firstPacket \in BOOLEAN
  /\ sm \in LinkStates
  /\ remote \in Senders \cup {NoRemote}
  /\ hbAge \in (0 .. AgeCap) \cup {NoHeartbeat}
  /\ hbLeft \in 0 .. HeartbeatTimeout
  /\ txQueue \in Seq(Nat)
  /\ sent \in Seq([cmd : Nat, to : Senders \cup {NoRemote}])
  /\ posted \in 0 .. MaxCommands

(* Application::initialize() ends before the event loop and any start():   *)
(* with the dummy telemetry enabled it tells the bar, past the link and    *)
(* its queue, that the link is alive.  Nothing tells the bar otherwise     *)
(* before the link signals.                                                *)
EmitDummyStatus ==
  /\ simulated \in BOOLEAN
  /\ shown = IF simulated THEN "HeartbeatAlive" ELSE "Disconnected"

Init ==
  /\ main = "idle" /\ mainQueue = <<>> /\ EmitDummyStatus
  /\ thread = "stopped" /\ quit = FALSE /\ workerQueue = <<>>
  /\ running = FALSE /\ socketOpen = FALSE /\ sm = "Disconnected"
  /\ firstPacket = FALSE /\ remote = NoRemote
  /\ hbAge = NoHeartbeat /\ hbLeft = 0
  /\ txQueue = <<>> /\ sent = <<>> /\ posted = 0

(* The state machine enters these states; each one is signalled to main. *)
Enter(entered) ==
  /\ sm' = After(sm, entered)
  /\ mainQueue' = mainQueue \o entered

-----------------------------------------------------------------------------
(* The main thread. *)

(* start(): the test of m_running.  When it is set the call has no effect. *)
StartCall ==
  /\ main = "idle" /\ Len(mainQueue) < MaxQueue
  /\ ~running
  /\ ImpatientCaller \/ thread = "stopped"
  /\ main' = "starting"
  /\ UNCHANGED <<mainQueue, shownVars, threadVars, linkVars, timeVars, txVars>>

(* start(): the assignments, and QThread::start, which does nothing while  *)
(* the thread still runs, even when it is only on its way out.             *)
StartCommit_KeepsHeartbeat ==
  /\ main = "starting" /\ main' = "idle"
  /\ remote' = NoRemote /\ firstPacket' = FALSE
  /\ thread' = IF thread = "stopped" THEN "setup" ELSE thread
  /\ UNCHANGED <<mainQueue, shownVars, quit, workerQueue, running, socketOpen, sm,
                 timeVars, txVars>>

StartCommit ==
  /\ main = "starting" /\ main' = "idle"
  /\ remote' = NoRemote /\ firstPacket' = FALSE /\ hbAge' = NoHeartbeat
  /\ thread' = IF thread = "stopped" THEN "setup" ELSE thread
  /\ UNCHANGED <<mainQueue, shownVars, quit, workerQueue, running, socketOpen, sm,
                 hbLeft, txVars>>

(* stop(): the first test; with nothing to stop the call has no effect. *)
StopCall ==
  /\ main = "idle" /\ Len(mainQueue) < MaxQueue
  /\ running \/ thread # "stopped"
  /\ main' = "stopping"
  /\ UNCHANGED <<mainQueue, shownVars, threadVars, linkVars, timeVars, txVars>>

(* stop(): post the lambda and block on it, or do its work in this thread. *)
StopPost ==
  /\ main = "stopping"
  /\ IF thread # "stopped"
       THEN /\ workerQueue' = Append(workerQueue, StopEvent)
            /\ main' = "blocked"
            /\ UNCHANGED <<mainQueue, linkVars>>
       ELSE /\ Enter(OnStop(sm))
            /\ running' = FALSE /\ remote' = NoRemote /\ firstPacket' = FALSE
            /\ main' = "quitting"
            /\ UNCHANGED <<workerQueue, socketOpen>>
  /\ UNCHANGED <<shownVars, thread, quit, timeVars, txVars>>

StopQuit_NoQuit ==
  /\ main = "quitting" /\ main' = "joining"
  /\ UNCHANGED <<mainQueue, shownVars, threadVars, linkVars, timeVars, txVars>>

StopQuit ==
  /\ main = "quitting" /\ main' = "joining"
  /\ quit' = (thread # "stopped")
  /\ UNCHANGED <<mainQueue, shownVars, thread, workerQueue, linkVars, timeVars, txVars>>

(* wait(2000): the worker leaves its loop well within the two seconds. *)
StopJoin ==
  /\ main = "joining" /\ thread = "stopped"
  /\ main' = "idle"
  /\ UNCHANGED <<mainQueue, shownVars, threadVars, linkVars, timeVars, txVars>>

(* TelemetryBus::postCommand -> outboundCommand -> queued sendCommand. *)
PostCommand ==
  /\ main = "idle" /\ posted < MaxCommands
  /\ posted' = posted + 1
  /\ workerQueue' = Append(workerQueue, posted + 1)
  /\ UNCHANGED <<mainVars, thread, quit, linkVars, timeVars, txQueue, sent>>

(* The main event loop takes the oldest event: a link state goes through   *)
(* the bus to the connection bar, a message to the parser.                 *)
Deliver ==
  /\ main = "idle" /\ mainQueue # <<>>
  /\ mainQueue' = Tail(mainQueue)
  /\ IF Head(mainQueue) \in LinkStates
       THEN shown' = Head(mainQueue) /\ simulated' = FALSE
       ELSE UNCHANGED shownVars
  /\ UNCHANGED <<main, threadVars, linkVars, timeVars, txVars>>

-----------------------------------------------------------------------------
(* The worker thread. *)

(* setupSocket(), bind failed.  The quit() it calls is kept: exec(), when  *)
(* run() reaches it, returns without serving a single event.               *)
SetupFail ==
  /\ BindMayFail
  /\ thread = "setup" /\ thread' = "exiting"
  /\ running' = FALSE
  /\ UNCHANGED <<mainVars, quit, workerQueue, socketOpen, sm, firstPacket, remote,
                 timeVars, txVars>>

(* setupSocket(), bound: new timers and a new state machine. *)
SetupOk ==
  /\ thread = "setup" /\ thread' = "running"
  /\ socketOpen' = TRUE /\ running' = TRUE /\ firstPacket' = FALSE
  /\ hbLeft' = HeartbeatTimeout
  /\ LET entered == OnSocketBound("Disconnected")
     IN  /\ sm' = After("Disconnected", entered)
         /\ mainQueue' = mainQueue \o entered
  /\ UNCHANGED <<main, shownVars, quit, workerQueue, remote, hbAge, txVars>>

(* onReadyRead() for one datagram: pin the remote, count the first packet, *)
(* tell the state machine of a heartbeat, then hand the message to main.   *)
Datagram_MessageFirst(s, kind) ==
  /\ thread = "running" /\ socketOpen /\ Len(mainQueue) < MaxQueue
  /\ remote' = IF remote = NoRemote THEN s ELSE remote
  /\ firstPacket' = TRUE
  /\ LET first == IF firstPacket THEN <<>> ELSE OnPacketReceived(sm)
         beat  == IF kind = "heartbeat"
                    THEN OnHeartbeatReceived(After(sm, first)) ELSE <<>>
     IN  /\ sm' = After(sm, first \o beat)
         /\ mainQueue' = mainQueue \o first
              \o (IF kind = "noise" THEN <<>> ELSE <<kind>>) \o beat
  /\ hbAge' = IF kind = "heartbeat" THEN 0 ELSE hbAge
  /\ UNCHANGED <<main, shownVars, threadVars, running, socketOpen, hbLeft, txVars>>

Datagram_FollowsSender(s, kind) ==
  /\ thread = "running" /\ socketOpen /\ Len(mainQueue) < MaxQueue
  /\ remote' = s
  /\ firstPacket' = TRUE
  /\ sm' = sm
  /\ UNCHANGED <<mainVars, threadVars, running, socketOpen, timeVars, txVars>>

Datagram(s, kind) ==
  /\ thread = "running" /\ socketOpen /\ Len(mainQueue) < MaxQueue
  /\ remote' = IF remote = NoRemote THEN s ELSE remote
  /\ firstPacket' = TRUE
  /\ LET first == IF firstPacket THEN <<>> ELSE OnPacketReceived(sm)
         beat  == IF kind = "heartbeat"
                    THEN OnHeartbeatReceived(After(sm, first)) ELSE <<>>
     IN  /\ sm' = After(After(sm, first), beat)
         /\ mainQueue' = mainQueue \o first \o beat
                           \o (IF kind = "noise" THEN <<>> ELSE <<kind>>)
  /\ hbAge' = IF kind = "heartbeat" THEN 0 ELSE hbAge
  /\ UNCHANGED <<main, shownVars, threadVars, running, socketOpen, hbLeft, txVars>>

(* onHeartbeatTimeout(): a periodic timer that no heartbeat restarts. *)
HeartbeatDue == thread = "running" /\ socketOpen /\ hbLeft = 0

HeartbeatTick_Late ==
  /\ HeartbeatDue
  /\ hbLeft' = HeartbeatTimeout
  /\ Enter(IF hbAge # NoHeartbeat /\ hbAge > HeartbeatTimeout
             THEN OnHeartbeatTimeout(sm) ELSE <<>>)
  /\ UNCHANGED <<main, shownVars, threadVars, running, socketOpen, firstPacket, remote,
                 hbAge, txVars>>

HeartbeatTick ==
  /\ HeartbeatDue
  /\ hbLeft' = HeartbeatTimeout
  /\ Enter(IF hbAge # NoHeartbeat /\ hbAge >= HeartbeatTimeout
             THEN OnHeartbeatTimeout(sm) ELSE <<>>)
  /\ UNCHANGED <<main, shownVars, threadVars, running, socketOpen, firstPacket, remote,
                 hbAge, txVars>>

(* processOutboundQueue(): drain m_txQueue to the remote, or broadcast.    *)
(* `sent' is what writeDatagram() was called with: a call that fails is    *)
(* only logged, and not repeated.                                          *)
TxTick ==
  /\ thread = "running" /\ socketOpen /\ txQueue # <<>>
  /\ sent' = sent \o [i \in 1 .. Len(txQueue) |-> [cmd |-> txQueue[i], to |-> remote]]
  /\ txQueue' = <<>>
  /\ UNCHANGED <<mainVars, threadVars, linkVars, timeVars, posted>>

(* sendCommand(), run from the worker's event queue. *)
RunCommand_Prepends ==
  /\ thread = "running" /\ workerQueue # <<>> /\ Head(workerQueue) # StopEvent
  /\ txQueue' = <<Head(workerQueue)>> \o txQueue
  /\ workerQueue' = Tail(workerQueue)
  /\ UNCHANGED <<mainVars, thread, quit, linkVars, timeVars, sent, posted>>

RunCommand ==
  /\ thread = "running" /\ workerQueue # <<>> /\ Head(workerQueue) # StopEvent
  /\ txQueue' = Append(txQueue, Head(workerQueue))
  /\ workerQueue' = Tail(workerQueue)
  /\ UNCHANGED <<mainVars, thread, quit, linkVars, timeVars, sent, posted>>

(* The lambda of stop(); returning from it wakes the main thread. *)
RunStop_KeepsRunning ==
  /\ thread = "running" /\ workerQueue # <<>> /\ Head(workerQueue) = StopEvent
  /\ workerQueue' = Tail(workerQueue)
  /\ socketOpen' = FALSE
  /\ Enter(OnStop(sm))
  /\ remote' = NoRemote /\ firstPacket' = FALSE
  /\ main' = "quitting"
  /\ UNCHANGED <<shownVars, thread, quit, running, timeVars, txVars>>

RunStop_Silent ==
  /\ thread = "running" /\ workerQueue # <<>> /\ Head(workerQueue) = StopEvent
  /\ workerQueue' = Tail(workerQueue)
  /\ socketOpen' = FALSE
  /\ sm' = "Disconnected"
  /\ remote' = NoRemote /\ firstPacket' = FALSE /\ running' = FALSE
  /\ main' = "quitting"
  /\ UNCHANGED <<mainQueue, shownVars, thread, quit, timeVars, txVars>>

RunStop ==
  /\ thread = "running" /\ workerQueue # <<>> /\ Head(workerQueue) = StopEvent
  /\ workerQueue' = Tail(workerQueue)
  /\ socketOpen' = FALSE
  /\ Enter(OnStop(sm))
  /\ remote' = NoRemote /\ firstPacket' = FALSE /\ running' = FALSE
  /\ main' = "quitting"
  /\ UNCHANGED <<shownVars, thread, quit, timeVars, txVars>>

(* exec() returns.  Events still posted stay queued until the next start. *)
WorkerExit ==
  /\ thread = "exiting" \/ (thread = "running" /\ quit)
  /\ thread' = "stopped" /\ quit' = FALSE
  /\ UNCHANGED <<mainVars, workerQueue, linkVars, timeVars, txVars>>

-----------------------------------------------------------------------------
(* Time passes; a timer that is due is served before the clock moves on. *)
Tick_Uncapped ==
  /\ ~HeartbeatDue
  /\ hbAge' = IF hbAge = NoHeartbeat THEN hbAge ELSE hbAge + 1
  /\ hbLeft' = IF socketOpen THEN hbLeft - 1 ELSE hbLeft
  /\ UNCHANGED <<mainVars, threadVars, linkVars, txVars>>

Tick ==
  /\ ~HeartbeatDue
  /\ hbAge' = IF hbAge = NoHeartbeat \/ hbAge = AgeCap THEN hbAge ELSE hbAge + 1
  /\ hbLeft' = IF socketOpen THEN hbLeft - 1 ELSE hbLeft
  /\ UNCHANGED <<mainVars, threadVars, linkVars, txVars>>

Setup == SetupOk \/ SetupFail
Main == StartCommit \/ StopPost \/ StopQuit \/ StopJoin

Next ==
  \/ StartCall \/ StartCommit
  \/ StopCall \/ StopPost \/ StopQuit \/ StopJoin
  \/ PostCommand \/ Deliver
  \/ SetupFail \/ SetupOk
  \/ \E s \in Senders, kind \in DatagramKinds : Datagram(s, kind)
  \/ HeartbeatTick \/ TxTick \/ RunCommand \/ RunStop \/ WorkerExit
  \/ Tick

(* Qt schedules both event loops and the clock runs; callers, the vehicle  *)
(* and the network owe nothing.                                            *)
Fairness ==
  /\ WF_vars(Main) /\ WF_vars(Deliver)
  /\ WF_vars(Setup) /\ WF_vars(WorkerExit)
  /\ WF_vars(RunCommand \/ RunStop) /\ WF_vars(HeartbeatTick) /\ WF_vars(TxTick)
  /\ WF_vars(Tick)

Spec == Init /\ [][Next]_vars
FairSpec == Spec /\ Fairness

-----------------------------------------------------------------------------
(* Properties. *)

(* The status shown to the operator moves along the edges of LinkStatus:   *)
(* no transition of the worker's state machine is lost, merged or          *)
(* reordered on its way through the queue, also across stop and restart.   *)
(* Where the dummy telemetry has shown a link alive, the first of them     *)
(* takes over from that, and it is the bound socket.                       *)
Status == INSTANCE LinkStatus WITH status <- shown
ShowsLegalMoves == Status!Spec

(* A session is all there or not at all: the running flag, the socket and  *)
(* the state machine agree, and none of them survives its thread, whatever *)
(* the order of start(), stop(), a failing bind and the worker.            *)
SessionConsistent ==
  /\ running <=> socketOpen
  /\ socketOpen <=> sm # "Disconnected"
  /\ socketOpen => thread = "running"

(* The link state tells how long the vehicle has been silent: alive for    *)
(* less than two timeouts, degraded between one and three, reconnecting    *)
(* after at least two, although the timer is never restarted and so has no *)
(* fixed phase relative to the heartbeats.                                 *)
StatusMatchesSilence ==
  socketOpen /\ hbAge # NoHeartbeat =>
    CASE sm = "HeartbeatAlive" -> hbAge < 2 * HeartbeatTimeout
      [] sm = "Degraded"       -> hbAge >= HeartbeatTimeout /\ hbAge < 3 * HeartbeatTimeout
      [] sm = "Reconnecting"   -> hbAge >= 2 * HeartbeatTimeout
      [] OTHER                 -> TRUE

(* A link is called alive, degraded or lost exactly when a heartbeat of    *)
(* this session is on record: a heartbeat of an earlier session never      *)
(* counts.  It takes a caller that lets start() finish: a second start()   *)
(* that read m_running too early resets the record of the live session.    *)
HeardThisSession ==
  ~ImpatientCaller /\ socketOpen => (sm \in HeardStates <=> hbAge # NoHeartbeat)

(* Telemetry reaches the parser only while the operator sees a link that   *)
(* accounts for it: a heartbeat under "alive", any other message never     *)
(* under "disconnected" or "socket bound", not even after stop(), and      *)
(* none under the status that the dummy telemetry left on the bar.         *)
TelemetryUnderItsStatus ==
  mainQueue # <<>> =>
    /\ Head(mainQueue) \in MessageKinds => ~simulated
    /\ Head(mainQueue) = "heartbeat" => shown = "HeartbeatAlive"
    /\ Head(mainQueue) = "other" => shown \notin {"Disconnected", "SocketBound"}

(* The commands reach the socket in the order they were posted, each once, *)
(* through both queues and across stop, a failed bind and restart.         *)
CommandsInOrder ==
  /\ \A i \in DOMAIN sent : sent[i].cmd = i
  /\ \A i \in DOMAIN txQueue : txQueue[i] = Len(sent) + i
  /\ Numbered(workerQueue, Len(sent) + Len(txQueue) + 1, posted)

(* The vehicle a session talks to is the one it heard first, until the     *)
(* session ends; for a caller that lets start() finish.                    *)
RemotePinned ==
  [][~ImpatientCaller /\ running /\ running' /\ remote # NoRemote
       => remote' = remote]_vars

(* stop() returns and leaves no socket, timer or thread behind, which      *)
(* needs a bind that succeeds: it fails under BindMayFail.                 *)
StopReturns == main = "stopping" ~> (main = "idle" /\ thread = "stopped" /\ ~socketOpen)

(* Whatever the link finally settles in is what the operator finally sees, *)
(* unless no socket is ever bound: the dummy telemetry's status, which     *)
(* then stays, gives way to that of the link once one is.                  *)
IndicatorCatchesUp ==
  /\ \A s \in LinkStates : <>[](sm = s) => <>[](shown = s \/ simulated)
  /\ socketOpen ~> ~simulated
=============================================================================
