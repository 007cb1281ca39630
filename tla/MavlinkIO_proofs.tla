-------------------------- MODULE MavlinkIO_proofs --------------------------
(***************************************************************************)
(* Proofs about MavlinkIO, for every timeout, every set of senders, every  *)
(* bound and both kinds of caller.                                         *)
(***************************************************************************)
EXTENDS MavlinkIO, Queues_proofs

(* A sequence of one. *)
LEMMA Singleton ==
  ASSUME NEW S, NEW x \in S
  PROVE  <<x>> \in Seq(S)
  OBVIOUS

(* What each handler of the state machine enters, and where it ends. *)

(* A bound socket: one transition. *)
LEMMA SocketBoundHandler ==
  /\ OnSocketBound("Disconnected") \in Seq(LinkStates)
  /\ After("Disconnected", OnSocketBound("Disconnected")) = "SocketBound"
  <1>1. OnSocketBound("Disconnected") = <<"SocketBound">>
    BY DEF OnSocketBound, TransitionTo
  <1>2. "SocketBound" \in LinkStates
    BY DEF LinkStates
  <1>3. After("Disconnected", OnSocketBound("Disconnected")) = "SocketBound"
    BY <1>1 DEF After
  <1> QED  BY <1>1, <1>2, <1>3, Singleton

(* A first packet matters only to a freshly bound link. *)
LEMMA PacketHandler ==
  ASSUME NEW s \in LinkStates
  PROVE  /\ OnPacketReceived(s) \in Seq(LinkStates)
         /\ After(s, OnPacketReceived(s)) =
              IF s = "SocketBound" THEN "VehicleDiscovered" ELSE s
  <1>1. CASE s = "SocketBound"
    <2>1. OnPacketReceived(s) = <<"VehicleDiscovered">>
      BY <1>1 DEF OnPacketReceived, TransitionTo
    <2>2. "VehicleDiscovered" \in LinkStates
      BY DEF LinkStates
    <2>3. After(s, OnPacketReceived(s)) = "VehicleDiscovered"
      BY <2>1 DEF After
    <2> QED  BY <1>1, <2>1, <2>2, <2>3, Singleton
  <1>2. CASE s # "SocketBound"
    <2>1. OnPacketReceived(s) = <<>>
      BY <1>2 DEF OnPacketReceived
    <2>2. After(s, OnPacketReceived(s)) = s
      BY <2>1 DEF After
    <2> QED  BY <1>2, <2>1, <2>2
  <1> QED  BY <1>1, <1>2

(* A heartbeat makes any open link alive, by one or two transitions. *)
LEMMA HeartbeatHandler ==
  ASSUME NEW s \in LinkStates
  PROVE  /\ OnHeartbeatReceived(s) \in Seq(LinkStates)
         /\ After(s, OnHeartbeatReceived(s)) =
              IF s = "Disconnected" THEN s ELSE "HeartbeatAlive"
  <1>0. "HeartbeatAlive" \in LinkStates /\ "VehicleDiscovered" \in LinkStates
    BY DEF LinkStates
  <1>1. CASE s = "SocketBound"
    <2>1. /\ TransitionTo(s, "VehicleDiscovered") = <<"VehicleDiscovered">>
          /\ TransitionTo("VehicleDiscovered", "HeartbeatAlive") = <<"HeartbeatAlive">>
      BY <1>1 DEF TransitionTo
    <2>2. OnHeartbeatReceived(s) = <<"VehicleDiscovered">> \o <<"HeartbeatAlive">>
      BY <1>1, <2>1 DEF OnHeartbeatReceived
    <2>3. LET e == <<"VehicleDiscovered">> \o <<"HeartbeatAlive">>
          IN  e \in Seq(LinkStates) /\ Len(e) = 2 /\ e[2] = "HeartbeatAlive" /\ e # <<>>
      BY <1>0
    <2>4. After(s, OnHeartbeatReceived(s)) = "HeartbeatAlive"
      BY <2>2, <2>3 DEF After
    <2> QED  BY <1>1, <2>2, <2>3, <2>4
  <1>2. CASE s \in {"VehicleDiscovered", "Degraded", "Reconnecting"}
    <2>1. OnHeartbeatReceived(s) = <<"HeartbeatAlive">>
      BY <1>2 DEF OnHeartbeatReceived, TransitionTo
    <2>2. After(s, OnHeartbeatReceived(s)) = "HeartbeatAlive"
      BY <2>1 DEF After
    <2> QED  BY <1>0, <1>2, <2>1, <2>2, Singleton
  <1>3. CASE s \in {"Disconnected", "HeartbeatAlive"}
    <2>1. OnHeartbeatReceived(s) = <<>>
      BY <1>3 DEF OnHeartbeatReceived
    <2>2. After(s, OnHeartbeatReceived(s)) = s
      BY <2>1 DEF After
    <2> QED  BY <1>3, <2>1, <2>2
  <1> QED  BY <1>1, <1>2, <1>3 DEF LinkStates

(* A timeout costs one level. *)
LEMMA TimeoutHandler ==
  ASSUME NEW s \in LinkStates
  PROVE  /\ OnHeartbeatTimeout(s) \in Seq(LinkStates)
         /\ s = "HeartbeatAlive" => After(s, OnHeartbeatTimeout(s)) = "Degraded"
         /\ s = "Disconnected" => After(s, OnHeartbeatTimeout(s)) = "Disconnected"
         /\ s \notin {"HeartbeatAlive", "Disconnected"}
              => After(s, OnHeartbeatTimeout(s)) = "Reconnecting"
  <1>0. "Degraded" \in LinkStates /\ "Reconnecting" \in LinkStates
    BY DEF LinkStates
  <1>1. CASE s = "HeartbeatAlive"
    <2>1. OnHeartbeatTimeout(s) = <<"Degraded">>
      BY <1>1 DEF OnHeartbeatTimeout, TransitionTo
    <2>2. After(s, OnHeartbeatTimeout(s)) = "Degraded"
      BY <2>1 DEF After
    <2> QED  BY <1>0, <1>1, <2>1, <2>2, Singleton
  <1>2. CASE s \in {"Degraded", "SocketBound", "VehicleDiscovered"}
    <2>1. OnHeartbeatTimeout(s) = <<"Reconnecting">>
      BY <1>2 DEF OnHeartbeatTimeout, TransitionTo
    <2>2. After(s, OnHeartbeatTimeout(s)) = "Reconnecting"
      BY <2>1 DEF After
    <2> QED  BY <1>0, <1>2, <2>1, <2>2, Singleton
  <1>3. CASE s \in {"Disconnected", "Reconnecting"}
    <2>1. OnHeartbeatTimeout(s) = <<>>
      BY <1>3 DEF OnHeartbeatTimeout
    <2>2. After(s, OnHeartbeatTimeout(s)) = s
      BY <2>1 DEF After
    <2> QED  BY <1>3, <2>1, <2>2
  <1> QED  BY <1>1, <1>2, <1>3 DEF LinkStates

(* Whatever the state, stop() ends in Disconnected. *)
LEMMA StopHandler ==
  ASSUME NEW s \in LinkStates
  PROVE  /\ OnStop(s) \in Seq(LinkStates)
         /\ After(s, OnStop(s)) = "Disconnected"
  <1>1. CASE s = "Disconnected"
    <2>1. OnStop(s) = <<>>
      BY <1>1 DEF OnStop
    <2>2. After(s, OnStop(s)) = "Disconnected"
      BY <1>1, <2>1 DEF After
    <2> QED  BY <2>1, <2>2
  <1>2. CASE s # "Disconnected"
    <2>1. OnStop(s) = <<"Disconnected">>
      BY <1>2 DEF OnStop, TransitionTo
    <2>2. After(s, OnStop(s)) = "Disconnected"
      BY <2>1 DEF After
    <2>3. "Disconnected" \in LinkStates
      BY DEF LinkStates
    <2> QED  BY <2>1, <2>2, <2>3, Singleton
  <1> QED  BY <1>1, <1>2

(* A handler that makes no transition changes neither state nor queue. *)
LEMMA NothingEntered ==
  ASSUME NEW s
  PROVE  <<>> \in Seq(LinkStates) /\ After(s, <<>>) = s
  BY DEF After

-----------------------------------------------------------------------------
(* The inductive invariant.                                                *)

(* SessionConsistent holds across stop() because nothing of the session is *)
(* left once the lambda has run, and no setup can begin before the join.   *)
SessionInv ==
  /\ SessionConsistent
  /\ quit => thread = "running" /\ ~socketOpen
  /\ main \in {"quitting", "joining"} => thread \in {"running", "stopped"} /\ ~socketOpen
  /\ main = "starting" /\ ~ImpatientCaller => thread = "stopped"

(* Between two firings of the timer the age of the last heartbeat and the  *)
(* time to the next firing add up to a constant: that is what bounds the   *)
(* age at each transition.                                                 *)
SilenceInv ==
  /\ thread = "setup" => hbAge = NoHeartbeat
  /\ socketOpen /\ hbAge # NoHeartbeat =>
       /\ sm \in HeardStates
       /\ sm = "HeartbeatAlive" => hbAge + hbLeft < 2 * HeartbeatTimeout
       /\ sm = "Degraded" => /\ hbAge >= HeartbeatTimeout
                             /\ hbAge + hbLeft >= 2 * HeartbeatTimeout
                             /\ hbAge + hbLeft < 3 * HeartbeatTimeout
       /\ sm = "Reconnecting" => hbAge >= 2 * HeartbeatTimeout

(* The converse needs a caller that lets start() finish. *)
HeardInv == ~ImpatientCaller /\ socketOpen /\ sm \in HeardStates => hbAge # NoHeartbeat

IInv == TypeOK /\ SessionInv /\ SilenceInv /\ HeardInv

-----------------------------------------------------------------------------
(* Type correctness. *)

(* A sequence over a set is one over any larger set. *)
LEMMA SeqMonotone ==
  ASSUME NEW S, NEW T, S \subseteq T, NEW s \in Seq(S)
  PROVE  s \in Seq(T)
  OBVIOUS

(* The last state entered is a link state. *)
LEMMA AfterType ==
  ASSUME NEW s \in LinkStates, NEW e \in Seq(LinkStates)
  PROVE  After(s, e) \in LinkStates
  <1>1. CASE e = <<>>
    BY <1>1 DEF After
  <1>2. CASE e # <<>>
    <2>1. Len(e) \in 1 .. Len(e)
      BY <1>2
    <2>2. e[Len(e)] \in LinkStates
      BY <2>1
    <2> QED  BY <1>2, <2>2 DEF After
  <1> QED  BY <1>1, <1>2

(* Entering link states keeps the types of sm and mainQueue. *)
LEMMA EnterType ==
  ASSUME TypeOK, NEW e \in Seq(LinkStates), Enter(e)
  PROVE  sm' \in LinkStates /\ mainQueue' \in Seq(LinkStates \cup MessageKinds)
  <1>1. e \in Seq(LinkStates \cup MessageKinds)
    BY SeqMonotone, LinkStates \subseteq LinkStates \cup MessageKinds
  <1> QED  BY <1>1, AfterType DEF TypeOK, Enter

(* The initial state is well typed. *)
LEMMA TypeInit == Init => TypeOK
  <1> SUFFICES ASSUME Init PROVE TypeOK
    OBVIOUS
  <1>1. /\ "Disconnected" \in LinkStates
        /\ 0 \in 0 .. HeartbeatTimeout /\ posted \in 0 .. MaxCommands
        /\ hbAge \in (0 .. AgeCap) \cup {NoHeartbeat}
    BY TimeoutAssumption, BoundsAssumption DEF Init, LinkStates
  <1>2. /\ mainQueue \in Seq(LinkStates \cup MessageKinds)
        /\ workerQueue \in Seq(Nat) /\ txQueue \in Seq(Nat)
        /\ sent \in Seq([cmd : Nat, to : Senders \cup {NoRemote}])
    BY DEF Init
  <1> QED  BY <1>1, <1>2 DEF Init, EmitDummyStatus, TypeOK, LinkStates

(* A datagram keeps the types. *)
LEMMA DatagramType ==
  ASSUME TypeOK, NEW s \in Senders, NEW kind \in DatagramKinds, Datagram(s, kind)
  PROVE  TypeOK'
  <1> DEFINE first == IF firstPacket THEN <<>> ELSE OnPacketReceived(sm)
             beat  == IF kind = "heartbeat"
                        THEN OnHeartbeatReceived(After(sm, first)) ELSE <<>>
             msg   == IF kind = "noise" THEN <<>> ELSE <<kind>>
             Event == LinkStates \cup MessageKinds
  <1>1. first \in Seq(LinkStates)
    BY PacketHandler, NothingEntered DEF TypeOK
  <1>2. After(sm, first) \in LinkStates
    BY <1>1, AfterType DEF TypeOK
  <1>3. beat \in Seq(LinkStates)
    BY <1>2, HeartbeatHandler, NothingEntered
  <1>4. After(After(sm, first), beat) \in LinkStates
    BY <1>2, <1>3, AfterType
  <1>5. msg \in Seq(Event)
    <2>1. CASE kind = "noise"
      BY <2>1
    <2>2. CASE kind # "noise"
      <3>1. kind \in Event
        BY <2>2 DEF DatagramKinds
      <3> QED  BY <2>2, <3>1, Singleton
    <2> QED  BY <2>1, <2>2
  <1>6. first \in Seq(Event) /\ beat \in Seq(Event)
    BY <1>1, <1>3, SeqMonotone, LinkStates \subseteq Event
  <1>7. mainQueue' = mainQueue \o first \o beat \o msg
        /\ sm' = After(After(sm, first), beat)
    BY DEF Datagram
  <1> HIDE DEF first, beat, msg
  <1>8. mainQueue' \in Seq(Event) /\ sm' \in LinkStates
    BY <1>4, <1>5, <1>6, <1>7 DEF TypeOK
  <1> USE DEF TypeOK
  <1>9. remote' \in Senders \cup {NoRemote}
    BY DEF Datagram
  <1>10. hbAge' \in (0 .. AgeCap) \cup {NoHeartbeat}
    BY TimeoutAssumption DEF Datagram, AgeCap
  <1> QED  BY <1>8, <1>9, <1>10 DEF Datagram, shownVars, threadVars, txVars

(* Every step keeps the types. *)
LEMMA TypeStep ==
  ASSUME TypeOK, SessionInv, [Next]_vars
  PROVE  TypeOK'
  <1> USE DEF TypeOK, mainVars, shownVars, threadVars, linkVars, timeVars, txVars
  <1>1. CASE StartCall
    BY <1>1 DEF StartCall
  <1>2. CASE StartCommit
    BY <1>2 DEF StartCommit
  <1>3. CASE StopCall
    BY <1>3 DEF StopCall
  <1>4. CASE StopPost
    <2>1. CASE thread # "stopped"
      <3>1. workerQueue' = Append(workerQueue, StopEvent) /\ main' = "blocked"
        BY <1>4, <2>1 DEF StopPost
      <3>2. workerQueue' \in Seq(Nat)
        BY <3>1 DEF StopEvent
      <3>3. UNCHANGED <<mainQueue, linkVars>>
        BY <1>4, <2>1 DEF StopPost
      <3> QED  BY <1>4, <3>1, <3>2, <3>3 DEF StopPost
    <2>2. CASE thread = "stopped"
      <3>1. OnStop(sm) \in Seq(LinkStates) /\ Enter(OnStop(sm))
        BY <1>4, <2>2, StopHandler DEF StopPost
      <3> QED  BY <1>4, <2>2, <3>1, EnterType DEF StopPost
    <2> QED  BY <2>1, <2>2
  <1>5. CASE StopQuit
    BY <1>5 DEF StopQuit
  <1>6. CASE StopJoin
    BY <1>6 DEF StopJoin
  <1>7. CASE PostCommand
    BY <1>7, BoundsAssumption DEF PostCommand
  <1>8. CASE Deliver
    <2>1. Head(mainQueue) \in LinkStates \cup MessageKinds
          /\ Tail(mainQueue) \in Seq(LinkStates \cup MessageKinds)
      BY <1>8 DEF Deliver
    <2> QED  BY <1>8, <2>1 DEF Deliver
  <1>9. CASE SetupFail
    BY <1>9 DEF SetupFail
  <1>10. CASE SetupOk
    <2>1. /\ sm' = After("Disconnected", OnSocketBound("Disconnected"))
          /\ mainQueue' = mainQueue \o OnSocketBound("Disconnected")
      BY <1>10 DEF SetupOk
    <2>2. sm' \in LinkStates
      BY <2>1, SocketBoundHandler DEF LinkStates
    <2>3. OnSocketBound("Disconnected") \in Seq(LinkStates \cup MessageKinds)
      BY SocketBoundHandler, SeqMonotone, LinkStates \subseteq LinkStates \cup MessageKinds
    <2>4. mainQueue' \in Seq(LinkStates \cup MessageKinds)
      BY <2>1, <2>3
    <2>5. hbLeft' \in 0 .. HeartbeatTimeout
      BY <1>10, TimeoutAssumption DEF SetupOk
    <2> QED  BY <1>10, <2>2, <2>4, <2>5 DEF SetupOk
  <1>11. CASE \E s \in Senders, kind \in DatagramKinds : Datagram(s, kind)
    BY <1>11, DatagramType
  <1>12. CASE HeartbeatTick
    <2> DEFINE e == IF hbAge # NoHeartbeat /\ hbAge >= HeartbeatTimeout
                      THEN OnHeartbeatTimeout(sm) ELSE <<>>
    <2>1. e \in Seq(LinkStates) /\ Enter(e)
      BY <1>12, TimeoutHandler, NothingEntered DEF HeartbeatTick
    <2> HIDE DEF e
    <2>2. sm' \in LinkStates /\ mainQueue' \in Seq(LinkStates \cup MessageKinds)
      BY <2>1, EnterType
    <2> QED  BY <1>12, <2>2, TimeoutAssumption DEF HeartbeatTick
  <1>13. CASE TxTick
    <2>1. [i \in 1 .. Len(txQueue) |-> [cmd |-> txQueue[i], to |-> remote]]
            \in Seq([cmd : Nat, to : Senders \cup {NoRemote}])
      OBVIOUS
    <2> QED  BY <1>13, <2>1 DEF TxTick
  <1>14. CASE RunCommand
    BY <1>14 DEF RunCommand
  <1>15. CASE RunStop
    <2>1. OnStop(sm) \in Seq(LinkStates) /\ Enter(OnStop(sm))
      BY <1>15, StopHandler DEF RunStop
    <2>2. sm' \in LinkStates /\ mainQueue' \in Seq(LinkStates \cup MessageKinds)
      BY <2>1, EnterType
    <2>3. workerQueue' \in Seq(Nat)
      BY <1>15 DEF RunStop
    <2> QED  BY <1>15, <2>2, <2>3 DEF RunStop
  <1>16. CASE WorkerExit
    BY <1>16 DEF WorkerExit
  <1>17. CASE Tick
    <2>1. hbAge' \in (0 .. AgeCap) \cup {NoHeartbeat}
      BY <1>17, TimeoutAssumption DEF Tick, AgeCap, NoHeartbeat
    <2>2. hbLeft' \in 0 .. HeartbeatTimeout
      BY <1>17, TimeoutAssumption
      DEF Tick, HeartbeatDue, SessionInv, SessionConsistent
    <2> QED  BY <1>17, <2>1, <2>2 DEF Tick
  <1>18. CASE UNCHANGED vars
    BY <1>18 DEF vars
  <1> QED
    BY <1>1, <1>2, <1>3, <1>4, <1>5, <1>6, <1>7, <1>8, <1>9, <1>10, <1>11,
       <1>12, <1>13, <1>14, <1>15, <1>16, <1>17, <1>18 DEF Next

-----------------------------------------------------------------------------
(* Sessions. *)

(* What a datagram and a timeout do to the state of an open link. *)
LEMMA DatagramState ==
  ASSUME TypeOK, NEW s \in Senders, NEW kind \in DatagramKinds, Datagram(s, kind)
  PROVE  /\ sm # "Disconnected" => sm' # "Disconnected"
         /\ kind = "heartbeat" /\ sm # "Disconnected" => sm' = "HeartbeatAlive"
         /\ kind # "heartbeat" /\ sm # "SocketBound" => sm' = sm
         /\ kind # "heartbeat" /\ sm = "SocketBound"
              => sm' \in {"SocketBound", "VehicleDiscovered"}
  <1> DEFINE first == IF firstPacket THEN <<>> ELSE OnPacketReceived(sm)
             beat  == IF kind = "heartbeat"
                        THEN OnHeartbeatReceived(After(sm, first)) ELSE <<>>
  <1>1. sm' = After(After(sm, first), beat)
    BY DEF Datagram
  <1>2. /\ After(sm, first) \in LinkStates
        /\ sm # "SocketBound" => After(sm, first) = sm
        /\ sm = "SocketBound" => After(sm, first) \in {"SocketBound", "VehicleDiscovered"}
    <2>1. CASE firstPacket
      BY <2>1, NothingEntered DEF TypeOK
    <2>2. CASE ~firstPacket
      BY <2>2, PacketHandler DEF TypeOK, LinkStates
    <2> QED  BY <2>1, <2>2
  <1> DEFINE mid == After(sm, first)
  <1>3. CASE kind = "heartbeat"
    <2>1. After(mid, beat) = IF mid = "Disconnected" THEN mid ELSE "HeartbeatAlive"
      BY <1>2, <1>3, HeartbeatHandler
    <2>2. sm # "Disconnected" => mid # "Disconnected"
      BY <1>2
    <2> QED  BY <1>1, <1>3, <2>1, <2>2
  <1>4. CASE kind # "heartbeat"
    <2>1. After(mid, beat) = mid
      BY <1>4, NothingEntered
    <2>2. sm # "Disconnected" => mid # "Disconnected"
      BY <1>2
    <2> QED  BY <1>1, <1>2, <1>4, <2>1, <2>2
  <1> QED  BY <1>3, <1>4

(* The heartbeat timer changes the state only when a heartbeat is overdue. *)
LEMMA TickState ==
  ASSUME TypeOK, HeartbeatTick
  PROVE  /\ hbAge # NoHeartbeat /\ hbAge >= HeartbeatTimeout =>
              /\ sm = "HeartbeatAlive" => sm' = "Degraded"
              /\ sm = "Disconnected" => sm' = "Disconnected"
              /\ sm \notin {"HeartbeatAlive", "Disconnected"} => sm' = "Reconnecting"
         /\ ~(hbAge # NoHeartbeat /\ hbAge >= HeartbeatTimeout) => sm' = sm
  <1>1. CASE hbAge # NoHeartbeat /\ hbAge >= HeartbeatTimeout
    BY <1>1, TimeoutHandler DEF HeartbeatTick, Enter, TypeOK
  <1>2. CASE ~(hbAge # NoHeartbeat /\ hbAge >= HeartbeatTimeout)
    BY <1>2, NothingEntered DEF HeartbeatTick, Enter
  <1> QED  BY <1>1, <1>2

(* Every step keeps the session in agreement. *)
LEMMA SessionStep ==
  ASSUME TypeOK, SessionInv, [Next]_vars
  PROVE  SessionInv'
  <1> USE DEF SessionInv, SessionConsistent, mainVars, threadVars, linkVars, timeVars, txVars
  <1>0. thread \in {"stopped", "setup", "running", "exiting"}
    BY DEF TypeOK
  <1>1. CASE StartCall
    BY <1>1 DEF StartCall
  <1>2. CASE StartCommit
    BY <1>2 DEF StartCommit
  <1>3. CASE StopCall
    BY <1>3 DEF StopCall
  <1>4. CASE StopPost
    <2>1. CASE thread # "stopped"
      BY <1>4, <2>1 DEF StopPost
    <2>2. CASE thread = "stopped"
      <3>1. sm' = "Disconnected"
        BY <1>4, <2>2, StopHandler DEF StopPost, Enter, TypeOK
      <3> QED  BY <1>4, <2>2, <3>1 DEF StopPost
    <2> QED  BY <2>1, <2>2
  <1>5. CASE StopQuit
    BY <1>5 DEF StopQuit
  <1>6. CASE StopJoin
    BY <1>6 DEF StopJoin
  <1>7. CASE PostCommand
    BY <1>7 DEF PostCommand
  <1>8. CASE Deliver
    BY <1>8 DEF Deliver
  <1>9. CASE SetupFail
    BY <1>9 DEF SetupFail
  <1>10. CASE SetupOk
    <2>1. sm' # "Disconnected"
      BY <1>10, SocketBoundHandler DEF SetupOk
    <2> QED  BY <1>10, <2>1 DEF SetupOk
  <1>11. CASE \E s \in Senders, kind \in DatagramKinds : Datagram(s, kind)
    <2>1. PICK s \in Senders, kind \in DatagramKinds : Datagram(s, kind)
      BY <1>11
    <2>2. sm' # "Disconnected"
      BY <2>1, DatagramState DEF Datagram
    <2> QED  BY <2>1, <2>2 DEF Datagram
  <1>12. CASE HeartbeatTick
    <2>1. sm' # "Disconnected"
      BY <1>12, TickState DEF HeartbeatTick, HeartbeatDue, TypeOK
    <2> QED  BY <1>12, <2>1 DEF HeartbeatTick, HeartbeatDue
  <1>13. CASE TxTick
    BY <1>13 DEF TxTick
  <1>14. CASE RunCommand
    BY <1>14 DEF RunCommand
  <1>15. CASE RunStop
    <2>1. sm' = "Disconnected"
      BY <1>15, StopHandler DEF RunStop, Enter, TypeOK
    <2> QED  BY <1>15, <2>1 DEF RunStop
  <1>16. CASE WorkerExit
    BY <1>0, <1>16 DEF WorkerExit
  <1>17. CASE Tick
    BY <1>17 DEF Tick
  <1>18. CASE UNCHANGED vars
    BY <1>18 DEF vars
  <1> QED
    BY <1>1, <1>2, <1>3, <1>4, <1>5, <1>6, <1>7, <1>8, <1>9, <1>10, <1>11,
       <1>12, <1>13, <1>14, <1>15, <1>16, <1>17, <1>18 DEF Next

-----------------------------------------------------------------------------
(* Silence. *)

(* Every step keeps the relation of age, timer and link state. *)
LEMMA SilenceStep ==
  ASSUME TypeOK, SessionInv, SilenceInv, [Next]_vars
  PROVE  SilenceInv'
  <1> USE DEF SilenceInv, mainVars, threadVars, linkVars, timeVars, txVars
  <1>0. /\ HeartbeatTimeout \in Nat /\ HeartbeatTimeout > 0
        /\ hbAge \in Int /\ hbLeft \in 0 .. HeartbeatTimeout
        /\ NoHeartbeat \in Int /\ (hbAge # NoHeartbeat => hbAge \in 0 .. AgeCap)
    BY TimeoutAssumption DEF TypeOK, NoHeartbeat, AgeCap
  <1>1. CASE StartCall
    BY <1>1 DEF StartCall
  <1>2. CASE StartCommit
    BY <1>2 DEF StartCommit
  <1>3. CASE StopCall
    BY <1>3 DEF StopCall
  <1>4. CASE StopPost
    <2>1. CASE thread # "stopped"
      BY <1>4, <2>1 DEF StopPost
    <2>2. CASE thread = "stopped"
      BY <1>4, <2>2 DEF StopPost, SessionInv, SessionConsistent
    <2> QED  BY <2>1, <2>2
  <1>5. CASE StopQuit
    BY <1>5 DEF StopQuit
  <1>6. CASE StopJoin
    BY <1>6 DEF StopJoin
  <1>7. CASE PostCommand
    BY <1>7 DEF PostCommand
  <1>8. CASE Deliver
    BY <1>8 DEF Deliver
  <1>9. CASE SetupFail
    BY <1>9 DEF SetupFail
  <1>10. CASE SetupOk
    BY <1>10 DEF SetupOk
  <1>11. CASE \E s \in Senders, kind \in DatagramKinds : Datagram(s, kind)
    <2>1. PICK s \in Senders, kind \in DatagramKinds : Datagram(s, kind)
      BY <1>11
    <2>2. sm # "Disconnected"
      BY <2>1 DEF Datagram, SessionInv, SessionConsistent
    <2>3. thread' = thread /\ hbLeft' = hbLeft /\ socketOpen' = socketOpen
          /\ socketOpen /\ thread = "running"
      BY <2>1 DEF Datagram
    <2>4. CASE kind = "heartbeat"
      <3>1. sm' = "HeartbeatAlive"
        BY <2>1, <2>2, <2>4, DatagramState
      <3>2. hbAge' = 0
        BY <2>1, <2>4 DEF Datagram
      <3> QED  BY <1>0, <2>3, <3>1, <3>2 DEF HeardStates
    <2>5. CASE kind # "heartbeat"
      <3>1. hbAge' = hbAge
        BY <2>1, <2>5 DEF Datagram
      <3>2. hbAge # NoHeartbeat => sm # "SocketBound"
        BY <2>3 DEF HeardStates
      <3>3. hbAge # NoHeartbeat => sm' = sm
        BY <2>1, <2>5, <3>2, DatagramState
      <3> QED  BY <2>3, <3>1, <3>3
    <2> QED  BY <2>4, <2>5
  <1>12. CASE HeartbeatTick
    <2>1. /\ thread' = thread /\ socketOpen' = socketOpen /\ hbAge' = hbAge
          /\ hbLeft' = HeartbeatTimeout /\ hbLeft = 0
          /\ thread = "running" /\ socketOpen
      BY <1>12 DEF HeartbeatTick, HeartbeatDue
    <2>2. CASE hbAge = NoHeartbeat
      BY <2>1, <2>2
    <2>3. CASE hbAge # NoHeartbeat /\ hbAge < HeartbeatTimeout
      <3>1. sm' = sm
        BY <1>0, <1>12, <2>3, TickState
      <3>2. sm = "HeartbeatAlive"
        BY <1>0, <2>1, <2>3 DEF HeardStates
      <3> QED  BY <1>0, <2>1, <2>3, <3>1, <3>2 DEF HeardStates
    <2>4. CASE hbAge # NoHeartbeat /\ hbAge >= HeartbeatTimeout
      <3>1. /\ sm = "HeartbeatAlive" => sm' = "Degraded"
            /\ sm \in {"Degraded", "Reconnecting"} => sm' = "Reconnecting"
        BY <1>12, <2>4, TickState
      <3>2. CASE sm = "HeartbeatAlive"
        BY <1>0, <2>1, <2>4, <3>1, <3>2 DEF HeardStates
      <3>3. CASE sm \in {"Degraded", "Reconnecting"}
        BY <1>0, <2>1, <2>4, <3>1, <3>3 DEF HeardStates
      <3> QED  BY <2>1, <2>4, <3>2, <3>3 DEF HeardStates
    <2> QED  BY <1>0, <2>2, <2>3, <2>4
  <1>13. CASE TxTick
    BY <1>13 DEF TxTick
  <1>14. CASE RunCommand
    BY <1>14 DEF RunCommand
  <1>15. CASE RunStop
    BY <1>15 DEF RunStop
  <1>16. CASE WorkerExit
    BY <1>16 DEF WorkerExit
  <1>17. CASE Tick
    <2>1. sm' = sm /\ thread' = thread /\ socketOpen' = socketOpen
      BY <1>17 DEF Tick
    <2>2. CASE hbAge = NoHeartbeat
      BY <1>17, <2>1, <2>2 DEF Tick
    <2>3. CASE hbAge # NoHeartbeat /\ socketOpen
      <3>1. hbLeft' = hbLeft - 1
        BY <1>17, <2>3 DEF Tick
      <3>2. hbAge' = IF hbAge = AgeCap THEN hbAge ELSE hbAge + 1
        BY <1>17, <2>3 DEF Tick
      <3>3. thread # "setup"
        BY <2>3 DEF SessionInv, SessionConsistent
      <3>4. hbAge' # NoHeartbeat
        BY <1>0, <2>3, <3>2 DEF NoHeartbeat
      <3> QED  BY <1>0, <2>1, <2>3, <3>1, <3>2, <3>3, <3>4 DEF AgeCap, HeardStates
    <2>4. CASE hbAge # NoHeartbeat /\ ~socketOpen
      BY <2>1, <2>4
    <2> QED  BY <2>2, <2>3, <2>4
  <1>18. CASE UNCHANGED vars
    BY <1>18 DEF vars
  <1> QED
    BY <1>1, <1>2, <1>3, <1>4, <1>5, <1>6, <1>7, <1>8, <1>9, <1>10, <1>11,
       <1>12, <1>13, <1>14, <1>15, <1>16, <1>17, <1>18 DEF Next

(* Every step keeps the converse. *)
LEMMA HeardStep ==
  ASSUME TypeOK, SessionInv, SilenceInv, HeardInv, [Next]_vars
  PROVE  HeardInv'
  <1> USE DEF HeardInv, mainVars, threadVars, linkVars, timeVars, txVars
  <1>1. CASE StartCall
    BY <1>1 DEF StartCall
  <1>2. CASE StartCommit
    BY <1>2 DEF StartCommit, SessionInv, SessionConsistent
  <1>3. CASE StopCall
    BY <1>3 DEF StopCall
  <1>4. CASE StopPost
    <2>1. CASE thread # "stopped"
      BY <1>4, <2>1 DEF StopPost
    <2>2. CASE thread = "stopped"
      BY <1>4, <2>2 DEF StopPost, SessionInv, SessionConsistent
    <2> QED  BY <2>1, <2>2
  <1>5. CASE StopQuit
    BY <1>5 DEF StopQuit
  <1>6. CASE StopJoin
    BY <1>6 DEF StopJoin
  <1>7. CASE PostCommand
    BY <1>7 DEF PostCommand
  <1>8. CASE Deliver
    BY <1>8 DEF Deliver
  <1>9. CASE SetupFail
    BY <1>9 DEF SetupFail
  <1>10. CASE SetupOk
    <2>1. sm' = "SocketBound"
      BY <1>10, SocketBoundHandler DEF SetupOk
    <2> QED  BY <2>1 DEF HeardStates
  <1>11. CASE \E s \in Senders, kind \in DatagramKinds : Datagram(s, kind)
    <2>1. PICK s \in Senders, kind \in DatagramKinds : Datagram(s, kind)
      BY <1>11
    <2>2. CASE kind = "heartbeat"
      <3>1. hbAge' # NoHeartbeat
        BY <2>1, <2>2 DEF Datagram, NoHeartbeat
      <3> QED  BY <3>1
    <2>3. CASE kind # "heartbeat"
      <3>1. sm' \in HeardStates => sm \in HeardStates
        BY <2>1, <2>3, DatagramState DEF HeardStates
      <3> QED  BY <2>1, <2>3, <3>1 DEF Datagram
    <2> QED  BY <2>2, <2>3
  <1>12. CASE HeartbeatTick
    <2>1. hbAge = NoHeartbeat => sm' = sm
      BY <1>12, TickState
    <2> QED  BY <1>12, <2>1 DEF HeartbeatTick
  <1>13. CASE TxTick
    BY <1>13 DEF TxTick
  <1>14. CASE RunCommand
    BY <1>14 DEF RunCommand
  <1>15. CASE RunStop
    BY <1>15 DEF RunStop
  <1>16. CASE WorkerExit
    BY <1>16 DEF WorkerExit
  <1>17. CASE Tick
    <2>1. hbAge # NoHeartbeat => hbAge' # NoHeartbeat
      BY <1>17, TimeoutAssumption DEF Tick, TypeOK, AgeCap, NoHeartbeat
    <2> QED  BY <1>17, <2>1 DEF Tick
  <1>18. CASE UNCHANGED vars
    BY <1>18 DEF vars
  <1> QED
    BY <1>1, <1>2, <1>3, <1>4, <1>5, <1>6, <1>7, <1>8, <1>9, <1>10, <1>11,
       <1>12, <1>13, <1>14, <1>15, <1>16, <1>17, <1>18 DEF Next

-----------------------------------------------------------------------------
(* The theorems. *)

(* The inductive invariant: SessionInv alone is inductive given the types,  *)
(* SilenceInv needs it, HeardInv needs both.                               *)
THEOREM Invariance == Spec => []IInv
  <1>1. Init => IInv
    BY TypeInit
    DEF Init, IInv, SessionInv, SessionConsistent, SilenceInv, HeardInv
  <1>2. IInv /\ [Next]_vars => IInv'
    BY TypeStep, SessionStep, SilenceStep, HeardStep DEF IInv
  <1> QED  BY <1>1, <1>2, PTL DEF Spec

(* Every variable keeps its type. *)
THEOREM TypeCorrect == Spec => []TypeOK
  BY Invariance, PTL DEF IInv

(* The flag, the socket and the state machine of a session agree and never *)
(* outlive the worker thread, for every interleaving of start, stop, a     *)
(* failing bind and the worker.                                            *)
THEOREM SessionsAreConsistent == Spec => []SessionConsistent
  BY Invariance, PTL DEF IInv, SessionInv

(* The link state bounds how long the vehicle has been silent. *)
THEOREM StatusBoundsSilence == Spec => []StatusMatchesSilence
  <1>1. IInv => StatusMatchesSilence
    <2> SUFFICES ASSUME IInv, socketOpen, hbAge # NoHeartbeat
                 PROVE  /\ sm = "HeartbeatAlive" => hbAge < 2 * HeartbeatTimeout
                        /\ sm = "Degraded" => /\ hbAge >= HeartbeatTimeout
                                              /\ hbAge < 3 * HeartbeatTimeout
                        /\ sm = "Reconnecting" => hbAge >= 2 * HeartbeatTimeout
      BY DEF StatusMatchesSilence
    <2>1. hbAge \in Int /\ hbLeft \in Nat /\ HeartbeatTimeout \in Nat
      BY TimeoutAssumption DEF IInv, TypeOK, NoHeartbeat, AgeCap
    <2> QED  BY <2>1 DEF IInv, SilenceInv
  <1> QED  BY <1>1, Invariance, PTL

(* With a caller that lets start() finish, a link has a heartbeat on       *)
(* record exactly when its state says it was heard.                        *)
THEOREM HeardMeansHeard == Spec => []HeardThisSession
  <1>1. IInv => HeardThisSession
    BY DEF IInv, SilenceInv, HeardInv, HeardThisSession
  <1> QED  BY <1>1, Invariance, PTL

(* The remote of a session, once pinned, stays: with a caller that lets    *)
(* start() finish only the end of the session forgets it.                  *)
THEOREM RemoteStaysPinned == Spec => RemotePinned
  <1> DEFINE Pinned == ~ImpatientCaller /\ running /\ running' /\ remote # NoRemote
                         => remote' = remote
  <1>1. IInv /\ [Next]_vars => [Pinned]_vars
    <2> SUFFICES ASSUME SessionInv, [Next]_vars PROVE Pinned
      BY DEF IInv
    <2> USE DEF mainVars, threadVars, linkVars, timeVars, txVars
    <2>1. CASE StartCommit
      BY <2>1 DEF StartCommit, SessionInv, SessionConsistent
    <2>2. CASE StopPost
      BY <2>2 DEF StopPost
    <2>3. CASE SetupOk \/ SetupFail
      BY <2>3 DEF SetupOk, SetupFail
    <2>4. ASSUME NEW s \in Senders, NEW kind \in DatagramKinds, Datagram(s, kind)
          PROVE  Pinned
      BY <2>4 DEF Datagram
    <2>5. CASE RunStop
      BY <2>5 DEF RunStop
    <2>6. CASE \/ StartCall \/ StopCall \/ StopQuit \/ StopJoin \/ PostCommand
               \/ Deliver \/ HeartbeatTick \/ TxTick \/ RunCommand \/ WorkerExit
               \/ Tick \/ UNCHANGED vars
      BY <2>6 DEF StartCall, StopCall, StopQuit, StopJoin, PostCommand, Deliver,
         HeartbeatTick, TxTick, RunCommand, WorkerExit, Tick, vars
    <2> QED  BY <2>1, <2>2, <2>3, <2>4, <2>5, <2>6 DEF Next
  <1> QED  BY <1>1, Invariance, PTL DEF Spec, RemotePinned

-----------------------------------------------------------------------------
(* Commands. *)

(* A command that joins or leaves a queue is the next one in its order.    *)
LEMMA CommandStep ==
  ASSUME TypeOK, CommandsInOrder, [Next]_vars
  PROVE  CommandsInOrder'
  <1> USE DEF mainVars, threadVars, linkVars, timeVars, txVars
  <1>0. /\ workerQueue \in Seq(Nat) /\ txQueue \in Seq(Nat) /\ posted \in Nat
        /\ sent \in Seq([cmd : Nat, to : Senders \cup {NoRemote}])
    BY BoundsAssumption DEF TypeOK
  <1> DEFINE next == Len(sent) + Len(txQueue) + 1
  <1>a. next \in Nat \ {0} /\ Numbered(workerQueue, next, posted)
    BY <1>0 DEF CommandsInOrder
  <1>b. /\ DOMAIN sent = 1 .. Len(sent) /\ Len(sent) \in Nat
        /\ DOMAIN txQueue = 1 .. Len(txQueue) /\ Len(txQueue) \in Nat
    BY <1>0
  <1>1. CASE StopPost
    <2>1. CASE thread # "stopped"
      <3>1. workerQueue' = Append(workerQueue, 0) /\ UNCHANGED <<sent, txQueue, posted>>
        BY <1>1, <2>1 DEF StopPost, StopEvent
      <3>2. Numbered(workerQueue', next, posted)
        BY <1>0, <1>a, <3>1, NumberedPushOther
      <3> QED  BY <3>1, <3>2 DEF CommandsInOrder
    <2>2. CASE thread = "stopped"
      BY <1>1, <2>2 DEF StopPost, CommandsInOrder
    <2> QED  BY <2>1, <2>2
  <1>2. CASE PostCommand
    <2>1. /\ posted' = posted + 1 /\ workerQueue' = Append(workerQueue, posted + 1)
          /\ UNCHANGED <<sent, txQueue>>
      BY <1>2 DEF PostCommand
    <2>2. Numbered(workerQueue', next, posted')
      BY <1>0, <1>a, <2>1, NumberedPush
    <2> QED  BY <2>1, <2>2 DEF CommandsInOrder
  <1>3. CASE TxTick
    <2> DEFINE written == [i \in 1 .. Len(txQueue) |-> [cmd |-> txQueue[i], to |-> remote]]
    <2>1. /\ sent' = sent \o written /\ txQueue' = <<>>
          /\ UNCHANGED <<workerQueue, posted>>
      BY <1>3 DEF TxTick
    <2>2. /\ written \in Seq([cmd : Nat, to : Senders \cup {NoRemote}])
          /\ Len(written) = Len(txQueue)
          /\ \A i \in 1 .. Len(txQueue) : written[i].cmd = Len(sent) + i
      BY <1>0, <1>3 DEF CommandsInOrder, TypeOK
    <2> HIDE DEF written
    <2>3. /\ Len(sent') = Len(sent) + Len(txQueue) /\ DOMAIN sent' = 1 .. Len(sent')
          /\ \A i \in 1 .. Len(sent') :
               sent'[i] = IF i <= Len(sent) THEN sent[i] ELSE written[i - Len(sent)]
      <3> DEFINE S == [cmd : Nat, to : Senders \cup {NoRemote}]
      <3>1. sent \in Seq(S) /\ written \in Seq(S)
        BY <1>0, <2>2
      <3> HIDE DEF S
      <3>2. /\ Len(sent \o written) = Len(sent) + Len(written)
            /\ DOMAIN (sent \o written) = 1 .. Len(sent \o written)
            /\ \A i \in 1 .. Len(sent \o written) :
                 (sent \o written)[i] = IF i <= Len(sent) THEN sent[i] ELSE written[i - Len(sent)]
        BY <3>1
      <3> QED  BY <2>1, <2>2, <3>2
    <2>4. \A i \in DOMAIN sent' : sent'[i].cmd = i
      <3> SUFFICES ASSUME NEW i \in 1 .. Len(sent') PROVE sent'[i].cmd = i
        BY <2>3
      <3>1. CASE i <= Len(sent)
        BY <1>b, <2>3, <3>1 DEF CommandsInOrder
      <3>2. CASE i > Len(sent)
        <4>1. i - Len(sent) \in 1 .. Len(txQueue)
          BY <1>b, <2>3, <3>2
        <4> QED  BY <1>b, <2>2, <2>3, <3>2, <4>1
      <3> QED  BY <1>b, <3>1, <3>2
    <2>5. Len(sent') + Len(txQueue') + 1 = next
      BY <1>b, <2>1, <2>3
    <2> QED  BY <1>a, <2>1, <2>4, <2>5 DEF CommandsInOrder
  <1>4. CASE RunCommand
    <2>1. /\ workerQueue # <<>> /\ Head(workerQueue) # 0
          /\ txQueue' = Append(txQueue, Head(workerQueue)) /\ workerQueue' = Tail(workerQueue)
          /\ UNCHANGED <<sent, posted>>
      BY <1>4 DEF RunCommand, StopEvent
    <2>2. Head(workerQueue) = next /\ Numbered(workerQueue', next + 1, posted)
      BY <1>0, <1>a, <2>1, NumberedPop
    <2>3. /\ Len(txQueue') = Len(txQueue) + 1 /\ DOMAIN txQueue' = 1 .. Len(txQueue) + 1
          /\ txQueue'[Len(txQueue) + 1] = next
          /\ \A i \in 1 .. Len(txQueue) : txQueue'[i] = txQueue[i]
      BY <1>0, <2>1, <2>2
    <2>4. \A i \in DOMAIN txQueue' : txQueue'[i] = Len(sent) + i
      BY <1>b, <2>3 DEF CommandsInOrder
    <2>5. Len(sent) + Len(txQueue') + 1 = next + 1
      BY <1>b, <2>3
    <2> QED  BY <2>1, <2>2, <2>4, <2>5 DEF CommandsInOrder
  <1>5. CASE RunStop
    <2>1. /\ workerQueue # <<>> /\ Head(workerQueue) = 0 /\ workerQueue' = Tail(workerQueue)
          /\ UNCHANGED <<sent, txQueue, posted>>
      BY <1>5 DEF RunStop, StopEvent
    <2>2. Numbered(workerQueue', next, posted)
      BY <1>0, <1>a, <2>1, NumberedPopOther
    <2> QED  BY <2>1, <2>2 DEF CommandsInOrder
  <1>6. CASE \/ StartCall \/ StartCommit \/ StopCall \/ StopQuit \/ StopJoin \/ Deliver
             \/ SetupFail \/ SetupOk \/ HeartbeatTick \/ WorkerExit \/ Tick
             \/ UNCHANGED vars
    <2>1. UNCHANGED <<workerQueue, txQueue, sent, posted>>
      BY <1>6 DEF StartCall, StartCommit, StopCall, StopQuit, StopJoin, Deliver, SetupFail,
         SetupOk, HeartbeatTick, WorkerExit, Tick, vars
    <2> QED  BY <2>1 DEF CommandsInOrder
  <1>7. ASSUME NEW s \in Senders, NEW kind \in DatagramKinds, Datagram(s, kind)
        PROVE  CommandsInOrder'
    BY <1>7 DEF Datagram, CommandsInOrder
  <1> QED  BY <1>1, <1>2, <1>3, <1>4, <1>5, <1>6, <1>7 DEF Next

(* The commands reach the wire in order and each once, for any number.     *)
THEOREM CommandsStayInOrder == Spec => []CommandsInOrder
  <1>1. Init => CommandsInOrder
    BY BoundsAssumption, NumberedEmpty, 0 \in Nat DEF Init, CommandsInOrder
  <1>2. IInv /\ CommandsInOrder /\ [Next]_vars => CommandsInOrder'
    BY CommandStep DEF IInv
  <1> QED  BY <1>1, <1>2, Invariance, PTL DEF Spec

-----------------------------------------------------------------------------
(* The indicator.  The events on their way to the main thread lead from    *)
(* the status it shows to the state of the state machine, along the edges  *)
(* of LinkStatus; each message among them arrives under a status that      *)
(* accounts for it.                                                        *)

Edge(from, to) ==
  /\ from \in LinkStates /\ to \in LinkStates
  /\ \/ from = "Disconnected" /\ to = "SocketBound"
     \/ from = "SocketBound" /\ to = "VehicleDiscovered"
     \/ from = "VehicleDiscovered" /\ to = "HeartbeatAlive"
     \/ from = "HeartbeatAlive" /\ to = "Degraded"
     \/ from = "Degraded" /\ to \in {"Reconnecting", "HeartbeatAlive"}
     \/ from = "Reconnecting" /\ to = "HeartbeatAlive"
     \/ from # "Disconnected" /\ to = "Disconnected"

(* Serving an event under one status leads to another, or to the same.     *)
Serves(from, event, to) ==
  \/ event \in LinkStates /\ to = event /\ Edge(from, to)
  \/ event = "heartbeat" /\ from = "HeartbeatAlive" /\ to = from
  \/ event = "other" /\ from \in LinkStates \ {"Disconnected", "SocketBound"} /\ to = from

(* w[i] is the status after the first i events. *)
IsWalk(w, events, from, to) ==
  /\ w \in [0 .. Len(events) -> LinkStates]
  /\ w[0] = from /\ w[Len(events)] = to
  /\ \A i \in 1 .. Len(events) : Serves(w[i - 1], events[i], w[i])

Leads(events, from, to) == \E w : IsWalk(w, events, from, to)

MainEvents == LinkStates \cup MessageKinds

(* No event leads nowhere. *)
LEMMA LeadsNowhere ==
  ASSUME NEW s \in LinkStates
  PROVE  Leads(<<>>, s, s)
  <1> DEFINE w == [i \in 0 .. 0 |-> s]
  <1>1. IsWalk(w, <<>>, s, s)
    BY DEF IsWalk
  <1> QED  BY <1>1 DEF Leads

(* One more event at the end. *)
LEMMA LeadsOn ==
  ASSUME NEW q \in Seq(MainEvents), NEW a, NEW b, NEW c, NEW e \in MainEvents,
         Leads(q, a, b), Serves(b, e, c), c \in LinkStates
  PROVE  Leads(Append(q, e), a, c)
  <1>1. PICK w : IsWalk(w, q, a, b)
    BY DEF Leads
  <1> DEFINE r == Append(q, e)
             v == [i \in 0 .. Len(q) + 1 |-> IF i = Len(q) + 1 THEN c ELSE w[i]]
  <1>2. /\ Len(r) = Len(q) + 1 /\ r[Len(q) + 1] = e /\ Len(q) \in Nat
        /\ \A i \in 1 .. Len(q) : r[i] = q[i]
    OBVIOUS
  <1> HIDE DEF r
  <1>3. v \in [0 .. Len(r) -> LinkStates] /\ v[0] = a /\ v[Len(r)] = c
    BY <1>1, <1>2 DEF IsWalk
  <1>4. ASSUME NEW i \in 1 .. Len(r) PROVE Serves(v[i - 1], r[i], v[i])
    <2>1. CASE i = Len(q) + 1
      <3>1. v[i - 1] = w[Len(q)] /\ v[i] = c
        BY <1>2, <2>1
      <3> QED  BY <1>1, <1>2, <2>1, <3>1 DEF IsWalk
    <2>2. CASE i \in 1 .. Len(q)
      <3>1. v[i - 1] = w[i - 1] /\ v[i] = w[i]
        BY <1>2, <2>2
      <3> QED  BY <1>1, <1>2, <2>2, <3>1 DEF IsWalk
    <2> QED  BY <1>2, <2>1, <2>2
  <1>5. IsWalk(v, r, a, c)
    BY <1>3, <1>4 DEF IsWalk
  <1>6. Leads(r, a, c)
    BY <1>5 DEF Leads
  <1> QED  BY <1>6 DEF r

(* One event less at the head. *)
LEMMA LeadsFromNext ==
  ASSUME NEW q \in Seq(MainEvents), NEW a, NEW b, Leads(q, a, b), q # <<>>
  PROVE  \E c \in LinkStates : Serves(a, Head(q), c) /\ Leads(Tail(q), c, b)
  <1>1. PICK w : IsWalk(w, q, a, b)
    BY DEF Leads
  <1> DEFINE r == Tail(q)
             v == [i \in 0 .. Len(q) - 1 |-> w[i + 1]]
  <1>2. /\ Len(q) = Len(r) + 1 /\ Len(r) \in Nat /\ Head(q) = q[1]
        /\ \A i \in 1 .. Len(r) : r[i] = q[i + 1]
    OBVIOUS
  <1> HIDE DEF r
  <1>3. v \in [0 .. Len(r) -> LinkStates] /\ v[0] = w[1] /\ v[Len(r)] = b
    BY <1>1, <1>2 DEF IsWalk
  <1>4. ASSUME NEW i \in 1 .. Len(r) PROVE Serves(v[i - 1], r[i], v[i])
    <2>1. v[i - 1] = w[i] /\ v[i] = w[i + 1] /\ i + 1 \in 1 .. Len(q) /\ (i + 1) - 1 = i
      BY <1>2
    <2>2. Serves(w[(i + 1) - 1], q[i + 1], w[i + 1])
      BY <1>1, <2>1 DEF IsWalk
    <2> QED  BY <1>2, <2>1, <2>2
  <1>5. IsWalk(v, r, w[1], b)
    BY <1>3, <1>4 DEF IsWalk
  <1>6. Serves(a, Head(q), w[1]) /\ w[1] \in LinkStates
    <2>1. 1 \in 1 .. Len(q) /\ 1 \in 0 .. Len(q) /\ 1 - 1 = 0
      BY <1>2
    <2> QED  BY <1>1, <1>2, <2>1 DEF IsWalk
  <1>7. Leads(r, w[1], b)
    BY <1>5 DEF Leads
  <1> QED  BY <1>6, <1>7 DEF r

(* A state that is entered joins the queue. *)
LEMMA LeadsInto ==
  ASSUME NEW q \in Seq(MainEvents), NEW a, NEW s \in LinkStates, Leads(q, a, s),
         NEW e, e = <<>> \/ \E t \in LinkStates : Edge(s, t) /\ e = <<t>>
  PROVE  q \o e \in Seq(MainEvents) /\ Leads(q \o e, a, After(s, e)) /\ After(s, e) \in LinkStates
  <1>1. CASE e = <<>>
    <2>1. q \o e = q /\ After(s, e) = s
      BY <1>1 DEF After
    <2> QED  BY <2>1
  <1>2. ASSUME NEW t \in LinkStates, Edge(s, t), e = <<t>>
        PROVE  q \o e \in Seq(MainEvents) /\ Leads(q \o e, a, After(s, e)) /\ After(s, e) \in LinkStates
    <2>1. t \in MainEvents /\ q \o e = Append(q, t) /\ After(s, e) = t
      BY <1>2 DEF MainEvents, After
    <2>2. Serves(s, t, t)
      BY <1>2 DEF Serves
    <2>3. Leads(Append(q, t), a, t)
      BY <1>2, <2>1, <2>2, LeadsOn
    <2>4. Append(q, t) \in Seq(MainEvents)
      BY <2>1
    <2> QED  BY <2>1, <2>3, <2>4
  <1> QED  BY <1>1, <1>2

(* The handlers of the state machine take edges, a timeout once a          *)
(* heartbeat was heard.                                                    *)
LEMMA HandlersTakeEdges ==
  ASSUME NEW s \in LinkStates
  PROVE  /\ OnStop(s) = <<>> \/ \E t \in LinkStates : Edge(s, t) /\ OnStop(s) = <<t>>
         /\ OnPacketReceived(s) = <<>>
              \/ \E t \in LinkStates : Edge(s, t) /\ OnPacketReceived(s) = <<t>>
         /\ s # "SocketBound" =>
              OnHeartbeatReceived(s) = <<>>
                \/ \E t \in LinkStates : Edge(s, t) /\ OnHeartbeatReceived(s) = <<t>>
         /\ s \in HeardStates =>
              OnHeartbeatTimeout(s) = <<>>
                \/ \E t \in LinkStates : Edge(s, t) /\ OnHeartbeatTimeout(s) = <<t>>
  BY DEF OnStop, OnPacketReceived, OnHeartbeatReceived, OnHeartbeatTimeout, TransitionTo,
     Edge, LinkStates, HeardStates

(* What the link has signalled to the bar, whatever the dummy telemetry    *)
(* has told it.                                                            *)
Signalled == IF simulated THEN "Disconnected" ELSE shown

(* A socket that is bound has had no packet yet: this is why the first     *)
(* packet of a session, whatever start() resets meanwhile, is noticed.     *)
IndicatorInv ==
  /\ Leads(mainQueue, Signalled, sm)
  /\ simulated => shown = "HeartbeatAlive"
  /\ sm = "SocketBound" => ~firstPacket

(* A datagram of any kind. *)
LEMMA IndicatorDatagram ==
  ASSUME TypeOK, SessionInv, IndicatorInv,
         NEW s \in Senders, NEW kind \in DatagramKinds, Datagram(s, kind)
  PROVE  IndicatorInv'
  <1> DEFINE first == IF firstPacket THEN <<>> ELSE OnPacketReceived(sm)
             mid   == After(sm, first)
             beat  == IF kind = "heartbeat" THEN OnHeartbeatReceived(mid) ELSE <<>>
             msg   == IF kind = "noise" THEN <<>> ELSE <<kind>>
             q1    == mainQueue \o first
             q2    == q1 \o beat
  <1>0. /\ mainQueue \in Seq(MainEvents) /\ sm \in LinkStates /\ sm # "Disconnected"
        /\ Leads(mainQueue, Signalled, sm)
    BY DEF TypeOK, MainEvents, SessionInv, SessionConsistent, Datagram, IndicatorInv
  <1>1. /\ sm' = After(mid, beat) /\ mainQueue' = mainQueue \o first \o beat \o msg
        /\ Signalled' = Signalled /\ UNCHANGED <<shown, simulated>> /\ firstPacket' = TRUE
    BY DEF Datagram, shownVars, Signalled
  <1>2. first = <<>> \/ \E t \in LinkStates : Edge(sm, t) /\ first = <<t>>
    BY <1>0, HandlersTakeEdges
  <1>3. mid \notin {"Disconnected", "SocketBound"}
    <2>1. CASE firstPacket
      BY <1>0, <2>1, NothingEntered DEF IndicatorInv
    <2>2. CASE ~firstPacket
      BY <1>0, <2>2, PacketHandler
    <2> QED  BY <2>1, <2>2
  <1> HIDE DEF first
  <1>4. q1 \in Seq(MainEvents) /\ Leads(q1, Signalled, mid) /\ mid \in LinkStates
    BY <1>0, <1>2, LeadsInto
  <1> HIDE DEF mid, q1
  <1>5. beat = <<>> \/ \E t \in LinkStates : Edge(mid, t) /\ beat = <<t>>
    BY <1>3, <1>4, HandlersTakeEdges
  <1>6. /\ After(mid, beat) \notin {"Disconnected", "SocketBound"}
        /\ kind = "heartbeat" => After(mid, beat) = "HeartbeatAlive"
    <2>1. CASE kind = "heartbeat"
      BY <1>3, <1>4, <2>1, HeartbeatHandler
    <2>2. CASE kind # "heartbeat"
      BY <1>3, <2>2, NothingEntered
    <2> QED  BY <2>1, <2>2
  <1> HIDE DEF beat
  <1>7. q2 \in Seq(MainEvents) /\ Leads(q2, Signalled, sm') /\ sm' \in LinkStates
    BY <1>1, <1>4, <1>5, LeadsInto
  <1>8. mainQueue' = q2 \o msg
    BY <1>1 DEF q1
  <1> HIDE DEF q2
  <1>9. Leads(mainQueue', Signalled, sm')
    <2>1. CASE kind = "noise"
      <3>1. mainQueue' = q2
        BY <1>7, <1>8, <2>1
      <3> QED  BY <1>7, <3>1
    <2>2. CASE kind # "noise"
      <3>1. kind \in MainEvents /\ mainQueue' = Append(q2, kind)
        BY <1>7, <1>8, <2>2 DEF MainEvents, DatagramKinds
      <3>2. Serves(sm', kind, sm')
        BY <1>1, <1>6, <1>7, <2>2 DEF Serves, DatagramKinds, MessageKinds
      <3> QED  BY <1>7, <3>1, <3>2, LeadsOn
    <2> QED  BY <2>1, <2>2
  <1> QED  BY <1>1, <1>6, <1>9 DEF IndicatorInv

(* Every step keeps the walk. *)
LEMMA IndicatorStep ==
  ASSUME TypeOK, SessionInv, SilenceInv, IndicatorInv, [Next]_vars
  PROVE  IndicatorInv'
  <1> USE DEF mainVars, shownVars, threadVars, linkVars, timeVars, txVars
  <1>0. mainQueue \in Seq(MainEvents) /\ sm \in LinkStates /\ Leads(mainQueue, Signalled, sm)
    BY DEF TypeOK, MainEvents, IndicatorInv
  <1>1. ASSUME NEW e, e = <<>> \/ \E t \in LinkStates : Edge(sm, t) /\ e = <<t>>,
               Enter(e), UNCHANGED shownVars
        PROVE  Leads(mainQueue', Signalled', sm')
    BY <1>0, <1>1, LeadsInto DEF Enter, Signalled
  <1>2. CASE StartCommit
    BY <1>2 DEF StartCommit, IndicatorInv, Signalled
  <1>3. CASE StopPost
    <2>1. CASE thread # "stopped"
      BY <1>3, <2>1 DEF StopPost, IndicatorInv, Signalled
    <2>2. CASE thread = "stopped"
      <3>1. Enter(OnStop(sm)) /\ UNCHANGED shownVars /\ firstPacket' = FALSE
        BY <1>3, <2>2 DEF StopPost
      <3>2. Leads(mainQueue', Signalled', sm')
        BY <1>0, <1>1, <3>1, HandlersTakeEdges
      <3> QED  BY <3>1, <3>2 DEF IndicatorInv
    <2> QED  BY <2>1, <2>2
  <1>4. CASE Deliver
    <2>1. mainQueue # <<>> /\ mainQueue' = Tail(mainQueue) /\ UNCHANGED <<sm, firstPacket>>
      BY <1>4 DEF Deliver
    <2>2. PICK c \in LinkStates : Serves(Signalled, Head(mainQueue), c) /\ Leads(mainQueue', c, sm)
      BY <1>0, <2>1, LeadsFromNext
    <2>3. Signalled' = c /\ (simulated' => shown' = "HeartbeatAlive")
      <3>1. CASE Head(mainQueue) \in LinkStates
        BY <1>4, <2>2, <3>1 DEF Deliver, Serves, LinkStates, Signalled
      <3>2. CASE Head(mainQueue) \notin LinkStates
        <4>1. c = Signalled
          BY <2>2, <3>2 DEF Serves
        <4> QED  BY <1>4, <3>2, <4>1 DEF Deliver, Signalled, IndicatorInv
      <3> QED  BY <3>1, <3>2
    <2> QED  BY <2>1, <2>2, <2>3 DEF IndicatorInv
  <1>5. CASE SetupOk
    <2> DEFINE e == OnSocketBound("Disconnected")
    <2>1. sm = "Disconnected"
      BY <1>5 DEF SetupOk, SessionInv, SessionConsistent
    <2>2. e = <<"SocketBound">> /\ "SocketBound" \in LinkStates /\ Edge(sm, "SocketBound")
      BY <2>1 DEF OnSocketBound, TransitionTo, LinkStates, Edge
    <2>3. Enter(e) /\ UNCHANGED shownVars /\ firstPacket' = FALSE
      BY <1>5, <2>1 DEF SetupOk, Enter
    <2> HIDE DEF e
    <2>4. Leads(mainQueue', Signalled', sm')
      BY <1>1, <2>2, <2>3
    <2> QED  BY <2>3, <2>4 DEF IndicatorInv
  <1>6. ASSUME NEW s \in Senders, NEW kind \in DatagramKinds, Datagram(s, kind)
        PROVE  IndicatorInv'
    BY <1>6, IndicatorDatagram
  <1>7. CASE HeartbeatTick
    <2> DEFINE e == IF hbAge # NoHeartbeat /\ hbAge >= HeartbeatTimeout
                      THEN OnHeartbeatTimeout(sm) ELSE <<>>
    <2>1. Enter(e) /\ UNCHANGED <<shownVars, firstPacket>>
      BY <1>7 DEF HeartbeatTick
    <2>2. hbAge # NoHeartbeat => sm \in HeardStates
      BY <1>7 DEF HeartbeatTick, HeartbeatDue, SilenceInv
    <2>3. e = <<>> \/ \E t \in LinkStates : Edge(sm, t) /\ e = <<t>>
      BY <1>0, <2>2, HandlersTakeEdges
    <2>4. sm' = "SocketBound" => sm = "SocketBound"
      BY <1>0, <1>7, TickState
    <2> HIDE DEF e
    <2>5. Leads(mainQueue', Signalled', sm')
      BY <1>1, <2>1, <2>3
    <2> QED  BY <2>1, <2>4, <2>5 DEF IndicatorInv
  <1>8. CASE RunStop
    <2>1. Enter(OnStop(sm)) /\ UNCHANGED shownVars /\ firstPacket' = FALSE
      BY <1>8 DEF RunStop
    <2>2. Leads(mainQueue', Signalled', sm')
      BY <1>0, <1>1, <2>1, HandlersTakeEdges
    <2> QED  BY <2>1, <2>2 DEF IndicatorInv
  <1>9. CASE \/ StartCall \/ StopCall \/ StopQuit \/ StopJoin \/ PostCommand \/ SetupFail
             \/ TxTick \/ RunCommand \/ WorkerExit \/ Tick \/ UNCHANGED vars
    <2>1. UNCHANGED <<mainQueue, shownVars, sm, firstPacket>>
      BY <1>9 DEF StartCall, StopCall, StopQuit, StopJoin, PostCommand, SetupFail, TxTick,
         RunCommand, WorkerExit, Tick, vars
    <2> QED  BY <2>1 DEF IndicatorInv, Signalled
  <1> QED  BY <1>2, <1>3, <1>4, <1>5, <1>6, <1>7, <1>8, <1>9 DEF Next

(* The walk exists in every state. *)
LEMMA IndicatorWalks == Spec => []IndicatorInv
  <1>1. Init => IndicatorInv
    BY LeadsNowhere DEF Init, EmitDummyStatus, IndicatorInv, Signalled, LinkStates
  <1>2. IInv /\ IndicatorInv /\ [Next]_vars => IndicatorInv'
    BY IndicatorStep DEF IInv
  <1> QED  BY <1>1, <1>2, Invariance, PTL DEF Spec

(* The status the main window shows implements LinkStatus: with any timer, *)
(* any caller, any length of the queue, with the dummy telemetry's status  *)
(* on the bar at the start or without.                                     *)
THEOREM ImplementsLinkStatus == Spec => ShowsLegalMoves
  <1>1. Init => Status!Init
    BY DEF Init, EmitDummyStatus, Status!Init
  <1>2. IInv /\ IndicatorInv /\ [Next]_vars => [Status!Next]_<<shown, simulated>>
    <2> SUFFICES ASSUME IInv, IndicatorInv, [Next]_vars, ~UNCHANGED <<shown, simulated>>
                 PROVE  Status!Next
      OBVIOUS
    <2>1. Deliver
      BY DEF Next, StartCall, StartCommit, StopCall, StopPost, StopQuit, StopJoin, PostCommand,
         SetupFail, SetupOk, Datagram, HeartbeatTick, TxTick, RunCommand, RunStop, WorkerExit,
         Tick, vars, mainVars, shownVars, threadVars, linkVars, timeVars, txVars
    <2>2. mainQueue \in Seq(MainEvents) /\ mainQueue # <<>>
      BY <2>1 DEF IInv, TypeOK, MainEvents, Deliver
    <2>3. PICK c \in LinkStates : Serves(Signalled, Head(mainQueue), c)
      BY <2>2, LeadsFromNext DEF IndicatorInv
    <2>4. Edge(Signalled, shown') /\ simulated' = FALSE
      BY <2>1, <2>3 DEF Deliver, Serves, LinkStates, shownVars
    <2>5. simulated \in BOOLEAN /\ shown \in LinkStates
      BY DEF IInv, TypeOK
    <2>6. CASE simulated
      BY <2>4, <2>6 DEF Signalled, Edge, Status!Next, Status!Listen
    <2>7. CASE ~simulated
      <3>1. Edge(shown, shown')
        BY <2>4, <2>7 DEF Signalled
      <3> QED
        BY <2>4, <2>5, <2>7, <3>1 DEF Edge, LinkStates, Status!Next, Status!Listen,
           Status!Discover, Status!Alive, Status!Degrade, Status!Lose, Status!Recover,
           Status!Close, Status!Move
    <2> QED  BY <2>5, <2>6, <2>7
  <1> QED
    BY <1>1, <1>2, Invariance, IndicatorWalks, PTL DEF Spec, ShowsLegalMoves, Status!Spec

(* A message is handed to the parser under a status that accounts for it.  *)
THEOREM TelemetryMeetsItsStatus == Spec => []TelemetryUnderItsStatus
  <1>1. IInv /\ IndicatorInv => TelemetryUnderItsStatus
    <2> SUFFICES ASSUME IInv, IndicatorInv, mainQueue # <<>>
                 PROVE  /\ Head(mainQueue) \in MessageKinds => ~simulated
                        /\ Head(mainQueue) = "heartbeat" => shown = "HeartbeatAlive"
                        /\ Head(mainQueue) = "other" => shown \notin {"Disconnected", "SocketBound"}
      BY DEF TelemetryUnderItsStatus
    <2>1. mainQueue \in Seq(MainEvents)
      BY DEF IInv, TypeOK, MainEvents
    <2>2. PICK c \in LinkStates : Serves(Signalled, Head(mainQueue), c)
      BY <2>1, LeadsFromNext DEF IndicatorInv
    <2> QED  BY <2>2 DEF Serves, LinkStates, MessageKinds, Signalled
  <1> QED  BY <1>1, Invariance, IndicatorWalks, PTL
=============================================================================
