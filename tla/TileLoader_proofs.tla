------------------------- MODULE TileLoader_proofs --------------------------
(***************************************************************************)
(* Proofs about TileLoader, for every set of tiles, every viewport and     *)
(* every configuration.  The cache plays no part in them.                  *)
(***************************************************************************)
EXTENDS TileLoader, FiniteSetTheorems, TLAPS

(* What processQueue() finds: slots and wire agree, no tile twice. *)
Sound(queue, busy, wire) ==
  /\ queue \subseteq Tasks
  /\ busy \subseteq Tiles
  /\ wire \in [Tiles -> Nat]
  /\ \A c \in Tiles : wire[c] = IF c \in busy THEN 1 ELSE 0
  /\ Cardinality(busy) <= MaxConcurrent
  /\ \A t1, t2 \in queue : t1.coord = t2.coord => t1 = t2
  /\ \A task \in queue : task.coord \notin busy

PoolInv == PoolType /\ PoolConsistent /\ CancelledInFlight /\ WorkConserving

-----------------------------------------------------------------------------
(* Priorities are natural numbers, so a task made for a tile is a task. *)
LEMMA PriorityType ==
  ASSUME NEW c \in Tiles, NEW view \in Viewports
  PROVE  PriorityForTile(c, view) \in Nat
  <1>1. c.x \in Int /\ c.y \in Int /\ view.widthPx \in Nat /\ view.heightPx \in Nat
    BY GeometryAssumption
  <1>2. \A n \in Nat : (n \div 2) \div 256 \in Int
    OBVIOUS
  <1>3. \A i, j \in Int : Distance(i, j) \in Nat
    BY DEF Distance
  <1>4. Distance(c.x, (view.widthPx \div 2) \div 256) \in Nat
    BY <1>1, <1>2, <1>3
  <1>5. Distance(c.y, (view.heightPx \div 2) \div 256) \in Nat
    BY <1>1, <1>2, <1>3
  <1>6. \A m, n \in Nat : m + n \in Nat
    OBVIOUS
  <1> QED  BY <1>4, <1>5, <1>6 DEF PriorityForTile

(* A task made for a tile is a task for that tile. *)
LEMMA TaskType ==
  ASSUME PoolType, NEW c \in Tiles
  PROVE  Task(c) \in Tasks /\ Task(c).coord = c
  <1>1. PriorityForTile(c, viewport) \in Nat
    BY PriorityType DEF PoolType
  <1> QED  BY <1>1 DEF Task, Tasks

(* Tasks of distinct tiles are counted by their tiles. *)
LEMMA TasksByTile ==
  ASSUME NEW Q, Q \subseteq Tasks, \A t1, t2 \in Q : t1.coord = t2.coord => t1 = t2
  PROVE  /\ IsFiniteSet(Q)
         /\ IsFiniteSet({t.coord : t \in Q})
         /\ Cardinality({t.coord : t \in Q}) = Cardinality(Q)
  <1> DEFINE C == {t.coord : t \in Q}
             f == [t \in Q |-> t.coord]
  <1>1. C \subseteq Tiles
    BY DEF Tasks
  <1>2. IsFiniteSet(C)
    BY <1>1, FiniteAssumption, FS_Subset
  <1>3. f \in Injection(Q, C)
    BY DEF Injection, IsInjective
  <1>4. f \in Surjection(Q, C)
    BY DEF Surjection
  <1>5. /\ IsFiniteSet(Q)
        /\ Cardinality(Q) = Cardinality(C) <=> f \in Surjection(Q, C)
    BY <1>2, <1>3, FS_Injection
  <1> QED  BY <1>2, <1>4, <1>5

(* processQueue() keeps slots and wire in agreement and leaves no slot     *)
(* idle while a task is queued.                                            *)
LEMMA ProcessQueueSound ==
  ASSUME NEW queue, NEW busy, NEW wire, Sound(queue, busy, wire),
         ProcessQueue(queue, busy, wire)
  PROVE  /\ Sound(pending', active', inFlight')
         /\ pending' # {} => Cardinality(active') = MaxConcurrent
         /\ busy \subseteq active'
  <1> USE DEF Sound
  <1>1. PICK batch \in SUBSET queue :
          /\ Batch(queue, busy, batch)
          /\ pending' = queue \ batch
          /\ active' = busy \cup {task.coord : task \in batch}
          /\ inFlight' = [c \in Tiles |-> wire[c] + Started(batch, c)]
    BY DEF ProcessQueue
  <1> DEFINE C == {task.coord : task \in batch}
  <1>2. /\ IsFiniteSet(batch) /\ IsFiniteSet(C)
        /\ Cardinality(C) = Cardinality(batch)
    <2>1. batch \subseteq Tasks /\ \A t1, t2 \in batch : t1.coord = t2.coord => t1 = t2
      OBVIOUS
    <2> QED  BY <2>1, TasksByTile
  <1>3. IsFiniteSet(busy)
    BY FiniteAssumption, FS_Subset
  <1>4. C \subseteq Tiles /\ busy \cap C = {}
    BY DEF Tasks
  <1>5. Cardinality(active') = Cardinality(busy) + Cardinality(batch)
    <2>1. active' = busy \cup C
      BY <1>1
    <2> HIDE DEF C
    <2>2. Cardinality(busy \cap C) = 0
      BY <1>4, FS_EmptySet
    <2>3. Cardinality(busy \cup C)
            = Cardinality(busy) + Cardinality(C) - Cardinality(busy \cap C)
      BY <1>2, <1>3, FS_Union
    <2>4. Cardinality(busy) \in Nat /\ Cardinality(C) \in Nat
      BY <1>2, <1>3, FS_CardinalityType
    <2> QED  BY <1>2, <2>1, <2>2, <2>3, <2>4
  <1>6. Cardinality(busy) \in Nat /\ Cardinality(batch) \in Nat
    BY <1>2, <1>3, FS_CardinalityType
  <1>7. Cardinality(active') <= MaxConcurrent
    BY <1>1, <1>5, <1>6, FS_EmptySet, ConfigAssumption DEF Batch
  <1>8. pending' # {} => Cardinality(active') = MaxConcurrent
    BY <1>1, <1>5, <1>6, <1>7, ConfigAssumption DEF Batch
  <1>9. \A c \in Tiles : Started(batch, c) = IF c \in C THEN 1 ELSE 0
    <2> SUFFICES ASSUME NEW c \in Tiles
                 PROVE  Started(batch, c) = IF c \in C THEN 1 ELSE 0
      OBVIOUS
    <2>1. CASE c \in C
      <3>1. PICK task \in batch : task.coord = c
        BY <2>1
      <3>2. {t \in batch : t.coord = c} = {task}
        BY <3>1
      <3> QED  BY <2>1, <3>2, FS_Singleton DEF Started
    <2>2. CASE c \notin C
      <3>1. {t \in batch : t.coord = c} = {}
        BY <2>2
      <3> QED  BY <2>2, <3>1, FS_EmptySet DEF Started
    <2> QED  BY <2>1, <2>2
  <1>10. \A c \in Tiles : inFlight'[c] = IF c \in active' THEN 1 ELSE 0
    BY <1>1, <1>4, <1>9
  <1>11. inFlight' \in [Tiles -> Nat]
    BY <1>1, <1>9
  <1>12. /\ pending' \subseteq Tasks /\ active' \subseteq Tiles
         /\ \A t1, t2 \in pending' : t1.coord = t2.coord => t1 = t2
    BY <1>1, <1>4
  <1>13. \A task \in pending' : task.coord \notin active'
    BY <1>1
  <1>14. busy \subseteq active'
    BY <1>1
  <1> HIDE DEF C
  <1> QED  BY <1>7, <1>8, <1>10, <1>11, <1>12, <1>13, <1>14

-----------------------------------------------------------------------------
(* What the actions hand to processQueue(). *)

(* The invariant is what processQueue() needs. *)
LEMMA InvSound ==
  ASSUME PoolInv
  PROVE  Sound(pending, active, inFlight)
  BY DEF PoolInv, PoolType, PoolConsistent, OneDownloadPerTile, WithinLimit,
         QueuedOnce, Sound

(* requestTile() and a retry timer add a task for a tile not in hand. *)
LEMMA AddedSound ==
  ASSUME PoolInv, NEW c \in Tiles, ~Queued(c), c \notin active
  PROVE  Sound(pending \cup {Task(c)}, active, inFlight)
  <1>1. Task(c) \in Tasks /\ Task(c).coord = c
    BY TaskType DEF PoolInv
  <1>2. \A t \in pending : t.coord # c
    BY DEF Queued
  <1> QED  BY <1>1, <1>2, InvSound DEF Sound

(* A download that ends is the one m_active knows; its slot is free. *)
LEMMA FreedSound ==
  ASSUME PoolInv, NEW c \in Tiles, Ends(c)
  PROVE  /\ c \in active
         /\ Sound(pending, active \ {c}, [inFlight EXCEPT ![c] = @ - 1])
  <1>1. c \in active /\ inFlight[c] = 1
    BY DEF PoolInv, PoolConsistent, OneDownloadPerTile, Ends
  <1>2. Cardinality(active \ {c}) <= MaxConcurrent
    <2>1. IsFiniteSet(active)
      BY FiniteAssumption, FS_Subset DEF PoolInv, PoolType
    <2>2. Cardinality(active \ {c}) = Cardinality(active) - 1
      BY <1>1, <2>1, FS_RemoveElement
    <2>3. Cardinality(active) \in Nat /\ Cardinality(active) <= MaxConcurrent
      BY <2>1, FS_CardinalityType DEF PoolInv, PoolConsistent, WithinLimit
    <2> QED  BY <2>2, <2>3, ConfigAssumption
  <1> DEFINE wire == [inFlight EXCEPT ![c] = @ - 1]
  <1>3. wire \in [Tiles -> Nat]
    BY <1>1 DEF PoolInv, PoolType
  <1>4. \A d \in Tiles : wire[d] = IF d \in active \ {c} THEN 1 ELSE 0
    BY <1>1 DEF PoolInv, PoolType, PoolConsistent, OneDownloadPerTile
  <1> HIDE DEF wire
  <1>5. Sound(pending, active \ {c}, wire)
    BY <1>2, <1>3, <1>4, InvSound DEF Sound
  <1> QED  BY <1>1, <1>5 DEF wire

(* maybeRetry() never finds the tile queued: the branch that counts        *)
(* retries and can exceed the maximum is dead code.                        *)
LEMMA NothingCounted ==
  ASSUME PoolInv, NEW c \in active
  PROVE  ~Queued(c) /\ Counted(c) = pending
  <1>1. \A t \in pending : t.coord # c
    BY DEF PoolInv, PoolConsistent, QueuedOnce
  <1> QED  BY <1>1 DEF Queued, Counted

(* After processQueue() the pool is as it should be. *)
LEMMA PoolAfter ==
  ASSUME NEW queue, NEW busy, NEW wire, Sound(queue, busy, wire),
         ProcessQueue(queue, busy, wire),
         cancelled' \subseteq busy,
         viewport' \in Viewports, retryTimers' \in [Tiles -> Nat],
         waiting' \subseteq Tiles
  PROVE  PoolInv'
  <1>1. /\ Sound(pending', active', inFlight')
        /\ pending' # {} => Cardinality(active') = MaxConcurrent
        /\ busy \subseteq active'
    BY ProcessQueueSound
  <1> QED
    BY <1>1 DEF Sound, PoolInv, PoolType, PoolConsistent, OneDownloadPerTile,
                WithinLimit, QueuedOnce, CancelledInFlight, WorkConserving

-----------------------------------------------------------------------------
(* The empty pool satisfies the invariant. *)
LEMMA PoolInit == Init => PoolInv
  <1> SUFFICES ASSUME Init PROVE PoolInv
    OBVIOUS
  <1>1. Cardinality(active) <= MaxConcurrent
    BY FS_EmptySet, ConfigAssumption DEF Init
  <1> QED
    BY <1>1 DEF Init, PoolInv, PoolType, PoolConsistent, OneDownloadPerTile,
                WithinLimit, QueuedOnce, CancelledInFlight, WorkConserving

(* Nothing of the pool changes. *)
LEMMA PoolUnchanged ==
  ASSUME PoolInv, UNCHANGED <<viewport, queueVars, cancelled>>,
         retryTimers' \in [Tiles -> Nat], waiting' \subseteq Tiles
  PROVE  PoolInv'
  BY DEF queueVars, PoolInv, PoolType, PoolConsistent, OneDownloadPerTile,
         WithinLimit, QueuedOnce, CancelledInFlight, WorkConserving

(* setViewport() rewrites the priorities and nothing else. *)
LEMMA ViewportStep ==
  ASSUME PoolInv, NEW view \in Viewports, SetViewport(view)
  PROVE  PoolInv'
  <1> DEFINE Moved(t) == [t EXCEPT !.priority = PriorityForTile(t.coord, view)]
  <1>1. pending' = {Moved(t) : t \in pending}
    BY DEF SetViewport
  <1>2. \A t \in pending : Moved(t) \in Tasks /\ Moved(t).coord = t.coord
    <2> SUFFICES ASSUME NEW t \in pending
                 PROVE  Moved(t) \in Tasks /\ Moved(t).coord = t.coord
      OBVIOUS
    <2>1. t \in Tasks /\ t.coord \in Tiles
      BY DEF PoolInv, PoolType, Tasks
    <2>2. PriorityForTile(t.coord, view) \in Nat
      BY <2>1, PriorityType
    <2> QED  BY <2>1, <2>2 DEF Tasks
  <1>3. pending' \subseteq Tasks
    BY <1>1, <1>2
  <1>4. \A t1, t2 \in pending' : t1.coord = t2.coord => t1 = t2
    <2> SUFFICES ASSUME NEW t1 \in pending', NEW t2 \in pending', t1.coord = t2.coord
                 PROVE  t1 = t2
      OBVIOUS
    <2>1. PICK s1 \in pending : t1 = Moved(s1)
      BY <1>1
    <2>2. PICK s2 \in pending : t2 = Moved(s2)
      BY <1>1
    <2> HIDE DEF Moved
    <2>3. s1.coord = s2.coord
      BY <1>2, <2>1, <2>2
    <2>4. s1 = s2
      BY <2>3 DEF PoolInv, PoolConsistent, QueuedOnce
    <2> QED  BY <2>1, <2>2, <2>4
  <1>5. \A t \in pending' : t.coord \notin active
    BY <1>1, <1>2 DEF PoolInv, PoolConsistent, QueuedOnce
  <1>6. pending' # {} => pending # {}
    BY <1>1
  <1> HIDE DEF Moved
  <1> QED
    BY <1>3, <1>4, <1>5, <1>6
    DEF SetViewport, PoolInv, PoolType, PoolConsistent, OneDownloadPerTile,
        WithinLimit, QueuedOnce, CancelledInFlight, WorkConserving

(* cancelTile() only takes away. *)
LEMMA CancelStep ==
  ASSUME PoolInv, NEW c \in Tiles, CancelTile(c)
  PROVE  PoolInv'
  <1>1. pending' \subseteq pending
    BY DEF CancelTile
  <1>2. cancelled' \subseteq active
    BY DEF CancelTile, PoolInv, CancelledInFlight
  <1> QED
    BY <1>1, <1>2
    DEF CancelTile, PoolInv, PoolType, PoolConsistent, OneDownloadPerTile,
        WithinLimit, QueuedOnce, CancelledInFlight, WorkConserving

(* A failure frees the slot and may start a timer. *)
LEMMA FailStep ==
  ASSUME PoolInv, NEW c \in Tiles, NEW error \in Errors, Fail(c, error)
  PROVE  PoolInv'
  <1>1. /\ c \in active
        /\ Sound(pending, active \ {c}, [inFlight EXCEPT ![c] = @ - 1])
    BY FreedSound DEF Fail
  <1>2. Counted(c) = pending
    BY <1>1, NothingCounted
  <1>3. Freed(pending, c)
    BY <1>2 DEF Fail
  <1>4. /\ cancelled' \subseteq active \ {c}
        /\ viewport' \in Viewports
    BY DEF Fail, PoolInv, PoolType, CancelledInFlight
  <1>5. /\ retryTimers' \in [Tiles -> Nat]
        /\ waiting' \subseteq Tiles
    BY DEF Fail, PoolInv, PoolType
  <1> QED  BY <1>1, <1>3, <1>4, <1>5, PoolAfter DEF Freed

(* Every step keeps the pool invariant. *)
LEMMA PoolStep == PoolInv /\ [Next]_vars => PoolInv'
  <1> SUFFICES ASSUME PoolInv, [Next]_vars PROVE PoolInv'
    OBVIOUS
  <1>0. /\ viewport \in Viewports /\ retryTimers \in [Tiles -> Nat]
        /\ waiting \subseteq Tiles /\ cancelled \subseteq active
    BY DEF PoolInv, PoolType, CancelledInFlight
  <1>1. CASE \E view \in Viewports : SetViewport(view)
    BY <1>1, ViewportStep
  <1>2. ASSUME NEW c \in Tiles, RequestHit(c) PROVE PoolInv'
    BY <1>0, <1>2, PoolUnchanged DEF RequestHit
  <1>3. ASSUME NEW c \in Tiles, RequestMiss(c) PROVE PoolInv'
    <2>1. /\ UNCHANGED <<viewport, cancelled, retryTimers>>
          /\ waiting' \subseteq Tiles
      BY <1>0, <1>3 DEF RequestMiss
    <2>2. CASE Queued(c) \/ c \in active
      BY <1>0, <1>3, <2>1, <2>2, PoolUnchanged DEF RequestMiss
    <2>3. CASE ~(Queued(c) \/ c \in active)
      BY <1>0, <1>3, <2>1, <2>3, AddedSound, PoolAfter DEF RequestMiss
    <2> QED  BY <2>2, <2>3
  <1>4. ASSUME NEW c \in Tiles, CancelTile(c) PROVE PoolInv'
    BY <1>4, CancelStep
  <1>5. ASSUME NEW c \in Tiles, Discard(c) PROVE PoolInv'
    <2>1. Sound(pending, active \ {c}, [inFlight EXCEPT ![c] = @ - 1])
      BY <1>5, FreedSound DEF Discard
    <2>2. cancelled' \subseteq active \ {c}
      BY <1>0, <1>5 DEF Discard
    <2> QED  BY <1>0, <1>5, <2>1, <2>2, PoolAfter DEF Discard, Freed
  <1>6. ASSUME NEW c \in Tiles, Arrive(c) PROVE PoolInv'
    <2>1. Sound(pending, active \ {c}, [inFlight EXCEPT ![c] = @ - 1])
      BY <1>6, FreedSound DEF Arrive
    <2>2. cancelled' \subseteq active \ {c}
      BY <1>0, <1>6 DEF Arrive
    <2>3. waiting' \subseteq Tiles
      BY <1>0, <1>6 DEF Arrive
    <2> QED  BY <1>0, <1>6, <2>1, <2>2, <2>3, PoolAfter DEF Arrive, Freed
  <1>7. ASSUME NEW c \in Tiles, NEW error \in Errors, Fail(c, error) PROVE PoolInv'
    BY <1>7, FailStep
  <1>8. ASSUME NEW c \in Tiles, RetryFires(c) PROVE PoolInv'
    <2>1. retryTimers' \in [Tiles -> Nat]
      BY <1>0, <1>8 DEF RetryFires
    <2>2. UNCHANGED <<viewport, cancelled, waiting>>
      BY <1>8 DEF RetryFires
    <2>3. CASE Queued(c) \/ c \in active
      BY <1>0, <1>8, <2>1, <2>2, <2>3, PoolUnchanged DEF RetryFires
    <2>4. CASE ~(Queued(c) \/ c \in active)
      BY <1>0, <1>8, <2>1, <2>2, <2>4, AddedSound, PoolAfter DEF RetryFires
    <2> QED  BY <2>3, <2>4
  <1>9. CASE ClearCache
    BY <1>0, <1>9, PoolUnchanged DEF ClearCache
  <1>10. CASE UNCHANGED vars
    BY <1>0, <1>10, PoolUnchanged DEF vars
  <1> QED
    BY <1>1, <1>2, <1>3, <1>4, <1>5, <1>6, <1>7, <1>8, <1>9, <1>10 DEF Next

-----------------------------------------------------------------------------
(* What processQueue() does to single tasks: none is lost, none is made,   *)
(* and what it starts has no larger priority than what it leaves.          *)
LEMMA ProcessQueueTasks ==
  ASSUME NEW queue, NEW busy, NEW wire, ProcessQueue(queue, busy, wire)
  PROVE  /\ pending' \subseteq queue
         /\ busy \subseteq active'
         /\ \A task \in queue : task \in pending' \/ task.coord \in active'
         /\ \A c \in active' \ busy : \E task \in queue :
              /\ task.coord = c
              /\ \A rest \in pending' : task.priority <= rest.priority
  BY DEF ProcessQueue, Batch

(* The priorities are those of the viewport of the moment. *)
PrioritiesCurrent ==
  \A task \in pending : task.priority = PriorityForTile(task.coord, viewport)

(* They stay current when the viewport stays. *)
LEMMA PrioritiesKept ==
  ASSUME PrioritiesCurrent, UNCHANGED viewport, NEW c, NEW busy, NEW wire,
         \/ ProcessQueue(pending \cup {Task(c)}, busy, wire)
         \/ ProcessQueue(pending, busy, wire)
         \/ pending' \subseteq pending
  PROVE  PrioritiesCurrent'
  <1>1. pending' \subseteq pending \cup {Task(c)}
    BY ProcessQueueTasks
  <1>2. Task(c).priority = PriorityForTile(Task(c).coord, viewport)
    BY DEF Task
  <1>3. \A task \in pending' : task.priority = PriorityForTile(task.coord, viewport)
    BY <1>1, <1>2 DEF PrioritiesCurrent
  <1>4. viewport' = viewport
    OBVIOUS
  <1> QED  BY <1>3, <1>4 DEF PrioritiesCurrent, PriorityForTile

(* Every step keeps the priorities current. *)
LEMMA PrioritiesStep ==
  ASSUME PoolInv, PrioritiesCurrent, [Next]_vars
  PROVE  PrioritiesCurrent'
  <1>1. ASSUME NEW view \in Viewports, SetViewport(view) PROVE PrioritiesCurrent'
    <2>1. \A t \in pending :
            LET m == [t EXCEPT !.priority = PriorityForTile(t.coord, view)]
            IN  m.priority = PriorityForTile(m.coord, view)
      BY DEF PoolInv, PoolType, Tasks
    <2>2. /\ viewport' = view
          /\ \A task \in pending' : task.priority = PriorityForTile(task.coord, view)
      BY <1>1, <2>1 DEF SetViewport
    <2> QED  BY <2>2 DEF PrioritiesCurrent, PriorityForTile
  <1>2. ASSUME NEW c \in Tiles, RequestHit(c) \/ CancelTile(c) PROVE PrioritiesCurrent'
    BY <1>2, PrioritiesKept DEF RequestHit, CancelTile, queueVars
  <1>3. ASSUME NEW c \in Tiles, RequestMiss(c) \/ RetryFires(c) PROVE PrioritiesCurrent'
    BY <1>3, PrioritiesKept DEF RequestMiss, RetryFires, queueVars
  <1>4. ASSUME NEW c \in Tiles, Discard(c) \/ Arrive(c) PROVE PrioritiesCurrent'
    BY <1>4, PrioritiesKept DEF Discard, Arrive, Freed
  <1>5. ASSUME NEW c \in Tiles, NEW error \in Errors, Fail(c, error)
        PROVE  PrioritiesCurrent'
    <2>1. Counted(c) = pending
      BY <1>5, FreedSound, NothingCounted DEF Fail
    <2> QED  BY <1>5, <2>1, PrioritiesKept DEF Fail, Freed
  <1>6. CASE ClearCache \/ UNCHANGED vars
    BY <1>6, PrioritiesKept DEF ClearCache, vars, queueVars
  <1> QED
    BY <1>1, <1>2, <1>3, <1>4, <1>5, <1>6 DEF Next

(* What processQueue() starts is nearest. *)
LEMMA StartsNearest ==
  ASSUME PrioritiesCurrent, UNCHANGED viewport,
         NEW c, NEW busy, NEW wire, busy \subseteq active,
         \/ ProcessQueue(pending \cup {Task(c)}, busy, wire)
         \/ ProcessQueue(pending, busy, wire)
  PROVE  \A a \in active' \ active, rest \in pending' :
           PriorityForTile(a, viewport') <= PriorityForTile(rest.coord, viewport')
  <1>1. PrioritiesCurrent'
    BY PrioritiesKept
  <1> SUFFICES ASSUME NEW a \in active' \ active, NEW rest \in pending'
               PROVE  PriorityForTile(a, viewport')
                        <= PriorityForTile(rest.coord, viewport')
    OBVIOUS
  <1>2. PICK task \in pending \cup {Task(c)} :
          task.coord = a /\ task.priority <= rest.priority
    BY ProcessQueueTasks
  <1>3. task.priority = PriorityForTile(a, viewport)
    BY <1>2 DEF PrioritiesCurrent, Task
  <1>4. rest.priority = PriorityForTile(rest.coord, viewport')
    BY <1>1 DEF PrioritiesCurrent
  <1>5. PriorityForTile(a, viewport') = PriorityForTile(a, viewport)
    BY DEF PriorityForTile
  <1> QED  BY <1>2, <1>3, <1>4, <1>5

NearestStart ==
  \A a \in active' \ active, rest \in pending' :
    PriorityForTile(a, viewport') <= PriorityForTile(rest.coord, viewport')

(* Every step starts the nearest tasks. *)
LEMMA NearestStep ==
  ASSUME PoolInv, PrioritiesCurrent, [Next]_vars
  PROVE  NearestStart
  <1>1. CASE active' = active
    BY <1>1 DEF NearestStart
  <1>2. ASSUME NEW c \in Tiles, RequestMiss(c) \/ RetryFires(c), active' # active
        PROVE  NearestStart
    BY <1>2, StartsNearest DEF RequestMiss, RetryFires, queueVars, NearestStart
  <1>3. ASSUME NEW c \in Tiles, Discard(c) \/ Arrive(c) PROVE NearestStart
    BY <1>3, StartsNearest DEF Discard, Arrive, Freed, NearestStart
  <1>4. ASSUME NEW c \in Tiles, NEW error \in Errors, Fail(c, error)
        PROVE  NearestStart
    <2>1. Counted(c) = pending
      BY <1>4, FreedSound, NothingCounted DEF Fail
    <2> QED  BY <1>4, <2>1, StartsNearest DEF Fail, Freed, NearestStart
  <1>5. ASSUME \/ \E view \in Viewports : SetViewport(view)
               \/ \E c \in Tiles : RequestHit(c) \/ CancelTile(c)
               \/ ClearCache \/ UNCHANGED vars
        PROVE  active' = active
    BY <1>5 DEF SetViewport, RequestHit, CancelTile, ClearCache, vars, queueVars
  <1> QED  BY <1>1, <1>2, <1>3, <1>4, <1>5 DEF Next

(* A client that does not cancel leaves no mark, and loses no tile.        *)
NothingLostInv == ~Cancels => cancelled = {} /\ \A c \in waiting : InHand(c)

(* processQueue() keeps what is queued or downloading in hand. *)
LEMMA StaysInHand ==
  ASSUME NEW queue, NEW busy, NEW wire, ProcessQueue(queue, busy, wire),
         NEW c, (\E task \in queue : task.coord = c) \/ c \in busy
  PROVE  InHand(c)'
  <1>1. CASE c \in busy
    BY <1>1, ProcessQueueTasks DEF InHand
  <1>2. CASE \E task \in queue : task.coord = c
    <2>1. PICK task \in queue : task.coord = c
      BY <1>2
    <2>2. task \in pending' \/ c \in active'
      BY <2>1, ProcessQueueTasks
    <2> QED  BY <2>1, <2>2 DEF InHand, Queued
  <1> QED  BY <1>1, <1>2

(* Every step keeps each awaited tile in hand. *)
LEMMA NothingLostStep ==
  ASSUME PoolInv, NothingLostInv, [Next]_vars
  PROVE  NothingLostInv'
  <1> SUFFICES ASSUME ~Cancels
               PROVE  cancelled' = {} /\ \A d \in waiting' : InHand(d)'
    BY DEF NothingLostInv
  <1>0. /\ cancelled = {}
        /\ \A d \in waiting : InHand(d)
        /\ waiting \subseteq Tiles /\ retryTimers \in [Tiles -> Nat]
    BY DEF NothingLostInv, PoolInv, PoolType
  <1> DEFINE Goal == cancelled' = {} /\ \A d \in waiting' : InHand(d)'
  <1>1. ASSUME NEW view \in Viewports, SetViewport(view) PROVE Goal
    <2>1. \A t \in pending : \E s \in pending' : s.coord = t.coord
      <3> SUFFICES ASSUME NEW t \in pending
                   PROVE  \E s \in pending' : s.coord = t.coord
        OBVIOUS
      <3> DEFINE s == [t EXCEPT !.priority = PriorityForTile(t.coord, view)]
      <3>1. s \in pending' /\ s.coord = t.coord
        BY <1>1 DEF SetViewport, PoolInv, PoolType, Tasks
      <3> HIDE DEF s
      <3> QED  BY <3>1
    <2>2. UNCHANGED <<active, cancelled, retryTimers, waiting>>
      BY <1>1 DEF SetViewport
    <2>3. \A d \in waiting : Queued(d) => Queued(d)'
      BY <2>1 DEF Queued
    <2> QED  BY <1>0, <2>2, <2>3 DEF InHand
  <1>2. ASSUME NEW c \in Tiles, RequestHit(c) PROVE Goal
    BY <1>0, <1>2 DEF RequestHit, queueVars, InHand, Queued
  <1>3. ASSUME NEW c \in Tiles, RequestMiss(c) PROVE Goal
    <2>1. CASE Queued(c) \/ c \in active
      BY <1>0, <1>3, <2>1 DEF RequestMiss, queueVars, InHand, Queued
    <2>2. CASE ~(Queued(c) \/ c \in active)
      <3>1. Task(c).coord = c
        BY DEF Task
      <3>2. \A d \in waiting' : retryTimers[d] > 0 \/ Queued(d) \/ d \in active \/ d = c
        BY <1>0, <1>3 DEF RequestMiss, InHand
      <3>3. \A d \in waiting' : InHand(d)'
        BY <1>3, <2>2, <3>1, <3>2, StaysInHand DEF RequestMiss, Queued, InHand
      <3> QED  BY <1>0, <1>3, <3>3 DEF RequestMiss
    <2> QED  BY <2>1, <2>2
  <1>4. ASSUME NEW c \in Tiles, Arrive(c) PROVE Goal
    <2>1. \A d \in waiting' : retryTimers[d] > 0 \/ Queued(d) \/ d \in active \ {c}
      BY <1>0, <1>4 DEF Arrive, InHand
    <2>2. \A d \in waiting' : InHand(d)'
      BY <1>4, <2>1, StaysInHand DEF Arrive, Freed, Queued, InHand
    <2> QED  BY <1>0, <1>4, <2>2 DEF Arrive
  <1>5. ASSUME NEW c \in Tiles, NEW error \in Errors, Fail(c, error) PROVE Goal
    <2>1. Counted(c) = pending
      BY <1>5, FreedSound, NothingCounted DEF Fail
    <2>2. /\ Freed(pending, c)
          /\ retryTimers'[c] > 0 \/ c \notin waiting'
          /\ \A d \in Tiles : retryTimers[d] > 0 => retryTimers'[d] > 0
          /\ waiting' \subseteq waiting
      <3>1. /\ Freed(pending, c)
            /\ waiting' \subseteq waiting
            /\ \/ retryTimers' = [retryTimers EXCEPT ![c] = @ + 1]
               \/ waiting' = waiting \ {c} /\ retryTimers' = retryTimers
        BY <1>5, <2>1 DEF Fail
      <3> QED  BY <1>0, <3>1
    <2>3. \A d \in waiting' :
            retryTimers'[d] > 0 \/ Queued(d) \/ d \in active \ {c}
      BY <1>0, <2>2 DEF InHand
    <2>4. \A d \in waiting' : InHand(d)'
      BY <2>2, <2>3, StaysInHand DEF Freed, Queued, InHand
    <2> QED  BY <1>0, <1>5, <2>4 DEF Fail
  <1>6. ASSUME NEW c \in Tiles, RetryFires(c) PROVE Goal
    <2>1. /\ \A d \in Tiles \ {c} : retryTimers'[d] = retryTimers[d]
          /\ waiting' = waiting /\ cancelled' = cancelled
      BY <1>0, <1>6 DEF RetryFires
    <2>2. CASE Queued(c) \/ c \in active
      <3>1. UNCHANGED queueVars
        BY <1>6, <2>2 DEF RetryFires
      <3> QED  BY <1>0, <2>1, <2>2, <3>1 DEF queueVars, InHand, Queued
    <2>3. CASE ~(Queued(c) \/ c \in active)
      <3>1. Task(c).coord = c
        BY DEF Task
      <3>2. \A d \in waiting' : retryTimers'[d] > 0 \/ Queued(d) \/ d \in active \/ d = c
        BY <1>0, <2>1 DEF InHand
      <3>3. \A d \in waiting' : InHand(d)'
        BY <1>6, <2>3, <3>1, <3>2, StaysInHand DEF RetryFires, Queued, InHand
      <3> QED  BY <1>0, <2>1, <3>3
    <2> QED  BY <2>2, <2>3
  <1>7. ASSUME NEW c \in Tiles, CancelTile(c) \/ Discard(c) PROVE Goal
    BY <1>0, <1>7 DEF CancelTile, Discard
  <1>8. CASE ClearCache \/ UNCHANGED vars
    BY <1>0, <1>8 DEF ClearCache, vars, queueVars, InHand, Queued
  <1> QED
    BY <1>1, <1>2, <1>3, <1>4, <1>5, <1>6, <1>7, <1>8 DEF Next

-----------------------------------------------------------------------------
(* The service.                                                            *)

Asked == {c \in Tiles : InHand(c)}

(* The cache is a record: what get() and put() leave of it.                *)
CacheShape ==
  cache = [order |-> cache.order, lookup |-> cache.lookup, bytes |-> cache.bytes]

(* An eviction only takes tiles away.                                      *)
LEMMA EvictionShape ==
  ASSUME NEW c, NEW max
  PROVE  LET e == EvictIfNeeded(c, max)
         IN  /\ e = [order |-> e.order, lookup |-> e.lookup, bytes |-> e.bytes]
             /\ e.lookup \subseteq c.lookup
  BY DEF EvictIfNeeded

LEMMA PutShape ==
  ASSUME CacheShape, NEW c, NEW size, NEW max
  PROVE  LET p == Put(cache, c, size, max)
         IN  /\ p = [order |-> p.order, lookup |-> p.lookup, bytes |-> p.bytes]
             /\ p.lookup \subseteq cache.lookup \cup {c}
  <1>1. CASE Cached(cache, c)
    <2> DEFINE stored == [cache EXCEPT !.bytes = @ - SizeOf(cache, c) + size,
                                       !.order = <<[coord |-> c, size |-> size]>>
                                                   \o Tail(Splice(cache, c))]
    <2>1. Put(cache, c, size, max) = EvictIfNeeded(stored, max)
      BY <1>1 DEF Put
    <2>2. stored.lookup = cache.lookup
      BY DEF CacheShape
    <2> HIDE DEF stored
    <2> QED  BY <2>1, <2>2, EvictionShape
  <1>2. CASE ~Cached(cache, c)
    <2> DEFINE stored == [order  |-> <<[coord |-> c, size |-> size]>> \o cache.order,
                          lookup |-> cache.lookup \cup {c},
                          bytes  |-> cache.bytes + size]
    <2>1. Put(cache, c, size, max) = EvictIfNeeded(stored, max)
      BY <1>2 DEF Put
    <2>2. stored.lookup = cache.lookup \cup {c}
      OBVIOUS
    <2> HIDE DEF stored
    <2> QED  BY <2>1, <2>2, EvictionShape
  <1> QED  BY <1>1, <1>2

LEMMA GetShape ==
  ASSUME CacheShape, NEW c
  PROVE  LET g == Get(cache, c)
         IN  /\ g = [order |-> g.order, lookup |-> g.lookup, bytes |-> g.bytes]
             /\ g.lookup = cache.lookup
  BY DEF Get, CacheShape

LEMMA ShapeStep == CacheShape /\ [Next]_vars => CacheShape'
  <1> SUFFICES ASSUME CacheShape, [Next]_vars PROVE CacheShape'
    OBVIOUS
  <1>1. ASSUME NEW c \in Tiles, RequestHit(c) PROVE CacheShape'
    BY <1>1, GetShape DEF RequestHit, CacheShape
  <1>2. ASSUME NEW c \in Tiles, Arrive(c) PROVE CacheShape'
    BY <1>2, PutShape DEF Arrive, CacheShape
  <1>3. CASE ClearCache
    BY <1>3 DEF ClearCache, EmptyCache, CacheShape
  <1>4. CASE UNCHANGED cache
    BY <1>4 DEF CacheShape
  <1>5. ASSUME NEW c \in Tiles,
               \/ RequestMiss(c) \/ CancelTile(c) \/ Discard(c) \/ RetryFires(c)
               \/ \E error \in Errors : Fail(c, error)
        PROVE  UNCHANGED cache
    BY <1>5 DEF RequestMiss, CancelTile, Discard, RetryFires, Fail
  <1>6. ASSUME NEW view \in Viewports, SetViewport(view) PROVE UNCHANGED cache
    BY <1>6 DEF SetViewport
  <1> QED  BY <1>1, <1>2, <1>3, <1>4, <1>5, <1>6 DEF Next, vars

(* processQueue() takes nothing in hand and lets nothing go.               *)
LEMMA StillInHand ==
  ASSUME NEW queue, NEW busy, NEW wire, ProcessQueue(queue, busy, wire), NEW c
  PROVE  (Queued(c) \/ c \in active)' <=> (\E task \in queue : task.coord = c) \/ c \in busy
  BY DEF ProcessQueue, Queued

(* What is in hand after the slot of a tile has been freed.                *)
LEMMA AskedAfter ==
  ASSUME NEW c \in Tiles, Freed(pending, c), retryTimers \in [Tiles -> Nat],
         c \in active,
         \/ retryTimers' = retryTimers
         \/ retryTimers' = [retryTimers EXCEPT ![c] = @ + 1]
  PROVE  /\ Asked' \in {Asked, Asked \ {c}}
         /\ retryTimers' # retryTimers => Asked' = Asked
  <1>1. \A d \in Tiles : (Queued(d) \/ d \in active)' <=> Queued(d) \/ d \in active \ {c}
    BY StillInHand DEF Freed, Queued
  <1>2. \A d \in Tiles \ {c} : retryTimers'[d] = retryTimers[d]
    OBVIOUS
  <1>3. retryTimers' # retryTimers => retryTimers'[c] > 0
    OBVIOUS
  <1>4. \A d \in Tiles \ {c} : InHand(d)' <=> InHand(d)
    BY <1>1, <1>2 DEF InHand
  <1>5. InHand(c) /\ (retryTimers' # retryTimers => InHand(c)')
    BY <1>3 DEF InHand
  <1>6. Asked \subseteq Asked' \cup {c} /\ Asked' \subseteq Asked
    BY <1>4, <1>5 DEF Asked
  <1> QED  BY <1>4, <1>5, <1>6 DEF Asked

(* A tile that is not in hand is taken in hand.                            *)
LEMMA AskedMore ==
  ASSUME NEW c \in Tiles, ProcessQueue(pending \cup {Task(c)}, active, inFlight)
  PROVE  \A d \in Tiles : (Queued(d) \/ d \in active)' <=> Queued(d) \/ d \in active \/ d = c
  <1>1. Task(c).coord = c
    BY DEF Task
  <1> QED  BY <1>1, StillInHand DEF Queued

(* A step of the loader is one of the service, or none that it sees.      *)
Served == [Service!Next]_(Service!service)

LEMMA ServiceStep ==
  ASSUME ~Cancels, PoolInv, NothingLostInv, CacheShape, [Next]_vars
  PROVE  Served
  <1>0. /\ waiting \subseteq Tiles /\ retryTimers \in [Tiles -> Nat]
        /\ Asked \subseteq Tiles /\ waiting \subseteq Asked /\ cancelled = {}
    BY DEF NothingLostInv, PoolInv, PoolType, Asked
  <1>1. ASSUME Asked' = Asked, UNCHANGED <<waiting, cache>> PROVE Served
    BY <1>1 DEF Asked, Service!service, Served
  <1>2. ASSUME UNCHANGED <<queueVars, retryTimers>> PROVE Asked' = Asked
    BY <1>2 DEF queueVars, Asked, InHand, Queued
  <1>3. ASSUME NEW view \in Viewports, SetViewport(view) PROVE Served
    <2>1. \A t \in pending :
            [t EXCEPT !.priority = PriorityForTile(t.coord, view)].coord = t.coord
      BY DEF PoolInv, PoolType, Tasks
    <2>2. \A d \in Tiles : Queued(d)' <=> Queued(d)
      BY <1>3, <2>1 DEF SetViewport, Queued
    <2>3. Asked' = Asked /\ UNCHANGED <<waiting, cache>>
      BY <1>3, <2>2 DEF SetViewport, Asked, InHand
    <2> QED  BY <1>1, <2>3
  <1>4. ASSUME NEW c \in Tiles, RequestHit(c) PROVE Served
    <2>1. Asked' = Asked
      BY <1>2, <1>4 DEF RequestHit
    <2>2. cache'.lookup = cache.lookup /\ c \in cache.lookup /\ waiting' = waiting \ {c}
      BY <1>4, GetShape DEF RequestHit, Cached
    <2>3. Service!Ask({c})
      BY <2>1, <2>2 DEF Service!Ask, Asked
    <2> QED  BY <2>3 DEF Service!Next, Served
  <1>5. ASSUME NEW c \in Tiles, RequestMiss(c) PROVE Served
    <2>1. c \notin cache.lookup /\ waiting' = waiting \cup {c} /\ cache' = cache
          /\ retryTimers' = retryTimers
      BY <1>5 DEF RequestMiss, Cached
    <2>2. Asked' = Asked \cup {c}
      <3>1. CASE Queued(c) \/ c \in active
        BY <1>2, <1>5, <3>1 DEF RequestMiss, Asked, InHand
      <3>2. CASE ~(Queued(c) \/ c \in active)
        BY <1>5, <2>1, <3>2, AskedMore DEF RequestMiss, Asked, InHand
      <3> QED  BY <3>1, <3>2
    <2>3. Service!Ask({c})
      BY <2>1, <2>2 DEF Service!Ask, Asked
    <2> QED  BY <2>3 DEF Service!Next, Served
  <1>6. ASSUME NEW c \in Tiles, Arrive(c) PROVE Served
    <2>1. c \in active
      BY <1>6, FreedSound DEF Arrive
    <2>2. Asked' \in {Asked, Asked \ {c}} /\ c \in Asked
      BY <1>0, <1>6, <2>1, AskedAfter DEF Arrive, Asked, InHand
    <2>3. waiting' = waiting \ {c} /\ cache'.lookup \subseteq cache.lookup \cup {c}
      BY <1>6, PutShape DEF Arrive
    <2>4. Service!Ready(c)
      BY <2>2, <2>3 DEF Service!Ready, Service!Answer, Asked
    <2> QED  BY <2>4 DEF Service!Next, Served
  <1>7. ASSUME NEW c \in Tiles, NEW error \in Errors, Fail(c, error) PROVE Served
    <2>1. c \in active /\ Counted(c) = pending
      BY <1>7, FreedSound, NothingCounted DEF Fail
    <2>2. /\ Freed(pending, c) /\ cache' = cache
          /\ \/ retryTimers' = [retryTimers EXCEPT ![c] = @ + 1] /\ waiting' = waiting
             \/ retryTimers' = retryTimers /\ waiting' = waiting \ {c}
      BY <1>7, <2>1 DEF Fail
    <2>3. Asked' \in {Asked, Asked \ {c}} /\ c \in Asked
      BY <1>0, <2>1, <2>2, AskedAfter DEF Asked, InHand
    <2>4. CASE waiting' = waiting \ {c}
      <3>1. Service!Failed(c)
        BY <2>2, <2>3, <2>4 DEF Service!Failed, Service!Answer, Asked
      <3> QED  BY <3>1 DEF Service!Next, Served
    <2>5. CASE waiting' # waiting \ {c}
      <3>1. retryTimers' # retryTimers
        BY <1>0, <2>2, <2>5
      <3>2. Asked' = Asked
        BY <1>0, <2>1, <2>2, <3>1, AskedAfter
      <3> QED  BY <1>1, <2>2, <2>5, <3>2
    <2> QED  BY <2>4, <2>5
  <1>8. ASSUME NEW c \in Tiles, RetryFires(c) PROVE Served
    <2>1. /\ retryTimers[c] > 0 /\ UNCHANGED <<waiting, cache>>
          /\ \A d \in Tiles \ {c} : retryTimers'[d] = retryTimers[d]
      BY <1>0, <1>8 DEF RetryFires
    <2>2. \A d \in Tiles : (Queued(d) \/ d \in active)' <=> Queued(d) \/ d \in active \/ d = c
      <3>1. CASE Queued(c) \/ c \in active
        BY <1>8, <3>1 DEF RetryFires, queueVars, Queued
      <3>2. CASE ~(Queued(c) \/ c \in active)
        BY <1>8, <3>2, AskedMore DEF RetryFires
      <3> QED  BY <3>1, <3>2
    <2>3. Asked' = Asked
      BY <2>1, <2>2 DEF Asked, InHand
    <2> QED  BY <1>1, <2>1, <2>3
  <1>9. CASE ClearCache
    <2>1. Asked' = Asked
      BY <1>2, <1>9 DEF ClearCache, queueVars
    <2>2. Service!Forget
      BY <1>9, <2>1 DEF ClearCache, EmptyCache, Service!Forget, Asked
    <2> QED  BY <2>2 DEF Service!Next, Served
  <1>10. ASSUME NEW c \in Tiles PROVE ~CancelTile(c) /\ ~Discard(c)
    BY <1>0 DEF CancelTile, Discard
  <1>11. CASE UNCHANGED vars
    BY <1>1, <1>2, <1>11 DEF vars
  <1>12. ASSUME NEW c \in Tiles,
                \/ RequestHit(c) \/ RequestMiss(c) \/ CancelTile(c)
                \/ Discard(c) \/ Arrive(c) \/ \E error \in Errors : Fail(c, error)
                \/ RetryFires(c)
         PROVE  Served
    BY <1>4, <1>5, <1>6, <1>7, <1>8, <1>10, <1>12
  <1>13. Served
    <2>1. CASE Next
      BY <1>3, <1>9, <1>12, <2>1 DEF Next
    <2> QED  BY <1>11, <2>1
  <1> QED  BY <1>13

-----------------------------------------------------------------------------
(* The theorems. *)

(* The inductive invariant: none of its parts is inductive alone.          *)
THEOREM PoolInvariance == Spec => []PoolInv
  BY PoolInit, PoolStep, PTL DEF Spec

(* The downloads on the network are those m_active knows, one per tile and *)
(* within the limit, and no tile is queued twice or while it downloads.    *)
THEOREM PoolIsConsistent == Spec => []PoolConsistent
  BY PoolInvariance, PTL DEF PoolInv

(* A cancellation never outlives the download it cancels.                  *)
THEOREM CancellationsExpire == Spec => []CancelledInFlight
  BY PoolInvariance, PTL DEF PoolInv

(* No slot is idle while a tile waits in the queue.                        *)
THEOREM SlotsAreUsed == Spec => []WorkConserving
  BY PoolInvariance, PTL DEF PoolInv

(* A download starts in the order of the current priorities: every task    *)
(* of the queue carries the priority of the viewport of the moment.        *)
THEOREM NearestStartsFirst == Spec => NearestFirst
  <1>1. Init => PrioritiesCurrent
    BY DEF Init, PrioritiesCurrent
  <1>2. PoolInv /\ PrioritiesCurrent /\ [Next]_vars => PrioritiesCurrent'
    BY PrioritiesStep
  <1>3. PoolInv /\ PrioritiesCurrent /\ [Next]_vars => [NearestStart]_vars
    BY NearestStep
  <1>4. [NearestStart]_vars =>
          [\A c \in active' \ active, task \in pending' :
             PriorityForTile(c, viewport')
               <= PriorityForTile(task.coord, viewport')]_vars
    BY DEF NearestStart
  <1> QED  BY PoolInvariance, <1>1, <1>2, <1>3, <1>4, PTL DEF Spec, NearestFirst

(* For a client that does not cancel, a tile it waits for is queued,       *)
(* downloading or in backoff.                                              *)
THEOREM RequestsStayInHand == Spec => []NothingLost
  <1>1. Init => NothingLostInv
    BY DEF Init, NothingLostInv
  <1>2. PoolInv /\ NothingLostInv /\ [Next]_vars => NothingLostInv'
    BY NothingLostStep
  <1>3. NothingLostInv => NothingLost
    BY DEF NothingLostInv, NothingLost
  <1> QED  BY PoolInvariance, <1>1, <1>2, <1>3, PTL DEF Spec

(* To a client that does not cancel, the loader is the service the map     *)
(* view relies on: an answer comes only to what is in hand, and what is    *)
(* asked for is in hand until its answer, whatever the retries do.         *)
THEOREM ImplementsTileService == ~Cancels /\ Spec => IsTileService
  <1>1. Init => NothingLostInv /\ CacheShape
    BY DEF Init, NothingLostInv, CacheShape, EmptyCache
  <1>2. ~Cancels /\ Init => Service!Init
    <2>1. Init => Asked = {} /\ waiting = {} /\ cache.lookup = {}
      BY DEF Init, Asked, InHand, Queued, EmptyCache
    <2> QED  BY <2>1 DEF Service!Init, Asked
  <1>3. PoolInv /\ NothingLostInv /\ [Next]_vars => NothingLostInv'
    BY NothingLostStep
  <1>4. ~Cancels /\ PoolInv /\ NothingLostInv /\ CacheShape /\ [Next]_vars
          => [Service!Next]_(Service!service)
    BY ServiceStep DEF Served
  <1>5. CASE ~Cancels
    <2>1. PoolInv /\ NothingLostInv /\ CacheShape /\ [Next]_vars
            => [Service!Next]_(Service!service)
      BY <1>4, <1>5
    <2>2. Init => Service!Init
      BY <1>2, <1>5
    <2>3. Spec => IsTileService
      BY <1>1, <1>3, <2>1, <2>2, ShapeStep, PoolInvariance, PTL
      DEF Spec, IsTileService, Service!Spec
    <2> QED  BY <2>3
  <1> QED  BY <1>5
=============================================================================
