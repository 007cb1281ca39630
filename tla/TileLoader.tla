----------------------------- MODULE TileLoader -----------------------------
(***************************************************************************)
(* The map tile loader (src/map/tile_loader.cpp): a priority queue of      *)
(* tiles to fetch, a bounded number of downloads, retries on one-shot      *)
(* timers and a cache, all in the GUI thread.  A slot runs to completion,  *)
(* so it is one action; between two slots anything may happen: the client  *)
(* (the map view) moves the viewport, asks for tiles or drops them, the    *)
(* network answers the downloads in any order, timers fire in any order.   *)
(*                                                                         *)
(* setConfig() is called once, before the first request, so what it sets   *)
(* is constant.  Every tile of the map has the same size, the unit of      *)
(* CacheSize.                                                              *)
(***************************************************************************)
EXTENDS TileCache, FiniteSets

CONSTANTS
  Tiles,         \* tile coordinates: records with fields x and y
  Viewports,     \* windows: records with fields widthPx and heightPx
  MaxConcurrent, \* m_maxConcurrent
  MaxRetries,    \* m_maxRetries
  CacheSize,     \* the cache limit, in tiles
  Cancels,       \* does the client cancel tiles?
  MaxTimers      \* bound: timers of one tile at which its requests pause

ASSUME ConfigAssumption ==
  MaxConcurrent \in Nat \ {0} /\ MaxRetries \in Nat /\ CacheSize \in Nat
ASSUME ClientAssumption == Cancels \in BOOLEAN /\ MaxTimers \in Nat
ASSUME GeometryAssumption ==
  /\ \A t \in Tiles : t.x \in Int /\ t.y \in Int
  /\ \A v \in Viewports : v.widthPx \in Nat /\ v.heightPx \in Nat
ASSUME FiniteAssumption == IsFiniteSet(Tiles)

VARIABLES
  viewport,    \* m_viewport
  pending,     \* m_pending; its order is that of the priorities
  active,      \* the keys of m_active
  inFlight,    \* network: how many downloads of a tile have not ended
  cancelled,   \* m_cancelled
  retryTimers, \* single-shot timers of maybeRetry() still to fire, per tile
  cache,       \* m_cache
  waiting      \* client: tiles asked for and neither answered nor dropped since

queueVars == <<pending, active, inFlight>>
vars == <<viewport, queueVars, cancelled, retryTimers, cache, waiting>>

(* A download that ends without an image; only the last is final. *)
Errors == {"undecodable", "transient", "permanent"}

Tasks == [coord : Tiles, priority : Nat, retryCount : Nat]

PoolType ==
  /\ viewport \in Viewports
  /\ pending \subseteq Tasks
  /\ active \subseteq Tiles
  /\ inFlight \in [Tiles -> Nat]
  /\ cancelled \subseteq Tiles
  /\ retryTimers \in [Tiles -> Nat]
  /\ waiting \subseteq Tiles

Init ==
  /\ viewport \in Viewports
  /\ pending = {} /\ active = {} /\ inFlight = [t \in Tiles |-> 0]
  /\ cancelled = {} /\ retryTimers = [t \in Tiles |-> 0]
  /\ cache = EmptyCache
  /\ waiting = {}

Queued(c) == \E task \in pending : task.coord = c

Distance(i, j) == IF i < j THEN j - i ELSE i - j

(* priorityForTile(): the lower, the sooner. *)
PriorityForTile(c, view) ==
  Distance(c.x, (view.widthPx \div 2) \div 256)
    + Distance(c.y, (view.heightPx \div 2) \div 256)

Task(c) == [coord |-> c, priority |-> PriorityForTile(c, viewport), retryCount |-> 0]

(* processQueue(): start the first tasks of the queue while slots are      *)
(* free; std::sort leaves tasks of equal priority in any order.            *)
Batch(queue, busy, batch) ==
  /\ batch \subseteq queue
  /\ Cardinality(busy) + Cardinality(batch) <= MaxConcurrent \/ batch = {}
  /\ batch = queue \/ Cardinality(busy) + Cardinality(batch) >= MaxConcurrent
  /\ \A task \in batch, rest \in queue \ batch : task.priority <= rest.priority

Started(batch, c) == Cardinality({task \in batch : task.coord = c})

ProcessQueue(queue, busy, wire) ==
  \E batch \in SUBSET queue :
    /\ Batch(queue, busy, batch)
    /\ pending' = queue \ batch
    /\ active' = busy \cup {task.coord : task \in batch}
    /\ inFlight' = [c \in Tiles |-> wire[c] + Started(batch, c)]

-----------------------------------------------------------------------------
(* The client. *)

(* setViewport() *)
SetViewport_KeepsPriorities(view) ==
  /\ viewport' = view
  /\ UNCHANGED <<queueVars, cancelled, retryTimers, cache, waiting>>

SetViewport(view) ==
  /\ viewport' = view
  /\ pending' = {[task EXCEPT !.priority = PriorityForTile(task.coord, view)] :
                   task \in pending}
  /\ UNCHANGED <<active, inFlight, cancelled, retryTimers, cache, waiting>>

(* requestTile(): a cached tile is answered at once. *)
RequestHit(c) ==
  /\ Cached(cache, c)
  /\ cache' = Get(cache, c)
  /\ waiting' = waiting \ {c}
  /\ UNCHANGED <<viewport, queueVars, cancelled, retryTimers>>

RequestMiss_NoActiveCheck(c) ==
  /\ ~Cached(cache, c) /\ retryTimers[c] < MaxTimers
  /\ waiting' = waiting \cup {c}
  /\ IF Queued(c) THEN UNCHANGED queueVars
       ELSE ProcessQueue(pending \cup {Task(c)}, active, inFlight)
  /\ UNCHANGED <<viewport, cancelled, retryTimers, cache>>

RequestMiss(c) ==
  /\ ~Cached(cache, c) /\ retryTimers[c] < MaxTimers
  /\ waiting' = waiting \cup {c}
  /\ IF Queued(c) \/ c \in active THEN UNCHANGED queueVars
       ELSE ProcessQueue(pending \cup {Task(c)}, active, inFlight)
  /\ UNCHANGED <<viewport, cancelled, retryTimers, cache>>

(* cancelTile() *)
CancelTile_MarksAnything(c) ==
  /\ Cancels
  /\ pending' = {task \in pending : task.coord # c}
  /\ cancelled' = cancelled \cup {c}
  /\ waiting' = waiting \ {c}
  /\ UNCHANGED <<viewport, active, inFlight, retryTimers, cache>>

CancelTile(c) ==
  /\ Cancels
  /\ pending' = {task \in pending : task.coord # c}
  /\ cancelled' = IF c \in active THEN cancelled \cup {c} ELSE cancelled
  /\ waiting' = waiting \ {c}
  /\ UNCHANGED <<viewport, active, inFlight, retryTimers, cache>>

(* clearCache() *)
ClearCache ==
  /\ cache' = EmptyCache
  /\ UNCHANGED <<viewport, queueVars, cancelled, retryTimers, waiting>>

-----------------------------------------------------------------------------
(* The network.  onReplyFinished() in its three ways, each of which ends   *)
(* with processQueue().                                                    *)

Ends(c) == inFlight[c] > 0

Freed(queue, c) ==
  ProcessQueue(queue, active \ {c}, [inFlight EXCEPT ![c] = @ - 1])

(* The tile was cancelled in flight: whatever came back is dropped. *)
Discard_NoProcessQueue(c) ==
  /\ Ends(c) /\ c \in cancelled
  /\ cancelled' = cancelled \ {c}
  /\ active' = active \ {c} /\ inFlight' = [inFlight EXCEPT ![c] = @ - 1]
  /\ UNCHANGED <<viewport, pending, retryTimers, cache, waiting>>

Discard(c) ==
  /\ Ends(c) /\ c \in cancelled
  /\ cancelled' = cancelled \ {c}
  /\ Freed(pending, c)
  /\ UNCHANGED <<viewport, retryTimers, cache, waiting>>

(* An image: into the cache, and tileReady. *)
Arrive(c) ==
  /\ Ends(c) /\ c \notin cancelled
  /\ cache' = Put(cache, c, 1, CacheSize)
  /\ waiting' = waiting \ {c}
  /\ Freed(pending, c)
  /\ UNCHANGED <<viewport, cancelled, retryTimers>>

(* maybeRetry(): count the retry on a task that is queued, else allow one  *)
(* whenever retries are configured at all; otherwise tileFailed.           *)
MayRetry(c) ==
  IF Queued(c) THEN \A task \in pending : task.coord = c => task.retryCount < MaxRetries
    ELSE MaxRetries > 0

Counted(c) ==
  {IF task.coord = c THEN [task EXCEPT !.retryCount = @ + 1] ELSE task : task \in pending}

Fail_NoTimer(c, error) ==
  /\ Ends(c) /\ c \notin cancelled
  /\ IF error # "permanent" /\ MayRetry(c)
       THEN /\ Freed(Counted(c), c)
            /\ UNCHANGED waiting
       ELSE /\ waiting' = waiting \ {c}
            /\ Freed(pending, c)
  /\ UNCHANGED <<viewport, cancelled, retryTimers, cache>>

Fail(c, error) ==
  /\ Ends(c) /\ c \notin cancelled
  /\ IF error # "permanent" /\ MayRetry(c)
       THEN /\ retryTimers' = [retryTimers EXCEPT ![c] = @ + 1]
            /\ Freed(Counted(c), c)
            /\ UNCHANGED waiting
       ELSE /\ waiting' = waiting \ {c}
            /\ Freed(pending, c)
            /\ UNCHANGED retryTimers
  /\ UNCHANGED <<viewport, cancelled, cache>>

(* The lambda of a retry timer: a fresh task, unless the tile is in hand. *)
RetryFires_NoProcessQueue(c) ==
  /\ retryTimers[c] > 0
  /\ retryTimers' = [retryTimers EXCEPT ![c] = @ - 1]
  /\ pending' = IF Queued(c) \/ c \in active THEN pending ELSE pending \cup {Task(c)}
  /\ UNCHANGED <<viewport, active, inFlight, cancelled, cache, waiting>>

RetryFires(c) ==
  /\ retryTimers[c] > 0
  /\ retryTimers' = [retryTimers EXCEPT ![c] = @ - 1]
  /\ IF Queued(c) \/ c \in active THEN UNCHANGED queueVars
       ELSE ProcessQueue(pending \cup {Task(c)}, active, inFlight)
  /\ UNCHANGED <<viewport, cancelled, cache, waiting>>

Client ==
  \/ \E view \in Viewports : SetViewport(view)
  \/ \E c \in Tiles : RequestHit(c) \/ RequestMiss(c) \/ CancelTile(c)
  \/ ClearCache

Ended(c) == Discard(c) \/ Arrive(c) \/ \E error \in Errors : Fail(c, error)

Next ==
  \/ \E view \in Viewports : SetViewport(view)
  \/ \E c \in Tiles :
       \/ RequestHit(c) \/ RequestMiss(c) \/ CancelTile(c)
       \/ Discard(c) \/ Arrive(c) \/ \E error \in Errors : Fail(c, error)
       \/ RetryFires(c)
  \/ ClearCache

(* Every download ends somehow and every timer fires. *)
Fairness == \A c \in Tiles : WF_vars(Ended(c)) /\ WF_vars(RetryFires(c))

(* A tile that is downloaded again and again arrives at last. *)
GoodNetwork == \A c \in Tiles : SF_vars(Discard(c) \/ Arrive(c))

Spec == Init /\ [][Next]_vars
FairSpec == Spec /\ Fairness
GoodSpec == FairSpec /\ GoodNetwork

-----------------------------------------------------------------------------
(* Properties. *)

(* The downloads on the network are those m_active knows, one per tile and *)
(* never more than the limit; a tile waits in the queue once at most, and  *)
(* not while it is downloaded, whatever the order of requests, timers and  *)
(* replies.                                                                *)
OneDownloadPerTile == \A c \in Tiles : inFlight[c] = IF c \in active THEN 1 ELSE 0
WithinLimit == Cardinality(active) <= MaxConcurrent
QueuedOnce ==
  /\ \A t1, t2 \in pending : t1.coord = t2.coord => t1 = t2
  /\ \A task \in pending : task.coord \notin active
PoolConsistent == OneDownloadPerTile /\ WithinLimit /\ QueuedOnce

(* A cancellation is on record only while its download runs and never      *)
(* outlives it, so no later download is discarded.  A request made for the *)
(* tile while that download still runs joins it and is discarded with it.  *)
CancelledInFlight == cancelled \subseteq active

(* No slot is idle while a tile waits, whichever way a download ended.     *)
WorkConserving == pending # {} => Cardinality(active) = MaxConcurrent

(* A download starts in the order of the distances that the loader         *)
(* computes for the viewport of that moment, not of the request.           *)
NearestFirst ==
  [][\A c \in active' \ active, task \in pending' :
       PriorityForTile(c, viewport') <= PriorityForTile(task.coord, viewport')]_vars

(* A tile the client waits for is queued, downloading or in backoff: no    *)
(* failure and no order of retries and requests loses it.  It takes a      *)
(* client that does not cancel, as the map view does not: a tile cancelled *)
(* in flight and asked for again is dropped with the cancelled reply.      *)
InHand(c) == Queued(c) \/ c \in active \/ retryTimers[c] > 0
NothingLost == ~Cancels => \A c \in waiting : InHand(c)

(* To a client that does not cancel, the loader is the service that the    *)
(* map view is a client of: what is in hand stays so until it is answered. *)
Service == INSTANCE TileService WITH
             asked  <- {c \in Tiles : InHand(c)},
             cached <- cache.lookup
IsTileService == Service!Spec

(* Once the client is content with what it asked for, every tile arrives   *)
(* or fails.  While it keeps asking, nearer tiles may overtake for ever.   *)
RequestsAnswered ==
  <>[][~Client]_vars => \A c \in Tiles : (c \in waiting) ~> (c \notin waiting)

(* P1-008_review.md on failures: "Failed tile downloads are retried up to  *)
(* a configurable max (default 2) with exponential backoff."  Then even on *)
(* a network that always fails, that is under FairSpec, each request is    *)
(* answered in the end, with tileFailed.                                   *)
RetriesEnd == RequestsAnswered
=============================================================================
