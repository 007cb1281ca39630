---------------------------- MODULE TileCacheLru ----------------------------
(***************************************************************************)
(* The cache of TileCache.tla under every sequence of its operations, with *)
(* a history of when each tile was last used to compare it with LruCache.  *)
(***************************************************************************)
EXTENDS TileCache

CONSTANTS
  Tiles,    \* tile coordinates
  Sizes,    \* sizes an image may have: never 0, a null image is not stored
  Limits,   \* values setMaxBytes() is called with
  MaxUses   \* bound: number of get() and put() calls

ASSUME SizesAssumption == Sizes \subseteq Nat \ {0} /\ Limits \subseteq Nat

VARIABLES
  cache,    \* m_order, m_lookup and m_currentBytes
  maxBytes, \* m_maxBytes
  lastUse,  \* history: when each tile was last stored or found
  now       \* history: the number of the next use

vars == <<cache, maxBytes, lastUse, now>>

Init ==
  /\ cache = EmptyCache
  /\ maxBytes \in Limits
  /\ lastUse = [c \in Tiles |-> 0]
  /\ now = 1

(* get() *)
Find(c) ==
  /\ now <= MaxUses
  /\ cache' = Get(cache, c)
  /\ lastUse' = IF Cached(cache, c) THEN [lastUse EXCEPT ![c] = now] ELSE lastUse
  /\ now' = now + 1
  /\ UNCHANGED maxBytes

(* put() *)
Store(c, size) ==
  /\ now <= MaxUses
  /\ cache' = Put(cache, c, size, maxBytes)
  /\ lastUse' = [lastUse EXCEPT ![c] = now]
  /\ now' = now + 1
  /\ UNCHANGED maxBytes

SetMaxBytes_NoEviction(max) ==
  /\ maxBytes' = max
  /\ UNCHANGED <<cache, lastUse, now>>

SetMaxBytes(max) ==
  /\ maxBytes' = max
  /\ cache' = EvictIfNeeded(cache, max)
  /\ UNCHANGED <<lastUse, now>>

Clear ==
  /\ cache' = EmptyCache
  /\ UNCHANGED <<maxBytes, lastUse, now>>

Next ==
  \/ \E c \in Tiles : Find(c)
  \/ \E c \in Tiles, size \in Sizes : Store(c, size)
  \/ \E max \in Limits : SetMaxBytes(max)
  \/ Clear

Spec == Init /\ [][Next]_vars

-----------------------------------------------------------------------------
(* The three hand-kept parts agree: the list holds each key of the lookup  *)
(* once, the byte count is the sum of what is stored, and it is within the *)
(* limit after every operation, an image larger than the limit included.   *)
CacheConsistent ==
  /\ IsInjective([i \in DOMAIN cache.order |-> cache.order[i].coord])
  /\ cache.lookup = {cache.order[i].coord : i \in DOMAIN cache.order}
  /\ cache.bytes = Total(SizesIn(cache.order), DOMAIN cache.order)
  /\ cache.bytes <= maxBytes

(* The cache is an LRU cache: what it holds is always the most recently    *)
(* used tiles that fit its limit.                                          *)
Lru == INSTANCE LruCache WITH
         content <- [c \in cache.lookup |-> SizeOf(cache, c)],
         limit   <- maxBytes
IsLru == Lru!Spec
=============================================================================
