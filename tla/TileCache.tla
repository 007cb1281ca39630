----------------------------- MODULE TileCache ------------------------------
(***************************************************************************)
(* The LRU tile cache of src/map/tile_cache.hpp as a value: m_order (most  *)
(* recently used entry first), the keys of m_lookup and m_currentBytes,    *)
(* which the code keeps in step by hand.  Every operation holds m_mutex    *)
(* throughout, so it is one operator from a cache to a cache; the hit and  *)
(* miss counters, which nothing reads but a statistic, are left out.       *)
(***************************************************************************)
EXTENDS Integers, SequencesExt

EmptyCache == [order |-> <<>>, lookup |-> {}, bytes |-> 0]

Cached(cache, coord) == coord \in cache.lookup

(* The place of the entry that m_lookup points to. *)
Place(cache, coord) ==
  CHOOSE i \in DOMAIN cache.order : cache.order[i].coord = coord

SizeOf(cache, coord) == cache.order[Place(cache, coord)].size

Splice(cache, coord) ==
  LET i == Place(cache, coord)
  IN  <<cache.order[i]>> \o RemoveAt(cache.order, i)

(* The total of f over a set, and the sizes of the entries of a list. *)
Total(f, S) == MapThenSumSet(LAMBDA x : f[x], S)
SizesIn(order) == [i \in DOMAIN order |-> order[i].size]

(* m_currentBytes once only the first n entries are left. *)
Surplus(cache, n) ==
  cache.bytes - Total(SizesIn(cache.order), n + 1 .. Len(cache.order))

(* evictIfNeeded(): drop the oldest entry while there is one and the total *)
(* is over the limit.                                                      *)
EvictIfNeeded(cache, maxBytes) ==
  LET len  == Len(cache.order)
      left == CHOOSE n \in 0 .. len :
                /\ n = 0 \/ Surplus(cache, n) <= maxBytes
                /\ \A m \in n + 1 .. len : Surplus(cache, m) > maxBytes
      evicted == {cache.order[i].coord : i \in left + 1 .. len}
  IN  [order  |-> SubSeq(cache.order, 1, left),
       lookup |-> cache.lookup \ evicted,
       bytes  |-> Surplus(cache, left)]

(* get(): a hit becomes the most recently used entry. *)
Get_NoSplice(cache, coord) == cache

Get(cache, coord) ==
  IF Cached(cache, coord) THEN [cache EXCEPT !.order = Splice(cache, coord)]
    ELSE cache

(* put(): replace or insert at the front, then evict. *)
Put(cache, coord, size, maxBytes) ==
  LET entry == [coord |-> coord, size |-> size]
      stored ==
        IF Cached(cache, coord)
          THEN [cache EXCEPT !.bytes = @ - SizeOf(cache, coord) + size,
                             !.order = <<entry>> \o Tail(Splice(cache, coord))]
          ELSE [order  |-> <<entry>> \o cache.order,
                lookup |-> cache.lookup \cup {coord},
                bytes  |-> cache.bytes + size]
  IN  EvictIfNeeded(stored, maxBytes)
=============================================================================
