------------------------------ MODULE LruCache ------------------------------
(***************************************************************************)
(* What the tile cache promises: it holds the most recently used tiles     *)
(* that fit its limit together.  Recency is a time stamp per tile and the  *)
(* content a set: nothing here says how the cache finds the oldest entry   *)
(* or counts its bytes.                                                    *)
(***************************************************************************)
EXTENDS Integers, FiniteSetsExt, Functions

CONSTANTS Tiles, Sizes, Limits

VARIABLES content,  \* the cached tiles and the size of each
          lastUse,  \* when each tile was last stored or found
          limit,
          now

Total(f, S) == MapThenSumSet(LAMBDA x : f[x], S)

(* The tiles of f used at least as recently as c. *)
NotOlder(f, use, c) == {d \in DOMAIN f : use[d] >= use[c]}

(* The tiles that survive: those that fit with everything more recent. *)
Fitting(f, use, max) == {c \in DOMAIN f : Total(f, NotOlder(f, use, c)) <= max}

Keep(f, use, max) == LET kept == Fitting(f, use, max) IN [c \in kept |-> f[c]]

Init ==
  /\ content = [c \in {} |-> 0]
  /\ lastUse = [c \in Tiles |-> 0]
  /\ limit \in Limits
  /\ now = 1

Lookup(c) ==
  /\ lastUse' = IF c \in DOMAIN content THEN [lastUse EXCEPT ![c] = now] ELSE lastUse
  /\ now' = now + 1
  /\ UNCHANGED <<content, limit>>

Store(c, size) ==
  /\ lastUse' = [lastUse EXCEPT ![c] = now]
  /\ now' = now + 1
  /\ LET stored == [d \in DOMAIN content \cup {c} |-> IF d = c THEN size ELSE content[d]]
     IN  content' = Keep(stored, lastUse', limit)
  /\ UNCHANGED limit

Limit(max) ==
  /\ limit' = max
  /\ content' = Keep(content, lastUse, max)
  /\ UNCHANGED <<lastUse, now>>

Clear == content' = [c \in {} |-> 0] /\ UNCHANGED <<lastUse, limit, now>>

Next ==
  \/ \E c \in Tiles : Lookup(c) \/ \E size \in Sizes : Store(c, size)
  \/ \E max \in Limits : Limit(max)
  \/ Clear

Spec == Init /\ [][Next]_<<content, lastUse, limit, now>>
=============================================================================
