------------------------ MODULE TileCacheLru_proofs -------------------------
(***************************************************************************)
(* Proofs about the tile cache, for every set of tiles, every size of an   *)
(* image and every limit: what the code keeps in step by hand agrees, and  *)
(* the cache is the LRU cache of LruCache.  Both are about sums, so the    *)
(* first part proves what sums over finite sets obey, from the principle   *)
(* that a set of natural numbers has a least element.                      *)
(***************************************************************************)
EXTENDS TileCacheLru, FiniteSetTheorems, SequenceTheorems, WellFoundedInduction, TLAPS

(* A set of natural numbers has a least element. *)
LEMMA LeastElement ==
  ASSUME NEW T \in SUBSET Nat, T # {}
  PROVE  \E m \in T : \A k \in T : m <= k
<1> DEFINE R == OpToRel(<, Nat)
<1>1. IsWellFoundedOn(R, Nat)
  BY NatLessThanWellFounded
<1>2. \A x, y \in Nat : y < x => <<y, x>> \in R
  BY DEF OpToRel
<1> HIDE DEF R
<1>3. PICK m \in T : \A k \in T : ~(<<k, m>> \in R)
  BY <1>1, WFMin
<1>4. ASSUME NEW k \in T PROVE m <= k
  <2>1. ~(k < m)
    BY <1>2, <1>3
  <2>2. m \in Int /\ k \in Int
    OBVIOUS
  <2> QED
    BY <2>1, <2>2
<1> QED
  BY <1>4

(* What holds of a set whenever it holds of its smaller subsets, holds of  *)
(* every finite set.                                                       *)
LEMMA SubsetInduction ==
  ASSUME NEW U, IsFiniteSet(U), NEW Good,
         \A S \in SUBSET U : (\A t \in SUBSET S : t # S => t \in Good) => S \in Good
  PROVE  \A S \in SUBSET U : S \in Good
<1> DEFINE T == {Cardinality(S) : S \in {s \in SUBSET U : s \notin Good}}
<1>1. \A S \in SUBSET U : IsFiniteSet(S) /\ Cardinality(S) \in Nat
  BY FS_Subset, FS_CardinalityType
<1>2. SUFFICES ASSUME T # {} PROVE FALSE
  OBVIOUS
<1>3. T \in SUBSET Nat
  BY <1>1
<1>4. PICK m \in T : \A k \in T : m <= k
  <2> HIDE DEF T
  <2> QED
    BY <1>2, <1>3, LeastElement
<1>5. PICK S \in SUBSET U : S \notin Good /\ m = Cardinality(S)
  BY <1>4
<1>6. ASSUME NEW t \in SUBSET S, t # S PROVE t \in Good
  <2>1. IsFiniteSet(S) /\ IsFiniteSet(t) /\ Cardinality(S) \in Nat /\ Cardinality(t) \in Nat
    BY <1>1, <1>5
  <2>2. Cardinality(t) <= Cardinality(S) /\ Cardinality(t) # Cardinality(S)
    BY <1>6, <2>1, FS_Subset
  <2>3. Cardinality(t) \notin T
    BY <1>4, <1>5, <2>1, <2>2
  <2> QED
    BY <1>5, <2>3
<1> QED
  BY <1>5, <1>6

-----------------------------------------------------------------------------
(* Totals. *)

Some(s) == CHOOSE x \in s : TRUE
Summing(f, S, iter) ==
  [s \in SUBSET S |-> IF s = {} THEN 0 ELSE f[Some(s)] + iter[s \ {Some(s)}]]
Sums(f, S) == CHOOSE iter : iter = Summing(f, S, iter)

LEMMA TotalUnfolds ==
  ASSUME NEW f, NEW S
  PROVE  Total(f, S) = Sums(f, S)[S]
BY DEF Total, MapThenSumSet, MapThenFoldSet, Sums, Summing, Some

LEMMA SomeIsElement == \A s : s # {} => Some(s) \in s
BY DEF Some

(* The recursion that defines a total has at most one solution ...         *)
LEMMA SumsAgree ==
  ASSUME NEW f, NEW U, IsFiniteSet(U), NEW S \in SUBSET U, NEW T \in SUBSET U,
         NEW i1, i1 = Summing(f, S, i1), NEW i2, i2 = Summing(f, T, i2)
  PROVE  \A s \in SUBSET U : s \subseteq S /\ s \subseteq T => i1[s] = i2[s]
<1> DEFINE Good == {s \in SUBSET U : s \subseteq S /\ s \subseteq T => i1[s] = i2[s]}
<1>1. ASSUME NEW s \in SUBSET U, \A t \in SUBSET s : t # s => t \in Good
      PROVE  s \in Good
  <2> SUFFICES ASSUME s \subseteq S, s \subseteq T PROVE i1[s] = i2[s]
    OBVIOUS
  <2>1. i1[s] = (IF s = {} THEN 0 ELSE f[Some(s)] + i1[s \ {Some(s)}])
        /\ i2[s] = (IF s = {} THEN 0 ELSE f[Some(s)] + i2[s \ {Some(s)}])
    BY DEF Summing
  <2>2. CASE s # {}
    <3>1. s \ {Some(s)} \in SUBSET s /\ s \ {Some(s)} # s
      BY <2>2, SomeIsElement
    <3>2. i1[s \ {Some(s)}] = i2[s \ {Some(s)}]
      BY <1>1, <3>1
    <3> QED
      BY <2>1, <2>2, <3>2
  <2> QED
    BY <2>1, <2>2
<1> HIDE DEF Good
<1>2. \A s \in SUBSET U : s \in Good
  BY <1>1, SubsetInduction
<1> QED
  BY <1>2 DEF Good

(* ... and it has one.                                                     *)
LEMMA SumsExist ==
  ASSUME NEW f, NEW U, IsFiniteSet(U)
  PROVE  \A S \in SUBSET U : Sums(f, S) = Summing(f, S, Sums(f, S))
<1> DEFINE Good == {S \in SUBSET U : Sums(f, S) = Summing(f, S, Sums(f, S))}
           Rest(s) == s \ {Some(s)}
<1>1. ASSUME NEW S \in SUBSET U, \A t \in SUBSET S : t # S => t \in Good
      PROVE  S \in Good
  <2> DEFINE iter == [s \in SUBSET S |->
                        IF s = {} THEN 0 ELSE f[Some(s)] + Sums(f, Rest(s))[Rest(s)]]
  <2>1. ASSUME NEW s \in SUBSET S, s # {} PROVE iter[Rest(s)] = Sums(f, Rest(s))[Rest(s)]
    <3> DEFINE t == Rest(s)
    <3>1. t \in SUBSET S /\ t # S /\ t \in SUBSET U
      BY <2>1, SomeIsElement
    <3>2. Sums(f, t) = Summing(f, t, Sums(f, t))
      BY <1>1, <3>1
    <3>3. Sums(f, t)[t] = IF t = {} THEN 0 ELSE f[Some(t)] + Sums(f, t)[Rest(t)]
      BY <3>2 DEF Summing
    <3>4. iter[t] = IF t = {} THEN 0 ELSE f[Some(t)] + Sums(f, Rest(t))[Rest(t)]
      BY <3>1
    <3>5. CASE t # {}
      <4>1. Rest(t) \in SUBSET S /\ Rest(t) # S /\ Rest(t) \subseteq t /\ Rest(t) \in SUBSET U
        BY <3>1
      <4>2. Sums(f, Rest(t)) = Summing(f, Rest(t), Sums(f, Rest(t)))
        BY <1>1, <4>1
      <4>3. Sums(f, t)[Rest(t)] = Sums(f, Rest(t))[Rest(t)]
        BY <3>1, <3>2, <4>1, <4>2, SumsAgree
      <4> QED
        BY <3>3, <3>4, <3>5, <4>3
    <3> QED
      BY <3>3, <3>4, <3>5
  <2>2. iter = Summing(f, S, iter)
    BY <2>1 DEF Summing
  <2> HIDE DEF iter
  <2>3. Sums(f, S) = Summing(f, S, Sums(f, S))
    BY <2>2 DEF Sums
  <2> QED
    BY <2>3
<1> HIDE DEF Good
<1>2. \A S \in SUBSET U : S \in Good
  BY <1>1, SubsetInduction
<1> QED
  BY <1>2 DEF Good

(* A total is that of all but some element, plus that one.                 *)
LEMMA TotalStep ==
  ASSUME NEW f, NEW S, IsFiniteSet(S)
  PROVE  Total(f, S) = IF S = {} THEN 0 ELSE f[Some(S)] + Total(f, S \ {Some(S)})
<1> DEFINE t == S \ {Some(S)}
<1>1. Sums(f, S) = Summing(f, S, Sums(f, S)) /\ Sums(f, t) = Summing(f, t, Sums(f, t))
  BY SumsExist
<1>2. Sums(f, S)[S] = IF S = {} THEN 0 ELSE f[Some(S)] + Sums(f, S)[t]
  BY <1>1 DEF Summing
<1>3. Sums(f, S)[t] = Sums(f, t)[t]
  BY <1>1, SumsAgree
<1> QED
  BY <1>2, <1>3, TotalUnfolds

(* A total of integers is an integer, and any element can be taken out.    *)
LEMMA TotalRemove ==
  ASSUME NEW f, NEW U, IsFiniteSet(U), \A y \in U : f[y] \in Int
  PROVE  /\ Total(f, U) \in Int
         /\ \A x \in U : Total(f, U) = f[x] + Total(f, U \ {x})
<1> DEFINE Good == {S \in SUBSET U :
                      /\ Total(f, S) \in Int
                      /\ \A x \in S : Total(f, S) = f[x] + Total(f, S \ {x})}
<1>1. ASSUME NEW S \in SUBSET U, \A t \in SUBSET S : t # S => t \in Good
      PROVE  S \in Good
  <2> DEFINE e == Some(S)
             R == S \ {e}
  <2>1. IsFiniteSet(S)
    BY FS_Subset
  <2>2. Total(f, S) = IF S = {} THEN 0 ELSE f[e] + Total(f, R)
    BY <2>1, TotalStep
  <2>3. CASE S # {}
    <3>1. e \in S /\ R \in SUBSET S /\ R # S /\ f[e] \in Int
      BY <2>3, SomeIsElement
    <3> HIDE DEF e
    <3>2. R \in Good
      BY <1>1, <3>1
    <3>3. Total(f, S) \in Int
      BY <2>2, <2>3, <3>1, <3>2
    <3>4. ASSUME NEW x \in S, x # e PROVE Total(f, S) = f[x] + Total(f, S \ {x})
      <4>1. S \ {x} \in SUBSET S /\ S \ {x} # S /\ e \in S \ {x} /\ x \in R /\ R \ {x} \in SUBSET S /\ R \ {x} # S
        BY <3>1, <3>4
      <4>2. S \ {x} \in Good /\ R \ {x} \in Good
        BY <1>1, <4>1
      <4>3. (S \ {x}) \ {e} = R \ {x}
        OBVIOUS
      <4>4. Total(f, S \ {x}) = f[e] + Total(f, R \ {x}) /\ Total(f, R) = f[x] + Total(f, R \ {x})
        BY <3>2, <4>1, <4>2, <4>3
      <4>5. Total(f, R \ {x}) \in Int /\ f[x] \in Int /\ f[e] \in Int
        BY <3>1, <4>2
      <4> HIDE DEF R, Good
      <4> QED
        BY <2>2, <2>3, <4>4, <4>5
    <3> QED
      BY <2>2, <2>3, <3>3, <3>4
  <2> QED
    BY <2>2, <2>3
<1> HIDE DEF Good
<1>2. U \in Good
  BY <1>1, SubsetInduction
<1> QED
  BY <1>2 DEF Good

LEMMA TotalEmpty == \A f : Total(f, {}) = 0
BY TotalStep, FS_EmptySet

(* A total depends on the values in the set only.                          *)
LEMMA TotalSame ==
  ASSUME NEW f, NEW g, NEW U, IsFiniteSet(U), \A y \in U : f[y] = g[y]
  PROVE  Total(f, U) = Total(g, U)
<1> DEFINE Good == {S \in SUBSET U : Total(f, S) = Total(g, S)}
<1>1. ASSUME NEW S \in SUBSET U, \A t \in SUBSET S : t # S => t \in Good
      PROVE  S \in Good
  <2> DEFINE e == Some(S)
  <2>1. IsFiniteSet(S)
    BY FS_Subset
  <2>2. /\ Total(f, S) = IF S = {} THEN 0 ELSE f[e] + Total(f, S \ {e})
        /\ Total(g, S) = IF S = {} THEN 0 ELSE g[e] + Total(g, S \ {e})
    BY <2>1, TotalStep
  <2>3. CASE S # {}
    <3>1. e \in S /\ S \ {e} \in SUBSET S /\ S \ {e} # S
      BY <2>3, SomeIsElement
    <3>2. S \ {e} \in Good
      BY <1>1, <3>1
    <3> QED
      BY <2>2, <2>3, <3>1, <3>2
  <2> QED
    BY <2>2, <2>3
<1> HIDE DEF Good
<1>2. U \in Good
  BY <1>1, SubsetInduction
<1> QED
  BY <1>2 DEF Good

(* A total splits along a subset, and grows with the set when no value is  *)
(* negative.                                                               *)
LEMMA TotalSplit ==
  ASSUME NEW f, NEW U, IsFiniteSet(U), \A y \in U : f[y] \in Int, NEW T \in SUBSET U
  PROVE  Total(f, U) = Total(f, T) + Total(f, U \ T)
<1> DEFINE Good == {S \in SUBSET U : T \subseteq S => Total(f, S) = Total(f, T) + Total(f, S \ T)}
<1>0. \A S \in SUBSET U : IsFiniteSet(S) /\ Total(f, S) \in Int
  BY FS_Subset, TotalRemove
<1>1. ASSUME NEW S \in SUBSET U, \A t \in SUBSET S : t # S => t \in Good
      PROVE  S \in Good
  <2> SUFFICES ASSUME T \subseteq S PROVE Total(f, S) = Total(f, T) + Total(f, S \ T)
    OBVIOUS
  <2>1. CASE S = T
    <3>1. S \ T = {} /\ Total(f, T) \in Int
      BY <1>0, <2>1
    <3> QED
      BY <2>1, <3>1, TotalEmpty
  <2>2. CASE S # T
    <3>1. PICK x \in S : x \notin T
      BY <2>2
    <3>2. S \ {x} \in SUBSET S /\ S \ {x} # S /\ T \subseteq S \ {x} /\ x \in S \ T
      BY <3>1
    <3>3. S \ {x} \in Good
      BY <1>1, <3>2
    <3>4. Total(f, S \ {x}) = Total(f, T) + Total(f, (S \ {x}) \ T)
      BY <3>2, <3>3
    <3>5. (S \ {x}) \ T = (S \ T) \ {x}
      OBVIOUS
    <3>6. Total(f, S) = f[x] + Total(f, S \ {x})
      BY <1>0, TotalRemove
    <3>7. Total(f, S \ T) = f[x] + Total(f, (S \ T) \ {x})
      <4>1. S \ T \in SUBSET U /\ IsFiniteSet(S \ T)
        BY <1>0
      <4> QED
        BY <3>2, <4>1, TotalRemove
    <3>8. Total(f, T) \in Int /\ Total(f, (S \ T) \ {x}) \in Int /\ f[x] \in Int
      BY <1>0
    <3>9. Total(f, S) = f[x] + (Total(f, T) + Total(f, (S \ T) \ {x}))
      BY <3>4, <3>5, <3>6
    <3>10. Total(f, T) \in Int
      BY <1>0
    <3> HIDE DEF Good
    <3> QED
      BY <3>7, <3>8, <3>9, <3>10
  <2> QED
    BY <2>1, <2>2
<1> HIDE DEF Good
<1>2. U \in Good
  BY <1>1, SubsetInduction
<1> QED
  BY <1>2 DEF Good

LEMMA TotalGrows ==
  ASSUME NEW f, NEW U, IsFiniteSet(U), \A y \in U : f[y] \in Nat, NEW T \in SUBSET U
  PROVE  Total(f, T) \in Nat /\ Total(f, U) \in Nat /\ Total(f, T) <= Total(f, U)
<1> DEFINE Good == {S \in SUBSET U : Total(f, S) \in Nat}
<1>1. ASSUME NEW S \in SUBSET U, \A t \in SUBSET S : t # S => t \in Good
      PROVE  S \in Good
  <2> DEFINE e == Some(S)
  <2>1. IsFiniteSet(S)
    BY FS_Subset
  <2>2. Total(f, S) = IF S = {} THEN 0 ELSE f[e] + Total(f, S \ {e})
    BY <2>1, TotalStep
  <2>3. CASE S # {}
    <3>1. e \in S /\ S \ {e} \in SUBSET S /\ S \ {e} # S
      BY <2>3, SomeIsElement
    <3>2. S \ {e} \in Good
      BY <1>1, <3>1
    <3> QED
      BY <2>2, <2>3, <3>1, <3>2
  <2> QED
    BY <2>2, <2>3
<1> HIDE DEF Good
<1>2. \A S \in SUBSET U : S \in Good
  BY <1>1, SubsetInduction
<1>3. T \in Good /\ U \in Good /\ U \ T \in Good
  BY <1>2
<1>4. Total(f, T) \in Nat /\ Total(f, U) \in Nat /\ Total(f, U \ T) \in Nat
  BY <1>3 DEF Good
<1>5. Total(f, U) = Total(f, T) + Total(f, U \ T)
  BY TotalSplit
<1> QED
  BY <1>4, <1>5

(* A total taken through an injective index is the total over its range.   *)
LEMMA TotalReindex ==
  ASSUME NEW f, NEW h, NEW g, NEW U, IsFiniteSet(U),
         \A i \in U : h[i] = f[g[i]] /\ h[i] \in Int,
         \A i, j \in U : g[i] = g[j] => i = j,
         NEW V, V = {g[i] : i \in U}
  PROVE  Total(h, U) = Total(f, V)
<1> DEFINE Image(S) == {g[i] : i \in S}
           Good == {S \in SUBSET U : Total(h, S) = Total(f, Image(S))}
<1>1. ASSUME NEW S \in SUBSET U, \A t \in SUBSET S : t # S => t \in Good
      PROVE  S \in Good
  <2>1. IsFiniteSet(S) /\ IsFiniteSet(Image(S))
    <3>1. IsFiniteSet(S)
      BY FS_Subset
    <3>2. [i \in S |-> g[i]] \in Surjection(S, Image(S))
      BY DEF Surjection
    <3> HIDE DEF Image
    <3> QED
      BY <3>1, <3>2, FS_Surjection
  <2>2. CASE S = {}
    <3>1. Image(S) = {}
      BY <2>2
    <3> QED
      BY <2>2, <3>1, TotalEmpty
  <2>3. CASE S # {}
    <3>1. PICK x \in S : TRUE
      BY <2>3
    <3>2. S \ {x} \in SUBSET S /\ S \ {x} # S
      OBVIOUS
    <3>3. Total(h, S \ {x}) = Total(f, Image(S \ {x}))
      BY <1>1, <3>2
    <3>4. Image(S \ {x}) = Image(S) \ {g[x]} /\ g[x] \in Image(S)
      OBVIOUS
    <3>5. Total(h, S) = h[x] + Total(h, S \ {x})
      BY <2>1, TotalRemove
    <3>6. \A y \in Image(S) : f[y] \in Int
      OBVIOUS
    <3>7. Total(f, Image(S)) = f[g[x]] + Total(f, Image(S) \ {g[x]})
      <4> HIDE DEF Image
      <4> QED
        BY <2>1, <3>4, <3>6, TotalRemove
    <3>8. h[x] = f[g[x]]
      OBVIOUS
    <3>9. Total(h, S) = Total(f, Image(S))
      <4> HIDE DEF Image
      <4> QED
        BY <3>3, <3>4, <3>5, <3>7, <3>8
    <3> QED
      BY <3>9
  <2> QED
    BY <2>2, <2>3
<1> HIDE DEF Good
<1>2. U \in Good
  BY <1>1, SubsetInduction
<1> QED
  BY <1>2 DEF Good

-----------------------------------------------------------------------------
(* The cache as a list of entries with different coordinates.              *)

Entries == [coord : Tiles, size : Sizes]

Listed(c) ==
  /\ c \in [order : Seq(Entries), lookup : SUBSET Tiles, bytes : Int]
  /\ \A i, j \in 1 .. Len(c.order) : c.order[i].coord = c.order[j].coord => i = j
  /\ c.lookup = {c.order[i].coord : i \in 1 .. Len(c.order)}

Counted(c) == c.bytes = Total(SizesIn(c.order), 1 .. Len(c.order))

(* The size of each cached tile: what LruCache calls the content.          *)
Content(c) == [t \in c.lookup |-> SizeOf(c, t)]

FirstTiles(c, n) == {c.order[i].coord : i \in 1 .. n}

(* What is left of the cache when its first n entries stay.                *)
Kept(c, n) ==
  [order  |-> SubSeq(c.order, 1, n),
   lookup |-> FirstTiles(c, n),
   bytes  |-> Total(SizesIn(c.order), 1 .. n)]

LEMMA EntryTypes ==
  ASSUME NEW c, Listed(c), NEW i \in 1 .. Len(c.order)
  PROVE  /\ Len(c.order) \in Nat
         /\ DOMAIN c.order = 1 .. Len(c.order)
         /\ c.order[i] \in Entries
         /\ c.order[i] = [coord |-> c.order[i].coord, size |-> c.order[i].size]
         /\ c.order[i].coord \in Tiles /\ c.order[i].coord \in c.lookup
         /\ c.order[i].size \in Sizes /\ c.order[i].size \in Nat
<1>1. c.order \in Seq(Entries)
  BY DEF Listed
<1>2. Len(c.order) \in Nat /\ DOMAIN c.order = 1 .. Len(c.order) /\ c.order[i] \in Entries
  BY <1>1
<1> QED
  BY <1>2, SizesAssumption DEF Entries, Listed

LEMMA PlaceOf ==
  ASSUME NEW c, Listed(c)
  PROVE  /\ \A t \in c.lookup : Place(c, t) \in 1 .. Len(c.order) /\ c.order[Place(c, t)].coord = t
         /\ \A i \in 1 .. Len(c.order) : Place(c, c.order[i].coord) = i
<1>1. DOMAIN c.order = 1 .. Len(c.order)
  BY DEF Listed
<1>2. ASSUME NEW t \in c.lookup
      PROVE  Place(c, t) \in 1 .. Len(c.order) /\ c.order[Place(c, t)].coord = t
  <2>1. \E i \in DOMAIN c.order : c.order[i].coord = t
    BY <1>1 DEF Listed
  <2> QED
    BY <1>1, <2>1 DEF Place
<1>3. ASSUME NEW i \in 1 .. Len(c.order) PROVE Place(c, c.order[i].coord) = i
  <2>1. c.order[i].coord \in c.lookup
    BY EntryTypes
  <2> QED
    BY <1>2, <2>1 DEF Listed
<1> QED
  BY <1>2, <1>3

LEMMA ContentOf ==
  ASSUME NEW c, Listed(c)
  PROVE  /\ \A i \in 1 .. Len(c.order) : Content(c)[c.order[i].coord] = c.order[i].size
         /\ \A t \in c.lookup : Content(c)[t] \in Nat
<1>1. ASSUME NEW i \in 1 .. Len(c.order) PROVE Content(c)[c.order[i].coord] = c.order[i].size
  <2>1. c.order[i].coord \in c.lookup
    BY EntryTypes
  <2> QED
    BY <2>1, PlaceOf DEF Content, SizeOf
<1>2. ASSUME NEW t \in c.lookup PROVE Content(c)[t] \in Nat
  BY EntryTypes, PlaceOf DEF Content, SizeOf
<1> QED
  BY <1>1, <1>2

(* The bytes of the first n entries, by place and by tile.                 *)
LEMMA BytesByTile ==
  ASSUME NEW c, Listed(c), NEW n \in 0 .. Len(c.order)
  PROVE  /\ IsFiniteSet(FirstTiles(c, n)) /\ FirstTiles(c, n) \subseteq c.lookup
         /\ Total(SizesIn(c.order), 1 .. n) = Total(Content(c), FirstTiles(c, n))
         /\ Total(SizesIn(c.order), 1 .. n) \in Nat
<1> DEFINE g == [i \in 1 .. n |-> c.order[i].coord]
<1>0. Len(c.order) \in Nat /\ 1 .. n \subseteq 1 .. Len(c.order) /\ IsFiniteSet(1 .. n)
      /\ DOMAIN c.order = 1 .. Len(c.order)
  BY FS_Interval DEF Listed
<1>1. FirstTiles(c, n) = {g[i] : i \in 1 .. n}
  BY DEF FirstTiles
<1>2. \A i \in 1 .. n : SizesIn(c.order)[i] = Content(c)[g[i]] /\ SizesIn(c.order)[i] \in Nat
  BY <1>0, EntryTypes, ContentOf DEF SizesIn
<1>3. \A i, j \in 1 .. n : g[i] = g[j] => i = j
  BY <1>0 DEF Listed
<1>4. FirstTiles(c, n) \subseteq c.lookup
  BY <1>0, EntryTypes DEF FirstTiles
<1>5. IsFiniteSet(FirstTiles(c, n))
  <2>1. g \in Surjection(1 .. n, FirstTiles(c, n))
    BY <1>1 DEF Surjection
  <2> QED
    BY <1>0, <2>1, FS_Surjection
<1>6. Total(SizesIn(c.order), 1 .. n) \in Nat
  BY <1>0, <1>2, TotalGrows
<1> HIDE DEF g
<1>7. Total(SizesIn(c.order), 1 .. n) = Total(Content(c), FirstTiles(c, n))
  <2>1. \A i \in 1 .. n : SizesIn(c.order)[i] = Content(c)[g[i]] /\ SizesIn(c.order)[i] \in Int
    BY <1>2
  <2> DEFINE f == Content(c)
             h == SizesIn(c.order)
             U == 1 .. n
             V == FirstTiles(c, n)
  <2>2. IsFiniteSet(U) /\ V = {g[i] : i \in U}
    BY <1>0, <1>1
  <2>3. \A i \in U : h[i] = f[g[i]] /\ h[i] \in Int
    BY <2>1
  <2>4. \A i, j \in U : g[i] = g[j] => i = j
    BY <1>3
  <2> HIDE DEF f, h, U, V
  <2>5. Total(h, U) = Total(f, V)
    BY <2>2, <2>3, <2>4, TotalReindex
  <2> QED
    BY <2>5 DEF f, h, U, V
<1> QED
  BY <1>4, <1>5, <1>6, <1>7

(* evictIfNeeded() keeps the longest front that fits the limit.            *)
LEMMA Evicted ==
  ASSUME NEW c, Listed(c), Counted(c), NEW max \in Nat
  PROVE  \E n \in 0 .. Len(c.order) :
           /\ EvictIfNeeded(c, max) = Kept(c, n)
           /\ Total(SizesIn(c.order), 1 .. n) <= max
           /\ \A m \in n + 1 .. Len(c.order) : Total(SizesIn(c.order), 1 .. m) > max
<1> DEFINE len == Len(c.order)
           Fits(n) == n = 0 \/ Surplus(c, n) <= max
           Over(n) == \A m \in n + 1 .. len : Surplus(c, m) > max
           left == CHOOSE n \in 0 .. len : Fits(n) /\ Over(n)
<1>0. len \in Nat /\ IsFiniteSet(1 .. len) /\ DOMAIN c.order = 1 .. len
  BY FS_Interval DEF Listed
<1>1. \A i \in 1 .. len : SizesIn(c.order)[i] \in Nat
  BY <1>0, EntryTypes DEF SizesIn
<1>2. ASSUME NEW n \in 0 .. len
      PROVE  Surplus(c, n) = Total(SizesIn(c.order), 1 .. n) /\ Surplus(c, n) \in Nat
  <2>1. 1 .. n \in SUBSET (1 .. len) /\ (1 .. len) \ (1 .. n) = n + 1 .. len
    BY <1>0
  <2>2. Total(SizesIn(c.order), 1 .. len)
          = Total(SizesIn(c.order), 1 .. n) + Total(SizesIn(c.order), n + 1 .. len)
    <3>1. Total(SizesIn(c.order), 1 .. len)
            = Total(SizesIn(c.order), 1 .. n) + Total(SizesIn(c.order), (1 .. len) \ (1 .. n))
      BY <1>0, <1>1, <2>1, TotalSplit
    <3> QED
      BY <2>1, <3>1
  <2>3. Total(SizesIn(c.order), n + 1 .. len) \in Nat
    <3>1. n + 1 .. len \in SUBSET (1 .. len)
      BY <1>0
    <3> QED
      BY <1>0, <1>1, <3>1, TotalGrows
  <2>4. Total(SizesIn(c.order), 1 .. n) \in Nat
    BY BytesByTile
  <2> QED
    BY <2>2, <2>3, <2>4 DEF Surplus, Counted
<1>3. \E n \in 0 .. len : Fits(n) /\ Over(n)
  <2> DEFINE T == {n \in 0 .. len : Over(n)}
  <2>1. T \in SUBSET Nat /\ len \in T
    BY <1>0
  <2>2. PICK n \in T : \A k \in T : n <= k
    <3> HIDE DEF T
    <3> QED
      BY <2>1, LeastElement
  <2>3. CASE n # 0
    <3>1. n - 1 \in 0 .. len /\ n - 1 \notin T /\ n \in 1 .. len
      <4>1. n \in 0 .. len /\ n \in 1 .. len /\ n - 1 \in 0 .. len /\ ~(n <= n - 1)
        BY <1>0, <2>3
      <4> HIDE DEF T
      <4> QED
        BY <2>2, <4>1
    <3>2. PICK m \in (n - 1) + 1 .. len : ~(Surplus(c, m) > max)
      BY <3>1
    <3>3. m \in n .. len /\ m \notin n + 1 .. len
      BY <2>2, <3>1, <3>2
    <3>4. m = n /\ Surplus(c, n) \in Nat
      BY <1>2, <3>1, <3>3
    <3> QED
      BY <2>2, <3>2, <3>4
  <2> QED
    BY <2>2, <2>3
<1>4. left \in 0 .. len /\ Fits(left) /\ Over(left)
  <2> HIDE DEF Fits, Over
  <2> QED
    BY <1>3
<1>5. EvictIfNeeded(c, max) = [order  |-> SubSeq(c.order, 1, left),
                               lookup |-> c.lookup \ {c.order[i].coord : i \in left + 1 .. len},
                               bytes  |-> Surplus(c, left)]
  BY DEF EvictIfNeeded
<1> HIDE DEF left
<1>6. c.lookup \ {c.order[i].coord : i \in left + 1 .. len} = FirstTiles(c, left)
  <2>1. \A i \in 1 .. len : i \in 1 .. left \/ i \in left + 1 .. len
    BY <1>0, <1>4
  <2>2. \A i \in 1 .. left : i \in 1 .. len /\ i \notin left + 1 .. len
    BY <1>0, <1>4
  <2>3. \A i \in left + 1 .. len : i \in 1 .. len
    BY <1>0, <1>4
  <2> QED
    BY <2>1, <2>2, <2>3 DEF FirstTiles, Listed
<1>7. Surplus(c, left) = Total(SizesIn(c.order), 1 .. left) /\ Total(SizesIn(c.order), 1 .. left) <= max
  <2>1. CASE left = 0
    <3>1. 1 .. left = {}
      BY <2>1
    <3> QED
      BY <1>2, <1>4, <3>1, TotalEmpty
  <2> QED
    BY <1>2, <1>4, <2>1
<1>8. \A m \in left + 1 .. len : Total(SizesIn(c.order), 1 .. m) > max
  <2>1. \A m \in left + 1 .. len : m \in 0 .. len
    BY <1>0, <1>4
  <2> QED
    BY <1>2, <1>4, <2>1
<1> QED
  BY <1>4, <1>5, <1>6, <1>7, <1>8 DEF Kept

LEMMA KeptIsListed ==
  ASSUME NEW c, Listed(c), NEW n \in 0 .. Len(c.order)
  PROVE  /\ Listed(Kept(c, n)) /\ Counted(Kept(c, n))
         /\ Len(Kept(c, n).order) = n
         /\ \A i \in 1 .. n : Kept(c, n).order[i] = c.order[i]
         /\ Content(Kept(c, n)) = [t \in FirstTiles(c, n) |-> Content(c)[t]]
<1> DEFINE k == Kept(c, n)
<1>0. c.order \in Seq(Entries) /\ Len(c.order) \in Nat /\ 1 .. n \subseteq 1 .. Len(c.order) /\ n \in Nat
      /\ DOMAIN c.order = 1 .. Len(c.order)
  BY DEF Listed
<1>1. k.order = SubSeq(c.order, 1, n) /\ k.lookup = FirstTiles(c, n) /\ k.bytes = Total(SizesIn(c.order), 1 .. n)
  BY DEF Kept
<1>2. k.order \in Seq(Entries) /\ Len(k.order) = n /\ (\A i \in 1 .. n : k.order[i] = c.order[i])
  BY <1>0, <1>1
<1>3. FirstTiles(c, n) \subseteq c.lookup /\ k.bytes \in Nat
  BY <1>1, BytesByTile
<1>4. k \in [order : Seq(Entries), lookup : SUBSET Tiles, bytes : Int]
  <2>1. k = [order |-> k.order, lookup |-> k.lookup, bytes |-> k.bytes]
    BY DEF Kept
  <2>2. k.lookup \in SUBSET Tiles
    BY <1>1, <1>3 DEF Listed
  <2>3. k.order \in Seq(Entries) /\ k.bytes \in Int
    BY <1>2, <1>3
  <2> HIDE DEF k
  <2> QED
    BY <2>1, <2>2, <2>3
<1>5. Listed(k)
  <2>1. \A i, j \in 1 .. n : c.order[i].coord = c.order[j].coord => i = j
    BY <1>0 DEF Listed
  <2>2. k.lookup = {k.order[i].coord : i \in 1 .. n}
    BY <1>1, <1>2 DEF FirstTiles
  <2> HIDE DEF k
  <2> QED
    BY <1>2, <1>4, <2>1, <2>2 DEF Listed
<1>6. Counted(k)
  <2>1. DOMAIN k.order = 1 .. n
    BY <1>2
  <2>2. \A i \in 1 .. n : SizesIn(k.order)[i] = SizesIn(c.order)[i]
    BY <1>0, <1>2, <2>1 DEF SizesIn
  <2>3. Total(SizesIn(k.order), 1 .. n) = Total(SizesIn(c.order), 1 .. n)
    <3>1. IsFiniteSet(1 .. n)
      BY <1>0, FS_Interval
    <3> HIDE DEF k
    <3> QED
      BY <2>2, <3>1, TotalSame
  <2> HIDE DEF k
  <2> QED
    BY <1>1, <1>2, <2>3 DEF Counted
<1>7. Content(k) = [t \in FirstTiles(c, n) |-> Content(c)[t]]
  <2>1. \A i \in 1 .. n : Content(k)[c.order[i].coord] = Content(c)[c.order[i].coord]
    <3> HIDE DEF k
    <3> QED
      BY <1>0, <1>2, <1>5, ContentOf
  <2>2. \A t \in FirstTiles(c, n) : Content(k)[t] = Content(c)[t]
    BY <2>1 DEF FirstTiles
  <2>3. Content(k) = [t \in FirstTiles(c, n) |-> Content(k)[t]]
    BY <1>1 DEF Content
  <2> HIDE DEF k
  <2> QED
    BY <2>2, <2>3
<1> QED
  BY <1>2, <1>5, <1>6, <1>7

(* The byte count is the total over the tiles.                             *)
LEMMA CountedByTile ==
  ASSUME NEW c, Listed(c)
  PROVE  /\ IsFiniteSet(c.lookup)
         /\ Counted(c) <=> c.bytes = Total(Content(c), c.lookup)
<1>1. Len(c.order) \in Nat /\ Len(c.order) \in 0 .. Len(c.order)
  BY DEF Listed
<1>2. FirstTiles(c, Len(c.order)) = c.lookup
  BY DEF Listed, FirstTiles
<1> QED
  BY <1>1, <1>2, BytesByTile DEF Counted

-----------------------------------------------------------------------------
(* get() and put() bring one tile to the front and leave the others in the *)
(* order they had: src says where each of them was.                        *)
Promoted(c, d, t, src) ==
  /\ d \in [order : Seq(Entries), lookup : SUBSET Tiles, bytes : Int]
  /\ Len(d.order) >= 1 /\ d.order[1].coord = t
  /\ d.lookup = c.lookup \cup {t}
  /\ \A k \in 2 .. Len(d.order) :
       /\ src[k] \in 1 .. Len(c.order)
       /\ d.order[k] = c.order[src[k]]
       /\ c.order[src[k]].coord # t
  /\ \A k, l \in 2 .. Len(d.order) : k < l => src[k] < src[l]
  /\ \A i \in 1 .. Len(c.order) :
       c.order[i].coord # t => \E k \in 2 .. Len(d.order) : src[k] = i

LEMMA PromotedIsListed ==
  ASSUME NEW c, Listed(c), NEW d, NEW t, NEW src, Promoted(c, d, t, src)
  PROVE  /\ Listed(d)
         /\ \A x \in d.lookup :
              Content(d)[x] = IF x = t THEN d.order[1].size ELSE Content(c)[x]
<1>0. d.order \in Seq(Entries) /\ Len(d.order) \in Nat /\ 1 \in 1 .. Len(d.order)
  BY DEF Promoted
<1>1. \A k \in 1 .. Len(d.order) : k = 1 \/ k \in 2 .. Len(d.order)
  BY <1>0
<1>2. ASSUME NEW k \in 1 .. Len(d.order), NEW l \in 1 .. Len(d.order),
             d.order[k].coord = d.order[l].coord
      PROVE  k = l
  <2>1. CASE k \in 2 .. Len(d.order) /\ l \in 2 .. Len(d.order)
    <3>1. src[k] = src[l] /\ src[k] \in 1 .. Len(c.order)
      BY <1>2, <2>1 DEF Promoted, Listed
    <3>2. ~(k < l) /\ ~(l < k)
      BY <2>1, <3>1 DEF Promoted
    <3> QED
      BY <3>2
  <2>2. CASE k = 1 \/ l = 1
    <3>1. \A m \in 2 .. Len(d.order) : d.order[m].coord # t
      BY DEF Promoted
    <3>2. d.order[1].coord = t
      BY DEF Promoted
    <3> QED
      BY <1>1, <1>2, <2>2, <3>1, <3>2
  <2> QED
    BY <1>1, <2>1, <2>2
<1>3. \A x \in c.lookup : x # t => \E k \in 2 .. Len(d.order) : d.order[k].coord = x /\ d.order[k].size = Content(c)[x]
  <2>1. ASSUME NEW x \in c.lookup, x # t
        PROVE \E k \in 2 .. Len(d.order) : d.order[k].coord = x /\ d.order[k].size = Content(c)[x]
    <3>1. PICK i \in 1 .. Len(c.order) : c.order[i].coord = x
      BY DEF Listed
    <3>2. PICK k \in 2 .. Len(d.order) : src[k] = i
      BY <2>1, <3>1 DEF Promoted
    <3>3. d.order[k] = c.order[i]
      BY <3>2 DEF Promoted
    <3> QED
      BY <3>1, <3>2, <3>3, ContentOf
  <2> QED
    BY <2>1
<1>4. d.lookup = {d.order[k].coord : k \in 1 .. Len(d.order)}
  <2>1. \A k \in 2 .. Len(d.order) : d.order[k].coord \in c.lookup
    BY DEF Promoted, Listed
  <2>2. d.lookup = c.lookup \cup {t} /\ d.order[1].coord = t
    BY DEF Promoted
  <2>3. ASSUME NEW x \in d.lookup PROVE \E k \in 1 .. Len(d.order) : d.order[k].coord = x
    <3>1. CASE x = t
      BY <1>0, <2>2, <3>1
    <3>2. CASE x # t
      <4>1. PICK k \in 2 .. Len(d.order) : d.order[k].coord = x
        BY <1>3, <2>2, <3>2
      <4>2. k \in 1 .. Len(d.order)
        BY <1>0
      <4> QED
        BY <4>1, <4>2
    <3> QED
      BY <3>1, <3>2
  <2>4. \A k \in 1 .. Len(d.order) : d.order[k].coord \in d.lookup
    BY <1>1, <2>1, <2>2
  <2> QED
    BY <2>3, <2>4
<1>5. Listed(d)
  BY <1>2, <1>4 DEF Listed, Promoted
<1>6. ASSUME NEW x \in d.lookup
      PROVE  Content(d)[x] = IF x = t THEN d.order[1].size ELSE Content(c)[x]
  <2>0. d.lookup = c.lookup \cup {t} /\ d.order[1].coord = t
    BY DEF Promoted
  <2>1. CASE x = t
    BY <1>0, <1>5, <2>0, <2>1, ContentOf
  <2>2. CASE x # t
    <3>1. PICK k \in 2 .. Len(d.order) : d.order[k].coord = x /\ d.order[k].size = Content(c)[x]
      BY <1>3, <2>0, <2>2
    <3>2. k \in 1 .. Len(d.order)
      BY <1>0
    <3> QED
      BY <1>5, <2>2, <3>1, <3>2, ContentOf
  <2> QED
    BY <2>1, <2>2
<1> QED
  BY <1>5, <1>6

(* The bytes of the promoted list: those of the other tiles and the front. *)
LEMMA PromotedBytes ==
  ASSUME NEW c, Listed(c), Counted(c), NEW d, NEW t, NEW src, Promoted(c, d, t, src)
  PROVE  /\ d.bytes = d.order[1].size + Total(Content(c), c.lookup \ {t}) => Counted(d)
         /\ Total(Content(c), c.lookup \ {t}) \in Int
         /\ t \in c.lookup => c.bytes = Content(c)[t] + Total(Content(c), c.lookup \ {t})
         /\ t \notin c.lookup => c.bytes = Total(Content(c), c.lookup \ {t})
<1> DEFINE L == c.lookup
           f == Content(c)
           g == Content(d)
<1>1. /\ Listed(d) /\ d.lookup = L \cup {t}
      /\ \A x \in d.lookup : g[x] = IF x = t THEN d.order[1].size ELSE f[x]
  <2>1. d.lookup = L \cup {t}
    BY DEF Promoted
  <2>2. Listed(d)
    BY PromotedIsListed
  <2>3. \A x \in d.lookup : Content(d)[x] = IF x = t THEN d.order[1].size ELSE Content(c)[x]
    BY PromotedIsListed
  <2> QED
    BY <2>1, <2>2, <2>3
<1>2. IsFiniteSet(L) /\ IsFiniteSet(L \cup {t}) /\ IsFiniteSet(L \ {t})
  BY <1>1, CountedByTile, FS_Subset
<1>3. (\A x \in L : f[x] \in Int) /\ (\A x \in L \cup {t} : g[x] \in Int)
  BY <1>1, ContentOf
<1>4. c.bytes = Total(f, L)
  BY CountedByTile
<1>5. Counted(d) <=> d.bytes = Total(g, L \cup {t})
  BY <1>1, CountedByTile
<1>6. g[t] = d.order[1].size /\ (\A x \in L \ {t} : g[x] = f[x])
  BY <1>1
<1> HIDE DEF L, f, g
<1>7. Total(g, L \cup {t}) = g[t] + Total(g, L \ {t})
  <2>1. (L \cup {t}) \ {t} = L \ {t} /\ t \in L \cup {t}
    OBVIOUS
  <2> QED
    BY <1>2, <1>3, <2>1, TotalRemove
<1>8. Total(g, L \ {t}) = Total(f, L \ {t})
  BY <1>2, <1>6, TotalSame
<1>9. Total(f, L \ {t}) \in Int
  BY <1>2, <1>3, TotalRemove
<1>10. t \in L => Total(f, L) = f[t] + Total(f, L \ {t})
  BY <1>2, <1>3, TotalRemove
<1>11. t \notin L => L \ {t} = L
  OBVIOUS
<1>12. /\ d.bytes = d.order[1].size + Total(f, L \ {t}) => Counted(d)
       /\ Total(f, L \ {t}) \in Int
       /\ t \in L => c.bytes = f[t] + Total(f, L \ {t})
       /\ t \notin L => c.bytes = Total(f, L \ {t})
  BY <1>4, <1>5, <1>6, <1>7, <1>8, <1>9, <1>10, <1>11
<1> QED
  BY <1>12 DEF L, f

(* splice(): the entry found goes to the front.                            *)
LEMMA Spliced ==
  ASSUME NEW c, Listed(c), NEW t \in c.lookup
  PROVE  /\ Splice(c, t) \in Seq(Entries)
         /\ Len(Splice(c, t)) = Len(c.order) /\ Len(c.order) >= 1
         /\ Splice(c, t)[1] = c.order[Place(c, t)]
         /\ \A k \in 2 .. Len(c.order) :
              Splice(c, t)[k] = c.order[IF k <= Place(c, t) THEN k - 1 ELSE k]
<1> DEFINE i == Place(c, t)
           len == Len(c.order)
           s1 == SubSeq(c.order, 1, i - 1)
           s2 == SubSeq(c.order, i + 1, len)
<1>1. c.order \in Seq(Entries) /\ len \in Nat /\ i \in 1 .. len /\ c.order[i] \in Entries
  BY PlaceOf DEF Listed
<1>2. Splice(c, t) = <<c.order[i]>> \o (s1 \o s2)
  BY DEF Splice, RemoveAt
<1> HIDE DEF i
<1>3. s1 \in Seq(Entries) /\ Len(s1) = i - 1 /\ (\A k \in 1 .. i - 1 : s1[k] = c.order[k])
  <2>1. \A k \in 1 .. i - 1 : c.order[k] \in Entries
    BY <1>1
  <2>2. i - 1 \in Int /\ 1 \in Int
    BY <1>1
  <2> HIDE DEF len
  <2> QED
    BY <1>1, <2>1, <2>2, SubSeqProperties
<1>4. s2 \in Seq(Entries) /\ Len(s2) = len - i /\ (\A k \in 1 .. len - i : s2[k] = c.order[i + k])
  <2>1. \A k \in i + 1 .. len : c.order[k] \in Entries
    BY <1>1
  <2>2. i + 1 \in Int /\ len \in Int
    BY <1>1
  <2> HIDE DEF len
  <2> QED
    BY <1>1, <2>1, <2>2, SubSeqProperties
<1> HIDE DEF s1, s2, len
<1>5. s1 \o s2 \in Seq(Entries) /\ Len(s1 \o s2) = len - 1
      /\ (\A k \in 1 .. len - 1 : (s1 \o s2)[k] = IF k <= i - 1 THEN c.order[k] ELSE c.order[k + 1])
  <2>1. s1 \o s2 \in Seq(Entries) /\ Len(s1 \o s2) = Len(s1) + Len(s2)
        /\ (\A k \in 1 .. Len(s1) + Len(s2) : (s1 \o s2)[k] = IF k <= Len(s1) THEN s1[k] ELSE s2[k - Len(s1)])
    BY <1>3, <1>4, ConcatProperties
  <2>2. Len(s1) + Len(s2) = len - 1
    BY <1>1, <1>3, <1>4
  <2>3. ASSUME NEW k \in 1 .. len - 1 PROVE (s1 \o s2)[k] = IF k <= i - 1 THEN c.order[k] ELSE c.order[k + 1]
    <3>1. CASE k <= i - 1
      BY <1>1, <1>3, <2>1, <2>2, <3>1
    <3>2. CASE ~(k <= i - 1)
      <4>1. k - (i - 1) \in 1 .. len - i /\ i + (k - (i - 1)) = k + 1
        BY <1>1, <3>2
      <4>2. s2[k - (i - 1)] = c.order[k + 1]
        BY <1>4, <4>1
      <4>3. (s1 \o s2)[k] = s2[k - (i - 1)]
        BY <1>3, <2>1, <2>2, <3>2
      <4> QED
        BY <3>2, <4>2, <4>3
    <3> QED
      BY <3>1, <3>2
  <2> QED
    BY <2>1, <2>2, <2>3
<1> DEFINE r == s1 \o s2
           e == <<c.order[i]>>
<1>6. r \in Seq(Entries) /\ Len(r) = len - 1 /\ e \in Seq(Entries) /\ Len(e) = 1 /\ e[1] = c.order[i]
  BY <1>1, <1>5
<1> HIDE DEF r, e
<1>7. e \o r \in Seq(Entries) /\ Len(e \o r) = 1 + (len - 1)
      /\ (\A k \in 1 .. 1 + (len - 1) : (e \o r)[k] = IF k <= 1 THEN e[k] ELSE r[k - 1])
  <2>1. /\ e \o r \in Seq(Entries) /\ Len(e \o r) = Len(e) + Len(r)
        /\ \A k \in 1 .. Len(e) + Len(r) : (e \o r)[k] = IF k <= Len(e) THEN e[k] ELSE r[k - Len(e)]
    BY <1>6, ConcatProperties
  <2> QED
    BY <1>6, <2>1
<1>8. len >= 1 /\ 1 + (len - 1) = len /\ 1 \in 1 .. len
  BY <1>1
<1>9. (e \o r)[1] = c.order[i]
  BY <1>6, <1>7, <1>8
<1>10. ASSUME NEW k \in 2 .. len PROVE (e \o r)[k] = c.order[IF k <= i THEN k - 1 ELSE k]
  <2>1. k \in 1 .. 1 + (len - 1) /\ ~(k <= 1) /\ k - 1 \in 1 .. len - 1 /\ (k - 1) + 1 = k
        /\ (k - 1 <= i - 1 <=> k <= i)
    BY <1>1
  <2>2. (e \o r)[k] = r[k - 1]
    BY <1>7, <2>1
  <2>3. r[k - 1] = IF k - 1 <= i - 1 THEN c.order[k - 1] ELSE c.order[(k - 1) + 1]
    BY <1>5, <2>1 DEF r
  <2> QED
    BY <2>1, <2>2, <2>3
<1>11. Splice(c, t) = e \o r
  BY <1>2 DEF e, r
<1> QED
  BY <1>7, <1>8, <1>9, <1>10, <1>11 DEF i, len

-----------------------------------------------------------------------------
(* get() and put() before they evict.                                      *)

SpliceSource(c, t) ==
  [k \in 2 .. Len(c.order) |-> IF k <= Place(c, t) THEN k - 1 ELSE k]

Stored(c, t, size) ==
  LET entry == [coord |-> t, size |-> size]
  IN  IF Cached(c, t)
        THEN [c EXCEPT !.bytes = @ - SizeOf(c, t) + size,
                       !.order = <<entry>> \o Tail(Splice(c, t))]
        ELSE [order  |-> <<entry>> \o c.order,
              lookup |-> c.lookup \cup {t},
              bytes  |-> c.bytes + size]

LEMMA SourceOfSplice ==
  ASSUME NEW c, Listed(c), NEW t \in c.lookup
  PROVE  /\ \A k \in 2 .. Len(c.order) :
              /\ SpliceSource(c, t)[k] \in 1 .. Len(c.order)
              /\ c.order[SpliceSource(c, t)[k]].coord # t
         /\ \A k, l \in 2 .. Len(c.order) :
              k < l => SpliceSource(c, t)[k] < SpliceSource(c, t)[l]
         /\ \A i \in 1 .. Len(c.order) :
              c.order[i].coord # t => \E k \in 2 .. Len(c.order) : SpliceSource(c, t)[k] = i
<1> DEFINE src == SpliceSource(c, t)
           len == Len(c.order)
           p == Place(c, t)
<1>1. len \in Nat /\ p \in 1 .. len /\ c.order[p].coord = t
  BY PlaceOf DEF Listed
<1>2. \A k \in 2 .. len : src[k] = IF k <= p THEN k - 1 ELSE k
  BY DEF SpliceSource
<1>3. \A i \in 1 .. len : c.order[i].coord = t => i = p
  BY <1>1 DEF Listed
<1> HIDE DEF src, len, p
<1>4. ASSUME NEW k \in 2 .. len PROVE src[k] \in 1 .. len /\ src[k] # p
  BY <1>1, <1>2
<1>5. ASSUME NEW k \in 2 .. len, NEW l \in 2 .. len, k < l PROVE src[k] < src[l]
  BY <1>1, <1>2, <1>5
<1>6. ASSUME NEW i \in 1 .. len, i # p PROVE \E k \in 2 .. len : src[k] = i
  <2>1. CASE i < p
    <3>1. i + 1 \in 2 .. len /\ i + 1 <= p
      BY <1>1, <2>1
    <3>2. src[i + 1] = i
      BY <1>2, <3>1
    <3> QED
      BY <3>1, <3>2
  <2>2. CASE i > p
    <3>1. i \in 2 .. len /\ ~(i <= p)
      BY <1>1, <2>2
    <3>2. src[i] = i
      BY <1>2, <3>1
    <3> QED
      BY <3>1, <3>2
  <2> QED
    BY <1>1, <1>6, <2>1, <2>2
<1>7. \A k \in 2 .. len : c.order[src[k]].coord # t
  BY <1>3, <1>4
<1>8. \A i \in 1 .. len : c.order[i].coord # t => \E k \in 2 .. len : src[k] = i
  BY <1>1, <1>6
<1> QED
  BY <1>4, <1>5, <1>7, <1>8 DEF src, len

LEMMA SplicedIsPromoted ==
  ASSUME NEW c, Listed(c), NEW t \in c.lookup,
         NEW d \in [order : Seq(Entries), lookup : SUBSET Tiles, bytes : Int],
         Len(d.order) = Len(c.order), Len(c.order) >= 1,
         d.order[1].coord = t, d.lookup = c.lookup,
         \A k \in 2 .. Len(c.order) : d.order[k] = c.order[SpliceSource(c, t)[k]]
  PROVE  Promoted(c, d, t, SpliceSource(c, t))
<1> DEFINE src == SpliceSource(c, t)
           len == Len(c.order)
<1>1. \A k \in 2 .. len : src[k] \in 1 .. len /\ c.order[src[k]].coord # t
  BY SourceOfSplice
<1>2. \A k, l \in 2 .. len : k < l => src[k] < src[l]
  BY SourceOfSplice
<1>3. \A i \in 1 .. len : c.order[i].coord # t => \E k \in 2 .. len : src[k] = i
  BY SourceOfSplice
<1>4. Len(d.order) = len /\ len >= 1 /\ d.lookup = c.lookup \cup {t}
      /\ (\A k \in 2 .. len : d.order[k] = c.order[src[k]])
  OBVIOUS
<1> HIDE DEF src
<1>5. Promoted(c, d, t, src)
  BY <1>1, <1>2, <1>3, <1>4 DEF Promoted
<1> QED
  BY <1>5 DEF src

LEMMA FoundIsPromoted ==
  ASSUME NEW c, Listed(c), NEW t \in c.lookup
  PROVE  /\ Promoted(c, Get(c, t), t, SpliceSource(c, t))
         /\ Get(c, t).order[1].size = Content(c)[t]
         /\ Get(c, t).bytes = c.bytes
<1> DEFINE d == Get(c, t)
<1>1. d = [c EXCEPT !.order = Splice(c, t)]
  BY DEF Get, Cached
<1>2. c \in [order : Seq(Entries), lookup : SUBSET Tiles, bytes : Int]
  BY DEF Listed
<1>3. d \in [order : Seq(Entries), lookup : SUBSET Tiles, bytes : Int]
      /\ d.order = Splice(c, t) /\ d.lookup = c.lookup /\ d.bytes = c.bytes
  BY <1>1, <1>2, Spliced
<1>4. c.order[Place(c, t)].coord = t /\ c.order[Place(c, t)].size = Content(c)[t]
  BY PlaceOf DEF Content, SizeOf
<1> HIDE DEF d
<1>5. Len(d.order) = Len(c.order) /\ Len(d.order) >= 1 /\ d.order[1] = c.order[Place(c, t)]
      /\ (\A k \in 2 .. Len(c.order) : d.order[k] = c.order[SpliceSource(c, t)[k]])
  BY <1>3, Spliced DEF SpliceSource
<1>7. Promoted(c, d, t, SpliceSource(c, t))
  <2>1. Len(c.order) >= 1 /\ d.order[1].coord = t
    BY <1>4, <1>5
  <2> QED
    BY <1>3, <1>5, <2>1, SplicedIsPromoted
<1> QED
  BY <1>3, <1>4, <1>5, <1>7 DEF d

LEMMA ReplacedIsPromoted ==
  ASSUME NEW c, Listed(c), NEW t \in c.lookup, NEW size \in Sizes
  PROVE  /\ Promoted(c, Stored(c, t, size), t, SpliceSource(c, t))
         /\ Stored(c, t, size).order[1].size = size
         /\ Stored(c, t, size).bytes = c.bytes - Content(c)[t] + size
<1> DEFINE d == Stored(c, t, size)
           entry == [coord |-> t, size |-> size]
           e == <<entry>>
           s == Splice(c, t)
           r == Tail(s)
           len == Len(c.order)
<1>1. d = [c EXCEPT !.bytes = @ - SizeOf(c, t) + size, !.order = e \o r]
  BY DEF Stored, Cached
<1>2. c \in [order : Seq(Entries), lookup : SUBSET Tiles, bytes : Int] /\ t \in Tiles /\ len \in Nat
  BY DEF Listed
<1>3. size \in Nat /\ SizeOf(c, t) = Content(c)[t] /\ Content(c)[t] \in Nat
  BY SizesAssumption, ContentOf DEF Content
<1>4. entry \in Entries /\ entry.coord = t /\ entry.size = size
  BY <1>2 DEF Entries
<1> HIDE DEF entry
<1>5. e \in Seq(Entries) /\ Len(e) = 1 /\ e[1] = entry
  BY <1>4
<1>6. s \in Seq(Entries) /\ Len(s) = len /\ len >= 1
      /\ (\A k \in 2 .. len : s[k] = c.order[SpliceSource(c, t)[k]])
  BY Spliced DEF SpliceSource
<1> HIDE DEF s, len, e
<1>7. r \in Seq(Entries) /\ Len(r) = len - 1 /\ (\A k \in 1 .. len - 1 : r[k] = s[k + 1])
  <2>1. s # <<>>
    BY <1>2, <1>6
  <2> QED
    BY <1>6, <2>1, HeadTailProperties
<1> HIDE DEF r
<1>8. /\ e \o r \in Seq(Entries) /\ Len(e \o r) = Len(e) + Len(r)
      /\ \A k \in 1 .. Len(e) + Len(r) : (e \o r)[k] = IF k <= Len(e) THEN e[k] ELSE r[k - Len(e)]
  <2>1. e \in Seq(Entries) /\ r \in Seq(Entries)
    BY <1>5, <1>7
  <2> QED
    BY <2>1, ConcatProperties
<1>9. e \o r \in Seq(Entries) /\ Len(e \o r) = len /\ (e \o r)[1] = entry
  <2>1. Len(e) + Len(r) = len /\ 1 \in 1 .. len /\ 1 <= Len(e)
    BY <1>2, <1>5, <1>6, <1>7
  <2> QED
    BY <1>5, <1>8, <2>1
<1>10. ASSUME NEW k \in 2 .. len PROVE (e \o r)[k] = c.order[SpliceSource(c, t)[k]]
  <2>1. k \in 1 .. 1 + (len - 1) /\ ~(k <= 1) /\ k - 1 \in 1 .. len - 1 /\ (k - 1) + 1 = k
    BY <1>2
  <2>2. (e \o r)[k] = r[k - 1]
    BY <1>5, <1>7, <1>8, <2>1
  <2>3. r[k - 1] = s[k]
    BY <1>7, <2>1
  <2> QED
    BY <1>6, <2>2, <2>3
<1>11. d \in [order : Seq(Entries), lookup : SUBSET Tiles, bytes : Int]
       /\ d.order = e \o r /\ d.lookup = c.lookup /\ d.bytes = c.bytes - Content(c)[t] + size
  <2>1. c.bytes - SizeOf(c, t) + size \in Int
    BY <1>2, <1>3
  <2> DEFINE q == e \o r
             b == c.bytes - SizeOf(c, t) + size
  <2>2. q \in Seq(Entries) /\ b \in Int /\ d = [c EXCEPT !.bytes = b, !.order = q]
    BY <1>1, <1>9, <2>1
  <2> HIDE DEF q, b, d
  <2>3. d \in [order : Seq(Entries), lookup : SUBSET Tiles, bytes : Int]
        /\ d.order = q /\ d.lookup = c.lookup /\ d.bytes = b
    BY <1>2, <2>2
  <2> QED
    BY <1>3, <2>3 DEF q, b
<1> HIDE DEF d
<1>12. d.order[1] = entry /\ Len(d.order) = len
  BY <1>9, <1>11
<1>13. \A k \in 2 .. len : d.order[k] = c.order[SpliceSource(c, t)[k]]
  BY <1>10, <1>11
<1>14. Promoted(c, d, t, SpliceSource(c, t))
  <2>1. d.order[1].coord = t
    BY <1>4, <1>12
  <2> QED
    BY <1>6, <1>11, <1>12, <1>13, <2>1, SplicedIsPromoted DEF len
<1> QED
  BY <1>4, <1>11, <1>12, <1>14 DEF d

LEMMA InsertedIsPromoted ==
  ASSUME NEW c, Listed(c), NEW t \in Tiles, t \notin c.lookup, NEW size \in Sizes
  PROVE  /\ Promoted(c, Stored(c, t, size), t, [k \in 2 .. Len(c.order) + 1 |-> k - 1])
         /\ Stored(c, t, size).order[1].size = size
         /\ Stored(c, t, size).bytes = c.bytes + size
<1> DEFINE d == Stored(c, t, size)
           entry == [coord |-> t, size |-> size]
           e == <<entry>>
           r == c.order
           len == Len(c.order)
           src == [k \in 2 .. len + 1 |-> k - 1]
<1>1. d = [order |-> e \o r, lookup |-> c.lookup \cup {t}, bytes |-> c.bytes + size]
  BY DEF Stored, Cached
<1>2. r \in Seq(Entries) /\ c.lookup \in SUBSET Tiles /\ c.bytes \in Int /\ len \in Nat /\ Len(r) = len
  BY DEF Listed
<1>3. size \in Nat
  BY SizesAssumption
<1>4. entry \in Entries /\ entry.coord = t /\ entry.size = size
  BY DEF Entries
<1> HIDE DEF entry
<1>5. e \in Seq(Entries) /\ Len(e) = 1 /\ e[1] = entry
  BY <1>4
<1>6. \A i \in 1 .. len : r[i].coord # t
  BY DEF Listed
<1> HIDE DEF e, len
<1>8. /\ e \o r \in Seq(Entries) /\ Len(e \o r) = Len(e) + Len(r)
      /\ \A k \in 1 .. Len(e) + Len(r) : (e \o r)[k] = IF k <= Len(e) THEN e[k] ELSE r[k - Len(e)]
  BY <1>2, <1>5, ConcatProperties
<1>9. e \o r \in Seq(Entries) /\ Len(e \o r) = len + 1 /\ (e \o r)[1] = entry
  BY <1>2, <1>5, <1>8
<1>10. ASSUME NEW k \in 2 .. len + 1 PROVE src[k] = k - 1 /\ src[k] \in 1 .. len /\ (e \o r)[k] = r[src[k]]
  <2>1. k \in 1 .. 1 + len /\ ~(k <= 1) /\ k - 1 \in 1 .. len
    BY <1>2
  <2> QED
    BY <1>2, <1>5, <1>8, <2>1
<1>11. d \in [order : Seq(Entries), lookup : SUBSET Tiles, bytes : Int]
       /\ d.order = e \o r /\ d.lookup = c.lookup \cup {t} /\ d.bytes = c.bytes + size
  <2>1. c.lookup \cup {t} \in SUBSET Tiles /\ c.bytes + size \in Int
    BY <1>2, <1>3
  <2> QED
    BY <1>1, <1>9, <2>1
<1> HIDE DEF d, src, r
<1>12. \A k, l \in 2 .. len + 1 : k < l => src[k] < src[l]
  BY <1>2, <1>10
<1>13. \A i \in 1 .. len : i + 1 \in 2 .. len + 1 /\ src[i + 1] = i
  BY <1>2, <1>10
<1>14. \A i \in 1 .. len : \E k \in 2 .. len + 1 : src[k] = i
  BY <1>13
<1>15. d.order[1] = entry /\ Len(d.order) = len + 1 /\ len + 1 >= 1
       /\ (\A k \in 2 .. len + 1 : d.order[k] = r[src[k]])
  BY <1>2, <1>9, <1>10, <1>11
<1>16. Promoted(c, d, t, src)
  BY <1>4, <1>6, <1>10, <1>11, <1>12, <1>14, <1>15 DEF Promoted, len, r
<1> QED
  BY <1>4, <1>11, <1>15, <1>16 DEF d, src, len

LEMMA FoundKeeps ==
  ASSUME NEW c, Listed(c), Counted(c), NEW t \in c.lookup
  PROVE  /\ Listed(Get(c, t)) /\ Counted(Get(c, t))
         /\ Get(c, t).lookup = c.lookup
         /\ \A x \in c.lookup : Content(Get(c, t))[x] = Content(c)[x]
<1> DEFINE d == Get(c, t)
           src == SpliceSource(c, t)
<1>1. Promoted(c, d, t, src) /\ d.order[1].size = Content(c)[t] /\ d.bytes = c.bytes
  BY FoundIsPromoted
<1>2. d.lookup = c.lookup
  BY <1>1 DEF Promoted
<1> HIDE DEF d, src
<1>3. Listed(d)
  BY <1>1, PromotedIsListed
<1>4. \A x \in d.lookup : Content(d)[x] = IF x = t THEN d.order[1].size ELSE Content(c)[x]
  BY <1>1, PromotedIsListed
<1>5. d.bytes = d.order[1].size + Total(Content(c), c.lookup \ {t}) => Counted(d)
  BY <1>1, PromotedBytes
<1>6. c.bytes = Content(c)[t] + Total(Content(c), c.lookup \ {t})
  BY <1>1, PromotedBytes
<1> QED
  BY <1>1, <1>2, <1>3, <1>4, <1>5, <1>6 DEF d

LEMMA StoredKeeps ==
  ASSUME NEW c, Listed(c), Counted(c), NEW t \in Tiles, NEW size \in Sizes
  PROVE  /\ Listed(Stored(c, t, size)) /\ Counted(Stored(c, t, size))
         /\ Stored(c, t, size).lookup = c.lookup \cup {t}
         /\ \A x \in c.lookup \cup {t} :
              Content(Stored(c, t, size))[x] = IF x = t THEN size ELSE Content(c)[x]
         /\ \E src : Promoted(c, Stored(c, t, size), t, src)
<1> DEFINE d == Stored(c, t, size)
           rest == Total(Content(c), c.lookup \ {t})
<1>1. PICK src : Promoted(c, d, t, src) /\ d.order[1].size = size
  BY ReplacedIsPromoted, InsertedIsPromoted
<1>2. d.bytes = size + rest
  <2>1. rest \in Int /\ size \in Nat
    BY <1>1, PromotedBytes, SizesAssumption
  <2>2. CASE t \in c.lookup
    <3>1. d.bytes = c.bytes - Content(c)[t] + size
      BY <2>2, ReplacedIsPromoted
    <3>2. c.bytes = Content(c)[t] + rest
      BY <1>1, <2>2, PromotedBytes
    <3>3. Content(c)[t] \in Nat
      BY <2>2, ContentOf
    <3> HIDE DEF d, rest
    <3> QED
      BY <2>1, <3>1, <3>2, <3>3
  <2>3. CASE t \notin c.lookup
    <3>1. d.bytes = c.bytes + size
      BY <2>3, InsertedIsPromoted
    <3>2. c.bytes = rest
      BY <1>1, <2>3, PromotedBytes
    <3> HIDE DEF d, rest
    <3> QED
      BY <2>1, <3>1, <3>2
  <2> QED
    BY <2>2, <2>3
<1> HIDE DEF d
<1>3. d.lookup = c.lookup \cup {t}
  BY <1>1 DEF Promoted
<1>4. Listed(d)
  BY <1>1, PromotedIsListed
<1>5. \A x \in d.lookup : Content(d)[x] = IF x = t THEN d.order[1].size ELSE Content(c)[x]
  BY <1>1, PromotedIsListed
<1>6. d.bytes = d.order[1].size + rest => Counted(d)
  BY <1>1, PromotedBytes
<1> QED
  BY <1>1, <1>2, <1>3, <1>4, <1>5, <1>6 DEF d

LEMMA PutEvictsStored ==
  ASSUME NEW c, NEW t, NEW size, NEW max
  PROVE  Put(c, t, size, max) = EvictIfNeeded(Stored(c, t, size), max)
BY DEF Put, Stored

LEMMA EvictedKeeps ==
  ASSUME NEW c, Listed(c), Counted(c), NEW max \in Nat
  PROVE  /\ Listed(EvictIfNeeded(c, max)) /\ Counted(EvictIfNeeded(c, max))
         /\ EvictIfNeeded(c, max).bytes <= max
<1>1. PICK n \in 0 .. Len(c.order) :
        EvictIfNeeded(c, max) = Kept(c, n) /\ Total(SizesIn(c.order), 1 .. n) <= max
  BY Evicted
<1>2. Listed(Kept(c, n)) /\ Counted(Kept(c, n))
  BY KeptIsListed
<1>3. Kept(c, n).bytes = Total(SizesIn(c.order), 1 .. n)
  BY DEF Kept
<1> QED
  BY <1>1, <1>2, <1>3

-----------------------------------------------------------------------------
(* What the code keeps in step by hand agrees after every operation.       *)

CacheInv ==
  /\ maxBytes \in Limits
  /\ Listed(cache) /\ Counted(cache)
  /\ cache.bytes <= maxBytes

LEMMA EmptyIsListed ==
  /\ Listed(EmptyCache) /\ Counted(EmptyCache)
  /\ EmptyCache.bytes = 0 /\ EmptyCache.lookup = {}
  /\ EmptyCache.order = <<>> /\ Len(EmptyCache.order) = 0
<1>1. EmptyCache.order = <<>> /\ EmptyCache.lookup = {} /\ EmptyCache.bytes = 0 /\ Len(EmptyCache.order) = 0
  BY DEF EmptyCache
<1>2. 1 .. Len(EmptyCache.order) = {}
  BY <1>1
<1>3. EmptyCache \in [order : Seq(Entries), lookup : SUBSET Tiles, bytes : Int]
  BY DEF EmptyCache
<1>4. Listed(EmptyCache)
  BY <1>1, <1>2, <1>3 DEF Listed
<1>5. Counted(EmptyCache)
  BY <1>1, <1>2, TotalEmpty DEF Counted
<1> QED
  BY <1>1, <1>4, <1>5

LEMMA CacheInvHolds == Spec => []CacheInv
<1>1. Init => CacheInv
  BY EmptyIsListed, SizesAssumption DEF Init, CacheInv
<1>2. CacheInv /\ [Next]_vars => CacheInv'
  <2> SUFFICES ASSUME CacheInv, [Next]_vars PROVE CacheInv'
    OBVIOUS
  <2>0. maxBytes \in Limits /\ maxBytes \in Nat /\ Listed(cache) /\ Counted(cache) /\ cache.bytes <= maxBytes
    BY SizesAssumption DEF CacheInv
  <2>1. SUFFICES maxBytes' \in Limits /\ Listed(cache') /\ Counted(cache') /\ cache'.bytes <= maxBytes'
    BY DEF CacheInv, Listed, Counted
  <2>2. ASSUME NEW t \in Tiles, Find(t)
        PROVE  maxBytes' \in Limits /\ Listed(cache') /\ Counted(cache') /\ cache'.bytes <= maxBytes'
    <3>1. CASE t \in cache.lookup
      <4>1. Listed(Get(cache, t)) /\ Counted(Get(cache, t))
        BY <2>0, <3>1, FoundKeeps
      <4>2. Get(cache, t).bytes = cache.bytes
        BY <2>0, <3>1, FoundIsPromoted
      <4> QED
        BY <2>0, <2>2, <4>1, <4>2 DEF Find
    <3>2. CASE t \notin cache.lookup
      <4>1. Get(cache, t) = cache
        BY <3>2 DEF Get, Cached
      <4> QED
        BY <2>0, <2>2, <4>1 DEF Find
    <3> QED
      BY <3>1, <3>2
  <2>3. ASSUME NEW t \in Tiles, NEW size \in Sizes, Store(t, size)
        PROVE  maxBytes' \in Limits /\ Listed(cache') /\ Counted(cache') /\ cache'.bytes <= maxBytes'
    <3>1. cache' = EvictIfNeeded(Stored(cache, t, size), maxBytes) /\ maxBytes' = maxBytes
      BY <2>3, PutEvictsStored DEF Store
    <3>2. Listed(Stored(cache, t, size)) /\ Counted(Stored(cache, t, size))
      BY <2>0, StoredKeeps
    <3> QED
      BY <2>0, <3>1, <3>2, EvictedKeeps
  <2>4. ASSUME NEW max \in Limits, SetMaxBytes(max)
        PROVE  maxBytes' \in Limits /\ Listed(cache') /\ Counted(cache') /\ cache'.bytes <= maxBytes'
    <3>1. cache' = EvictIfNeeded(cache, max) /\ maxBytes' = max /\ max \in Nat
      BY <2>4, SizesAssumption DEF SetMaxBytes
    <3> QED
      BY <2>0, <3>1, EvictedKeeps
  <2>5. CASE Clear
    <3>1. cache' = EmptyCache /\ maxBytes' = maxBytes
      BY <2>5 DEF Clear
    <3>2. 0 <= maxBytes
      BY <2>0
    <3> QED
      BY <2>0, <3>1, <3>2, EmptyIsListed
  <2>6. CASE UNCHANGED vars
    BY <2>0, <2>6 DEF vars
  <2> QED
    BY <2>2, <2>3, <2>4, <2>5, <2>6 DEF Next
<1> QED
  BY <1>1, <1>2, PTL DEF Spec

(* After every get(), put(), setMaxBytes() and clear() the list holds each *)
(* key of m_lookup exactly once, m_currentBytes is the sum of the sizes in *)
(* the list, and it is within m_maxBytes.                                  *)
THEOREM CacheIsConsistent == Spec => []CacheConsistent
<1>1. CacheInv => CacheConsistent
  <2> SUFFICES ASSUME CacheInv PROVE CacheConsistent
    OBVIOUS
  <2>1. DOMAIN cache.order = 1 .. Len(cache.order)
    BY DEF CacheInv, Listed
  <2>2. IsInjective([i \in DOMAIN cache.order |-> cache.order[i].coord])
    BY <2>1 DEF CacheInv, Listed, IsInjective
  <2>3. cache.lookup = {cache.order[i].coord : i \in DOMAIN cache.order}
    BY <2>1 DEF CacheInv, Listed
  <2>4. cache.bytes = Total(SizesIn(cache.order), DOMAIN cache.order) /\ cache.bytes <= maxBytes
    BY <2>1 DEF CacheInv, Counted
  <2> QED
    BY <2>2, <2>3, <2>4 DEF CacheConsistent
<1>2. Spec => []CacheInv
  BY CacheInvHolds
<1> QED
  BY <1>1, <1>2, PTL

-----------------------------------------------------------------------------
(* The cache is the LRU cache of LruCache.                                 *)

LEMMA SameTotal ==
  ASSUME NEW f, NEW S
  PROVE  Lru!Total(f, S) = Total(f, S)
BY DEF Lru!Total, Lru!MapThenSumSet, Lru!MapThenFoldSet, Total, MapThenSumSet, MapThenFoldSet

(* Its list is sorted by the last use of its tiles, the latest first.      *)
UsedInOrder(c, use) ==
  \A i, j \in 1 .. Len(c.order) : i < j => use[c.order[i].coord] > use[c.order[j].coord]

(* Keeping the longest front that fits is keeping the latest used tiles    *)
(* that fit together.                                                      *)
LEMMA KeptIsKeep ==
  ASSUME NEW c, Listed(c), Counted(c), NEW max \in Nat,
         NEW use \in [Tiles -> Nat], UsedInOrder(c, use)
  PROVE  Content(EvictIfNeeded(c, max)) = Lru!Keep(Content(c), use, max)
<1> DEFINE len == Len(c.order)
           f == Content(c)
           Bytes(n) == Total(SizesIn(c.order), 1 .. n)
<1>1. PICK n \in 0 .. len :
        /\ EvictIfNeeded(c, max) = Kept(c, n)
        /\ Bytes(n) <= max
        /\ \A m \in n + 1 .. len : Bytes(m) > max
  BY Evicted
<1>2. len \in Nat /\ c.lookup = {c.order[i].coord : i \in 1 .. len} /\ DOMAIN f = c.lookup
      /\ c.lookup \in SUBSET Tiles /\ DOMAIN c.order = 1 .. len
  BY DEF Listed, Content
<1>3. ASSUME NEW i \in 1 .. len
      PROVE  Lru!NotOlder(f, use, c.order[i].coord) = FirstTiles(c, i)
  <2>1. \A j \in 1 .. len : use[c.order[j].coord] \in Nat
    BY <1>2
  <2>2. \A j \in 1 .. len : use[c.order[j].coord] >= use[c.order[i].coord] <=> j \in 1 .. i
    <3>1. ASSUME NEW j \in 1 .. len
          PROVE  use[c.order[j].coord] >= use[c.order[i].coord] <=> j \in 1 .. i
      <4>1. CASE j < i
        <5>1. use[c.order[j].coord] > use[c.order[i].coord] /\ j \in 1 .. i
          BY <4>1 DEF UsedInOrder
        <5> QED
          BY <2>1, <5>1
      <4>2. CASE j = i
        BY <2>1, <4>2
      <4>3. CASE i < j
        <5>1. use[c.order[i].coord] > use[c.order[j].coord] /\ j \notin 1 .. i
          BY <4>3 DEF UsedInOrder
        <5> QED
          BY <2>1, <5>1
      <4> QED
        BY <4>1, <4>2, <4>3
    <3> QED
      BY <3>1
  <2>3. \A j \in 1 .. i : j \in 1 .. len
    BY <1>2
  <2>4. Lru!NotOlder(f, use, c.order[i].coord) = {d \in c.lookup : use[d] >= use[c.order[i].coord]}
    BY <1>2 DEF Lru!NotOlder
  <2> QED
    BY <1>2, <2>2, <2>3, <2>4 DEF FirstTiles
<1>4. ASSUME NEW i \in 1 .. len
      PROVE  Lru!Total(f, Lru!NotOlder(f, use, c.order[i].coord)) = Bytes(i)
  <2>1. i \in 0 .. len
    OBVIOUS
  <2>2. Bytes(i) = Total(f, FirstTiles(c, i))
    BY <2>1, BytesByTile
  <2> QED
    BY <1>3, <2>2, SameTotal
<1>5. ASSUME NEW i \in 1 .. len PROVE Bytes(i) <= max <=> i \in 1 .. n
  <2>1. Bytes(i) \in Nat /\ Bytes(n) \in Nat
    <3>1. i \in 0 .. len
      OBVIOUS
    <3> QED
      BY <3>1, BytesByTile
  <2>2. CASE i <= n
    <3>1. 1 .. i \in SUBSET (1 .. n) /\ IsFiniteSet(1 .. n)
      <4>1. n \in Int /\ 1 \in Int /\ i \in Int
        BY <1>2
      <4>2. 1 .. i \in SUBSET (1 .. n)
        BY <2>2, <4>1
      <4> QED
        BY <4>1, <4>2, FS_Interval
    <3>2. \A j \in 1 .. n : SizesIn(c.order)[j] \in Nat
      <4>1. \A j \in 1 .. n : j \in 1 .. len
        BY <1>2
      <4>2. \A j \in 1 .. len : SizesIn(c.order)[j] \in Nat
        BY <1>2, EntryTypes DEF SizesIn
      <4> QED
        BY <4>1, <4>2
    <3>3. Bytes(i) <= Bytes(n)
      BY <3>1, <3>2, TotalGrows
    <3>4. i \in 1 .. n
      BY <2>2
    <3> HIDE DEF Bytes
    <3> QED
      BY <1>1, <2>1, <3>3, <3>4
  <2>3. CASE ~(i <= n)
    <3>1. i \in n + 1 .. len /\ i \notin 1 .. n
      BY <2>3
    <3>2. Bytes(i) > max
      BY <1>1, <3>1
    <3> HIDE DEF Bytes
    <3> QED
      BY <2>1, <3>1, <3>2
  <2> QED
    BY <2>2, <2>3
<1>6. Lru!Fitting(f, use, max) = FirstTiles(c, n)
  <2>1. Lru!Fitting(f, use, max)
          = {d \in c.lookup : Lru!Total(f, Lru!NotOlder(f, use, d)) <= max}
    BY <1>2 DEF Lru!Fitting
  <2>2. \A i \in 1 .. len : Lru!Total(f, Lru!NotOlder(f, use, c.order[i].coord)) <= max <=> i \in 1 .. n
    BY <1>4, <1>5
  <2>3. \A i \in 1 .. n : i \in 1 .. len
    BY <1>2
  <2> HIDE DEF f
  <2> QED
    BY <1>2, <2>1, <2>2, <2>3 DEF FirstTiles
<1>7. Lru!Keep(f, use, max) = [d \in FirstTiles(c, n) |-> f[d]]
  BY <1>6 DEF Lru!Keep
<1>8. Content(Kept(c, n)) = [d \in FirstTiles(c, n) |-> f[d]]
  BY KeptIsListed
<1> QED
  BY <1>1, <1>7, <1>8

(* Bringing the tile used now to the front keeps the list sorted, and so   *)
(* does dropping its end.                                                  *)
LEMMA PromotedInOrder ==
  ASSUME NEW c, Listed(c), NEW d, NEW t \in Tiles, NEW src, Promoted(c, d, t, src),
         NEW use \in [Tiles -> Nat], NEW time \in Nat,
         \A x \in Tiles : use[x] < time, UsedInOrder(c, use)
  PROVE  UsedInOrder(d, [use EXCEPT ![t] = time])
<1> DEFINE u == [use EXCEPT ![t] = time]
<1>0. Len(d.order) \in Nat /\ d.order[1].coord = t /\ u[t] = time
  BY DEF Promoted
<1>1. \A k \in 2 .. Len(d.order) :
        /\ src[k] \in 1 .. Len(c.order)
        /\ d.order[k].coord = c.order[src[k]].coord
        /\ d.order[k].coord # t
  BY DEF Promoted
<1>2. \A k \in 2 .. Len(d.order) :
        d.order[k].coord \in Tiles /\ u[d.order[k].coord] = use[c.order[src[k]].coord]
  BY <1>1, EntryTypes
<1>3. ASSUME NEW i \in 1 .. Len(d.order), NEW j \in 1 .. Len(d.order), i < j
      PROVE  u[d.order[i].coord] > u[d.order[j].coord]
  <2>1. j \in 2 .. Len(d.order) /\ (i = 1 \/ i \in 2 .. Len(d.order))
    BY <1>0, <1>3
  <2>2. CASE i = 1
    <3>1. u[d.order[j].coord] \in Nat /\ u[d.order[j].coord] < time
      BY <1>1, <1>2, <2>1
    <3> QED
      BY <1>0, <2>2, <3>1
  <2>3. CASE i \in 2 .. Len(d.order)
    <3>1. src[i] < src[j]
      BY <1>3, <2>1, <2>3 DEF Promoted
    <3>2. use[c.order[src[i]].coord] > use[c.order[src[j]].coord]
      BY <1>1, <2>1, <2>3, <3>1 DEF UsedInOrder
    <3> QED
      BY <1>2, <2>1, <2>3, <3>2
  <2> QED
    BY <2>1, <2>2, <2>3
<1> HIDE DEF u
<1>4. UsedInOrder(d, u)
  BY <1>3 DEF UsedInOrder
<1> QED
  BY <1>4 DEF u

LEMMA EvictedInOrder ==
  ASSUME NEW c, Listed(c), Counted(c), NEW max \in Nat, NEW use, UsedInOrder(c, use)
  PROVE  UsedInOrder(EvictIfNeeded(c, max), use)
<1>1. PICK n \in 0 .. Len(c.order) : EvictIfNeeded(c, max) = Kept(c, n)
  BY Evicted
<1>2. Len(Kept(c, n).order) = n /\ \A i \in 1 .. n : Kept(c, n).order[i] = c.order[i]
  BY KeptIsListed
<1>3. \A i \in 1 .. n : i \in 1 .. Len(c.order)
  BY DEF Listed
<1>4. UsedInOrder(Kept(c, n), use)
  BY <1>2, <1>3 DEF UsedInOrder
<1> QED
  BY <1>1, <1>4

LruInv ==
  /\ CacheInv
  /\ lastUse \in [Tiles -> Nat] /\ now \in Nat \ {0}
  /\ \A t \in Tiles : lastUse[t] < now
  /\ UsedInOrder(cache, lastUse)

LEMMA LruInvHolds == Spec => []LruInv
<1> DEFINE History ==
      /\ lastUse \in [Tiles -> Nat] /\ now \in Nat \ {0}
      /\ \A t \in Tiles : lastUse[t] < now
<1>1. Init => LruInv
  <2> SUFFICES ASSUME Init PROVE LruInv
    OBVIOUS
  <2>1. CacheInv
    BY EmptyIsListed, SizesAssumption DEF Init, CacheInv
  <2>2. History
    BY DEF Init
  <2>3. UsedInOrder(cache, lastUse)
    <3>1. cache = EmptyCache /\ 1 .. Len(EmptyCache.order) = {}
      BY EmptyIsListed DEF Init
    <3> QED
      BY <3>1 DEF UsedInOrder
  <2> QED
    BY <2>1, <2>2, <2>3 DEF LruInv
<1>2. LruInv /\ CacheInv' /\ [Next]_vars => LruInv'
  <2> SUFFICES ASSUME LruInv, CacheInv', [Next]_vars PROVE LruInv'
    OBVIOUS
  <2>0. /\ maxBytes \in Nat /\ Listed(cache) /\ Counted(cache)
        /\ History /\ UsedInOrder(cache, lastUse) /\ now \in Nat
    BY SizesAssumption DEF LruInv, CacheInv
  <2>1. SUFFICES History' /\ UsedInOrder(cache', lastUse')
    BY DEF LruInv, UsedInOrder
  <2>2. ASSUME NEW t \in Tiles, Find(t) PROVE History' /\ UsedInOrder(cache', lastUse')
    <3>1. now' = now + 1
      BY <2>2 DEF Find
    <3>2. CASE t \in cache.lookup
      <4>1. cache' = Get(cache, t) /\ lastUse' = [lastUse EXCEPT ![t] = now]
        BY <2>2, <3>2 DEF Find, Cached
      <4>2. Promoted(cache, Get(cache, t), t, SpliceSource(cache, t))
        BY <2>0, <3>2, FoundIsPromoted
      <4>3. UsedInOrder(Get(cache, t), [lastUse EXCEPT ![t] = now])
        BY <2>0, <4>2, PromotedInOrder
      <4>4. History'
        BY <2>0, <3>1, <4>1
      <4> QED
        BY <4>1, <4>3, <4>4
    <3>3. CASE t \notin cache.lookup
      <4>1. cache' = cache /\ lastUse' = lastUse
        BY <2>2, <3>3 DEF Find, Cached, Get
      <4>2. History'
        BY <2>0, <3>1, <4>1
      <4> QED
        BY <2>0, <4>1, <4>2
    <3> QED
      BY <3>2, <3>3
  <2>3. ASSUME NEW t \in Tiles, NEW size \in Sizes, Store(t, size)
        PROVE  History' /\ UsedInOrder(cache', lastUse')
    <3> DEFINE s == Stored(cache, t, size)
               u == [lastUse EXCEPT ![t] = now]
    <3>1. cache' = EvictIfNeeded(s, maxBytes) /\ lastUse' = u /\ now' = now + 1
      BY <2>3, PutEvictsStored DEF Store
    <3>2. Listed(s) /\ Counted(s) /\ \E src : Promoted(cache, s, t, src)
      BY <2>0, StoredKeeps
    <3>3. UsedInOrder(s, u)
      <4> HIDE DEF s
      <4>1. PICK src : Promoted(cache, s, t, src)
        BY <3>2
      <4> QED
        BY <2>0, <4>1, PromotedInOrder
    <3>4. UsedInOrder(EvictIfNeeded(s, maxBytes), u)
      BY <2>0, <3>2, <3>3, EvictedInOrder
    <3>5. History'
      BY <2>0, <3>1
    <3> QED
      BY <3>1, <3>4, <3>5
  <2>4. ASSUME NEW max \in Limits, SetMaxBytes(max) PROVE History' /\ UsedInOrder(cache', lastUse')
    <3>1. cache' = EvictIfNeeded(cache, max) /\ lastUse' = lastUse /\ now' = now /\ max \in Nat
      BY <2>4, SizesAssumption DEF SetMaxBytes
    <3>2. UsedInOrder(EvictIfNeeded(cache, max), lastUse)
      BY <2>0, <3>1, EvictedInOrder
    <3> QED
      BY <2>0, <3>1, <3>2
  <2>5. CASE Clear
    <3>1. cache' = EmptyCache /\ lastUse' = lastUse /\ now' = now
      BY <2>5 DEF Clear
    <3>2. 1 .. Len(EmptyCache.order) = {}
      BY EmptyIsListed
    <3>3. UsedInOrder(EmptyCache, lastUse)
      BY <3>2 DEF UsedInOrder
    <3> QED
      BY <2>0, <3>1, <3>3
  <2>6. CASE UNCHANGED vars
    BY <2>0, <2>6 DEF vars
  <2> QED
    BY <2>2, <2>3, <2>4, <2>5, <2>6 DEF Next
<1>3. Spec => []CacheInv
  BY CacheInvHolds
<1> QED
  BY <1>1, <1>2, <1>3, PTL DEF Spec

LEMMA ContentFound ==
  ASSUME NEW c, Listed(c), Counted(c), NEW t
  PROVE  Content(Get(c, t)) = Content(c)
<1> DEFINE d == Get(c, t)
<1>1. CASE t \in c.lookup
  <2>1. d.lookup = c.lookup /\ \A x \in c.lookup : Content(d)[x] = Content(c)[x]
    BY <1>1, FoundKeeps
  <2>2. Content(d) = [x \in c.lookup |-> Content(d)[x]] /\ Content(c) = [x \in c.lookup |-> Content(c)[x]]
    BY <2>1 DEF Content
  <2> HIDE DEF d
  <2>3. Content(d) = Content(c)
    BY <2>1, <2>2
  <2> QED
    BY <2>3 DEF d
<1>2. CASE t \notin c.lookup
  BY <1>2 DEF Get, Cached
<1> QED
  BY <1>1, <1>2

WithTile(f, t, size) == [d \in DOMAIN f \cup {t} |-> IF d = t THEN size ELSE f[d]]

LEMMA ContentStored ==
  ASSUME NEW c, Listed(c), Counted(c), NEW t \in Tiles, NEW size \in Sizes
  PROVE  Content(Stored(c, t, size)) = WithTile(Content(c), t, size)
<1> DEFINE s == Stored(c, t, size)
<1>1. /\ s.lookup = c.lookup \cup {t}
      /\ \A x \in c.lookup \cup {t} : Content(s)[x] = IF x = t THEN size ELSE Content(c)[x]
  BY StoredKeeps
<1>2. DOMAIN Content(c) = c.lookup /\ Content(s) = [x \in c.lookup \cup {t} |-> Content(s)[x]]
  BY <1>1 DEF Content
<1> HIDE DEF s
<1>3. Content(s) = [d \in c.lookup \cup {t} |-> IF d = t THEN size ELSE Content(c)[d]]
  BY <1>1, <1>2
<1> QED
  BY <1>2, <1>3 DEF s, WithTile

LEMMA LruStep ==
  ASSUME LruInv, [Next]_vars
  PROVE  [Lru!Next]_<<Content(cache), lastUse, maxBytes, now>>
<1>0. /\ maxBytes \in Nat /\ Listed(cache) /\ Counted(cache)
      /\ lastUse \in [Tiles -> Nat] /\ now \in Nat
      /\ (\A t \in Tiles : lastUse[t] < now) /\ UsedInOrder(cache, lastUse)
  BY SizesAssumption DEF LruInv, CacheInv
<1>1. DOMAIN Content(cache) = cache.lookup
  BY DEF Content
<1>2. ASSUME NEW t \in Tiles, Find(t) PROVE Lru!Lookup(t)
  <2>1. cache' = Get(cache, t) /\ maxBytes' = maxBytes /\ now' = now + 1
        /\ lastUse' = IF t \in cache.lookup THEN [lastUse EXCEPT ![t] = now] ELSE lastUse
    BY <1>2 DEF Find, Cached
  <2>2. Content(cache') = Content(cache)
    BY <1>0, <2>1, ContentFound
  <2> QED
    BY <1>1, <2>1, <2>2 DEF Lru!Lookup, Content
<1>3. ASSUME NEW t \in Tiles, NEW size \in Sizes, Store(t, size) PROVE Lru!Store(t, size)
  <2> DEFINE s == Stored(cache, t, size)
             u == [lastUse EXCEPT ![t] = now]
             f == WithTile(Content(cache), t, size)
  <2>1. cache' = EvictIfNeeded(s, maxBytes) /\ lastUse' = u /\ now' = now + 1 /\ maxBytes' = maxBytes
    BY <1>3, PutEvictsStored DEF Store
  <2>2. Listed(s) /\ Counted(s) /\ \E src : Promoted(cache, s, t, src)
    BY <1>0, StoredKeeps
  <2>3. Content(s) = f
    BY <1>0, ContentStored
  <2>4. UsedInOrder(s, u)
    <3> HIDE DEF s
    <3>1. PICK src : Promoted(cache, s, t, src)
      BY <2>2
    <3> QED
      BY <1>0, <3>1, PromotedInOrder
  <2>5. u \in [Tiles -> Nat]
    BY <1>0
  <2>6. Content(EvictIfNeeded(s, maxBytes)) = Lru!Keep(f, u, maxBytes)
    <3> HIDE DEF s, u, f
    <3> QED
      BY <1>0, <2>2, <2>3, <2>4, <2>5, KeptIsKeep
  <2>7. Content(cache') = Lru!Keep(f, lastUse', maxBytes)
    BY <2>1, <2>6
  <2> QED
    BY <2>1, <2>7 DEF Lru!Store, Content, WithTile
<1>4. ASSUME NEW max \in Limits, SetMaxBytes(max) PROVE Lru!Limit(max)
  <2>1. cache' = EvictIfNeeded(cache, max) /\ lastUse' = lastUse /\ now' = now /\ maxBytes' = max /\ max \in Nat
    BY <1>4, SizesAssumption DEF SetMaxBytes
  <2>2. Content(cache') = Lru!Keep(Content(cache), lastUse, max)
    BY <1>0, <2>1, KeptIsKeep
  <2> QED
    BY <2>1, <2>2 DEF Lru!Limit, Content
<1>5. CASE Clear
  <2>1. cache' = EmptyCache /\ maxBytes' = maxBytes /\ lastUse' = lastUse /\ now' = now
    BY <1>5 DEF Clear
  <2>2. cache'.lookup = {}
    BY <2>1, EmptyIsListed
  <2>3. Content(cache') = [c \in {} |-> 0]
    BY <2>2 DEF Content
  <2>4. Lru!Clear
    BY <2>1, <2>3 DEF Lru!Clear, Content
  <2> QED
    BY <2>4 DEF Lru!Next
<1>6. CASE UNCHANGED vars
  BY <1>6 DEF vars, Content
<1> QED
  BY <1>2, <1>3, <1>4, <1>5, <1>6 DEF Next, Lru!Next

(* get(), put(), setMaxBytes() and clear() implement the LRU cache of      *)
(* LruCache: after each the cache holds exactly the most recently used     *)
(* tiles that fit its limit together, with the size each was stored with.  *)
THEOREM ImplementsLru == Spec => IsLru
<1>1. Init => Lru!Init
  <2> SUFFICES ASSUME Init PROVE Lru!Init
    OBVIOUS
  <2>1. cache.lookup = {}
    BY EmptyIsListed DEF Init
  <2>2. [c \in cache.lookup |-> SizeOf(cache, c)] = [c \in {} |-> 0]
    BY <2>1
  <2> QED
    BY <2>2 DEF Init, Lru!Init
<1>2. LruInv /\ [Next]_vars
        => [Lru!Next]_<<[c \in cache.lookup |-> SizeOf(cache, c)], lastUse, maxBytes, now>>
  BY LruStep DEF Content
<1>3. Spec => []LruInv
  BY LruInvHolds
<1> QED
  BY <1>1, <1>2, <1>3, PTL DEF Spec, IsLru, Lru!Spec
=============================================================================
