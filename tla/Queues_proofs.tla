---------------------------- MODULE Queues_proofs ---------------------------
(***************************************************************************)
(* What the operators of Queues return, for every queue.                   *)
(***************************************************************************)
EXTENDS Queues, WellFoundedInduction, TLAPS

(* The definition, element by element. *)
Within(q, from, upto) == \A i \in 1 .. Len(q) : q[i] # 0 => from <= q[i] /\ q[i] <= upto
Complete(q, from, upto) ==
  \A n \in from .. upto : \E i \in 1 .. Len(q) : q[i] # 0 /\ q[i] = n
Ordered(q) == \A i, j \in 1 .. Len(q) : q[i] # 0 /\ q[j] # 0 /\ i < j => q[i] < q[j]

LEMMA NumberedMeans ==
  ASSUME NEW q \in Seq(Nat), NEW from \in Nat, NEW upto \in Nat
  PROVE  Numbered(q, from, upto) <=>
           /\ from <= upto + 1
           /\ Within(q, from, upto) /\ Complete(q, from, upto) /\ Ordered(q)
  <1> DEFINE at == {i \in DOMAIN q : q[i] # 0}
  <1>1. DOMAIN q = 1 .. Len(q) /\ \A i \in 1 .. Len(q) : q[i] \in Nat
    OBVIOUS
  <1>2. {q[i] : i \in at} \subseteq from .. upto <=> Within(q, from, upto)
    BY <1>1 DEF Within
  <1>3. from .. upto \subseteq {q[i] : i \in at} <=> Complete(q, from, upto)
    BY <1>1 DEF Complete
  <1>4. (\A i, j \in at : i < j => q[i] < q[j]) <=> Ordered(q)
    BY <1>1 DEF Ordered
  <1>5. {q[i] : i \in at} = from .. upto <=>
          Within(q, from, upto) /\ Complete(q, from, upto)
    BY <1>2, <1>3
  <1> QED  BY <1>4, <1>5 DEF Numbered

(* An empty queue holds no number. *)
LEMMA NumberedEmpty ==
  ASSUME NEW n \in Nat
  PROVE  Numbered(<<>>, n + 1, n)
  BY DEF Numbered

(* What joins at the end: the next number, or something else. *)
LEMMA NumberedPush ==
  ASSUME NEW q \in Seq(Nat), NEW from \in Nat \ {0}, NEW upto \in Nat,
         Numbered(q, from, upto)
  PROVE  Numbered(Append(q, upto + 1), from, upto + 1)
  <1> DEFINE r == Append(q, upto + 1)
  <1>1. /\ r \in Seq(Nat) /\ Len(r) = Len(q) + 1 /\ r[Len(q) + 1] = upto + 1
        /\ \A i \in 1 .. Len(q) : r[i] = q[i] /\ q[i] \in Nat
        /\ Len(q) \in Nat
    OBVIOUS
  <1> HIDE DEF r
  <1>2. \A i \in 1 .. Len(r) : i \in 1 .. Len(q) \/ i = Len(q) + 1
    BY <1>1
  <1>3. from <= upto + 1 /\ Within(q, from, upto) /\ Complete(q, from, upto) /\ Ordered(q)
    BY NumberedMeans
  <1>4. Within(r, from, upto + 1)
    <2> SUFFICES ASSUME NEW i \in 1 .. Len(r), r[i] # 0
                 PROVE  from <= r[i] /\ r[i] <= upto + 1
      BY DEF Within
    <2>1. CASE i \in 1 .. Len(q)
      <3>1. r[i] = q[i] /\ q[i] \in Nat
        BY <1>1, <2>1
      <3>2. from <= q[i] /\ q[i] <= upto
        BY <1>3, <2>1, <3>1 DEF Within
      <3> QED  BY <3>1, <3>2
    <2>2. CASE i = Len(q) + 1
      <3>1. r[i] = upto + 1
        BY <1>1, <2>2
      <3> QED  BY <1>3, <3>1
    <2> QED  BY <1>2, <2>1, <2>2
  <1>5. Complete(r, from, upto + 1)
    <2> SUFFICES ASSUME NEW n \in from .. upto + 1
                 PROVE  \E i \in 1 .. Len(r) : r[i] # 0 /\ r[i] = n
      BY DEF Complete
    <2>1. CASE n = upto + 1
      <3>1. Len(q) + 1 \in 1 .. Len(r) /\ r[Len(q) + 1] # 0
        BY <1>1
      <3> QED  BY <1>1, <2>1, <3>1
    <2>2. CASE n \in from .. upto
      <3>1. PICK i \in 1 .. Len(q) : q[i] # 0 /\ q[i] = n
        BY <1>3, <2>2 DEF Complete
      <3>2. i \in 1 .. Len(r)
        BY <1>1
      <3> QED  BY <1>1, <3>1, <3>2
    <2> QED  BY <2>1, <2>2
  <1>6. Ordered(r)
    <2> SUFFICES ASSUME NEW i \in 1 .. Len(r), NEW j \in 1 .. Len(r), r[i] # 0, r[j] # 0, i < j
                 PROVE  r[i] < r[j]
      BY DEF Ordered
    <2>1. i \in 1 .. Len(q)
      BY <1>1, <1>2
    <2>2. r[i] = q[i] /\ q[i] \in Nat
      BY <1>1, <2>1
    <2>3. CASE j = Len(q) + 1
      <3>1. q[i] <= upto
        BY <1>3, <2>1, <2>2 DEF Within
      <3> QED  BY <1>1, <2>2, <2>3, <3>1
    <2>4. CASE j \in 1 .. Len(q)
      <3>1. r[j] = q[j]
        BY <1>1, <2>4
      <3> QED  BY <1>3, <2>1, <2>2, <2>4, <3>1 DEF Ordered
    <2> QED  BY <1>2, <2>3, <2>4
  <1>7. Numbered(r, from, upto + 1)
    BY <1>1, <1>3, <1>4, <1>5, <1>6, NumberedMeans, upto + 1 \in Nat
  <1> QED  BY <1>7 DEF r

LEMMA NumberedPushOther ==
  ASSUME NEW q \in Seq(Nat), NEW from \in Nat, NEW upto \in Nat, Numbered(q, from, upto)
  PROVE  Numbered(Append(q, 0), from, upto)
  <1> DEFINE r == Append(q, 0)
  <1>1. /\ r \in Seq(Nat) /\ Len(r) = Len(q) + 1 /\ r[Len(q) + 1] = 0
        /\ \A i \in 1 .. Len(q) : r[i] = q[i] /\ i \in 1 .. Len(r)
    OBVIOUS
  <1> HIDE DEF r
  <1>2. \A i \in 1 .. Len(r) : r[i] # 0 => i \in 1 .. Len(q)
    BY <1>1
  <1>3. from <= upto + 1 /\ Within(q, from, upto) /\ Complete(q, from, upto) /\ Ordered(q)
    BY NumberedMeans
  <1>4. Within(r, from, upto) /\ Ordered(r)
    BY <1>1, <1>2, <1>3 DEF Within, Ordered
  <1>5. Complete(r, from, upto)
    BY <1>1, <1>3 DEF Complete
  <1>6. Numbered(r, from, upto)
    BY <1>1, <1>3, <1>4, <1>5, NumberedMeans
  <1> QED  BY <1>6 DEF r

(* What leaves at the head: the first number, or something else. *)
LEMMA NumberedPop ==
  ASSUME NEW q \in Seq(Nat), NEW from \in Nat \ {0}, NEW upto \in Nat,
         Numbered(q, from, upto), q # <<>>, Head(q) # 0
  PROVE  Head(q) = from /\ from <= upto /\ Numbered(Tail(q), from + 1, upto)
  <1> DEFINE r == Tail(q)
  <1>1. /\ r \in Seq(Nat) /\ Len(q) = Len(r) + 1 /\ Head(q) = q[1] /\ 1 \in 1 .. Len(q)
        /\ \A i \in 1 .. Len(r) : i + 1 \in 1 .. Len(q) /\ r[i] = q[i + 1]
        /\ \A i \in 1 .. Len(q) : q[i] \in Nat
        /\ Len(r) \in Nat
    OBVIOUS
  <1> HIDE DEF r
  <1>2. from <= upto + 1 /\ Within(q, from, upto) /\ Complete(q, from, upto) /\ Ordered(q)
    BY NumberedMeans
  <1>3. from <= q[1] /\ q[1] <= upto
    BY <1>1, <1>2 DEF Within
  <1>4. q[1] = from
    <2>1. from \in from .. upto
      BY <1>1, <1>3
    <2>2. PICK i \in 1 .. Len(q) : q[i] # 0 /\ q[i] = from
      BY <1>2, <2>1 DEF Complete
    <2>3. i # 1 => q[1] < q[i]
      BY <1>1, <1>2, <2>2 DEF Ordered
    <2> QED  BY <1>1, <1>3, <2>2, <2>3
  <1>5. Within(r, from + 1, upto)
    <2> SUFFICES ASSUME NEW i \in 1 .. Len(r), r[i] # 0
                 PROVE  from + 1 <= r[i] /\ r[i] <= upto
      BY DEF Within
    <2>1. i + 1 \in 1 .. Len(q) /\ q[i + 1] # 0 /\ 1 < i + 1
      BY <1>1
    <2>2. q[1] < q[i + 1] /\ q[i + 1] <= upto
      BY <1>1, <1>2, <2>1 DEF Within, Ordered
    <2> QED  BY <1>1, <1>4, <2>1, <2>2
  <1>6. Complete(r, from + 1, upto)
    <2> SUFFICES ASSUME NEW n \in from + 1 .. upto
                 PROVE  \E i \in 1 .. Len(r) : r[i] # 0 /\ r[i] = n
      BY DEF Complete
    <2>1. n \in from .. upto /\ n # from
      OBVIOUS
    <2>2. PICK i \in 1 .. Len(q) : q[i] # 0 /\ q[i] = n
      BY <1>2, <2>1 DEF Complete
    <2>3. i - 1 \in 1 .. Len(r) /\ i = (i - 1) + 1
      BY <1>1, <1>4, <2>1, <2>2
    <2> QED  BY <1>1, <2>2, <2>3
  <1>7. Ordered(r)
    <2> SUFFICES ASSUME NEW i \in 1 .. Len(r), NEW j \in 1 .. Len(r), r[i] # 0, r[j] # 0, i < j
                 PROVE  r[i] < r[j]
      BY DEF Ordered
    <2>1. i + 1 \in 1 .. Len(q) /\ j + 1 \in 1 .. Len(q) /\ i + 1 < j + 1
      BY <1>1
    <2> QED  BY <1>1, <1>2, <2>1 DEF Ordered
  <1>8. Numbered(r, from + 1, upto)
    BY <1>1, <1>3, <1>4, <1>5, <1>6, <1>7, NumberedMeans, from + 1 \in Nat
  <1> QED  BY <1>1, <1>3, <1>4, <1>8 DEF r

LEMMA NumberedPopOther ==
  ASSUME NEW q \in Seq(Nat), NEW from \in Nat, NEW upto \in Nat,
         Numbered(q, from, upto), q # <<>>, Head(q) = 0
  PROVE  Numbered(Tail(q), from, upto)
  <1> DEFINE r == Tail(q)
  <1>1. /\ r \in Seq(Nat) /\ Len(q) = Len(r) + 1 /\ q[1] = 0
        /\ \A i \in 1 .. Len(r) : i + 1 \in 1 .. Len(q) /\ r[i] = q[i + 1]
        /\ Len(r) \in Nat
    OBVIOUS
  <1> HIDE DEF r
  <1>2. \A i \in 1 .. Len(q) : q[i] # 0 => i - 1 \in 1 .. Len(r) /\ r[i - 1] = q[i]
    <2> SUFFICES ASSUME NEW i \in 1 .. Len(q), q[i] # 0
                 PROVE  i - 1 \in 1 .. Len(r) /\ r[i - 1] = q[i]
      OBVIOUS
    <2>1. i # 1
      BY <1>1
    <2>2. i - 1 \in 1 .. Len(r) /\ (i - 1) + 1 = i
      BY <1>1, <2>1
    <2> QED  BY <1>1, <2>2
  <1>3. from <= upto + 1 /\ Within(q, from, upto) /\ Complete(q, from, upto) /\ Ordered(q)
    BY NumberedMeans
  <1>4. Within(r, from, upto)
    BY <1>1, <1>3 DEF Within
  <1>5. Complete(r, from, upto)
    BY <1>2, <1>3 DEF Complete
  <1>6. Ordered(r)
    <2> SUFFICES ASSUME NEW i \in 1 .. Len(r), NEW j \in 1 .. Len(r), r[i] # 0, r[j] # 0, i < j
                 PROVE  r[i] < r[j]
      BY DEF Ordered
    <2>1. i + 1 \in 1 .. Len(q) /\ j + 1 \in 1 .. Len(q) /\ i + 1 < j + 1
      BY <1>1
    <2> QED  BY <1>1, <1>3, <2>1 DEF Ordered
  <1>7. Numbered(r, from, upto)
    BY <1>1, <1>3, <1>4, <1>5, <1>6, NumberedMeans
  <1> QED  BY <1>7 DEF r

-----------------------------------------------------------------------------
(* A set of numbers that has a member has a least one.                     *)
LEMMA LeastOf ==
  ASSUME NEW T \in SUBSET Nat, T # {}
  PROVE  \E n \in T : \A m \in T : n <= m
  <1>1. PICK n \in T : \A m \in T : ~(<<m, n>> \in OpToRel(<, Nat))
    BY WFMin, NatLessThanWellFounded
  <1>2. \A m \in T : ~(m < n)
    BY <1>1 DEF OpToRel
  <1> QED  BY <1>2

(* The function in the definition of Only exists.                          *)
KeptUpTo(queue, S, n, kept) ==
  kept = [m \in 0 .. n |->
            IF m = 0 THEN <<>>
              ELSE IF queue[m] \in S THEN Append(kept[m - 1], queue[m]) ELSE kept[m - 1]]

LEMMA KeptExists ==
  ASSUME NEW q, NEW S, NEW len \in Nat
  PROVE  \E kept : KeptUpTo(q, S, len, kept)
  <1> DEFINE Bad == {n \in Nat : \A kept : ~KeptUpTo(q, S, n, kept)}
  <1>1. SUFFICES ASSUME Bad # {} PROVE FALSE
    OBVIOUS
  <1>2. PICK n \in Bad : \A m \in Bad : n <= m
    BY <1>1, LeastOf
  <1>3. n # 0
    <2>1. KeptUpTo(q, S, 0, [m \in 0 .. 0 |-> <<>>])
      BY DEF KeptUpTo
    <2> QED  BY <1>2, <2>1
  <1>4. n - 1 \in Nat /\ n - 1 \notin Bad
    BY <1>2, <1>3
  <1>5. PICK f : KeptUpTo(q, S, n - 1, f)
    BY <1>4
  <1> DEFINE g == [m \in 0 .. n |->
                     IF m = n THEN IF q[n] \in S THEN Append(f[n - 1], q[n]) ELSE f[n - 1]
                       ELSE f[m]]
  <1>6. \A m \in 0 .. n - 1 : g[m] = f[m]
    BY <1>2
  <1>7. KeptUpTo(q, S, n, g)
    <2>1. \A m \in 0 .. n : m # n => m \in 0 .. n - 1 /\ (m # 0 => m - 1 \in 0 .. n - 1)
      BY <1>2
    <2>2. n \in 0 .. n /\ n - 1 \in 0 .. n - 1
      BY <1>2, <1>3, <1>4
    <2>3. g[n] = IF q[n] \in S THEN Append(g[n - 1], q[n]) ELSE g[n - 1]
      BY <1>6, <2>2
    <2>4. \A m \in 0 .. n - 1 :
            f[m] = IF m = 0 THEN <<>>
                     ELSE IF q[m] \in S THEN Append(f[m - 1], q[m]) ELSE f[m - 1]
      BY <1>5 DEF KeptUpTo
    <2>5. \A m \in 0 .. n - 1 :
            g[m] = IF m = 0 THEN <<>>
                     ELSE IF q[m] \in S THEN Append(g[m - 1], q[m]) ELSE g[m - 1]
      <3> TAKE m \in 0 .. n - 1
      <3>1. m \in 0 .. n /\ m # n
        BY <1>2
      <3> QED  BY <1>6, <2>1, <2>4, <3>1
    <2> HIDE DEF g
    <2>6. \A m \in 0 .. n :
            g[m] = IF m = 0 THEN <<>>
                     ELSE IF q[m] \in S THEN Append(g[m - 1], q[m]) ELSE g[m - 1]
      BY <1>3, <2>1, <2>3, <2>5
    <2>7. g = [m \in 0 .. n |-> g[m]]
      BY DEF g
    <2> QED  BY <2>6, <2>7 DEF KeptUpTo
  <1> QED  BY <1>2, <1>7

(* Only keeps elements of the queue that are in S, and no more of them     *)
(* than the queue has.                                                     *)
LEMMA OnlyKeeps ==
  ASSUME NEW T, NEW q \in Seq(T), NEW S
  PROVE  /\ Only(q, S) \in Seq(T \intersect S) /\ Len(Only(q, S)) <= Len(q)
         /\ Only(q, S) \in Seq(T)
  <1> DEFINE kept == CHOOSE kept : KeptUpTo(q, S, Len(q), kept)
  <1>1. KeptUpTo(q, S, Len(q), kept)
    BY KeptExists, Len(q) \in Nat
  <1>2. Only(q, S) = kept[Len(q)]
    BY DEF Only, KeptUpTo
  <1> HIDE DEF kept
  <1>3. \A n \in 0 .. Len(q) :
          kept[n] = IF n = 0 THEN <<>>
                      ELSE IF q[n] \in S THEN Append(kept[n - 1], q[n]) ELSE kept[n - 1]
    BY <1>1 DEF KeptUpTo
  <1> DEFINE Bad == {n \in 0 .. Len(q) :
                       ~(kept[n] \in Seq(T \intersect S) /\ Len(kept[n]) <= n)}
  <1>4. Bad = {}
    <2>1. SUFFICES ASSUME Bad # {} PROVE FALSE
      OBVIOUS
    <2>2. PICK n \in Bad : \A m \in Bad : n <= m
      BY <2>1, LeastOf, Bad \in SUBSET Nat
    <2>3. n # 0
      <3>1. kept[0] = <<>>
        BY <1>3
      <3>2. <<>> \in Seq(T \intersect S) /\ Len(<<>>) <= 0
        OBVIOUS
      <3> QED  BY <2>2, <3>1, <3>2
    <2>4. n \in 1 .. Len(q) /\ n - 1 \in 0 .. Len(q) /\ n - 1 \notin Bad
      BY <2>2, <2>3
    <2>5. kept[n - 1] \in Seq(T \intersect S) /\ Len(kept[n - 1]) <= n - 1 /\ q[n] \in T
      BY <2>4
    <2>6. kept[n] = IF q[n] \in S THEN Append(kept[n - 1], q[n]) ELSE kept[n - 1]
      BY <1>3, <2>2, <2>3
    <2>7. kept[n] \in Seq(T \intersect S) /\ Len(kept[n]) <= n
      BY <2>4, <2>5, <2>6
    <2> QED  BY <2>2, <2>7
  <1>5. Len(q) \in 0 .. Len(q)
    OBVIOUS
  <1>6. \A r \in Seq(T \intersect S) : r \in Seq(T)
    OBVIOUS
  <1> QED  BY <1>2, <1>4, <1>5, <1>6
=============================================================================
