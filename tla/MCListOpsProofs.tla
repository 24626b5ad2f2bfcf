-------------------------- MODULE MCListOpsProofs --------------------------
(***************************************************************************)
(* The comparisons of MCListOps for every list and items vector of         *)
(* integers and every position, whatever the bounds of the run: each       *)
(* operation of ListOps is what its reference definition says.  The lemmas *)
(* relate the reference definitions, ItemsAt and Copies, to the way the    *)
(* code cuts a list up.                                                    *)
(***************************************************************************)
EXTENDS MCListOps, ListOpsProofs

-----------------------------------------------------------------------------
(* The items at a run of positions, and at all the others. *)

(* A function that follows the recursion of ItemsAt ends in ItemsAt. *)
LEMMA ItemsAtFollowed ==
  ASSUME NEW s \in Seq(Int), NEW P, NEW g, g[0] = <<>>,
         \A k \in 1..Len(s) : g[k] = IF k \in P THEN Append(g[k - 1], s[k]) ELSE g[k - 1]
  PROVE  ItemsAt(s, P) = g[Len(s)]
<1> DEFINE n == Len(s)
<1>1. n \in Nat
  BY LenProperties
<1>2. PICK f \in [0..n -> Seq(Int)] :
           /\ f[0] = <<>>
           /\ \A k \in 1..n : f[k] = IF k \in P THEN Append(f[k - 1], s[k]) ELSE f[k - 1]
           /\ ItemsAt(s, P) = f[n]
  BY ItemsAtRecursion
<1>3. GoOnAlike(f, g, n)
  BY <1>2 DEF GoOnAlike
<1> HIDE DEF n
<1>4. \A k \in 0..n : f[k] = g[k]
  BY <1>1, <1>3, RecursionUnique
<1>5. QED
  BY <1>1, <1>2, <1>4 DEF n

(* No positions, no items. *)
LEMMA ItemsAtNone ==
  ASSUME NEW s \in Seq(Int), NEW P, \A p \in 1..Len(s) : p \notin P
  PROVE  ItemsAt(s, P) = <<>>
<1> DEFINE g == [k \in 0..Len(s) |-> <<>>]
<1>1. Len(s) \in Nat
  BY LenProperties
<1>2. g[0] = <<>> /\ \A k \in 1..Len(s) : g[k] = g[k - 1]
  BY <1>1
<1>3. g[Len(s)] = <<>>
  BY <1>1
<1> HIDE DEF g
<1>4. \A k \in 1..Len(s) : g[k] = IF k \in P THEN Append(g[k - 1], s[k]) ELSE g[k - 1]
  BY <1>2
<1>5. ItemsAt(s, P) = g[Len(s)]
  BY <1>2, <1>4, ItemsAtFollowed
<1>6. QED
  BY <1>3, <1>5

(* A sub-sequence grows by its last item. *)
LEMMA SubSeqGrows ==
  ASSUME NEW s \in Seq(Int), NEW m \in 1..Len(s), NEW k \in m..Len(s)
  PROVE  SubSeq(s, m, k) = Append(SubSeq(s, m, k - 1), s[k])
<1>1. Len(s) \in Nat /\ k \in 1..Len(s)
  BY LenProperties
<1>2. m \in 1..(Len(s) + 1) /\ k - 1 \in 0..Len(s)
  BY <1>1
<1> DEFINE r == SubSeq(s, m, k - 1)
<1>3. r \in Seq(Int) /\ s[k] \in Int
  BY <1>1, <1>2, SubSeqKeeps, ElementOfSeq
<1>4. SubSeq(s, m, k) = r \o <<s[k]>>
  BY SubSeqRecursiveSecond
<1> HIDE DEF r
<1>5. Append(r, s[k]) = r \o <<s[k]>>
  BY <1>3, AppendIsConcat
<1>6. QED
  BY <1>4, <1>5 DEF r

(* An append to the second part is one to the whole. *)
LEMMA ConcatAppend ==
  ASSUME NEW s \in Seq(Int), NEW t \in Seq(Int), NEW e \in Int
  PROVE  s \o Append(t, e) = Append(s \o t, e)
<1> DEFINE one == <<e>>
           st == s \o t
<1>1. one \in Seq(Int) /\ st \in Seq(Int)
  BY ConcatProperties
<1>2. Append(t, e) = t \o one
  BY AppendIsConcat
<1>3. st \o one = s \o (t \o one)
  <2> HIDE DEF one
  <2>1. QED
    BY <1>1, ConcatAssociative
<1>4. Append(st, e) = st \o one
  <2> HIDE DEF st
  <2>1. QED
    BY <1>1, AppendIsConcat
<1>5. QED
  BY <1>2, <1>3, <1>4

(* The items at a run of positions are the sub-sequence there. *)
LEMMA ItemsAtRun ==
  ASSUME NEW s \in Seq(Int), NEW b \in 0..Len(s), NEW l \in 0..Len(s), NEW P,
         \A p \in 1..Len(s) : p \in P <=> p \in (b + 1)..l
  PROVE  ItemsAt(s, P) = SubSeq(s, b + 1, l)
<1>1. Len(s) \in Nat /\ b \in Nat /\ l \in Nat /\ b <= Len(s) /\ l <= Len(s)
  BY LenProperties
<1>2. CASE l <= b
  <2>1. ItemsAt(s, P) = <<>>
    <3>1. \A p \in 1..Len(s) : p \notin P
      BY <1>1, <1>2
    <3>2. QED
      BY <3>1, ItemsAtNone
  <2>2. SubSeq(s, b + 1, l) = <<>>
    BY <1>1, <1>2, SubSeqEmpty
  <2>3. QED
    BY <2>1, <2>2
<1>3. CASE b < l
  <2> DEFINE g == [k \in 0..Len(s) |-> IF k <= b THEN <<>>
                                       ELSE SubSeq(s, b + 1, IF k <= l THEN k ELSE l)]
  <2>1. g[0] = <<>>
    BY <1>1
  <2>2. ASSUME NEW k \in 1..Len(s)
        PROVE  g[k] = IF k \in P THEN Append(g[k - 1], s[k]) ELSE g[k - 1]
    <3>1. k \in 0..Len(s) /\ k - 1 \in 0..Len(s) /\ k \in Int
      BY <1>1
    <3>2. CASE k <= b
      <4>1. k \notin P
        BY <1>1, <3>2
      <4>2. g[k] = <<>> /\ g[k - 1] = <<>>
        BY <1>1, <3>1, <3>2
      <4>3. QED
        BY <4>1, <4>2
    <3>3. CASE b < k /\ k <= l
      <4>1. k \in P
        BY <1>1, <3>3
      <4>2. g[k] = SubSeq(s, b + 1, k)
        BY <1>1, <3>1, <3>3
      <4>3. g[k - 1] = SubSeq(s, b + 1, k - 1)
        <5>1. CASE k - 1 <= b
          <6>1. SubSeq(s, b + 1, k - 1) = <<>>
            BY <1>1, <3>1, <5>1, SubSeqEmpty
          <6>2. QED
            BY <3>1, <5>1, <6>1
        <5>2. CASE b < k - 1
          BY <1>1, <3>1, <3>3, <5>2
        <5>3. QED
          BY <1>1, <3>1, <5>1, <5>2
      <4> HIDE DEF g
      <4>4. b + 1 \in 1..Len(s) /\ k \in (b + 1)..Len(s)
        BY <1>1, <3>3
      <4>5. SubSeq(s, b + 1, k) = Append(SubSeq(s, b + 1, k - 1), s[k])
        BY <4>4, SubSeqGrows
      <4>6. QED
        BY <4>1, <4>2, <4>3, <4>5
    <3>4. CASE l < k
      <4>1. k \notin P
        BY <1>1, <3>4
      <4>2. g[k] = SubSeq(s, b + 1, l)
        BY <1>1, <1>3, <3>1, <3>4
      <4>3. g[k - 1] = SubSeq(s, b + 1, l)
        BY <1>1, <1>3, <3>1, <3>4
      <4>4. QED
        BY <4>1, <4>2, <4>3
    <3>5. QED
      BY <1>1, <3>1, <3>2, <3>3, <3>4
  <2>3. g[Len(s)] = SubSeq(s, b + 1, l)
    BY <1>1, <1>3
  <2> HIDE DEF g
  <2>4. ItemsAt(s, P) = g[Len(s)]
    BY <2>1, <2>2, ItemsAtFollowed
  <2>5. QED
    BY <2>3, <2>4
<1>4. QED
  BY <1>1, <1>2, <1>3

(* The items at all the other positions are what std::list::erase leaves. *)
LEMMA ItemsAtRest ==
  ASSUME NEW s \in Seq(Int), NEW b \in 0..Len(s), NEW l \in b..Len(s), NEW P,
         \A p \in 1..Len(s) : p \in P <=> ~(p \in (b + 1)..l)
  PROVE  ItemsAt(s, P) = Cut(s, b, l)
<1> DEFINE n == Len(s)
           front == SubSeq(s, 1, b)
           g == [k \in 0..n |-> IF k <= b THEN SubSeq(s, 1, k)
                                ELSE IF k <= l THEN front ELSE front \o SubSeq(s, l + 1, k)]
<1>1. n \in Nat /\ b \in Nat /\ l \in Nat /\ b <= l /\ l <= n
  BY LenProperties
<1>2. front \in Seq(Int)
  <2>1. 1 \in 1..(Len(s) + 1)
    BY <1>1
  <2>2. QED
    BY <2>1, SubSeqKeeps
<1>3. front \o <<>> = front
  BY <1>2, ConcatEmptySeq
<1>4. g[0] = <<>>
  BY <1>1, SubSeqEmpty
<1>5. g[b] = front /\ g[l] = front
  BY <1>1
<1>6. ASSUME NEW k \in l..n PROVE g[k] = front \o SubSeq(s, l + 1, k)
  <2>1. CASE k = l
    <3>1. SubSeq(s, l + 1, k) = <<>>
      BY <1>1, <2>1, SubSeqEmpty
    <3> HIDE DEF g, front
    <3>2. QED
      BY <1>3, <1>5, <2>1, <3>1
  <2>2. CASE k > l
    <3>1. k \in 0..n /\ ~(k <= b) /\ ~(k <= l)
      BY <1>1, <2>2
    <3> HIDE DEF front, n
    <3>2. QED
      BY <3>1
  <2>3. k = l \/ k > l
    BY <1>1
  <2>4. QED
    BY <2>1, <2>2, <2>3
<1>7. ASSUME NEW k \in 1..n
      PROVE  g[k] = IF k \in P THEN Append(g[k - 1], s[k]) ELSE g[k - 1]
  <2>1. k \in 0..n /\ k - 1 \in 0..n /\ k \in Int
    BY <1>1
  <2>2. CASE k <= b
    <3>1. k \in P
      BY <1>1, <2>2
    <3>2. g[k] = SubSeq(s, 1, k) /\ g[k - 1] = SubSeq(s, 1, k - 1)
      BY <1>1, <2>1, <2>2
    <3>3. 1 \in 1..Len(s) /\ k \in 1..Len(s)
      BY <1>1
    <3>4. SubSeq(s, 1, k) = Append(SubSeq(s, 1, k - 1), s[k])
      BY <3>3, SubSeqGrows
    <3> HIDE DEF g
    <3>5. QED
      BY <3>1, <3>2, <3>4
  <2>3. CASE b < k /\ k <= l
    <3>1. k \notin P
      BY <1>1, <2>3
    <3>2. g[k] = front
      BY <1>1, <2>1, <2>3
    <3>3. g[k - 1] = front
      <4>1. CASE k - 1 = b
        BY <1>5, <4>1
      <4>2. CASE k - 1 # b
        <5>1. ~(k - 1 <= b) /\ k - 1 <= l
          BY <1>1, <2>1, <2>3, <4>2
        <5> HIDE DEF front, n
        <5>2. QED
          BY <2>1, <5>1
      <4>3. QED
        BY <4>1, <4>2
    <3> HIDE DEF g
    <3>4. QED
      BY <3>1, <3>2, <3>3
  <2>4. CASE l < k
    <3>1. k \in P
      BY <1>1, <2>4
    <3>2. k \in l..n /\ k - 1 \in l..n
      BY <1>1, <2>1, <2>4
    <3> HIDE DEF g
    <3>3. g[k] = front \o SubSeq(s, l + 1, k) /\ g[k - 1] = front \o SubSeq(s, l + 1, k - 1)
      BY <1>6, <3>2
    <3>4. l + 1 \in 1..Len(s) /\ k \in (l + 1)..Len(s) /\ l + 1 \in 1..(Len(s) + 1) /\ k - 1 \in 0..Len(s)
      BY <1>1, <2>1, <2>4
    <3> DEFINE r == SubSeq(s, l + 1, k - 1)
    <3>5. SubSeq(s, l + 1, k) = Append(r, s[k])
      BY <3>4, SubSeqGrows
    <3>6. r \in Seq(Int) /\ s[k] \in Int
      BY <3>4, SubSeqKeeps, ElementOfSeq
    <3> HIDE DEF r, front
    <3>7. front \o Append(r, s[k]) = Append(front \o r, s[k])
      BY <1>2, <3>6, ConcatAppend
    <3>8. QED
      BY <3>1, <3>3, <3>5, <3>7 DEF r
  <2>5. QED
    BY <1>1, <2>1, <2>2, <2>3, <2>4
<1>8. g[n] = front \o SubSeq(s, l + 1, n)
  <2>1. n \in l..n
    BY <1>1
  <2> HIDE DEF g
  <2>2. QED
    BY <1>6, <2>1
<1> HIDE DEF g
<1>9. ItemsAt(s, P) = g[Len(s)]
  BY <1>4, <1>7, ItemsAtFollowed
<1>10. QED
  BY <1>8, <1>9 DEF Cut

-----------------------------------------------------------------------------
(* How many copies of a value a list holds. *)

(* The positions of a value among the first k that P admits. *)
Hits(s, P, val, k) == {p \in 1..k : p \in P /\ s[p] = val}

LEMMA HitsAreFinite ==
  ASSUME NEW s, NEW P, NEW val, NEW k \in Nat
  PROVE  IsFiniteSet(Hits(s, P, val, k)) /\ Cardinality(Hits(s, P, val, k)) \in Nat
<1>1. IsFiniteSet(1..k)
  BY FS_Interval
<1>2. Hits(s, P, val, k) \in SUBSET (1..k)
  BY DEF Hits
<1>3. IsFiniteSet(Hits(s, P, val, k))
  BY <1>1, <1>2, FS_Subset
<1>4. QED
  BY <1>3, FS_CardinalityType

(* One more position is one more hit, or none. *)
LEMMA HitsGrow ==
  ASSUME NEW s, NEW P, NEW val, NEW k \in Nat
  PROVE  Cardinality(Hits(s, P, val, k + 1)) =
           IF k + 1 \in P /\ s[k + 1] = val THEN Cardinality(Hits(s, P, val, k)) + 1
           ELSE Cardinality(Hits(s, P, val, k))
<1> DEFINE H == Hits(s, P, val, k)
           m == k + 1
<1>1. IsFiniteSet(H) /\ m \notin H
  <2>1. IsFiniteSet(H)
    BY HitsAreFinite
  <2>2. m \notin H
    BY DEF Hits
  <2>3. QED
    BY <2>1, <2>2
<1>2. CASE m \in P /\ s[m] = val
  <2>1. Hits(s, P, val, m) = H \cup {m}
    BY <1>2 DEF Hits
  <2> HIDE DEF H, m
  <2>2. Cardinality(H \cup {m}) = Cardinality(H) + 1
    BY <1>1, FS_AddElement
  <2>3. Cardinality(Hits(s, P, val, m)) =
          IF m \in P /\ s[m] = val THEN Cardinality(H) + 1 ELSE Cardinality(H)
    BY <1>2, <2>1, <2>2
  <2>4. QED
    BY <2>3 DEF H, m
<1>3. CASE ~(m \in P /\ s[m] = val)
  <2>1. Hits(s, P, val, m) = H
    BY <1>3 DEF Hits
  <2>2. QED
    BY <1>3, <2>1
<1>4. QED
  BY <1>2, <1>3

(* All positions admitted, the hits are the copies. *)
LEMMA CopiesAreHits ==
  ASSUME NEW s, NEW val, NEW P, \A p \in 1..Len(s) : p \in P
  PROVE  Copies(s, val) = Cardinality(Hits(s, P, val, Len(s)))
<1>1. Hits(s, P, val, Len(s)) = {p \in 1..Len(s) : s[p] = val}
  BY DEF Hits
<1>2. QED
  BY <1>1 DEF Copies

LEMMA CopiesAreCounted ==
  ASSUME NEW s \in Seq(Int), NEW val
  PROVE  Copies(s, val) \in Nat
<1>1. Len(s) \in Nat
  BY LenProperties
<1>2. Copies(s, val) = Cardinality(Hits(s, 1..Len(s), val, Len(s)))
  BY CopiesAreHits
<1>3. QED
  BY <1>1, <1>2, HitsAreFinite

(* One more item is one more copy, or none. *)
LEMMA CopiesAppend ==
  ASSUME NEW s \in Seq(Int), NEW e \in Int, NEW val
  PROVE  Copies(Append(s, e), val) = IF e = val THEN Copies(s, val) + 1 ELSE Copies(s, val)
<1> DEFINE t == Append(s, e)
           n == Len(s)
           P == 1..(n + 1)
<1>1. n \in Nat
  BY LenProperties
<1>2. Len(t) = n + 1 /\ t[n + 1] = e /\ \A p \in 1..n : t[p] = s[p]
  BY AppendProperties
<1> HIDE DEF t
<1>3. Copies(t, val) = Cardinality(Hits(t, P, val, n + 1))
  BY <1>2, CopiesAreHits
<1>4. Copies(s, val) = Cardinality(Hits(s, P, val, n))
  <2>1. \A p \in 1..Len(s) : p \in P
    BY <1>1
  <2> HIDE DEF P
  <2>2. QED
    BY <2>1, CopiesAreHits
<1>5. Hits(t, P, val, n) = Hits(s, P, val, n)
  BY <1>2 DEF Hits
<1>6. n + 1 \in P
  BY <1>1
<1> HIDE DEF n, P
<1>7. Cardinality(Hits(t, P, val, n + 1)) =
        IF n + 1 \in P /\ t[n + 1] = val THEN Cardinality(Hits(t, P, val, n)) + 1
        ELSE Cardinality(Hits(t, P, val, n))
  BY <1>1, HitsGrow
<1>8. Copies(t, val) = IF e = val THEN Copies(s, val) + 1 ELSE Copies(s, val)
  BY <1>2, <1>3, <1>4, <1>5, <1>6, <1>7
<1>9. QED
  BY <1>8 DEF t

(* The copies among the items at P are the hits in P. *)
LEMMA CopiesAt ==
  ASSUME NEW s \in Seq(Int), NEW P, NEW val
  PROVE  Copies(ItemsAt(s, P), val) = Cardinality(Hits(s, P, val, Len(s)))
<1> DEFINE n == Len(s)
<1>1. n \in Nat
  BY LenProperties
<1>2. PICK f \in [0..n -> Seq(Int)] :
           /\ f[0] = <<>>
           /\ \A k \in 1..n : f[k] = IF k \in P THEN Append(f[k - 1], s[k]) ELSE f[k - 1]
           /\ ItemsAt(s, P) = f[n]
  BY ItemsAtRecursion
<1> DEFINE Counted(k) == Copies(f[k], val) = Cardinality(Hits(s, P, val, k))
           S == {k \in 0..n : Counted(k)}
<1>3. Counted(0)
  <2>1. Hits(s, P, val, 0) = {} /\ {p \in 1..Len(<<>>) : <<>>[p] = val} = {}
    BY DEF Hits
  <2>2. QED
    BY <1>2, <2>1 DEF Copies
<1>4. ASSUME NEW k \in 0..(n - 1), Counted(k) PROVE Counted(k + 1)
  <2>1. k + 1 \in 1..n /\ (k + 1) - 1 = k /\ k \in 0..n /\ k \in Nat
    BY <1>1
  <2>2. f[k] \in Seq(Int) /\ s[k + 1] \in Int
    BY <1>2, <2>1, ElementOfSeq
  <2>3. f[k + 1] = IF k + 1 \in P THEN Append(f[k], s[k + 1]) ELSE f[k]
    <3> HIDE DEF n
    <3>1. f[k + 1] = IF k + 1 \in P THEN Append(f[(k + 1) - 1], s[k + 1]) ELSE f[(k + 1) - 1]
      BY <1>2, <2>1
    <3>2. QED
      BY <2>1, <3>1
  <2>4. Copies(Append(f[k], s[k + 1]), val) =
          IF s[k + 1] = val THEN Copies(f[k], val) + 1 ELSE Copies(f[k], val)
    BY <2>2, CopiesAppend
  <2>5. Cardinality(Hits(s, P, val, k + 1)) =
          IF k + 1 \in P /\ s[k + 1] = val THEN Cardinality(Hits(s, P, val, k)) + 1
          ELSE Cardinality(Hits(s, P, val, k))
    BY <2>1, HitsGrow
  <2>6. QED
    BY <1>4, <2>3, <2>4, <2>5
<1> HIDE DEF Counted
<1>5. 0 \in S /\ \A k \in 0..(n - 1) : k \in S => k + 1 \in S
  BY <1>1, <1>3, <1>4
<1> HIDE DEF S
<1>6. \A k \in 0..n : k \in S
  BY <1>1, <1>5, BoundedInduction
<1>7. Counted(n)
  BY <1>1, <1>6 DEF S
<1>8. QED
  BY <1>2, <1>7 DEF Counted

(* What is cut out and what is left share the copies between them. *)
LEMMA CopiesOfCut ==
  ASSUME NEW s \in Seq(Int), NEW b \in 0..Len(s), NEW l \in b..Len(s), NEW val
  PROVE  Copies(s, val) = Copies(Cut(s, b, l), val) + Copies(SubSeq(s, b + 1, l), val)
<1> DEFINE n == Len(s)
           In == (b + 1)..l
           Out == (1..n) \ In
           HI == Hits(s, In, val, n)
           HO == Hits(s, Out, val, n)
<1>1. n \in Nat /\ l \in 0..n
  BY LenProperties
<1>2. ItemsAt(s, In) = SubSeq(s, b + 1, l)
  <2>1. l \in 0..Len(s)
    BY <1>1
  <2>2. QED
    BY <2>1, ItemsAtRun
<1>3. ItemsAt(s, Out) = Cut(s, b, l)
  BY ItemsAtRest
<1> HIDE DEF In, Out
<1>4. Copies(SubSeq(s, b + 1, l), val) = Cardinality(HI) /\ Copies(Cut(s, b, l), val) = Cardinality(HO)
  <2>1. Copies(ItemsAt(s, In), val) = Cardinality(HI)
    BY CopiesAt
  <2>2. Copies(ItemsAt(s, Out), val) = Cardinality(HO)
    BY CopiesAt
  <2>3. QED
    BY <1>2, <1>3, <2>1, <2>2
<1>5. Copies(s, val) = Cardinality(HI \cup HO)
  <2>1. HI \cup HO = {p \in 1..Len(s) : s[p] = val}
    BY DEF Hits, Out
  <2>2. QED
    BY <2>1 DEF Copies
<1>6. HI \cap HO = {}
  BY DEF Hits, Out
<1>7. /\ IsFiniteSet(HI) /\ IsFiniteSet(HO)
      /\ Cardinality(HI) \in Nat /\ Cardinality(HO) \in Nat
  BY <1>1, HitsAreFinite
<1> HIDE DEF HI, HO
<1>8. Cardinality(HI \cup HO) = Cardinality(HI) + Cardinality(HO) - Cardinality(HI \cap HO)
  BY <1>7, FS_Union
<1>9. Cardinality(HI \cap HO) = 0
  BY <1>6, FS_EmptySet
<1>10. QED
  BY <1>4, <1>5, <1>7, <1>8, <1>9

(* Both parts of a list put together are found again in it. *)
LEMMA ConcatParts ==
  ASSUME NEW s \in Seq(Int), NEW t \in Seq(Int)
  PROVE  /\ SubSeq(s \o t, 1, Len(s)) = s
         /\ SubSeq(s \o t, Len(s) + 1, Len(s \o t)) = t
<1> DEFINE u == s \o t
           m == Len(s)
           n == Len(u)
           front == SubSeq(u, 1, m)
           b == m + 1
           rear == SubSeq(u, b, n)
<1>1. /\ u \in Seq(Int) /\ n = m + Len(t)
      /\ \A k \in 1..(m + Len(t)) : u[k] = IF k <= m THEN s[k] ELSE t[k - m]
  BY ConcatProperties
<1>2. m \in Nat /\ Len(t) \in Nat /\ m = Len(s) /\ n = Len(u) /\ b = m + 1
  BY LenProperties
<1> HIDE DEF u, m, n, b
<1>3. 1 \in 1..(Len(u) + 1) /\ m \in 0..Len(u) /\ b \in 1..(Len(u) + 1) /\ n \in 0..Len(u)
  BY <1>1, <1>2
<1>4. /\ front \in Seq(Int) /\ Len(front) = (IF 1 <= m THEN m - 1 + 1 ELSE 0)
      /\ \A k \in 1..(m - 1 + 1) : front[k] = u[1 + k - 1]
  BY <1>1, <1>3, SubSeqKeeps
<1>5. /\ rear \in Seq(Int) /\ Len(rear) = (IF b <= n THEN n - b + 1 ELSE 0)
      /\ \A k \in 1..(n - b + 1) : rear[k] = u[b + k - 1]
  BY <1>1, <1>3, SubSeqKeeps
<1> HIDE DEF front, rear
<1>6. front = s
  <2>1. Len(front) = Len(s) /\ m - 1 + 1 = Len(s)
    BY <1>2, <1>4
  <2>2. ASSUME NEW k \in 1..Len(s) PROVE front[k] = s[k]
    <3>1. 1 + k - 1 = k /\ k \in 1..(m + Len(t)) /\ k <= m
      BY <1>2
    <3>2. QED
      BY <1>1, <1>4, <2>1, <3>1
  <2>3. front \in Seq(Int) /\ Len(front) = Len(s) /\ \A k \in 1..Len(front) : front[k] = s[k]
    BY <1>4, <2>1, <2>2
  <2>4. QED
    BY <2>3, SeqEqual
<1>7. rear = t
  <2>1. Len(rear) = Len(t) /\ n - b + 1 = Len(t)
    BY <1>1, <1>2, <1>5
  <2>2. ASSUME NEW k \in 1..Len(t) PROVE rear[k] = t[k]
    <3> DEFINE j == b + k - 1
    <3>1. j \in 1..(m + Len(t)) /\ ~(j <= m) /\ j - m = k
      BY <1>2
    <3>2. rear[k] = u[j]
      BY <1>5, <2>1
    <3> HIDE DEF j
    <3>3. u[j] = t[j - m]
      BY <1>1, <3>1
    <3>4. QED
      BY <3>1, <3>2, <3>3
  <2>3. rear \in Seq(Int) /\ Len(rear) = Len(t) /\ \A k \in 1..Len(rear) : rear[k] = t[k]
    BY <1>5, <2>1, <2>2
  <2>4. QED
    BY <2>3, SeqEqual
<1>8. QED
  BY <1>6, <1>7 DEF u, m, n, b, front, rear

(* Two lists put together hold the copies of both. *)
LEMMA CopiesConcat ==
  ASSUME NEW s \in Seq(Int), NEW t \in Seq(Int), NEW val
  PROVE  Copies(s \o t, val) = Copies(s, val) + Copies(t, val)
<1> DEFINE u == s \o t
           m == Len(s)
           n == Len(u)
<1>1. SubSeq(u, 1, m) = s /\ SubSeq(u, m + 1, n) = t
  BY ConcatParts
<1>2. u \in Seq(Int) /\ n = m + Len(t)
  BY ConcatProperties
<1>3. m \in Nat /\ Len(t) \in Nat
  BY LenProperties
<1> HIDE DEF u, m
<1>4. m \in 0..Len(u) /\ n \in m..Len(u) /\ n \in Nat
  BY <1>2, <1>3
<1>5. Cut(u, m, n) = s
  <2>1. SubSeq(u, n + 1, n) = <<>>
    BY <1>4, SubSeqEmpty
  <2>2. s \o <<>> = s
    BY ConcatEmptySeq
  <2>3. Cut(u, m, n) = SubSeq(u, 1, m) \o SubSeq(u, n + 1, n)
    BY DEF Cut
  <2>4. QED
    BY <1>1, <2>1, <2>2, <2>3
<1> HIDE DEF n
<1>6. Copies(u, val) = Copies(Cut(u, m, n), val) + Copies(SubSeq(u, m + 1, n), val)
  BY <1>2, <1>4, CopiesOfCut
<1>7. QED
  BY <1>1, <1>5, <1>6 DEF u

(* A node inserted is one more copy of its value, and of no other. *)
LEMMA CopiesInsert ==
  ASSUME NEW s \in Seq(Int), NEW p \in 1..(Len(s) + 1), NEW e \in Int, NEW t, NEW val,
         IsInsert(s, p, e, t)
  PROVE  Copies(t, val) = IF e = val THEN Copies(s, val) + 1 ELSE Copies(s, val)
<1> DEFINE b == p - 1
           c == Cut(t, b, p)
           one == SubSeq(t, b + 1, p)
<1>1. /\ t \in Seq(Int) /\ Len(t) = Len(s) + 1 /\ Len(s) \in Nat /\ p \in Nat /\ p >= 1 /\ p <= Len(s) + 1
      /\ \A k \in 1..(p - 1) : t[k] = s[k]
      /\ t[p] = e
      /\ \A k \in p..Len(s) : t[k + 1] = s[k]
  BY LenProperties DEF IsInsert
<1>2. b \in 0..Len(t) /\ p \in b..Len(t) /\ p - b = 1 /\ b + 1 = p
  BY <1>1
<1>3. c = s
  <2> HIDE DEF b
  <2>1. /\ c \in Seq(Int) /\ Len(c) = Len(t) - (p - b)
        /\ \A k \in 1..(Len(t) - (p - b)) : c[k] = IF k <= b THEN t[k] ELSE t[k + (p - b)]
    BY <1>1, <1>2, CutItems
  <2> HIDE DEF c
  <2>2. Len(c) = Len(s) /\ Len(t) - (p - b) = Len(s)
    BY <1>1, <1>2, <2>1
  <2>3. ASSUME NEW k \in 1..Len(s) PROVE c[k] = s[k]
    <3>1. c[k] = IF k <= b THEN t[k] ELSE t[k + 1]
      BY <1>2, <2>1, <2>2
    <3>2. CASE k <= b
      <4>1. k \in 1..(p - 1)
        BY <1>1, <1>2, <3>2 DEF b
      <4>2. QED
        BY <1>1, <3>1, <3>2, <4>1
    <3>3. CASE ~(k <= b)
      <4>1. k \in p..Len(s)
        BY <1>1, <1>2, <3>3 DEF b
      <4>2. QED
        BY <1>1, <3>1, <3>3, <4>1
    <3>4. QED
      BY <3>2, <3>3
  <2>4. c \in Seq(Int) /\ Len(c) = Len(s) /\ \A k \in 1..Len(c) : c[k] = s[k]
    BY <2>1, <2>2, <2>3
  <2>5. QED
    BY <2>4, SeqEqual
<1>4. Copies(one, val) = IF e = val THEN 1 ELSE 0
  <2>1. b + 1 \in 1..Len(t) /\ p \in (b + 1)..Len(t)
    BY <1>1, <1>2
  <2> HIDE DEF b
  <2>2. one = Append(SubSeq(t, b + 1, p - 1), t[p])
    BY <1>1, <2>1, SubSeqGrows
  <2>3. SubSeq(t, b + 1, p - 1) = <<>>
    BY <1>1, <1>2, SubSeqEmpty
  <2>4. one = Append(<<>>, e)
    BY <1>1, <2>2, <2>3
  <2>5. Copies(<<>>, val) = 0
    <3>1. {q \in 1..Len(<<>>) : <<>>[q] = val} = {}
      OBVIOUS
    <3>2. QED
      BY <3>1, FS_EmptySet DEF Copies
  <2> DEFINE none == <<>>
  <2>6. none \in Seq(Int)
    BY EmptySeq
  <2> HIDE DEF none
  <2>7. Copies(Append(none, e), val) = IF e = val THEN Copies(none, val) + 1 ELSE Copies(none, val)
    BY <2>6, CopiesAppend
  <2>8. one = Append(none, e) /\ Copies(none, val) = 0
    BY <2>4, <2>5 DEF none
  <2> HIDE DEF one
  <2>9. QED
    BY <2>7, <2>8
<1>5. Copies(t, val) = Copies(c, val) + Copies(one, val)
  <2> HIDE DEF b
  <2>1. QED
    BY <1>1, <1>2, CopiesOfCut
<1>6. Copies(s, val) \in Nat
  BY CopiesAreCounted
<1> HIDE DEF one, c
<1>7. QED
  BY <1>3, <1>4, <1>5, <1>6

-----------------------------------------------------------------------------
(* Every state is a list and a non-empty vector of integers. *)

ProbesAreLists == list \in Seq(Int) /\ items \in Seq(Int) /\ items # <<>>

LEMMA BoundedSeqOfInts ==
  ASSUME NEW n \in Nat, NEW s \in BoundedSeq(Values, n)
  PROVE  s \in Seq(Int)
<1>1. PICK m \in 0..n : s \in [1..m -> Values]
  BY DEF BoundedSeq, SeqOf
<1>2. m \in Nat /\ s \in [1..m -> Int]
  <2>1. m \in Nat
    BY <1>1
  <2>2. Values \subseteq Int
    BY ProbeConstants
  <2>3. s \in [1..m -> Int]
    BY <1>1, <2>2
  <2>4. QED
    BY <2>1, <2>3
<1>3. QED
  BY <1>2, SeqDef

LEMMA ProbesStayLists == Spec => []ProbesAreLists
<1>1. Init => ProbesAreLists
  <2> SUFFICES ASSUME Init PROVE ProbesAreLists
    OBVIOUS
  <2>1. list \in BoundedSeq(Values, MaxLen) /\ items \in BoundedSeq(Values, MaxItems) /\ items # <<>>
    BY DEF Init
  <2>2. QED
    BY <2>1, BoundedSeqOfInts, ProbeConstants DEF ProbesAreLists
<1>2. ProbesAreLists /\ [Next]_vars => ProbesAreLists'
  <2> SUFFICES ASSUME ProbesAreLists, [Next]_vars PROVE ProbesAreLists'
    OBVIOUS
  <2>1. CASE UNCHANGED vars
    BY <2>1 DEF ProbesAreLists, vars
  <2>2. CASE Next
    <3>1. items' = items /\ list \in Seq(Int) /\ items \in Seq(Int) /\ items # <<>>
      BY <2>2 DEF Next, ProbesAreLists
    <3>2. \A pos \in Positions : pos \in Int
      BY ProbeConstants DEF Positions
    <3>3. CASE \E pos \in Positions : InsertSome(pos)
      <4>1. PICK pos \in Positions : list' = InsertItems(list, items, pos)
        BY <3>3 DEF InsertSome
      <4>2. list' \in Seq(Int)
        BY <3>1, <3>2, <4>1, InsertItemsKeeps
      <4>3. QED
        BY <3>1, <4>2 DEF ProbesAreLists
    <3>4. CASE \E pos \in Positions : RemoveSome([start |-> pos, stop |-> 0, hasStop |-> FALSE])
      <4>1. PICK pos \in Positions : RemoveSome([start |-> pos, stop |-> 0, hasStop |-> FALSE])
        BY <3>4
      <4> DEFINE range == [start |-> pos, stop |-> 0, hasStop |-> FALSE]
      <4>2. RemoveIsDefined(list, range) /\ list' = RemoveRange(list, range)
        BY <4>1 DEF RemoveSome
      <4>3. range \in [start : Int, stop : Int, hasStop : BOOLEAN]
        BY <3>2
      <4> HIDE DEF range
      <4>4. list' \in Seq(Int)
        BY <3>1, <4>2, <4>3, RemoveRangeKeeps
      <4>5. QED
        BY <3>1, <4>4 DEF ProbesAreLists
    <3>5. QED
      BY <2>2, <3>3, <3>4 DEF Next
  <2>3. QED
    BY <2>1, <2>2
<1>3. QED
  BY <1>1, <1>2, PTL DEF Spec

-----------------------------------------------------------------------------
(* What positionsToIndices makes of a range. *)

AnyRange == [start : Int, stop : Int, hasStop : BOOLEAN]

(* The ends of a range, read as in a Python slice. *)
LEMMA IndicesAre ==
  ASSUME list \in Seq(Int), NEW range \in AnyRange
  PROVE  LET ix == PositionsToIndices(range, list)
         IN  /\ ix.valid <=> InBounds(range.start)
             /\ ix.valid => /\ ix.begin = Resolve(range.start) /\ ix.begin \in 0..(Len(list) - 1)
                            /\ ix.last \in 0..Len(list)
             /\ StopInReach(range) /\ ix.valid =>
                  ix.last = IF range.hasStop THEN LesserOf(Len(list), Resolve(range.stop)) ELSE Len(list)
<1> DEFINE size  == Len(list)
           end   == IF range.hasStop THEN range.stop ELSE size
           begin == IF range.start < 0 THEN size + range.start ELSE range.start
           last  == LesserOf(size, IF end < 0 THEN AbsOf(size + end) ELSE end)
           out   == range.start >= size \/ AbsOf(range.start) > size
           ix    == PositionsToIndices(range, list)
<1>1. size \in Nat /\ range.start \in Int /\ range.stop \in Int
  BY LenProperties DEF AnyRange
<1>2. ix = IF out THEN [valid |-> FALSE, begin |-> 0, last |-> 0]
           ELSE [valid |-> TRUE, begin |-> begin, last |-> last]
  BY DEF PositionsToIndices
<1>3. begin = Resolve(range.start)
  BY DEF Resolve
<1>4. out <=> ~InBounds(range.start)
  BY <1>1 DEF AbsOf, InBounds, Resolve
<1>5. ~out => begin \in 0..(size - 1)
  BY <1>1 DEF AbsOf
<1>6. end \in Int
  BY <1>1
<1>7. last \in 0..size
  <2> HIDE DEF end
  <2>1. QED
    BY <1>1, <1>6 DEF LesserOf, AbsOf
<1>8. StopInReach(range) =>
        last = IF range.hasStop THEN LesserOf(size, Resolve(range.stop)) ELSE size
  <2>1. CASE range.hasStop
    BY <1>1, <2>1 DEF StopInReach, LesserOf, AbsOf, Resolve
  <2>2. CASE ~range.hasStop
    BY <1>1, <2>2 DEF LesserOf
  <2>3. QED
    BY <2>1, <2>2
<1> HIDE DEF begin, last, out, ix, end
<1>9. ix.valid <=> ~out
  BY <1>2
<1>10. ix.valid => ix.begin = begin /\ ix.last = last
  BY <1>2
<1>11. QED
  BY <1>3, <1>4, <1>5, <1>7, <1>8, <1>9, <1>10 DEF ix

-----------------------------------------------------------------------------
(* Set and insert. *)

(* A set in bounds writes the items over the nodes from its position on. *)
LEMMA SetOverwrites == ProbesAreLists => SetOverwritesInPlace
<1> SUFFICES ASSUME ProbesAreLists, NEW pos \in Positions, InBounds(pos)
             PROVE  LET result == SetItems(list, items, pos)
                    IN  /\ Len(result) = Len(list)
                        /\ \A p \in 1..Len(list) :
                             result[p] = IF p - Resolve(pos) \in 1..Len(items)
                                           THEN items[p - Resolve(pos)] ELSE list[p]
  BY DEF SetOverwritesInPlace
<1> DEFINE at == Resolve(pos)
           n == Len(items)
           range == [start |-> at, stop |-> at + n, hasStop |-> TRUE]
           ix == PositionsToIndices(range, list)
           it == PositionsToIterators(range, list)
           t == [p \in 1..Len(list) |-> IF p \in (it.begin + 1)..it.last THEN items[p - it.begin] ELSE list[p]]
<1>1. list \in Seq(Int) /\ Len(list) \in Nat /\ n \in Nat \ {0} /\ pos \in Int /\ items \in Seq(Int)
  BY ProbeConstants, LenProperties, EmptySeq DEF ProbesAreLists, Positions
<1>2. at \in 0..(Len(list) - 1)
  BY <1>1 DEF InBounds, Resolve
<1>3. SetItems(list, items, pos) = IF it.valid THEN t ELSE list
  <2>1. (IF pos < 0 THEN Len(list) + pos ELSE pos) = at
    BY DEF Resolve
  <2> HIDE DEF at
  <2>2. QED
    BY <2>1 DEF SetItems
<1>4. it.valid /\ it.begin = at /\ it.last = LesserOf(Len(list), at + n)
  <2> HIDE DEF at, n
  <2>1. range \in AnyRange /\ range.start = at /\ range.stop = at + n /\ range.hasStop
    BY <1>1, <1>2 DEF AnyRange
  <2> HIDE DEF range
  <2>2. InBounds(at) /\ StopInReach(range) /\ Resolve(range.stop) = at + n
    BY <1>1, <1>2, <2>1 DEF InBounds, Resolve, StopInReach
  <2>3. ix.valid /\ ix.begin = Resolve(at) /\ ix.last = LesserOf(Len(list), at + n)
    BY <1>1, <2>1, <2>2, IndicesAre
  <2>4. Resolve(at) = at
    BY <1>2 DEF Resolve
  <2>5. (it.valid <=> ix.valid /\ ix.begin < ix.last) /\ it.begin = ix.begin /\ it.last = ix.last
    <3>1. range.start \in Int /\ range.stop \in Int
      BY <2>1 DEF AnyRange
    <3>2. QED
      BY <1>1, <3>1, IteratorsInBounds
  <2> HIDE DEF ix, it
  <2>6. ix.begin < ix.last
    BY <1>1, <1>2, <2>3, <2>4 DEF LesserOf
  <2>7. QED
    BY <2>3, <2>4, <2>5, <2>6
<1> HIDE DEF it
<1>5. SetItems(list, items, pos) = t
  BY <1>3, <1>4
<1>6. t \in Seq(Int) /\ Len(t) = Len(list)
  <2>1. SetItems(list, items, pos) \in Seq(Int) /\ Len(SetItems(list, items, pos)) = Len(list)
    BY <1>1, SetItemsKeeps
  <2>2. QED
    BY <1>5, <2>1
<1>7. ASSUME NEW p \in 1..Len(list)
      PROVE  t[p] = IF p - at \in 1..n THEN items[p - at] ELSE list[p]
  <2>1. p \in (it.begin + 1)..it.last <=> p - at \in 1..n
    <3> HIDE DEF at, n
    <3>1. QED
      BY <1>1, <1>2, <1>4 DEF LesserOf
  <2>2. t[p] = IF p \in (it.begin + 1)..it.last THEN items[p - it.begin] ELSE list[p]
    OBVIOUS
  <2> HIDE DEF t, at, n
  <2>3. QED
    BY <1>4, <2>1, <2>2
<1> HIDE DEF t
<1>8. QED
  BY <1>5, <1>6, <1>7

(* s is rest with block put in at [b, l). *)
BlockIsAt(s, b, l, block, rest) ==
  /\ s \in Seq(Int) /\ b \in 0..Len(s) /\ l \in b..Len(s)
  /\ SubSeq(s, b + 1, l) = block
  /\ Cut(s, b, l) = rest

(* A block between two others can be taken out again. *)
LEMMA BlockBetween ==
  ASSUME NEW front \in Seq(Int), NEW block \in Seq(Int), NEW rear \in Seq(Int)
  PROVE  BlockIsAt(front \o block \o rear, Len(front), Len(front) + Len(block), block, front \o rear)
<1> DEFINE b == Len(front)
           l == b + Len(block)
           two == front \o block
           all == two \o rear
<1>1. /\ b \in Nat /\ Len(block) \in Nat /\ Len(rear) \in Nat /\ l \in Nat /\ b <= l
  BY LenProperties
<1>2. /\ two \in Seq(Int) /\ Len(two) = l
      /\ \A k \in 1..l : two[k] = IF k <= b THEN front[k] ELSE block[k - b]
  BY ConcatProperties
<1>3. b = Len(front) /\ l = b + Len(block)
  OBVIOUS
<1> HIDE DEF two, b, l
<1>4. /\ all \in Seq(Int) /\ Len(all) = l + Len(rear)
      /\ \A k \in 1..(l + Len(rear)) : all[k] = IF k <= l THEN two[k] ELSE rear[k - l]
  <2>1. /\ all \in Seq(Int) /\ Len(all) = Len(two) + Len(rear)
        /\ \A k \in 1..(Len(two) + Len(rear)) : all[k] = IF k <= Len(two) THEN two[k] ELSE rear[k - Len(two)]
    <3>1. two \in Seq(Int)
      BY <1>2
    <3>2. QED
      BY <3>1, ConcatProperties
  <2> HIDE DEF all
  <2>2. QED
    BY <1>2, <2>1
<1> HIDE DEF all
<1>5. b \in 0..Len(all) /\ l \in b..Len(all) /\ l \in 0..Len(all) /\ b + 1 \in 1..(Len(all) + 1)
  BY <1>1, <1>4
<1>6. SubSeq(all, b + 1, l) = block
  <2> DEFINE m == b + 1
             c == SubSeq(all, m, l)
  <2> HIDE DEF m
  <2>1. /\ c \in Seq(Int) /\ Len(c) = (IF m <= l THEN l - m + 1 ELSE 0)
        /\ \A k \in 1..(l - m + 1) : c[k] = all[m + k - 1]
    BY <1>4, <1>5, SubSeqKeeps DEF m
  <2> HIDE DEF c
  <2>2. Len(c) = Len(block) /\ l - m + 1 = Len(block)
    BY <1>1, <1>3, <2>1 DEF m
  <2>3. ASSUME NEW k \in 1..Len(block) PROVE c[k] = block[k]
    <3>1. m + k - 1 = b + k /\ b + k \in 1..l /\ ~(b + k <= b) /\ (b + k) - b = k
          /\ b + k \in 1..(l + Len(rear)) /\ b + k <= l
      BY <1>1, <1>3 DEF m
    <3>2. c[k] = all[b + k]
      BY <2>1, <2>2, <3>1
    <3>3. all[b + k] = two[b + k]
      BY <1>4, <3>1
    <3>4. two[b + k] = block[(b + k) - b]
      BY <1>2, <3>1
    <3>5. QED
      BY <3>1, <3>2, <3>3, <3>4
  <2>4. c \in Seq(Int) /\ Len(c) = Len(block) /\ \A k \in 1..Len(c) : c[k] = block[k]
    BY <2>1, <2>2, <2>3
  <2>5. c = block
    BY <2>4, SeqEqual
  <2>6. QED
    BY <2>5 DEF c, m
<1>7. Cut(all, b, l) = front \o rear
  <2> DEFINE c == Cut(all, b, l)
             d == front \o rear
  <2>1. /\ c \in Seq(Int) /\ Len(c) = Len(all) - (l - b)
        /\ \A k \in 1..(Len(all) - (l - b)) : c[k] = IF k <= b THEN all[k] ELSE all[k + (l - b)]
    BY <1>4, <1>5, CutItems
  <2>2. /\ d \in Seq(Int) /\ Len(d) = b + Len(rear)
        /\ \A k \in 1..(b + Len(rear)) : d[k] = IF k <= b THEN front[k] ELSE rear[k - b]
    BY <1>3, ConcatProperties
  <2> HIDE DEF c, d
  <2>3. Len(c) = b + Len(rear) /\ Len(all) - (l - b) = b + Len(rear)
    BY <1>1, <1>4, <2>1
  <2>4. ASSUME NEW k \in 1..(b + Len(rear)) PROVE c[k] = d[k]
    <3>1. CASE k <= b
      <4>1. k \in 1..(l + Len(rear)) /\ k <= l /\ k \in 1..l
        BY <1>1, <3>1
      <4>2. all[k] = two[k] /\ two[k] = front[k]
        BY <1>2, <1>4, <3>1, <4>1
      <4>3. c[k] = all[k] /\ d[k] = front[k]
        BY <2>1, <2>2, <2>3, <3>1
      <4>4. QED
        BY <4>2, <4>3
    <3>2. CASE ~(k <= b)
      <4> DEFINE j == k + (l - b)
      <4>1. j \in 1..(l + Len(rear)) /\ ~(j <= l) /\ j - l = k - b
        BY <1>1, <3>2
      <4>2. c[k] = all[j] /\ d[k] = rear[k - b]
        BY <2>1, <2>2, <2>3, <3>2
      <4> HIDE DEF j
      <4>3. all[j] = rear[j - l]
        BY <1>4, <4>1
      <4>4. QED
        BY <4>1, <4>2, <4>3
    <3>3. QED
      BY <3>1, <3>2
  <2>5. c \in Seq(Int) /\ d \in Seq(Int) /\ Len(c) = Len(d) /\ \A k \in 1..Len(c) : c[k] = d[k]
    BY <2>1, <2>2, <2>3, <2>4
  <2>6. c = d
    BY <2>5, SeqEqual
  <2>7. QED
    BY <2>6 DEF c, d
<1>8. BlockIsAt(all, b, l, block, front \o rear)
  BY <1>4, <1>5, <1>6, <1>7 DEF BlockIsAt
<1>9. QED
  BY <1>8 DEF all, two, b, l

(* An insert puts the items where the old node at its position was. *)
LEMMA InsertKeeps == ProbesAreLists => InsertKeepsOrder
<1> SUFFICES ASSUME ProbesAreLists, NEW pos \in Positions
             PROVE  LET result == InsertItems(list, items, pos)
                        at     == IF InBounds(pos) THEN Resolve(pos) ELSE Len(list)
                        new    == (at + 1)..(at + Len(items))
                    IN  /\ ItemsAt(result, new) = items
                        /\ ItemsAt(result, (1..Len(result)) \ new) = list
  BY DEF InsertKeepsOrder
<1> DEFINE at == IF InBounds(pos) THEN Resolve(pos) ELSE Len(list)
           result == InsertItems(list, items, pos)
           last == at + Len(items)
           new == (at + 1)..last
           front == SubSeq(list, 1, at)
           rear == SubSeq(list, at + 1, Len(list))
           range == [start |-> pos, stop |-> 0, hasStop |-> FALSE]
           it == PositionsToIterators(range, list)
           ix == PositionsToIndices(range, list)
<1>1. list \in Seq(Int) /\ Len(list) \in Nat /\ items \in Seq(Int) /\ Len(items) \in Nat /\ pos \in Int
  BY ProbeConstants, LenProperties DEF ProbesAreLists, Positions
<1>2. at \in 0..Len(list)
  BY <1>1 DEF InBounds, Resolve
<1>3. PositionToStartIterator(pos, list) = at + 1
  <2>1. PositionToStartIterator(pos, list) = IF it.valid THEN it.begin + 1 ELSE Len(list) + 1
    BY DEF PositionToStartIterator
  <2>2. range \in AnyRange /\ range.start = pos /\ ~range.hasStop /\ range.start \in Int /\ range.stop \in Int
    BY <1>1 DEF AnyRange
  <2> HIDE DEF range
  <2>3. StopInReach(range)
    BY <2>2 DEF StopInReach
  <2>4. /\ ix.valid <=> InBounds(pos)
        /\ ix.valid => ix.begin = Resolve(pos) /\ ix.begin \in 0..(Len(list) - 1) /\ ix.last = Len(list)
    BY <1>1, <2>2, <2>3, IndicesAre
  <2>5. (it.valid <=> ix.valid /\ ix.begin < ix.last) /\ it.begin = ix.begin
    BY <1>1, <2>2, IteratorsInBounds
  <2> HIDE DEF ix, it
  <2>6. it.valid <=> InBounds(pos)
    BY <1>1, <2>4, <2>5
  <2>7. QED
    BY <2>1, <2>4, <2>5, <2>6
<1> HIDE DEF at
<1>4. result = front \o items \o rear
  <2>1. (at + 1) - 1 = at
    BY <1>2
  <2>2. QED
    BY <1>3, <2>1 DEF InsertItems
<1>5. /\ front \in Seq(Int) /\ Len(front) = at /\ rear \in Seq(Int)
      /\ front \o rear = list
  <2>1. 1 \in 1..(Len(list) + 1) /\ at \in (1 - 1)..Len(list) /\ Len(list) \in at..Len(list)
        /\ at + 1 \in 1..(Len(list) + 1) /\ Len(list) \in 0..Len(list)
    BY <1>1, <1>2
  <2>2. front \in Seq(Int) /\ Len(front) = IF 1 <= at THEN at - 1 + 1 ELSE 0
    BY <1>1, <1>2, <2>1, SubSeqKeeps
  <2>3. rear \in Seq(Int)
    <3> DEFINE m == at + 1
    <3> HIDE DEF m
    <3>1. SubSeq(list, m, Len(list)) \in Seq(Int)
      BY <1>1, <2>1, SubSeqKeeps DEF m
    <3>2. QED
      BY <3>1 DEF m
  <2>4. front \o rear = SubSeq(list, 1, Len(list))
    BY <1>1, <2>1, ConcatAdjacentSubSeq
  <2>5. SubSeq(list, 1, Len(list)) = list
    BY <1>1, SubSeqFull
  <2> HIDE DEF front, rear
  <2>6. Len(front) = at
    BY <1>2, <2>2
  <2>7. QED
    BY <2>2, <2>3, <2>4, <2>5, <2>6
<1> HIDE DEF front, rear, result, last
<1>6. /\ result \in Seq(Int) /\ at \in 0..Len(result) /\ last \in at..Len(result)
      /\ SubSeq(result, at + 1, last) = items
      /\ Cut(result, at, last) = list
  <2>1. at = Len(front) /\ last = at + Len(items)
    BY <1>5 DEF last
  <2>2. front \in Seq(Int) /\ items \in Seq(Int) /\ rear \in Seq(Int)
    BY <1>1, <1>5
  <2>3. BlockIsAt(front \o items \o rear, Len(front), Len(front) + Len(items), items, front \o rear)
    BY <2>2, BlockBetween
  <2>4. front \o rear = list
    BY <1>5
  <2>5. BlockIsAt(result, at, last, items, list)
    BY <1>4, <2>1, <2>3, <2>4
  <2>6. QED
    BY <2>5 DEF BlockIsAt
<1>7. last \in 0..Len(result)
  BY <1>2, <1>6, LenProperties
<1>8. ItemsAt(result, new) = SubSeq(result, at + 1, last)
  BY <1>6, <1>7, ItemsAtRun
<1>9. ItemsAt(result, (1..Len(result)) \ new) = Cut(result, at, last)
  <2> DEFINE P == (1..Len(result)) \ new
  <2>1. \A p \in 1..Len(result) : p \in P <=> ~(p \in (at + 1)..last)
    OBVIOUS
  <2> HIDE DEF P
  <2>2. ItemsAt(result, P) = Cut(result, at, last)
    BY <1>6, <2>1, ItemsAtRest
  <2>3. QED
    BY <2>2 DEF P
<1>10. QED
  BY <1>6, <1>8, <1>9 DEF at, result, last

-----------------------------------------------------------------------------
(* Removing equal items. *)

LEMMA RangesAreRanges == \A range \in Ranges : range \in AnyRange
<1> DEFINE Of(A, B, C) == [start : A, stop : B, hasStop : C]
<1>1. \A A, B, C, range : A \subseteq Int /\ B \subseteq Int /\ C \subseteq BOOLEAN
                           /\ range \in Of(A, B, C) => range \in Of(Int, Int, BOOLEAN)
  OBVIOUS
<1>2. Positions \subseteq Int
  BY ProbeConstants DEF Positions
<1> DEFINE Zero == {0}
           Bounded == {TRUE}
           Open == {FALSE}
<1>3. Zero \subseteq Int /\ Bounded \subseteq BOOLEAN /\ Open \subseteq BOOLEAN
  OBVIOUS
<1> HIDE DEF Of, Zero, Bounded, Open
<1>4. ASSUME NEW range \in Of(Positions, Positions, Bounded) PROVE range \in Of(Int, Int, BOOLEAN)
  BY <1>1, <1>2, <1>3
<1>5. ASSUME NEW range \in Of(Positions, Zero, Open) PROVE range \in Of(Int, Int, BOOLEAN)
  BY <1>1, <1>2, <1>3
<1>6. QED
  BY <1>4, <1>5, Zenon DEF Of, Zero, Bounded, Open, Ranges, AnyRange

(* In an ascending list the equal items of a range are one run, and equal_range finds
   it. *)
LEMMA EqualRangeIsTheHits ==
  ASSUME NEW s \in Seq(Int), Ascending(s), NEW from \in 1..(Len(s) + 1), NEW val \in Int,
         NEW lb, IsLowerBound(s, from, val, lb), NEW ub, IsUpperBound(s, from, val, ub)
  PROVE  \A p \in from..Len(s) : s[p] = val <=> p \in lb..(ub - 1)
<1>1. /\ Len(s) \in Nat /\ from \in Nat
      /\ lb \in from..(Len(s) + 1) /\ ub \in from..(Len(s) + 1)
  BY LenProperties DEF IsLowerBound, IsUpperBound
<1> SUFFICES ASSUME NEW p \in from..Len(s) PROVE s[p] = val <=> p \in lb..(ub - 1)
  OBVIOUS
<1>2. p \in 1..Len(s) /\ s[p] \in Int
  BY <1>1, ElementOfSeq
<1>3. p < lb => s[p] < val
  <2> SUFFICES ASSUME p < lb PROVE s[p] < val
    OBVIOUS
  <2>1. p \in from..(lb - 1)
    BY <1>1
  <2>2. QED
    BY <2>1 DEF IsLowerBound
<1>4. p >= lb => s[p] >= val
  <2> SUFFICES ASSUME p >= lb PROVE s[p] >= val
    OBVIOUS
  <2>1. lb \in 1..Len(s) /\ lb <= p
    BY <1>1
  <2>2. s[lb] >= val /\ s[lb] <= s[p] /\ s[lb] \in Int
    BY <1>2, <2>1, ElementOfSeq DEF IsLowerBound, Ascending
  <2>3. QED
    BY <1>2, <2>2
<1>5. p < ub => s[p] <= val
  <2> SUFFICES ASSUME p < ub PROVE s[p] <= val
    OBVIOUS
  <2>1. p \in from..(ub - 1)
    BY <1>1
  <2>2. QED
    BY <2>1 DEF IsUpperBound
<1>6. p >= ub => s[p] > val
  <2> SUFFICES ASSUME p >= ub PROVE s[p] > val
    OBVIOUS
  <2>1. ub \in 1..Len(s) /\ ub <= p
    BY <1>1
  <2>2. s[ub] > val /\ s[ub] <= s[p] /\ s[ub] \in Int
    BY <1>2, <2>1, ElementOfSeq DEF IsUpperBound, Ascending
  <2>3. QED
    BY <1>2, <2>2
<1>7. QED
  BY <1>1, <1>2, <1>3, <1>4, <1>5, <1>6

(* On an ascending list the two forms of remove_if leave the same. *)
LEMMA FormsAgree == ProbesAreLists => RemoveIfFormsAgree
<1> SUFFICES ASSUME ProbesAreLists, Ascending(list), NEW range \in Ranges, NEW val \in Values
             PROVE  SortedRemoveIfEquals(list, range, val) = UnsortedRemoveIfEquals(list, range, val)
  BY DEF RemoveIfFormsAgree
<1> DEFINE n == Len(list)
           it == PositionsToIterators(range, list)
           b == it.begin
           l == it.last
           from == b + 1
           within == SubSeq(list, 1, l)
           lb == LowerBound(within, from, val)
           ub == UpperBound(within, from, val)
           kept == {p \in 1..n : p \in (b + 1)..l => list[p] # val}
<1>1. list \in Seq(Int) /\ n \in Nat /\ val \in Int /\ range.start \in Int /\ range.stop \in Int
  BY ProbeConstants, LenProperties, RangesAreRanges DEF ProbesAreLists, AnyRange
<1>2. it.valid => b \in 0..(n - 1) /\ l \in (b + 1)..n
  BY <1>1, IteratorsInBounds
<1>3. /\ SortedRemoveIfEquals(list, range, val) = IF it.valid THEN Cut(list, lb - 1, ub - 1) ELSE list
      /\ UnsortedRemoveIfEquals(list, range, val) = IF it.valid THEN ItemsAt(list, kept) ELSE list
  BY DEF SortedRemoveIfEquals, UnsortedRemoveIfEquals
<1>4. CASE ~it.valid
  BY <1>3, <1>4
<1>5. CASE it.valid
  <2>1. b \in Nat /\ l \in Nat /\ b < l /\ l <= n /\ from \in 1..(l + 1) /\ from = b + 1
    BY <1>1, <1>2, <1>5
  <2> HIDE DEF b, l, from, it
  <2>2. 1 \in 1..(Len(list) + 1) /\ l \in 0..Len(list)
    BY <1>1, <2>1
  <2>3. /\ within \in Seq(Int) /\ Len(within) = (IF 1 <= l THEN l - 1 + 1 ELSE 0)
        /\ \A k \in 1..(l - 1 + 1) : within[k] = list[1 + k - 1]
        /\ Ascending(within)
    BY <1>1, <2>2, SubSeqKeeps
  <2> HIDE DEF within
  <2>4. Len(within) = l /\ \A k \in 1..l : within[k] = list[k]
    BY <2>1, <2>3
  <2>5. IsLowerBound(within, from, val, lb) /\ IsUpperBound(within, from, val, ub) /\ lb <= ub
    BY <1>1, <2>1, <2>3, <2>4, LowerBoundFound, UpperBoundFound, EqualRangeIsRange
  <2> HIDE DEF lb, ub
  <2>6. lb \in from..(l + 1) /\ ub \in from..(l + 1)
    BY <2>4, <2>5 DEF IsLowerBound, IsUpperBound
  <2>7. \A p \in from..l : within[p] = val <=> p \in lb..(ub - 1)
    <3>1. \A p \in from..Len(within) : within[p] = val <=> p \in lb..(ub - 1)
      <4>1. from \in 1..(Len(within) + 1)
        BY <2>1, <2>4
      <4>2. within \in Seq(Int) /\ Ascending(within) /\ val \in Int
        BY <1>1, <2>3
      <4>3. QED
        BY <2>5, <4>1, <4>2, EqualRangeIsTheHits
    <3>2. QED
      BY <2>4, <3>1
  <2> DEFINE c == lb - 1
             e == ub - 1
  <2>8. c \in 0..n /\ e \in c..n /\ c + 1 = lb
    BY <1>1, <2>1, <2>5, <2>6
  <2>9. ASSUME NEW p \in 1..n PROVE p \in kept <=> ~(p \in lb..e)
    <3>1. CASE p \in from..l
      <4>1. p \in 1..l /\ within[p] = list[p]
        BY <2>1, <2>4, <3>1
      <4>2. p \in kept <=> list[p] # val
        BY <2>1, <3>1
      <4>3. list[p] = val <=> p \in lb..e
        BY <2>7, <3>1, <4>1
      <4>4. QED
        BY <4>2, <4>3
    <3>2. CASE p \notin from..l
      <4>1. p \in kept
        BY <2>1, <3>2
      <4>2. ~(p \in lb..e)
        BY <1>1, <2>1, <2>6, <3>2
      <4>3. QED
        BY <4>1, <4>2
    <3>3. QED
      BY <3>1, <3>2
  <2>10. \A p \in 1..Len(list) : p \in kept <=> ~(p \in (c + 1)..e)
    BY <2>8, <2>9
  <2> HIDE DEF kept, c, e
  <2>11. ItemsAt(list, kept) = Cut(list, c, e)
    BY <1>1, <2>8, <2>10, ItemsAtRest
  <2>12. QED
    BY <1>3, <1>5, <2>11 DEF c, e
<1>6. QED
  BY <1>4, <1>5

-----------------------------------------------------------------------------
(* The sorted add. *)

(* One emplace is one more copy of the item. *)
LEMMA CopiesEmplaced ==
  ASSUME NEW s \in Seq(Int), NEW from \in 1..(Len(s) + 1), NEW e \in Int, NEW val
  PROVE  Copies(EmplaceSorted(s, from, e).list, val) =
           IF e = val THEN Copies(s, val) + 1 ELSE Copies(s, val)
<1> DEFINE p == LowerBound(s, from, e)
           t == EmplaceSorted(s, from, e).list
<1>1. p \in from..(Len(s) + 1) /\ IsInsert(s, p, e, t)
  BY EmplaceSortedInserts
<1>2. p \in 1..(Len(s) + 1)
  BY <1>1, LenProperties
<1> HIDE DEF p, t
<1>3. Copies(t, val) = IF e = val THEN Copies(s, val) + 1 ELSE Copies(s, val)
  BY <1>1, <1>2, CopiesInsert
<1>4. QED
  BY <1>3 DEF t

(* What a walk over items, each emplaced into what the ones before left, comes to:
   at[k] is the list after k items. *)
LEMMA CopiesWalk ==
  ASSUME NEW s \in Seq(Int), NEW xs \in Seq(Int), NEW val,
         NEW at \in [0..Len(xs) -> Seq(Int)], at[0] = s,
         \A k \in 1..Len(xs) :
           Copies(at[k], val) = IF xs[k] = val THEN Copies(at[k - 1], val) + 1
                                ELSE Copies(at[k - 1], val)
  PROVE  Copies(at[Len(xs)], val) = Copies(s, val) + Copies(xs, val)
<1> DEFINE n == Len(xs)
           P == 1..n
           Counted(k) == Copies(at[k], val) = Copies(s, val) + Cardinality(Hits(xs, P, val, k))
           S == {k \in 0..n : Counted(k)}
<1>1. n \in Nat /\ Copies(s, val) \in Nat
  BY LenProperties, CopiesAreCounted
<1>2. Counted(0)
  <2>1. Hits(xs, P, val, 0) = {}
    BY DEF Hits
  <2>2. Cardinality(Hits(xs, P, val, 0)) = 0
    BY <2>1, FS_EmptySet
  <2>3. QED
    BY <1>1, <2>2
<1>3. ASSUME NEW k \in 0..(n - 1), Counted(k) PROVE Counted(k + 1)
  <2>1. k + 1 \in 1..n /\ (k + 1) - 1 = k /\ k \in Nat /\ k + 1 \in P
    BY <1>1
  <2> HIDE DEF n, P
  <2>2. Copies(at[k + 1], val) = IF xs[k + 1] = val THEN Copies(at[k], val) + 1 ELSE Copies(at[k], val)
    <3>1. Copies(at[k + 1], val) = IF xs[k + 1] = val THEN Copies(at[(k + 1) - 1], val) + 1
                                   ELSE Copies(at[(k + 1) - 1], val)
      BY <2>1 DEF n
    <3>2. QED
      BY <2>1, <3>1
  <2>3. Cardinality(Hits(xs, P, val, k + 1)) =
          IF k + 1 \in P /\ xs[k + 1] = val THEN Cardinality(Hits(xs, P, val, k)) + 1
          ELSE Cardinality(Hits(xs, P, val, k))
    BY <2>1, HitsGrow
  <2>4. Cardinality(Hits(xs, P, val, k)) \in Nat
    BY <2>1, HitsAreFinite
  <2>5. QED
    BY <1>1, <1>3, <2>1, <2>2, <2>3, <2>4
<1> HIDE DEF Counted
<1>4. 0 \in S /\ \A k \in 0..(n - 1) : k \in S => k + 1 \in S
  BY <1>1, <1>2, <1>3
<1> HIDE DEF S
<1>5. \A k \in 0..n : k \in S
  BY <1>1, <1>4, BoundedInduction
<1>6. Counted(n)
  BY <1>1, <1>5 DEF S
<1>7. Copies(xs, val) = Cardinality(Hits(xs, P, val, n))
  BY CopiesAreHits
<1>8. QED
  BY <1>6, <1>7 DEF Counted

LEMMA CopiesInsertEach ==
  ASSUME NEW s \in Seq(Int), NEW xs \in Seq(Int), NEW val
  PROVE  Copies(InsertEach(s, xs), val) = Copies(s, val) + Copies(xs, val)
<1>1. PICK f \in [0..Len(xs) -> Seq(Int)] :
        /\ f[0] = s
        /\ \A k \in 1..Len(xs) : f[k] = EmplaceSorted(f[k - 1], 1, xs[k]).list
        /\ InsertEach(s, xs) = f[Len(xs)]
  BY InsertEachRecursion
<1>2. ASSUME NEW k \in 1..Len(xs)
      PROVE  Copies(f[k], val) = IF xs[k] = val THEN Copies(f[k - 1], val) + 1 ELSE Copies(f[k - 1], val)
  <2>1. k - 1 \in 0..Len(xs) /\ f[k - 1] \in Seq(Int) /\ xs[k] \in Int
    <3>1. k - 1 \in 0..Len(xs)
      BY LenProperties
    <3>2. QED
      BY <1>1, <3>1, ElementOfSeq
  <2>2. 1 \in 1..(Len(f[k - 1]) + 1)
    BY <2>1, LenProperties
  <2>3. Copies(EmplaceSorted(f[k - 1], 1, xs[k]).list, val) =
          IF xs[k] = val THEN Copies(f[k - 1], val) + 1 ELSE Copies(f[k - 1], val)
    BY <2>1, <2>2, CopiesEmplaced
  <2>4. QED
    BY <1>1, <2>3
<1>3. Copies(f[Len(xs)], val) = Copies(s, val) + Copies(xs, val)
  <2>1. f \in [0..Len(xs) -> Seq(Int)] /\ f[0] = s
    BY <1>1
  <2>2. QED
    BY <1>2, <2>1, CopiesWalk
<1>4. QED
  BY <1>1, <1>3

LEMMA CopiesInsertFromCursor ==
  ASSUME NEW s \in Seq(Int), NEW xs \in Seq(Int), NEW val
  PROVE  Copies(InsertFromCursor(s, xs), val) = Copies(s, val) + Copies(xs, val)
<1>1. PICK f \in [0..Len(xs) -> Cursors] :
        /\ f[0] = [list |-> s, it |-> 1]
        /\ \A k \in 1..Len(xs) : f[k] = EmplaceSorted(f[k - 1].list, f[k - 1].it, xs[k])
        /\ InsertFromCursor(s, xs) = f[Len(xs)].list
  BY InsertFromCursorRecursion
<1> DEFINE at == [k \in 0..Len(xs) |-> f[k].list]
<1>2. Len(xs) \in Nat
  BY LenProperties
<1>3. \A k \in 0..Len(xs) : at[k] = f[k].list /\ f[k].list \in Seq(Int) /\ f[k].it \in 1..(Len(f[k].list) + 1)
  BY <1>1 DEF Cursors
<1>4. at \in [0..Len(xs) -> Seq(Int)] /\ at[0] = s
  BY <1>1, <1>2, <1>3
<1> HIDE DEF at
<1>5. ASSUME NEW k \in 1..Len(xs)
      PROVE  Copies(at[k], val) = IF xs[k] = val THEN Copies(at[k - 1], val) + 1 ELSE Copies(at[k - 1], val)
  <2>1. k - 1 \in 0..Len(xs) /\ k \in 0..Len(xs) /\ xs[k] \in Int
    BY <1>2, ElementOfSeq
  <2>2. /\ at[k - 1] = f[k - 1].list /\ at[k - 1] \in Seq(Int) /\ f[k - 1].it \in 1..(Len(at[k - 1]) + 1)
        /\ at[k] = f[k].list
    BY <1>3, <2>1
  <2>3. at[k] = EmplaceSorted(at[k - 1], f[k - 1].it, xs[k]).list
    BY <1>1, <2>2
  <2>4. Copies(EmplaceSorted(at[k - 1], f[k - 1].it, xs[k]).list, val) =
          IF xs[k] = val THEN Copies(at[k - 1], val) + 1 ELSE Copies(at[k - 1], val)
    BY <2>1, <2>2, CopiesEmplaced
  <2>5. QED
    BY <2>3, <2>4
<1>6. Copies(at[Len(xs)], val) = Copies(s, val) + Copies(xs, val)
  BY <1>4, <1>5, CopiesWalk
<1>7. QED
  BY <1>1, <1>2, <1>3, <1>6

(* Whatever path the items take, all of them and all the nodes are there in the end,
   in ascending order. *)
LEMMA AddMerges == ProbesAreLists => SortedAddMerges
<1> SUFFICES ASSUME ProbesAreLists, NEW flagged \in BOOLEAN,
                    Ascending(list), flagged => Ascending(items)
             PROVE  LET result == SortedAdd(list, items, flagged)
                    IN  /\ Ascending(result)
                        /\ \A val \in Values : Copies(result, val) = Copies(list, val) + Copies(items, val)
  BY DEF SortedAddMerges
<1>1. list \in Seq(Int) /\ items \in Seq(Int)
  BY DEF ProbesAreLists
<1>2. Ascending(SortedAdd(list, items, flagged))
  BY <1>1, SortedAddKeeps
<1>3. ASSUME NEW val
      PROVE  Copies(SortedAdd(list, items, flagged), val) = Copies(list, val) + Copies(items, val)
  <2>1. Copies(list, val) \in Nat /\ Copies(items, val) \in Nat
    BY <1>1, CopiesAreCounted
  <2>2. Copies(items \o list, val) = Copies(items, val) + Copies(list, val)
    BY <1>1, CopiesConcat
  <2>3. Copies(list \o items, val) = Copies(list, val) + Copies(items, val)
    BY <1>1, CopiesConcat
  <2>4. Copies(InsertFromCursor(list, items), val) = Copies(list, val) + Copies(items, val)
    BY <1>1, CopiesInsertFromCursor
  <2>5. Copies(InsertEach(list, items), val) = Copies(list, val) + Copies(items, val)
    BY <1>1, CopiesInsertEach
  <2>6. \/ SortedAdd(list, items, flagged) = items \o list
        \/ SortedAdd(list, items, flagged) = list \o items
        \/ SortedAdd(list, items, flagged) = InsertFromCursor(list, items)
        \/ SortedAdd(list, items, flagged) = InsertEach(list, items)
    BY DEF SortedAdd, InsertSortedItems
  <2> DEFINE r == SortedAdd(list, items, flagged)
             a == Copies(list, val)
             b == Copies(items, val)
  <2>7. b + a = a + b
    BY <2>1
  <2> HIDE DEF r, a, b
  <2>8. Copies(r, val) = a + b
    BY <2>2, <2>3, <2>4, <2>5, <2>6, <2>7 DEF r, a, b
  <2>9. QED
    BY <2>8 DEF r, a, b
<1>4. QED
  BY <1>2, <1>3

-----------------------------------------------------------------------------
(* What the operations mean by a range. *)

(* Every operation works on the same nodes [b, l) of the list. *)
MeansNodes(range, b, l) ==
  /\ b \in 0..Len(list) /\ l \in b..Len(list)
  /\ GetByRange(list, range, "Head") = SubSeq(list, b + 1, l)
  /\ RemoveRange(list, range) = Cut(list, b, l)
  /\ LET it == PositionsToIterators(range, list)
     IN  (it.valid <=> b < l) /\ (it.valid => it.begin = b /\ it.last = l)

LEMMA CutNothing ==
  ASSUME NEW s \in Seq(Int), NEW b \in 0..Len(s)
  PROVE  Cut(s, b, b) = s
<1>1. Len(s) \in Nat
  BY LenProperties
<1>2. 1 \in 1..(Len(s) + 1) /\ b \in (1 - 1)..Len(s) /\ Len(s) \in b..Len(s)
  BY <1>1
<1>3. SubSeq(s, 1, b) \o SubSeq(s, b + 1, Len(s)) = SubSeq(s, 1, Len(s))
  BY <1>2, ConcatAdjacentSubSeq
<1>4. SubSeq(s, 1, Len(s)) = s
  BY SubSeqFull
<1>5. QED
  BY <1>3, <1>4 DEF Cut

LEMMA RangeMeansNodes ==
  ASSUME list \in Seq(Int), NEW range \in AnyRange, RemoveIsDefined(list, range)
  PROVE  \E b, l \in Nat : MeansNodes(range, b, l)
<1> DEFINE ix == PositionsToIndices(range, list)
           it == PositionsToIterators(range, list)
<1>1. Len(list) \in Nat /\ range.start \in Int /\ range.stop \in Int
  BY LenProperties DEF AnyRange
<1>2. ix.valid => ix.begin \in 0..(Len(list) - 1) /\ ix.last \in 0..Len(list) /\ ix.begin <= ix.last
  BY <1>1, IndicesInBounds DEF RemoveIsDefined
<1>3. /\ it.valid <=> ix.valid /\ ix.begin < ix.last
      /\ it.begin = ix.begin /\ it.last = ix.last
  BY <1>1, IteratorsInBounds
<1>4. /\ RemoveRange(list, range) = IF ix.valid THEN Cut(list, ix.begin, ix.last) ELSE list
      /\ GetByRange(list, range, "Head") = IF ix.valid THEN SubSeq(list, ix.begin + 1, ix.last) ELSE <<>>
  BY DEF RemoveRange, GetByRange
<1> HIDE DEF ix, it
<1>5. CASE ix.valid
  <2> DEFINE b == ix.begin
             l == ix.last
  <2>1. b \in Nat /\ l \in Nat /\ b \in 0..Len(list) /\ l \in b..Len(list)
    BY <1>1, <1>2, <1>5
  <2>2. (it.valid <=> b < l) /\ (it.valid => it.begin = b /\ it.last = l)
    BY <1>3, <1>5
  <2>3. GetByRange(list, range, "Head") = SubSeq(list, b + 1, l) /\ RemoveRange(list, range) = Cut(list, b, l)
    BY <1>4, <1>5
  <2> HIDE DEF b, l
  <2>4. MeansNodes(range, b, l)
    BY <2>1, <2>2, <2>3 DEF MeansNodes, it
  <2>5. QED
    BY <2>1, <2>4
<1>6. CASE ~ix.valid
  <2>1. 0 \in 0..Len(list) /\ 0 \in Nat
    BY <1>1
  <2>2. Cut(list, 0, 0) = list
    BY <2>1, CutNothing
  <2>3. SubSeq(list, 0 + 1, 0) = <<>>
    BY SubSeqEmpty
  <2>4. GetByRange(list, range, "Head") = SubSeq(list, 0 + 1, 0) /\ RemoveRange(list, range) = Cut(list, 0, 0)
    BY <1>4, <1>6, <2>2, <2>3
  <2>5. ~it.valid
    BY <1>3, <1>6
  <2>6. MeansNodes(range, 0, 0)
    BY <2>1, <2>4, <2>5 DEF MeansNodes, it
  <2>7. QED
    BY <2>1, <2>6
<1>7. QED
  BY <1>5, <1>6

(* s is left with block put in at cut. *)
IsLeftBy(left, cut, block, s) ==
  /\ cut \in 0..Len(left)
  /\ s = SubSeq(left, 1, cut) \o block \o SubSeq(left, cut + 1, Len(left))

(* A block cut out can be put back where it was. *)
LEMMA PutBack ==
  ASSUME NEW s \in Seq(Int), NEW b \in 0..Len(s), NEW l \in b..Len(s)
  PROVE  IsLeftBy(Cut(s, b, l), b, SubSeq(s, b + 1, l), s)
<1> DEFINE left == Cut(s, b, l)
           front == SubSeq(s, 1, b)
           mid == SubSeq(s, b + 1, l)
           rear == SubSeq(s, l + 1, Len(s))
<1>1. Len(s) \in Nat /\ b \in Nat /\ l \in Nat
  BY LenProperties
<1>2. /\ 1 \in 1..(Len(s) + 1) /\ b \in (1 - 1)..Len(s) /\ l \in b..Len(s)
      /\ l \in (1 - 1)..Len(s) /\ Len(s) \in l..Len(s) /\ l \in 0..Len(s)
      /\ b + 1 \in 1..(Len(s) + 1) /\ l + 1 \in 1..(Len(s) + 1) /\ Len(s) \in 0..Len(s)
  BY <1>1
<1>3. front \o mid = SubSeq(s, 1, l)
  BY <1>2, ConcatAdjacentSubSeq
<1>4. SubSeq(s, 1, l) \o rear = SubSeq(s, 1, Len(s))
  BY <1>2, ConcatAdjacentSubSeq
<1>5. SubSeq(s, 1, Len(s)) = s
  BY SubSeqFull
<1>6. front \in Seq(Int) /\ Len(front) = b
  <2>1. front \in Seq(Int) /\ Len(front) = (IF 1 <= b THEN b - 1 + 1 ELSE 0)
    BY <1>2, SubSeqKeeps
  <2> HIDE DEF front
  <2>2. QED
    BY <1>1, <2>1
<1>7. rear \in Seq(Int)
  <2> DEFINE m == l + 1
  <2> HIDE DEF m
  <2>1. SubSeq(s, m, Len(s)) \in Seq(Int)
    BY <1>2, SubSeqKeeps DEF m
  <2>2. QED
    BY <2>1 DEF m
<1>8. left = front \o rear
  BY DEF Cut
<1> HIDE DEF front, rear, left
<1>9. SubSeq(left, 1, b) = front /\ SubSeq(left, b + 1, Len(left)) = rear
  <2>1. /\ SubSeq(front \o rear, 1, Len(front)) = front
        /\ SubSeq(front \o rear, Len(front) + 1, Len(front \o rear)) = rear
    BY <1>6, <1>7, ConcatParts
  <2>2. QED
    BY <1>6, <1>8, <2>1
<1>10. b \in 0..Len(left)
  <2>1. Len(left) = Len(front) + Len(rear) /\ Len(rear) \in Nat
    BY <1>6, <1>7, <1>8, ConcatProperties, LenProperties
  <2>2. QED
    BY <1>1, <1>6, <2>1
<1>11. s = SubSeq(left, 1, b) \o mid \o SubSeq(left, b + 1, Len(left))
  BY <1>3, <1>4, <1>5, <1>9
<1>12. QED
  BY <1>10, <1>11 DEF IsLeftBy, left

(* remove_if takes the copies of its value out of the nodes of its range. *)
LEMMA RemoveIfTakesFromRange ==
  ASSUME list \in Seq(Int), NEW range, NEW b \in Nat, NEW l \in Nat, MeansNodes(range, b, l), NEW val
  PROVE  Copies(list, val) - Copies(UnsortedRemoveIfEquals(list, range, val), val)
           = Copies(SubSeq(list, b + 1, l), val)
<1> DEFINE it == PositionsToIterators(range, list)
           kept == {p \in 1..Len(list) : p \in (it.begin + 1)..it.last => list[p] # val}
           out == (1..Len(list)) \ ((b + 1)..l)
           rest == UnsortedRemoveIfEquals(list, range, val)
           got == SubSeq(list, b + 1, l)
           left == Cut(list, b, l)
<1>1. Len(list) \in Nat /\ b \in 0..Len(list) /\ l \in b..Len(list) /\ Copies(list, val) \in Nat
  BY LenProperties, CopiesAreCounted DEF MeansNodes
<1>2. (it.valid <=> b < l) /\ (it.valid => it.begin = b /\ it.last = l)
  BY DEF MeansNodes
<1>3. rest = IF it.valid THEN ItemsAt(list, kept) ELSE list
  BY DEF UnsortedRemoveIfEquals
<1> HIDE DEF it
<1>4. Copies(list, val) = Copies(left, val) + Copies(got, val)
  BY <1>1, CopiesOfCut
<1>5. Copies(left, val) \in Nat /\ Copies(got, val) \in Nat
  <2>1. left \in Seq(Int)
    BY <1>1, CutItems
  <2>2. got \in Seq(Int)
    <3> DEFINE m == b + 1
    <3>1. m \in 1..(Len(list) + 1) /\ l \in 0..Len(list)
      BY <1>1
    <3> HIDE DEF m
    <3>2. SubSeq(list, m, l) \in Seq(Int)
      BY <3>1, SubSeqKeeps
    <3>3. QED
      BY <3>2 DEF m
  <2> HIDE DEF left, got
  <2>3. QED
    BY <2>1, <2>2, CopiesAreCounted
<1>6. CASE it.valid
  <2>1. Copies(rest, val) = Cardinality(Hits(list, kept, val, Len(list)))
    <3> HIDE DEF kept
    <3>1. Copies(ItemsAt(list, kept), val) = Cardinality(Hits(list, kept, val, Len(list)))
      BY CopiesAt
    <3>2. QED
      BY <1>3, <1>6, <3>1
  <2>2. Copies(left, val) = Cardinality(Hits(list, out, val, Len(list)))
    <3>1. \A p \in 1..Len(list) : p \in out <=> ~(p \in (b + 1)..l)
      OBVIOUS
    <3> HIDE DEF out
    <3>2. ItemsAt(list, out) = left
      BY <1>1, <3>1, ItemsAtRest
    <3>3. Copies(ItemsAt(list, out), val) = Cardinality(Hits(list, out, val, Len(list)))
      BY CopiesAt
    <3>4. QED
      BY <3>2, <3>3
  <2>3. Hits(list, kept, val, Len(list)) = Hits(list, out, val, Len(list))
    <3>1. it.begin = b /\ it.last = l
      BY <1>2, <1>6
    <3>2. QED
      BY <3>1 DEF Hits
  <2> HIDE DEF left, got, rest, kept, out
  <2>4. Copies(list, val) - Copies(rest, val) = Copies(got, val)
    BY <1>4, <1>5, <2>1, <2>2, <2>3
  <2>5. QED
    BY <2>4 DEF rest, got
<1>7. CASE ~it.valid
  <2>1. b = l /\ rest = list
    BY <1>1, <1>2, <1>3, <1>7
  <2>2. left = list
    BY <1>1, <2>1, CutNothing
  <2> HIDE DEF left, got, rest
  <2>3. Copies(list, val) - Copies(rest, val) = Copies(got, val)
    BY <1>1, <1>4, <1>5, <2>1, <2>2
  <2>4. QED
    BY <2>3 DEF rest, got
<1>8. QED
  BY <1>6, <1>7

(* intersect compares the nodes of its range with the whole of the other list. *)
LEMMA IntersectComparesRange ==
  ASSUME list \in Seq(Int), items \in Seq(Int), items # <<>>,
         NEW range, NEW b \in Nat, NEW l \in Nat, MeansNodes(range, b, l)
  PROVE  LET all == [start |-> 0, stop |-> 0, hasStop |-> FALSE]
             got == SubSeq(list, b + 1, l)
         IN  /\ Intersect(list, items, range, all) = SetIntersection(got, items)
             /\ IntersectIsValid(list, items, range, all) <=> got # <<>>
<1> DEFINE all == [start |-> 0, stop |-> 0, hasStop |-> FALSE]
           got == SubSeq(list, b + 1, l)
           it1 == PositionsToIterators(range, list)
           it2 == PositionsToIterators(all, items)
           ix2 == PositionsToIndices(all, items)
           n == Len(items)
<1>1. Len(list) \in Nat /\ n \in Nat \ {0} /\ b \in 0..Len(list) /\ l \in b..Len(list)
  BY LenProperties, EmptySeq DEF MeansNodes
<1>2. (it1.valid <=> b < l) /\ (it1.valid => it1.begin = b /\ it1.last = l)
  BY DEF MeansNodes
<1>3. it2.valid /\ it2.begin = 0 /\ it2.last = n
  <2>1. ix2 = [valid |-> TRUE, begin |-> 0, last |-> n]
    <3>1. all.start = 0 /\ ~all.hasStop
      OBVIOUS
    <3> HIDE DEF all
    <3>2. ~(all.start >= n \/ AbsOf(all.start) > n) /\ ~(all.start < 0) /\ ~(n < 0) /\ LesserOf(n, n) = n
      BY <1>1, <3>1 DEF AbsOf, LesserOf
    <3> HIDE DEF n
    <3>3. n = Len(items)
      BY DEF n
    <3>4. QED
      BY <3>1, <3>2, <3>3 DEF PositionsToIndices
  <2>2. it2 = [ix2 EXCEPT !.valid = ix2.valid /\ ix2.begin < ix2.last]
    BY DEF PositionsToIterators
  <2> HIDE DEF ix2, it2
  <2>3. ix2.valid /\ ix2.begin = 0 /\ ix2.last = n
    BY <2>1
  <2>4. it2 = [valid |-> ix2.valid /\ ix2.begin < ix2.last, begin |-> 0, last |-> n]
    BY <2>1, <2>2, <2>3
  <2>5. ix2.begin < ix2.last
    BY <1>1, <2>3
  <2> HIDE DEF n
  <2>6. QED
    BY <2>3, <2>4, <2>5
<1>4. SubSeq(items, 0 + 1, n) = items
  BY SubSeqFull
<1>5. /\ IntersectIsValid(list, items, range, all) <=> it1.valid /\ it2.valid
      /\ Intersect(list, items, range, all) =
           IF IntersectIsValid(list, items, range, all)
             THEN SetIntersection(SubSeq(list, it1.begin + 1, it1.last), SubSeq(items, it2.begin + 1, it2.last))
             ELSE <<>>
  BY DEF Intersect, IntersectIsValid
<1>6. Len(got) = l - b
  <2> DEFINE m == b + 1
  <2>1. m \in 1..(Len(list) + 1) /\ l \in 0..Len(list) /\ (IF m <= l THEN l - m + 1 ELSE 0) = l - b
    BY <1>1
  <2> HIDE DEF m
  <2>2. Len(SubSeq(list, m, l)) = IF m <= l THEN l - m + 1 ELSE 0
    BY <2>1, SubSeqKeeps
  <2>3. QED
    BY <2>1, <2>2 DEF m
<1> HIDE DEF it1, it2, all
<1>7. CASE b < l
  <2>1. IntersectIsValid(list, items, range, all)
    BY <1>2, <1>3, <1>5, <1>7
  <2>2. Intersect(list, items, range, all) = SetIntersection(got, items)
    BY <1>2, <1>3, <1>4, <1>5, <1>7, <2>1
  <2>3. got # <<>>
    BY <1>1, <1>6, <1>7
  <2>4. QED
    BY <2>1, <2>2, <2>3 DEF all
<1>8. CASE ~(b < l)
  <2>1. ~IntersectIsValid(list, items, range, all) /\ Intersect(list, items, range, all) = <<>>
    BY <1>2, <1>5, <1>8
  <2>2. got = <<>>
    BY <1>1, <1>8, SubSeqEmpty
  <2> HIDE DEF got
  <2> DEFINE none == <<>>
  <2>3. none \in Seq(Int) /\ Len(none) = 0
    BY EmptySeq
  <2>4. \A P : ItemsAt(none, P) = <<>>
    <3> SUFFICES ASSUME NEW P PROVE ItemsAt(none, P) = <<>>
      OBVIOUS
    <3>1. \A p \in 1..Len(none) : p \notin P
      BY <2>3
    <3> HIDE DEF none
    <3>2. QED
      BY <2>3, <3>1, ItemsAtNone
  <2> HIDE DEF none
  <2>5. SetIntersection(none, items) = <<>>
    BY <2>4 DEF SetIntersection
  <2>6. SetIntersection(got, items) = <<>>
    BY <2>2, <2>5 DEF none
  <2>7. QED
    BY <2>1, <2>2, <2>6 DEF all, got
<1>9. QED
  BY <1>7, <1>8

(* Reads, remove, remove_if and intersect agree on what a range is. *)
LEMMA RangesAgree == ProbesAreLists => RangesMeanTheSameEverywhere
<1> SUFFICES ASSUME ProbesAreLists, NEW range \in Ranges, RemoveIsDefined(list, range)
             PROVE  LET got  == GetByRange(list, range, "Head")
                        left == RemoveRange(list, range)
                        all  == [start |-> 0, stop |-> 0, hasStop |-> FALSE]
                    IN  /\ \E cut \in 0..Len(left) :
                             list = SubSeq(left, 1, cut) \o got \o SubSeq(left, cut + 1, Len(left))
                        /\ \A val \in Values :
                             Copies(list, val) - Copies(UnsortedRemoveIfEquals(list, range, val), val)
                               = Copies(got, val)
                        /\ Intersect(list, items, range, all) = SetIntersection(got, items)
                        /\ IntersectIsValid(list, items, range, all) <=> got # <<>>
  BY DEF RangesMeanTheSameEverywhere
<1> DEFINE got  == GetByRange(list, range, "Head")
           left == RemoveRange(list, range)
           all  == [start |-> 0, stop |-> 0, hasStop |-> FALSE]
<1>1. list \in Seq(Int) /\ items \in Seq(Int) /\ items # <<>> /\ range \in AnyRange
  BY RangesAreRanges DEF ProbesAreLists
<1>2. PICK b \in Nat, l \in Nat : MeansNodes(range, b, l)
  BY <1>1, RangeMeansNodes
<1>3. /\ b \in 0..Len(list) /\ l \in b..Len(list)
      /\ got = SubSeq(list, b + 1, l) /\ left = Cut(list, b, l)
  BY <1>2 DEF MeansNodes
<1> HIDE DEF got, left
<1>4. IsLeftBy(left, b, got, list)
  <2>1. IsLeftBy(Cut(list, b, l), b, SubSeq(list, b + 1, l), list)
    BY <1>1, <1>3, PutBack
  <2>2. QED
    BY <1>3, <2>1
<1>5. ASSUME NEW val
      PROVE  Copies(list, val) - Copies(UnsortedRemoveIfEquals(list, range, val), val) = Copies(got, val)
  BY <1>1, <1>2, <1>3, RemoveIfTakesFromRange
<1>6. /\ Intersect(list, items, range, all) = SetIntersection(got, items)
      /\ IntersectIsValid(list, items, range, all) <=> got # <<>>
  BY <1>1, <1>2, <1>3, IntersectComparesRange
<1>7. \E cut \in 0..Len(left) : list = SubSeq(left, 1, cut) \o got \o SubSeq(left, cut + 1, Len(left))
  BY <1>4 DEF IsLeftBy
<1>8. QED
  BY <1>5, <1>6, <1>7 DEF got, left

-----------------------------------------------------------------------------
(* The reads. *)

(* The sequence a read of this base walks. *)
Walked(base) == IF base = "Head" THEN list ELSE Reverse(list)

LEMMA WalkedIsList ==
  ASSUME list \in Seq(Int), NEW base
  PROVE  Walked(base) \in Seq(Int) /\ Len(Walked(base)) = Len(list)
<1> DEFINE n == Len(list)
           r == [k \in 1..n |-> list[(n - k) + 1]]
<1>1. n \in Nat
  BY LenProperties
<1>2. \A k \in 1..n : list[(n - k) + 1] \in Int
  <2> SUFFICES ASSUME NEW k \in 1..n PROVE list[(n - k) + 1] \in Int
    OBVIOUS
  <2> DEFINE j == (n - k) + 1
  <2>1. j \in 1..Len(list)
    BY <1>1
  <2> HIDE DEF j
  <2>2. list[j] \in Int
    BY <2>1, ElementOfSeq
  <2>3. QED
    BY <2>2 DEF j
<1>3. r \in [1..n -> Int]
  BY <1>2
<1>4. r \in Seq(Int) /\ Len(r) = n
  <2> HIDE DEF r, n
  <2>1. QED
    BY <1>1, <1>3, SeqDef, LenProperties
<1>5. Reverse(list) = r
  BY DEF Reverse
<1> HIDE DEF r
<1>6. QED
  BY <1>4, <1>5 DEF Walked

(* What a read returns, where the stop does not reach past the head. *)
LEMMA GetByRangeIs ==
  ASSUME list \in Seq(Int), NEW range \in AnyRange, StopInReach(range), NEW base
  PROVE  GetByRange(list, range, base) =
           IF InBounds(range.start)
             THEN SubSeq(Walked(base), Resolve(range.start) + 1,
                         IF range.hasStop THEN LesserOf(Len(list), Resolve(range.stop)) ELSE Len(list))
             ELSE <<>>
<1> DEFINE ix == PositionsToIndices(range, list)
<1>1. /\ ix.valid <=> InBounds(range.start)
      /\ ix.valid => /\ ix.begin = Resolve(range.start)
                     /\ ix.last = IF range.hasStop THEN LesserOf(Len(list), Resolve(range.stop)) ELSE Len(list)
  BY IndicesAre
<1>2. GetByRange(list, range, base) = IF ix.valid THEN SubSeq(Walked(base), ix.begin + 1, ix.last) ELSE <<>>
  BY DEF GetByRange, Walked
<1> HIDE DEF ix
<1>3. QED
  BY <1>1, <1>2

(* It is the slice. *)
LEMMA GetByRangeIsSlice ==
  ASSUME list \in Seq(Int), NEW range \in AnyRange, StopInReach(range), NEW base
  PROVE  GetByRange(list, range, base) = ItemsAt(Walked(base), Denoted(range))
<1> DEFINE u == Walked(base)
           n == Len(list)
           b == Resolve(range.start)
           l == IF range.hasStop THEN LesserOf(n, Resolve(range.stop)) ELSE n
<1>1. u \in Seq(Int) /\ Len(u) = n
  BY WalkedIsList
<1>2. n \in Nat /\ range.start \in Int /\ range.stop \in Int
  BY LenProperties DEF AnyRange
<1>3. GetByRange(list, range, base) = IF InBounds(range.start) THEN SubSeq(u, b + 1, l) ELSE <<>>
  BY GetByRangeIs
<1> HIDE DEF u
<1>4. CASE InBounds(range.start)
  <2>1. b \in 0..n /\ b \in Int
    BY <1>2, <1>4 DEF InBounds, Resolve
  <2>2. l \in 0..n
    <3>1. CASE range.hasStop
      <4>1. Resolve(range.stop) \in Nat
        BY <1>2, <3>1 DEF StopInReach, Resolve
      <4>2. QED
        BY <1>2, <3>1, <4>1 DEF LesserOf
    <3>2. CASE ~range.hasStop
      BY <1>2, <3>2
    <3>3. QED
      BY <3>1, <3>2
  <2>3. ASSUME NEW p \in 1..n PROVE p \in Denoted(range) <=> p \in (b + 1)..l
    <3>1. p \in Denoted(range) <=> b < p /\ (range.hasStop => p <= Resolve(range.stop))
      BY <1>4 DEF Denoted
    <3>2. CASE range.hasStop
      <4>1. Resolve(range.stop) \in Int
        BY <1>2 DEF Resolve
      <4>2. l = LesserOf(n, Resolve(range.stop))
        BY <3>2
      <4> HIDE DEF b, l
      <4>3. QED
        BY <1>2, <2>1, <3>1, <3>2, <4>1, <4>2 DEF LesserOf
    <3>3. CASE ~range.hasStop
      <4>1. l = n
        BY <3>3
      <4> HIDE DEF b, l
      <4>2. QED
        BY <1>2, <2>1, <3>1, <3>3, <4>1
    <3>4. QED
      BY <3>2, <3>3
  <2> HIDE DEF b, l
  <2>4. b \in 0..Len(u) /\ l \in 0..Len(u) /\ \A p \in 1..Len(u) : p \in Denoted(range) <=> p \in (b + 1)..l
    BY <1>1, <2>1, <2>2, <2>3
  <2>5. ItemsAt(u, Denoted(range)) = SubSeq(u, b + 1, l)
    BY <1>1, <2>4, ItemsAtRun
  <2>6. QED
    BY <1>3, <1>4, <2>5 DEF u
<1>5. CASE ~InBounds(range.start)
  <2>1. \A p \in 1..Len(u) : p \notin Denoted(range)
    BY <1>5 DEF Denoted
  <2>2. ItemsAt(u, Denoted(range)) = <<>>
    BY <1>1, <2>1, ItemsAtNone
  <2>3. QED
    BY <1>3, <1>5, <2>2 DEF u
<1>6. QED
  BY <1>4, <1>5

(* A range the client answers by itself denotes no node. *)
LEMMA RefusedRangeIsEmpty ==
  ASSUME list \in Seq(Int), NEW range \in AnyRange, StopInReach(range), ~IsRangeValid(range)
  PROVE  Denoted(range) = {}
<1>1. Len(list) \in Nat /\ range.start \in Int /\ range.stop \in Int
  BY LenProperties DEF AnyRange
<1>2. range.hasStop /\ range.stop >= -Len(list)
  BY DEF IsRangeValid, StopInReach
<1>3. \/ range.start = range.stop
      \/ range.start < 0 /\ range.stop < 0 /\ range.start > range.stop
      \/ range.start > 0 /\ range.stop > 0 /\ range.start > range.stop
  BY DEF IsRangeValid
<1>4. Resolve(range.start) \in Int /\ Resolve(range.stop) \in Int /\ Resolve(range.stop) <= Resolve(range.start)
  BY <1>1, <1>3 DEF Resolve
<1>5. ASSUME NEW p \in Denoted(range) PROVE FALSE
  <2>1. p \in Int /\ Resolve(range.start) < p /\ p <= Resolve(range.stop)
    BY <1>2, <1>5 DEF Denoted
  <2>2. QED
    BY <1>4, <2>1
<1>6. QED
  BY <1>5

(* get_range and get_range_reverse return the slice. *)
LEMMA GetRangeIsSlice ==
  ASSUME list \in Seq(Int), NEW range \in AnyRange, StopInReach(range), NEW base
  PROVE  GetRange(list, range, base) = ItemsAt(Walked(base), Denoted(range))
<1>1. CASE IsRangeValid(range)
  <2>1. GetRange(list, range, base) = GetByRange(list, range, base)
    BY <1>1 DEF GetRange
  <2>2. QED
    BY <2>1, GetByRangeIsSlice
<1>2. CASE ~IsRangeValid(range)
  <2>1. GetRange(list, range, base) = <<>>
    BY <1>2 DEF GetRange
  <2>2. Denoted(range) = {}
    BY <1>2, RefusedRangeIsEmpty
  <2>3. ItemsAt(Walked(base), {}) = <<>>
    BY WalkedIsList, ItemsAtNone
  <2>4. QED
    BY <2>1, <2>2, <2>3
<1>3. QED
  BY <1>1, <1>2

(* get_n returns count items from start, or all the rest. *)
LEMMA GetNIs ==
  ASSUME list \in Seq(Int), NEW start \in Nat, NEW count \in Nat, NEW base
  PROVE  GetN(list, start, count, base) =
           IF start < Len(list)
             THEN SubSeq(Walked(base), start + 1,
                         IF count = 0 THEN Len(list) ELSE LesserOf(Len(list), start + count))
             ELSE <<>>
<1> DEFINE stop == IF count \in {None, 0} THEN None ELSE start + count
           range == ArgRange(start, stop)
           n == Len(list)
<1>1. n \in Nat
  BY LenProperties
<1>2. count # None /\ start + count # None
  BY NoneAssumption
<1>3. range = [start |-> start, stop |-> IF count = 0 THEN 0 ELSE start + count, hasStop |-> count # 0]
  BY <1>2 DEF ArgRange
<1>4. GetN(list, start, count, base) = GetByRange(list, range, base)
  BY DEF GetN
<1> HIDE DEF range
<1>5. range.start = start /\ range.stop = (IF count = 0 THEN 0 ELSE start + count) /\ (range.hasStop <=> count # 0)
  BY <1>3
<1>6. range \in AnyRange
  <2>1. (IF count = 0 THEN 0 ELSE start + count) \in Int /\ (count # 0) \in BOOLEAN /\ start \in Int
    OBVIOUS
  <2>2. QED
    BY <1>3, <2>1 DEF AnyRange
<1>7. range.stop \in Nat
  BY <1>5
<1>8. StopInReach(range)
  BY <1>1, <1>7 DEF StopInReach
<1>9. Resolve(range.start) = start /\ Resolve(range.stop) = range.stop /\ (InBounds(range.start) <=> start < n)
  BY <1>1, <1>5, <1>7 DEF Resolve, InBounds
<1>10. GetByRange(list, range, base) =
         IF InBounds(range.start)
           THEN SubSeq(Walked(base), Resolve(range.start) + 1,
                       IF range.hasStop THEN LesserOf(n, Resolve(range.stop)) ELSE n)
           ELSE <<>>
  BY <1>6, <1>8, GetByRangeIs
<1>11. (IF range.hasStop THEN LesserOf(n, Resolve(range.stop)) ELSE n)
         = IF count = 0 THEN n ELSE LesserOf(n, start + count)
  BY <1>5, <1>9
<1>12. QED
  BY <1>4, <1>9, <1>10, <1>11

(* That is the window of count items at start. *)
LEMMA GetNIsWindow ==
  ASSUME list \in Seq(Int), NEW start \in Nat, NEW count \in Nat, NEW base
  PROVE  GetN(list, start, count, base) =
           ItemsAt(Walked(base), IF count = 0 THEN {p \in 1..Len(list) : p > start}
                                 ELSE (start + 1)..LesserOf(start + count, Len(list)))
<1> DEFINE n == Len(list)
           u == Walked(base)
           P == IF count = 0 THEN {p \in 1..n : p > start} ELSE (start + 1)..LesserOf(start + count, n)
           l == IF count = 0 THEN n ELSE LesserOf(n, start + count)
<1>1. n \in Nat /\ u \in Seq(Int) /\ Len(u) = n
  BY LenProperties, WalkedIsList
<1>2. GetN(list, start, count, base) = IF start < n THEN SubSeq(u, start + 1, l) ELSE <<>>
  BY GetNIs
<1>3. l \in 0..n /\ l \in Int
  BY <1>1 DEF LesserOf
<1>4. \A p \in 1..n : p \in P <=> p \in (start + 1)..l
  BY <1>1 DEF LesserOf
<1> HIDE DEF u, P, l
<1>5. CASE start < n
  <2>1. u \in Seq(Int) /\ start \in 0..Len(u) /\ l \in 0..Len(u)
    BY <1>1, <1>3, <1>5
  <2>2. \A p \in 1..Len(u) : p \in P <=> p \in (start + 1)..l
    BY <1>1, <1>4
  <2> HIDE DEF n
  <2>3. ItemsAt(u, P) = SubSeq(u, start + 1, l)
    BY <2>1, <2>2, ItemsAtRun, ZenonT(60)
  <2>4. QED
    BY <1>2, <1>5, <2>3 DEF u, P, l, n
<1>6. CASE ~(start < n)
  <2>1. \A p \in 1..Len(u) : p \notin P
    BY <1>1, <1>3, <1>4, <1>6
  <2>2. ItemsAt(u, P) = <<>>
    BY <1>1, <2>1, ItemsAtNone
  <2>3. QED
    BY <1>2, <1>6, <2>2 DEF u, P
<1>7. QED
  BY <1>5, <1>6

(* get_head and get_tail return the end items. *)
LEMMA EndItems ==
  ASSUME list \in Seq(Int), list # <<>>
  PROVE  GetHead(list) = list[1] /\ GetTail(list) = list[Len(list)]
<1> DEFINE n == Len(list)
<1>1. n \in Nat \ {0} /\ 1 \in 1..n
  BY EmptySeq
<1>2. ASSUME NEW base PROVE FirstOrNone(GetN(list, 0, 1, base)) = Walked(base)[1]
  <2> DEFINE u == Walked(base)
             one == SubSeq(u, 1, 1)
  <2>1. /\ 0 \in Nat /\ 1 \in Nat
        /\ GetN(list, 0, 1, base) =
             IF 0 < n THEN SubSeq(u, 0 + 1, IF 1 = 0 THEN n ELSE LesserOf(n, 0 + 1)) ELSE <<>>
    BY GetNIs
  <2>4. u \in Seq(Int) /\ Len(u) = n
    BY WalkedIsList
  <2> HIDE DEF u, n
  <2>2. 0 + 1 = 1 /\ 1 # 0 /\ 0 < n /\ LesserOf(n, 1) = 1
    BY <1>1 DEF LesserOf
  <2>3. GetN(list, 0, 1, base) = one
    <3>1. SubSeq(u, 0 + 1, IF 1 = 0 THEN n ELSE LesserOf(n, 0 + 1)) = SubSeq(u, 1, 1)
      BY <2>2
    <3>2. QED
      BY <2>1, <2>2, <3>1
  <2>5. 1 \in 1..(Len(u) + 1) /\ 1 \in 0..Len(u)
    BY <1>1, <2>4
  <2>6. Len(one) = (IF 1 <= 1 THEN 1 - 1 + 1 ELSE 0) /\ \A k \in 1..(1 - 1 + 1) : one[k] = u[1 + k - 1]
    BY <2>4, <2>5, SubSeqKeeps
  <2> HIDE DEF one
  <2>7. Len(one) = 1 /\ one[1] = u[1]
    BY <2>6
  <2>8. one # <<>>
    <3>1. Len(<<>>) = 0
      OBVIOUS
    <3>2. QED
      BY <2>7, <3>1
  <2>9. QED
    BY <2>3, <2>7, <2>8 DEF FirstOrNone, u
<1>3. Walked("Head")[1] = list[1]
  BY DEF Walked
<1>4. Walked("Tail")[1] = list[n]
  <2>1. (n - 1) + 1 = n
    BY <1>1
  <2>2. Reverse(list)[1] = list[(n - 1) + 1]
    BY <1>1 DEF Reverse
  <2>3. QED
    BY <2>1, <2>2 DEF Walked
<1>5. QED
  BY <1>2, <1>3, <1>4 DEF GetHead, GetTail

(* remove_head and remove_tail take the end items. *)
LEMMA EndsRemoved ==
  ASSUME list \in Seq(Int), list # <<>>
  PROVE  RemoveHead(list) = SubSeq(list, 2, Len(list)) /\ RemoveTail(list) = SubSeq(list, 1, Len(list) - 1)
<1> DEFINE n == Len(list)
           first == ArgRange(0, 1)
           last == ArgRange(-1, None)
<1>1. n \in Nat \ {0}
  BY EmptySeq
<1>2. 1 # None
  BY NoneAssumption
<1>3. first = [start |-> 0, stop |-> 1, hasStop |-> TRUE] /\ last = [start |-> -1, stop |-> 0, hasStop |-> FALSE]
  BY <1>2 DEF ArgRange
<1> HIDE DEF first, last
<1>4. first.start = 0 /\ first.stop = 1 /\ first.hasStop /\ last.start = -1 /\ ~last.hasStop
  BY <1>3
<1>5. first \in AnyRange /\ last \in AnyRange
  BY <1>3 DEF AnyRange
<1>6. StopInReach(first) /\ StopInReach(last)
  BY <1>1, <1>4 DEF StopInReach
<1>7. /\ InBounds(first.start) /\ Resolve(first.start) = 0 /\ LesserOf(n, Resolve(first.stop)) = 1
      /\ InBounds(last.start) /\ Resolve(last.start) = n - 1
  <2>1. Resolve(0) = 0 /\ InBounds(0)
    BY <1>1 DEF InBounds, Resolve
  <2>2. Resolve(1) = 1
    BY DEF Resolve
  <2>3. Resolve(-1) = n - 1 /\ InBounds(-1)
    BY <1>1 DEF InBounds, Resolve
  <2> HIDE DEF n
  <2>4. LesserOf(n, 1) = 1
    BY <1>1 DEF LesserOf
  <2>5. QED
    BY <1>4, <2>1, <2>2, <2>3, <2>4
<1>8. RemoveRange(list, first) = Cut(list, 0, 1)
  <2> DEFINE ix == PositionsToIndices(first, list)
  <2>1. ix.valid /\ ix.begin = 0 /\ ix.last = 1
    BY <1>4, <1>5, <1>6, <1>7, IndicesAre
  <2> HIDE DEF ix
  <2>2. RemoveRange(list, first) = IF ix.valid THEN Cut(list, ix.begin, ix.last) ELSE list
    BY DEF RemoveRange, ix
  <2>3. QED
    BY <2>1, <2>2
<1>9. RemoveRange(list, last) = Cut(list, n - 1, n)
  <2> DEFINE ix == PositionsToIndices(last, list)
  <2>1. ix.valid /\ ix.begin = n - 1 /\ ix.last = n
    BY <1>4, <1>5, <1>6, <1>7, IndicesAre
  <2> HIDE DEF ix
  <2>2. RemoveRange(list, last) = IF ix.valid THEN Cut(list, ix.begin, ix.last) ELSE list
    BY DEF RemoveRange, ix
  <2>3. QED
    BY <2>1, <2>2
<1>10. Cut(list, 0, 1) = SubSeq(list, 2, n)
  <2> DEFINE t == SubSeq(list, 2, n)
  <2>1. SubSeq(list, 1, 0) = <<>> /\ 1 + 1 = 2
    BY SubSeqEmpty
  <2>2. 2 \in 1..(Len(list) + 1) /\ n \in 0..Len(list)
    BY <1>1
  <2>3. t \in Seq(Int)
    BY <2>2, SubSeqKeeps
  <2>4. Cut(list, 0, 1) = <<>> \o t
    BY <2>1 DEF Cut
  <2> HIDE DEF t
  <2>5. <<>> \o t = t
    BY <2>3, ConcatEmptySeq
  <2>6. QED
    BY <2>4, <2>5 DEF t
<1>11. Cut(list, n - 1, n) = SubSeq(list, 1, n - 1)
  <2> DEFINE t == SubSeq(list, 1, n - 1)
  <2>1. SubSeq(list, n + 1, n) = <<>>
    BY <1>1, SubSeqEmpty
  <2>2. 1 \in 1..(Len(list) + 1) /\ n - 1 \in 0..Len(list)
    BY <1>1
  <2>3. t \in Seq(Int)
    BY <2>2, SubSeqKeeps
  <2>4. Cut(list, n - 1, n) = t \o <<>>
    BY <2>1 DEF Cut
  <2> HIDE DEF t
  <2>5. t \o <<>> = t
    BY <2>3, ConcatEmptySeq
  <2>6. QED
    BY <2>4, <2>5 DEF t
<1>12. QED
  BY <1>8, <1>9, <1>10, <1>11 DEF RemoveHead, RemoveTail, first, last

(* The end calls take a list apart and no more. *)
LEMMA EndsMeet ==
  ASSUME list \in Seq(Int), list # <<>>
  PROVE  /\ list = <<GetHead(list)>> \o RemoveHead(list)
         /\ list = Append(RemoveTail(list), GetTail(list))
<1> DEFINE n == Len(list)
           whole == SubSeq(list, 1, n)
<1>1. n \in Nat \ {0} /\ 1 \in 1..Len(list) /\ n \in 1..Len(list)
  BY EmptySeq
<1>2. whole = list
  BY SubSeqFull
<1>3. whole = <<list[1]>> \o SubSeq(list, 2, n)
  <2>1. whole = <<list[1]>> \o SubSeq(list, 1 + 1, n)
    BY <1>1, SubSeqRecursiveFirst
  <2>2. 1 + 1 = 2
    OBVIOUS
  <2> HIDE DEF whole
  <2>3. QED
    BY <2>1, <2>2
<1>4. whole = Append(SubSeq(list, 1, n - 1), list[n])
  BY <1>1, SubSeqGrows
<1>5. /\ GetHead(list) = list[1] /\ GetTail(list) = list[n]
      /\ RemoveHead(list) = SubSeq(list, 2, n) /\ RemoveTail(list) = SubSeq(list, 1, n - 1)
  BY EndItems, EndsRemoved
<1> HIDE DEF whole
<1>6. whole = <<GetHead(list)>> \o RemoveHead(list) /\ whole = Append(RemoveTail(list), GetTail(list))
  BY <1>3, <1>4, <1>5
<1> DEFINE a == <<GetHead(list)>> \o RemoveHead(list)
           c == Append(RemoveTail(list), GetTail(list))
<1>7. whole = a /\ whole = c
  BY <1>6
<1> HIDE DEF a, c
<1>8. list = a /\ list = c
  BY <1>2, <1>7
<1>9. QED
  BY <1>8 DEF a, c

(* On an empty list they have nothing to take. *)
LEMMA NoEndsOfEmpty ==
  ASSUME list = <<>>
  PROVE  GetHead(list) = None /\ GetTail(list) = None /\ RemoveHead(list) = <<>> /\ RemoveTail(list) = <<>>
<1>1. list \in Seq(Int) /\ Len(list) = 0
  BY EmptySeq
<1>2. ASSUME NEW base PROVE FirstOrNone(GetN(list, 0, 1, base)) = None
  <2>1. GetN(list, 0, 1, base) =
          IF 0 < Len(list) THEN SubSeq(Walked(base), 0 + 1, IF 1 = 0 THEN Len(list) ELSE LesserOf(Len(list), 0 + 1))
          ELSE <<>>
    BY <1>1, GetNIs
  <2>2. GetN(list, 0, 1, base) = <<>>
    BY <1>1, <2>1
  <2>3. QED
    BY <2>2 DEF FirstOrNone
<1>3. ASSUME NEW range, range.start \in {0, -1} PROVE RemoveRange(list, range) = list
  <2>1. range.start >= Len(list) \/ AbsOf(range.start) > Len(list)
    BY <1>1, <1>3 DEF AbsOf
  <2>2. PositionsToIndices(range, list) = [valid |-> FALSE, begin |-> 0, last |-> 0]
    BY <2>1 DEF PositionsToIndices
  <2>3. ~PositionsToIndices(range, list).valid
    BY <2>2
  <2>4. QED
    BY <2>3 DEF RemoveRange
<1>4. ArgRange(0, 1).start \in {0, -1} /\ ArgRange(-1, None).start \in {0, -1}
  BY DEF ArgRange
<1>5. RemoveRange(list, ArgRange(0, 1)) = list /\ RemoveRange(list, ArgRange(-1, None)) = list
  BY <1>3, <1>4
<1>6. QED
  BY <1>2, <1>5 DEF GetHead, GetTail, RemoveHead, RemoveTail

(* Every read is a slice of the list. *)
LEMMA ReadsSlice == ProbesAreLists => ReadsAreSlices
<1> SUFFICES ASSUME ProbesAreLists PROVE ReadsAreSlices
  OBVIOUS
<1> DEFINE from == [Head |-> list, Tail |-> Reverse(list)]
<1>1. list \in Seq(Int)
  BY DEF ProbesAreLists
<1>2. \A base \in {"Head", "Tail"} : from[base] = Walked(base)
  BY DEF Walked
<1> HIDE DEF from
<1>3. ASSUME NEW range \in Ranges, NEW base \in {"Head", "Tail"}, StopInReach(range)
      PROVE  GetRange(list, range, base) = ItemsAt(from[base], Denoted(range))
  <2>1. range \in AnyRange
    BY RangesAreRanges
  <2>2. GetRange(list, range, base) = ItemsAt(Walked(base), Denoted(range))
    BY <1>1, <1>3, <2>1, GetRangeIsSlice
  <2>3. QED
    BY <1>2, <2>2
<1>4. ASSUME NEW start \in 0..Reach, NEW count \in 0..Reach, NEW base \in {"Head", "Tail"}
      PROVE  GetN(list, start, count, base) =
               ItemsAt(from[base], IF count = 0 THEN {p \in 1..Len(list) : p > start}
                                   ELSE (start + 1)..LesserOf(start + count, Len(list)))
  <2>1. start \in Nat /\ count \in Nat
    BY ProbeConstants
  <2> DEFINE P == IF count = 0 THEN {p \in 1..Len(list) : p > start}
                  ELSE (start + 1)..LesserOf(start + count, Len(list))
  <2>2. GetN(list, start, count, base) = ItemsAt(Walked(base), P)
    BY <1>1, <2>1, GetNIsWindow
  <2> HIDE DEF P
  <2>3. GetN(list, start, count, base) = ItemsAt(from[base], P)
    BY <1>2, <2>2
  <2>4. QED
    BY <2>3 DEF P
<1>5. list # <<>> => /\ list = <<GetHead(list)>> \o RemoveHead(list)
                     /\ list = Append(RemoveTail(list), GetTail(list))
  BY <1>1, EndsMeet
<1>6. list = <<>> => GetHead(list) = None /\ GetTail(list) = None
                       /\ RemoveHead(list) = <<>> /\ RemoveTail(list) = <<>>
  BY NoEndsOfEmpty
<1>7. QED
  BY <1>3, <1>4, <1>5, <1>6, Zenon DEF ReadsAreSlices, from

-----------------------------------------------------------------------------
(* The theorems. *)

(* get_range, get_n, their reverse forms and the end calls return the slice, the window
   and the end items of the list, and remove_head and remove_tail what is left of it,
   for every list and every argument whose stop does not reach past the head. *)
THEOREM ReadsReturnSlices == Spec => []ReadsAreSlices
  BY ProbesStayLists, ReadsSlice, PTL

(* Reads, remove, remove_if and intersect mean the same nodes by a range, for every
   list and every range on which remove is defined. *)
THEOREM OperationsShareRanges == Spec => []RangesMeanTheSameEverywhere
  BY ProbesStayLists, RangesAgree, PTL

(* A sorted add leaves the ascending merge of the list and the items, on every path
   the code may take. *)
THEOREM SortedAddsMerge == Spec => []SortedAddMerges
  BY ProbesStayLists, AddMerges, PTL

(* On an ascending list the equal_range form of remove_if removes what the scan
   removes, whatever part of the list is searched. *)
THEOREM BothFormsRemoveAlike == Spec => []RemoveIfFormsAgree
  BY ProbesStayLists, FormsAgree, PTL

(* An insert keeps the old nodes in order and puts the items, in order, at its
   position, or at the tail. *)
THEOREM InsertsKeepOrder == Spec => []InsertKeepsOrder
  BY ProbesStayLists, InsertKeeps, PTL

(* A set in bounds overwrites the nodes from its position on and no other. *)
THEOREM SetsOverwriteInPlace == Spec => []SetOverwritesInPlace
  BY ProbesStayLists, SetOverwrites, PTL
=============================================================================
