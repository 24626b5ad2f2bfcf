--------------------------- MODULE ListOpsProofs ---------------------------
(***************************************************************************)
(* What the operators of ListOps return, for every list of integers and    *)
(* every argument a request can carry: how long the result is, which items *)
(* it holds, and that it ascends where the list did.                       *)
(***************************************************************************)
EXTENDS ListOps, InductionFacts, SequenceTheorems, FiniteSetTheorems

-----------------------------------------------------------------------------
(* One emplace. *)

(* t is s with e inserted before position p. *)
IsInsert(s, p, e, t) ==
  /\ t \in Seq(Int)
  /\ Len(t) = Len(s) + 1
  /\ \A k \in 1..(p - 1) : t[k] = s[k]
  /\ t[p] = e
  /\ \A k \in p..Len(s) : t[k + 1] = s[k]

-----------------------------------------------------------------------------
(* What the three emplace calls do. *)

(* list.emplace(itPos, val) is an insertion before itPos. *)
LEMMA InsertAtInserts ==
  ASSUME NEW s \in Seq(Int), NEW p \in 1..(Len(s) + 1), NEW e \in Int
  PROVE  IsInsert(s, p, e, InsertAt(s, p, e))
<1> DEFINE front == SubSeq(s, 1, p - 1)
           rear  == SubSeq(s, p, Len(s))
           one   == <<e>>
           mid   == front \o one
           all   == mid \o rear
<1>1. Len(s) \in Nat /\ p \in Nat
  BY LenProperties
<1>2. /\ front \in Seq(Int) /\ Len(front) = p - 1
      /\ \A k \in 1..(p - 1) : front[k] = s[k]
  <2>1. \A k \in 1..(p - 1) : s[k] \in Int
    BY <1>1, ElementOfSeq
  <2>2. QED
    BY <1>1, <2>1, SubSeqProperties
<1>3. /\ rear \in Seq(Int) /\ Len(rear) = Len(s) + 1 - p
      /\ \A k \in 1..(Len(s) + 1 - p) : rear[k] = s[p + k - 1]
  <2>1. \A k \in p..Len(s) : s[k] \in Int
    BY <1>1, ElementOfSeq
  <2>2. QED
    BY <1>1, <2>1, SubSeqProperties
<1>4. one \in Seq(Int) /\ Len(one) = 1 /\ one[1] = e
  OBVIOUS
<1> HIDE DEF front, rear, one
<1>5. /\ mid \in Seq(Int) /\ Len(mid) = Len(front) + Len(one)
      /\ \A k \in 1..(Len(front) + Len(one)) :
           mid[k] = IF k <= Len(front) THEN front[k] ELSE one[k - Len(front)]
  BY <1>2, <1>4, ConcatProperties
<1> HIDE DEF mid
<1>6. /\ all \in Seq(Int) /\ Len(all) = Len(mid) + Len(rear)
      /\ \A k \in 1..(Len(mid) + Len(rear)) :
           all[k] = IF k <= Len(mid) THEN mid[k] ELSE rear[k - Len(mid)]
  <2>1. mid \in Seq(Int)
    BY <1>5
  <2>2. rear \in Seq(Int)
    BY <1>3
  <2>3. QED
    BY <2>1, <2>2, ConcatProperties
<1> HIDE DEF all
<1>7. Len(mid) = p /\ Len(all) = Len(s) + 1
  BY <1>1, <1>2, <1>3, <1>4, <1>5, <1>6
<1>8. ASSUME NEW k \in 1..(p - 1) PROVE all[k] = s[k]
  <2>1. all[k] = mid[k]
    BY <1>1, <1>3, <1>6, <1>7
  <2>2. mid[k] = front[k]
    BY <1>1, <1>2, <1>4, <1>5
  <2>3. QED
    BY <1>2, <2>1, <2>2
<1>9. all[p] = e
  <2>1. all[p] = mid[p]
    BY <1>1, <1>3, <1>6, <1>7
  <2>2. mid[p] = one[p - Len(front)]
    BY <1>1, <1>2, <1>4, <1>5
  <2>3. p - Len(front) = 1
    BY <1>1, <1>2
  <2>4. QED
    BY <1>4, <2>1, <2>2, <2>3
<1>10. ASSUME NEW k \in p..Len(s) PROVE all[k + 1] = s[k]
  <2>1. /\ k + 1 \in 1..(Len(mid) + Len(rear)) /\ ~(k + 1 <= Len(mid))
        /\ k + 1 - Len(mid) = k + 1 - p
        /\ k + 1 - p \in 1..(Len(s) + 1 - p)
        /\ p + (k + 1 - p) - 1 = k
    <3>1. /\ Len(s) \in Nat /\ p \in Nat /\ k \in Int /\ p <= k /\ k <= Len(s)
          /\ Len(mid) = p /\ Len(rear) = Len(s) + 1 - p
      BY <1>1, <1>3, <1>7
    <3>2. QED
      BY <3>1
  <2>2. all[k + 1] = rear[k + 1 - p]
    <3>1. \A n \in 1..(Len(mid) + Len(rear)) :
            ~(n <= Len(mid)) => all[n] = rear[n - Len(mid)]
      BY <1>6
    <3>2. all[k + 1] = rear[(k + 1) - Len(mid)]
      BY <2>1, <3>1, Zenon
    <3>3. QED
      BY <1>7, <3>2
  <2>3. rear[k + 1 - p] = s[k]
    BY <1>3, <2>1
  <2>4. QED
    BY <2>2, <2>3
<1>11. InsertAt(s, p, e) = all
  BY DEF InsertAt, all, mid, one, front, rear
<1>12. QED
  BY <1>6, <1>7, <1>8, <1>9, <1>10, <1>11 DEF IsInsert

(* list.emplace_front(val) is an insertion before the head. *)
LEMMA PushFrontInserts ==
  ASSUME NEW s \in Seq(Int), NEW e \in Int
  PROVE  IsInsert(s, 1, e, <<e>> \o s)
BY DEF IsInsert

(* list.emplace_back(val) is an insertion before end(). *)
LEMMA AppendInserts ==
  ASSUME NEW s \in Seq(Int), NEW e \in Int
  PROVE  IsInsert(s, Len(s) + 1, e, Append(s, e))
BY DEF IsInsert

(* An insertion between smaller-or-equal and greater-or-equal nodes keeps the
   order. *)
LEMMA InsertKeepsAscending ==
  ASSUME NEW s \in Seq(Int), NEW p \in 1..(Len(s) + 1), NEW e \in Int, NEW t,
         IsInsert(s, p, e, t), Ascending(s),
         \A q \in 1..(p - 1) : s[q] <= e,
         \A q \in p..Len(s) : e <= s[q]
  PROVE  Ascending(t)
<1> SUFFICES ASSUME NEW a \in 1..(Len(s) + 1), NEW b \in 1..(Len(s) + 1), a <= b
             PROVE  t[a] <= t[b]
  BY DEF Ascending, IsInsert
<1>1. Len(s) \in Nat /\ p \in Nat
  BY LenProperties
<1>2. CASE a < p /\ b < p
  <2>1. a \in 1..(p - 1) /\ b \in 1..(p - 1) /\ a \in 1..Len(s) /\ b \in 1..Len(s)
    BY <1>1, <1>2
  <2>2. t[a] = s[a] /\ t[b] = s[b]
    BY <2>1 DEF IsInsert
  <2>3. QED
    BY <2>1, <2>2 DEF Ascending
<1>3. CASE a < p /\ b = p
  <2>1. a \in 1..(p - 1)
    BY <1>1, <1>3
  <2>2. t[a] = s[a] /\ t[p] = e
    BY <2>1 DEF IsInsert
  <2>3. QED
    BY <1>3, <2>1, <2>2
<1>4. CASE a < p /\ b > p
  <2>1. t[a] = s[a] /\ a \in 1..Len(s)
    BY <1>1, <1>4 DEF IsInsert
  <2>2. b - 1 \in p..Len(s) /\ (b - 1) + 1 = b /\ b - 1 \in 1..Len(s) /\ a <= b - 1
    BY <1>1, <1>4
  <2>3. t[b] = s[b - 1]
    BY <2>2 DEF IsInsert
  <2>4. QED
    BY <2>1, <2>2, <2>3 DEF Ascending
<1>5. CASE a = p /\ b = p
  BY <1>5 DEF IsInsert
<1>6. CASE a = p /\ b > p
  <2>1. b - 1 \in p..Len(s) /\ (b - 1) + 1 = b
    BY <1>1, <1>6
  <2>2. t[b] = s[b - 1]
    BY <2>1 DEF IsInsert
  <2>3. QED
    BY <1>6, <2>1, <2>2 DEF IsInsert
<1>7. CASE a > p /\ b > p
  <2>1. /\ a - 1 \in p..Len(s) /\ (a - 1) + 1 = a /\ a - 1 \in 1..Len(s)
        /\ b - 1 \in p..Len(s) /\ (b - 1) + 1 = b /\ b - 1 \in 1..Len(s)
        /\ a - 1 <= b - 1
    BY <1>1, <1>7
  <2>2. t[a] = s[a - 1] /\ t[b] = s[b - 1]
    BY <2>1 DEF IsInsert
  <2>3. QED
    BY <2>1, <2>2 DEF Ascending
<1>8. QED
  BY <1>1, <1>2, <1>3, <1>4, <1>5, <1>6, <1>7

(* An insertion adds the inserted value and keeps every other. *)
LEMMA InsertAddsElement ==
  ASSUME NEW s \in Seq(Int), NEW p \in 1..(Len(s) + 1), NEW e \in Int, NEW t,
         IsInsert(s, p, e, t)
  PROVE  Elements(t) = Elements(s) \cup {e}
<1>0. Len(s) \in Nat /\ p \in Nat
  BY LenProperties
<1>1. ASSUME NEW k \in 1..Len(t) PROVE t[k] \in Elements(s) \cup {e}
  <2>1. CASE k < p
    <3>1. t[k] = s[k] /\ k \in 1..Len(s)
      BY <1>0, <2>1 DEF IsInsert
    <3>2. QED
      BY <3>1 DEF Elements
  <2>2. CASE k = p
    BY <2>2 DEF IsInsert
  <2>3. CASE k > p
    <3>1. k - 1 \in p..Len(s) /\ (k - 1) + 1 = k /\ k - 1 \in 1..Len(s)
      BY <1>0, <2>3 DEF IsInsert
    <3>2. t[k] = s[k - 1]
      BY <3>1 DEF IsInsert
    <3>3. QED
      BY <3>1, <3>2 DEF Elements
  <2>4. QED
    BY <1>0, <2>1, <2>2, <2>3 DEF IsInsert
<1>2. ASSUME NEW k \in 1..Len(s) PROVE s[k] \in Elements(t)
  <2>1. CASE k < p
    <3>1. k \in 1..Len(t) /\ t[k] = s[k]
      BY <1>0, <2>1 DEF IsInsert
    <3>2. QED
      BY <3>1 DEF Elements
  <2>2. CASE k >= p
    <3>1. k + 1 \in 1..Len(t) /\ t[k + 1] = s[k]
      BY <1>0, <2>2 DEF IsInsert
    <3>2. QED
      BY <3>1 DEF Elements
  <2>3. QED
    BY <1>0, <2>1, <2>2
<1>3. e \in Elements(t)
  <2>1. p \in 1..Len(t) /\ t[p] = e
    BY <1>0 DEF IsInsert
  <2>2. QED
    BY <2>1 DEF Elements
<1>4. QED
  BY <1>1, <1>2, <1>3 DEF Elements

(* The node std::lower_bound finds separates the smaller nodes from the rest, if
   those before the start of its search are not above the value. *)
LEMMA LowerBoundSeparates ==
  ASSUME NEW s \in Seq(Int), NEW from \in Nat \ {0}, NEW e \in Int, NEW p,
         Ascending(s), IsLowerBound(s, from, e, p),
         \A q \in 1..(from - 1) : q \in 1..Len(s) /\ s[q] <= e
  PROVE  /\ p \in 1..(Len(s) + 1)
         /\ \A q \in 1..(p - 1) : s[q] <= e
         /\ \A q \in p..Len(s) : e <= s[q]
<1>1. Len(s) \in Nat /\ p \in Nat /\ p >= from /\ p <= Len(s) + 1
  BY LenProperties DEF IsLowerBound
<1>2. ASSUME NEW q \in 1..(p - 1) PROVE s[q] <= e
  <2>1. CASE q < from
    BY <1>1, <2>1
  <2>2. CASE q >= from
    <3>1. q \in from..(p - 1) /\ q \in 1..Len(s)
      BY <1>1, <2>2
    <3>2. s[q] < e /\ s[q] \in Int
      BY <3>1, ElementOfSeq DEF IsLowerBound
    <3>3. QED
      BY <3>2
  <2>3. QED
    BY <1>1, <2>1, <2>2
<1>3. ASSUME NEW q \in p..Len(s) PROVE e <= s[q]
  <2>1. p \in 1..Len(s) /\ q \in 1..Len(s) /\ p <= q
    BY <1>1
  <2>2. s[p] >= e /\ s[p] <= s[q] /\ s[p] \in Int /\ s[q] \in Int
    BY <2>1, ElementOfSeq DEF IsLowerBound, Ascending
  <2>3. QED
    BY <2>2
<1>4. QED
  BY <1>1, <1>2, <1>3

(* One emplace of items[i] before position p: type, order, length and content, for
   the four loops to share. *)
LEMMA EmplaceStep ==
  ASSUME NEW s \in Seq(Int), NEW p \in 1..(Len(s) + 1), NEW e \in Int, NEW t,
         IsInsert(s, p, e, t), Ascending(s),
         \A q \in 1..(p - 1) : s[q] <= e,
         \A q \in p..Len(s) : e <= s[q]
  PROVE  /\ t \in Seq(Int) /\ Ascending(t) /\ Len(t) = Len(s) + 1
         /\ t[p] = e /\ p \in 1..Len(t) /\ Elements(t) = Elements(s) \cup {e}
<1>1. Ascending(t)
  BY InsertKeepsAscending
<1>2. Elements(t) = Elements(s) \cup {e}
  BY InsertAddsElement
<1>3. QED
  BY <1>1, <1>2, LenProperties DEF IsInsert

-----------------------------------------------------------------------------
(* Sequences and the items they hold. *)

(* A list of integers that holds only values of V is a list of V. *)
LEMMA SeqOfItsElements ==
  ASSUME NEW V, NEW s \in Seq(Int), Elements(s) \subseteq V
  PROVE  s \in Seq(V)
<1>1. Len(s) \in Nat /\ s = [p \in 1..Len(s) |-> s[p]]
  BY LenProperties
<1>2. \A p \in 1..Len(s) : s[p] \in V
  BY DEF Elements
<1>3. [p \in 1..Len(s) |-> s[p]] \in Seq(V)
  BY <1>1, <1>2
<1>4. QED
  BY <1>1, <1>3

(* A list of V, V being integers, is a list of integers and holds only values of V. *)
LEMMA ElementsOfSeq ==
  ASSUME NEW V \in SUBSET Int, NEW s \in Seq(V)
  PROVE  s \in Seq(Int) /\ Elements(s) \subseteq V /\ Len(s) \in Nat
  BY SeqMonotonic, ElementOfSeq, LenProperties DEF Elements

-----------------------------------------------------------------------------
(* Positions. *)

(* A valid range starts inside the list and ends inside it or at its end. *)
LEMMA IndicesInBounds ==
  ASSUME NEW list, Len(list) \in Nat, NEW range, range.start \in Int, range.stop \in Int
  PROVE  LET ix == PositionsToIndices(range, list)
         IN  /\ ix.valid \in BOOLEAN
             /\ ix = [valid |-> ix.valid, begin |-> ix.begin, last |-> ix.last]
             /\ ix.begin \in Int /\ ix.last \in Int
             /\ ix.valid => ix.begin \in 0..(Len(list) - 1) /\ ix.last \in 0..Len(list)
<1> DEFINE size  == Len(list)
           end   == IF range.hasStop THEN range.stop ELSE size
           begin == IF range.start < 0 THEN size + range.start ELSE range.start
           last  == LesserOf(size, IF end < 0 THEN AbsOf(size + end) ELSE end)
           out   == range.start >= size \/ AbsOf(range.start) > size
<1>1. PositionsToIndices(range, list) =
        IF out THEN [valid |-> FALSE, begin |-> 0, last |-> 0]
        ELSE [valid |-> TRUE, begin |-> begin, last |-> last]
  BY DEF PositionsToIndices
<1>2. end \in Int
  OBVIOUS
<1>3. last \in Int /\ last \in 0..size
  <2> HIDE DEF end
  <2>1. QED
    BY <1>2 DEF LesserOf, AbsOf
<1>4. begin \in Int /\ (~out => begin \in 0..(size - 1))
  BY DEF AbsOf
<1> HIDE DEF end, begin, last, out
<1>5. CASE out
  <2>1. PositionsToIndices(range, list) = [valid |-> FALSE, begin |-> 0, last |-> 0]
    BY <1>1, <1>5
  <2>2. QED
    BY <2>1
<1>6. CASE ~out
  <2>1. PositionsToIndices(range, list) = [valid |-> TRUE, begin |-> begin, last |-> last]
    BY <1>1, <1>6
  <2>2. QED
    BY <1>3, <1>4, <1>6, <2>1
<1>7. QED
  BY <1>5, <1>6

(* What positionsToIterators returns is such a range, and not empty. *)
LEMMA IteratorsInBounds ==
  ASSUME NEW list, Len(list) \in Nat, NEW range, range.start \in Int, range.stop \in Int
  PROVE  LET it == PositionsToIterators(range, list)
             ix == PositionsToIndices(range, list)
         IN  /\ it.valid <=> ix.valid /\ ix.begin < ix.last
             /\ it.begin = ix.begin /\ it.last = ix.last
             /\ it.valid => it.begin \in 0..(Len(list) - 1) /\ it.last \in (it.begin + 1)..Len(list)
<1> DEFINE ix == PositionsToIndices(range, list)
           it == PositionsToIterators(range, list)
<1>1. /\ ix.valid \in BOOLEAN
      /\ ix = [valid |-> ix.valid, begin |-> ix.begin, last |-> ix.last]
      /\ ix.begin \in Int /\ ix.last \in Int
      /\ ix.valid => ix.begin \in 0..(Len(list) - 1) /\ ix.last \in 0..Len(list)
  BY IndicesInBounds
<1>2. it = [ix EXCEPT !.valid = ix.valid /\ ix.begin < ix.last]
  BY DEF PositionsToIterators
<1> HIDE DEF ix
<1>3. it = [valid |-> ix.valid /\ ix.begin < ix.last, begin |-> ix.begin, last |-> ix.last]
  BY <1>1, <1>2
<1> HIDE DEF it
<1>4. (it.valid <=> ix.valid /\ ix.begin < ix.last) /\ it.begin = ix.begin /\ it.last = ix.last
  BY <1>3
<1>5. it.valid => it.begin \in 0..(Len(list) - 1) /\ it.last \in (it.begin + 1)..Len(list)
  BY <1>1, <1>4
<1>6. QED
  BY <1>4, <1>5 DEF it, ix

(* The unsorted add inserts at a node or at end(). *)
LEMMA StartIteratorInBounds ==
  ASSUME NEW list, Len(list) \in Nat, NEW start \in Int
  PROVE  PositionToStartIterator(start, list) \in 1..(Len(list) + 1)
<1> DEFINE range == [start |-> start, stop |-> 0, hasStop |-> FALSE]
           it == PositionsToIterators(range, list)
<1>1. range.start \in Int /\ range.stop \in Int
  OBVIOUS
<1> HIDE DEF range
<1>2. it.valid => it.begin \in 0..(Len(list) - 1)
  BY <1>1, IteratorsInBounds
<1>3. PositionToStartIterator(start, list) = IF it.valid THEN it.begin + 1 ELSE Len(list) + 1
  BY DEF PositionToStartIterator, range
<1> HIDE DEF it
<1>4. QED
  BY <1>2, <1>3

-----------------------------------------------------------------------------
(* Cutting out, and putting in, a block. *)

(* The nodes of list.erase(begin, last). *)
LEMMA CutItems ==
  ASSUME NEW s \in Seq(Int), NEW b \in 0..Len(s), NEW l \in b..Len(s)
  PROVE  /\ Cut(s, b, l) \in Seq(Int)
         /\ Len(Cut(s, b, l)) = Len(s) - (l - b)
         /\ \A k \in 1..(Len(s) - (l - b)) :
              Cut(s, b, l)[k] = IF k <= b THEN s[k] ELSE s[k + (l - b)]
<1> DEFINE front == SubSeq(s, 1, b)
           rear  == SubSeq(s, l + 1, Len(s))
<1>1. Len(s) \in Nat /\ b \in Nat /\ l \in Nat /\ b <= l /\ l <= Len(s)
  BY LenProperties
<1>2. front \in Seq(Int) /\ Len(front) = b /\ \A k \in 1..b : front[k] = s[k]
  <2>1. \A k \in 1..b : s[k] \in Int
    BY <1>1, ElementOfSeq
  <2>2. QED
    BY <1>1, <2>1, SubSeqProperties
<1>3. /\ rear \in Seq(Int) /\ Len(rear) = Len(s) - l
      /\ \A k \in 1..(Len(s) - l) : rear[k] = s[l + k]
  <2>1. \A k \in (l + 1)..Len(s) : s[k] \in Int
    BY <1>1, ElementOfSeq
  <2>2. /\ rear \in Seq(Int)
        /\ Len(rear) = IF l + 1 <= Len(s) THEN Len(s) - (l + 1) + 1 ELSE 0
        /\ \A k \in 1..(Len(s) - (l + 1) + 1) : rear[k] = s[(l + 1) + k - 1]
    BY <1>1, <2>1, SubSeqProperties
  <2>3. Len(rear) = Len(s) - l /\ Len(s) - (l + 1) + 1 = Len(s) - l
    BY <1>1, <2>2
  <2>4. \A k \in 1..(Len(s) - l) : (l + 1) + k - 1 = l + k
    BY <1>1
  <2> HIDE DEF rear
  <2>5. QED
    BY <2>2, <2>3, <2>4
<1>4. Cut(s, b, l) = front \o rear
  BY DEF Cut
<1> HIDE DEF front, rear
<1>5. /\ front \o rear \in Seq(Int) /\ Len(front \o rear) = Len(front) + Len(rear)
      /\ \A k \in 1..(Len(front) + Len(rear)) :
           (front \o rear)[k] = IF k <= Len(front) THEN front[k] ELSE rear[k - Len(front)]
  BY <1>2, <1>3, ConcatProperties
<1>6. ASSUME NEW k \in 1..(Len(s) - (l - b))
      PROVE  (front \o rear)[k] = IF k <= b THEN s[k] ELSE s[k + (l - b)]
  <2>1. Len(front) = b /\ Len(rear) = Len(s) - l /\ k \in 1..(Len(front) + Len(rear))
    BY <1>1, <1>2, <1>3
  <2>2. (front \o rear)[k] = IF k <= b THEN front[k] ELSE rear[k - b]
    BY <1>5, <2>1
  <2>3. CASE k <= b
    BY <1>1, <1>2, <2>2, <2>3
  <2>4. CASE ~(k <= b)
    <3>1. k - b \in 1..(Len(s) - l) /\ l + (k - b) = k + (l - b)
      BY <1>1, <2>4
    <3>2. rear[k - b] = s[l + (k - b)]
      BY <1>3, <3>1
    <3>3. QED
      BY <2>2, <2>4, <3>1, <3>2
  <2>5. QED
    BY <2>3, <2>4
<1>7. Len(front) + Len(rear) = Len(s) - (l - b)
  BY <1>1, <1>2, <1>3
<1>8. QED
  BY <1>4, <1>5, <1>6, <1>7

(* What is left of an erase: some of the items, in order. *)
LEMMA CutKeeps ==
  ASSUME NEW s \in Seq(Int), NEW b \in 0..Len(s), NEW l \in b..Len(s)
  PROVE  /\ Cut(s, b, l) \in Seq(Int) /\ Len(Cut(s, b, l)) <= Len(s)
         /\ Elements(Cut(s, b, l)) \subseteq Elements(s)
         /\ Ascending(s) => Ascending(Cut(s, b, l))
<1> DEFINE t == Cut(s, b, l)
<1>1. Len(s) \in Nat /\ b \in Nat /\ l \in Nat /\ b <= l /\ l <= Len(s)
  BY LenProperties
<1>2. /\ t \in Seq(Int) /\ Len(t) = Len(s) - (l - b)
      /\ \A k \in 1..(Len(s) - (l - b)) : t[k] = IF k <= b THEN s[k] ELSE s[k + (l - b)]
  BY CutItems
<1> HIDE DEF t
<1> DEFINE at(k) == IF k <= b THEN k ELSE k + (l - b)
<1>3. \A k \in 1..Len(t) : at(k) \in 1..Len(s) /\ t[k] = s[at(k)]
  BY <1>1, <1>2
<1>4. \A j, k \in 1..Len(t) : j <= k => at(j) <= at(k)
  BY <1>1, <1>2
<1> HIDE DEF at
<1>5. Elements(t) \subseteq Elements(s)
  BY <1>3 DEF Elements
<1>6. Ascending(s) => Ascending(t)
  BY <1>3, <1>4 DEF Ascending
<1>7. QED
  BY <1>1, <1>2, <1>5, <1>6 DEF t

(* Two lists one behind the other. *)
LEMMA ConcatKeeps ==
  ASSUME NEW s \in Seq(Int), NEW t \in Seq(Int)
  PROVE  /\ s \o t \in Seq(Int) /\ Len(s \o t) = Len(s) + Len(t)
         /\ Elements(s \o t) = Elements(s) \cup Elements(t)
         /\ Ascending(s) /\ Ascending(t) /\ (s # <<>> /\ t # <<>> => s[Len(s)] <= t[1])
              => Ascending(s \o t)
<1> DEFINE u == s \o t
<1>1. Len(s) \in Nat /\ Len(t) \in Nat
  BY LenProperties
<1>2. /\ u \in Seq(Int) /\ Len(u) = Len(s) + Len(t)
      /\ \A k \in 1..(Len(s) + Len(t)) : u[k] = IF k <= Len(s) THEN s[k] ELSE t[k - Len(s)]
  BY ConcatProperties
<1> HIDE DEF u
<1>3. \A k \in 1..Len(s) : k \in 1..Len(u) /\ u[k] = s[k]
  BY <1>1, <1>2
<1>4. ASSUME NEW k \in 1..Len(t) PROVE Len(s) + k \in 1..Len(u) /\ u[Len(s) + k] = t[k]
  <2> DEFINE n == Len(s) + k
  <2>1. n \in 1..(Len(s) + Len(t)) /\ ~(n <= Len(s)) /\ n - Len(s) = k
    BY <1>1
  <2> HIDE DEF n
  <2>2. u[n] = t[k]
    BY <1>2, <2>1
  <2>3. QED
    BY <1>2, <2>1, <2>2 DEF n
<1>5. \A k \in 1..Len(u) : k \in 1..Len(s) \/ (k - Len(s) \in 1..Len(t) /\ u[k] = t[k - Len(s)])
  BY <1>1, <1>2
<1>6. Elements(u) = Elements(s) \cup Elements(t)
  <2>1. ASSUME NEW k \in 1..Len(u) PROVE u[k] \in Elements(s) \cup Elements(t)
    BY <1>3, <1>5 DEF Elements
  <2>2. ASSUME NEW k \in 1..Len(s) PROVE s[k] \in Elements(u)
    BY <1>3 DEF Elements
  <2>3. ASSUME NEW k \in 1..Len(t) PROVE t[k] \in Elements(u)
    <3>1. Len(s) + k \in 1..Len(u) /\ u[Len(s) + k] = t[k]
      BY <1>4
    <3>2. QED
      BY <3>1 DEF Elements
  <2>4. QED
    BY <2>1, <2>2, <2>3 DEF Elements
<1>7. ASSUME Ascending(s), Ascending(t), s # <<>> /\ t # <<>> => s[Len(s)] <= t[1],
             NEW j \in 1..Len(u), NEW k \in 1..Len(u), j <= k
      PROVE  u[j] <= u[k]
  <2>1. CASE k \in 1..Len(s)
    <3>1. j \in 1..Len(s)
      BY <1>1, <1>7, <2>1
    <3>2. QED
      BY <1>3, <1>7, <2>1, <3>1 DEF Ascending
  <2>2. CASE j \notin 1..Len(s)
    <3>1. /\ k \notin 1..Len(s)
          /\ j - Len(s) <= k - Len(s)
      BY <1>1, <1>7, <2>2
    <3>2. QED
      BY <1>5, <1>7, <2>2, <3>1 DEF Ascending
  <2>3. CASE j \in 1..Len(s) /\ k \notin 1..Len(s)
    <3>1. k - Len(s) \in 1..Len(t) /\ u[k] = t[k - Len(s)] /\ u[j] = s[j]
      BY <1>3, <1>5, <2>3
    <3>2. Len(s) \in 1..Len(s) /\ 1 \in 1..Len(t) /\ j <= Len(s) /\ 1 <= k - Len(s)
      BY <1>1, <2>3, <3>1
    <3>3. s[j] <= s[Len(s)] /\ t[1] <= t[k - Len(s)] /\ s[Len(s)] <= t[1]
      BY <1>7, <2>3, <3>1, <3>2, EmptySeq DEF Ascending
    <3>4. s[j] \in Int /\ s[Len(s)] \in Int /\ t[1] \in Int /\ t[k - Len(s)] \in Int
      BY <2>3, <3>1, <3>2, ElementOfSeq
    <3>5. s[j] <= t[k - Len(s)]
      BY <3>3, <3>4
    <3>6. QED
      BY <3>1, <3>5
  <2>4. QED
    BY <2>1, <2>2, <2>3
<1>8. Ascending(s) /\ Ascending(t) /\ (s # <<>> /\ t # <<>> => s[Len(s)] <= t[1]) => Ascending(u)
  BY <1>7 DEF Ascending
<1>9. QED
  BY <1>2, <1>6, <1>8 DEF u

(* One item behind the last. *)
LEMMA AppendKeeps ==
  ASSUME NEW s \in Seq(Int), NEW e \in Int
  PROVE  /\ Append(s, e) \in Seq(Int) /\ Len(Append(s, e)) = Len(s) + 1
         /\ Elements(Append(s, e)) = Elements(s) \cup {e}
         /\ Ascending(s) /\ (\A q \in 1..Len(s) : s[q] <= e) => Ascending(Append(s, e))
<1> DEFINE p == Len(s) + 1
           t == Append(s, e)
<1>1. IsInsert(s, p, e, t)
  BY AppendInserts
<1>2. p \in 1..(Len(s) + 1) /\ Len(s) \in Nat /\ p - 1 = Len(s) /\ p..Len(s) = {}
  BY LenProperties
<1> HIDE DEF p, t
<1>3. Elements(t) = Elements(s) \cup {e}
  BY <1>1, <1>2, InsertAddsElement
<1>4. ASSUME Ascending(s), \A q \in 1..Len(s) : s[q] <= e PROVE Ascending(t)
  <2>1. (\A q \in 1..(p - 1) : s[q] <= e) /\ (\A q \in p..Len(s) : e <= s[q])
    BY <1>2, <1>4
  <2>2. QED
    BY <1>1, <1>2, <1>4, <2>1, InsertKeepsAscending
<1>5. t \in Seq(Int) /\ Len(t) = Len(s) + 1
  BY <1>1 DEF IsInsert
<1>6. QED
  BY <1>3, <1>4, <1>5 DEF t

-----------------------------------------------------------------------------
(* Keeping some items. *)

(* ItemsAt walks the list once, appending the items it keeps. *)
LEMMA ItemsAtRecursion ==
  ASSUME NEW s \in Seq(Int), NEW P
  PROVE  \E f \in [0..Len(s) -> Seq(Int)] :
           /\ f[0] = <<>>
           /\ \A k \in 1..Len(s) : f[k] = IF k \in P THEN Append(f[k - 1], s[k]) ELSE f[k - 1]
           /\ ItemsAt(s, P) = f[Len(s)]
<1> DEFINE n == Len(s)
           upTo[p \in 0..Len(s)] ==
             IF p = 0 THEN <<>> ELSE IF p \in P THEN Append(upTo[p - 1], s[p]) ELSE upTo[p - 1]
           Walk(g) == g = [p \in 0..Len(s) |->
             IF p = 0 THEN <<>> ELSE IF p \in P THEN Append(g[p - 1], s[p]) ELSE g[p - 1]]
           step == [x \in Seq(Int) \X (1..n) |-> IF x[2] \in P THEN Append(x[1], s[x[2]]) ELSE x[1]]
<1>1. n \in Nat /\ <<>> \in Seq(Int)
  BY LenProperties, EmptySeq
<1>2. step \in [Seq(Int) \X (1..n) -> Seq(Int)]
  <2>1. ASSUME NEW t \in Seq(Int), NEW k \in 1..n PROVE Append(t, s[k]) \in Seq(Int)
    BY ElementOfSeq, AppendProperties
  <2>2. QED
    BY <2>1
<1>3. \A t \in Seq(Int), k \in 1..n :
        step[<<t, k>>] = IF k \in P THEN Append(t, s[k]) ELSE t
  OBVIOUS
<1> HIDE DEF step
<1>4. PICK f : Iterates(f, n, Seq(Int), <<>>, step)
  <2> HIDE DEF n
  <2>1. QED
    BY <1>1, <1>2, RecursionExists
<1>5. f \in [0..n -> Seq(Int)] /\ f[0] = <<>> /\ \A k \in 1..n : f[k] = step[<<f[k - 1], k>>]
  BY <1>4 DEF Iterates
<1>6. ASSUME NEW k \in 1..n
      PROVE  f[k] = IF k \in P THEN Append(f[k - 1], s[k]) ELSE f[k - 1]
  <2>1. k - 1 \in 0..n
    BY <1>1
  <2>2. f[k - 1] \in Seq(Int) /\ f[k] = step[<<f[k - 1], k>>]
    BY <1>5, <2>1
  <2>3. QED
    BY <1>3, <2>2
<1>7. Walk(f)
  <2>1. \A k \in 0..n : k = 0 \/ k \in 1..n
    BY <1>1
  <2>2. f = [k \in 0..n |-> f[k]]
    BY <1>5
  <2>3. \A k \in 0..n :
          f[k] = IF k = 0 THEN <<>> ELSE IF k \in P THEN Append(f[k - 1], s[k]) ELSE f[k - 1]
    BY <1>5, <1>6, <2>1
  <2>4. QED
    BY <2>2, <2>3
<1>8. ItemsAt(s, P) = upTo[Len(s)] /\ upTo = CHOOSE g : Walk(g)
  BY DEF ItemsAt
<1> HIDE DEF upTo
<1>9. Walk(upTo)
  <2> HIDE DEF Walk
  <2>1. QED
    BY <1>7, <1>8
<1>10. upTo[0] = f[0]
  BY <1>1, <1>5, <1>9
<1>11. ASSUME NEW k \in 1..n, upTo[k - 1] = f[k - 1] PROVE upTo[k] = f[k]
  <2>1. k \in 0..n /\ k # 0
    BY <1>1
  <2>2. upTo[k] = IF k \in P THEN Append(upTo[k - 1], s[k]) ELSE upTo[k - 1]
    BY <1>9, <2>1
  <2>3. QED
    BY <1>6, <1>11, <2>2
<1>12. upTo[n] = f[n]
  <2> HIDE DEF n, Walk
  <2>1. GoOnAlike(upTo, f, n)
    BY <1>10, <1>11 DEF GoOnAlike
  <2>2. \A k \in 0..n : upTo[k] = f[k]
    BY <1>1, <2>1, RecursionUnique
  <2>3. n \in 0..n
    BY <1>1
  <2>4. QED
    BY <2>2, <2>3
<1>13. QED
  BY <1>5, <1>6, <1>8, <1>12

(* Items kept in order: no more of them, no others, and ascending if they were. *)
LEMMA ItemsAtKeeps ==
  ASSUME NEW s \in Seq(Int), NEW P
  PROVE  /\ ItemsAt(s, P) \in Seq(Int) /\ Len(ItemsAt(s, P)) <= Len(s)
         /\ Elements(ItemsAt(s, P)) = {s[p] : p \in {q \in 1..Len(s) : q \in P}}
         /\ Ascending(s) => Ascending(ItemsAt(s, P))
<1> DEFINE n == Len(s)
           taken(k) == {s[p] : p \in {q \in 1..k : q \in P}}
<1>1. n \in Nat /\ <<>> \in Seq(Int) /\ Len(<<>>) = 0
  BY LenProperties, EmptySeq
<1>2. PICK f \in [0..n -> Seq(Int)] :
           /\ f[0] = <<>>
           /\ \A k \in 1..n : f[k] = IF k \in P THEN Append(f[k - 1], s[k]) ELSE f[k - 1]
           /\ ItemsAt(s, P) = f[n]
  BY ItemsAtRecursion
<1> DEFINE Kept(k) == /\ Len(f[k]) <= k /\ Elements(f[k]) = taken(k)
                      /\ Ascending(s) => Ascending(f[k])
           S == {k \in 0..n : Kept(k)}
<1>3. Kept(0)
  BY <1>1, <1>2 DEF Elements, Ascending
<1>4. ASSUME NEW k \in 0..(n - 1), Kept(k) PROVE Kept(k + 1)
  <2>0. k + 1 \in 1..n /\ (k + 1) - 1 = k /\ k \in 0..n
    BY <1>1
  <2>1. /\ f[k] \in Seq(Int)
        /\ f[k + 1] = IF k + 1 \in P THEN Append(f[k], s[k + 1]) ELSE f[k]
    <3> HIDE DEF n
    <3>1. f[k + 1] = IF k + 1 \in P THEN Append(f[(k + 1) - 1], s[k + 1]) ELSE f[(k + 1) - 1]
      BY <1>2, <2>0
    <3>2. QED
      BY <1>2, <2>0, <3>1
  <2>2. CASE k + 1 \notin P
    <3>1. taken(k + 1) = taken(k)
      <4>1. {q \in 1..(k + 1) : q \in P} = {q \in 1..k : q \in P}
        BY <2>2
      <4>2. QED
        BY <4>1
    <3>2. f[k + 1] = f[k] /\ Len(f[k]) \in Nat
      BY <2>1, <2>2, LenProperties
    <3> HIDE DEF taken
    <3>3. QED
      BY <1>4, <3>1, <3>2
  <2>3. CASE k + 1 \in P
    <3>1. f[k + 1] = Append(f[k], s[k + 1]) /\ s[k + 1] \in Int
      BY <2>0, <2>1, <2>3, ElementOfSeq
    <3>3. Len(f[k]) \in Nat
      BY <2>1, LenProperties
    <3>4. /\ Len(f[k + 1]) = Len(f[k]) + 1 /\ Elements(f[k + 1]) = Elements(f[k]) \cup {s[k + 1]}
          /\ Ascending(f[k]) /\ (\A q \in 1..Len(f[k]) : f[k][q] <= s[k + 1]) => Ascending(f[k + 1])
      BY <2>1, <3>1, AppendKeeps
    <3>5. taken(k + 1) = taken(k) \cup {s[k + 1]}
      <4>1. {q \in 1..(k + 1) : q \in P} = {q \in 1..k : q \in P} \cup {k + 1}
        BY <2>3
      <4>2. QED
        BY <4>1
    <3>6. ASSUME Ascending(s) PROVE Ascending(f[k + 1])
      <4>1. ASSUME NEW q \in 1..Len(f[k]) PROVE f[k][q] <= s[k + 1]
        <5>1. f[k][q] \in taken(k)
          BY <1>4 DEF Elements
        <5>2. PICK p \in 1..k : f[k][q] = s[p]
          BY <5>1
        <5>3. p \in 1..n /\ p <= k + 1
          BY <1>1
        <5>4. QED
          BY <2>0, <3>6, <5>2, <5>3 DEF Ascending
      <4>2. QED
        BY <1>4, <3>4, <3>6, <4>1
    <3> HIDE DEF taken
    <3>7. QED
      BY <1>1, <1>4, <3>3, <3>4, <3>5, <3>6
  <2>4. QED
    BY <2>2, <2>3
<1> HIDE DEF Kept
<1>5. 0 \in S /\ \A k \in 0..(n - 1) : k \in S => k + 1 \in S
  BY <1>1, <1>3, <1>4
<1>6. \A k \in 0..n : k \in S
  <2> HIDE DEF S, n
  <2>1. QED
    BY <1>1, <1>5, BoundedInduction
<1>7. Kept(n) /\ f[n] \in Seq(Int)
  BY <1>1, <1>2, <1>6
<1>8. QED
  BY <1>2, <1>7 DEF Kept

-----------------------------------------------------------------------------
(* Searches. *)

(* std::lower_bound finds its place in every list. *)
LEMMA LowerBoundFound ==
  ASSUME NEW s \in Seq(Int), NEW from \in 1..(Len(s) + 1), NEW val \in Int
  PROVE  IsLowerBound(s, from, val, LowerBound(s, from, val))
<1> DEFINE S == {p \in from..(Len(s) + 1) : p <= Len(s) => s[p] >= val}
<1>1. Len(s) \in Nat /\ from \in Nat
  BY LenProperties
<1>2. S \in SUBSET Nat /\ Len(s) + 1 \in S
  BY <1>1
<1>3. PICK m \in S : \A k \in S : m <= k
  <2> HIDE DEF S
  <2>1. QED
    BY <1>2, LeastNatural
<1>4. m \in from..(Len(s) + 1) /\ (m <= Len(s) => s[m] >= val)
  OBVIOUS
<1>5. ASSUME NEW q \in from..(m - 1) PROVE s[q] < val
  <2>1. q \in 1..Len(s) /\ q \notin S
    BY <1>1, <1>3, <1>4
  <2>2. s[q] \in Int /\ ~(s[q] >= val)
    BY <1>1, <1>4, <2>1, ElementOfSeq
  <2>3. QED
    BY <2>2
<1>6. IsLowerBound(s, from, val, m)
  BY <1>4, <1>5 DEF IsLowerBound
<1>7. QED
  BY <1>4, <1>6 DEF LowerBound

(* The place a search finds is the only one. *)
LEMMA LowerBoundUnique ==
  ASSUME NEW s \in Seq(Int), NEW from \in 1..(Len(s) + 1), NEW val \in Int, NEW p,
         IsLowerBound(s, from, val, p)
  PROVE  p = LowerBound(s, from, val)
<1> DEFINE q == LowerBound(s, from, val)
<1>1. IsLowerBound(s, from, val, q)
  BY LowerBoundFound
<1> HIDE DEF q
<1>2. Len(s) \in Nat /\ from \in Nat \ {0} /\ p \in from..(Len(s) + 1) /\ q \in from..(Len(s) + 1)
  BY <1>1, LenProperties DEF IsLowerBound
<1>3. ASSUME p < q PROVE FALSE
  <2>1. p \in from..(q - 1) /\ p <= Len(s) /\ p \in 1..Len(s)
    BY <1>2, <1>3
  <2>2. s[p] < val /\ s[p] >= val /\ s[p] \in Int
    BY <1>1, <2>1, ElementOfSeq DEF IsLowerBound
  <2>3. QED
    BY <2>2
<1>4. ASSUME q < p PROVE FALSE
  <2>1. q \in from..(p - 1) /\ q <= Len(s) /\ q \in 1..Len(s)
    BY <1>2, <1>4
  <2>2. s[q] < val /\ s[q] >= val /\ s[q] \in Int
    BY <1>1, <2>1, ElementOfSeq DEF IsLowerBound
  <2>3. QED
    BY <2>2
<1>5. QED
  BY <1>2, <1>3, <1>4 DEF q

IsUpperBound(list, from, val, p) ==
  /\ p \in from..(Len(list) + 1)
  /\ p <= Len(list) => list[p] > val
  /\ \A q \in from..(p - 1) : list[q] <= val

(* So does std::upper_bound. *)
LEMMA UpperBoundFound ==
  ASSUME NEW s \in Seq(Int), NEW from \in 1..(Len(s) + 1), NEW val \in Int
  PROVE  IsUpperBound(s, from, val, UpperBound(s, from, val))
<1> DEFINE S == {p \in from..(Len(s) + 1) : p <= Len(s) => s[p] > val}
           Bound(p) == /\ p <= Len(s) => s[p] > val
                       /\ \A q \in from..(p - 1) : s[q] <= val
<1>1. Len(s) \in Nat /\ from \in Nat
  BY LenProperties
<1>2. S \in SUBSET Nat /\ Len(s) + 1 \in S
  BY <1>1
<1>3. PICK m \in S : \A k \in S : m <= k
  <2> HIDE DEF S
  <2>1. QED
    BY <1>2, LeastNatural
<1>4. m \in from..(Len(s) + 1) /\ (m <= Len(s) => s[m] > val)
  OBVIOUS
<1>5. ASSUME NEW q \in from..(m - 1) PROVE s[q] <= val
  <2>1. q \in 1..Len(s) /\ q \notin S
    BY <1>1, <1>3, <1>4
  <2>2. s[q] \in Int /\ ~(s[q] > val)
    BY <1>1, <1>4, <2>1, ElementOfSeq
  <2>3. QED
    BY <2>2
<1>6. Bound(m)
  BY <1>4, <1>5
<1>7. UpperBound(s, from, val) = CHOOSE p \in from..(Len(s) + 1) : Bound(p)
  BY DEF UpperBound
<1>8. UpperBound(s, from, val) \in from..(Len(s) + 1) /\ Bound(UpperBound(s, from, val))
  <2> HIDE DEF Bound
  <2>1. QED
    BY <1>4, <1>6, <1>7
<1>9. QED
  BY <1>8 DEF IsUpperBound

-----------------------------------------------------------------------------
(* The sorted adds. *)

(* One emplace of the sorted add. *)
LEMMA EmplaceSortedInserts ==
  ASSUME NEW s \in Seq(Int), NEW from \in 1..(Len(s) + 1), NEW val \in Int
  PROVE  /\ EmplaceSorted(s, from, val).it = LowerBound(s, from, val)
         /\ LowerBound(s, from, val) \in from..(Len(s) + 1)
         /\ IsInsert(s, LowerBound(s, from, val), val, EmplaceSorted(s, from, val).list)
<1> DEFINE p == LowerBound(s, from, val)
<1>1. IsLowerBound(s, from, val, p)
  BY LowerBoundFound
<1>2. EmplaceSorted(s, from, val) = [list |-> InsertAt(s, p, val), it |-> p]
  BY DEF EmplaceSorted
<1> HIDE DEF p
<1>3. p \in from..(Len(s) + 1) /\ p \in 1..(Len(s) + 1)
  BY <1>1, LenProperties DEF IsLowerBound
<1>4. IsInsert(s, p, val, InsertAt(s, p, val))
  BY <1>3, InsertAtInserts
<1>5. QED
  BY <1>2, <1>3, <1>4 DEF p

(* What it keeps: a search that starts behind smaller nodes keeps the order. *)
LEMMA EmplaceSortedKeeps ==
  ASSUME NEW s \in Seq(Int), NEW from \in 1..(Len(s) + 1), NEW val \in Int
  PROVE  LET to == EmplaceSorted(s, from, val)
         IN  /\ to.list \in Seq(Int) /\ Len(to.list) = Len(s) + 1
             /\ Elements(to.list) = Elements(s) \cup {val}
             /\ to.it \in from..Len(to.list) /\ to.list[to.it] = val
             /\ Ascending(s) /\ (\A q \in 1..(from - 1) : s[q] <= val) => Ascending(to.list)
<1> DEFINE p == LowerBound(s, from, val)
           to == EmplaceSorted(s, from, val)
<1>1. to.it = p /\ p \in from..(Len(s) + 1) /\ IsInsert(s, p, val, to.list)
  BY EmplaceSortedInserts
<1>2. IsLowerBound(s, from, val, p)
  BY LowerBoundFound
<1> HIDE DEF p, to
<1>3. Len(s) \in Nat /\ from \in Nat \ {0} /\ p \in 1..(Len(s) + 1)
  BY <1>1, LenProperties
<1>4. to.list \in Seq(Int) /\ Len(to.list) = Len(s) + 1 /\ to.list[p] = val
  BY <1>1 DEF IsInsert
<1>5. Elements(to.list) = Elements(s) \cup {val}
  BY <1>1, <1>3, InsertAddsElement
<1>6. ASSUME Ascending(s), \A q \in 1..(from - 1) : s[q] <= val PROVE Ascending(to.list)
  <2>1. \A q \in 1..(from - 1) : q \in 1..Len(s) /\ s[q] <= val
    BY <1>3, <1>6
  <2>2. (\A q \in 1..(p - 1) : s[q] <= val) /\ (\A q \in p..Len(s) : val <= s[q])
    BY <1>2, <1>3, <1>6, <2>1, LowerBoundSeparates
  <2>3. QED
    BY <1>1, <1>3, <1>6, <2>2, InsertKeepsAscending
<1>7. to.it \in from..Len(to.list) /\ to.list[to.it] = val
  BY <1>1, <1>3, <1>4
<1>8. QED
  BY <1>4, <1>5, <1>6, <1>7 DEF to

(* A search from begin(). *)
LEMMA EmplaceFromBegin ==
  ASSUME NEW s \in Seq(Int), NEW val \in Int
  PROVE  /\ EmplaceSorted(s, 1, val).list \in Seq(Int)
         /\ Len(EmplaceSorted(s, 1, val).list) = Len(s) + 1
         /\ Elements(EmplaceSorted(s, 1, val).list) = Elements(s) \cup {val}
         /\ Ascending(s) => Ascending(EmplaceSorted(s, 1, val).list)
<1>1. 1 \in 1..(Len(s) + 1) /\ 1..(1 - 1) = {}
  BY LenProperties
<1>2. \A q \in 1..(1 - 1) : s[q] <= val
  BY <1>1
<1>3. QED
  BY <1>1, <1>2, EmplaceSortedKeeps

(* The recursion of InsertEach, for a proof to walk along. *)
LEMMA InsertEachRecursion ==
  ASSUME NEW s \in Seq(Int), NEW items \in Seq(Int)
  PROVE  \E f \in [0..Len(items) -> Seq(Int)] :
           /\ f[0] = s
           /\ \A k \in 1..Len(items) : f[k] = EmplaceSorted(f[k - 1], 1, items[k]).list
           /\ InsertEach(s, items) = f[Len(items)]
<1> DEFINE n == Len(items)
           after[k \in 0..Len(items)] ==
             IF k = 0 THEN s ELSE EmplaceSorted(after[k - 1], 1, items[k]).list
           Walk(g) == g = [k \in 0..Len(items) |->
             IF k = 0 THEN s ELSE EmplaceSorted(g[k - 1], 1, items[k]).list]
           step == [x \in Seq(Int) \X (1..n) |-> EmplaceSorted(x[1], 1, items[x[2]]).list]
<1>1. n \in Nat
  BY LenProperties
<1>2. step \in [Seq(Int) \X (1..n) -> Seq(Int)]
  <2>1. ASSUME NEW t \in Seq(Int), NEW k \in 1..n PROVE EmplaceSorted(t, 1, items[k]).list \in Seq(Int)
    <3>1. items[k] \in Int /\ 1 \in 1..(Len(t) + 1)
      BY ElementOfSeq, LenProperties
    <3>2. QED
      BY <3>1, EmplaceSortedKeeps
  <2>2. QED
    BY <2>1
<1>3. \A t \in Seq(Int), k \in 1..n : step[<<t, k>>] = EmplaceSorted(t, 1, items[k]).list
  OBVIOUS
<1> HIDE DEF step
<1>4. PICK f : Iterates(f, n, Seq(Int), s, step)
  <2> HIDE DEF n
  <2>1. QED
    BY <1>1, <1>2, RecursionExists
<1>5. f \in [0..n -> Seq(Int)] /\ f[0] = s /\ \A k \in 1..n : f[k] = step[<<f[k - 1], k>>]
  BY <1>4 DEF Iterates
<1>6. ASSUME NEW k \in 1..n PROVE f[k] = EmplaceSorted(f[k - 1], 1, items[k]).list
  <2>1. k - 1 \in 0..n
    BY <1>1
  <2>2. f[k - 1] \in Seq(Int) /\ f[k] = step[<<f[k - 1], k>>]
    BY <1>5, <2>1
  <2>3. QED
    BY <1>3, <2>2
<1>7. Walk(f)
  <2>1. \A k \in 0..n : k = 0 \/ k \in 1..n
    BY <1>1
  <2>2. f = [k \in 0..n |-> f[k]]
    BY <1>5
  <2>3. \A k \in 0..n : f[k] = IF k = 0 THEN s ELSE EmplaceSorted(f[k - 1], 1, items[k]).list
    BY <1>5, <1>6, <2>1
  <2>4. QED
    BY <2>2, <2>3
<1>8. InsertEach(s, items) = after[Len(items)] /\ after = CHOOSE g : Walk(g)
  BY DEF InsertEach
<1> HIDE DEF after
<1>9. Walk(after)
  <2> HIDE DEF Walk
  <2>1. QED
    BY <1>7, <1>8
<1>10. after[0] = f[0]
  BY <1>1, <1>5, <1>9
<1>11. ASSUME NEW k \in 1..n, after[k - 1] = f[k - 1] PROVE after[k] = f[k]
  <2>1. k \in 0..n /\ k # 0
    BY <1>1
  <2>2. after[k] = EmplaceSorted(after[k - 1], 1, items[k]).list
    BY <1>9, <2>1
  <2>3. QED
    BY <1>6, <1>11, <2>2
<1>12. after[n] = f[n]
  <2> HIDE DEF n
  <2>1. GoOnAlike(after, f, n)
    BY <1>10, <1>11 DEF GoOnAlike
  <2>2. QED
    BY <1>1, <2>1, RecursionUnique
<1>13. QED
  BY <1>5, <1>6, <1>8, <1>12

(* Each of the items in turn, from begin(): all of them come in, nothing else does,
   and an ascending list stays one, whatever the order of the items. *)
LEMMA InsertEachKeeps ==
  ASSUME NEW s \in Seq(Int), NEW items \in Seq(Int)
  PROVE  /\ InsertEach(s, items) \in Seq(Int)
         /\ Len(InsertEach(s, items)) = Len(s) + Len(items)
         /\ Elements(InsertEach(s, items)) = Elements(s) \cup Elements(items)
         /\ Ascending(s) => Ascending(InsertEach(s, items))
<1> DEFINE n == Len(items)
           given(k) == {items[p] : p \in 1..k}
<1>1. n \in Nat /\ Len(s) \in Nat
  BY LenProperties
<1>2. PICK f \in [0..n -> Seq(Int)] :
           /\ f[0] = s
           /\ \A k \in 1..n : f[k] = EmplaceSorted(f[k - 1], 1, items[k]).list
           /\ InsertEach(s, items) = f[n]
  BY InsertEachRecursion
<1> DEFINE Kept(k) == /\ Len(f[k]) = Len(s) + k
                      /\ Elements(f[k]) = Elements(s) \cup given(k)
                      /\ Ascending(s) => Ascending(f[k])
           S == {k \in 0..n : Kept(k)}
<1>3. Kept(0)
  <2>1. given(0) = {}
    OBVIOUS
  <2> HIDE DEF given
  <2>2. QED
    BY <1>1, <1>2, <2>1
<1>4. ASSUME NEW k \in 0..(n - 1), Kept(k) PROVE Kept(k + 1)
  <2>1. k + 1 \in 1..n /\ (k + 1) - 1 = k /\ k \in 0..n
    BY <1>1
  <2>2. f[k] \in Seq(Int) /\ f[k + 1] = EmplaceSorted(f[k], 1, items[k + 1]).list
    <3> HIDE DEF n
    <3>1. f[k + 1] = EmplaceSorted(f[(k + 1) - 1], 1, items[k + 1]).list
      BY <1>2, <2>1
    <3>2. QED
      BY <1>2, <2>1, <3>1
  <2>3. items[k + 1] \in Int /\ Len(f[k]) \in Nat
    BY <2>1, <2>2, ElementOfSeq, LenProperties
  <2>4. /\ Len(f[k + 1]) = Len(f[k]) + 1
        /\ Elements(f[k + 1]) = Elements(f[k]) \cup {items[k + 1]}
        /\ Ascending(f[k]) => Ascending(f[k + 1])
    BY <2>2, <2>3, EmplaceFromBegin
  <2>5. Ascending(f[k]) => Ascending(f[k + 1])
    BY <2>4
  <2>6. given(k + 1) = given(k) \cup {items[k + 1]}
    <3>1. 1..(k + 1) = (1..k) \cup {k + 1}
      BY <2>1
    <3>2. QED
      BY <3>1
  <2> HIDE DEF given
  <2>7. Elements(f[k + 1]) = Elements(s) \cup given(k + 1)
    BY <1>4, <2>4, <2>6
  <2>8. Len(f[k + 1]) = Len(s) + (k + 1)
    BY <1>1, <1>4, <2>1, <2>3, <2>4
  <2>9. QED
    BY <1>4, <2>5, <2>7, <2>8
<1> HIDE DEF Kept
<1>5. 0 \in S /\ \A k \in 0..(n - 1) : k \in S => k + 1 \in S
  BY <1>1, <1>3, <1>4
<1>6. \A k \in 0..n : k \in S
  <2> HIDE DEF S, n
  <2>1. QED
    BY <1>1, <1>5, BoundedInduction
<1>7. Kept(n) /\ f[n] \in Seq(Int)
  BY <1>1, <1>2, <1>6
<1>8. given(n) = Elements(items)
  BY DEF Elements
<1> HIDE DEF given
<1>9. QED
  BY <1>2, <1>7, <1>8 DEF Kept

(* The iterator the next search of the sorted items starts from: behind it nothing
   is above an item that is not below this one. *)
LEMMA CursorStep ==
  ASSUME NEW s \in Seq(Int), NEW from \in 1..(Len(s) + 1), NEW val \in Int, NEW next \in Int,
         val <= next, Ascending(s), \A q \in 1..(from - 1) : s[q] <= val
  PROVE  LET to == EmplaceSorted(s, from, val)
         IN  Ascending(to.list) /\ \A q \in 1..(to.it - 1) : to.list[q] <= next
<1> DEFINE to == EmplaceSorted(s, from, val)
<1>1. /\ to.list \in Seq(Int) /\ Len(to.list) = Len(s) + 1
      /\ to.it \in from..Len(to.list) /\ to.list[to.it] = val
      /\ Ascending(to.list)
  BY EmplaceSortedKeeps
<1> HIDE DEF to
<1>2. Len(s) \in Nat /\ from \in Nat \ {0}
  BY LenProperties
<1>3. ASSUME NEW q \in 1..(to.it - 1) PROVE to.list[q] <= next
  <2> DEFINE m == Len(to.list)
             i == to.it
  <2>0. m \in Nat /\ i \in from..m /\ q \in 1..(i - 1)
    BY <1>1, <1>2
  <2>1. q \in 1..m /\ i \in 1..m /\ q <= i
    <3> HIDE DEF m, i
    <3>1. QED
      BY <1>2, <2>0
  <2>2. to.list[q] <= val /\ to.list[q] \in Int
    BY <1>1, <2>1, ElementOfSeq DEF Ascending
  <2>3. QED
    BY <2>2
<1>4. QED
  BY <1>1, <1>3 DEF to

(* A list and an iterator into it. *)
Cursors == {c \in [list : Seq(Int), it : Nat] : c.it \in 1..(Len(c.list) + 1)}

(* One emplace is a step from cursor to cursor. *)
LEMMA EmplaceMovesCursor ==
  ASSUME NEW c \in Cursors, NEW val \in Int
  PROVE  EmplaceSorted(c.list, c.it, val) \in Cursors
<1> DEFINE to == EmplaceSorted(c.list, c.it, val)
           p  == LowerBound(c.list, c.it, val)
<1>1. c.list \in Seq(Int) /\ c.it \in 1..(Len(c.list) + 1)
  BY DEF Cursors
<1>2. /\ to.list \in Seq(Int) /\ Len(to.list) = Len(c.list) + 1
      /\ to.it \in c.it..Len(to.list)
  BY <1>1, EmplaceSortedKeeps
<1>3. to = [list |-> InsertAt(c.list, p, val), it |-> p]
  BY DEF EmplaceSorted
<1> HIDE DEF p, to
<1>4. to = [list |-> to.list, it |-> to.it]
  BY <1>3
<1>5. Len(c.list) \in Nat
  BY <1>1, LenProperties
<1>6. to.it \in Nat /\ to.it \in 1..(Len(to.list) + 1)
  BY <1>1, <1>2, <1>5
<1>7. to \in [list : Seq(Int), it : Nat]
  BY <1>2, <1>4, <1>6
<1>8. QED
  BY <1>6, <1>7 DEF Cursors, to

(* The recursion of InsertFromCursor. *)
LEMMA InsertFromCursorRecursion ==
  ASSUME NEW s \in Seq(Int), NEW items \in Seq(Int)
  PROVE  \E f \in [0..Len(items) -> Cursors] :
           /\ f[0] = [list |-> s, it |-> 1]
           /\ \A k \in 1..Len(items) : f[k] = EmplaceSorted(f[k - 1].list, f[k - 1].it, items[k])
           /\ InsertFromCursor(s, items) = f[Len(items)].list
<1> DEFINE n == Len(items)
           base == [list |-> s, it |-> 1]
           after[k \in 0..Len(items)] ==
             IF k = 0 THEN [list |-> s, it |-> 1]
             ELSE LET at == after[k - 1] IN EmplaceSorted(at.list, at.it, items[k])
           Walk(g) == g = [k \in 0..Len(items) |->
             IF k = 0 THEN [list |-> s, it |-> 1]
             ELSE LET at == g[k - 1] IN EmplaceSorted(at.list, at.it, items[k])]
           step == [x \in Cursors \X (1..n) |-> EmplaceSorted(x[1].list, x[1].it, items[x[2]])]
<1>1. n \in Nat /\ base \in Cursors
  BY LenProperties DEF Cursors
<1>2. step \in [Cursors \X (1..n) -> Cursors]
  <2>1. ASSUME NEW c \in Cursors, NEW k \in 1..n PROVE EmplaceSorted(c.list, c.it, items[k]) \in Cursors
    BY ElementOfSeq, EmplaceMovesCursor
  <2>2. QED
    BY <2>1
<1>3. \A c \in Cursors, k \in 1..n : step[<<c, k>>] = EmplaceSorted(c.list, c.it, items[k])
  OBVIOUS
<1> HIDE DEF step
<1>4. PICK f : Iterates(f, n, Cursors, base, step)
  <2> HIDE DEF n, base
  <2>1. QED
    BY <1>1, <1>2, RecursionExists
<1>5. f \in [0..n -> Cursors] /\ f[0] = base /\ \A k \in 1..n : f[k] = step[<<f[k - 1], k>>]
  BY <1>4 DEF Iterates
<1>6. ASSUME NEW k \in 1..n
      PROVE  f[k] = EmplaceSorted(f[k - 1].list, f[k - 1].it, items[k])
  <2>1. k - 1 \in 0..n
    BY <1>1
  <2>2. f[k - 1] \in Cursors /\ f[k] = step[<<f[k - 1], k>>]
    BY <1>5, <2>1
  <2>3. QED
    BY <1>3, <2>2
<1>7. Walk(f)
  <2>1. \A k \in 0..n : k = 0 \/ k \in 1..n
    BY <1>1
  <2>2. f = [k \in 0..n |-> f[k]]
    BY <1>5
  <2>3. \A k \in 0..n :
          f[k] = IF k = 0 THEN base ELSE EmplaceSorted(f[k - 1].list, f[k - 1].it, items[k])
    BY <1>5, <1>6, <2>1
  <2>4. QED
    BY <2>2, <2>3
<1>8. InsertFromCursor(s, items) = after[Len(items)].list /\ after = CHOOSE g : Walk(g)
  BY DEF InsertFromCursor
<1> HIDE DEF after
<1>9. Walk(after)
  <2> HIDE DEF Walk
  <2>1. QED
    BY <1>7, <1>8
<1>10. after[0] = f[0]
  BY <1>1, <1>5, <1>9
<1>11. ASSUME NEW k \in 1..n, after[k - 1] = f[k - 1] PROVE after[k] = f[k]
  <2>1. k \in 0..n /\ k # 0
    BY <1>1
  <2>2. after[k] = EmplaceSorted(after[k - 1].list, after[k - 1].it, items[k])
    BY <1>9, <2>1
  <2>3. QED
    BY <1>6, <1>11, <2>2
<1>12. after[n] = f[n]
  <2> HIDE DEF n
  <2>1. GoOnAlike(after, f, n)
    BY <1>10, <1>11 DEF GoOnAlike
  <2>2. QED
    BY <1>1, <2>1, RecursionUnique
<1>13. QED
  BY <1>5, <1>6, <1>8, <1>12

(* All the items come in, nothing else does, and if they ascend an ascending list stays
   one, although no search goes back to begin(). *)
LEMMA InsertFromCursorKeeps ==
  ASSUME NEW s \in Seq(Int), NEW items \in Seq(Int)
  PROVE  /\ InsertFromCursor(s, items) \in Seq(Int)
         /\ Len(InsertFromCursor(s, items)) = Len(s) + Len(items)
         /\ Elements(InsertFromCursor(s, items)) = Elements(s) \cup Elements(items)
         /\ Ascending(s) /\ Ascending(items) => Ascending(InsertFromCursor(s, items))
<1> DEFINE n == Len(items)
           given(k) == {items[p] : p \in 1..k}
<1>1. n \in Nat /\ Len(s) \in Nat
  BY LenProperties
<1>2. PICK f \in [0..n -> Cursors] :
           /\ f[0] = [list |-> s, it |-> 1]
           /\ \A k \in 1..n : f[k] = EmplaceSorted(f[k - 1].list, f[k - 1].it, items[k])
           /\ InsertFromCursor(s, items) = f[n].list
  BY InsertFromCursorRecursion
<1> DEFINE Behind(k) == k < n => \A q \in 1..(f[k].it - 1) : f[k].list[q] <= items[k + 1]
           Kept(k) == /\ Len(f[k].list) = Len(s) + k
                      /\ Elements(f[k].list) = Elements(s) \cup given(k)
                      /\ Ascending(s) /\ Ascending(items) => Ascending(f[k].list) /\ Behind(k)
           S == {k \in 0..n : Kept(k)}
<1>3. Kept(0)
  <2>1. given(0) = {} /\ f[0].list = s /\ f[0].it = 1 /\ 1..(1 - 1) = {}
    BY <1>2
  <2> HIDE DEF given
  <2>2. QED
    BY <1>1, <2>1
<1>4. ASSUME NEW k \in 0..(n - 1), Kept(k) PROVE Kept(k + 1)
  <2> DEFINE l == f[k].list
             from == f[k].it
             val == items[k + 1]
             to == EmplaceSorted(l, from, val)
  <2>1. k + 1 \in 1..n /\ (k + 1) - 1 = k /\ k \in 0..n
    BY <1>1
  <2>2. f[k] \in Cursors /\ f[k + 1] = to
    <3> HIDE DEF n
    <3>1. f[k + 1] = EmplaceSorted(f[(k + 1) - 1].list, f[(k + 1) - 1].it, items[k + 1])
      BY <1>2, <2>1
    <3>2. QED
      BY <1>2, <2>1, <3>1
  <2>3. l \in Seq(Int) /\ from \in 1..(Len(l) + 1) /\ val \in Int /\ Len(l) \in Nat
    <3>1. l \in Seq(Int) /\ from \in 1..(Len(l) + 1)
      BY <2>2 DEF Cursors
    <3>2. QED
      BY <2>1, <3>1, ElementOfSeq, LenProperties
  <2>4. /\ Len(l) = Len(s) + k /\ Elements(l) = Elements(s) \cup given(k)
        /\ Ascending(s) /\ Ascending(items) =>
             Ascending(l) /\ \A q \in 1..(from - 1) : l[q] <= val
    BY <1>4, <2>1
  <2>5. given(k + 1) = given(k) \cup {val}
    <3>1. 1..(k + 1) = (1..k) \cup {k + 1}
      BY <2>1
    <3>2. QED
      BY <3>1
  <2>6. ASSUME Ascending(items), k + 1 < n PROVE val <= items[k + 2] /\ items[k + 2] \in Int
    <3>1. k + 2 \in 1..n /\ k + 1 <= k + 2
      BY <1>1, <2>1, <2>6
    <3>2. QED
      BY <2>1, <2>6, <3>1, ElementOfSeq DEF Ascending
  <2> HIDE DEF given, l, from, val
  <2>7. /\ Len(to.list) = Len(l) + 1 /\ Elements(to.list) = Elements(l) \cup {val}
        /\ Ascending(l) /\ (\A q \in 1..(from - 1) : l[q] <= val) => Ascending(to.list)
    BY <2>3, EmplaceSortedKeeps
  <2>8. ASSUME Ascending(s), Ascending(items), k + 1 < n
        PROVE  \A q \in 1..(to.it - 1) : to.list[q] <= items[k + 2]
    <3>1. Ascending(l) /\ \A q \in 1..(from - 1) : l[q] <= val
      BY <2>4, <2>8
    <3>2. val <= items[k + 2] /\ items[k + 2] \in Int
      BY <2>6, <2>8
    <3>3. QED
      BY <2>3, <3>1, <3>2, CursorStep
  <2> HIDE DEF to
  <2>9. Len(f[k + 1].list) = Len(s) + (k + 1)
    BY <1>1, <2>1, <2>2, <2>3, <2>4, <2>7
  <2>10. Elements(f[k + 1].list) = Elements(s) \cup given(k + 1)
    BY <2>2, <2>4, <2>5, <2>7
  <2>11. Ascending(s) /\ Ascending(items) => Ascending(f[k + 1].list)
    BY <2>2, <2>4, <2>7
  <2>12. (k + 1) + 1 = k + 2
    BY <2>1
  <2>13. Ascending(s) /\ Ascending(items) => Behind(k + 1)
    BY <2>2, <2>8, <2>12
  <2> HIDE DEF Behind
  <2>14. QED
    BY <2>9, <2>10, <2>11, <2>13
<1> HIDE DEF Kept
<1>5. 0 \in S /\ \A k \in 0..(n - 1) : k \in S => k + 1 \in S
  BY <1>1, <1>3, <1>4
<1>6. \A k \in 0..n : k \in S
  <2> HIDE DEF S, n
  <2>1. QED
    BY <1>1, <1>5, BoundedInduction
<1>7. Kept(n) /\ f[n].list \in Seq(Int)
  <2>1. n \in 0..n
    BY <1>1
  <2>2. f[n] \in Cursors /\ Kept(n)
    BY <1>2, <1>6, <2>1
  <2>3. QED
    BY <2>2 DEF Cursors
<1>8. given(n) = Elements(items)
  BY DEF Elements
<1> HIDE DEF given, Behind
<1>9. QED
  BY <1>2, <1>7, <1>8 DEF Kept

(* doSourceListSortedAdd: the block goes in front, behind, or in item by item. *)
LEMMA InsertSortedItemsKeeps ==
  ASSUME NEW s \in Seq(Int), NEW items \in Seq(Int)
  PROVE  /\ InsertSortedItems(s, items) \in Seq(Int)
         /\ Len(InsertSortedItems(s, items)) = Len(s) + Len(items)
         /\ Elements(InsertSortedItems(s, items)) = Elements(s) \cup Elements(items)
         /\ Ascending(s) /\ Ascending(items) => Ascending(InsertSortedItems(s, items))
<1>1. Len(s) \in Nat /\ Len(items) \in Nat
  BY LenProperties
<1>2. CASE s # <<>> /\ items[Len(items)] <= Head(s)
  <2>1. InsertSortedItems(s, items) = items \o s /\ Head(s) = s[1]
    BY <1>2, HeadTailProperties DEF InsertSortedItems
  <2>2. /\ items \o s \in Seq(Int) /\ Len(items \o s) = Len(items) + Len(s)
        /\ Elements(items \o s) = Elements(items) \cup Elements(s)
        /\ Ascending(items) /\ Ascending(s) => Ascending(items \o s)
    BY <1>2, <2>1, ConcatKeeps
  <2>3. Len(items) + Len(s) = Len(s) + Len(items)
    BY <1>1
  <2>4. QED
    BY <2>1, <2>2, <2>3
<1>3. CASE ~(s # <<>> /\ items[Len(items)] <= Head(s)) /\ s # <<>> /\ items[1] >= Last(s)
  <2>1. InsertSortedItems(s, items) = s \o items /\ Last(s) = s[Len(s)]
    BY <1>3 DEF InsertSortedItems, Last
  <2>2. ASSUME items # <<>> PROVE s[Len(s)] <= items[1]
    <3>1. Len(s) \in 1..Len(s) /\ 1 \in 1..Len(items)
      BY <1>1, <1>3, <2>2, EmptySeq
    <3>2. s[Len(s)] \in Int /\ items[1] \in Int
      BY <3>1, ElementOfSeq
    <3>3. QED
      BY <1>3, <2>1, <3>2
  <2>3. /\ s \o items \in Seq(Int) /\ Len(s \o items) = Len(s) + Len(items)
        /\ Elements(s \o items) = Elements(s) \cup Elements(items)
        /\ Ascending(s) /\ Ascending(items) => Ascending(s \o items)
    BY <2>2, ConcatKeeps
  <2>4. QED
    BY <2>1, <2>3
<1>4. CASE /\ ~(s # <<>> /\ items[Len(items)] <= Head(s))
           /\ ~(s # <<>> /\ items[1] >= Last(s))
  <2>1. InsertSortedItems(s, items) = InsertFromCursor(s, items)
    BY <1>4 DEF InsertSortedItems
  <2>2. QED
    BY <2>1, InsertFromCursorKeeps
<1>5. QED
  BY <1>2, <1>3, <1>4

(* Add<true>: the items all come in, nothing else does, and an ascending list stays one,
   if the items do ascend when the request says so. *)
LEMMA SortedAddKeeps ==
  ASSUME NEW s \in Seq(Int), NEW items \in Seq(Int), NEW itemsSorted \in BOOLEAN
  PROVE  /\ SortedAdd(s, items, itemsSorted) \in Seq(Int)
         /\ Len(SortedAdd(s, items, itemsSorted)) = Len(s) + Len(items)
         /\ Elements(SortedAdd(s, items, itemsSorted)) = Elements(s) \cup Elements(items)
         /\ Ascending(s) /\ (itemsSorted => Ascending(items))
              => Ascending(SortedAdd(s, items, itemsSorted))
<1>1. CASE itemsSorted
  BY <1>1, InsertSortedItemsKeeps DEF SortedAdd
<1>2. CASE ~itemsSorted
  BY <1>2, InsertEachKeeps DEF SortedAdd
<1>3. QED
  BY <1>1, <1>2

-----------------------------------------------------------------------------
(* The unsorted add, and the overwriting of a list. *)

(* A part of a list: some of its items, in order. *)
LEMMA SubSeqKeeps ==
  ASSUME NEW s \in Seq(Int), NEW b \in 1..(Len(s) + 1), NEW l \in 0..Len(s)
  PROVE  /\ SubSeq(s, b, l) \in Seq(Int) /\ Len(SubSeq(s, b, l)) <= Len(s)
         /\ Len(SubSeq(s, b, l)) = (IF b <= l THEN l - b + 1 ELSE 0)
         /\ \A k \in 1..(l - b + 1) : SubSeq(s, b, l)[k] = s[b + k - 1]
         /\ Elements(SubSeq(s, b, l)) \subseteq Elements(s)
         /\ Ascending(s) => Ascending(SubSeq(s, b, l))
<1> DEFINE t == SubSeq(s, b, l)
<1>1. Len(s) \in Nat /\ b \in Nat /\ l \in Nat
  BY LenProperties
<1>2. /\ t \in Seq(Int) /\ Len(t) = (IF b <= l THEN l - b + 1 ELSE 0)
      /\ \A k \in 1..(l - b + 1) : t[k] = s[b + k - 1]
  <2>1. \A k \in b..l : s[k] \in Int
    BY <1>1, ElementOfSeq
  <2>2. QED
    BY <1>1, <2>1, SubSeqProperties
<1> HIDE DEF t
<1> DEFINE at(k) == b + k - 1
<1>3. \A k \in 1..Len(t) : k \in 1..(l - b + 1) /\ at(k) \in 1..Len(s)
  BY <1>1, <1>2
<1>4. \A k \in 1..Len(t) : t[k] = s[at(k)]
  BY <1>2, <1>3
<1>5. \A j, k \in 1..Len(t) : j <= k => at(j) <= at(k)
  BY <1>1, <1>2
<1>6. Len(t) <= Len(s)
  BY <1>1, <1>2
<1> HIDE DEF at
<1>7. Elements(t) \subseteq Elements(s)
  BY <1>3, <1>4 DEF Elements
<1>8. Ascending(s) => Ascending(t)
  BY <1>3, <1>4, <1>5 DEF Ascending
<1>9. QED
  BY <1>2, <1>6, <1>7, <1>8 DEF t

(* Add<false>: the items all come in, and nothing else does. *)
LEMMA InsertItemsKeeps ==
  ASSUME NEW s \in Seq(Int), NEW items \in Seq(Int), NEW pos \in Int
  PROVE  /\ InsertItems(s, items, pos) \in Seq(Int)
         /\ Len(InsertItems(s, items, pos)) = Len(s) + Len(items)
         /\ Elements(InsertItems(s, items, pos)) \subseteq Elements(s) \cup Elements(items)
<1> DEFINE it == PositionToStartIterator(pos, s)
           front == SubSeq(s, 1, it - 1)
           rear  == SubSeq(s, it, Len(s))
           begun == front \o items
<1>1. Len(s) \in Nat /\ Len(items) \in Nat
  BY LenProperties
<1>2. it \in 1..(Len(s) + 1)
  BY <1>1, StartIteratorInBounds
<1>3. InsertItems(s, items, pos) = (front \o items) \o rear
  BY DEF InsertItems
<1> HIDE DEF it
<1>4. front \in Seq(Int) /\ Len(front) = it - 1 /\ Elements(front) \subseteq Elements(s)
  <2>1. 1 \in 1..(Len(s) + 1) /\ it - 1 \in 0..Len(s)
    BY <1>1, <1>2
  <2>2. /\ front \in Seq(Int) /\ Elements(front) \subseteq Elements(s)
        /\ Len(front) = (IF 1 <= it - 1 THEN (it - 1) - 1 + 1 ELSE 0)
    BY <2>1, SubSeqKeeps
  <2>3. QED
    BY <1>1, <1>2, <2>2
<1>5. rear \in Seq(Int) /\ Len(rear) = Len(s) + 1 - it /\ Elements(rear) \subseteq Elements(s)
  <2>1. Len(s) \in 0..Len(s)
    BY <1>1
  <2>2. /\ rear \in Seq(Int) /\ Elements(rear) \subseteq Elements(s)
        /\ Len(rear) = (IF it <= Len(s) THEN Len(s) - it + 1 ELSE 0)
    BY <1>2, <2>1, SubSeqKeeps
  <2>3. QED
    BY <1>1, <1>2, <2>2
<1> HIDE DEF front, rear
<1>6. /\ begun \in Seq(Int) /\ Len(begun) = Len(front) + Len(items)
      /\ Elements(begun) = Elements(front) \cup Elements(items)
  BY <1>4, ConcatKeeps
<1> HIDE DEF begun
<1>7. /\ begun \o rear \in Seq(Int) /\ Len(begun \o rear) = Len(begun) + Len(rear)
      /\ Elements(begun \o rear) = Elements(begun) \cup Elements(rear)
  BY <1>5, <1>6, ConcatKeeps
<1>8. Len(begun) + Len(rear) = Len(s) + Len(items)
  BY <1>1, <1>2, <1>4, <1>5, <1>6
<1>9. QED
  BY <1>3, <1>4, <1>5, <1>6, <1>7, <1>8 DEF begun

(* Set: the range it writes is no longer than the items, wherever it starts. *)
LEMMA SetRangeIsCovered ==
  ASSUME NEW list, Len(list) \in Nat, NEW pos \in Int, NEW n \in Nat
  PROVE  LET it == PositionsToIterators([start |-> pos, stop |-> pos + n, hasStop |-> TRUE], list)
         IN  it.valid => /\ it.begin \in 0..(Len(list) - 1) /\ it.last \in (it.begin + 1)..Len(list)
                         /\ it.last <= it.begin + n
<1> DEFINE range == [start |-> pos, stop |-> pos + n, hasStop |-> TRUE]
           it == PositionsToIterators(range, list)
           ix == PositionsToIndices(range, list)
           size == Len(list)
           end == pos + n
           begin == IF pos < 0 THEN size + pos ELSE pos
           last == LesserOf(size, IF end < 0 THEN AbsOf(size + end) ELSE end)
<1>1. range.start \in Int /\ range.stop \in Int
  OBVIOUS
<1>2. ix = IF pos >= size \/ AbsOf(pos) > size
             THEN [valid |-> FALSE, begin |-> 0, last |-> 0]
             ELSE [valid |-> TRUE, begin |-> begin, last |-> last]
  BY DEF PositionsToIndices
<1>3. ~(pos >= size \/ AbsOf(pos) > size) => last <= begin + n
  BY DEF LesserOf, AbsOf
<1> HIDE DEF range, begin, last
<1>4. /\ it.valid <=> ix.valid /\ ix.begin < ix.last
      /\ it.begin = ix.begin /\ it.last = ix.last
      /\ it.valid => it.begin \in 0..(Len(list) - 1) /\ it.last \in (it.begin + 1)..Len(list)
  BY <1>1, IteratorsInBounds
<1> HIDE DEF it, ix
<1>5. ix.valid => ix.begin = begin /\ ix.last = last /\ ~(pos >= size \/ AbsOf(pos) > size)
  BY <1>2
<1>6. it.valid => it.last <= it.begin + n
  BY <1>3, <1>4, <1>5
<1>7. QED
  BY <1>4, <1>6 DEF it, range

(* Set keeps the length, and holds old items and given ones only. *)
LEMMA SetItemsKeeps ==
  ASSUME NEW s \in Seq(Int), NEW items \in Seq(Int), NEW position \in Int
  PROVE  /\ SetItems(s, items, position) \in Seq(Int)
         /\ Len(SetItems(s, items, position)) = Len(s)
         /\ Elements(SetItems(s, items, position)) \subseteq Elements(s) \cup Elements(items)
<1> DEFINE pos == IF position < 0 THEN Len(s) + position ELSE position
           it  == PositionsToIterators(
                    [start |-> pos, stop |-> pos + Len(items), hasStop |-> TRUE], s)
           t   == [p \in 1..Len(s) |->
                     IF p \in (it.begin + 1)..it.last THEN items[p - it.begin] ELSE s[p]]
<1>1. Len(s) \in Nat /\ Len(items) \in Nat /\ pos \in Int
  BY LenProperties
<1>2. SetItems(s, items, position) = IF it.valid THEN t ELSE s
  BY DEF SetItems
<1> HIDE DEF pos
<1>3. it.valid => /\ it.begin \in 0..(Len(s) - 1) /\ it.last \in (it.begin + 1)..Len(s)
                  /\ it.last <= it.begin + Len(items)
  BY <1>1, SetRangeIsCovered
<1> HIDE DEF it
<1>4. CASE ~it.valid
  BY <1>2, <1>4
<1>5. CASE it.valid
  <2> DEFINE b == it.begin
             l == it.last
  <2>1. b \in Nat /\ l \in Nat /\ l <= b + Len(items)
    BY <1>1, <1>3, <1>5
  <2>2. \A p \in (b + 1)..l : p - b \in 1..Len(items)
    <3> HIDE DEF b, l
    <3>1. QED
      BY <1>1, <2>1
  <2>3. ASSUME NEW p \in 1..Len(s)
        PROVE  t[p] \in Elements(s) \cup Elements(items) /\ t[p] \in Int
    <3>1. CASE p \in (b + 1)..l
      <4>1. t[p] = items[p - b] /\ p - b \in 1..Len(items)
        BY <2>2, <3>1
      <4>2. QED
        BY <4>1, ElementOfSeq DEF Elements
    <3>2. CASE p \notin (b + 1)..l
      <4>1. t[p] = s[p]
        BY <3>2
      <4>2. QED
        BY <4>1, ElementOfSeq DEF Elements
    <3>3. QED
      BY <3>1, <3>2
  <2>4. t = [p \in 1..Len(s) |-> t[p]]
    OBVIOUS
  <2> HIDE DEF t
  <2>5. t \in Seq(Int) /\ Len(t) = Len(s)
    BY <1>1, <2>3, <2>4, SeqDef
  <2>6. Elements(t) \subseteq Elements(s) \cup Elements(items)
    BY <2>3, <2>5 DEF Elements
  <2>7. QED
    BY <1>2, <1>5, <2>5, <2>6
<1>6. QED
  BY <1>4, <1>5

-----------------------------------------------------------------------------
(* The removals. *)

(* Remove, where it is defined: some of the items are left, in order. *)
LEMMA RemoveRangeKeeps ==
  ASSUME NEW s \in Seq(Int), NEW range \in [start : Int, stop : Int, hasStop : BOOLEAN],
         RemoveIsDefined(s, range)
  PROVE  /\ RemoveRange(s, range) \in Seq(Int) /\ Len(RemoveRange(s, range)) <= Len(s)
         /\ Elements(RemoveRange(s, range)) \subseteq Elements(s)
         /\ Ascending(s) => Ascending(RemoveRange(s, range))
<1> DEFINE ix == PositionsToIndices(range, s)
<1>1. Len(s) \in Nat /\ range.start \in Int /\ range.stop \in Int
  BY LenProperties
<1>2. ix.valid => ix.begin \in 0..(Len(s) - 1) /\ ix.last \in 0..Len(s)
  BY <1>1, IndicesInBounds
<1>3. ix.valid => ix.begin <= ix.last
  BY DEF RemoveIsDefined
<1>4. RemoveRange(s, range) = IF ix.valid THEN Cut(s, ix.begin, ix.last) ELSE s
  BY DEF RemoveRange
<1> HIDE DEF ix
<1>5. CASE ix.valid
  <2> DEFINE b == ix.begin
             l == ix.last
  <2>1. b \in 0..Len(s) /\ l \in b..Len(s)
    BY <1>1, <1>2, <1>3, <1>5
  <2>2. RemoveRange(s, range) = Cut(s, b, l)
    BY <1>4, <1>5
  <2> HIDE DEF b, l
  <2>3. QED
    BY <2>1, <2>2, CutKeeps
<1>6. CASE ~ix.valid
  BY <1>1, <1>4, <1>6
<1>7. QED
  BY <1>5, <1>6

(* RemoveIf<false>: some of the items are left, in order. *)
LEMMA UnsortedRemoveIfKeeps ==
  ASSUME NEW s \in Seq(Int), NEW range, NEW val
  PROVE  /\ UnsortedRemoveIfEquals(s, range, val) \in Seq(Int)
         /\ Len(UnsortedRemoveIfEquals(s, range, val)) <= Len(s)
         /\ Elements(UnsortedRemoveIfEquals(s, range, val)) \subseteq Elements(s)
         /\ Ascending(s) => Ascending(UnsortedRemoveIfEquals(s, range, val))
<1> DEFINE it == PositionsToIterators(range, s)
           kept == {p \in 1..Len(s) : p \in (it.begin + 1)..it.last => s[p] # val}
<1>1. UnsortedRemoveIfEquals(s, range, val) = IF it.valid THEN ItemsAt(s, kept) ELSE s
  BY DEF UnsortedRemoveIfEquals
<1> HIDE DEF kept, it
<1>2. /\ ItemsAt(s, kept) \in Seq(Int) /\ Len(ItemsAt(s, kept)) <= Len(s)
      /\ Elements(ItemsAt(s, kept)) = {s[p] : p \in {q \in 1..Len(s) : q \in kept}}
      /\ Ascending(s) => Ascending(ItemsAt(s, kept))
  BY ItemsAtKeeps
<1>3. Elements(ItemsAt(s, kept)) \subseteq Elements(s)
  BY <1>2 DEF Elements
<1>4. QED
  BY <1>1, <1>2, <1>3, LenProperties

(* std::equal_range returns its ends in order, in every list. *)
LEMMA EqualRangeIsRange ==
  ASSUME NEW s \in Seq(Int), NEW from \in 1..(Len(s) + 1), NEW val \in Int
  PROVE  LowerBound(s, from, val) <= UpperBound(s, from, val)
<1> DEFINE lb == LowerBound(s, from, val)
           ub == UpperBound(s, from, val)
<1>1. IsLowerBound(s, from, val, lb) /\ IsUpperBound(s, from, val, ub)
  BY LowerBoundFound, UpperBoundFound
<1> HIDE DEF lb, ub
<1>2. Len(s) \in Nat /\ lb \in from..(Len(s) + 1) /\ ub \in from..(Len(s) + 1) /\ from \in Nat
  BY <1>1, LenProperties DEF IsLowerBound, IsUpperBound
<1>3. SUFFICES ASSUME ub < lb PROVE FALSE
  BY <1>2 DEF lb, ub
<1>4. ub \in from..(lb - 1) /\ ub <= Len(s) /\ ub \in 1..Len(s)
  BY <1>2, <1>3
<1>5. s[ub] < val /\ s[ub] > val /\ s[ub] \in Int
  BY <1>1, <1>4, ElementOfSeq DEF IsLowerBound, IsUpperBound
<1>6. QED
  BY <1>5

(* RemoveIf<true>: some of the items are left, in order. *)
LEMMA SortedRemoveIfKeeps ==
  ASSUME NEW s \in Seq(Int), NEW range \in [start : Int, stop : Int, hasStop : BOOLEAN],
         NEW val \in Int
  PROVE  /\ SortedRemoveIfEquals(s, range, val) \in Seq(Int)
         /\ Len(SortedRemoveIfEquals(s, range, val)) <= Len(s)
         /\ Elements(SortedRemoveIfEquals(s, range, val)) \subseteq Elements(s)
         /\ Ascending(s) => Ascending(SortedRemoveIfEquals(s, range, val))
<1> DEFINE it == PositionsToIterators(range, s)
           within == SubSeq(s, 1, it.last)
           from == it.begin + 1
           lb == LowerBound(within, from, val)
           ub == UpperBound(within, from, val)
<1>1. Len(s) \in Nat /\ range.start \in Int /\ range.stop \in Int
  BY LenProperties
<1>2. it.valid => it.begin \in 0..(Len(s) - 1) /\ it.last \in (it.begin + 1)..Len(s)
  BY <1>1, IteratorsInBounds
<1>3. SortedRemoveIfEquals(s, range, val) = IF it.valid THEN Cut(s, lb - 1, ub - 1) ELSE s
  BY DEF SortedRemoveIfEquals
<1> HIDE DEF it
<1>4. CASE it.valid
  <2> DEFINE l == it.last
  <2>1. l \in 1..Len(s) /\ from \in 1..l
    BY <1>1, <1>2, <1>4
  <2>2. 1 \in 1..(Len(s) + 1) /\ l \in 0..Len(s) /\ l - 1 + 1 = l /\ 1 <= l
    BY <1>1, <2>1
  <2>3. within \in Seq(Int) /\ Len(within) = l
    <3> HIDE DEF l
    <3>1. /\ SubSeq(s, 1, l) \in Seq(Int)
          /\ Len(SubSeq(s, 1, l)) = (IF 1 <= l THEN l - 1 + 1 ELSE 0)
      BY <2>2, SubSeqKeeps
    <3>2. within = SubSeq(s, 1, l)
      BY DEF l
    <3> HIDE DEF within
    <3>3. QED
      BY <2>2, <3>1, <3>2
  <2> HIDE DEF within, l, from
  <2>4. from \in 1..(Len(within) + 1)
    BY <1>1, <2>1, <2>3
  <2>5. IsLowerBound(within, from, val, lb) /\ IsUpperBound(within, from, val, ub) /\ lb <= ub
    BY <2>3, <2>4, LowerBoundFound, UpperBoundFound, EqualRangeIsRange
  <2> HIDE DEF lb, ub
  <2>6. lb \in from..(l + 1) /\ ub \in from..(l + 1)
    BY <2>3, <2>5 DEF IsLowerBound, IsUpperBound
  <2> DEFINE b == lb - 1
             e == ub - 1
  <2>7. b \in 0..Len(s) /\ e \in b..Len(s)
    BY <1>1, <2>1, <2>5, <2>6
  <2>8. SortedRemoveIfEquals(s, range, val) = Cut(s, b, e)
    BY <1>3, <1>4
  <2> HIDE DEF b, e
  <2>9. QED
    BY <2>7, <2>8, CutKeeps
<1>5. CASE ~it.valid
  BY <1>1, <1>3, <1>5
<1>6. QED
  BY <1>4, <1>5

-----------------------------------------------------------------------------
(* The intersection. *)

(* Some of the items of the first list's range, in order. *)
LEMMA IntersectKeeps ==
  ASSUME NEW s \in Seq(Int), NEW t \in Seq(Int),
         NEW range1 \in [start : Int, stop : Int, hasStop : BOOLEAN], NEW range2
  PROVE  /\ Intersect(s, t, range1, range2) \in Seq(Int)
         /\ Len(Intersect(s, t, range1, range2)) <= Len(s)
         /\ Elements(Intersect(s, t, range1, range2)) \subseteq Elements(s)
         /\ Ascending(s) => Ascending(Intersect(s, t, range1, range2))
<1> DEFINE it1 == PositionsToIterators(range1, s)
           it2 == PositionsToIterators(range2, t)
           a == SubSeq(s, it1.begin + 1, it1.last)
           b == SubSeq(t, it2.begin + 1, it2.last)
           both == SetIntersection(a, b)
           found == Intersect(s, t, range1, range2)
<1>1. Len(s) \in Nat /\ range1.start \in Int /\ range1.stop \in Int
  BY LenProperties
<1>2. it1.valid => it1.begin \in 0..(Len(s) - 1) /\ it1.last \in (it1.begin + 1)..Len(s)
  BY <1>1, IteratorsInBounds
<1>3. found = IF IntersectIsValid(s, t, range1, range2) THEN both ELSE <<>>
  BY DEF Intersect
<1>4. IntersectIsValid(s, t, range1, range2) => it1.valid
  BY DEF IntersectIsValid
<1> HIDE DEF it1
<1>5. CASE IntersectIsValid(s, t, range1, range2)
  <2>1. it1.begin + 1 \in 1..(Len(s) + 1) /\ it1.last \in 0..Len(s)
    BY <1>1, <1>2, <1>4, <1>5
  <2>2. /\ a \in Seq(Int) /\ Len(a) <= Len(s) /\ Elements(a) \subseteq Elements(s)
        /\ Ascending(s) => Ascending(a)
    BY <2>1, SubSeqKeeps
  <2> DEFINE count(x, v, upTo) == Cardinality({q \in 1..upTo : x[q] = v})
             kept == {p \in 1..Len(a) : count(a, a[p], p) <= count(b, a[p], Len(b))}
  <2>3. both = ItemsAt(a, kept)
    BY DEF SetIntersection
  <2> HIDE DEF kept, a, b, both
  <2>4. /\ ItemsAt(a, kept) \in Seq(Int) /\ Len(ItemsAt(a, kept)) <= Len(a)
        /\ Elements(ItemsAt(a, kept)) = {a[p] : p \in {q \in 1..Len(a) : q \in kept}}
        /\ Ascending(a) => Ascending(ItemsAt(a, kept))
    BY <2>2, ItemsAtKeeps
  <2>5. Elements(ItemsAt(a, kept)) \subseteq Elements(a)
    BY <2>4 DEF Elements
  <2>6. Len(a) \in Nat /\ Len(ItemsAt(a, kept)) \in Nat
    BY <2>2, <2>4, LenProperties
  <2>7. Len(ItemsAt(a, kept)) <= Len(s)
    BY <1>1, <2>2, <2>4, <2>6
  <2> HIDE DEF found
  <2>8. found \in Seq(Int) /\ Len(found) <= Len(s) /\ Elements(found) \subseteq Elements(s)
        /\ (Ascending(s) => Ascending(found))
    BY <1>3, <1>5, <2>2, <2>3, <2>4, <2>5, <2>7
  <2>9. QED
    BY <2>8 DEF found
<1>6. CASE ~IntersectIsValid(s, t, range1, range2)
  <2>1. found = <<>>
    BY <1>3, <1>6
  <2> HIDE DEF found
  <2>2. /\ found \in Seq(Int) /\ Len(found) = 0 /\ Elements(found) = {} /\ Ascending(found)
    BY <2>1, EmptySeq DEF Elements, Ascending
  <2>3. found \in Seq(Int) /\ Len(found) <= Len(s) /\ Elements(found) \subseteq Elements(s)
    BY <1>1, <2>2
  <2>4. QED
    BY <2>2, <2>3 DEF found
<1>7. QED
  BY <1>5, <1>6
=============================================================================
