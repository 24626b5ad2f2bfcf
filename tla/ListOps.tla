------------------------------ MODULE ListOps ------------------------------
(***************************************************************************)
(* The pure part of the list component: what the operations of             *)
(* ListOperations.hpp do to one std::list.  A list is a sequence.  The C++ *)
(* indices (0-based, last exclusive) keep their meaning in PositionsTo...; *)
(* an iterator is a 1-based position in 1..Len(list)+1, Len(list)+1 being  *)
(* list.end().                                                             *)
(*                                                                         *)
(* A range is a record [start, stop, hasStop], as request::Range.          *)
(***************************************************************************)
EXTENDS Integers, Sequences, SequencesExt

LesserOf(a, b) == IF a <= b THEN a ELSE b
AbsOf(n) == IF n < 0 THEN -n ELSE n

Ascending(s) == \A p, q \in 1..Len(s) : p <= q => s[p] <= s[q]
Elements(s) == {s[p] : p \in 1..Len(s)}

(* Slip: last taken as inclusive. *)
PositionsToIndices_Inclusive(range, list) ==
  LET size == Len(list)
      end  == IF range.hasStop THEN range.stop + 1 ELSE size
  IN  IF range.start >= size \/ AbsOf(range.start) > size
        THEN [valid |-> FALSE, begin |-> 0, last |-> 0]
        ELSE [valid |-> TRUE,
              begin |-> IF range.start < 0 THEN size + range.start ELSE range.start,
              last  |-> LesserOf(size, IF end < 0 THEN AbsOf(size + end) ELSE end)]

(***************************************************************************)
(* positionsToIndices: [valid, begin, last].  A negative stop that reaches *)
(* past the head is folded back by labs(), as the code does.               *)
(***************************************************************************)
PositionsToIndices(range, list) ==
  LET size == Len(list)
      end  == IF range.hasStop THEN range.stop ELSE size
  IN  IF range.start >= size \/ AbsOf(range.start) > size
        THEN [valid |-> FALSE, begin |-> 0, last |-> 0]
        ELSE [valid |-> TRUE,
              begin |-> IF range.start < 0 THEN size + range.start ELSE range.start,
              last  |-> LesserOf(size, IF end < 0 THEN AbsOf(size + end) ELSE end)]

(* positionsToIterators: as above, and refuses begin >= last. *)
PositionsToIterators(range, list) ==
  LET ix == PositionsToIndices(range, list)
  IN  [ix EXCEPT !.valid = ix.valid /\ ix.begin < ix.last]

(* Slip: out of bounds means the head. *)
PositionToStartIterator_Head(start, list) ==
  LET it == PositionsToIterators([start |-> start, stop |-> 0, hasStop |-> FALSE], list)
  IN  IF it.valid THEN it.begin + 1 ELSE 1

(* positionToStartIterator: where the unsorted add inserts; end() if out of bounds. *)
PositionToStartIterator(start, list) ==
  LET it == PositionsToIterators([start |-> start, stop |-> 0, hasStop |-> FALSE], list)
  IN  IF it.valid THEN it.begin + 1 ELSE Len(list) + 1

(***************************************************************************)
(* std::lower_bound from iterator "from" to end: the first position whose  *)
(* item is not below val, or end(); std::upper_bound: the first above val. *)
(***************************************************************************)
IsLowerBound(list, from, val, p) ==
  /\ p \in from..(Len(list) + 1)
  /\ p <= Len(list) => list[p] >= val
  /\ \A q \in from..(p - 1) : list[q] < val

LowerBound(list, from, val) ==
  CHOOSE p \in from..(Len(list) + 1) : IsLowerBound(list, from, val, p)

UpperBound(list, from, val) ==
  CHOOSE p \in from..(Len(list) + 1) :
    /\ p <= Len(list) => list[p] > val
    /\ \A q \in from..(p - 1) : list[q] <= val

(* Add<false>: items go in, in order, at the position (Add::doAdd, unsorted branch). *)
InsertItems(list, items, pos) ==
  LET it == PositionToStartIterator(pos, list)
  IN  SubSeq(list, 1, it - 1) \o items \o SubSeq(list, it, Len(list))

(* One emplace of the sorted add, searching from iterator "from": the list, and the
   iterator to the new node. *)
EmplaceSorted(list, from, val) ==
  LET p == LowerBound(list, from, val) IN [list |-> InsertAt(list, p, val), it |-> p]

(* Add<true> with itemsSorted false: each item has its own search from begin(). *)
InsertEach(list, items) ==
  LET after[k \in 0..Len(items)] ==
        IF k = 0 THEN list ELSE EmplaceSorted(after[k - 1], 1, items[k]).list
  IN  after[Len(items)]

(* The general branch of doSourceListSortedAdd: each search starts at the item
   inserted before. *)
InsertFromCursor(list, items) ==
  LET after[k \in 0..Len(items)] ==
        IF k = 0 THEN [list |-> list, it |-> 1]
        ELSE LET at == after[k - 1] IN EmplaceSorted(at.list, at.it, items[k])
  IN  after[Len(items)].list

(* Slip: the lowest item decides whether the block fits in front. *)
InsertSortedItems_Lowest(list, items) ==
  IF list # <<>> /\ items[1] <= Head(list) THEN items \o list
  ELSE IF list # <<>> /\ items[1] >= Last(list) THEN list \o items
  ELSE InsertFromCursor(list, items)

(* doSourceListSortedAdd: prepend or append the whole block when it fits there. *)
InsertSortedItems(list, items) ==
  IF list # <<>> /\ items[Len(items)] <= Head(list) THEN items \o list
  ELSE IF list # <<>> /\ items[1] >= Last(list) THEN list \o items
  ELSE InsertFromCursor(list, items)

SortedAdd(list, items, itemsSorted) ==
  IF itemsSorted THEN InsertSortedItems(list, items) ELSE InsertEach(list, items)

(* Slip: a negative position is left to positionsToIndices. *)
SetItems_Untranslated(list, items, position) ==
  LET it == PositionsToIterators(
              [start |-> position, stop |-> position + Len(items), hasStop |-> TRUE], list)
  IN  IF it.valid
        THEN [p \in 1..Len(list) |-> IF p \in (it.begin + 1)..it.last THEN items[p - it.begin] ELSE list[p]]
        ELSE list

(* Slip: items past the end are appended. *)
SetItems_Grows(list, items, position) ==
  LET pos == IF position < 0 THEN Len(list) + position ELSE position
  IN  IF pos \in 0..(Len(list) - 1)
        THEN SubSeq(list, 1, pos) \o items \o SubSeq(list, pos + Len(items) + 1, Len(list))
        ELSE list

(***************************************************************************)
(* Set: overwrite from pos until the items or the list end.  A negative    *)
(* pos is translated here and, if it is still negative, once more by       *)
(* positionsToIndices.                                                     *)
(***************************************************************************)
SetItems(list, items, position) ==
  LET pos == IF position < 0 THEN Len(list) + position ELSE position
      it  == PositionsToIterators([start |-> pos, stop |-> pos + Len(items), hasStop |-> TRUE], list)
  IN  IF it.valid
        THEN [p \in 1..Len(list) |-> IF p \in (it.begin + 1)..it.last THEN items[p - it.begin] ELSE list[p]]
        ELSE list

(* GetByRange: the tail base walks the reversed list; an inverted range is empty. *)
GetByRange(list, range, base) ==
  LET ix == PositionsToIndices(range, list)
  IN  IF ix.valid
        THEN SubSeq(IF base = "Head" THEN list ELSE Reverse(list), ix.begin + 1, ix.last)
        ELSE <<>>

(* Cut(list, begin, last): std::list::erase of [begin, last), begin <= last. *)
Cut(list, begin, last) == SubSeq(list, 1, begin) \o SubSeq(list, last + 1, Len(list))

(***************************************************************************)
(* Remove checks the indices but not their order: with last < begin it     *)
(* would erase a reversed range, which std::list leaves undefined.         *)
(***************************************************************************)
RemoveIsDefined(list, range) ==
  LET ix == PositionsToIndices(range, list) IN ix.valid => ix.begin <= ix.last

(* Slip: the node at last goes as well. *)
RemoveRange_Inclusive(list, range) ==
  LET ix == PositionsToIndices(range, list)
  IN  IF ix.valid THEN Cut(list, ix.begin, ix.last + 1) ELSE list

RemoveRange(list, range) ==
  LET ix == PositionsToIndices(range, list)
  IN  IF ix.valid THEN Cut(list, ix.begin, ix.last) ELSE list

(* What std::remove_if, and std::set_intersection's output, leave of a list: the items
   at the positions in kept, in order. *)
ItemsAt(list, kept) ==
  LET upTo[p \in 0..Len(list)] ==
        IF p = 0 THEN <<>> ELSE IF p \in kept THEN Append(upTo[p - 1], list[p]) ELSE upTo[p - 1]
  IN  upTo[Len(list)]

(* RemoveIf<false>: std::remove_if in the range, then erase. *)
UnsortedRemoveIfEquals(list, range, val) ==
  LET it == PositionsToIterators(range, list)
  IN  IF it.valid
        THEN ItemsAt(list, {p \in 1..Len(list) : p \in (it.begin + 1)..it.last => list[p] # val})
        ELSE list

(* Slip: the search starts at the head instead of the range. *)
SortedRemoveIfEquals_FromHead(list, range, val) ==
  LET it == PositionsToIterators(range, list)
      within == SubSeq(list, 1, it.last)
  IN  IF it.valid
        THEN Cut(list, LowerBound(within, 1, val) - 1, UpperBound(within, 1, val) - 1)
        ELSE list

(* RemoveIf<true>: std::equal_range in the range, then erase. *)
SortedRemoveIfEquals(list, range, val) ==
  LET it == PositionsToIterators(range, list)
      within == SubSeq(list, 1, it.last)
  IN  IF it.valid
        THEN Cut(list, LowerBound(within, it.begin + 1, val) - 1,
                       UpperBound(within, it.begin + 1, val) - 1)
        ELSE list

(***************************************************************************)
(* std::set_intersection of the two ranges: an item of the first list is   *)
(* kept while the second still has an equal one to pair it with.           *)
(***************************************************************************)
SetIntersection(a, b) ==
  LET count(s, v, upTo) == Cardinality({q \in 1..upTo : s[q] = v})
  IN  ItemsAt(a, {p \in 1..Len(a) : count(a, a[p], p) <= count(b, a[p], Len(b))})

(* intersect: nothing is produced when either range is invalid or empty. *)
IntersectIsValid(l1, l2, range1, range2) ==
  PositionsToIterators(range1, l1).valid /\ PositionsToIterators(range2, l2).valid

Intersect(l1, l2, range1, range2) ==
  LET it1 == PositionsToIterators(range1, l1)
      it2 == PositionsToIterators(range2, l2)
  IN  IF IntersectIsValid(l1, l2, range1, range2)
        THEN SetIntersection(SubSeq(l1, it1.begin + 1, it1.last),
                             SubSeq(l2, it2.begin + 1, it2.last))
        ELSE <<>>
=============================================================================
