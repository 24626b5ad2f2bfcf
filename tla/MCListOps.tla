----------------------------- MODULE MCListOps -----------------------------
(***************************************************************************)
(* The operators of ListOps against reference definitions, for every list  *)
(* and every items vector up to a bound, at every position.  One behaviour *)
(* picks a list and an items vector and then inserts and removes, so that  *)
(* the lists an operation leaves are probed as well.                       *)
(***************************************************************************)
EXTENDS ListApi, FiniteSets

CONSTANTS
  Values,    \* item values
  Reach,     \* bound: positions are -Reach..Reach
  MaxItems,  \* bound: items in one vector
  MaxLen     \* bound: nodes in one list

ASSUME ProbeConstants ==
  Values \subseteq Int /\ Reach \in Nat /\ MaxItems \in Nat /\ MaxLen \in Nat

Positions == (-Reach)..Reach

VARIABLES list, items
vars == <<list, items>>

Init == list \in BoundedSeq(Values, MaxLen) /\ items \in BoundedSeq(Values, MaxItems) \ {<<>>}

InsertSome(pos) == Len(list) + Len(items) <= MaxLen /\ list' = InsertItems(list, items, pos)

RemoveSome(range) == list # <<>> /\ RemoveIsDefined(list, range) /\ list' = RemoveRange(list, range)

Next ==
  /\ \/ \E pos \in Positions : InsertSome(pos)
     \/ \E pos \in Positions : RemoveSome([start |-> pos, stop |-> 0, hasStop |-> FALSE])
  /\ UNCHANGED items

Spec == Init /\ [][Next]_vars

-----------------------------------------------------------------------------
(* Reference definitions *)

Ranges == [start : Positions, stop : Positions, hasStop : {TRUE}]
            \cup [start : Positions, stop : {0}, hasStop : {FALSE}]

Resolve(pos) == IF pos < 0 THEN Len(list) + pos ELSE pos
InBounds(pos) == 0 <= Resolve(pos) /\ Resolve(pos) < Len(list)

(* The 1-based positions a range denotes when each end is read as in a Python slice. *)
Denoted(range) ==
  {p \in 1..Len(list) : /\ InBounds(range.start)
                        /\ Resolve(range.start) < p
                        /\ range.hasStop => p <= Resolve(range.stop)}

Copies(s, val) == Cardinality({p \in 1..Len(s) : s[p] = val})

(* A stop before the head, which the code folds back by labs(). *)
StopInReach(range) == range.hasStop => range.stop >= -Len(list)

-----------------------------------------------------------------------------
(* Properties *)

(* get_range returns the Python slice, and its reverse form the slice of the
   reversed list, as long as stop does not reach past the head: what the client
   answers by itself is no different from what the server would say.  get_n is the
   window of count items at start, and the head and tail calls meet the end items, on
   an empty list too. *)
ReadsAreSlices ==
  LET from == [Head |-> list, Tail |-> Reverse(list)]
  IN  /\ \A range \in Ranges, base \in {"Head", "Tail"} :
           StopInReach(range) => GetRange(list, range, base) = ItemsAt(from[base], Denoted(range))
      /\ \A start, count \in 0..Reach, base \in {"Head", "Tail"} :
           GetN(list, start, count, base) =
             ItemsAt(from[base], IF count = 0 THEN {p \in 1..Len(list) : p > start}
                                 ELSE (start + 1)..LesserOf(start + count, Len(list)))
      /\ list # <<>> =>
           /\ list = <<GetHead(list)>> \o RemoveHead(list)
           /\ list = Append(RemoveTail(list), GetTail(list))
      /\ list = <<>> => GetHead(list) = None /\ GetTail(list) = None
                          /\ RemoveHead(list) = <<>> /\ RemoveTail(list) = <<>>

(* All operations mean the same nodes by a range: what a read returns is what
   remove takes out, what remove_if searches and what intersect compares, on every
   range for which remove is defined, folded stops included; and intersect leaves its
   answer unfinished only for a range that a read finds empty. *)
RangesMeanTheSameEverywhere ==
  \A range \in Ranges : RemoveIsDefined(list, range) =>
    LET got  == GetByRange(list, range, "Head")
        left == RemoveRange(list, range)
        all  == [start |-> 0, stop |-> 0, hasStop |-> FALSE]
    IN  /\ \E cut \in 0..Len(left) :
             list = SubSeq(left, 1, cut) \o got \o SubSeq(left, cut + 1, Len(left))
        /\ \A val \in Values :
             Copies(list, val) - Copies(UnsortedRemoveIfEquals(list, range, val), val) = Copies(got, val)
        /\ Intersect(list, items, range, all) = SetIntersection(got, items)
        /\ IntersectIsValid(list, items, range, all) <=> got # <<>>

(* The shortcuts of the sorted add (prepend, append, search from the last insert)
   and the plain search both leave the ascending merge of list and items: nothing
   is lost, doubled or out of order. *)
SortedAddMerges ==
  \A flagged \in BOOLEAN :
    Ascending(list) /\ (flagged => Ascending(items)) =>
      LET result == SortedAdd(list, items, flagged)
      IN  /\ Ascending(result)
          /\ \A val \in Values : Copies(result, val) = Copies(list, val) + Copies(items, val)

(* On an ascending list the equal_range form of remove_if removes what the scan
   removes. *)
RemoveIfFormsAgree ==
  Ascending(list) =>
    \A range \in Ranges, val \in Values :
      SortedRemoveIfEquals(list, range, val) = UnsortedRemoveIfEquals(list, range, val)

(* An insert keeps the old nodes in order and puts the items, in order, where the
   old node at pos was (at the tail if pos is out of bounds), so a read at a
   non-negative pos finds them. *)
InsertKeepsOrder ==
  \A pos \in Positions :
    LET result == InsertItems(list, items, pos)
        at     == IF InBounds(pos) THEN Resolve(pos) ELSE Len(list)
        new    == (at + 1)..(at + Len(items))
    IN  /\ ItemsAt(result, new) = items
        /\ ItemsAt(result, (1..Len(result)) \ new) = list

(* set with a position in bounds overwrites node by node until the items or the
   list end and moves nothing else. *)
SetOverwritesInPlace ==
  \A pos \in Positions : InBounds(pos) =>
    LET result == SetItems(list, items, pos)
    IN  /\ Len(result) = Len(list)
        /\ \A p \in 1..Len(list) :
             result[p] = IF p - Resolve(pos) \in 1..Len(items) THEN items[p - Resolve(pos)] ELSE list[p]

(* test_list.py ("out of bounds"): a set whose position is not in the list leaves
   it as it was. *)
SetOutOfBoundsChangesNothing ==
  \A pos \in Positions : ~InBounds(pos) => SetItems(list, items, pos) = list
=============================================================================
