------------------------------ MODULE ListApi ------------------------------
(***************************************************************************)
(* The positional calls of the Python list API (list.py), as what they     *)
(* come to on one list: the ranges they build out of their arguments, and  *)
(* the ones they answer without asking.  None is Python's None.            *)
(***************************************************************************)
EXTENDS ListOps

CONSTANT None

ASSUME NoneAssumption == None \notin Int

(* A range as the request carries it. *)
ArgRange(start, stop) ==
  [start |-> start, stop |-> IF stop = None THEN 0 ELSE stop, hasStop |-> stop # None]

(* Slip: only positive positions are compared. *)
IsRangeValid_Positive(range) ==
  range.hasStop =>
    /\ range.start # range.stop
    /\ ~(range.start > 0 /\ range.stop > 0 /\ range.start > range.stop)

(* What the API refuses to send for reads, remove and remove_if_eq. *)
IsRangeValid(range) ==
  range.hasStop =>
    /\ range.start # range.stop
    /\ ~(range.start < 0 /\ range.stop < 0 /\ range.start > range.stop)
    /\ ~(range.start > 0 /\ range.stop > 0 /\ range.start > range.stop)

(* get_range and get_range_reverse *)
GetRange(list, range, base) ==
  IF IsRangeValid(range) THEN GetByRange(list, range, base) ELSE <<>>

(* get_n and get_n_reverse: a count of None or 0 means all the rest. *)
GetN(list, start, count, base) ==
  GetByRange(list, ArgRange(start, IF count \in {None, 0} THEN None ELSE start + count), base)

FirstOrNone(items) == IF items = <<>> THEN None ELSE items[1]
GetHead(list) == FirstOrNone(GetN(list, 0, 1, "Head"))
GetTail(list) == FirstOrNone(GetN(list, 0, 1, "Tail"))

RemoveHead(list) == RemoveRange(list, ArgRange(0, 1))
RemoveTail(list) == RemoveRange(list, ArgRange(-1, None))
=============================================================================
