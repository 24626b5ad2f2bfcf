----------------------------- MODULE SortedAdd -----------------------------
(***************************************************************************)
(* Add<true> on one sorted list, iteration by iteration (ListOperations    *)
(* doAdd and doSourceListSortedAdd): which branch a request takes, and     *)
(* what each emplace does to the list, the loop index and the iterator.    *)
(* ListOps!SortedAdd is the same code as one operator; here the steps are  *)
(* explicit, so that the loops' invariant can be stated and proved.        *)
(*                                                                         *)
(* Requests follow one another on the same list.                           *)
(***************************************************************************)
EXTENDS ListOps

CONSTANTS
  ItemVectors,  \* the items a request may carry
  MaxLen        \* bound: nodes in the list

ASSUME ItemsAssumption == ItemVectors \subseteq Seq(Int) \ {<<>>}
ASSUME MaxLenAssumption == MaxLen \in Nat

VARIABLES
  list,         \* the std::list
  items,        \* the request's vector
  itemsSorted,  \* the request's flag
  pc,           \* where the handler is
  i,            \* loop index into items
  it,           \* iterator of the cursor branch
  base          \* the list as the request found it (history)

vars == <<list, items, itemsSorted, pc, i, it, base>>

Init ==
  /\ list = <<>> /\ base = <<>>
  /\ items = <<>> /\ itemsSorted = FALSE
  /\ pc = "idle" /\ i = 1 /\ it = 1

(* A request arrives; the flag is the client's promise. *)
Request(vector, flag) ==
  /\ pc = "idle"
  /\ Len(list) + Len(vector) <= MaxLen
  /\ flag => Ascending(vector)
  /\ items' = vector /\ itemsSorted' = flag
  /\ base' = list
  /\ pc' = "choose"
  /\ UNCHANGED <<list, i, it>>

(* The list is deleted and created anew between two requests. *)
Recreate ==
  /\ pc = "idle"
  /\ list' = <<>> /\ base' = <<>>
  /\ items' = <<>> /\ itemsSorted' = FALSE
  /\ i' = 1 /\ it' = 1 /\ pc' = pc

(* Slip: the lowest item decides. *)
FitsInFront_Lowest == list # <<>> /\ items[1] <= list[1]

(* Dispatch, in the order the code tests. *)
FitsInFront == list # <<>> /\ items[Len(items)] <= list[1]
FitsBehind  == list # <<>> /\ items[1] >= list[Len(list)]

Choose(branch, first) ==
  /\ pc = "choose"
  /\ pc' = branch /\ i' = first /\ it' = 1
  /\ UNCHANGED <<list, items, itemsSorted, base>>

ChooseEach   == ~itemsSorted /\ Choose("each", 1)
ChooseFront  == itemsSorted /\ FitsInFront /\ Choose("front", Len(items))
ChooseBack   == itemsSorted /\ ~FitsInFront /\ FitsBehind /\ Choose("back", 1)
ChooseCursor == itemsSorted /\ ~FitsInFront /\ ~FitsBehind /\ Choose("cursor", 1)

(* Slip: the loop stops one item early. *)
Continue_Short(branch, next) ==
  /\ i' = next
  /\ pc' = IF next \in 1..(Len(items) - 1) THEN branch ELSE "idle"
  /\ UNCHANGED <<items, itemsSorted, base>>

(* The loop ends after the last item (the first one, counting down). *)
Continue(branch, next) ==
  /\ i' = next
  /\ pc' = IF next \in 1..Len(items) THEN branch ELSE "idle"
  /\ UNCHANGED <<items, itemsSorted, base>>

EmplaceFront ==
  /\ pc = "front"
  /\ list' = <<items[i]>> \o list
  /\ it' = it
  /\ Continue("front", i - 1)

EmplaceBack ==
  /\ pc = "back"
  /\ list' = Append(list, items[i])
  /\ it' = it
  /\ Continue("back", i + 1)

(* Slips: the cursor is left one node off, on either side. *)
EmplaceFromCursor_Before ==
  /\ pc = "cursor"
  /\ \E p \in it..(Len(list) + 1) :
       /\ IsLowerBound(list, it, items[i], p)
       /\ list' = InsertAt(list, p, items[i])
       /\ it' = p - 1
  /\ Continue("cursor", i + 1)

EmplaceFromCursor_Behind ==
  /\ pc = "cursor"
  /\ \E p \in it..(Len(list) + 1) :
       /\ IsLowerBound(list, it, items[i], p)
       /\ list' = InsertAt(list, p, items[i])
       /\ it' = p + 1
  /\ Continue("cursor", i + 1)

(* Search from the node inserted before. *)
EmplaceFromCursor ==
  /\ pc = "cursor"
  /\ \E p \in it..(Len(list) + 1) :
       /\ IsLowerBound(list, it, items[i], p)
       /\ list' = InsertAt(list, p, items[i])
       /\ it' = p
  /\ Continue("cursor", i + 1)

(* Search from the head every time. *)
EmplaceEach ==
  /\ pc = "each"
  /\ \E p \in 1..(Len(list) + 1) :
       /\ IsLowerBound(list, 1, items[i], p)
       /\ list' = InsertAt(list, p, items[i])
  /\ it' = it
  /\ Continue("each", i + 1)

Next ==
  \/ \E vector \in ItemVectors, flag \in BOOLEAN : Request(vector, flag)
  \/ Recreate
  \/ ChooseEach \/ ChooseFront \/ ChooseBack \/ ChooseCursor
  \/ EmplaceFront \/ EmplaceBack \/ EmplaceFromCursor \/ EmplaceEach

Spec == Init /\ [][Next]_vars

-----------------------------------------------------------------------------
(* Properties *)

TypeOK ==
  /\ list \in Seq(Int) /\ base \in Seq(Int) /\ items \in Seq(Int)
  /\ itemsSorted \in BOOLEAN
  /\ pc \in {"idle", "choose", "front", "back", "cursor", "each"}
  /\ i \in Int /\ it \in Nat \ {0}

(* The list is in ascending order between any two emplaces, so also at the end of
   every request, whichever branch its items took. *)
ListAscends == Ascending(list)

(* A finished request has lost nothing and added nothing else: the list holds the
   nodes it had and the request's items, and no more of them. *)
AddKeepsEverything ==
  pc = "idle" =>
    /\ Elements(list) = Elements(base) \cup Elements(items)
    /\ Len(list) = Len(base) + Len(items)

(* The loops compute what the one-step operator that ListHandler uses computes. *)
LoopIsSortedAdd ==
  pc = "idle" /\ items # <<>> => list = SortedAdd(base, items, itemsSorted)

-----------------------------------------------------------------------------
(* The inductive invariant *)

(* The items already emplaced. *)
Done ==
  CASE pc \in {"idle"}   -> 1..Len(items)
    [] pc = "choose"     -> {}
    [] pc = "front"      -> (i + 1)..Len(items)
    [] OTHER             -> 1..(i - 1)

DoneCount ==
  CASE pc = "idle"   -> Len(items)
    [] pc = "choose" -> 0
    [] pc = "front"  -> Len(items) - i
    [] OTHER         -> i - 1

(* In a loop the index is in range and the flagged items ascend. *)
LoopInv ==
  /\ pc \notin {"idle"} => items # <<>>
  /\ pc \in {"front", "back", "cursor", "each"} => i \in 1..Len(items)
  /\ pc \in {"front", "back", "cursor"} => itemsSorted
  /\ itemsSorted => Ascending(items)

(* Each branch keeps the fact that lets it insert without looking at the rest. *)
BranchInv ==
  /\ pc = "front"  => list # <<>> /\ items[i] <= list[1]
  /\ pc = "back"   => list # <<>> /\ items[i] >= list[Len(list)]
  /\ pc = "cursor" => IF i = 1 THEN it = 1 ELSE it \in 1..Len(list) /\ list[it] = items[i - 1]

ContentInv ==
  /\ Elements(list) = Elements(base) \cup {items[k] : k \in Done}
  /\ Len(list) = Len(base) + DoneCount

IInv == TypeOK /\ ListAscends /\ LoopInv /\ BranchInv /\ ContentInv
=============================================================================
