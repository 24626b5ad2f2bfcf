------------------------- MODULE ListHandlerProofs -------------------------
(***************************************************************************)
(* What every request on the lists leaves alone, for any names, values,    *)
(* positions and bounds.                                                   *)
(*                                                                         *)
(* The action properties follow from the answers' shape and from Shaped,   *)
(* the part of TypeOK that does not depend on what the operations compute. *)
(* The invariants need ListInv as well: every list is of its own kind, and *)
(* ascends if it is sorted.  That is kept because of what the operations   *)
(* leave, which ListOpsProofs says.                                        *)
(***************************************************************************)
EXTENDS ListHandler, ListOpsProofs

(* What a name holds is a record of a type, a flag and items, or no list. *)
ShapedList(list) ==
  /\ list = [type |-> list.type, sorted |-> list.sorted, items |-> list.items]
  /\ list.type \in Types /\ list.sorted \in BOOLEAN

Shaped ==
  /\ lists = [n \in Names |-> lists[n]]
  /\ \A n \in Names : lists[n] = NoList \/ ShapedList(lists[n])

-----------------------------------------------------------------------------
(* The status sent is the one finished last. *)

(* The only response finished is the one sent. *)
LEMMA LastOfOne == \A status : Last(<<status>>) = status
  BY DEF Last

(* A response finished after haveList replaces the one haveList finished. *)
LEMMA LastAfterHaveList ==
  \A name \in Names : \A status : Last(HaveListFinishes(name) \o <<status>>) = status
<1> SUFFICES ASSUME NEW name \in Names, NEW status
             PROVE  Last(HaveListFinishes(name) \o <<status>>) = status
  OBVIOUS
<1>1. Last(<<>> \o <<status>>) = status
  BY DEF Last
<1>2. Last(<<"Fail">> \o <<status>>) = status
  BY DEF Last
<1>3. QED
  BY <1>1, <1>2 DEF HaveListFinishes

-----------------------------------------------------------------------------
(* What the two ways of changing a list do to the others and to its kind. *)

(* New items for one list leave the other lists, and its own kind, alone. *)
LEMMA SetItemsOfOneList ==
  ASSUME Shaped, NEW name \in Names, Exists(name), NEW items,
         lists' = SetListItems(name, items)
  PROVE  /\ Shaped'
         /\ \A n \in Names \ {name} : lists'[n] = lists[n]
         /\ lists'[name].type = lists[name].type
         /\ lists'[name].sorted = lists[name].sorted
<1> DEFINE old == lists[name]
<1>1. ShapedList(old)
  BY DEF Shaped, Exists
<1>2. lists' = [n \in Names |-> IF n = name THEN [old EXCEPT !.items = items] ELSE lists[n]]
  BY DEF Shaped, SetListItems
<1>3. [old EXCEPT !.items = items] = [type |-> old.type, sorted |-> old.sorted, items |-> items]
  BY <1>1 DEF ShapedList
<1>4. lists'[name] = [type |-> old.type, sorted |-> old.sorted, items |-> items]
  BY <1>2, <1>3
<1>5. \A n \in Names \ {name} : lists'[n] = lists[n]
  BY <1>2
<1>6. ShapedList(lists'[name])
  BY <1>1, <1>4 DEF ShapedList
<1>7. lists' = [n \in Names |-> lists'[n]]
  BY <1>2
<1>8. \A n \in Names : lists'[n] = NoList \/ ShapedList(lists'[n])
  BY <1>5, <1>6 DEF Shaped
<1>9. Shaped'
  BY <1>7, <1>8 DEF Shaped, ShapedList
<1>10. QED
  BY <1>4, <1>5, <1>9

(* createList touches one name, and only if it is free. *)
LEMMA CreateOneList ==
  ASSUME Shaped, NEW name \in Names, NEW type \in Types, NEW sorted \in BOOLEAN, NEW items,
         lists' = CreateList(name, type, sorted, items)
  PROVE  /\ Shaped'
         /\ \A n \in Names : n # name \/ Exists(n) => lists'[n] = lists[n]
         /\ Exists(name) => lists' = lists
<1> DEFINE new == [type |-> type, sorted |-> sorted, items |-> items]
<1>1. CASE Exists(name)
  <2>1. lists' = lists
    BY <1>1 DEF CreateList
  <2>2. QED
    BY <2>1 DEF Shaped, ShapedList
<1>2. CASE ~Exists(name)
  <2>1. lists' = [n \in Names |-> IF n = name THEN new ELSE lists[n]]
    BY <1>2 DEF CreateList, Shaped
  <2>2. ShapedList(new)
    BY DEF ShapedList
  <2>3. \A n \in Names : lists'[n] = NoList \/ ShapedList(lists'[n])
    BY <2>1, <2>2 DEF Shaped
  <2>4. lists' = [n \in Names |-> lists'[n]]
    BY <2>1
  <2>5. Shaped'
    BY <2>3, <2>4 DEF Shaped, ShapedList
  <2>6. QED
    BY <1>2, <2>1, <2>5
<1>3. QED
  BY <1>1, <1>2

-----------------------------------------------------------------------------
(* What every request guarantees: the three action properties in one. *)

Refusals == {"Fail", "Duplicate", "NotPermitted"}

KindKept(n) ==
  Exists(n) /\ Exists(n)' =>
    lists'[n].type = lists[n].type /\ lists'[n].sorted = lists[n].sorted

OthersKept ==
  up /\ up' =>
    /\ \A n \in Names \ rsp'.targets :
         lists'[n] = lists[n] \/ (rsp'.op = "ListDelete" /\ rsp'.targets = {})
    /\ rsp'.op = "ListIntersect" => \A n \in Names : Exists(n) => lists'[n] = lists[n]

Harmless ==
  /\ rsp'.status \in Refusals => lists' = lists
  /\ OthersKept
  /\ \A n \in Names : KindKept(n)

(* Handlers that only read. *)
LEMMA UnchangedIsHarmless == Shaped /\ lists' = lists => Shaped' /\ Harmless
  BY DEF Shaped, ShapedList, Harmless, OthersKept, KindKept

(* A request that replaces one list's items and answers Ok. *)
LEMMA ReplacedItemsAreHarmless ==
  ASSUME Shaped, NEW name \in Names, Exists(name), NEW items,
         lists' = SetListItems(name, items),
         rsp'.status = "Ok", rsp'.targets = {name}, rsp'.op # "ListIntersect"
  PROVE  Shaped' /\ Harmless
<1>1. /\ Shaped'
      /\ \A n \in Names \ {name} : lists'[n] = lists[n]
      /\ lists'[name].type = lists[name].type
      /\ lists'[name].sorted = lists[name].sorted
  BY SetItemsOfOneList
<1>2. \A n \in Names : KindKept(n)
  BY <1>1 DEF KindKept
<1>3. QED
  BY <1>1, <1>2 DEF Harmless, OthersKept, Refusals

(* ListCreate: Duplicate leaves the list there was. *)
LEMMA CreateIsHarmless ==
  ASSUME Shaped, NEW name \in Names, NEW type \in Types, NEW sorted \in BOOLEAN,
         ListCreate(name, type, sorted)
  PROVE  Shaped' /\ Harmless
<1>1. /\ Shaped'
      /\ \A n \in Names : n # name \/ Exists(n) => lists'[n] = lists[n]
      /\ Exists(name) => lists' = lists
  BY CreateOneList DEF ListCreate
<1>2. /\ rsp'.op = "ListCreate" /\ rsp'.targets = {name}
      /\ rsp'.status = IF Exists(name) THEN "Duplicate" ELSE "Ok"
  BY LastOfOne DEF ListCreate, Respond, RespondWith
<1>3. \A n \in Names : KindKept(n)
  BY <1>1 DEF KindKept
<1>4. QED
  BY <1>1, <1>2, <1>3 DEF Harmless, OthersKept, Refusals

(* doAddAppend, for ListAdd and ListAppend. *)
LEMMA AddIsHarmless ==
  ASSUME Shaped, NEW op, op \in {"ListAdd", "ListAppend"},
         NEW name \in Names, NEW items, NEW result,
         AddToMissing(op, name) \/ AddTo(op, name, items, result)
  PROVE  Shaped' /\ Harmless
<1>1. CASE AddToMissing(op, name)
  BY <1>1, UnchangedIsHarmless DEF AddToMissing
<1>2. CASE AddTo(op, name, items, result)
  <2>1. rsp'.status = "Ok" /\ rsp'.targets = {name} /\ rsp'.op # "ListIntersect"
    BY <1>2, LastOfOne DEF AddTo, RespondWith
  <2>2. Exists(name) /\ lists' = SetListItems(name, result)
    BY <1>2 DEF AddTo
  <2>3. QED
    BY <2>1, <2>2, ReplacedItemsAreHarmless
<1>3. QED
  BY <1>1, <1>2

(* ListSet: NotPermitted, and the Ok that replaces a Fail, change nothing. *)
LEMMA SetIsHarmless ==
  ASSUME Shaped, NEW name \in Names, NEW items, NEW pos, ListSet(name, items, pos)
  PROVE  Shaped' /\ Harmless
<1> DEFINE refused == Exists(name) /\ lists[name].sorted
           result  == SetItems(lists[name].items, items, pos)
<1>1. CASE ~Exists(name) \/ refused
  <2>1. lists' = lists
    BY <1>1 DEF ListSet
  <2>2. QED
    BY <2>1, UnchangedIsHarmless
<1>2. CASE Exists(name) /\ ~refused
  <2>1. lists' = SetListItems(name, result)
    BY <1>2 DEF ListSet
  <2>2. rsp'.status = "Ok" /\ rsp'.targets = {name} /\ rsp'.op # "ListIntersect"
    BY <1>2, LastAfterHaveList DEF ListSet, Respond, RespondWith
  <2>3. QED
    BY <1>2, <2>1, <2>2, ReplacedItemsAreHarmless
<1>3. QED
  BY <1>1, <1>2

(* ListDelete: a deleted list has no kind to keep. *)
LEMMA DeleteIsHarmless ==
  ASSUME Shaped, NEW names \in SUBSET Names, ListDelete(names)
  PROVE  Shaped' /\ Harmless
<1> DEFINE doomed == IF names = {} THEN Names ELSE names
<1>1. lists' = [n \in Names |-> IF n \in doomed THEN NoList ELSE lists[n]]
  BY DEF ListDelete
<1>2. rsp'.op = "ListDelete" /\ rsp'.status = "Ok" /\ rsp'.targets = names
  BY LastOfOne DEF ListDelete, Respond, RespondWith
<1>3. \A n \in Names : lists'[n] = IF n \in doomed THEN NoList ELSE lists[n]
  BY <1>1
<1>4. \A n \in Names : lists'[n] = NoList \/ ShapedList(lists'[n])
  BY <1>3 DEF Shaped
<1>5. lists' = [n \in Names |-> lists'[n]]
  BY <1>1
<1>6. Shaped'
  BY <1>4, <1>5 DEF Shaped, ShapedList
<1>7. \A n \in Names : KindKept(n)
  BY <1>3 DEF KindKept, Exists
<1>8. QED
  BY <1>2, <1>3, <1>6, <1>7 DEF Harmless, OthersKept, Refusals

(* ListRemove on a range that erase defines. *)
LEMMA RemoveIsHarmless ==
  ASSUME Shaped, NEW name \in Names, NEW range, ListRemove(name, range)
  PROVE  Shaped' /\ Harmless
<1> DEFINE result == RemoveRange(lists[name].items, range)
<1>1. CASE ~Exists(name)
  BY <1>1, UnchangedIsHarmless DEF ListRemove
<1>2. CASE Exists(name)
  <2>1. lists' = SetListItems(name, result)
    BY <1>2 DEF ListRemove
  <2>2. rsp'.status = "Ok" /\ rsp'.targets = {name} /\ rsp'.op # "ListIntersect"
    BY LastAfterHaveList DEF ListRemove, Respond, RespondWith
  <2>3. QED
    BY <1>2, <2>1, <2>2, ReplacedItemsAreHarmless
<1>3. QED
  BY <1>1, <1>2

(* The process that dies takes every list with it and answers nothing. *)
LEMMA ReversedRemoveIsHarmless ==
  ASSUME Shaped, NEW name \in Names, NEW range, ListRemoveReversed(name, range)
  PROVE  Shaped' /\ Harmless
<1>1. ~up' /\ lists' = [n \in Names |-> NoList] /\ rsp'.status = "None"
  BY DEF ListRemoveReversed, NoAnswer
<1>2. Shaped'
  BY <1>1 DEF Shaped
<1>3. \A n \in Names : KindKept(n)
  BY <1>1 DEF KindKept, Exists
<1>4. QED
  BY <1>1, <1>2, <1>3 DEF Harmless, OthersKept, Refusals

(* ListRemoveIf, on sorted and unsorted lists. *)
LEMMA RemoveIfIsHarmless ==
  ASSUME Shaped, NEW name \in Names, NEW range, NEW type, NEW val,
         ListRemoveIf(name, range, type, val)
  PROVE  Shaped' /\ Harmless
<1> DEFINE list == lists[name]
           left == IF type # list.type THEN list.items
                   ELSE IF list.sorted THEN SortedRemoveIfEquals(list.items, range, val)
                   ELSE UnsortedRemoveIfEquals(list.items, range, val)
<1>1. CASE ~Exists(name)
  BY <1>1, UnchangedIsHarmless DEF ListRemoveIf
<1>2. CASE Exists(name)
  <2>1. lists' = SetListItems(name, left)
    BY <1>2 DEF ListRemoveIf
  <2>2. rsp'.status = "Ok" /\ rsp'.targets = {name} /\ rsp'.op # "ListIntersect"
    BY <1>2, LastOfOne DEF ListRemoveIf, RespondWith
  <2>3. QED
    BY <1>2, <2>1, <2>2, ReplacedItemsAreHarmless
<1>3. QED
  BY <1>1, <1>2

(* ListIntersect into a new list: a name that is taken keeps its list. *)
LEMMA IntersectToNewIsHarmless ==
  ASSUME Shaped, NEW n1 \in Names, NEW n2 \in Names, NEW range1, NEW range2,
         NEW new \in Names, ListIntersectToNew(n1, n2, range1, range2, new)
  PROVE  Shaped' /\ Harmless
<1> DEFINE type == lists[n1].type
           found == Intersect(lists[n1].items, lists[n2].items, range1, range2)
<1>1. type \in Types
  BY DEF ListIntersectToNew, Shaped, ShapedList, Exists
<1>2. lists' = CreateList(new, type, TRUE, found)
  BY DEF ListIntersectToNew
<1>3. Shaped' /\ \A n \in Names : n # new \/ Exists(n) => lists'[n] = lists[n]
  <2> HIDE DEF type, found
  <2>1. QED
    BY <1>1, <1>2, CreateOneList
<1>4. rsp'.status = "Ok" /\ rsp'.targets = {new}
  BY LastOfOne DEF ListIntersectToNew, Respond, RespondWith
<1>5. \A n \in Names : KindKept(n)
  BY <1>3 DEF KindKept
<1>6. QED
  BY <1>3, <1>4, <1>5 DEF Harmless, OthersKept, Refusals

(* Requests that only read, and the restart of an empty process. *)
LEMMA ReadsAreHarmless ==
  ASSUME Shaped, NEW name \in Names, NEW other \in Names, NEW range1, NEW range2, NEW base,
         \/ ListInfo(name) \/ ListGetRange(name, range1, base)
         \/ ListIntersectRefused(name, other) \/ ListIntersect(name, other, range1, range2)
         \/ Restart
  PROVE  Shaped' /\ Harmless
<1>1. lists' = lists
  BY DEF ListInfo, ListGetRange, ListIntersectRefused, ListIntersect, Restart
<1>2. QED
  BY <1>1, UnchangedIsHarmless

(* Every request that names one list. *)
LEMMA RequestOnOneListIsHarmless ==
  ASSUME Shaped, NEW name \in Names,
         \/ ListInfo(name)
         \/ \E type \in Types, sorted \in BOOLEAN : ListCreate(name, type, sorted)
         \/ \E items \in ItemSeqs :
              \/ ListAppend(name, items)
              \/ Ascending(items) /\ ListAdd(name, items, 0, TRUE)
              \/ \E pos \in Positions : ListAdd(name, items, pos, FALSE) \/ ListSet(name, items, pos)
         \/ \E range \in Ranges :
              \/ \E base \in Bases : ListGetRange(name, range, base)
              \/ ListRemove(name, range)
              \/ ListRemoveReversed(name, range)
              \/ \E type \in Types, val \in Values : ListRemoveIf(name, range, type, val)
         \/ \E other \in Names :
              \/ ListIntersectRefused(name, other)
              \/ \E range1, range2 \in IntersectRanges :
                   \/ ListIntersect(name, other, range1, range2)
                   \/ \E new \in Names : ListIntersectToNew(name, other, range1, range2, new)
  PROVE  Shaped' /\ Harmless
<1>1. CASE ListInfo(name)
  BY <1>1, ReadsAreHarmless
<1>2. CASE \E type \in Types, sorted \in BOOLEAN : ListCreate(name, type, sorted)
  BY <1>2, CreateIsHarmless
<1>3. ASSUME NEW items \in ItemSeqs, ListAppend(name, items)
      PROVE  Shaped' /\ Harmless
  BY <1>3, AddIsHarmless DEF ListAppend
<1>4. ASSUME NEW items \in ItemSeqs, NEW pos, NEW flag, ListAdd(name, items, pos, flag)
      PROVE  Shaped' /\ Harmless
  BY <1>4, AddIsHarmless DEF ListAdd
<1>5. ASSUME NEW items \in ItemSeqs, NEW pos \in Positions, ListSet(name, items, pos)
      PROVE  Shaped' /\ Harmless
  BY <1>5, SetIsHarmless
<1>6. ASSUME NEW range \in Ranges, NEW base \in Bases, ListGetRange(name, range, base)
      PROVE  Shaped' /\ Harmless
  BY <1>6, ReadsAreHarmless
<1>7. ASSUME NEW range \in Ranges, ListRemove(name, range) \/ ListRemoveReversed(name, range)
      PROVE  Shaped' /\ Harmless
  BY <1>7, RemoveIsHarmless, ReversedRemoveIsHarmless
<1>8. ASSUME NEW range \in Ranges, NEW type \in Types, NEW val \in Values,
             ListRemoveIf(name, range, type, val)
      PROVE  Shaped' /\ Harmless
  BY <1>8, RemoveIfIsHarmless
<1>9. ASSUME NEW other \in Names, ListIntersectRefused(name, other)
      PROVE  Shaped' /\ Harmless
  BY <1>9, ReadsAreHarmless
<1>10. ASSUME NEW other \in Names, NEW range1 \in IntersectRanges, NEW range2 \in IntersectRanges,
              ListIntersect(name, other, range1, range2)
       PROVE  Shaped' /\ Harmless
  BY <1>10, ReadsAreHarmless
<1>11. ASSUME NEW other \in Names, NEW range1 \in IntersectRanges, NEW range2 \in IntersectRanges,
              NEW new \in Names, ListIntersectToNew(name, other, range1, range2, new)
       PROVE  Shaped' /\ Harmless
  BY <1>11, IntersectToNewIsHarmless
<1>12. QED
  BY <1>1, <1>2, <1>3, <1>4, <1>5, <1>6, <1>7, <1>8, <1>9, <1>10, <1>11

(* Every step keeps the shape of lists and satisfies the three action properties. *)
LEMMA StepIsHarmless == Shaped /\ [Next]_vars => Shaped' /\ Harmless
<1> SUFFICES ASSUME Shaped, [Next]_vars PROVE Shaped' /\ Harmless
  OBVIOUS
<1>1. CASE UNCHANGED vars
  BY <1>1, UnchangedIsHarmless DEF vars
<1>2. CASE Restart
  BY <1>2, UnchangedIsHarmless DEF Restart
<1>3. CASE \E names \in SUBSET Names : ListDelete(names)
  BY <1>3, DeleteIsHarmless
<1>4. CASE Next /\ ~Restart /\ ~\E names \in SUBSET Names : ListDelete(names)
  BY <1>4, RequestOnOneListIsHarmless DEF Next
<1>5. QED
  BY <1>1, <1>2, <1>3, <1>4 DEF Next

-----------------------------------------------------------------------------
(* The inductive invariant of the lists' content. *)

(* A list well formed and, if it is a sorted one, in order. *)
GoodList(list) == list \in FcList /\ (list.sorted => Ascending(list.items))

GoodLists ==
  /\ lists = [n \in Names |-> lists[n]]
  /\ \A n \in Names : lists[n] = NoList \/ GoodList(lists[n])

(* The answer, and the size it gives. *)
GoodAnswer ==
  /\ rsp.targets \subseteq Names
  /\ rsp.status \in {"None", "Ok", "Fail", "Duplicate", "NotPermitted"}
  /\ rsp.body.kind \in {"Empty", "Size", "Items", "Unfinished"}
  /\ rsp.body.kind = "Size" =>
       \A n \in rsp.targets : Exists(n) /\ Len(lists[n].items) = rsp.body.size

ListInv == GoodLists /\ GoodAnswer /\ up \in BOOLEAN

(* What a name holds when it holds a list. *)
LEMMA ListHeld ==
  ASSUME GoodLists, NEW name \in Names, Exists(name)
  PROVE  /\ lists[name] = [type |-> lists[name].type, sorted |-> lists[name].sorted,
                           items |-> lists[name].items]
         /\ lists[name].type \in Types /\ lists[name].sorted \in BOOLEAN
         /\ lists[name].items \in Seq(Int) /\ Elements(lists[name].items) \subseteq Values
         /\ Len(lists[name].items) \in Nat /\ Len(lists[name].items) <= MaxLen
         /\ lists[name].sorted => Ascending(lists[name].items)
<1> DEFINE list == lists[name]
<1>1. GoodList(list)
  BY DEF GoodLists, Exists
<1> HIDE DEF list
<1>2. /\ list = [type |-> list.type, sorted |-> list.sorted, items |-> list.items]
      /\ list.type \in Types /\ list.sorted \in BOOLEAN
      /\ list.items \in BoundedSeq(Values, MaxLen)
  BY <1>1 DEF GoodList, FcList
<1>3. PICK m \in 0..MaxLen : list.items \in [1..m -> Values]
  BY <1>2 DEF BoundedSeq, SeqOf
<1>4. MaxLen \in Nat /\ Values \in SUBSET Int
  BY ListConstants
<1>5. list.items \in Seq(Values) /\ Len(list.items) = m
  BY <1>3, <1>4, SeqDef
<1>6. list.items \in Seq(Int) /\ Elements(list.items) \subseteq Values /\ Len(list.items) \in Nat
  BY <1>4, <1>5, ElementsOfSeq
<1>7. Len(list.items) <= MaxLen
  BY <1>3, <1>4, <1>5
<1>8. QED
  BY <1>1, <1>2, <1>6, <1>7 DEF GoodList, list

(* The items of a request. *)
LEMMA ItemsGiven ==
  ASSUME NEW items \in ItemSeqs
  PROVE  /\ items \in Seq(Int) /\ Elements(items) \subseteq Values
         /\ Len(items) \in Nat
<1>1. PICK m \in 0..MaxItems : items \in [1..m -> Values]
  BY DEF ItemSeqs, BoundedSeq, SeqOf
<1>2. MaxItems \in Nat /\ Values \in SUBSET Int
  BY ListConstants
<1>3. items \in Seq(Values)
  BY <1>1, <1>2, SeqDef
<1>4. QED
  BY <1>2, <1>3, ElementsOfSeq

(* What an operation must return for the list to stay well formed. *)
LEMMA GoodItems ==
  ASSUME NEW items \in Seq(Int), Elements(items) \subseteq Values, Len(items) <= MaxLen,
         NEW type \in Types, NEW sorted \in BOOLEAN, sorted => Ascending(items)
  PROVE  GoodList([type |-> type, sorted |-> sorted, items |-> items])
<1>1. items \in Seq(Values) /\ Len(items) \in Nat
  BY SeqOfItsElements, LenProperties
<1>2. items \in [1..Len(items) -> Values] /\ Len(items) \in 0..MaxLen
  BY <1>1, ListConstants, LenProperties
<1>3. items \in BoundedSeq(Values, MaxLen)
  BY <1>2 DEF BoundedSeq, SeqOf
<1>4. QED
  BY <1>3 DEF GoodList, FcList

(* A list that an operation leaves some items, or gives some. *)
LEMMA NewItemsOfOneList ==
  ASSUME GoodLists, NEW name \in Names, Exists(name),
         NEW items \in Seq(Int), Elements(items) \subseteq Values, Len(items) <= MaxLen,
         lists[name].sorted => Ascending(items),
         lists' = SetListItems(name, items)
  PROVE  GoodLists' /\ Exists(name)' /\ lists'[name].items = items
<1> DEFINE old == lists[name]
           new == [type |-> old.type, sorted |-> old.sorted, items |-> items]
<1>1. /\ old = [type |-> old.type, sorted |-> old.sorted, items |-> old.items]
      /\ old.type \in Types /\ old.sorted \in BOOLEAN
  BY ListHeld
<1>2. lists' = [n \in Names |-> IF n = name THEN [old EXCEPT !.items = items] ELSE lists[n]]
  BY DEF GoodLists, SetListItems
<1> HIDE DEF old
<1>3. [old EXCEPT !.items = items] = new
  BY <1>1
<1>4. GoodList(new)
  BY <1>1, GoodItems DEF old
<1>5. new.items = items /\ new # NoList
  BY <1>4, ListConstants DEF GoodList
<1> HIDE DEF new
<1>6. lists' = [n \in Names |-> lists'[n]]
  BY <1>2
<1>7. lists'[name] = new /\ \A n \in Names \ {name} : lists'[n] = lists[n]
  BY <1>2, <1>3
<1>8. \A n \in Names : lists'[n] = NoList \/ GoodList(lists'[n])
  BY <1>4, <1>7 DEF GoodLists
<1>9. GoodLists'
  BY <1>6, <1>8 DEF GoodLists, GoodList
<1>10. QED
  BY <1>5, <1>7, <1>9 DEF Exists

(* createList with good items. *)
LEMMA NewList ==
  ASSUME GoodLists, NEW name \in Names, NEW type \in Types, NEW sorted \in BOOLEAN,
         NEW items \in Seq(Int), Elements(items) \subseteq Values, Len(items) <= MaxLen,
         sorted => Ascending(items),
         lists' = CreateList(name, type, sorted, items)
  PROVE  GoodLists'
<1> DEFINE new == [type |-> type, sorted |-> sorted, items |-> items]
<1>1. CASE Exists(name)
  BY <1>1 DEF CreateList, GoodLists, GoodList
<1>2. CASE ~Exists(name)
  <2>1. GoodList(new)
    BY GoodItems
  <2>2. lists' = [n \in Names |-> IF n = name THEN new ELSE lists[n]]
    BY <1>2 DEF CreateList, GoodLists
  <2> HIDE DEF new
  <2>3. lists' = [n \in Names |-> lists'[n]]
    BY <2>2
  <2>4. \A n \in Names : lists'[n] = NoList \/ GoodList(lists'[n])
    BY <2>1, <2>2 DEF GoodLists
  <2>5. QED
    BY <2>3, <2>4 DEF GoodLists, GoodList
<1>3. QED
  BY <1>1, <1>2

(* An answer that gives no size. *)
LEMMA AnswerWithoutSize ==
  ASSUME NEW op, NEW targets, targets \subseteq Names, NEW finished, NEW body,
         Last(finished) \in {"Ok", "Fail", "Duplicate", "NotPermitted"},
         body.kind \in {"Empty", "Items", "Unfinished"},
         RespondWith(op, targets, finished, body)
  PROVE  GoodAnswer'
<1>1. /\ rsp'.targets = targets /\ rsp'.status = Last(finished) /\ rsp'.body = body
  BY DEF RespondWith
<1>2. QED
  BY <1>1 DEF GoodAnswer

(* An answer with the size of its only list. *)
LEMMA AnswerWithSize ==
  ASSUME NEW op, NEW name \in Names, NEW size,
         Exists(name)', Len(lists'[name].items) = size,
         RespondWith(op, {name}, <<"Ok">>, SizeBody(size))
  PROVE  GoodAnswer'
<1>1. rsp'.targets = {name} /\ rsp'.status = "Ok" /\ rsp'.body = SizeBody(size)
  BY LastOfOne DEF RespondWith
<1>2. rsp'.body.kind = "Size" /\ rsp'.body.size = size
  BY <1>1 DEF SizeBody
<1>3. QED
  BY <1>1, <1>2 DEF GoodAnswer, Exists

(* The answer of haveList to a missing list. *)
LEMMA HaveListFails ==
  ASSUME NEW name \in Names, ~Exists(name)
  PROVE  Last(HaveListFinishes(name)) = "Fail"
  BY LastOfOne DEF HaveListFinishes

(* doAddAppend, with a result that holds the items the list held and those given. *)
LEMMA AddIsGood ==
  ASSUME ListInv, NEW op, NEW name \in Names, NEW items \in ItemSeqs, NEW result,
         Exists(name) =>
           /\ result \in Seq(Int)
           /\ Len(result) = Len(lists[name].items) + Len(items)
           /\ Elements(result) \subseteq Elements(lists[name].items) \cup Elements(items)
           /\ lists[name].sorted => Ascending(result),
         AddToMissing(op, name) \/ AddTo(op, name, items, result)
  PROVE  ListInv'
<1>1. CASE AddToMissing(op, name)
  <2>1. GoodLists' /\ up' \in BOOLEAN
    BY <1>1 DEF AddToMissing, ListInv, GoodLists, GoodList
  <2>2. Respond(op, {name}, HaveListFinishes(name)) /\ Last(HaveListFinishes(name)) = "Fail"
    BY <1>1, HaveListFails DEF AddToMissing
  <2>3. GoodAnswer'
    BY <2>2, AnswerWithoutSize DEF Respond, EmptyBody
  <2>4. QED
    BY <2>1, <2>3 DEF ListInv
<1>2. CASE AddTo(op, name, items, result)
  <2>1. /\ Exists(name) /\ lists' = SetListItems(name, result) /\ up' = up
        /\ Len(lists[name].items) + Len(items) <= MaxLen
        /\ RespondWith(op, {name}, <<"Ok">>, SizeBody(Len(result)))
    BY <1>2 DEF AddTo
  <2>2. /\ result \in Seq(Int) /\ Len(result) <= MaxLen
        /\ Elements(result) \subseteq Elements(lists[name].items) \cup Elements(items)
        /\ lists[name].sorted => Ascending(result)
    BY <2>1
  <2>3. Elements(lists[name].items) \subseteq Values /\ Elements(items) \subseteq Values
    BY <2>1, ListHeld, ItemsGiven DEF ListInv
  <2>4. GoodLists' /\ Exists(name)' /\ lists'[name].items = result
    BY <2>1, <2>2, <2>3, NewItemsOfOneList DEF ListInv
  <2>5. GoodAnswer'
    BY <2>1, <2>4, AnswerWithSize
  <2>6. QED
    BY <2>1, <2>4, <2>5 DEF ListInv
<1>3. QED
  BY <1>1, <1>2

(* ListAdd: a sorted list takes the items where they belong, another at the position. *)
LEMMA ListAddIsGood ==
  ASSUME ListInv, NEW name \in Names, NEW items \in ItemSeqs, NEW pos \in Int,
         NEW itemsSorted \in BOOLEAN, itemsSorted => Ascending(items),
         ListAdd(name, items, pos, itemsSorted)
  PROVE  ListInv'
<1> DEFINE held == lists[name].items
           result == IF lists[name].sorted THEN SortedAdd(held, items, itemsSorted)
                     ELSE InsertItems(held, items, pos)
<1>1. ASSUME Exists(name)
      PROVE  /\ result \in Seq(Int) /\ Len(result) = Len(held) + Len(items)
             /\ Elements(result) \subseteq Elements(held) \cup Elements(items)
             /\ lists[name].sorted => Ascending(result)
  <2>1. /\ held \in Seq(Int) /\ lists[name].sorted \in BOOLEAN
        /\ lists[name].sorted => Ascending(held)
    BY <1>1, ListHeld DEF ListInv
  <2>2. items \in Seq(Int)
    BY ItemsGiven
  <2> HIDE DEF held
  <2>3. CASE lists[name].sorted
    <3>1. result = SortedAdd(held, items, itemsSorted)
      BY <2>3
    <3>2. QED
      BY <2>1, <2>2, <2>3, <3>1, SortedAddKeeps
  <2>4. CASE ~lists[name].sorted
    <3>1. result = InsertItems(held, items, pos)
      BY <2>4
    <3>2. QED
      BY <2>1, <2>2, <2>4, <3>1, InsertItemsKeeps
  <2>5. QED
    BY <2>3, <2>4
<1>2. AddToMissing("ListAdd", name) \/ AddTo("ListAdd", name, items, result)
  BY DEF ListAdd
<1> HIDE DEF result
<1>3. QED
  BY <1>1, <1>2, AddIsGood

(* ListAppend: a sorted list is added to, not appended to. *)
LEMMA ListAppendIsGood ==
  ASSUME ListInv, NEW name \in Names, NEW items \in ItemSeqs, ListAppend(name, items)
  PROVE  ListInv'
<1> DEFINE held == lists[name].items
           result == IF lists[name].sorted THEN SortedAdd(held, items, FALSE) ELSE held \o items
<1>1. ASSUME Exists(name)
      PROVE  /\ result \in Seq(Int) /\ Len(result) = Len(held) + Len(items)
             /\ Elements(result) \subseteq Elements(held) \cup Elements(items)
             /\ lists[name].sorted => Ascending(result)
  <2>1. /\ held \in Seq(Int) /\ lists[name].sorted \in BOOLEAN
        /\ lists[name].sorted => Ascending(held)
    BY <1>1, ListHeld DEF ListInv
  <2>2. items \in Seq(Int) /\ FALSE \in BOOLEAN
    BY ItemsGiven
  <2> HIDE DEF held
  <2>3. CASE lists[name].sorted
    <3>1. result = SortedAdd(held, items, FALSE)
      BY <2>3
    <3>2. QED
      BY <2>1, <2>2, <2>3, <3>1, SortedAddKeeps
  <2>4. CASE ~lists[name].sorted
    <3>1. result = held \o items
      BY <2>4
    <3>2. QED
      BY <2>1, <2>2, <2>4, <3>1, ConcatKeeps
  <2>5. QED
    BY <2>3, <2>4
<1>2. AddToMissing("ListAppend", name) \/ AddTo("ListAppend", name, items, result)
  BY DEF ListAppend
<1> HIDE DEF result
<1>3. QED
  BY <1>1, <1>2, AddIsGood

(* ListSet refuses the lists whose order it would break. *)
LEMMA ListSetIsGood ==
  ASSUME ListInv, NEW name \in Names, NEW items \in ItemSeqs, NEW pos \in Int,
         ListSet(name, items, pos)
  PROVE  ListInv'
<1> DEFINE refused == Exists(name) /\ lists[name].sorted
           held == lists[name].items
           result == SetItems(held, items, pos)
           status == IF refused THEN "NotPermitted" ELSE "Ok"
<1>1. GoodLists'
  <2>1. CASE ~Exists(name) \/ refused
    BY <2>1 DEF ListSet, ListInv, GoodLists, GoodList
  <2>2. CASE Exists(name) /\ ~refused
    <3>1. lists' = SetListItems(name, result)
      BY <2>2 DEF ListSet
    <3>2. /\ held \in Seq(Int) /\ Elements(held) \subseteq Values /\ Len(held) <= MaxLen
          /\ items \in Seq(Int) /\ Elements(items) \subseteq Values
      BY <2>2, ListHeld, ItemsGiven DEF ListInv
    <3> HIDE DEF held
    <3>3. /\ result \in Seq(Int) /\ Len(result) = Len(held)
          /\ Elements(result) \subseteq Elements(held) \cup Elements(items)
      BY <3>2, SetItemsKeeps
    <3> HIDE DEF result
    <3>4. QED
      BY <2>2, <3>1, <3>2, <3>3, NewItemsOfOneList DEF ListInv
  <2>3. QED
    BY <2>1, <2>2
<1>2. GoodAnswer'
  <2>1. RespondWith("ListSet", {name}, HaveListFinishes(name) \o <<status>>, EmptyBody)
    BY DEF ListSet, Respond
  <2>2. Last(HaveListFinishes(name) \o <<status>>) = status /\ status \in {"NotPermitted", "Ok"}
    BY LastAfterHaveList
  <2> HIDE DEF status
  <2>3. QED
    BY <2>1, <2>2, AnswerWithoutSize DEF EmptyBody
<1>3. QED
  BY <1>1, <1>2 DEF ListSet, ListInv

LEMMA ListCreateIsGood ==
  ASSUME ListInv, NEW name \in Names, NEW type \in Types, NEW sorted \in BOOLEAN,
         ListCreate(name, type, sorted)
  PROVE  ListInv'
<1> DEFINE status == IF Exists(name) THEN "Duplicate" ELSE "Ok"
<1>1. GoodLists'
  <2>1. <<>> \in Seq(Int) /\ Elements(<<>>) \subseteq Values /\ Len(<<>>) <= MaxLen
    BY ListConstants, EmptySeq DEF Elements
  <2>2. Ascending(<<>>)
    BY DEF Ascending
  <2>3. lists' = CreateList(name, type, sorted, <<>>)
    BY DEF ListCreate
  <2>4. QED
    BY <2>1, <2>2, <2>3, NewList DEF ListInv
<1>2. GoodAnswer'
  <2>1. RespondWith("ListCreate", {name}, <<status>>, EmptyBody)
    BY DEF ListCreate, Respond
  <2>2. Last(<<status>>) = status /\ status \in {"Duplicate", "Ok"}
    BY LastOfOne
  <2> HIDE DEF status
  <2>3. QED
    BY <2>1, <2>2, AnswerWithoutSize DEF EmptyBody
<1>3. QED
  BY <1>1, <1>2 DEF ListCreate, ListInv

LEMMA ListDeleteIsGood ==
  ASSUME ListInv, NEW names \in SUBSET Names, ListDelete(names)
  PROVE  ListInv'
<1> DEFINE doomed == IF names = {} THEN Names ELSE names
<1>1. lists' = [n \in Names |-> IF n \in doomed THEN NoList ELSE lists[n]] /\ doomed \subseteq Names
  BY DEF ListDelete
<1>2. RespondWith("ListDelete", names, <<"Ok">>, EmptyBody)
  BY DEF ListDelete, Respond
<1> HIDE DEF doomed
<1>3. \A n \in Names : lists'[n] = NoList \/ GoodList(lists'[n])
  BY <1>1 DEF ListInv, GoodLists
<1>4. lists' = [n \in Names |-> lists'[n]]
  BY <1>1
<1>5. GoodAnswer'
  BY <1>1, <1>2, LastOfOne, AnswerWithoutSize DEF EmptyBody
<1>6. QED
  BY <1>3, <1>4, <1>5 DEF ListDelete, ListInv, GoodLists, GoodList

(* ListRemove where the erase is defined, and where it is not. *)
LEMMA ListRemoveIsGood ==
  ASSUME ListInv, NEW name \in Names, NEW range \in [start : Int, stop : Int, hasStop : BOOLEAN],
         ListRemove(name, range)
  PROVE  ListInv'
<1> DEFINE held == lists[name].items
           left == RemoveRange(held, range)
<1>1. GoodLists'
  <2>1. CASE ~Exists(name)
    BY <2>1 DEF ListRemove, ListInv, GoodLists, GoodList
  <2>2. CASE Exists(name)
    <3>1. lists' = SetListItems(name, left) /\ RemoveIsDefined(held, range)
      BY <2>2 DEF ListRemove
    <3>2. /\ held \in Seq(Int) /\ Elements(held) \subseteq Values /\ Len(held) <= MaxLen
          /\ Len(held) \in Nat /\ (lists[name].sorted => Ascending(held))
      BY <2>2, ListHeld DEF ListInv
    <3> HIDE DEF held
    <3>3. /\ left \in Seq(Int) /\ Len(left) <= Len(held) /\ Elements(left) \subseteq Elements(held)
          /\ Ascending(held) => Ascending(left)
      BY <3>1, <3>2, RemoveRangeKeeps
    <3> HIDE DEF left
    <3>4. Len(left) <= MaxLen
      BY <3>2, <3>3, ListConstants, LenProperties
    <3>5. QED
      BY <2>2, <3>1, <3>2, <3>3, <3>4, NewItemsOfOneList DEF ListInv
  <2>3. QED
    BY <2>1, <2>2
<1>2. GoodAnswer'
  <2>1. RespondWith("ListRemove", {name}, HaveListFinishes(name) \o <<"Ok">>, EmptyBody)
    BY DEF ListRemove, Respond
  <2>2. Last(HaveListFinishes(name) \o <<"Ok">>) = "Ok"
    BY LastAfterHaveList
  <2>3. QED
    BY <2>1, <2>2, AnswerWithoutSize DEF EmptyBody
<1>3. QED
  BY <1>1, <1>2 DEF ListRemove, ListInv

LEMMA ListRemoveReversedIsGood ==
  ASSUME ListInv, NEW name \in Names, NEW range, ListRemoveReversed(name, range)
  PROVE  ListInv'
<1>1. lists' = [n \in Names |-> NoList] /\ up' = FALSE /\ rsp' = NoAnswer
  BY DEF ListRemoveReversed
<1>2. GoodAnswer'
  BY <1>1 DEF GoodAnswer, NoAnswer, EmptyBody
<1>3. QED
  BY <1>1, <1>2 DEF ListInv, GoodLists

(* ListRemoveIf answers how many items it leaves. *)
LEMMA ListRemoveIfIsGood ==
  ASSUME ListInv, NEW name \in Names, NEW range \in [start : Int, stop : Int, hasStop : BOOLEAN],
         NEW type, NEW val \in Int, ListRemoveIf(name, range, type, val)
  PROVE  ListInv'
<1> DEFINE list == lists[name]
           held == list.items
           left == IF type # list.type THEN held
                   ELSE IF list.sorted THEN SortedRemoveIfEquals(held, range, val)
                   ELSE UnsortedRemoveIfEquals(held, range, val)
<1>1. CASE ~Exists(name)
  <2>1. GoodLists' /\ up' \in BOOLEAN
    BY <1>1 DEF ListRemoveIf, ListInv, GoodLists, GoodList
  <2>2. RespondWith("ListRemoveIf", {name}, HaveListFinishes(name), EmptyBody)
    BY <1>1 DEF ListRemoveIf, Respond
  <2>3. GoodAnswer'
    BY <1>1, <2>2, HaveListFails, AnswerWithoutSize DEF EmptyBody
  <2>4. QED
    BY <2>1, <2>3 DEF ListInv
<1>2. CASE Exists(name)
  <2>1. /\ lists' = SetListItems(name, left) /\ up' = up
        /\ RespondWith("ListRemoveIf", {name}, <<"Ok">>, SizeBody(Len(left)))
    BY <1>2 DEF ListRemoveIf
  <2>2. /\ held \in Seq(Int) /\ Elements(held) \subseteq Values /\ Len(held) <= MaxLen
        /\ Len(held) \in Nat /\ (list.sorted => Ascending(held))
    BY <1>2, ListHeld DEF ListInv
  <2> HIDE DEF held
  <2>3. /\ left \in Seq(Int) /\ Len(left) <= Len(held) /\ Elements(left) \subseteq Elements(held)
        /\ Ascending(held) => Ascending(left)
    <3>1. CASE left = held
      BY <2>2, <3>1
    <3>2. CASE left = SortedRemoveIfEquals(held, range, val)
      <4> HIDE DEF left
      <4>1. QED
        BY <2>2, <3>2, SortedRemoveIfKeeps
    <3>3. CASE left = UnsortedRemoveIfEquals(held, range, val)
      <4> HIDE DEF left
      <4>1. QED
        BY <2>2, <3>3, UnsortedRemoveIfKeeps
    <3>4. QED
      BY <3>1, <3>2, <3>3
  <2> HIDE DEF left
  <2>4. Len(left) <= MaxLen
    BY <2>2, <2>3, ListConstants, LenProperties
  <2>5. GoodLists' /\ Exists(name)' /\ lists'[name].items = left
    BY <1>2, <2>1, <2>2, <2>3, <2>4, NewItemsOfOneList DEF ListInv
  <2>6. GoodAnswer'
    BY <2>1, <2>5, AnswerWithSize
  <2>7. QED
    BY <2>1, <2>5, <2>6 DEF ListInv
<1>3. QED
  BY <1>1, <1>2

(* ListIntersect into a new list: the matches are some of the first list's items. *)
LEMMA ListIntersectToNewIsGood ==
  ASSUME ListInv, NEW n1 \in Names, NEW n2 \in Names,
         NEW range1 \in [start : Int, stop : Int, hasStop : BOOLEAN], NEW range2,
         NEW new \in Names, ListIntersectToNew(n1, n2, range1, range2, new)
  PROVE  ListInv'
<1> DEFINE l1 == lists[n1].items
           l2 == lists[n2].items
           found == Intersect(l1, l2, range1, range2)
           type == lists[n1].type
<1>1. /\ Exists(n1) /\ Exists(n2) /\ lists[n1].sorted /\ up' = up
      /\ lists' = CreateList(new, type, TRUE, found)
      /\ RespondWith("ListIntersect", {new}, <<"Ok">>, EmptyBody)
  BY DEF ListIntersectToNew, CanIntersect, Respond
<1>2. /\ l1 \in Seq(Int) /\ Elements(l1) \subseteq Values /\ Len(l1) <= MaxLen
      /\ Len(l1) \in Nat /\ Ascending(l1) /\ l2 \in Seq(Int) /\ type \in Types
  BY <1>1, ListHeld DEF ListInv
<1> HIDE DEF l1, l2, type
<1>3. /\ found \in Seq(Int) /\ Len(found) <= Len(l1) /\ Elements(found) \subseteq Elements(l1)
      /\ Ascending(found)
  BY <1>2, IntersectKeeps
<1> HIDE DEF found
<1>4. Len(found) <= MaxLen
  BY <1>2, <1>3, ListConstants, LenProperties
<1>5. GoodLists'
  BY <1>1, <1>2, <1>3, <1>4, NewList DEF ListInv
<1>6. GoodAnswer'
  BY <1>1, LastOfOne, AnswerWithoutSize DEF EmptyBody
<1>7. QED
  BY <1>1, <1>5, <1>6 DEF ListInv

(* Reads change no list; the size ListInfo answers is the list's. *)
LEMMA ReadIsGood ==
  ASSUME ListInv, NEW name \in Names, NEW other \in Names, NEW range1, NEW range2, NEW base,
         \/ ListInfo(name) \/ ListGetRange(name, range1, base)
         \/ ListIntersectRefused(name, other) \/ ListIntersect(name, other, range1, range2)
  PROVE  ListInv'
<1>1. lists' = lists /\ up' = up
  BY DEF ListInfo, ListGetRange, ListIntersectRefused, ListIntersect
<1>2. GoodLists'
  BY <1>1 DEF ListInv, GoodLists, GoodList
<1>3. CASE ListInfo(name)
  <2>1. CASE Exists(name)
    <3>1. /\ Exists(name)'
          /\ RespondWith("ListInfo", {name}, <<"Ok">>, SizeBody(Len(lists'[name].items)))
      BY <1>1, <1>3, <2>1 DEF ListInfo, Exists
    <3>2. QED
      BY <1>1, <1>2, <3>1, AnswerWithSize DEF ListInv
  <2>2. CASE ~Exists(name)
    <3>1. RespondWith("ListInfo", {name}, <<"Fail">>, EmptyBody) /\ Last(<<"Fail">>) = "Fail"
      BY <1>3, <2>2, LastOfOne DEF ListInfo, Respond
    <3>2. GoodAnswer'
      BY <3>1, AnswerWithoutSize DEF EmptyBody
    <3>3. QED
      BY <1>1, <1>2, <3>2 DEF ListInv
  <2>3. QED
    BY <2>1, <2>2
<1>4. CASE ListGetRange(name, range1, base)
  <2>1. CASE Exists(name)
    <3> DEFINE found == GetByRange(lists[name].items, range1, base)
    <3>1. RespondWith("ListGetRange", {name}, <<"Ok">>, ItemsBody(found)) /\ Last(<<"Ok">>) = "Ok"
      BY <1>4, <2>1, LastOfOne DEF ListGetRange
    <3> HIDE DEF found
    <3>2. GoodAnswer'
      BY <3>1, AnswerWithoutSize DEF ItemsBody
    <3>3. QED
      BY <1>1, <1>2, <3>2 DEF ListInv
  <2>2. CASE ~Exists(name)
    <3>1. RespondWith("ListGetRange", {name}, HaveListFinishes(name), EmptyBody)
      BY <1>4, <2>2 DEF ListGetRange, Respond
    <3>2. GoodAnswer'
      BY <2>2, <3>1, HaveListFails, AnswerWithoutSize DEF EmptyBody
    <3>3. QED
      BY <1>1, <1>2, <3>2 DEF ListInv
  <2>3. QED
    BY <2>1, <2>2
<1>5. CASE ListIntersectRefused(name, other)
  <2> DEFINE finished == IF Exists(name) /\ Exists(other) THEN <<"Fail">>
                         ELSE HaveListFinishes(name) \o HaveListFinishes(other)
  <2>1. RespondWith("ListIntersect", {}, finished, EmptyBody)
    BY <1>5 DEF ListIntersectRefused, Respond
  <2>2. Last(finished) = "Fail"
    <3>1. Last(HaveListFinishes(name) \o <<"Fail">>) = "Fail"
      BY LastAfterHaveList
    <3>2. Last(<<"Fail">> \o <<>>) = "Fail"
      BY DEF Last
    <3>3. Last(<<"Fail">>) = "Fail"
      BY LastOfOne
    <3>4. QED
      BY <3>1, <3>2, <3>3 DEF HaveListFinishes
  <2> HIDE DEF finished
  <2>3. GoodAnswer'
    BY <2>1, <2>2, AnswerWithoutSize DEF EmptyBody
  <2>4. QED
    BY <1>1, <1>2, <2>3 DEF ListInv
<1>6. CASE ListIntersect(name, other, range1, range2)
  <2> DEFINE l1 == lists[name].items
             l2 == lists[other].items
             body == IF IntersectIsValid(l1, l2, range1, range2)
                       THEN ItemsBody(Intersect(l1, l2, range1, range2))
                       ELSE UnfinishedBody
  <2>1. RespondWith("ListIntersect", {}, <<"Ok">>, body) /\ Last(<<"Ok">>) = "Ok"
    BY <1>6, LastOfOne DEF ListIntersect
  <2>2. body.kind \in {"Items", "Unfinished"}
    BY DEF ItemsBody, UnfinishedBody
  <2> HIDE DEF body
  <2>3. GoodAnswer'
    BY <2>1, <2>2, AnswerWithoutSize
  <2>4. QED
    BY <1>1, <1>2, <2>3 DEF ListInv
<1>7. QED
  BY <1>3, <1>4, <1>5, <1>6

(* Every request that names one list. *)
LEMMA RequestOnOneListIsGood ==
  ASSUME ListInv, NEW name \in Names,
         \/ ListInfo(name)
         \/ \E type \in Types, sorted \in BOOLEAN : ListCreate(name, type, sorted)
         \/ \E items \in ItemSeqs :
              \/ ListAppend(name, items)
              \/ Ascending(items) /\ ListAdd(name, items, 0, TRUE)
              \/ \E pos \in Positions : ListAdd(name, items, pos, FALSE) \/ ListSet(name, items, pos)
         \/ \E range \in Ranges :
              \/ \E base \in Bases : ListGetRange(name, range, base)
              \/ ListRemove(name, range)
              \/ ListRemoveReversed(name, range)
              \/ \E type \in Types, val \in Values : ListRemoveIf(name, range, type, val)
         \/ \E other \in Names :
              \/ ListIntersectRefused(name, other)
              \/ \E range1, range2 \in IntersectRanges :
                   \/ ListIntersect(name, other, range1, range2)
                   \/ \E new \in Names : ListIntersectToNew(name, other, range1, range2, new)
  PROVE  ListInv'
<1> DEFINE AnyRange == [start : Int, stop : Int, hasStop : BOOLEAN]
<1>0. Positions \subseteq Int /\ Values \subseteq Int /\ Ranges \subseteq AnyRange
      /\ IntersectRanges \subseteq AnyRange
  BY ListConstants
<1>1. CASE ListInfo(name)
  BY <1>1, ReadIsGood
<1>2. CASE \E type \in Types, sorted \in BOOLEAN : ListCreate(name, type, sorted)
  BY <1>2, ListCreateIsGood
<1>3. ASSUME NEW items \in ItemSeqs, ListAppend(name, items)
      PROVE  ListInv'
  BY <1>3, ListAppendIsGood
<1>4. ASSUME NEW items \in ItemSeqs, Ascending(items), ListAdd(name, items, 0, TRUE)
      PROVE  ListInv'
  <2>1. 0 \in Int /\ TRUE \in BOOLEAN
    OBVIOUS
  <2>2. QED
    BY <1>4, <2>1, ListAddIsGood, Zenon
<1>5. ASSUME NEW items \in ItemSeqs, NEW pos \in Positions,
             ListAdd(name, items, pos, FALSE) \/ ListSet(name, items, pos)
      PROVE  ListInv'
  <2>1. pos \in Int
    BY <1>0
  <2>2. QED
    BY <1>5, <2>1, ListAddIsGood, ListSetIsGood
<1>6. ASSUME NEW range \in Ranges, NEW base \in Bases, ListGetRange(name, range, base)
      PROVE  ListInv'
  BY <1>6, ReadIsGood
<1>7. ASSUME NEW range \in Ranges, ListRemove(name, range) \/ ListRemoveReversed(name, range)
      PROVE  ListInv'
  <2>1. range \in AnyRange
    BY <1>0
  <2>2. QED
    BY <1>7, <2>1, ListRemoveIsGood, ListRemoveReversedIsGood
<1>8. ASSUME NEW range \in Ranges, NEW type \in Types, NEW val \in Values,
             ListRemoveIf(name, range, type, val)
      PROVE  ListInv'
  <2>1. range \in AnyRange /\ val \in Int
    BY <1>0
  <2>2. QED
    BY <1>8, <2>1, ListRemoveIfIsGood
<1>9. ASSUME NEW other \in Names, ListIntersectRefused(name, other)
      PROVE  ListInv'
  BY <1>9, ReadIsGood
<1>10. ASSUME NEW other \in Names, NEW range1 \in IntersectRanges, NEW range2 \in IntersectRanges,
              ListIntersect(name, other, range1, range2)
       PROVE  ListInv'
  BY <1>10, ReadIsGood
<1>11. ASSUME NEW other \in Names, NEW range1 \in IntersectRanges, NEW range2 \in IntersectRanges,
              NEW new \in Names, ListIntersectToNew(name, other, range1, range2, new)
       PROVE  ListInv'
  <2>1. range1 \in AnyRange
    BY <1>0
  <2>2. QED
    BY <1>11, <2>1, ListIntersectToNewIsGood
<1>12. QED
  BY <1>1, <1>2, <1>3, <1>4, <1>5, <1>6, <1>7, <1>8, <1>9, <1>10, <1>11

(* The invariant is inductive. *)
LEMMA ListInvIsInductive == (Init => ListInv) /\ (ListInv /\ [Next]_vars => ListInv')
<1>1. Init => ListInv
  BY DEF Init, ListInv, GoodLists, GoodAnswer, NoAnswer, EmptyBody
<1>2. ASSUME ListInv, [Next]_vars PROVE ListInv'
  <2>1. CASE UNCHANGED vars
    BY <1>2, <2>1 DEF vars, ListInv, GoodLists, GoodList, GoodAnswer, Exists
  <2>2. CASE Restart
    BY <1>2, <2>2 DEF Restart, ListInv, GoodLists, GoodList, GoodAnswer, Exists
  <2>3. CASE \E names \in SUBSET Names : ListDelete(names)
    BY <1>2, <2>3, ListDeleteIsGood
  <2>4. CASE Next /\ ~Restart /\ ~\E names \in SUBSET Names : ListDelete(names)
    BY <1>2, <2>4, RequestOnOneListIsGood DEF Next
  <2>5. QED
    BY <1>2, <2>1, <2>2, <2>3, <2>4 DEF Next
<1>3. QED
  BY <1>1, <1>2

LEMMA AlwaysListInv == Spec => []ListInv
<1>1. QED
  BY ListInvIsInductive, PTL DEF Spec

(* The ranges the API lets through with both ends of one sign are not reversed by the
   server's arithmetic, whatever the length of the list. *)
LEMMA SameSignIsDefined ==
  ASSUME NEW list, Len(list) \in Nat, NEW range \in [start : Int, stop : Int, hasStop : BOOLEAN],
         IsRangeValid(range), range.hasStop, range.start * range.stop > 0
  PROVE  RemoveIsDefined(list, range)
<1> DEFINE size == Len(list)
           a == range.start
           b == range.stop
           begin == IF a < 0 THEN size + a ELSE a
           last == LesserOf(size, IF b < 0 THEN AbsOf(size + b) ELSE b)
<1>1. a \in Int /\ b \in Int /\ size \in Nat
  OBVIOUS
<1>2. PositionsToIndices(range, list) =
        IF a >= size \/ AbsOf(a) > size THEN [valid |-> FALSE, begin |-> 0, last |-> 0]
        ELSE [valid |-> TRUE, begin |-> begin, last |-> last]
  BY DEF PositionsToIndices
<1>3. a # b /\ ~(a < 0 /\ b < 0 /\ a > b) /\ ~(a > 0 /\ b > 0 /\ a > b)
  BY DEF IsRangeValid
<1>4. (a > 0 /\ b > 0) \/ (a < 0 /\ b < 0)
  <2>1. a * b > 0
    OBVIOUS
  <2> HIDE DEF a, b
  <2>2. QED
    BY <1>1, <2>1
<1>5. ~(a >= size \/ AbsOf(a) > size) => begin <= last
  <2> HIDE DEF a, b, size
  <2>1. QED
    BY <1>1, <1>3, <1>4 DEF LesserOf, AbsOf
<1> HIDE DEF begin, last, a, b, size
<1>6. QED
  BY <1>2, <1>5 DEF RemoveIsDefined

-----------------------------------------------------------------------------
(* The theorems. *)

(* Every name always holds no list, or a list of one of the types. *)
THEOREM AlwaysShaped == Spec => []Shaped
<1>1. Init => Shaped
  BY DEF Init, Shaped
<1>2. Shaped /\ [Next]_vars => Shaped'
  BY StepIsHarmless
<1>3. QED
  BY <1>1, <1>2, PTL DEF Spec

(* A request that answers anything but Ok has left every list as it was. *)
THEOREM RefusedRequestsChangeNothing == Spec => RefusalChangesNothing
<1>1. Shaped /\ [Next]_vars =>
        [rsp'.status \in {"Fail", "Duplicate", "NotPermitted"} => lists' = lists]_vars
  BY StepIsHarmless DEF Harmless, Refusals
<1>2. QED
  BY <1>1, AlwaysShaped, PTL DEF Spec, RefusalChangesNothing

(* A handler touches only the lists its request names, unless it is a delete that names
   none, and an intersection changes no list that is there, whatever name it gives. *)
THEOREM RequestsKeepToTheirLists == Spec => OnlyTargetsChange
<1>1. Shaped /\ [Next]_vars =>
        [up /\ up' =>
           /\ \A n \in Names \ rsp'.targets :
                lists'[n] = lists[n] \/ (rsp'.op = "ListDelete" /\ rsp'.targets = {})
           /\ rsp'.op = "ListIntersect" => \A n \in Names : Exists(n) => lists'[n] = lists[n]]_vars
  BY StepIsHarmless DEF Harmless, OthersKept
<1>2. QED
  BY <1>1, AlwaysShaped, PTL DEF Spec, OnlyTargetsChange

(* A list's type and sortedness never change while it exists. *)
THEOREM ListsKeepTheirKind == Spec => KindIsFixed
<1>1. Shaped /\ [Next]_vars =>
        [\A n \in Names : Exists(n) /\ Exists(n)' =>
           lists'[n].type = lists[n].type /\ lists'[n].sorted = lists[n].sorted]_vars
  BY StepIsHarmless DEF Harmless, KindKept
<1>2. QED
  BY <1>1, AlwaysShaped, PTL DEF Spec, KindIsFixed

(* What a name holds is a list of its type within the bounds, and what is answered is an
   answer. *)
THEOREM ListTypesAreKept == Spec => []TypeOK
<1>1. ASSUME ListInv PROVE TypeOK
  <2>1. \A n \in Names : lists[n] \in FcList \cup {NoList}
    BY <1>1 DEF ListInv, GoodLists, GoodList
  <2>2. lists \in [Names -> FcList \cup {NoList}]
    BY <1>1, <2>1 DEF ListInv, GoodLists
  <2>3. QED
    BY <1>1, <2>2 DEF TypeOK, ListInv, GoodAnswer
<1>2. QED
  BY <1>1, AlwaysListInv, PTL

(* A sorted list ascends after every sequence of requests: every branch of the sorted
   add, every removal and every intersection keeps what the searches rely on. *)
THEOREM SortedListsStaySorted == Spec => []SortedListsAscend
<1>1. ListInv => SortedListsAscend
  BY ListHeld DEF ListInv, SortedListsAscend
<1>2. QED
  BY <1>1, AlwaysListInv, PTL

(* The size answered is the size of the list. *)
THEOREM AnsweredSizesAreRight == Spec => []AnsweredSizeIsListSize
<1>1. ListInv => AnsweredSizeIsListSize
  BY DEF ListInv, GoodAnswer, AnsweredSizeIsListSize
<1>2. QED
  BY <1>1, AlwaysListInv, PTL

(* No remove the API sends with both ends of one sign is undefined. *)
THEOREM RemovesOfOneSignAreDefined == Spec => []SameSignRemovesAreDefined
<1>1. ASSUME ListInv PROVE SameSignRemovesAreDefined
  <2>1. SUFFICES ASSUME NEW n \in Names, NEW range \in Ranges, Exists(n), IsRangeValid(range),
                        range.hasStop, range.start * range.stop > 0
                 PROVE  RemoveIsDefined(lists[n].items, range)
    BY DEF SameSignRemovesAreDefined
  <2>2. Len(lists[n].items) \in Nat
    BY <1>1, <2>1, ListHeld DEF ListInv
  <2>3. range \in [start : Int, stop : Int, hasStop : BOOLEAN]
    BY ListConstants
  <2>4. QED
    BY <2>1, <2>2, <2>3, SameSignIsDefined
<1>2. QED
  BY <1>1, AlwaysListInv, PTL
=============================================================================
