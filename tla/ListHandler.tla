---------------------------- MODULE ListHandler ----------------------------
(***************************************************************************)
(* The list half of the server (ListHandler.cpp): the named lists and one  *)
(* action per request.  The server's only worker thread handles a request  *)
(* to completion before it takes the next, so a handler is one step.       *)
(*                                                                         *)
(* A handler answers by finishing the response builder, in places more     *)
(* than once; the response sent is the one finished last.  "finished" in   *)
(* Respond is the sequence of statuses a handler finishes.                 *)
(*                                                                         *)
(* Requests are those the Python API can build: items are never empty and  *)
(* have the list's type, and items flagged as sorted are.                  *)
(***************************************************************************)
EXTENDS ListApi, FiniteSets

CONSTANTS
  Names,      \* list names
  Types,      \* list types: Int, Float, String (a subset of them)
  Values,     \* item values, ordered as integers
  Positions,  \* pos arguments of requests
  Ranges,     \* [start, stop, hasStop] arguments of requests
  IntersectRanges, \* the same, for the two ranges of an intersection
  MaxItems,   \* bound: items in one request
  MaxLen,     \* bound: nodes in one list
  NoList      \* no list of this name

FcList == [type : Types, sorted : BOOLEAN, items : BoundedSeq(Values, MaxLen)]

ASSUME ListConstants ==
  /\ Values \subseteq Int /\ Positions \subseteq Int
  /\ Ranges \cup IntersectRanges \subseteq [start : Int, stop : Int, hasStop : BOOLEAN]
  /\ NoList \notin FcList
  /\ MaxItems \in Nat \ {0} /\ MaxLen \in Nat

VARIABLES
  lists,  \* m_lists: name -> FcList
  up,     \* the process is alive
  rsp     \* the response to the last request

vars == <<lists, up, rsp>>

Bases == {"Head", "Tail"}
ItemSeqs == BoundedSeq(Values, MaxItems) \ {<<>>}

(* The body of a response: none, a size, items, or a flexbuffer that no code
   finished, which the client cannot read. *)
EmptyBody       == [kind |-> "Empty", size |-> 0, items |-> <<>>]
SizeBody(size)  == [kind |-> "Size", size |-> size, items |-> <<>>]
ItemsBody(items) == [kind |-> "Items", size |-> 0, items |-> items]
UnfinishedBody  == [kind |-> "Unfinished", size |-> 0, items |-> <<>>]

NoAnswer == [op |-> "None", targets |-> {}, status |-> "None", body |-> EmptyBody]

Init == lists = [n \in Names |-> NoList] /\ up = TRUE /\ rsp = NoAnswer

Exists(name) == lists[name] # NoList

(* haveList finishes a Fail response when there is no such list. *)
HaveListFinishes(name) == IF Exists(name) THEN <<>> ELSE <<"Fail">>

RespondWith(op, targets, finished, body) ==
  rsp' = [op |-> op, targets |-> targets, status |-> Last(finished), body |-> body]
Respond(op, targets, finished) == RespondWith(op, targets, finished, EmptyBody)

SetListItems(name, items) == [lists EXCEPT ![name].items = items]

(* Slip: insert_or_assign for try_emplace. *)
CreateList_Overwrites(name, type, sorted, items) ==
  [lists EXCEPT ![name] = [type |-> type, sorted |-> sorted, items |-> items]]

(* createList: try_emplace leaves an existing list alone. *)
CreateList(name, type, sorted, items) ==
  IF Exists(name) THEN lists
  ELSE [lists EXCEPT ![name] = [type |-> type, sorted |-> sorted, items |-> items]]

ListCreate(name, type, sorted) ==
  /\ up
  /\ lists' = CreateList(name, type, sorted, <<>>)
  /\ Respond("ListCreate", {name}, <<IF Exists(name) THEN "Duplicate" ELSE "Ok">>)
  /\ UNCHANGED up

(* doAddAppend for a missing list: haveList's answer stands. *)
AddToMissing(op, name) ==
  /\ ~Exists(name)
  /\ Respond(op, {name}, HaveListFinishes(name))
  /\ UNCHANGED <<lists, up>>

(* Slip: the size is read before the items go in. *)
AddTo_OldSize(op, name, items, result) ==
  /\ Exists(name)
  /\ Len(lists[name].items) + Len(items) <= MaxLen
  /\ lists' = SetListItems(name, result)
  /\ RespondWith(op, {name}, <<"Ok">>, SizeBody(Len(lists[name].items)))
  /\ UNCHANGED up

(* doAddAppend for an existing list, "result" being what the visitor leaves. *)
AddTo(op, name, items, result) ==
  /\ Exists(name)
  /\ Len(lists[name].items) + Len(items) <= MaxLen
  /\ lists' = SetListItems(name, result)
  /\ RespondWith(op, {name}, <<"Ok">>, SizeBody(Len(result)))
  /\ UNCHANGED up

ListAdd(name, items, pos, itemsSorted) ==
  /\ up
  /\ \/ AddToMissing("ListAdd", name)
     \/ AddTo("ListAdd", name, items,
              IF lists[name].sorted THEN SortedAdd(lists[name].items, items, itemsSorted)
              ELSE InsertItems(lists[name].items, items, pos))

(* Slip: a sorted list is appended to as well. *)
ListAppend_Plain(name, items) ==
  /\ up
  /\ \/ AddToMissing("ListAppend", name)
     \/ AddTo("ListAppend", name, items, lists[name].items \o items)

(* add_tail: on a sorted list an append is a sorted add. *)
ListAppend(name, items) ==
  /\ up
  /\ \/ AddToMissing("ListAppend", name)
     \/ AddTo("ListAppend", name, items,
              IF lists[name].sorted THEN SortedAdd(lists[name].items, items, FALSE)
              ELSE lists[name].items \o items)

(* Slip: sorted lists are not refused. *)
ListSet_Sorted(name, items, pos) ==
  /\ up
  /\ lists' = IF ~Exists(name) THEN lists
              ELSE SetListItems(name, SetItems(lists[name].items, items, pos))
  /\ Respond("ListSet", {name}, HaveListFinishes(name) \o <<"Ok">>)
  /\ UNCHANGED up

(* The final createEmptyBodyResponse is reached on every path. *)
ListSet(name, items, pos) ==
  LET refused == Exists(name) /\ lists[name].sorted
  IN  /\ up
      /\ lists' = IF ~Exists(name) \/ refused THEN lists
                  ELSE SetListItems(name, SetItems(lists[name].items, items, pos))
      /\ Respond("ListSet", {name},
                 HaveListFinishes(name) \o <<IF refused THEN "NotPermitted" ELSE "Ok">>)
      /\ UNCHANGED up

(* Slip: the names are not looked at. *)
ListDelete_All(names) ==
  /\ up
  /\ lists' = [n \in Names |-> NoList]
  /\ Respond("ListDelete", names, <<"Ok">>)
  /\ UNCHANGED up

(* An empty vector of names clears every list. *)
ListDelete(names) ==
  LET doomed == IF names = {} THEN Names ELSE names
  IN  /\ up
      /\ lists' = [n \in Names |-> IF n \in doomed THEN NoList ELSE lists[n]]
      /\ Respond("ListDelete", names, <<"Ok">>)
      /\ UNCHANGED up

ListGetRange(name, range, base) ==
  /\ up
  /\ IF Exists(name)
       THEN RespondWith("ListGetRange", {name}, <<"Ok">>,
                        ItemsBody(GetByRange(lists[name].items, range, base)))
       ELSE Respond("ListGetRange", {name}, HaveListFinishes(name))
  /\ UNCHANGED <<lists, up>>

(* As in ListSet, the last answer is Ok even when haveList finished a Fail. *)
ListRemove(name, range) ==
  /\ up
  /\ IsRangeValid(range)
  /\ Exists(name) => RemoveIsDefined(lists[name].items, range)
  /\ lists' = IF Exists(name) THEN SetListItems(name, RemoveRange(lists[name].items, range))
              ELSE lists
  /\ Respond("ListRemove", {name}, HaveListFinishes(name) \o <<"Ok">>)
  /\ UNCHANGED up

(* Erasing a reversed range walks off the list's end node and releases it: the
   process dies, with everything it holds. *)
ListRemoveReversed(name, range) ==
  /\ up
  /\ IsRangeValid(range)
  /\ Exists(name)
  /\ ~RemoveIsDefined(lists[name].items, range)
  /\ up' = FALSE
  /\ lists' = [n \in Names |-> NoList]
  /\ rsp' = NoAnswer

(* A value of another type than the list's matches nothing. *)
ListRemoveIf(name, range, type, val) ==
  LET list == lists[name]
      left == IF type # list.type THEN list.items
              ELSE IF list.sorted THEN SortedRemoveIfEquals(list.items, range, val)
              ELSE UnsortedRemoveIfEquals(list.items, range, val)
  IN  /\ up
      /\ IsRangeValid(range)
      /\ \/ /\ ~Exists(name)
            /\ Respond("ListRemoveIf", {name}, HaveListFinishes(name))
            /\ UNCHANGED lists
         \/ /\ Exists(name)
            /\ lists' = SetListItems(name, left)
            /\ RespondWith("ListRemoveIf", {name}, <<"Ok">>, SizeBody(Len(left)))
      /\ UNCHANGED up

CanIntersect(n1, n2) ==
  lists[n1].sorted /\ lists[n2].sorted /\ lists[n1].type = lists[n2].type

(* Refused: a source is missing, not sorted, or of another type. *)
ListIntersectRefused(n1, n2) ==
  /\ up
  /\ (Exists(n1) /\ Exists(n2)) => ~CanIntersect(n1, n2)
  /\ Respond("ListIntersect", {},
             IF Exists(n1) /\ Exists(n2) THEN <<"Fail">>
             ELSE HaveListFinishes(n1) \o HaveListFinishes(n2))
  /\ UNCHANGED <<lists, up>>

(* Without a new list's name the matches are the answer.  When a range is
   invalid, or its list empty, intersect() returns without finishing the body. *)
ListIntersect(n1, n2, range1, range2) ==
  LET l1 == lists[n1].items
      l2 == lists[n2].items
  IN  /\ up
      /\ Exists(n1) /\ Exists(n2) /\ CanIntersect(n1, n2)
      /\ RespondWith("ListIntersect", {}, <<"Ok">>,
                     IF IntersectIsValid(l1, l2, range1, range2)
                       THEN ItemsBody(Intersect(l1, l2, range1, range2))
                       ELSE UnfinishedBody)
      /\ UNCHANGED <<lists, up>>

(* With a new list's name the matches become that list, unless the name is
   taken: createList's Duplicate is dropped and the answer is Ok either way. *)
ListIntersectToNew(n1, n2, range1, range2, new) ==
  LET found == Intersect(lists[n1].items, lists[n2].items, range1, range2)
  IN  /\ up
      /\ Exists(n1) /\ Exists(n2) /\ CanIntersect(n1, n2)
      /\ lists' = CreateList(new, lists[n1].type, TRUE, found)
      /\ Respond("ListIntersect", {new}, <<"Ok">>)
      /\ UNCHANGED up

ListInfo(name) ==
  /\ up
  /\ IF Exists(name)
       THEN RespondWith("ListInfo", {name}, <<"Ok">>, SizeBody(Len(lists[name].items)))
       ELSE Respond("ListInfo", {name}, <<"Fail">>)
  /\ UNCHANGED <<lists, up>>

(* The cache is held in memory only: a new process starts empty. *)
Restart ==
  /\ ~up
  /\ up' = TRUE
  /\ UNCHANGED <<lists, rsp>>

Next ==
  \/ Restart
  \/ \E names \in SUBSET Names : ListDelete(names)
  \/ \E name \in Names :
       \/ ListInfo(name)
       \/ \E type \in Types, sorted \in BOOLEAN : ListCreate(name, type, sorted)
       \/ \E items \in ItemSeqs :
            \/ ListAppend(name, items)
            \/ Ascending(items) /\ ListAdd(name, items, 0, TRUE)
            \/ \E pos \in Positions : ListAdd(name, items, pos, FALSE) \/ ListSet(name, items, pos)
       \/ \E range \in Ranges :
            \/ \E base \in Bases : ListGetRange(name, range, base)
            \/ ListRemove(name, range)
            \/ ListRemoveReversed(name, range)
            \/ \E type \in Types, val \in Values : ListRemoveIf(name, range, type, val)
       \/ \E other \in Names :
            \/ ListIntersectRefused(name, other)
            \/ \E range1, range2 \in IntersectRanges :
                 \/ ListIntersect(name, other, range1, range2)
                 \/ \E new \in Names : ListIntersectToNew(name, other, range1, range2, new)

Spec == Init /\ [][Next]_vars

-----------------------------------------------------------------------------
(* Properties *)

(* Every name holds no list or a well-formed FcList (ListHandler.hpp m_lists). *)
TypeOK ==
  /\ lists \in [Names -> FcList \cup {NoList}]
  /\ up \in BOOLEAN
  /\ rsp.targets \subseteq Names
  /\ rsp.status \in {"None", "Ok", "Fail", "Duplicate", "NotPermitted"}
  /\ rsp.body.kind \in {"Empty", "Size", "Items", "Unfinished"}

(* Whatever requests arrive in whatever order, a list created as sorted holds its
   items in ascending order: lower_bound, equal_range and set_intersection all
   rely on it. *)
SortedListsAscend ==
  \A n \in Names : Exists(n) /\ lists[n].sorted => Ascending(lists[n].items)

(* The size an add, append, remove_if or info answers is the size of that list
   once the request is done. *)
AnsweredSizeIsListSize ==
  rsp.body.kind = "Size" =>
    \A n \in rsp.targets : Exists(n) /\ Len(lists[n].items) = rsp.body.size

(* The check of the API and the arithmetic of the server fit together where the API can
   compare: of the ranges it lets through, those whose ends have the same sign never
   make a remove undefined, however long the list is when the request arrives.  Those
   with a stop at 0 or of the other sign can (ListRemoveReversed). *)
SameSignRemovesAreDefined ==
  \A n \in Names, range \in Ranges :
    Exists(n) /\ IsRangeValid(range) /\ range.hasStop /\ range.start * range.stop > 0
      => RemoveIsDefined(lists[n].items, range)

(* A request that answers anything but Ok has left every list as it was. *)
RefusalChangesNothing ==
  [][rsp'.status \in {"Fail", "Duplicate", "NotPermitted"} => lists' = lists]_vars

(* A handler touches only the lists its request names, unless it is a delete that
   names none.  An intersection changes no list that is there: neither a source, even
   if its name is asked for the new list, nor another list of that name. *)
OnlyTargetsChange ==
  [][up /\ up' =>
       /\ \A n \in Names \ rsp'.targets :
            lists'[n] = lists[n] \/ (rsp'.op = "ListDelete" /\ rsp'.targets = {})
       /\ rsp'.op = "ListIntersect" => \A n \in Names : Exists(n) => lists'[n] = lists[n]]_vars

(* A list keeps its type and its sortedness until it is deleted, so no request can
   turn a sorted list into one that nobody keeps in order. *)
KindIsFixed ==
  [][\A n \in Names : Exists(n) /\ Exists(n)' =>
       lists'[n].type = lists[n].type /\ lists'[n].sorted = lists[n].sorted]_vars

(* An Ok answer to a request on a list means the list is there: what the API
   documentation says of failed requests (list.py: "If a request fails a
   ResponseError is raised"). *)
OkMeansListExists ==
  rsp.status = "Ok" /\ rsp.op \in {"ListAdd", "ListAppend", "ListSet", "ListGetRange",
                                   "ListRemove", "ListRemoveIf", "ListInfo"}
    => \A n \in rsp.targets : Exists(n)
=============================================================================
