-------------------------- MODULE SortedAddProofs --------------------------
(***************************************************************************)
(* Proofs about the sorted add: the list ascends at every step and a       *)
(* request neither loses nor invents nodes, for every list, every vector   *)
(* of integers and every length.  The lemmas say what one emplace does;    *)
(* the theorems show that IInv of SortedAdd is inductive.  PathInv follows *)
(* the two loops along the recursions of ListOps: after i emplaces list    *)
(* and iterator are what the operator has after i items.                   *)
(***************************************************************************)
EXTENDS SortedAdd, ListOpsProofs

-----------------------------------------------------------------------------
(* The invariant holds at the start and every step keeps it. *)

(* The empty list of a handler that has no request satisfies the invariant. *)
THEOREM InitEstablishesIInv == Init => IInv
<1> SUFFICES ASSUME Init PROVE IInv
  OBVIOUS
<1>1. TypeOK
  <2>1. <<>> \in Seq(Int)
    BY EmptySeq
  <2>2. list \in Seq(Int) /\ base \in Seq(Int) /\ items \in Seq(Int)
    BY <2>1, Zenon DEF Init
  <2>3. itemsSorted \in BOOLEAN /\ pc = "idle"
    BY Zenon DEF Init
  <2>4. i \in Int /\ it \in Nat \ {0}
    BY DEF Init
  <2>5. QED
    BY <2>2, <2>3, <2>4, Zenon DEF TypeOK
<1>2. ListAscends
  BY DEF Init, ListAscends, Ascending
<1>3. LoopInv /\ BranchInv
  BY DEF Init, LoopInv, BranchInv
<1>4. ContentInv
  BY DEF Init, ContentInv, Done, DoneCount, Elements
<1>5. QED
  BY <1>1, <1>2, <1>3, <1>4 DEF IInv

(* A request arrives: nothing is done yet, so nothing is missing either. *)
LEMMA RequestKeepsIInv ==
  ASSUME IInv, NEW vector \in ItemVectors, NEW flag \in BOOLEAN, Request(vector, flag)
  PROVE  IInv'
<1>1. vector \in Seq(Int) /\ vector # <<>>
  BY ItemsAssumption
<1>2. TypeOK'
  BY <1>1 DEF IInv, TypeOK, Request
<1>3. ListAscends' /\ LoopInv' /\ BranchInv'
  BY <1>1 DEF IInv, ListAscends, LoopInv, BranchInv, Request
<1>4. ContentInv'
  <2>1. Len(list) \in Nat
    BY LenProperties DEF IInv, TypeOK
  <2>2. Done' = {} /\ DoneCount' = 0 /\ base' = list /\ list' = list
    BY DEF Request, Done, DoneCount
  <2>3. QED
    BY <2>1, <2>2 DEF ContentInv
<1>5. QED
  BY <1>2, <1>3, <1>4 DEF IInv

(* The first index of the branch taken, with the branch's own fact. *)
LEMMA ChooseKeepsIInv ==
  ASSUME IInv, ChooseEach \/ ChooseFront \/ ChooseBack \/ ChooseCursor
  PROVE  IInv'
<1>1. /\ items # <<>> /\ items \in Seq(Int) /\ Len(items) \in Nat \ {0}
      /\ pc = "choose" /\ UNCHANGED <<list, items, itemsSorted, base>> /\ it' = 1
  BY EmptySeq, LenProperties
  DEF IInv, TypeOK, LoopInv, ChooseEach, ChooseFront, ChooseBack, ChooseCursor, Choose
<1>2. \/ pc' = "each" /\ i' = 1
      \/ pc' = "front" /\ i' = Len(items) /\ itemsSorted /\ FitsInFront
      \/ pc' = "back" /\ i' = 1 /\ itemsSorted /\ FitsBehind
      \/ pc' = "cursor" /\ i' = 1 /\ itemsSorted
  BY DEF ChooseEach, ChooseFront, ChooseBack, ChooseCursor, Choose
<1>3. TypeOK'
  BY <1>1, <1>2 DEF IInv, TypeOK
<1>4. ListAscends'
  BY <1>1 DEF IInv, ListAscends
<1>5. LoopInv'
  BY <1>1, <1>2 DEF IInv, LoopInv
<1>6. BranchInv'
  BY <1>1, <1>2 DEF BranchInv, FitsInFront, FitsBehind
<1>7. ContentInv'
  <2>1. Done = {} /\ DoneCount = 0
    BY <1>1 DEF Done, DoneCount
  <2>2. Done' = {} /\ DoneCount' = 0
    BY <1>1, <1>2 DEF Done, DoneCount
  <2>3. QED
    BY <1>1, <2>1, <2>2 DEF IInv, ContentInv
<1>8. QED
  BY <1>3, <1>4, <1>5, <1>6, <1>7 DEF IInv

(* One more item is in the list: the content half of every emplace step. *)
LEMMA EmplaceKeepsContent ==
  ASSUME IInv, items' = items, base' = base,
         i \in 1..Len(items),
         Done' = Done \cup {i}, DoneCount' = DoneCount + 1, DoneCount \in Int,
         Len(list') = Len(list) + 1,
         Elements(list') = Elements(list) \cup {items[i]}
  PROVE  ContentInv'
<1>1. /\ Elements(list) = Elements(base) \cup {items[k] : k \in Done}
      /\ Len(list) = Len(base) + DoneCount /\ Len(base) \in Nat
  BY LenProperties DEF IInv, ContentInv, TypeOK
<1>2. {items'[k] : k \in Done'} = {items[k] : k \in Done} \cup {items[i]}
  OBVIOUS
<1>3. Elements(base') = Elements(base) /\ Len(base') = Len(base)
  BY DEF Elements
<1>4. Elements(list') = Elements(base') \cup {items'[k] : k \in Done'}
  BY <1>1, <1>2, <1>3
<1>5. Len(list') = Len(base') + DoneCount'
  BY <1>1, <1>3
<1>6. QED
  BY <1>4, <1>5 DEF ContentInv

(* emplace_front: the item is no higher than the head (branch of lines 165-169). *)
LEMMA EmplaceFrontKeepsIInv ==
  ASSUME IInv, EmplaceFront PROVE IInv'
<1>1. /\ list \in Seq(Int) /\ Len(list) \in Nat \ {0} /\ Ascending(list)
      /\ items \in Seq(Int) /\ Len(items) \in Nat /\ i \in 1..Len(items)
      /\ items[i] \in Int /\ items[i] <= list[1]
      /\ itemsSorted /\ Ascending(items) /\ pc = "front"
  BY EmptySeq, LenProperties, ElementOfSeq
  DEF IInv, TypeOK, ListAscends, LoopInv, BranchInv, EmplaceFront
<1>2. /\ UNCHANGED <<items, itemsSorted, base, it>> /\ i' = i - 1
      /\ IF i - 1 \in 1..Len(items) THEN pc' = "front" ELSE pc' = "idle"
  BY DEF EmplaceFront, Continue
<1>3. \A q \in 1..Len(list) : items[i] <= list[q]
  <2>1. ASSUME NEW q \in 1..Len(list) PROVE items[i] <= list[q]
    <3>1. 1 \in 1..Len(list) /\ 1 <= q
      BY <1>1
    <3>2. list[1] <= list[q] /\ list[1] \in Int /\ list[q] \in Int
      BY <1>1, <3>1, ElementOfSeq DEF Ascending
    <3>3. QED
      BY <1>1, <3>2
  <2>2. QED
    BY <2>1
<1>4. IsInsert(list, 1, items[i], list')
  BY <1>1, PushFrontInserts DEF EmplaceFront
<1>5. /\ list' \in Seq(Int) /\ Ascending(list') /\ Len(list') = Len(list) + 1
      /\ list'[1] = items[i] /\ Elements(list') = Elements(list) \cup {items[i]}
  <2>1. 1 \in 1..(Len(list) + 1)
    BY <1>1
  <2>2. \A q \in 1..(1 - 1) : list[q] <= items[i]
    OBVIOUS
  <2>3. list \in Seq(Int) /\ items[i] \in Int /\ Ascending(list)
    BY <1>1
  <2>4. QED
    BY <1>3, <1>4, <2>1, <2>2, <2>3, EmplaceStep
<1>6. TypeOK'
  BY <1>1, <1>2, <1>5 DEF IInv, TypeOK
<1>7. ListAscends'
  BY <1>5 DEF ListAscends
<1>8. LoopInv'
  BY <1>1, <1>2, EmptySeq DEF LoopInv, IInv
<1>9. BranchInv'
  <2>1. CASE pc' = "front"
    <3>1. i - 1 \in 1..Len(items) /\ i - 1 <= i
      BY <1>1, <1>2, <2>1
    <3>2. items[i - 1] <= items[i]
      BY <1>1, <3>1 DEF Ascending
    <3>3. list' # <<>>
      BY <1>1, <1>5
    <3>4. QED
      BY <1>2, <1>5, <2>1, <3>2, <3>3 DEF BranchInv
  <2>2. CASE pc' = "idle"
    BY <2>2 DEF BranchInv
  <2>3. QED
    BY <1>2, <2>1, <2>2
<1>10. Done' = Done \cup {i} /\ DoneCount' = DoneCount + 1 /\ DoneCount \in Int
  <2>1. Done = (i + 1)..Len(items) /\ DoneCount = Len(items) - i
    BY <1>1 DEF Done, DoneCount
  <2>2. Done' = i..Len(items) /\ DoneCount' = Len(items) - i + 1
    <3>1. CASE pc' = "front"
      BY <1>1, <1>2, <3>1 DEF Done, DoneCount
    <3>2. CASE pc' = "idle"
      <4>1. i = 1
        BY <1>1, <1>2, <3>2
      <4>2. QED
        BY <1>1, <1>2, <3>2, <4>1 DEF Done, DoneCount
    <3>3. QED
      BY <1>2, <3>1, <3>2
  <2>3. QED
    BY <1>1, <2>1, <2>2
<1>11. QED
  BY <1>1, <1>2, <1>5, <1>6, <1>7, <1>8, <1>9, <1>10, EmplaceKeepsContent DEF IInv

(* The three loops that count up: what is common to their bookkeeping. *)
LEMMA CountUpKeepsLoop ==
  ASSUME IInv, pc \in {"back", "cursor", "each"}, Continue(pc, i + 1)
  PROVE  /\ LoopInv'
         /\ Done' = Done \cup {i} /\ DoneCount' = DoneCount + 1 /\ DoneCount \in Int
         /\ i \in 1..Len(items) /\ i' = i + 1
         /\ UNCHANGED <<items, itemsSorted, base>>
         /\ pc' = IF i + 1 \in 1..Len(items) THEN pc ELSE "idle"
<1>1. /\ items \in Seq(Int) /\ Len(items) \in Nat /\ i \in 1..Len(items)
      /\ UNCHANGED <<items, itemsSorted, base>> /\ i' = i + 1
      /\ pc' = IF i + 1 \in 1..Len(items) THEN pc ELSE "idle"
  BY LenProperties DEF IInv, TypeOK, LoopInv, Continue
<1>2. LoopInv'
  BY <1>1 DEF IInv, LoopInv
<1>3. Done = 1..(i - 1) /\ DoneCount = i - 1
  BY <1>1 DEF Done, DoneCount
<1>4. Done' = 1..i /\ DoneCount' = i
  <2>1. CASE i + 1 \in 1..Len(items)
    BY <1>1, <2>1 DEF Done, DoneCount
  <2>2. CASE i + 1 \notin 1..Len(items)
    <3>1. i = Len(items) /\ pc' = "idle"
      BY <1>1, <2>2
    <3>2. QED
      BY <1>1, <3>1 DEF Done, DoneCount
  <2>3. QED
    BY <2>1, <2>2
<1>5. QED
  BY <1>1, <1>2, <1>3, <1>4

(* What an emplace step of any branch finds. *)
LEMMA EmplaceFacts ==
  ASSUME IInv, i \in 1..Len(items)
  PROVE  /\ list \in Seq(Int) /\ Len(list) \in Nat /\ Ascending(list)
         /\ items \in Seq(Int) /\ items[i] \in Int
         /\ it \in Nat \ {0}
BY LenProperties, ElementOfSeq DEF IInv, TypeOK, ListAscends

(* emplace_back: the item is no lower than the tail (branch of lines 170-174). *)
LEMMA EmplaceBackKeepsIInv ==
  ASSUME IInv, EmplaceBack PROVE IInv'
<1>1. /\ LoopInv'
      /\ Done' = Done \cup {i} /\ DoneCount' = DoneCount + 1 /\ DoneCount \in Int
      /\ i \in 1..Len(items) /\ i' = i + 1
      /\ UNCHANGED <<items, itemsSorted, base>>
      /\ pc' = IF i + 1 \in 1..Len(items) THEN "back" ELSE "idle"
  BY CountUpKeepsLoop DEF EmplaceBack
<1>2. /\ list \in Seq(Int) /\ Len(list) \in Nat /\ Ascending(list)
      /\ items \in Seq(Int) /\ items[i] \in Int
  BY <1>1, EmplaceFacts
<1>3. /\ Len(list) \in Nat \ {0} /\ list[Len(list)] <= items[i] /\ list[Len(list)] \in Int
      /\ Ascending(items)
  <2>1. list # <<>> /\ items[i] >= list[Len(list)] /\ Ascending(items)
    BY DEF IInv, LoopInv, BranchInv, EmplaceBack
  <2>2. Len(list) \in Nat \ {0} /\ list[Len(list)] \in Int
    BY <1>2, <2>1, EmptySeq, ElementOfSeq
  <2>3. QED
    BY <1>2, <2>1, <2>2
<1>4. /\ list' \in Seq(Int) /\ Ascending(list') /\ Len(list') = Len(list) + 1
      /\ list'[Len(list) + 1] = items[i] /\ Elements(list') = Elements(list) \cup {items[i]}
  <2>1. IsInsert(list, Len(list) + 1, items[i], list')
    BY <1>2, AppendInserts DEF EmplaceBack
  <2>2. \A q \in 1..((Len(list) + 1) - 1) : list[q] <= items[i]
    <3>1. ASSUME NEW q \in 1..Len(list) PROVE list[q] <= items[i]
      <4>1. list[q] <= list[Len(list)] /\ list[q] \in Int
        BY <1>2, <1>3, ElementOfSeq DEF Ascending
      <4>2. QED
        BY <1>2, <1>3, <4>1
    <3>2. (Len(list) + 1) - 1 = Len(list)
      BY <1>2
    <3>3. QED
      BY <3>1, <3>2
  <2>3. \A q \in (Len(list) + 1)..Len(list) : items[i] <= list[q]
    BY <1>2
  <2>4. Len(list) + 1 \in 1..(Len(list) + 1)
    BY <1>2
  <2>5. list \in Seq(Int) /\ items[i] \in Int /\ Ascending(list)
    BY <1>2
  <2>6. QED
    BY <2>1, <2>2, <2>3, <2>4, <2>5, EmplaceStep
<1>5. TypeOK'
  BY <1>1, <1>2, <1>4 DEF IInv, TypeOK, EmplaceBack
<1>6. ListAscends'
  BY <1>4 DEF ListAscends
<1>7. BranchInv'
  <2>1. CASE pc' = "back"
    <3>1. i + 1 \in 1..Len(items) /\ i \in 1..Len(items) /\ i <= i + 1
      BY <1>1, <2>1
    <3>2. items[i] <= items[i + 1]
      BY <1>3, <3>1 DEF Ascending
    <3>3. list' # <<>>
      BY <1>2, <1>4
    <3>4. QED
      BY <1>1, <1>4, <2>1, <3>2, <3>3 DEF BranchInv
  <2>2. CASE pc' = "idle"
    BY <2>2 DEF BranchInv
  <2>3. QED
    BY <1>1, <2>1, <2>2
<1>8. ContentInv'
  BY <1>1, <1>4, EmplaceKeepsContent
<1>9. QED
  BY <1>1, <1>5, <1>6, <1>7, <1>8 DEF IInv

(* A list created anew starts as the first one did. *)
LEMMA RecreateKeepsIInv == IInv /\ Recreate => IInv'
<1> SUFFICES ASSUME IInv, Recreate PROVE IInv'
  OBVIOUS
<1>1. TypeOK'
  <2>1. <<>> \in Seq(Int)
    BY EmptySeq
  <2>2. (list \in Seq(Int) /\ base \in Seq(Int) /\ items \in Seq(Int))'
    BY <2>1, Zenon DEF Recreate
  <2>3. (itemsSorted \in BOOLEAN /\ pc = "idle")'
    BY Zenon DEF Recreate
  <2>4. (i \in Int /\ it \in Nat \ {0})'
    BY DEF Recreate
  <2>5. QED
    BY <2>2, <2>3, <2>4, Zenon DEF TypeOK
<1>2. ListAscends'
  BY DEF Recreate, ListAscends, Ascending
<1>3. (LoopInv /\ BranchInv)'
  BY DEF Recreate, LoopInv, BranchInv
<1>4. ContentInv'
  BY DEF Recreate, ContentInv, Done, DoneCount, Elements
<1>5. QED
  BY <1>1, <1>2, <1>3, <1>4 DEF IInv

(* The search may start at the node inserted before: with ascending items nothing
   ahead of it is above the next item. *)
LEMMA EmplaceFromCursorKeepsIInv ==
  ASSUME IInv, EmplaceFromCursor PROVE IInv'
<1>1. /\ LoopInv'
      /\ Done' = Done \cup {i} /\ DoneCount' = DoneCount + 1 /\ DoneCount \in Int
      /\ i \in 1..Len(items) /\ i' = i + 1
      /\ UNCHANGED <<items, itemsSorted, base>>
      /\ pc' = IF i + 1 \in 1..Len(items) THEN "cursor" ELSE "idle"
  BY CountUpKeepsLoop DEF EmplaceFromCursor
<1>2. /\ list \in Seq(Int) /\ Len(list) \in Nat /\ Ascending(list)
      /\ items \in Seq(Int) /\ items[i] \in Int
      /\ it \in Nat \ {0}
  BY <1>1, EmplaceFacts
<1>3. Ascending(items) /\ IF i = 1 THEN it = 1 ELSE it \in 1..Len(list) /\ list[it] = items[i - 1]
  BY DEF IInv, LoopInv, BranchInv, EmplaceFromCursor
<1>4. PICK p \in it..(Len(list) + 1) :
        IsLowerBound(list, it, items[i], p) /\ list' = InsertAt(list, p, items[i]) /\ it' = p
  BY DEF EmplaceFromCursor
<1>5. \A q \in 1..(it - 1) : q \in 1..Len(list) /\ list[q] <= items[i]
  <2>1. CASE i = 1
    BY <1>3, <2>1
  <2>2. CASE i # 1
    <3>1. it \in 1..Len(list) /\ list[it] = items[i - 1]
      BY <1>3, <2>2
    <3>2. i - 1 \in 1..Len(items) /\ i - 1 <= i /\ i \in 1..Len(items)
      BY <1>1, <2>2
    <3>3. list[it] <= items[i] /\ list[it] \in Int
      BY <1>2, <1>3, <3>1, <3>2, ElementOfSeq DEF Ascending
    <3>4. ASSUME NEW q \in 1..(it - 1) PROVE q \in 1..Len(list) /\ list[q] <= items[i]
      <4>1. q \in 1..Len(list) /\ q <= it
        BY <1>2, <3>1
      <4>2. list[q] <= list[it] /\ list[q] \in Int
        BY <1>2, <3>1, <4>1, ElementOfSeq DEF Ascending
      <4>3. QED
        BY <1>2, <3>3, <4>1, <4>2
    <3>5. QED
      BY <3>4
  <2>3. QED
    BY <2>1, <2>2
<1>6. /\ p \in 1..(Len(list) + 1)
      /\ \A q \in 1..(p - 1) : list[q] <= items[i]
      /\ \A q \in p..Len(list) : items[i] <= list[q]
  BY <1>2, <1>4, <1>5, LowerBoundSeparates
<1>7. IsInsert(list, p, items[i], list')
  BY <1>2, <1>4, <1>6, InsertAtInserts
<1>8. /\ list' \in Seq(Int) /\ Ascending(list') /\ Len(list') = Len(list) + 1
      /\ list'[p] = items[i] /\ p \in 1..Len(list')
      /\ Elements(list') = Elements(list) \cup {items[i]}
  <2>1. list \in Seq(Int) /\ items[i] \in Int /\ Ascending(list)
    BY <1>2
  <2>2. QED
    BY <1>6, <1>7, <2>1, EmplaceStep
<1>9. TypeOK'
  <2>1. it' \in Nat \ {0} /\ i' \in Int /\ pc' \in {"cursor", "idle"}
    BY <1>1, <1>2, <1>4
  <2>2. QED
    BY <1>1, <1>8, <2>1 DEF IInv, TypeOK
<1>10. ListAscends'
  BY <1>8 DEF ListAscends
<1>11. BranchInv'
  <2>1. i' # 1 /\ i' - 1 = i
    BY <1>1
  <2>2. it' \in 1..Len(list') /\ list'[it'] = items'[i' - 1]
    BY <1>1, <1>4, <1>8, <2>1
  <2>3. QED
    BY <1>1, <2>1, <2>2 DEF BranchInv
<1>12. ContentInv'
  BY <1>1, <1>8, EmplaceKeepsContent
<1>13. QED
  BY <1>1, <1>9, <1>10, <1>11, <1>12 DEF IInv

(* The branch without the flag: every search starts at the head. *)
LEMMA EmplaceEachKeepsIInv ==
  ASSUME IInv, EmplaceEach PROVE IInv'
<1>1. /\ LoopInv'
      /\ Done' = Done \cup {i} /\ DoneCount' = DoneCount + 1 /\ DoneCount \in Int
      /\ i \in 1..Len(items) /\ i' = i + 1
      /\ UNCHANGED <<items, itemsSorted, base>>
      /\ pc' = IF i + 1 \in 1..Len(items) THEN "each" ELSE "idle"
  BY CountUpKeepsLoop DEF EmplaceEach
<1>2. /\ list \in Seq(Int) /\ Len(list) \in Nat /\ Ascending(list)
      /\ items \in Seq(Int) /\ items[i] \in Int
  BY <1>1, EmplaceFacts
<1>3. PICK p \in 1..(Len(list) + 1) :
        IsLowerBound(list, 1, items[i], p) /\ list' = InsertAt(list, p, items[i])
  BY DEF EmplaceEach
<1>4. /\ p \in 1..(Len(list) + 1)
      /\ \A q \in 1..(p - 1) : list[q] <= items[i]
      /\ \A q \in p..Len(list) : items[i] <= list[q]
  <2>1. \A q \in 1..(1 - 1) : q \in 1..Len(list) /\ list[q] <= items[i]
    OBVIOUS
  <2>2. list \in Seq(Int) /\ items[i] \in Int /\ Ascending(list) /\ 1 \in Nat \ {0}
    BY <1>2
  <2>3. IsLowerBound(list, 1, items[i], p)
    BY <1>3
  <2>4. QED
    BY <2>1, <2>2, <2>3, LowerBoundSeparates
<1>5. IsInsert(list, p, items[i], list')
  BY <1>2, <1>3, InsertAtInserts
<1>6. /\ list' \in Seq(Int) /\ Ascending(list') /\ Len(list') = Len(list) + 1
      /\ Elements(list') = Elements(list) \cup {items[i]}
  <2>1. list \in Seq(Int) /\ items[i] \in Int /\ Ascending(list)
    BY <1>2
  <2>2. QED
    BY <1>4, <1>5, <2>1, EmplaceStep
<1>7. TypeOK'
  <2>1. it' = it /\ i' \in Int /\ pc' \in {"each", "idle"}
    BY <1>1 DEF EmplaceEach
  <2>2. QED
    BY <1>1, <1>6, <2>1 DEF IInv, TypeOK
<1>8. ListAscends'
  BY <1>6 DEF ListAscends
<1>9. BranchInv'
  BY <1>1 DEF BranchInv
<1>10. ContentInv'
  BY <1>1, <1>6, EmplaceKeepsContent
<1>11. QED
  BY <1>1, <1>7, <1>8, <1>9, <1>10 DEF IInv

(* Every action of the handler keeps the invariant. *)
THEOREM StepKeepsIInv == IInv /\ [Next]_vars => IInv'
<1> SUFFICES ASSUME IInv, [Next]_vars PROVE IInv'
  OBVIOUS
<1>1. CASE \E vector \in ItemVectors, flag \in BOOLEAN : Request(vector, flag)
  BY <1>1, RequestKeepsIInv
<1>2. CASE ChooseEach \/ ChooseFront \/ ChooseBack \/ ChooseCursor
  BY <1>2, ChooseKeepsIInv
<1>3. CASE EmplaceFront
  BY <1>3, EmplaceFrontKeepsIInv
<1>4. CASE EmplaceBack
  BY <1>4, EmplaceBackKeepsIInv
<1>5. CASE EmplaceFromCursor
  BY <1>5, EmplaceFromCursorKeepsIInv
<1>6. CASE EmplaceEach
  BY <1>6, EmplaceEachKeepsIInv
<1>7. CASE UNCHANGED vars
  BY <1>7 DEF vars, IInv, TypeOK, ListAscends, LoopInv, BranchInv, ContentInv, Done, DoneCount
<1>8. CASE Recreate
  BY <1>8, RecreateKeepsIInv
<1>9. QED
  BY <1>1, <1>2, <1>3, <1>4, <1>5, <1>6, <1>7, <1>8 DEF Next

-----------------------------------------------------------------------------
(* The loops compute the operator: after i - 1 turns the list is what the operator's
   recursion has after i - 1 items. *)

(* f is the recursion of InsertEach, of InsertFromCursor. *)
EachWalk(f, s, xs) ==
  /\ f[0] = s
  /\ \A k \in 1..Len(xs) : f[k] = EmplaceSorted(f[k - 1], 1, xs[k]).list
  /\ InsertEach(s, xs) = f[Len(xs)]

CursorWalk(f, s, xs) ==
  /\ f[0] = [list |-> s, it |-> 1]
  /\ \A k \in 1..Len(xs) : f[k] = EmplaceSorted(f[k - 1].list, f[k - 1].it, xs[k])
  /\ InsertFromCursor(s, xs) = f[Len(xs)].list

(* Where the block of items fits in the list the request found. *)
BlockInFront == base # <<>> /\ items[Len(items)] <= Head(base)
BlockBehind  == base # <<>> /\ items[1] >= Last(base)

PathInv ==
  /\ pc = "idle" /\ items # <<>> => list = SortedAdd(base, items, itemsSorted)
  /\ pc = "choose" => list = base
  /\ pc = "front" => BlockInFront /\ list = SubSeq(items, i + 1, Len(items)) \o base
  /\ pc = "back" => ~BlockInFront /\ BlockBehind /\ list = base \o SubSeq(items, 1, i - 1)
  /\ pc = "cursor" => /\ ~BlockInFront /\ ~BlockBehind
                      /\ \E f : CursorWalk(f, base, items) /\ f[i - 1].list = list /\ f[i - 1].it = it
  /\ pc = "each" => ~itemsSorted /\ \E f : EachWalk(f, base, items) /\ f[i - 1] = list

(* A request begins with the list it finds. *)
LEMMA RequestKeepsPath ==
  ASSUME NEW vector, NEW flag, Request(vector, flag) PROVE PathInv'
  BY DEF Request, PathInv

LEMMA RecreateKeepsPath == Recreate => PathInv'
  BY DEF Recreate, PathInv

(* The branch taken is the operator's, and nothing of it is done yet. *)
LEMMA ChooseKeepsPath ==
  ASSUME IInv, PathInv, ChooseEach \/ ChooseFront \/ ChooseBack \/ ChooseCursor
  PROVE  PathInv'
<1>1. /\ items \in Seq(Int) /\ items # <<>> /\ Len(items) \in Nat \ {0} /\ base \in Seq(Int)
      /\ list = base /\ UNCHANGED <<list, items, itemsSorted, base>> /\ it' = 1
  BY EmptySeq, LenProperties
  DEF IInv, TypeOK, LoopInv, PathInv, ChooseEach, ChooseFront, ChooseBack, ChooseCursor, Choose
<1>2. base # <<>> => Head(base) = base[1] /\ Last(base) = base[Len(base)]
  BY <1>1 DEF Last
<1>3. (FitsInFront <=> BlockInFront) /\ (FitsBehind <=> BlockBehind)
  BY <1>1, <1>2 DEF FitsInFront, FitsBehind, BlockInFront, BlockBehind
<1>4. (BlockInFront' <=> BlockInFront) /\ (BlockBehind' <=> BlockBehind)
  BY <1>1 DEF BlockInFront, BlockBehind
<1>5. CASE ChooseEach
  <2>1. PICK f : EachWalk(f, base, items)
    <3>1. base \in Seq(Int) /\ items \in Seq(Int)
      BY <1>1
    <3>2. \E f \in [0..Len(items) -> Seq(Int)] :
            /\ f[0] = base
            /\ \A k \in 1..Len(items) : f[k] = EmplaceSorted(f[k - 1], 1, items[k]).list
            /\ InsertEach(base, items) = f[Len(items)]
      BY <3>1, InsertEachRecursion
    <3>3. QED
      BY <3>2 DEF EachWalk
  <2>2. f[0] = list /\ pc' = "each" /\ i' = 1 /\ ~itemsSorted
    BY <1>1, <1>5, <2>1 DEF EachWalk, ChooseEach, Choose
  <2>3. EachWalk(f, base', items') /\ f[i' - 1] = list'
    BY <1>1, <2>1, <2>2
  <2>4. QED
    BY <1>1, <2>2, <2>3 DEF PathInv
<1>6. CASE ChooseFront
  <2>1. pc' = "front" /\ i' = Len(items) /\ FitsInFront
    BY <1>6 DEF ChooseFront, Choose
  <2>2. SubSeq(items, Len(items) + 1, Len(items)) = <<>>
    BY <1>1, SubSeqEmpty
  <2>3. <<>> \o base = base
    BY <1>1, ConcatEmptySeq
  <2>4. list' = SubSeq(items', i' + 1, Len(items')) \o base'
    BY <1>1, <2>1, <2>2, <2>3
  <2>5. QED
    BY <1>3, <1>4, <2>1, <2>4 DEF PathInv
<1>7. CASE ChooseBack
  <2>1. pc' = "back" /\ i' = 1 /\ ~FitsInFront /\ FitsBehind
    BY <1>7 DEF ChooseBack, Choose
  <2>2. SubSeq(items, 1, 0) = <<>>
    BY <1>1, SubSeqEmpty
  <2>3. base \o <<>> = base
    BY <1>1, ConcatEmptySeq
  <2>4. list' = base' \o SubSeq(items', 1, i' - 1)
    BY <1>1, <2>1, <2>2, <2>3
  <2>5. QED
    BY <1>3, <1>4, <2>1, <2>4 DEF PathInv
<1>8. CASE ChooseCursor
  <2>1. PICK f : CursorWalk(f, base, items)
    BY <1>1, InsertFromCursorRecursion DEF CursorWalk
  <2>2. pc' = "cursor" /\ i' = 1 /\ ~FitsInFront /\ ~FitsBehind
    BY <1>8 DEF ChooseCursor, Choose
  <2>3. CursorWalk(f, base', items') /\ f[i' - 1].list = list' /\ f[i' - 1].it = it'
    BY <1>1, <2>1, <2>2 DEF CursorWalk
  <2>4. QED
    BY <1>3, <1>4, <2>2, <2>3 DEF PathInv
<1>9. QED
  BY <1>5, <1>6, <1>7, <1>8

(* emplace_front moves one more of the last items in front of the list there was. *)
LEMMA FrontKeepsPath ==
  ASSUME IInv, PathInv, EmplaceFront PROVE PathInv'
<1> DEFINE n == Len(items)
           rest == SubSeq(items, i + 1, n)
<1>1. /\ items \in Seq(Int) /\ items # <<>> /\ n \in Nat /\ i \in 1..n /\ base \in Seq(Int)
      /\ itemsSorted /\ items[i] \in Int
  BY LenProperties, ElementOfSeq DEF IInv, TypeOK, LoopInv, EmplaceFront
<1>2. /\ UNCHANGED <<items, itemsSorted, base>> /\ i' = i - 1
      /\ pc' = IF i - 1 \in 1..n THEN "front" ELSE "idle"
      /\ list' = <<items[i]>> \o list
  BY DEF EmplaceFront, Continue
<1>3. BlockInFront /\ list = rest \o base
  BY DEF PathInv, EmplaceFront
<1>4. list' = SubSeq(items, i, n) \o base
  <2>1. n \in i..n
    BY <1>1
  <2>2. SubSeq(items, i, n) = <<items[i]>> \o rest
    <3> HIDE DEF n
    <3>1. n = Len(items)
      BY DEF n
    <3>2. QED
      BY <1>1, <2>1, <3>1, SubSeqRecursiveFirst
  <2>3. rest \in Seq(Int) /\ <<items[i]>> \in Seq(Int)
    <3>1. i + 1 \in 1..(Len(items) + 1) /\ n \in 0..Len(items)
      BY <1>1
    <3>2. QED
      BY <1>1, <3>1, SubSeqKeeps
  <2> DEFINE one == <<items[i]>>
  <2> HIDE DEF rest, one
  <2>4. (one \o rest) \o base = one \o (rest \o base)
    <3>1. one \in Seq(Int) /\ rest \in Seq(Int) /\ base \in Seq(Int)
      BY <1>1, <2>3 DEF one
    <3>2. QED
      BY <3>1, ConcatAssociative
  <2>5. QED
    BY <1>2, <1>3, <2>2, <2>4 DEF one
<1>5. CASE i - 1 \in 1..n
  <2>1. pc' = "front" /\ (i - 1) + 1 = i
    BY <1>1, <1>2, <1>5
  <2>2. BlockInFront' /\ list' = SubSeq(items', i' + 1, Len(items')) \o base'
    BY <1>2, <1>3, <1>4, <2>1 DEF BlockInFront
  <2>3. QED
    BY <2>1, <2>2 DEF PathInv
<1>6. CASE i - 1 \notin 1..n
  <2>1. pc' = "idle" /\ i = 1
    BY <1>1, <1>2, <1>6
  <2>2. SubSeq(items, 1, n) = items
    BY <1>1, SubSeqFull
  <2>3. list' = items \o base
    BY <1>4, <2>1, <2>2
  <2>4. SortedAdd(base, items, itemsSorted) = items \o base
    BY <1>1, <1>3 DEF SortedAdd, InsertSortedItems, BlockInFront
  <2>5. QED
    BY <1>2, <2>1, <2>3, <2>4 DEF PathInv
<1>7. QED
  BY <1>5, <1>6

(* emplace_back moves one more of the first items behind it. *)
LEMMA BackKeepsPath ==
  ASSUME IInv, PathInv, EmplaceBack PROVE PathInv'
<1> DEFINE n == Len(items)
           begun == SubSeq(items, 1, i - 1)
<1>1. /\ items \in Seq(Int) /\ items # <<>> /\ n \in Nat /\ i \in 1..n /\ base \in Seq(Int)
      /\ itemsSorted /\ items[i] \in Int /\ list \in Seq(Int)
  BY LenProperties, ElementOfSeq DEF IInv, TypeOK, LoopInv, EmplaceBack
<1>2. /\ UNCHANGED <<items, itemsSorted, base>> /\ i' = i + 1
      /\ pc' = IF i + 1 \in 1..n THEN "back" ELSE "idle"
      /\ list' = Append(list, items[i])
  BY DEF EmplaceBack, Continue
<1>3. ~BlockInFront /\ BlockBehind /\ list = base \o begun
  BY DEF PathInv, EmplaceBack
<1>4. list' = base \o SubSeq(items, 1, i)
  <2>1. 1 \in 1..Len(items) /\ i \in 1..Len(items) /\ i - 1 \in 0..Len(items)
        /\ 1 \in 1..(Len(items) + 1)
    BY <1>1
  <2>2. SubSeq(items, 1, i) = begun \o <<items[i]>>
    BY <1>1, <2>1, SubSeqRecursiveSecond
  <2>3. begun \in Seq(Int) /\ <<items[i]>> \in Seq(Int)
    BY <1>1, <2>1, SubSeqKeeps
  <2> DEFINE one == <<items[i]>>
  <2> HIDE DEF begun, one
  <2>4. (base \o begun) \o one = base \o (begun \o one)
    <3>1. one \in Seq(Int) /\ begun \in Seq(Int) /\ base \in Seq(Int)
      BY <1>1, <2>3 DEF one
    <3>2. QED
      BY <3>1, ConcatAssociative
  <2>5. list' = list \o <<items[i]>>
    BY <1>1, <1>2, AppendIsConcat
  <2>6. QED
    BY <1>3, <2>2, <2>4, <2>5 DEF one
<1>5. CASE i + 1 \in 1..n
  <2>1. pc' = "back" /\ (i + 1) - 1 = i
    BY <1>1, <1>2, <1>5
  <2>2. ~BlockInFront' /\ BlockBehind' /\ list' = base' \o SubSeq(items', 1, i' - 1)
    BY <1>2, <1>3, <1>4, <2>1 DEF BlockInFront, BlockBehind
  <2>3. QED
    BY <2>1, <2>2 DEF PathInv
<1>6. CASE i + 1 \notin 1..n
  <2>1. pc' = "idle" /\ i = n
    BY <1>1, <1>2, <1>6
  <2>2. SubSeq(items, 1, n) = items
    BY <1>1, SubSeqFull
  <2>3. list' = base \o items
    BY <1>4, <2>1, <2>2
  <2>4. SortedAdd(base, items, itemsSorted) = base \o items
    BY <1>1, <1>3 DEF SortedAdd, InsertSortedItems, BlockInFront, BlockBehind
  <2>5. QED
    BY <1>2, <2>1, <2>3, <2>4 DEF PathInv
<1>7. QED
  BY <1>5, <1>6

(* One emplace of the cursor branch is one step of the recursion. *)
LEMMA CursorKeepsPath ==
  ASSUME IInv, PathInv, EmplaceFromCursor PROVE PathInv'
<1> DEFINE n == Len(items)
<1>1. /\ items \in Seq(Int) /\ items # <<>> /\ n \in Nat /\ i \in 1..n /\ base \in Seq(Int)
      /\ itemsSorted /\ items[i] \in Int /\ list \in Seq(Int) /\ Len(list) \in Nat
      /\ it \in 1..(Len(list) + 1)
  BY LenProperties, ElementOfSeq DEF IInv, TypeOK, LoopInv, BranchInv, EmplaceFromCursor
<1>2. /\ UNCHANGED <<items, itemsSorted, base>> /\ i' = i + 1
      /\ pc' = IF i + 1 \in 1..n THEN "cursor" ELSE "idle"
  BY DEF EmplaceFromCursor, Continue
<1>3. ~BlockInFront /\ ~BlockBehind
  BY DEF PathInv, EmplaceFromCursor
<1>4. PICK f : CursorWalk(f, base, items) /\ f[i - 1].list = list /\ f[i - 1].it = it
  BY DEF PathInv, EmplaceFromCursor
<1>5. PICK p \in it..(Len(list) + 1) :
        IsLowerBound(list, it, items[i], p) /\ list' = InsertAt(list, p, items[i]) /\ it' = p
  BY DEF EmplaceFromCursor
<1>6. p = LowerBound(list, it, items[i])
  BY <1>1, <1>5, LowerBoundUnique
<1>7. f[i] = EmplaceSorted(list, it, items[i])
  BY <1>1, <1>4 DEF CursorWalk
<1>8. f[i].list = list' /\ f[i].it = it'
  BY <1>5, <1>6, <1>7 DEF EmplaceSorted
<1>9. CASE i + 1 \in 1..n
  <2>1. pc' = "cursor" /\ (i + 1) - 1 = i
    BY <1>1, <1>2, <1>9
  <2>2. CursorWalk(f, base', items') /\ f[i' - 1].list = list' /\ f[i' - 1].it = it'
    BY <1>2, <1>4, <1>8, <2>1
  <2>3. ~BlockInFront' /\ ~BlockBehind'
    BY <1>2, <1>3 DEF BlockInFront, BlockBehind
  <2>4. QED
    BY <2>1, <2>2, <2>3 DEF PathInv
<1>10. CASE i + 1 \notin 1..n
  <2>1. pc' = "idle" /\ i = n
    BY <1>1, <1>2, <1>10
  <2>2. list' = InsertFromCursor(base, items)
    BY <1>4, <1>8, <2>1 DEF CursorWalk
  <2>3. SortedAdd(base, items, itemsSorted) = InsertFromCursor(base, items)
    BY <1>1, <1>3 DEF SortedAdd, InsertSortedItems, BlockInFront, BlockBehind
  <2>4. QED
    BY <1>2, <2>1, <2>2, <2>3 DEF PathInv
<1>11. QED
  BY <1>9, <1>10

(* One emplace of the other branch too. *)
LEMMA EachKeepsPath ==
  ASSUME IInv, PathInv, EmplaceEach PROVE PathInv'
<1> DEFINE n == Len(items)
<1>1. /\ items \in Seq(Int) /\ items # <<>> /\ n \in Nat /\ i \in 1..n /\ base \in Seq(Int)
      /\ items[i] \in Int /\ list \in Seq(Int) /\ Len(list) \in Nat /\ 1 \in 1..(Len(list) + 1)
  BY LenProperties, ElementOfSeq DEF IInv, TypeOK, LoopInv, EmplaceEach
<1>2. /\ UNCHANGED <<items, itemsSorted, base>> /\ i' = i + 1
      /\ pc' = IF i + 1 \in 1..n THEN "each" ELSE "idle"
  BY DEF EmplaceEach, Continue
<1>3. PICK f : EachWalk(f, base, items) /\ f[i - 1] = list
  BY DEF PathInv, EmplaceEach
<1>4. ~itemsSorted
  BY DEF PathInv, EmplaceEach
<1>5. PICK p \in 1..(Len(list) + 1) :
        IsLowerBound(list, 1, items[i], p) /\ list' = InsertAt(list, p, items[i])
  BY DEF EmplaceEach
<1>6. p = LowerBound(list, 1, items[i])
  BY <1>1, <1>5, LowerBoundUnique
<1>7. f[i] = EmplaceSorted(list, 1, items[i]).list
  BY <1>1, <1>3 DEF EachWalk
<1>8. f[i] = list'
  BY <1>5, <1>6, <1>7 DEF EmplaceSorted
<1>9. CASE i + 1 \in 1..n
  <2>1. pc' = "each" /\ (i + 1) - 1 = i
    BY <1>1, <1>2, <1>9
  <2>2. EachWalk(f, base', items') /\ f[i' - 1] = list'
    BY <1>2, <1>3, <1>8, <2>1
  <2>3. QED
    BY <1>2, <1>4, <2>1, <2>2 DEF PathInv
<1>10. CASE i + 1 \notin 1..n
  <2>1. pc' = "idle" /\ i = n
    BY <1>1, <1>2, <1>10
  <2>2. list' = InsertEach(base, items)
    BY <1>3, <1>8, <2>1 DEF EachWalk
  <2>3. SortedAdd(base, items, itemsSorted) = InsertEach(base, items)
    BY <1>4 DEF SortedAdd
  <2>4. QED
    BY <1>2, <2>1, <2>2, <2>3 DEF PathInv
<1>11. QED
  BY <1>9, <1>10

LEMMA StepKeepsPath == IInv /\ PathInv /\ [Next]_vars => PathInv'
<1> SUFFICES ASSUME IInv, PathInv, [Next]_vars PROVE PathInv'
  OBVIOUS
<1>1. CASE \E vector \in ItemVectors, flag \in BOOLEAN : Request(vector, flag)
  BY <1>1, RequestKeepsPath
<1>2. CASE ChooseEach \/ ChooseFront \/ ChooseBack \/ ChooseCursor
  BY <1>2, ChooseKeepsPath
<1>3. CASE EmplaceFront
  BY <1>3, FrontKeepsPath
<1>4. CASE EmplaceBack
  BY <1>4, BackKeepsPath
<1>5. CASE EmplaceFromCursor
  BY <1>5, CursorKeepsPath
<1>6. CASE EmplaceEach
  BY <1>6, EachKeepsPath
<1>7. CASE UNCHANGED vars
  BY <1>7 DEF vars, PathInv, BlockInFront, BlockBehind
<1>8. CASE Recreate
  BY <1>8, RecreateKeepsPath
<1>9. QED
  BY <1>1, <1>2, <1>3, <1>4, <1>5, <1>6, <1>7, <1>8 DEF Next

-----------------------------------------------------------------------------
(* The theorems. *)

(* Every state of the sorted add satisfies the inductive invariant. *)
THEOREM InductiveInvariant == Spec => []IInv
BY InitEstablishesIInv, StepKeepsIInv, PTL DEF Spec

(* Type correctness. *)
THEOREM TypeCorrect == Spec => []TypeOK
<1>1. IInv => TypeOK
  BY DEF IInv
<1>2. QED
  BY <1>1, InductiveInvariant, PTL

(* The list ascends between any two emplaces, on every branch, whatever the
   integers, the vectors and the lengths. *)
THEOREM ListAlwaysAscends == Spec => []ListAscends
<1>1. IInv => ListAscends
  BY DEF IInv
<1>2. QED
  BY <1>1, InductiveInvariant, PTL

(* When a request is done the list holds what it held and the items, no node lost
   and none added beyond them. *)
THEOREM NothingIsLost == Spec => []AddKeepsEverything
<1>1. IInv => AddKeepsEverything
  BY DEF IInv, ContentInv, AddKeepsEverything, Done, DoneCount, Elements
<1>2. QED
  BY <1>1, InductiveInvariant, PTL

(* The loops leave what the one-step operator of ListHandler says, on every branch, for
   every list and every request. *)
THEOREM LoopsAreTheOperator == Spec => []LoopIsSortedAdd
<1>1. Init => PathInv
  BY DEF Init, PathInv
<1>2. IInv /\ PathInv /\ [Next]_vars => PathInv'
  BY StepKeepsPath
<1>3. PathInv => LoopIsSortedAdd
  BY DEF PathInv, LoopIsSortedAdd
<1>4. QED
  BY <1>1, <1>2, <1>3, InductiveInvariant, PTL DEF Spec
=============================================================================
