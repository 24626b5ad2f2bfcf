----------------------------- MODULE KvHandler -----------------------------
(***************************************************************************)
(* The key-value half of the server (KvHandler.cpp, Map.hpp): the main map *)
(* and the groups' maps, one action per request.  As in ListHandler, the   *)
(* worker thread makes a handler one step.                                 *)
(*                                                                         *)
(* An entry keeps its value as the codec of KvCodec lays it out, in a      *)
(* FixedValue or in a VectorValue; one without bytes can be read when it   *)
(* is a typed vector, and not when it is a string or a blob, whose extract *)
(* function reads at least one byte.                                       *)
(*                                                                         *)
(* With MayStarve, an allocation may fail: at a group, at the entry of a   *)
(* key, at the bytes of its value, or at an answer.                        *)
(***************************************************************************)
EXTENDS KvCodec

CONSTANTS
  Keys,        \* keys, in the byte order in which a flexbuffer map keeps them
  Groups,      \* names of groups
  Main,        \* the main map: a request without a group
  ValuesFor,   \* the values clients give each key
  MayStarve,   \* allocations may fail
  NoEntry, NoGroup

VARIABLES
  maps,  \* m_map at Main, m_groups elsewhere: a CacheMap, or NoGroup
  up,    \* the process is alive
  rsp    \* the last request and its response

vars == <<maps, up, rsp>>

MapNames == Groups \cup {Main}
Values == UNION {ValuesFor[k] : k \in Keys}
Items == UNION {{items \in [keys -> Values] : \A k \in keys : items[k] \in ValuesFor[k]} :
                  keys \in (SUBSET Keys) \ {{}}}

Supported(value) == value.type \in FixedTypes \cup VecTypes
IsFixed(value) == value.type \in FixedTypes

(* Clients give values that createKvMap lets through; the server knows their type, or
   refuses them. *)
ClientsAreWellBehaved == \A value \in Values : Supported(value) => WellFormed(value)

(* CachedValue: the tag, the alternative the variant holds, and in it the type (that
   is, the extract function) and the bytes. *)
CachedValue ==
  [valueType : {"FIXED", "VEC"}, held : {"FixedValue", "VectorValue"},
   type : FixedTypes \cup VecTypes,
   data : {Encode(v) : v \in {w \in Values : Supported(w)}} \cup {<<>>}]
FixedEntry(value) ==
  [valueType |-> "FIXED", held |-> "FixedValue", type |-> value.type, data |-> Encode(value)]
VecEntry(value, stored) ==
  [valueType |-> "VEC", held |-> "VectorValue", type |-> value.type,
   data |-> IF stored THEN Encode(value) ELSE <<>>]
HalfStored(entry) == entry.data = <<>>

ASSUME KvConstants ==
  /\ Keys \subseteq Nat \ {0} /\ IsFiniteSet(Keys)
  /\ Main \notin Groups
  /\ MayStarve \in BOOLEAN
  /\ NoEntry \notin CachedValue
  /\ NoGroup \notin [Keys -> CachedValue \cup {NoEntry}]

EmptyMap == [k \in Keys |-> NoEntry]
KeysOf(map) == {k \in Keys : map[k] # NoEntry}

(* Where memory runs out in a request: nowhere, or at one key. *)
Ample == [key |-> 0, at |-> "nowhere"]
Starvations(items) ==
  {Ample} \cup IF MayStarve THEN [key : DOMAIN items, at : {"entry", "bytes"}] ELSE {}

NoItems == [k \in {} |-> NoEntry]
NoAnswer == [op |-> "None", group |-> Main, status |-> "None", items |-> NoItems,
             keys |-> {}, answer |-> NoItems, count |-> 0, starved |-> FALSE]

Init ==
  /\ maps = [g \in MapNames |-> IF g = Main THEN EmptyMap ELSE NoGroup]
  /\ up = TRUE
  /\ rsp = NoAnswer

-----------------------------------------------------------------------------
(* CacheMap *)

(* Slips: unsupported values stored as bytes; the tag of an overwritten entry kept;
   missing bytes not reported. *)
Store_Anything(entry, value, isSet, at) ==
  IF entry # NoEntry /\ ~isSet THEN [entry |-> entry, valid |-> TRUE]
  ELSE IF IsFixed(value) THEN [entry |-> FixedEntry(value), valid |-> TRUE]
  ELSE [entry |-> VecEntry(value, TRUE), valid |-> TRUE]

Store_KeepsTag(entry, value, isSet, at) ==
  LET tag == IF entry = NoEntry THEN "FIXED" ELSE entry.valueType
  IN  IF ~Supported(value) THEN [entry |-> entry, valid |-> FALSE]
      ELSE IF entry # NoEntry /\ ~isSet THEN [entry |-> entry, valid |-> TRUE]
      ELSE IF IsFixed(value)
        THEN [entry |-> [FixedEntry(value) EXCEPT !.valueType = tag], valid |-> TRUE]
      ELSE [entry |-> VecEntry(value, at # "bytes"), valid |-> at # "bytes"]

Store_Unreported(entry, value, isSet, at) ==
  IF ~Supported(value) THEN [entry |-> entry, valid |-> FALSE]
  ELSE IF entry # NoEntry /\ ~isSet THEN [entry |-> entry, valid |-> TRUE]
  ELSE IF IsFixed(value) THEN [entry |-> FixedEntry(value), valid |-> TRUE]
  ELSE [entry |-> VecEntry(value, at # "bytes"), valid |-> TRUE]

(* CacheMap::setOrAdd: the entry it leaves, and whether it reports success.  The
   type and the extract function are set before the bytes are allocated. *)
Store(entry, value, isSet, at) ==
  IF ~Supported(value) THEN [entry |-> entry, valid |-> FALSE]
  ELSE IF entry # NoEntry /\ ~isSet THEN [entry |-> entry, valid |-> TRUE]
  ELSE IF entry = NoEntry /\ at = "entry" THEN [entry |-> NoEntry, valid |-> FALSE]
  ELSE IF IsFixed(value) THEN [entry |-> FixedEntry(value), valid |-> TRUE]
  ELSE [entry |-> VecEntry(value, at # "bytes"), valid |-> at # "bytes"]

(* KvHandler::setOrAdd: key by key in the flexbuffer's order, until one fails; no key
   comes twice, so each finds the entry that the request found. *)
SetOrAdd(map, items, isSet, memory) ==
  LET stored  == [k \in DOMAIN items |->
                    Store(map[k], items[k], isSet, IF k = memory.key THEN memory.at ELSE "nowhere")]
      reached == {k \in DOMAIN items : \A j \in DOMAIN items : j < k => stored[j].valid}
  IN  [map   |-> [k \in Keys |-> IF k \in reached THEN stored[k].entry ELSE map[k]],
       valid |-> \A k \in DOMAIN items : stored[k].valid]

(* std::get of the other alternative throws; reading the bytes of a string or blob
   that has none reads through a null pointer. *)
Throws(entry) == entry.held # IF entry.valueType = "FIXED" THEN "FixedValue" ELSE "VectorValue"
Undefined(entry) == HalfStored(entry) /\ entry.type \in Texts
Read(entry) == Decode(entry.type, entry.data)

-----------------------------------------------------------------------------
(* The handlers *)

Answer(op, group, status, items) ==
  rsp' = [NoAnswer EXCEPT !.op = op, !.group = group, !.status = status, !.items = items]

Status(valid) == IF valid THEN "Ok" ELSE "Fail"

Exists(group) == maps[group] # NoGroup
MapOrEmpty(group) == IF Exists(group) THEN maps[group] ELSE EmptyMap

(* Slip: without its group a request falls back to the main map. *)
SetOrAddIn_Main(op, group, items, isSet, memory) ==
  LET target == IF Exists(group) THEN group ELSE Main
      result == SetOrAdd(maps[target], items, isSet, memory)
  IN  /\ up
      /\ maps' = [maps EXCEPT ![target] = result.map]
      /\ Answer(op, group, Status(result.valid), items)
      /\ UNCHANGED up

(* getOrCreateGroup creates the group whatever becomes of the values. *)
SetOrAddIn(op, group, items, isSet, memory) ==
  LET result == SetOrAdd(MapOrEmpty(group), items, isSet, memory)
  IN  /\ up
      /\ maps' = [maps EXCEPT ![group] = result.map]
      /\ Answer(op, group, Status(result.valid), items)
      /\ UNCHANGED up

(* The group cannot be created: the exception is caught. *)
GroupStarved(op, group, items) ==
  /\ up /\ MayStarve
  /\ ~Exists(group)
  /\ Answer(op, group, "Fail", items)
  /\ UNCHANGED <<maps, up>>

(* Slip: an add that overwrites. *)
KVAdd_Overwrites(group, items, memory) == SetOrAddIn("KVAdd", group, items, TRUE, memory)

KVSet(group, items, memory) == SetOrAddIn("KVSet", group, items, TRUE, memory)
KVAdd(group, items, memory) == SetOrAddIn("KVAdd", group, items, FALSE, memory)

(* Clears first; a missing group is not created. *)
KVClearSet(group, items, memory) ==
  LET result == SetOrAdd(EmptyMap, items, TRUE, memory)
  IN  /\ up
      /\ IF Exists(group)
           THEN /\ maps' = [maps EXCEPT ![group] = result.map]
                /\ Answer("KVClearSet", group, Status(result.valid), items)
           ELSE /\ Answer("KVClearSet", group, "Fail", items)
                /\ UNCHANGED maps
      /\ UNCHANGED up

(* The entries a get visits: keys = {} asks for all of a group. *)
Visited(group, keys) ==
  LET present == KeysOf(MapOrEmpty(group))
  IN  IF keys = {} THEN present ELSE present \cap keys

KVGet(group, keys) ==
  LET visited == Visited(group, keys)
  IN  /\ up
      /\ keys # {} \/ group # Main
      /\ \A k \in visited : ~Throws(maps[group][k]) /\ ~Undefined(maps[group][k])
      /\ rsp' = [NoAnswer EXCEPT !.op = "KVGet", !.group = group, !.status = "Ok",
                   !.keys = keys, !.answer = [k \in visited |-> Read(maps[group][k])]]
      /\ UNCHANGED <<maps, up>>

KVGetAllOfMain ==
  /\ up
  /\ Answer("KVGet", Main, "NotPermitted", NoItems)
  /\ UNCHANGED <<maps, up>>

(* An exception while the answer is built is caught. *)
KVGetFails(group, keys, starved) ==
  /\ up
  /\ IF starved THEN MayStarve ELSE \E k \in Visited(group, keys) : Throws(maps[group][k])
  /\ rsp' = [NoAnswer EXCEPT !.op = "KVGet", !.group = group, !.status = "Fail",
               !.keys = keys, !.starved = starved]
  /\ UNCHANGED <<maps, up>>

(* The process dies, with everything it holds. *)
Die(starved) ==
  /\ up
  /\ up' = FALSE
  /\ maps' = [g \in MapNames |-> IF g = Main THEN EmptyMap ELSE NoGroup]
  /\ rsp' = [NoAnswer EXCEPT !.starved = starved]

KVGetUndefined(group, keys) ==
  /\ \E k \in Visited(group, keys) : Undefined(maps[group][k])
  /\ Die(FALSE)

KVRmv(group, keys) ==
  /\ up
  /\ maps' = IF ~Exists(group) THEN maps
             ELSE [maps EXCEPT ![group] = [k \in Keys |-> IF k \in keys THEN NoEntry ELSE @[k]]]
  /\ Answer("KVRmv", group, "Ok", NoItems)
  /\ UNCHANGED up

KVCount(group) ==
  /\ up
  /\ rsp' = [NoAnswer EXCEPT !.op = "KVCount", !.group = group, !.status = "Ok",
               !.count = Cardinality(KeysOf(MapOrEmpty(group)))]
  /\ UNCHANGED <<maps, up>>

KVContains(group, keys) ==
  /\ up
  /\ rsp' = [NoAnswer EXCEPT !.op = "KVContains", !.group = group, !.status = "Ok",
               !.keys = keys \cap KeysOf(MapOrEmpty(group))]
  /\ UNCHANGED <<maps, up>>

(* KVContains and KVCount are noexcept and catch nothing: std::terminate. *)
AnswerStarved == MayStarve /\ Die(TRUE)

(* What a clear leaves at each name. *)
Emptied(g) == IF Exists(g) THEN EmptyMap ELSE NoGroup

(* Slip: the main map is cleared with the groups. *)
Cleared_MainToo(op, group, g) ==
  CASE op \in {"KVClearAll", "KVClearGroups"} -> IF g = Main THEN EmptyMap ELSE NoGroup
    [] op = "KVClearGroupsKeysOnly"           -> Emptied(g)
    [] op = "KVClearGroupKeysOnly"            -> IF g = group THEN Emptied(g) ELSE maps[g]
    [] op = "KVClearGroup"                    -> IF g = group THEN NoGroup ELSE maps[g]

Cleared(op, group, g) ==
  CASE op = "KVClearAll"            -> IF g = Main THEN EmptyMap ELSE NoGroup
    [] op = "KVClearGroups"         -> IF g = Main THEN maps[g] ELSE NoGroup
    [] op = "KVClearGroupsKeysOnly" -> IF g = Main THEN maps[g] ELSE Emptied(g)
    [] op = "KVClearGroupKeysOnly"  -> IF g = group THEN Emptied(g) ELSE maps[g]
    [] op = "KVClearGroup"          -> IF g = group THEN NoGroup ELSE maps[g]

KVClear(op, group) ==
  /\ up
  /\ maps' = [g \in MapNames |-> Cleared(op, group, g)]
  /\ Answer(op, group, "Ok", NoItems)
  /\ UNCHANGED up

(* The cache is held in memory only: a new process starts empty. *)
Restart ==
  /\ ~up
  /\ up' = TRUE
  /\ UNCHANGED <<maps, rsp>>

Next ==
  \/ Restart \/ AnswerStarved \/ KVGetAllOfMain
  \/ \E op \in {"KVClearAll", "KVClearGroups", "KVClearGroupsKeysOnly"} : KVClear(op, Main)
  \/ \E group \in Groups, op \in {"KVClearGroup", "KVClearGroupKeysOnly"} : KVClear(op, group)
  \/ \E group \in MapNames :
       \/ KVCount(group)
       \/ \E keys \in SUBSET Keys :
            \/ KVGet(group, keys) \/ KVGetUndefined(group, keys)
            \/ \E starved \in BOOLEAN : KVGetFails(group, keys, starved)
            \/ keys # {} /\ (KVRmv(group, keys) \/ KVContains(group, keys))
       \/ \E items \in Items : \E memory \in Starvations(items) :
            \/ KVSet(group, items, memory)
            \/ KVAdd(group, items, memory)
            \/ KVClearSet(group, items, memory)
       \/ \E items \in Items, op \in {"KVSet", "KVAdd"} : GroupStarved(op, group, items)

Spec == Init /\ [][Next]_vars

-----------------------------------------------------------------------------
(* Properties *)

(* The main map always exists; every other name has a map or none (KvHandler.hpp
   m_map, m_groups). *)
TypeOK ==
  /\ maps \in [MapNames -> [Keys -> CachedValue \cup {NoEntry}] \cup {NoGroup}]
  /\ Exists(Main)
  /\ up \in BOOLEAN
  /\ rsp.group \in MapNames /\ rsp.count \in Nat
  /\ rsp.status \in {"None", "Ok", "Fail", "NotPermitted"}

(* However a key's values changed kind, and whatever failed on the way, its tag
   names the alternative the variant holds: no get can throw on it. *)
TagMatchesVariant ==
  \A g \in MapNames : Exists(g) => \A k \in KeysOf(maps[g]) : ~Throws(maps[g][k])

(* A request for one group, or for none, leaves every other map as it was; only the
   clears of all groups reach further.  A clear of the groups, but not of all, spares
   the main map, and one of their keys only leaves every group in being. *)
GroupsAreApart ==
  [][up /\ up' =>
       /\ rsp'.op \notin {"KVClearAll", "KVClearGroups", "KVClearGroupsKeysOnly"} =>
            \A g \in MapNames \ {rsp'.group} : maps'[g] = maps[g]
       /\ rsp'.op \in {"KVClearGroups", "KVClearGroupsKeysOnly"} => maps'[Main] = maps[Main]
       /\ rsp'.op = "KVClearGroupsKeysOnly" =>
            \A g \in MapNames : Exists(g)' <=> Exists(g)]_vars

(* An add leaves every key that was there as it was, whether it succeeds or stops
   half-way. *)
AddNeverOverwrites ==
  [][rsp'.op = "KVAdd" =>
       \A g \in MapNames : Exists(g) =>
         \A k \in KeysOf(maps[g]) : maps'[g][k] = maps[g][k]]_vars

(* What a set or clear_set did: after an Ok every item reads back, a string up to its
   first NUL and a double as a float; after a Fail a proper prefix of the items in key
   order does, with nothing stored from the failing key on but that key's own
   half-made entry. *)
SetAppliesAPrefix ==
  [][rsp'.op \in {"KVSet", "KVClearSet"} /\ maps'[rsp'.group] # NoGroup =>
       LET old == IF rsp'.op = "KVSet" THEN MapOrEmpty(rsp'.group) ELSE EmptyMap
           new == maps'[rsp'.group]
           applied(k) == /\ k \in KeysOf(new) /\ ~HalfStored(new[k])
                         /\ new[k].type = rsp'.items[k].type
                         /\ Read(new[k]) = Readable(rsp'.items[k])
           keys == DOMAIN rsp'.items
       IN  /\ \A k \in Keys \ keys : new[k] = old[k]
           /\ rsp'.status = "Ok" => \A k \in keys : applied(k)
           /\ rsp'.status = "Fail" =>
                \E stop \in keys : /\ \A k \in keys : k < stop => applied(k)
                                   /\ \A k \in keys : k > stop => new[k] = old[k]]_vars

(* A value whose bytes are missing is never left behind by a request that answered
   Ok: memory that ran out is always reported. *)
HalfStoredIsReported ==
  [][\A g \in MapNames, k \in Keys :
       /\ Exists(g)' /\ maps'[g][k] # NoEntry /\ HalfStored(maps'[g][k])
       /\ maps'[g][k] # MapOrEmpty(g)[k]
       => rsp'.status = "Fail" /\ k \in DOMAIN rsp'.items]_vars

(* As long as memory lasts, no sequence of requests takes the process down, and no
   read fails: either takes an allocation that fails in that request, or an entry that
   an earlier one left without its bytes. *)
ServesWhileMemoryLasts ==
  [][up /\ (~up' \/ (rsp'.op = "KVGet" /\ rsp'.status = "Fail")) =>
       \/ rsp'.starved
       \/ \E g \in MapNames, k \in Keys :
            Exists(g) /\ maps[g][k] # NoEntry /\ HalfStored(maps[g][k])]_vars
=============================================================================
