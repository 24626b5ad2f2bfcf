-------------------------- MODULE KvHandlerProofs --------------------------
(***************************************************************************)
(* The key-value half of the server, for any keys, groups and values,      *)
(* whether memory lasts or not.  In order: the groups' isolation; the      *)
(* inductive invariant KvInv of the maps, with the types, the variants'    *)
(* tags and the adds; what a get meets; the codec, whose round trip is an  *)
(* induction over the bytes; what the loop of a request stores, and so     *)
(* what a set leaves behind; and what the Python API makes of it.          *)
(*                                                                         *)
(* What says a value reads back assumes clients that createKvMap lets      *)
(* through (ClientsAreWellBehaved).                                        *)
(***************************************************************************)
EXTENDS KvApi, InductionFacts, SequenceTheorems, FiniteSetTheorems

(* There is a map, or none, for the main map and for each group, and no other. *)
MapPerName == maps = [g \in MapNames |-> maps[g]]

(* The clears that reach every group. *)
ClearsOfAll == {"KVClearAll", "KVClearGroups", "KVClearGroupsKeysOnly"}

Apart ==
  up /\ up' =>
    /\ rsp'.op \notin ClearsOfAll => \A g \in MapNames \ {rsp'.group} : maps'[g] = maps[g]
    /\ rsp'.op \in {"KVClearGroups", "KVClearGroupsKeysOnly"} => maps'[Main] = maps[Main]
    /\ rsp'.op = "KVClearGroupsKeysOnly" => \A g \in MapNames : Exists(g)' <=> Exists(g)

-----------------------------------------------------------------------------
(* The recorded response carries the operation and group of its request. *)
LEMMA AnswerNamesItsRequest ==
  \A op, group, status, items :
    Answer(op, group, status, items) => rsp'.op = op /\ rsp'.group = group
  BY DEF Answer, NoAnswer

(* The map of an empty group is a map. *)
LEMMA EmptyMapIsNoMissingGroup == EmptyMap # NoGroup
<1>1. EmptyMap \in [Keys -> CachedValue \cup {NoEntry}]
  BY DEF EmptyMap
<1>2. QED
  BY <1>1, KvConstants

(* A group that could not be created leaves everything as it was. *)
LEMMA StarvedGroups ==
  ASSUME NEW op, NEW group, NEW items, GroupStarved(op, group, items)
  PROVE  /\ maps' = maps /\ up /\ up' /\ maps[group] = NoGroup
         /\ Answer(op, group, "Fail", items)
         /\ rsp'.op = op /\ rsp'.group = group /\ rsp'.status = "Fail"
  BY DEF GroupStarved, Answer, NoAnswer, Exists

(* Handlers that only read. *)
LEMMA UnchangedKeepsApart == MapPerName /\ maps' = maps => MapPerName' /\ Apart
  BY DEF MapPerName, Apart, Exists

(* A request that replaces the map of the group it names. *)
LEMMA OneMapReplaced ==
  ASSUME MapPerName, NEW group \in MapNames, NEW map,
         maps' = [maps EXCEPT ![group] = map], rsp'.group = group, rsp'.op \notin ClearsOfAll
  PROVE  MapPerName' /\ Apart
<1>1. maps' = [g \in MapNames |-> IF g = group THEN map ELSE maps[g]]
  BY DEF MapPerName
<1>2. MapPerName'
  BY <1>1 DEF MapPerName
<1>3. Apart
  BY <1>1 DEF Apart, ClearsOfAll
<1>4. QED
  BY <1>2, <1>3

(* KVSet and KVAdd: getOrCreateGroup gives the request its own map. *)
LEMMA SetOrAddKeepsApart ==
  ASSUME MapPerName, NEW op \in {"KVSet", "KVAdd"}, NEW group \in MapNames, NEW items,
         NEW isSet, NEW memory, SetOrAddIn(op, group, items, isSet, memory)
  PROVE  MapPerName' /\ Apart
<1> DEFINE map == SetOrAdd(MapOrEmpty(group), items, isSet, memory).map
<1>1. maps' = [maps EXCEPT ![group] = map] /\ rsp'.group = group /\ rsp'.op \notin ClearsOfAll
  BY AnswerNamesItsRequest DEF SetOrAddIn, ClearsOfAll
<1> HIDE DEF map
<1>2. QED
  BY <1>1, OneMapReplaced

(* KVClearSet: a missing group stays missing. *)
LEMMA ClearSetKeepsApart ==
  ASSUME MapPerName, NEW group \in MapNames, NEW items, NEW memory,
         KVClearSet(group, items, memory)
  PROVE  MapPerName' /\ Apart
<1> DEFINE map == SetOrAdd(EmptyMap, items, TRUE, memory).map
<1>1. CASE Exists(group)
  <2>1. maps' = [maps EXCEPT ![group] = map] /\ rsp'.group = group /\ rsp'.op \notin ClearsOfAll
    BY <1>1, AnswerNamesItsRequest DEF KVClearSet, ClearsOfAll
  <2> HIDE DEF map
  <2>2. QED
    BY <2>1, OneMapReplaced
<1>2. CASE ~Exists(group)
  BY <1>2, UnchangedKeepsApart DEF KVClearSet
<1>3. QED
  BY <1>1, <1>2

(* KVRmv removes keys of its own group only. *)
LEMMA RmvKeepsApart ==
  ASSUME MapPerName, NEW group \in MapNames, NEW keys, KVRmv(group, keys)
  PROVE  MapPerName' /\ Apart
<1> DEFINE map == [k \in Keys |-> IF k \in keys THEN NoEntry ELSE maps[group][k]]
<1>1. CASE Exists(group)
  <2>1. maps' = [maps EXCEPT ![group] = map] /\ rsp'.group = group /\ rsp'.op \notin ClearsOfAll
    BY <1>1, AnswerNamesItsRequest DEF KVRmv, ClearsOfAll
  <2> HIDE DEF map
  <2>2. QED
    BY <2>1, OneMapReplaced
<1>2. CASE ~Exists(group)
  BY <1>2, UnchangedKeepsApart DEF KVRmv
<1>3. QED
  BY <1>1, <1>2

(* A clear of the groups spares the main map, a clear of one the rest; one of keys only
   ends no group. *)
LEMMA ClearKeepsApart ==
  ASSUME MapPerName, NEW group \in MapNames,
         NEW op \in ClearsOfAll \cup {"KVClearGroup", "KVClearGroupKeysOnly"},
         KVClear(op, group)
  PROVE  MapPerName' /\ Apart
<1>1. /\ maps' = [g \in MapNames |-> maps'[g]]
      /\ \A g \in MapNames : maps'[g] = Cleared(op, group, g)
  BY DEF KVClear
<1>2. rsp'.op = op /\ rsp'.group = group
  BY AnswerNamesItsRequest DEF KVClear
<1>3. CASE op \in ClearsOfAll
  <2>1. op # "KVClearAll" => maps'[Main] = maps[Main]
    BY <1>1, <1>3 DEF Cleared, ClearsOfAll, MapNames
  <2>2. ASSUME op = "KVClearGroupsKeysOnly", NEW g \in MapNames
        PROVE  Exists(g)' <=> Exists(g)
    <3>1. maps'[g] = IF g = Main THEN maps[g] ELSE Emptied(g)
      BY <1>1, <2>2 DEF Cleared
    <3>2. EmptyMap # NoGroup
      BY EmptyMapIsNoMissingGroup
    <3>3. QED
      BY <3>1, <3>2 DEF Exists, Emptied
  <2>3. QED
    BY <1>1, <1>2, <1>3, <2>1, <2>2 DEF MapPerName, Apart
<1>4. CASE op \in {"KVClearGroup", "KVClearGroupKeysOnly"}
  <2>1. \A g \in MapNames \ {group} : maps'[g] = maps[g]
    BY <1>1, <1>4 DEF Cleared
  <2>2. QED
    BY <1>1, <1>2, <1>4, <2>1 DEF MapPerName, Apart, ClearsOfAll
<1>5. QED
  BY <1>3, <1>4

(* A process that dies leaves nothing, and answers nothing. *)
LEMMA DeathKeepsApart == \A starved : Die(starved) => MapPerName' /\ Apart
  BY DEF Die, MapPerName, Apart

(* KVGet, KVCount and KVContains do not change a map. *)
LEMMA ReadsKeepApart ==
  ASSUME MapPerName, NEW group \in MapNames, NEW keys, NEW starved,
         \/ KVGet(group, keys) \/ KVGetFails(group, keys, starved) \/ KVGetAllOfMain
         \/ KVCount(group) \/ KVContains(group, keys) \/ Restart
  PROVE  MapPerName' /\ Apart
<1>1. maps' = maps
  BY DEF KVGet, KVGetFails, KVGetAllOfMain, KVCount, KVContains, Restart
<1>2. QED
  BY <1>1, UnchangedKeepsApart

(* Every step keeps a map per name and the other maps of a request untouched. *)
LEMMA StepKeepsApart == MapPerName /\ [Next]_vars => MapPerName' /\ Apart
<1> SUFFICES ASSUME MapPerName, [Next]_vars PROVE MapPerName' /\ Apart
  OBVIOUS
<1>1. CASE UNCHANGED vars
  BY <1>1, UnchangedKeepsApart DEF vars
<1>2. CASE Restart \/ KVGetAllOfMain
  BY <1>2, UnchangedKeepsApart DEF Restart, KVGetAllOfMain
<1>3. CASE AnswerStarved
  BY <1>3, DeathKeepsApart DEF AnswerStarved
<1>4. CASE \E op \in {"KVClearAll", "KVClearGroups", "KVClearGroupsKeysOnly"} : KVClear(op, Main)
  BY <1>4, ClearKeepsApart DEF ClearsOfAll, MapNames
<1>5. CASE \E group \in Groups, op \in {"KVClearGroup", "KVClearGroupKeysOnly"} : KVClear(op, group)
  BY <1>5, ClearKeepsApart DEF MapNames
<1>6. ASSUME NEW group \in MapNames, NEW keys \in SUBSET Keys,
             \/ KVCount(group) \/ KVGet(group, keys) \/ KVContains(group, keys)
             \/ \E starved \in BOOLEAN : KVGetFails(group, keys, starved)
      PROVE  MapPerName' /\ Apart
  BY <1>6, ReadsKeepApart
<1>7. ASSUME NEW group \in MapNames, NEW keys \in SUBSET Keys, KVGetUndefined(group, keys)
      PROVE  MapPerName' /\ Apart
  BY <1>7, DeathKeepsApart DEF KVGetUndefined
<1>8. ASSUME NEW group \in MapNames, NEW keys \in SUBSET Keys, KVRmv(group, keys)
      PROVE  MapPerName' /\ Apart
  BY <1>8, RmvKeepsApart
<1>9. ASSUME NEW group \in MapNames, NEW items \in Items, NEW memory \in Starvations(items),
             KVSet(group, items, memory) \/ KVAdd(group, items, memory)
      PROVE  MapPerName' /\ Apart
  BY <1>9, SetOrAddKeepsApart DEF KVSet, KVAdd
<1>10. ASSUME NEW group \in MapNames, NEW items \in Items, NEW memory \in Starvations(items),
              KVClearSet(group, items, memory)
       PROVE  MapPerName' /\ Apart
  BY <1>10, ClearSetKeepsApart
<1>11. ASSUME NEW op, NEW group, NEW items, GroupStarved(op, group, items)
       PROVE  MapPerName' /\ Apart
  BY <1>11, StarvedGroups, UnchangedKeepsApart
<1>12. QED
  BY <1>1, <1>2, <1>3, <1>4, <1>5, <1>6, <1>7, <1>8, <1>9, <1>10, <1>11 DEF Next

-----------------------------------------------------------------------------
(* There is never a map besides the main map and those of the groups. *)
LEMMA AlwaysMapPerName == Spec => []MapPerName
<1>1. Init => MapPerName
  BY DEF Init, MapPerName
<1>2. MapPerName /\ [Next]_vars => MapPerName'
  BY StepKeepsApart
<1>3. QED
  BY <1>1, <1>2, PTL DEF Spec

(* A request for one group leaves every other map as it was, whether it succeeds or
   fails half-way; only the clears of all groups reach further, and those of the groups
   spare the main map. *)
THEOREM GroupsStayApart == Spec => GroupsAreApart
<1>1. MapPerName /\ [Next]_vars =>
        [up /\ up' =>
           /\ rsp'.op \notin {"KVClearAll", "KVClearGroups", "KVClearGroupsKeysOnly"} =>
                \A g \in MapNames \ {rsp'.group} : maps'[g] = maps[g]
           /\ rsp'.op \in {"KVClearGroups", "KVClearGroupsKeysOnly"} => maps'[Main] = maps[Main]
           /\ rsp'.op = "KVClearGroupsKeysOnly" =>
                \A g \in MapNames : Exists(g)' <=> Exists(g)]_vars
  BY StepKeepsApart DEF Apart, ClearsOfAll
<1>2. QED
  BY <1>1, AlwaysMapPerName, PTL DEF Spec, GroupsAreApart

-----------------------------------------------------------------------------
(* The inductive invariant of the maps: every entry is a cached value whose tag names
   the alternative its variant holds. *)
GoodEntries == {entry \in CachedValue : ~Throws(entry)} \cup {NoEntry}
GoodMaps == [Keys -> GoodEntries]
MapsInv == maps \in [MapNames -> GoodMaps \cup {NoGroup}] /\ Exists(Main)
RspInv ==
  /\ up \in BOOLEAN /\ (~up => rsp.op = "None")
  /\ rsp.group \in MapNames /\ rsp.count \in Nat
  /\ rsp.status \in {"None", "Ok", "Fail", "NotPermitted"}
KvInv == MapsInv /\ RspInv

LEMMA GoodMapsAreMaps == GoodMaps \subseteq [Keys -> CachedValue \cup {NoEntry}] /\ NoGroup \notin GoodMaps
  BY KvConstants DEF GoodMaps, GoodEntries

LEMMA EmptyMapIsGood == EmptyMap \in GoodMaps
  BY DEF EmptyMap, GoodMaps, GoodEntries

(* An entry made for a value is a cached value. *)
LEMMA EntriesAreCached ==
  ASSUME NEW value \in Values, Supported(value), NEW stored
  PROVE  FixedEntry(value) \in CachedValue /\ VecEntry(value, stored) \in CachedValue
<1> DEFINE data == Encode(value)
<1>1. /\ value.type \in FixedTypes \cup VecTypes
      /\ data \in {Encode(v) : v \in {w \in Values : Supported(w)}}
  BY DEF Supported
<1>2. FixedEntry(value) =
        [valueType |-> "FIXED", held |-> "FixedValue", type |-> value.type, data |-> data]
  BY DEF FixedEntry
<1>3. VecEntry(value, stored) =
        [valueType |-> "VEC", held |-> "VectorValue", type |-> value.type,
         data |-> IF stored THEN data ELSE <<>>]
  BY DEF VecEntry
<1> HIDE DEF data
<1>4. QED
  BY <1>1, <1>2, <1>3 DEF CachedValue

(* Every way CacheMap::setOrAdd ends leaves the tag and the variant in agreement. *)
LEMMA StoreKeepsEntries ==
  ASSUME NEW entry \in GoodEntries, NEW value \in Values, NEW isSet, NEW at
  PROVE  Store(entry, value, isSet, at).entry \in GoodEntries
<1>1. ASSUME Supported(value), NEW stored
      PROVE  FixedEntry(value) \in GoodEntries /\ VecEntry(value, stored) \in GoodEntries
  BY <1>1, EntriesAreCached DEF GoodEntries, Throws, FixedEntry, VecEntry
<1>2. NoEntry \in GoodEntries
  BY DEF GoodEntries
<1>3. QED
  BY <1>1, <1>2 DEF Store

(* The items of a request are values of its keys. *)
LEMMA ItemsAreValues ==
  ASSUME NEW items \in Items
  PROVE  /\ DOMAIN items \subseteq Keys /\ DOMAIN items # {}
         /\ \A k \in DOMAIN items : items[k] \in Values /\ items[k] \in ValuesFor[k]
<1> DEFINE ItemsOf(keys) == {given \in [keys -> Values] : \A k \in keys : given[k] \in ValuesFor[k]}
<1>1. PICK keys \in (SUBSET Keys) \ {{}} : items \in ItemsOf(keys)
  <2>1. Items = UNION {ItemsOf(keys) : keys \in (SUBSET Keys) \ {{}}}
    BY DEF Items
  <2> HIDE DEF ItemsOf
  <2>2. QED
    BY <2>1
<1>2. QED
  BY <1>1

(* Each key's turn, and the keys whose turn comes. *)
At(memory, k) == IF k = memory.key THEN memory.at ELSE "nowhere"
Stored(map, items, isSet, memory, k) == Store(map[k], items[k], isSet, At(memory, k))
Reached(map, items, isSet, memory) ==
  {k \in DOMAIN items :
     \A j \in DOMAIN items : j < k => Stored(map, items, isSet, memory, j).valid}
AfterItems(map, items, isSet, memory) ==
  [k \in Keys |-> IF k \in Reached(map, items, isSet, memory)
                    THEN Stored(map, items, isSet, memory, k).entry ELSE map[k]]
AllStored(map, items, isSet, memory) ==
  \A k \in DOMAIN items : Stored(map, items, isSet, memory, k).valid

LEMMA SetOrAddIs ==
  ASSUME NEW map, NEW items, NEW isSet, NEW memory
  PROVE  /\ SetOrAdd(map, items, isSet, memory).map = AfterItems(map, items, isSet, memory)
         /\ SetOrAdd(map, items, isSet, memory).valid = AllStored(map, items, isSet, memory)
  BY DEF SetOrAdd, AfterItems, AllStored, Reached, Stored, At

LEMMA SetOrAddKeepsMaps ==
  ASSUME NEW map \in GoodMaps, NEW items \in Items, NEW isSet, NEW memory
  PROVE  SetOrAdd(map, items, isSet, memory).map \in GoodMaps
<1> DEFINE reached == Reached(map, items, isSet, memory)
           entry(k) == Stored(map, items, isSet, memory, k).entry
<1>1. reached \subseteq DOMAIN items
  BY DEF Reached
<1>2. ASSUME NEW k \in reached PROVE entry(k) \in GoodEntries
  <2>1. map[k] \in GoodEntries /\ items[k] \in Values
    BY <1>1, ItemsAreValues DEF GoodMaps
  <2>2. QED
    BY <2>1, StoreKeepsEntries DEF Stored
<1>3. AfterItems(map, items, isSet, memory) = [k \in Keys |-> IF k \in reached THEN entry(k) ELSE map[k]]
  BY DEF AfterItems
<1> HIDE DEF reached, entry
<1>4. AfterItems(map, items, isSet, memory) \in GoodMaps
  BY <1>2, <1>3 DEF GoodMaps
<1>5. QED
  BY <1>4, SetOrAddIs

-----------------------------------------------------------------------------
(* The map of a name, or the empty map that getOrCreateGroup would make. *)
LEMMA MapOrEmptyIsGood ==
  ASSUME MapsInv, NEW group \in MapNames
  PROVE  MapOrEmpty(group) \in GoodMaps /\ (Exists(group) => maps[group] \in GoodMaps)
  BY EmptyMapIsGood DEF MapsInv, MapOrEmpty, Exists

(* What a request answers. *)
LEMMA AnswerIsTyped ==
  ASSUME NEW op, NEW group \in MapNames, NEW items,
         NEW status \in {"None", "Ok", "Fail", "NotPermitted"},
         Answer(op, group, status, items), up' \in BOOLEAN, up'
  PROVE  RspInv'
  BY DEF Answer, NoAnswer, RspInv

LEMMA OneMapKeepsMaps ==
  ASSUME MapsInv, NEW group \in MapNames, NEW map \in GoodMaps, maps' = [maps EXCEPT ![group] = map]
  PROVE  MapsInv'
  BY GoodMapsAreMaps DEF MapsInv, Exists

LEMMA SetOrAddInKeepsInv ==
  ASSUME KvInv, NEW op, NEW group \in MapNames, NEW items \in Items, NEW isSet, NEW memory,
         SetOrAddIn(op, group, items, isSet, memory)
  PROVE  KvInv'
<1> DEFINE result == SetOrAdd(MapOrEmpty(group), items, isSet, memory)
           map == result.map
           status == Status(result.valid)
<1>1. map \in GoodMaps
  BY MapOrEmptyIsGood, SetOrAddKeepsMaps DEF KvInv
<1>2. status \in {"None", "Ok", "Fail", "NotPermitted"}
  BY DEF Status
<1>3. maps' = [maps EXCEPT ![group] = map] /\ Answer(op, group, status, items) /\ up /\ up' = up
  BY DEF SetOrAddIn
<1> HIDE DEF map, status
<1>4. MapsInv'
  BY <1>1, <1>3, OneMapKeepsMaps DEF KvInv
<1>5. RspInv'
  BY <1>2, <1>3, AnswerIsTyped DEF KvInv, RspInv
<1>6. QED
  BY <1>4, <1>5 DEF KvInv

LEMMA ClearSetKeepsInv ==
  ASSUME KvInv, NEW group \in MapNames, NEW items \in Items, NEW memory,
         KVClearSet(group, items, memory)
  PROVE  KvInv'
<1> DEFINE result == SetOrAdd(EmptyMap, items, TRUE, memory)
           map == result.map
           status == IF Exists(group) THEN Status(result.valid) ELSE "Fail"
<1>1. map \in GoodMaps
  BY EmptyMapIsGood, SetOrAddKeepsMaps
<1>2. status \in {"None", "Ok", "Fail", "NotPermitted"}
  BY DEF Status
<1>3. /\ maps' = maps \/ maps' = [maps EXCEPT ![group] = map]
      /\ Answer("KVClearSet", group, status, items) /\ up /\ up' = up
  BY DEF KVClearSet
<1> HIDE DEF map, status
<1>4. MapsInv'
  BY <1>1, <1>3, OneMapKeepsMaps DEF KvInv, MapsInv, Exists
<1>5. RspInv'
  BY <1>2, <1>3, AnswerIsTyped DEF KvInv, RspInv
<1>6. QED
  BY <1>4, <1>5 DEF KvInv

LEMMA RmvKeepsInv ==
  ASSUME KvInv, NEW group \in MapNames, NEW keys, KVRmv(group, keys)
  PROVE  KvInv'
<1> DEFINE map == [k \in Keys |-> IF k \in keys THEN NoEntry ELSE maps[group][k]]
<1>1. ASSUME Exists(group) PROVE map \in GoodMaps
  BY <1>1, MapOrEmptyIsGood DEF KvInv, GoodMaps, GoodEntries
<1>2. /\ maps' = IF Exists(group) THEN [maps EXCEPT ![group] = map] ELSE maps
      /\ Answer("KVRmv", group, "Ok", NoItems) /\ up /\ up' = up
  BY DEF KVRmv
<1> HIDE DEF map
<1>3. MapsInv'
  BY <1>1, <1>2, OneMapKeepsMaps DEF KvInv, MapsInv, Exists
<1>4. RspInv'
  BY <1>2, AnswerIsTyped DEF KvInv, RspInv
<1>5. QED
  BY <1>3, <1>4 DEF KvInv

(* No clear removes the main map. *)
LEMMA ClearKeepsInv ==
  ASSUME KvInv, NEW group \in MapNames,
         NEW op \in ClearsOfAll \cup {"KVClearGroup", "KVClearGroupKeysOnly"},
         group = Main => op \in ClearsOfAll, KVClear(op, group)
  PROVE  KvInv'
<1>1. maps' = [g \in MapNames |-> Cleared(op, group, g)]
  BY DEF KVClear
<1>2. EmptyMap # NoGroup
  BY EmptyMapIsGood, GoodMapsAreMaps
<1>3. ASSUME NEW g \in MapNames
      PROVE  Cleared(op, group, g) \in {EmptyMap, NoGroup, maps[g]}
  BY DEF Cleared, Emptied, ClearsOfAll
<1>4. Cleared(op, group, Main) # NoGroup
  BY <1>2 DEF Cleared, Emptied, ClearsOfAll, KvInv, MapsInv, Exists
<1>5. MapsInv'
  <2>1. Main \in MapNames
    BY DEF MapNames
  <2>2. \A g \in MapNames : Cleared(op, group, g) \in GoodMaps \cup {NoGroup}
    BY <1>3, EmptyMapIsGood DEF KvInv, MapsInv
  <2>3. QED
    BY <1>1, <1>4, <2>1, <2>2 DEF MapsInv, Exists
<1>6. RspInv'
  BY AnswerIsTyped DEF KVClear, KvInv, RspInv
<1>7. QED
  BY <1>5, <1>6 DEF KvInv

(* A dead process, and the next one, are empty. *)
LEMMA FreshMapsKeepInv ==
  ASSUME maps' = [g \in MapNames |-> IF g = Main THEN EmptyMap ELSE NoGroup]
  PROVE  MapsInv'
<1>1. Main \in MapNames
  BY DEF MapNames
<1>2. QED
  BY <1>1, EmptyMapIsGood, GoodMapsAreMaps DEF MapsInv, Exists

LEMMA DeathKeepsInv == \A starved : Die(starved) => KvInv'
<1> SUFFICES ASSUME NEW starved, Die(starved) PROVE KvInv'
  OBVIOUS
<1>1. MapsInv'
  BY FreshMapsKeepInv DEF Die
<1>2. RspInv'
  BY DEF Die, NoAnswer, RspInv, MapNames
<1>3. QED
  BY <1>1, <1>2 DEF KvInv

(* Reads answer and leave the maps alone. *)
LEMMA ReadsKeepInv ==
  ASSUME KvInv, NEW group \in MapNames, NEW keys \in SUBSET Keys, NEW starved,
         \/ KVGet(group, keys) \/ KVGetFails(group, keys, starved) \/ KVGetAllOfMain
         \/ KVCount(group) \/ KVContains(group, keys) \/ Restart \/ UNCHANGED vars
  PROVE  KvInv'
<1>1. maps' = maps
  BY DEF KVGet, KVGetFails, KVGetAllOfMain, KVCount, KVContains, Restart, vars
<1>2. MapsInv'
  BY <1>1 DEF KvInv, MapsInv, Exists
<1>3. RspInv'
  <2>1. CASE KVGet(group, keys) \/ KVGetFails(group, keys, starved)
    <3>1. /\ up /\ up' = up /\ rsp'.group = group /\ rsp'.count = 0
          /\ rsp'.status \in {"Ok", "Fail"}
      BY <2>1 DEF KVGet, KVGetFails, NoAnswer
    <3>2. QED
      BY <3>1 DEF RspInv, KvInv
  <2>2. CASE KVGetAllOfMain
    BY <2>2, AnswerIsTyped DEF KVGetAllOfMain, RspInv, KvInv, MapNames
  <2>3. CASE KVCount(group)
    <3> DEFINE keysOf == KeysOf(MapOrEmpty(group))
    <3>1. keysOf \subseteq Keys
      BY DEF KeysOf
    <3>2. Cardinality(keysOf) \in Nat
      BY <3>1, KvConstants, FS_Subset, FS_CardinalityType
    <3> HIDE DEF keysOf
    <3>3. QED
      BY <2>3, <3>2 DEF KVCount, NoAnswer, RspInv, KvInv, keysOf
  <2>4. CASE KVContains(group, keys)
    BY <2>4 DEF KVContains, NoAnswer, RspInv, KvInv
  <2>5. CASE Restart
    BY <2>5 DEF Restart, RspInv, KvInv
  <2>6. CASE UNCHANGED vars
    BY <2>6 DEF vars, RspInv, KvInv
  <2>7. QED
    BY <2>1, <2>2, <2>3, <2>4, <2>5, <2>6
<1>4. QED
  BY <1>2, <1>3 DEF KvInv

LEMMA InitKvInv == Init => KvInv
<1> SUFFICES ASSUME Init PROVE KvInv
  OBVIOUS
<1>1. Main \in MapNames
  BY DEF MapNames
<1>2. MapsInv
  BY <1>1, EmptyMapIsGood, GoodMapsAreMaps DEF Init, MapsInv, Exists
<1>3. RspInv
  BY <1>1 DEF Init, NoAnswer, RspInv
<1>4. QED
  BY <1>2, <1>3 DEF KvInv

LEMMA StepKvInv == KvInv /\ [Next]_vars => KvInv'
<1> SUFFICES ASSUME KvInv, [Next]_vars PROVE KvInv'
  OBVIOUS
<1>0. Main \in MapNames /\ Groups \subseteq MapNames /\ Main \notin Groups
  BY KvConstants DEF MapNames
<1>1. CASE UNCHANGED vars
  BY <1>1, <1>0, ReadsKeepInv
<1>2. CASE Restart \/ KVGetAllOfMain
  BY <1>2, <1>0, ReadsKeepInv
<1>3. CASE AnswerStarved
  BY <1>3, DeathKeepsInv DEF AnswerStarved
<1>4. ASSUME NEW op \in {"KVClearAll", "KVClearGroups", "KVClearGroupsKeysOnly"}, KVClear(op, Main)
      PROVE  KvInv'
  BY <1>0, <1>4, ClearKeepsInv DEF ClearsOfAll
<1>5. ASSUME NEW group \in Groups, NEW op \in {"KVClearGroup", "KVClearGroupKeysOnly"},
             KVClear(op, group)
      PROVE  KvInv'
  BY <1>0, <1>5, ClearKeepsInv
<1>6. ASSUME NEW group \in MapNames, NEW keys \in SUBSET Keys,
             \/ KVCount(group) \/ KVGet(group, keys) \/ KVContains(group, keys)
             \/ \E starved \in BOOLEAN : KVGetFails(group, keys, starved)
      PROVE  KvInv'
  BY <1>6, ReadsKeepInv
<1>7. ASSUME NEW group \in MapNames, NEW keys \in SUBSET Keys, KVGetUndefined(group, keys)
      PROVE  KvInv'
  BY <1>7, DeathKeepsInv DEF KVGetUndefined
<1>8. ASSUME NEW group \in MapNames, NEW keys \in SUBSET Keys, KVRmv(group, keys)
      PROVE  KvInv'
  BY <1>8, RmvKeepsInv
<1>9. ASSUME NEW group \in MapNames, NEW items \in Items, NEW memory \in Starvations(items),
             KVSet(group, items, memory) \/ KVAdd(group, items, memory)
      PROVE  KvInv'
  BY <1>9, SetOrAddInKeepsInv DEF KVSet, KVAdd
<1>10. ASSUME NEW group \in MapNames, NEW items \in Items, NEW memory \in Starvations(items),
              KVClearSet(group, items, memory)
       PROVE  KvInv'
  BY <1>10, ClearSetKeepsInv
<1>11. ASSUME NEW op, NEW group \in MapNames, NEW items, GroupStarved(op, group, items)
       PROVE  KvInv'
  <2>1. MapsInv'
    BY <1>11, StarvedGroups DEF KvInv, MapsInv, Exists
  <2>2. RspInv'
    BY <1>11, StarvedGroups, AnswerIsTyped DEF GroupStarved, KvInv, RspInv
  <2>3. QED
    BY <2>1, <2>2 DEF KvInv
<1>12. QED
  BY <1>1, <1>2, <1>3, <1>4, <1>5, <1>6, <1>7, <1>8, <1>9, <1>10, <1>11 DEF Next

LEMMA AlwaysKvInv == Spec => []KvInv
  BY InitKvInv, StepKvInv, PTL DEF Spec

(* Every map keeps keys of cached values only, and the main map never goes away. *)
THEOREM KvTypesAreKept == Spec => []TypeOK
<1>1. KvInv => TypeOK
  BY GoodMapsAreMaps DEF KvInv, MapsInv, RspInv, TypeOK
<1>2. QED
  BY <1>1, AlwaysKvInv, PTL

(* However a key's values changed kind, and whatever failed on the way, no get throws
   on what is there. *)
THEOREM TagsMatchVariants == Spec => []TagMatchesVariant
<1>1. KvInv => TagMatchesVariant
  BY DEF KvInv, MapsInv, TagMatchesVariant, Exists, GoodMaps, GoodEntries, KeysOf
<1>2. QED
  BY <1>1, AlwaysKvInv, PTL

-----------------------------------------------------------------------------
(* A request that replaces one map leaves the others, and puts the items' outcome in
   its own. *)
LEMMA SetOrAddInMaps ==
  ASSUME KvInv, NEW op, NEW group \in MapNames, NEW items \in Items, NEW isSet, NEW memory,
         SetOrAddIn(op, group, items, isSet, memory)
  PROVE  /\ maps'[group] = AfterItems(MapOrEmpty(group), items, isSet, memory)
         /\ \A g \in MapNames \ {group} : maps'[g] = maps[g]
         /\ rsp'.op = op /\ rsp'.group = group /\ rsp'.items = items
         /\ rsp'.status = Status(AllStored(MapOrEmpty(group), items, isSet, memory))
         /\ up /\ up'
<1> DEFINE result == SetOrAdd(MapOrEmpty(group), items, isSet, memory)
<1>1. /\ result.map = AfterItems(MapOrEmpty(group), items, isSet, memory)
      /\ result.valid = AllStored(MapOrEmpty(group), items, isSet, memory)
  BY SetOrAddIs
<1>2. /\ maps' = [maps EXCEPT ![group] = result.map] /\ up /\ up' = up
      /\ Answer(op, group, Status(result.valid), items)
  BY DEF SetOrAddIn
<1> HIDE DEF result
<1>3. DOMAIN maps = MapNames
  BY DEF KvInv, MapsInv
<1>4. rsp'.op = op /\ rsp'.group = group /\ rsp'.items = items /\ rsp'.status = Status(result.valid)
  BY <1>2 DEF Answer, NoAnswer
<1>5. QED
  BY <1>1, <1>2, <1>3, <1>4

(* An add finds an entry and keeps it, or makes one. *)
LEMMA AddKeepsEntries ==
  ASSUME KvInv, NEW group \in MapNames, NEW items \in Items, NEW memory,
         KVAdd(group, items, memory), NEW g \in MapNames, Exists(g), NEW k \in KeysOf(maps[g])
  PROVE  maps'[g][k] = maps[g][k]
<1> DEFINE map == MapOrEmpty(group)
<1>1. /\ maps'[group] = AfterItems(map, items, FALSE, memory)
      /\ \A h \in MapNames \ {group} : maps'[h] = maps[h]
  BY SetOrAddInMaps DEF KVAdd
<1>2. CASE g = group
  <2>1. map = maps[g] /\ k \in Keys /\ map[k] # NoEntry
    BY <1>2 DEF MapOrEmpty, KeysOf
  <2> HIDE DEF map
  <2>2. AfterItems(map, items, FALSE, memory)[k] = map[k]
    BY <2>1 DEF AfterItems, Stored, Store
  <2>3. QED
    BY <1>1, <1>2, <2>1, <2>2
<1>3. CASE g # group
  BY <1>1, <1>3
<1>4. QED
  BY <1>2, <1>3

(* The requests that store values answer with operations of their own; one whose group
   cannot be created does nothing and fails. *)
Stores == {"KVSet", "KVAdd", "KVClearSet"}

LEMMA StoresByName ==
  ASSUME KvInv, Next, rsp'.op \in Stores,
         maps' # maps \/ maps'[rsp'.group] # NoGroup \/ rsp'.status # "Fail"
  PROVE  \E group \in MapNames : \E items \in Items : \E memory \in Starvations(items) :
           \/ KVSet(group, items, memory) /\ rsp'.op = "KVSet"
           \/ KVAdd(group, items, memory) /\ rsp'.op = "KVAdd"
           \/ KVClearSet(group, items, memory) /\ rsp'.op = "KVClearSet"
<1> USE DEF Stores
<1>1. CASE Restart \/ KVGetAllOfMain
  BY <1>1, AnswerNamesItsRequest DEF Restart, KVGetAllOfMain, KvInv, RspInv
<1>2. CASE AnswerStarved
  BY <1>2 DEF AnswerStarved, Die, NoAnswer
<1>3. ASSUME NEW op \in ClearsOfAll \cup {"KVClearGroup", "KVClearGroupKeysOnly"},
             NEW group, KVClear(op, group)
      PROVE  FALSE
  BY <1>3, AnswerNamesItsRequest DEF KVClear, ClearsOfAll
<1>4. ASSUME NEW group, NEW keys, NEW starved,
             \/ KVCount(group) \/ KVGet(group, keys) \/ KVContains(group, keys)
             \/ KVGetFails(group, keys, starved)
      PROVE  FALSE
  BY <1>4 DEF KVCount, KVGet, KVContains, KVGetFails, NoAnswer
<1>5. ASSUME NEW group, NEW keys, KVGetUndefined(group, keys) \/ KVRmv(group, keys)
      PROVE  FALSE
  BY <1>5, AnswerNamesItsRequest DEF KVGetUndefined, KVRmv, Die, NoAnswer
<1>6. ASSUME NEW group, NEW items, NEW memory
      PROVE  /\ KVSet(group, items, memory) => rsp'.op = "KVSet"
             /\ KVAdd(group, items, memory) => rsp'.op = "KVAdd"
             /\ KVClearSet(group, items, memory) => rsp'.op = "KVClearSet"
  BY AnswerNamesItsRequest DEF KVSet, KVAdd, SetOrAddIn, KVClearSet
<1> HIDE DEF Stores
<1>7. ASSUME NEW op, NEW group, NEW items, GroupStarved(op, group, items)
      PROVE  FALSE
  BY <1>7, StarvedGroups
<1>8. QED
  BY <1>1, <1>2, <1>3, <1>4, <1>5, <1>6, <1>7 DEF Next, ClearsOfAll

(* An add leaves every key that was there as it was, whether it succeeds or stops
   half-way. *)
THEOREM AddsNeverOverwrite == Spec => AddNeverOverwrites
<1> DEFINE Kept ==
      rsp'.op = "KVAdd" =>
        \A g \in MapNames : Exists(g) => \A k \in KeysOf(maps[g]) : maps'[g][k] = maps[g][k]
<1>1. KvInv /\ [Next]_vars => [Kept]_vars
  <2> SUFFICES ASSUME KvInv, [Next]_vars, rsp'.op = "KVAdd",
                      NEW g \in MapNames, Exists(g), NEW k \in KeysOf(maps[g])
               PROVE  maps'[g][k] = maps[g][k]
    OBVIOUS
  <2>1. CASE Next /\ maps' # maps
    BY <2>1, StoresByName, AddKeepsEntries DEF Stores
  <2>2. CASE maps' = maps
    BY <2>2
  <2>3. QED
    BY <2>1, <2>2 DEF vars
<1>2. QED
  BY <1>1, AlwaysKvInv, PTL DEF Spec, AddNeverOverwrites

-----------------------------------------------------------------------------
(* What a get meets: it throws on no entry, and only one without its bytes is undefined. *)
LEMMA VisitedEntries ==
  ASSUME KvInv, NEW group \in MapNames, NEW keys, NEW k \in Visited(group, keys)
  PROVE  /\ Exists(group) /\ k \in Keys /\ maps[group][k] # NoEntry
         /\ ~Throws(maps[group][k])
<1>1. k \in Keys /\ MapOrEmpty(group)[k] # NoEntry
  BY DEF Visited, KeysOf
<1>2. Exists(group)
  BY <1>1 DEF MapOrEmpty, EmptyMap
<1>3. maps[group] \in GoodMaps
  BY <1>2, MapOrEmptyIsGood DEF KvInv
<1>4. QED
  BY <1>1, <1>2, <1>3 DEF MapOrEmpty, GoodMaps, GoodEntries

(* The steps after which no process is left, or a get has failed. *)
LEMMA FailuresHaveACause ==
  ASSUME KvInv, Next, up, ~up' \/ (rsp'.op = "KVGet" /\ rsp'.status = "Fail")
  PROVE  \/ rsp'.starved
         \/ \E g \in MapNames, k \in Keys :
              Exists(g) /\ maps[g][k] # NoEntry /\ HalfStored(maps[g][k])
<1>1. CASE Restart \/ KVGetAllOfMain
  BY <1>1 DEF Restart, KVGetAllOfMain, Answer, NoAnswer
<1>2. CASE AnswerStarved
  BY <1>2 DEF AnswerStarved, Die, NoAnswer
<1>3. ASSUME NEW op \in ClearsOfAll \cup {"KVClearGroup", "KVClearGroupKeysOnly"},
             NEW group, KVClear(op, group)
      PROVE  FALSE
  BY <1>3, AnswerNamesItsRequest DEF KVClear, ClearsOfAll
<1>4. ASSUME NEW group, NEW keys,
             \/ KVCount(group) \/ KVGet(group, keys) \/ KVContains(group, keys)
             \/ KVRmv(group, keys)
      PROVE  FALSE
  BY <1>4 DEF KVCount, KVGet, KVContains, KVRmv, Answer, NoAnswer
<1>5. ASSUME NEW group \in MapNames, NEW keys, NEW starved \in BOOLEAN,
             KVGetFails(group, keys, starved)
      PROVE  rsp'.starved
  <2>1. rsp'.starved = starved
    BY <1>5 DEF KVGetFails, NoAnswer
  <2>2. starved
    BY <1>5, VisitedEntries DEF KVGetFails
  <2>3. QED
    BY <2>1, <2>2
<1>6. ASSUME NEW group \in MapNames, NEW keys, KVGetUndefined(group, keys)
      PROVE  \E g \in MapNames, k \in Keys :
               Exists(g) /\ maps[g][k] # NoEntry /\ HalfStored(maps[g][k])
  <2>1. PICK k \in Visited(group, keys) : HalfStored(maps[group][k])
    BY <1>6 DEF KVGetUndefined, Undefined
  <2>2. Exists(group) /\ k \in Keys /\ maps[group][k] # NoEntry
    BY VisitedEntries
  <2>3. QED
    BY <2>1, <2>2
<1>7. ASSUME NEW group, NEW items, NEW memory,
             \/ KVSet(group, items, memory) \/ KVAdd(group, items, memory)
             \/ KVClearSet(group, items, memory)
      PROVE  FALSE
  BY <1>7, AnswerNamesItsRequest DEF KVSet, KVAdd, SetOrAddIn, KVClearSet
<1>8. ASSUME NEW op \in {"KVSet", "KVAdd"}, NEW group, NEW items, GroupStarved(op, group, items)
      PROVE  FALSE
  BY <1>8, StarvedGroups
<1>9. QED
  BY <1>1, <1>2, <1>3, <1>4, <1>5, <1>6, <1>7, <1>8 DEF Next, ClearsOfAll

(* As long as memory lasts, no sequence of requests takes the process down or makes a
   get fail: for either an allocation fails now, or an entry lost its bytes before. *)
THEOREM MemoryIsAllItTakes == Spec => ServesWhileMemoryLasts
<1> DEFINE Caused ==
      up /\ (~up' \/ (rsp'.op = "KVGet" /\ rsp'.status = "Fail")) =>
        \/ rsp'.starved
        \/ \E g \in MapNames, k \in Keys :
             Exists(g) /\ maps[g][k] # NoEntry /\ HalfStored(maps[g][k])
<1>1. KvInv /\ [Next]_vars => [Caused]_vars
  BY FailuresHaveACause
<1>2. QED
  BY <1>1, AlwaysKvInv, PTL DEF Spec, ServesWhileMemoryLasts
-----------------------------------------------------------------------------
(* The codec *)

LEMMA SeqBasics ==
  ASSUME NEW s \in Seq(Int)
  PROVE  Len(s) \in Nat /\ s \in [1..Len(s) -> Int] /\ DOMAIN s = 1..Len(s)
  BY LenProperties

(* Two sequences of one length and with the same items are one. *)
LEMMA SameItems ==
  ASSUME NEW s \in Seq(Int), NEW t \in Seq(Int), Len(s) = Len(t),
         \A i \in 1..Len(s) : s[i] = t[i]
  PROVE  s = t
  BY SeqEqual

(* c_str() stops at the first NUL, if there is one. *)
LEMMA CStringStops ==
  ASSUME NEW s \in Seq(Int)
  PROVE  CString(s) \in Seq(Int) /\ Nuls(CString(s)) = {}
<1>1. Len(s) \in Nat /\ DOMAIN s = 1..Len(s)
  BY SeqBasics
<1>2. CASE Nuls(s) = {}
  BY <1>2 DEF CString
<1>3. CASE Nuls(s) # {}
  <2>1. Nuls(s) \in SUBSET Nat
    BY <1>1 DEF Nuls
  <2>2. \E i \in Nuls(s) : \A j \in Nuls(s) : i <= j
    BY <1>3, <2>1, LeastNatural
  <2> DEFINE first == CHOOSE i \in Nuls(s) : \A j \in Nuls(s) : i <= j
  <2>3. first \in Nuls(s) /\ \A j \in Nuls(s) : first <= j
    BY <2>2
  <2>4. CString(s) = SubSeq(s, 1, first - 1)
    BY <1>3 DEF CString
  <2> HIDE DEF first
  <2>5. first \in 1..Len(s)
    BY <1>1, <2>3 DEF Nuls
  <2>6. \A i \in 1..(first - 1) : s[i] \in Int
    BY <1>1, <2>5, SeqBasics
  <2> DEFINE cut == SubSeq(s, 1, first - 1)
  <2>7. /\ cut \in Seq(Int) /\ Len(cut) = first - 1
        /\ \A i \in 1..(first - 1) : cut[i] = s[i]
    BY <2>5, <2>6, SubSeqProperties
  <2> HIDE DEF cut
  <2>8. \A i \in DOMAIN cut : cut[i] # Nul
    <3>1. DOMAIN cut = 1..(first - 1)
      BY <2>7, SeqBasics
    <3>2. ASSUME NEW i \in 1..(first - 1) PROVE s[i] # Nul
      BY <1>1, <2>3, <2>5 DEF Nuls
    <3>3. QED
      BY <2>7, <3>1, <3>2
  <2>9. QED
    BY <2>4, <2>7, <2>8 DEF cut, Nuls
<1>4. QED
  BY <1>2, <1>3

(* extractString finds the NUL that storing the string put behind it. *)
LEMMA CStringComesBack ==
  ASSUME NEW s \in Seq(Int), Nuls(s) = {}
  PROVE  CString(s \o <<Nul>>) = s
<1> DEFINE n == Len(s)
           bytes == s \o <<Nul>>
<1>1. n \in Nat /\ DOMAIN s = 1..n /\ \A i \in 1..n : s[i] \in Int /\ s[i] # Nul
  BY SeqBasics DEF Nuls
<1>2. <<Nul>> \in Seq(Int) /\ Len(<<Nul>>) = 1 /\ <<Nul>>[1] = Nul
  BY DEF Nul
<1>3. /\ bytes \in Seq(Int) /\ Len(bytes) = n + 1
      /\ \A i \in 1..n : bytes[i] = s[i]
      /\ bytes[n + 1] = Nul
  <2> DEFINE last == <<Nul>>
  <2>1. last \in Seq(Int) /\ Len(last) = 1 /\ last[1] = Nul
    BY <1>2
  <2> HIDE DEF last
  <2>2. /\ s \o last \in Seq(Int) /\ Len(s \o last) = Len(s) + Len(last)
        /\ \A i \in 1..(Len(s) + Len(last)) :
             (s \o last)[i] = IF i <= Len(s) THEN s[i] ELSE last[i - Len(s)]
    BY <2>1, ConcatProperties
  <2>3. n + 1 \in 1..(n + 1) /\ (n + 1) - n = 1 /\ ~(n + 1 <= n) /\ 1..n \subseteq 1..(n + 1)
    BY <1>1
  <2>4. QED
    BY <1>1, <2>1, <2>2, <2>3 DEF last
<1> HIDE DEF bytes
<1>4. Nuls(bytes) = {n + 1}
  <2>1. DOMAIN bytes = 1..(n + 1)
    BY <1>3, SeqBasics
  <2>2. \A i \in 1..(n + 1) : i = n + 1 \/ i \in 1..n
    BY <1>1
  <2>3. \A i \in 1..n : bytes[i] # Nul
    BY <1>1, <1>3
  <2>4. n + 1 \in 1..(n + 1)
    BY <1>1
  <2>5. QED
    BY <1>3, <2>1, <2>2, <2>3, <2>4 DEF Nuls
<1>5. CString(bytes) = SubSeq(bytes, 1, n)
  <2>1. (CHOOSE i \in Nuls(bytes) : \A j \in Nuls(bytes) : i <= j) = n + 1
    BY <1>1, <1>4
  <2>2. (n + 1) - 1 = n
    BY <1>1
  <2>3. QED
    BY <1>4, <2>1, <2>2 DEF CString
<1>6. SubSeq(bytes, 1, n) = s
  <2>1. \A i \in 1..n : bytes[i] \in Int
    BY <1>1, <1>3
  <2> DEFINE cut == SubSeq(bytes, 1, n)
  <2>2. cut \in Seq(Int) /\ Len(cut) = n /\ \A i \in 1..n : cut[i] = bytes[i]
    BY <1>1, <2>1, SubSeqProperties
  <2> HIDE DEF cut
  <2>3. cut = s
    BY <1>3, <2>2, SameItems
  <2>4. QED
    BY <2>3 DEF cut
<1>7. QED
  BY <1>5, <1>6 DEF bytes

(* extractBlob takes as many bytes as the length in front says. *)
LEMMA BlobComesBack ==
  ASSUME NEW s \in Seq(Int)
  PROVE  LET bytes == <<Len(s)>> \o s IN SubSeq(bytes, 2, bytes[1] + 1) = s
<1> DEFINE n == Len(s)
           length == <<n>>
           bytes == length \o s
<1>1. n \in Nat /\ \A i \in 1..n : s[i] \in Int
  BY SeqBasics
<1>2. length \in Seq(Int) /\ Len(length) = 1 /\ length[1] = n
  BY <1>1
<1> HIDE DEF length
<1>3. /\ bytes \in Seq(Int) /\ Len(bytes) = 1 + n
      /\ \A i \in 1..(1 + n) : bytes[i] = IF i <= 1 THEN length[i] ELSE s[i - 1]
  <2>1. /\ bytes \in Seq(Int) /\ Len(bytes) = Len(length) + Len(s)
        /\ \A i \in 1..(Len(length) + Len(s)) :
             bytes[i] = IF i <= Len(length) THEN length[i] ELSE s[i - Len(length)]
    BY <1>2, ConcatProperties
  <2> HIDE DEF bytes
  <2>2. QED
    BY <1>2, <2>1
<1> HIDE DEF bytes
<1>4. bytes[1] = n
  BY <1>1, <1>2, <1>3
<1>5. \A i \in 2..(n + 1) : bytes[i] \in Int
  BY <1>1, <1>3
<1> DEFINE cut == SubSeq(bytes, 2, n + 1)
<1>6. cut \in Seq(Int) /\ Len(cut) = n /\ \A i \in 1..n : cut[i] = bytes[2 + i - 1]
  <2>1. /\ cut \in Seq(Int) /\ Len(cut) = IF 2 <= n + 1 THEN (n + 1) - 2 + 1 ELSE 0
        /\ \A i \in 1..((n + 1) - 2 + 1) : cut[i] = bytes[2 + i - 1]
    BY <1>1, <1>5, SubSeqProperties
  <2> HIDE DEF cut
  <2>2. QED
    BY <1>1, <2>1
<1> HIDE DEF cut
<1>7. ASSUME NEW i \in 1..n PROVE cut[i] = s[i]
  <2>1. 2 + i - 1 = i + 1 /\ i + 1 \in 1..(1 + n) /\ ~(i + 1 <= 1) /\ (i + 1) - 1 = i
    BY <1>1
  <2>2. bytes[i + 1] = s[i]
    BY <1>3, <2>1
  <2>3. QED
    BY <1>6, <2>1, <2>2
<1>8. cut = s
  BY <1>6, <1>7, SameItems
<1>9. QED
  BY <1>4, <1>8 DEF cut, bytes, length

-----------------------------------------------------------------------------
(* A vector of strings *)

(* f goes from nothing to all parts, one behind the other. *)
Concatenates(f, parts) ==
  /\ f \in [0..Len(parts) -> Seq(Int)]
  /\ f[0] = <<>>
  /\ \A k \in 1..Len(parts) : f[k] = f[k - 1] \o parts[k]

(* FlattenSeq is such a concatenation. *)
LEMMA FlattenConcatenates ==
  ASSUME NEW parts \in Seq(Seq(Int)), parts # <<>>
  PROVE  \E f : Concatenates(f, parts) /\ FlattenSeq(parts) = f[Len(parts)]
<1> DEFINE n == Len(parts)
           T == Seq(Int)
           step == [a \in T \X (1..n) |-> a[1] \o parts[a[2]]]
           Walk(g) == g = [i \in 1..n |-> IF i = 1 THEN parts[i] ELSE g[i - 1] \o parts[i]]
           flatten == CHOOSE g : Walk(g)
<1>1. n \in Nat \ {0} /\ \A k \in 1..n : parts[k] \in T
  BY EmptySeq, ElementOfSeq
<1>2. <<>> \in T
  BY EmptySeq
<1>3. step \in [T \X (1..n) -> T]
  <2>1. ASSUME NEW a \in T \X (1..n) PROVE a[1] \o parts[a[2]] \in T
    <3>1. a[1] \in T /\ parts[a[2]] \in T
      BY <1>1
    <3>2. QED
      BY <3>1, ConcatProperties
  <2> HIDE DEF T
  <2>2. QED
    BY <2>1
<1>4. PICK f : Iterates(f, n, T, <<>>, step)
  <2> HIDE DEF step, T
  <2>1. n \in Nat
    BY <1>1
  <2> HIDE DEF n
  <2>2. QED
    BY <1>2, <1>3, <2>1, RecursionExists
<1>5. f \in [0..n -> T] /\ f[0] = <<>> /\ \A k \in 1..n : f[k] = step[<<f[k - 1], k>>]
  BY <1>4 DEF Iterates
<1>6. ASSUME NEW k \in 1..n PROVE f[k] = f[k - 1] \o parts[k]
  <2>1. k - 1 \in 0..n
    BY <1>1
  <2>2. <<f[k - 1], k>> \in T \X (1..n)
    BY <1>5, <2>1
  <2>3. step[<<f[k - 1], k>>] = f[k - 1] \o parts[k]
    BY <2>2
  <2> HIDE DEF step
  <2>4. QED
    BY <1>5, <2>3
<1>7. Concatenates(f, parts)
  BY <1>5, <1>6 DEF Concatenates
<1> HIDE DEF step
<1>8. Walk([i \in 1..n |-> f[i]])
  <2> DEFINE g == [i \in 1..n |-> f[i]]
  <2>1. ASSUME NEW i \in 1..n
        PROVE  g[i] = IF i = 1 THEN parts[i] ELSE g[i - 1] \o parts[i]
    <3>1. g[i] = f[i - 1] \o parts[i]
      BY <1>6
    <3>2. CASE i = 1
      <4>1. f[i - 1] = <<>> /\ parts[i] \in T
        BY <1>1, <1>5, <3>2
      <4>2. <<>> \o parts[i] = parts[i]
        BY <4>1, ConcatEmptySeq
      <4> HIDE DEF g
      <4>3. QED
        BY <3>1, <3>2, <4>1, <4>2
    <3>3. CASE i # 1
      <4>1. i - 1 \in 1..n
        BY <1>1, <3>3
      <4>2. g[i - 1] = f[i - 1]
        BY <4>1
      <4> HIDE DEF g
      <4>3. QED
        BY <3>1, <3>3, <4>2
    <3>4. QED
      BY <3>2, <3>3
  <2>2. g = [i \in 1..n |-> g[i]]
    OBVIOUS
  <2> HIDE DEF g
  <2>3. g = [i \in 1..n |-> IF i = 1 THEN parts[i] ELSE g[i - 1] \o parts[i]]
    BY <2>1, <2>2
  <2>4. QED
    BY <2>3 DEF g
<1>9. FlattenSeq(parts) = flatten[n]
  <2>1. ~(n = 0)
    BY <1>1
  <2>2. QED
    BY <2>1 DEF FlattenSeq
<1>10. Walk(flatten)
  <2> HIDE DEF Walk
  <2>1. QED
    BY <1>8
<1> HIDE DEF flatten
<1>11. flatten[n] = f[n]
  <2> DEFINE h == [k \in 0..n |-> IF k = 0 THEN <<>> ELSE flatten[k]]
  <2>1. h[0] = f[0]
    BY <1>1, <1>5
  <2>2. ASSUME NEW k \in 1..n, h[k - 1] = f[k - 1] PROVE h[k] = f[k]
    <3>1. h[k] = flatten[k]
      BY <1>1
    <3>2. flatten[k] = IF k = 1 THEN parts[k] ELSE flatten[k - 1] \o parts[k]
      BY <1>10
    <3>3. CASE k = 1
      <4>1. f[k - 1] = <<>> /\ parts[k] \in T
        BY <1>1, <1>5, <3>3
      <4>2. <<>> \o parts[k] = parts[k]
        BY <4>1, ConcatEmptySeq
      <4> HIDE DEF h, Walk
      <4>3. QED
        BY <1>6, <3>1, <3>2, <3>3, <4>1, <4>2
    <3>4. CASE k # 1
      <4>1. h[k - 1] = flatten[k - 1]
        BY <1>1, <3>4
      <4> HIDE DEF h, Walk
      <4>2. QED
        BY <1>6, <2>2, <3>1, <3>2, <3>4, <4>1
    <3>5. QED
      BY <3>3, <3>4
  <2>3. h[n] = flatten[n] /\ n \in 0..n /\ n \in Nat
    BY <1>1
  <2> HIDE DEF h, n, Walk
  <2>4. GoOnAlike(h, f, n)
    BY <2>1, <2>2 DEF GoOnAlike
  <2>5. \A k \in 0..n : h[k] = f[k]
    BY <2>3, <2>4, RecursionUnique
  <2>6. QED
    BY <2>3, <2>5
<1>12. QED
  BY <1>7, <1>9, <1>11

(* The strings, each with its NUL. *)
Terminated(strings) == [i \in DOMAIN strings |-> Append(strings[i], Nul)]

LEMMA TerminatedParts ==
  ASSUME NEW strings \in Seq(Seq(Int \ {Nul}))
  PROVE  /\ Terminated(strings) \in Seq(Seq(Int)) /\ Len(Terminated(strings)) = Len(strings)
         /\ Len(strings) \in Nat /\ DOMAIN strings = 1..Len(strings)
         /\ \A k \in 1..Len(strings) :
              /\ strings[k] \in Seq(Int) /\ Len(strings[k]) \in Nat
              /\ \A i \in 1..Len(strings[k]) : strings[k][i] \in Int /\ strings[k][i] # Nul
              /\ Terminated(strings)[k] \in Seq(Int)
              /\ Len(Terminated(strings)[k]) = Len(strings[k]) + 1
              /\ \A i \in 1..Len(strings[k]) : Terminated(strings)[k][i] = strings[k][i]
              /\ Terminated(strings)[k][Len(strings[k]) + 1] = Nul
<1> DEFINE n == Len(strings)
           T == Seq(Int)
<1>1. n \in Nat /\ DOMAIN strings = 1..n
  BY LenProperties
<1>2. ASSUME NEW k \in 1..n
      PROVE  /\ strings[k] \in T /\ Len(strings[k]) \in Nat
             /\ \A i \in 1..Len(strings[k]) : strings[k][i] \in Int /\ strings[k][i] # Nul
             /\ Append(strings[k], Nul) \in T
             /\ Len(Append(strings[k], Nul)) = Len(strings[k]) + 1
             /\ \A i \in 1..Len(strings[k]) : Append(strings[k], Nul)[i] = strings[k][i]
             /\ Append(strings[k], Nul)[Len(strings[k]) + 1] = Nul
  <2> DEFINE s == strings[k]
  <2>1. s \in Seq(Int \ {Nul})
    BY ElementOfSeq
  <2> HIDE DEF s
  <2>2. s \in Seq(Int) /\ Len(s) \in Nat
    BY <2>1, SeqMonotonic, LenProperties
  <2>3. \A i \in 1..Len(s) : s[i] \in Int \ {Nul}
    BY <2>1, ElementOfSeq
  <2>4. Nul \in Int
    BY DEF Nul
  <2>5. /\ Append(s, Nul) \in Seq(Int) /\ Len(Append(s, Nul)) = Len(s) + 1
        /\ \A i \in 1..Len(s) : Append(s, Nul)[i] = s[i]
        /\ Append(s, Nul)[Len(s) + 1] = Nul
    BY <2>2, <2>4, AppendProperties
  <2>6. QED
    BY <2>2, <2>3, <2>5 DEF s
<1>3. Terminated(strings) = [k \in 1..n |-> Append(strings[k], Nul)]
  BY <1>1 DEF Terminated
<1>4. Terminated(strings) \in [1..n -> T]
  <2> HIDE DEF T, n
  <2>1. QED
    BY <1>2, <1>3
<1>5. Terminated(strings) \in Seq(T) /\ Len(Terminated(strings)) = n
  <2> DEFINE t == Terminated(strings)
  <2> HIDE DEF T, n, t
  <2>1. t \in [1..n -> T] /\ n \in Nat
    BY <1>1, <1>4 DEF t
  <2>2. t \in Seq(T)
    BY <2>1, SeqDef
  <2>3. Len(t) = n
    BY <2>1, <2>2, LenProperties
  <2>4. QED
    BY <2>2, <2>3 DEF t
<1>6. QED
  BY <1>1, <1>2, <1>3, <1>5

(* "after" is "before", then the string s, then its NUL. *)
PutsBehind(before, s, after) ==
  /\ Len(before) \in Nat /\ Len(s) \in Nat /\ Len(after) = Len(before) + Len(s) + 1
  /\ \A i \in 1..Len(before) : after[i] = before[i]
  /\ \A i \in 1..Len(s) : after[Len(before) + i] = s[i]
  /\ after[Len(after)] = Nul

LEMMA OneMoreString ==
  ASSUME NEW strings \in Seq(Seq(Int \ {Nul})), NEW f, Concatenates(f, Terminated(strings)),
         NEW k \in 1..Len(strings)
  PROVE  PutsBehind(f[k - 1], strings[k], f[k])
<1> DEFINE before == f[k - 1]
           part == Terminated(strings)[k]
           m == Len(before)
           l == Len(strings[k])
<1>1. /\ part \in Seq(Int) /\ Len(part) = l + 1 /\ l \in Nat
      /\ \A i \in 1..l : part[i] = strings[k][i]
      /\ part[l + 1] = Nul
      /\ Len(strings) \in Nat /\ Len(Terminated(strings)) = Len(strings)
  BY TerminatedParts
<1>2. k - 1 \in 0..Len(strings) /\ k \in 1..Len(Terminated(strings))
  BY <1>1
<1>3. before \in Seq(Int) /\ m \in Nat
  BY <1>1, <1>2, SeqBasics DEF Concatenates
<1>4. f[k] = before \o part
  BY <1>2 DEF Concatenates
<1> HIDE DEF before, part
<1>5. /\ Len(f[k]) = m + (l + 1)
      /\ \A i \in 1..(m + (l + 1)) : f[k][i] = IF i <= m THEN before[i] ELSE part[i - m]
  <2>1. /\ Len(before \o part) = Len(before) + Len(part)
        /\ \A i \in 1..(Len(before) + Len(part)) :
             (before \o part)[i] = IF i <= Len(before) THEN before[i] ELSE part[i - Len(before)]
    <3>1. before \in Seq(Int) /\ part \in Seq(Int)
      BY <1>1, <1>3
    <3>2. QED
      BY <3>1, ConcatProperties
  <2>2. QED
    BY <1>1, <1>4, <2>1
<1> HIDE DEF m, l
<1>6. \A i \in 1..m : f[k][i] = before[i]
  BY <1>1, <1>3, <1>5
<1>7. ASSUME NEW i \in 1..l PROVE f[k][m + i] = strings[k][i]
  <2>1. m + i \in 1..(m + (l + 1)) /\ ~(m + i <= m) /\ (m + i) - m = i
    BY <1>1, <1>3
  <2>2. QED
    BY <1>1, <1>5, <2>1
<1>8. f[k][m + (l + 1)] = Nul
  <2>1. m + (l + 1) \in 1..(m + (l + 1)) /\ ~(m + (l + 1) <= m) /\ (m + (l + 1)) - m = l + 1
    BY <1>1, <1>3
  <2>2. QED
    BY <1>1, <1>5, <2>1
<1>9. m + (l + 1) = m + l + 1
  BY <1>1, <1>3
<1>10. QED
  BY <1>1, <1>3, <1>5, <1>6, <1>7, <1>8, <1>9 DEF before, m, l, PutsBehind

(* What is there when k strings are in stays as it is. *)
LEMMA StringsStay ==
  ASSUME NEW strings \in Seq(Seq(Int \ {Nul})), NEW f, Concatenates(f, Terminated(strings)),
         NEW k \in 0..Len(strings)
  PROVE  LET bytes == f[Len(strings)]
         IN  Len(f[k]) <= Len(bytes) /\ \A i \in 1..Len(f[k]) : bytes[i] = f[k][i]
<1> DEFINE n == Len(strings)
           bytes == f[n]
           Stays(j) == Len(f[j]) <= Len(bytes) /\ \A i \in 1..Len(f[j]) : bytes[i] = f[j][i]
           S == {d \in 0..n : Stays(n - d)}
<1>1. n \in Nat /\ Len(Terminated(strings)) = n
  BY TerminatedParts
<1>2. \A j \in 0..n : f[j] \in Seq(Int) /\ Len(f[j]) \in Nat
  BY <1>1, SeqBasics DEF Concatenates
<1>3. 0 \in S
  BY <1>1, <1>2
<1>4. ASSUME NEW d \in 0..(n - 1), d \in S PROVE d + 1 \in S
  <2> DEFINE j == n - d
  <2>1. j \in 1..n /\ n - (d + 1) = j - 1 /\ d + 1 \in 0..n /\ j - 1 \in 0..n /\ j \in 0..n
    BY <1>1
  <2>2. Stays(j)
    BY <1>4
  <2> HIDE DEF j
  <2>3. PutsBehind(f[j - 1], strings[j], f[j])
    BY <2>1, OneMoreString
  <2> HIDE DEF bytes, n
  <2>5. Len(bytes) \in Nat
    BY <1>1, <1>2 DEF bytes
  <2>6. Stays(j - 1)
    <3> DEFINE g == f[j - 1]
               h == f[j]
               r == Len(g)
    <3>1. r \in Nat /\ Len(h) \in Nat /\ r <= Len(h) /\ \A i \in 1..r : h[i] = g[i]
      <4> HIDE DEF g, h
      <4>1. PutsBehind(g, strings[j], h)
        BY <2>3 DEF g, h
      <4>2. QED
        BY <4>1 DEF PutsBehind
    <3>2. Len(h) <= Len(bytes) /\ \A i \in 1..Len(h) : bytes[i] = h[i]
      BY <2>2
    <3> HIDE DEF g, h, r
    <3>3. r <= Len(bytes) /\ \A i \in 1..r : bytes[i] = g[i]
      BY <2>5, <3>1, <3>2
    <3>4. QED
      BY <3>3 DEF g, r
  <2>7. QED
    BY <2>1, <2>6
<1> HIDE DEF S
<1>5. \A d \in 0..n : d \in S
  <2> HIDE DEF n
  <2>1. QED
    BY <1>1, <1>3, <1>4, BoundedInduction
<1>6. n - k \in 0..n /\ n - (n - k) = k
  BY <1>1
<1>7. n - k \in S
  BY <1>5, <1>6
<1>8. Stays(n - (n - k))
  BY <1>7 DEF S
<1>9. QED
  BY <1>6, <1>8

(* After k strings there are k NULs, each behind its string. *)
HasNulPerString(f, k) ==
  /\ IsFiniteSet(Nuls(f[k])) /\ Cardinality(Nuls(f[k])) = k
  /\ Nuls(f[k]) = {Len(f[j]) : j \in 1..k}
  /\ Nuls(f[k]) \subseteq 1..Len(f[k])

LEMMA NulsOfStrings ==
  ASSUME NEW strings \in Seq(Seq(Int \ {Nul})), NEW f, Concatenates(f, Terminated(strings)),
         NEW k \in 0..Len(strings)
  PROVE  HasNulPerString(f, k)
<1> DEFINE n == Len(strings)
           Has(j) == /\ IsFiniteSet(Nuls(f[j])) /\ Cardinality(Nuls(f[j])) = j
                     /\ Nuls(f[j]) = {Len(f[i]) : i \in 1..j}
           S == {j \in 0..n : Has(j)}
<1>1. n \in Nat /\ Len(Terminated(strings)) = n
  BY TerminatedParts
<1>2. \A j \in 0..n : f[j] \in Seq(Int) /\ Len(f[j]) \in Nat /\ DOMAIN f[j] = 1..Len(f[j])
  BY <1>1, SeqBasics DEF Concatenates
<1>3. \A j \in 0..n : Nuls(f[j]) \subseteq 1..Len(f[j])
  BY <1>2 DEF Nuls
<1>4. 0 \in S
  <2>1. f[0] = <<>> /\ Nuls(f[0]) = {}
    BY <1>1, <1>2 DEF Concatenates, Nuls
  <2>2. {Len(f[i]) : i \in 1..0} = {}
    OBVIOUS
  <2>3. IsFiniteSet({}) /\ Cardinality({}) = 0
    BY FS_EmptySet
  <2>4. 0 \in 0..n
    BY <1>1
  <2>5. Has(0)
    BY <2>1, <2>2, <2>3
  <2> HIDE DEF Has
  <2>6. QED
    BY <2>4, <2>5
<1>5. ASSUME NEW d \in 0..(n - 1), d \in S PROVE d + 1 \in S
  <2> DEFINE j == d + 1
             m == Len(f[d])
             l == Len(strings[j])
             e == Len(f[j])
  <2>1. j \in 1..n /\ j - 1 = d /\ j \in 0..n /\ d \in 0..n /\ d \in Nat
    BY <1>1
  <2> HIDE DEF j
  <2>2. /\ m \in Nat /\ e = m + l + 1
        /\ \A i \in 1..m : f[j][i] = f[d][i]
        /\ \A i \in 1..l : f[j][m + i] = strings[j][i]
        /\ f[j][e] = Nul
    <3>1. PutsBehind(f[d], strings[j], f[j])
      BY <2>1, OneMoreString
    <3>2. QED
      BY <3>1 DEF PutsBehind
  <2>3. l \in Nat /\ \A i \in 1..l : strings[j][i] # Nul
    BY <2>1, TerminatedParts
  <2>4. DOMAIN f[j] = 1..e /\ DOMAIN f[d] = 1..m
    BY <1>2, <2>1
  <2> HIDE DEF m, l, e
  <2>a. m \in Nat /\ l \in Nat /\ e = m + l + 1
    BY <2>2, <2>3
  <2>5. Nuls(f[j]) = Nuls(f[d]) \cup {e}
    <3>1. ASSUME NEW i \in 1..e, f[j][i] = Nul, i # e PROVE i \in Nuls(f[d])
      <4>1. CASE i \in 1..m
        BY <2>2, <2>4, <3>1, <4>1 DEF Nuls
      <4>2. CASE i \notin 1..m
        <5>1. i - m \in 1..l /\ m + (i - m) = i
          <6>1. i \in Int /\ i > m /\ i < m + l + 1
            BY <2>a, <3>1, <4>2
          <6>2. QED
            BY <2>a, <6>1
        <5>2. f[j][i] = strings[j][i - m]
          BY <2>2, <5>1
        <5>3. QED
          BY <2>3, <3>1, <5>1, <5>2
      <4>3. QED
        BY <4>1, <4>2
    <3>2. ASSUME NEW i \in 1..m, f[d][i] = Nul PROVE i \in 1..e /\ f[j][i] = Nul
      <4>1. i \in 1..e
        BY <2>a
      <4>2. QED
        BY <2>2, <3>2, <4>1
    <3>3. e \in 1..e /\ f[j][e] = Nul
      BY <2>2, <2>a
    <3>4. QED
      BY <2>4, <3>1, <3>2, <3>3 DEF Nuls
  <2>6. e \notin Nuls(f[d])
    <3>1. Nuls(f[d]) \subseteq 1..m
      BY <1>3, <2>1 DEF m
    <3>2. e \notin 1..m
      BY <2>a
    <3>3. QED
      BY <3>1, <3>2
  <2>7. Has(d)
    BY <1>5
  <2>8. IsFiniteSet(Nuls(f[j])) /\ Cardinality(Nuls(f[j])) = d + 1
    <3> DEFINE N == Nuls(f[d])
    <3>1. IsFiniteSet(N) /\ Cardinality(N) = d /\ e \notin N
      BY <2>6, <2>7
    <3> HIDE DEF N
    <3>2. IsFiniteSet(N \cup {e}) /\ Cardinality(N \cup {e}) = d + 1
      BY <3>1, FS_AddElement
    <3>3. QED
      BY <2>5, <3>2 DEF N
  <2>9. Nuls(f[j]) = {Len(f[i]) : i \in 1..j}
    <3>1. \A i : i \in 1..j <=> i \in 1..d \/ i = j
      BY <2>1
    <3>2. {Len(f[i]) : i \in 1..j} = {Len(f[i]) : i \in 1..d} \cup {Len(f[j])}
      BY <3>1
    <3>3. QED
      BY <2>5, <2>7, <3>2 DEF e
  <2>10. QED
    BY <2>1, <2>8, <2>9 DEF j
<1> HIDE DEF S
<1>6. \A d \in 0..n : d \in S
  <2> HIDE DEF n
  <2>1. QED
    BY <1>1, <1>4, <1>5, BoundedInduction
<1>7. Has(k)
  BY <1>6 DEF S
<1>8. QED
  BY <1>3, <1>7 DEF HasNulPerString

(* The scan finds the j-th NUL behind the j-th string. *)
LEMMA EndOfString ==
  ASSUME NEW strings \in Seq(Seq(Int \ {Nul})), NEW f, Concatenates(f, Terminated(strings)),
         NEW j \in 1..Len(strings)
  PROVE  End(f[Len(strings)], j) = Len(f[j])
<1> DEFINE n == Len(strings)
           bytes == f[n]
           upTo(i) == {m \in Nuls(bytes) : m <= i}
<1>1. n \in Nat /\ n \in 0..n /\ Len(Terminated(strings)) = n /\ \A k \in 1..n : k \in 0..n
  BY TerminatedParts
<1>2. \A k \in 0..n : f[k] \in Seq(Int) /\ Len(f[k]) \in Nat /\ DOMAIN f[k] = 1..Len(f[k])
  BY <1>1, SeqBasics DEF Concatenates
<1>3. Nuls(bytes) = {Len(f[k]) : k \in 1..n}
  <2>1. HasNulPerString(f, n)
    BY <1>1, NulsOfStrings
  <2>2. QED
    BY <2>1 DEF HasNulPerString
<1>4. ASSUME NEW k \in 0..n PROVE Len(f[k]) <= Len(bytes) /\ \A i \in 1..Len(f[k]) : bytes[i] = f[k][i]
  BY StringsStay
<1>5. ASSUME NEW k \in 1..n PROVE Cardinality(upTo(Len(f[k]))) = k
  <2>1. k \in 0..n
    BY <1>1
  <2> DEFINE g == f[k]
  <2>2. /\ Nuls(g) \subseteq 1..Len(g) /\ Cardinality(Nuls(g)) = k
    <3>1. HasNulPerString(f, k)
      BY <2>1, NulsOfStrings
    <3>2. QED
      BY <3>1 DEF HasNulPerString
  <2>3. /\ DOMAIN g = 1..Len(g) /\ Len(g) \in Nat /\ Len(g) <= Len(bytes)
        /\ \A i \in 1..Len(g) : bytes[i] = g[i]
    BY <1>2, <1>4, <2>1
  <2>4. DOMAIN bytes = 1..Len(bytes) /\ Len(bytes) \in Nat
    BY <1>1, <1>2
  <2> HIDE DEF g, bytes
  <2>5. ASSUME NEW m \in Nuls(bytes), m <= Len(g) PROVE m \in Nuls(g)
    BY <2>3, <2>4, <2>5 DEF Nuls
  <2>6. ASSUME NEW m \in Nuls(g) PROVE m \in Nuls(bytes) /\ m <= Len(g)
    BY <2>3, <2>4, <2>6 DEF Nuls
  <2>7. upTo(Len(g)) = Nuls(g)
    BY <2>5, <2>6
  <2>8. QED
    BY <2>2, <2>7 DEF g
<1>6. Len(f[j]) \in Nuls(bytes) /\ Cardinality(upTo(Len(f[j]))) = j
  BY <1>3, <1>5
<1>7. ASSUME NEW i \in Nuls(bytes), Cardinality(upTo(i)) = j PROVE i = Len(f[j])
  <2>1. PICK k \in 1..n : i = Len(f[k])
    BY <1>3
  <2>2. k = j
    BY <1>5, <1>7, <2>1
  <2>3. QED
    BY <2>1, <2>2
<1>8. End(bytes, j) = CHOOSE i \in Nuls(bytes) : Cardinality(upTo(i)) = j
  BY DEF End
<1> HIDE DEF bytes, upTo
<1>9. QED
  BY <1>6, <1>7, <1>8 DEF bytes

(* extractStringV returns the strings that were stored, empty ones included. *)
LEMMA StringsComeBack ==
  ASSUME NEW strings \in Seq(Seq(Int \ {Nul})), strings # <<>>
  PROVE  Strings(FlattenSeq(Terminated(strings))) = strings
<1> DEFINE n == Len(strings)
           parts == Terminated(strings)
<1>1. /\ n \in Nat \ {0} /\ n \in 0..n /\ Len(parts) = n /\ parts \in Seq(Seq(Int)) /\ parts # <<>>
      /\ \A k \in 1..n : k \in 0..n /\ k - 1 \in 0..n
  <2>1. n \in Nat \ {0} /\ Len(parts) = n /\ parts \in Seq(Seq(Int))
    BY TerminatedParts, EmptySeq
  <2>2. parts # <<>>
    BY <2>1, EmptySeq
  <2> HIDE DEF n
  <2>3. QED
    BY <2>1, <2>2
<1>2. PICK f : Concatenates(f, parts) /\ FlattenSeq(parts) = f[n]
  BY <1>1, FlattenConcatenates
<1> DEFINE bytes == f[n]
<1>3. Cardinality(Nuls(bytes)) = n
  <2>1. HasNulPerString(f, n)
    BY <1>1, <1>2, NulsOfStrings
  <2>2. QED
    BY <2>1 DEF HasNulPerString
<1>4. ASSUME NEW j \in 1..n PROVE Strings(bytes)[j] = strings[j]
  <2> DEFINE start == IF j = 1 THEN 1 ELSE End(bytes, j - 1) + 1
             m == Len(f[j - 1])
             s == strings[j]
             l == Len(s)
             cut == SubSeq(bytes, start, End(bytes, j) - 1)
  <2>1. Strings(bytes)[j] = cut
    BY <1>3 DEF Strings
  <2>2. PutsBehind(f[j - 1], s, f[j])
    BY <1>2, OneMoreString
  <2>3. /\ m \in Nat /\ l \in Nat /\ Len(f[j]) = m + l + 1
        /\ \A i \in 1..l : f[j][m + i] = s[i]
    BY <2>2 DEF PutsBehind
  <2>4. End(bytes, j) = m + l + 1
    BY <1>2, <2>3, EndOfString
  <2>5. start = m + 1
    <3>1. CASE j = 1
      <4>1. f[j - 1] = <<>>
        BY <1>2, <3>1 DEF Concatenates
      <4>2. m = 0
        BY <4>1, EmptySeq
      <4>3. QED
        BY <3>1, <4>2
    <3>2. CASE j # 1
      <4>1. j - 1 \in 1..n
        BY <1>1, <3>2
      <4>2. End(bytes, j - 1) = m
        BY <1>2, <4>1, EndOfString
      <4>3. QED
        BY <3>2, <4>2
    <3>3. QED
      BY <3>1, <3>2
  <2>6. Len(f[j]) <= Len(bytes) /\ \A i \in 1..Len(f[j]) : bytes[i] = f[j][i]
    BY <1>1, <1>2, StringsStay
  <2>7. s \in Seq(Int) /\ \A i \in 1..l : s[i] \in Int
    BY TerminatedParts
  <2>8. cut = SubSeq(bytes, m + 1, m + l)
    <3> HIDE DEF m, l, start
    <3>1. (m + l + 1) - 1 = m + l
      BY <2>3
    <3>2. QED
      BY <2>4, <2>5, <3>1
  <2> HIDE DEF cut, start, m, s, l, bytes
  <2>9. \A i \in 1..l : bytes[m + i] = s[i]
    <3> SUFFICES ASSUME NEW i \in 1..l PROVE bytes[m + i] = s[i]
      OBVIOUS
    <3>1. m + i \in 1..Len(f[j])
      BY <2>3
    <3>2. QED
      BY <2>3, <2>6, <3>1
  <2>10. \A i \in (m + 1)..(m + l) : bytes[i] \in Int
    <3> SUFFICES ASSUME NEW i \in (m + 1)..(m + l) PROVE bytes[i] \in Int
      OBVIOUS
    <3>1. i - m \in 1..l /\ m + (i - m) = i
      BY <2>3
    <3>2. bytes[i] = s[i - m]
      BY <2>9, <3>1
    <3>3. QED
      BY <2>7, <3>1, <3>2
  <2>11. cut \in Seq(Int) /\ Len(cut) = l /\ \A i \in 1..l : cut[i] = bytes[m + i]
    <3> DEFINE a == m + 1
               b == m + l
    <3>1. a \in Int /\ b \in Int /\ b - a + 1 = l /\ (IF a <= b THEN b - a + 1 ELSE 0) = l
          /\ \A i \in 1..l : a + i - 1 = m + i
      BY <2>3
    <3>2. cut = SubSeq(bytes, a, b) /\ \A i \in a..b : bytes[i] \in Int
      BY <2>8, <2>10
    <3> HIDE DEF a, b
    <3>3. /\ cut \in Seq(Int) /\ Len(cut) = IF a <= b THEN b - a + 1 ELSE 0
          /\ \A i \in 1..(b - a + 1) : cut[i] = bytes[a + i - 1]
      BY <3>1, <3>2, SubSeqProperties
    <3>4. QED
      BY <3>1, <3>3
  <2>12. cut = s
    BY <2>7, <2>9, <2>11, SameItems DEF l
  <2>13. QED
    BY <2>1, <2>12 DEF s
<1>5. Strings(bytes) = [j \in 1..n |-> Strings(bytes)[j]]
  BY <1>3 DEF Strings
<1>6. strings = [j \in 1..n |-> strings[j]]
  BY LenProperties
<1> HIDE DEF bytes, n
<1>7. Strings(bytes) = strings
  BY <1>4, <1>5, <1>6
<1>8. QED
  BY <1>2, <1>7 DEF bytes

(* What a get reads of a value is what its client is to read: a string up to its first
   NUL, a double as a float, anything else unchanged. *)
LEMMA RoundTrip ==
  ASSUME NEW value, WellFormed(value)
  PROVE  Decode(value.type, Encode(value)) = Readable(value)
<1> DEFINE c == value.content
<1>1. CASE value.type = "STRING"
  <2>1. c \in Seq(Int)
    BY <1>1 DEF WellFormed, Texts
  <2>2. CString(c) \in Seq(Int) /\ Nuls(CString(c)) = {}
    BY <2>1, CStringStops
  <2>3. CString(CString(c) \o <<Nul>>) = CString(c)
    BY <2>2, CStringComesBack
  <2>4. QED
    BY <1>1, <2>3 DEF Decode, Encode, Readable
<1>2. CASE value.type = "BLOB"
  <2>1. c \in Seq(Int)
    BY <1>2 DEF WellFormed, Texts
  <2>2. Readable(value) = c /\ Encode(value) = <<Len(c)>> \o c
    BY <1>2 DEF Readable, Scalars, Encode
  <2>3. Decode(value.type, Encode(value)) = SubSeq(Encode(value), 2, Encode(value)[1] + 1)
    BY <1>2 DEF Decode
  <2>4. QED
    BY <2>1, <2>2, <2>3, BlobComesBack
<1>3. CASE value.type = "VECTOR_KEY"
  <2>1. c \in Seq(Seq(Int \ {Nul})) /\ c # <<>>
    BY <1>3 DEF WellFormed, Texts
  <2>2. Readable(value) = c /\ Encode(value) = FlattenSeq(Terminated(c))
    BY <1>3 DEF Readable, Scalars, Encode, Terminated
  <2>3. Decode(value.type, Encode(value)) = Strings(Encode(value))
    BY <1>3 DEF Decode
  <2>4. QED
    BY <2>1, <2>2, <2>3, StringsComeBack
<1>4. CASE value.type \notin {"STRING", "BLOB", "VECTOR_KEY"}
  BY <1>4 DEF Decode, Encode, Readable
<1>5. QED
  BY <1>1, <1>2, <1>3, <1>4

(* Every value that a client can give takes at least one byte. *)
LEMMA ValuesHaveBytes ==
  ASSUME NEW value, WellFormed(value)
  PROVE  Encode(value) # <<>>
<1> DEFINE c == value.content
<1>1. CASE value.type = "STRING"
  <2>1. c \in Seq(Int)
    BY <1>1 DEF WellFormed, Texts
  <2>2. CString(c) \in Seq(Int) /\ <<Nul>> \in Seq(Int) /\ <<Nul>> # <<>>
    BY <2>1, CStringStops DEF Nul
  <2>3. CString(c) \o <<Nul>> # <<>>
    BY <2>2, ConcatEqualIffEmpty
  <2>4. QED
    BY <1>1, <2>3 DEF Encode
<1>2. CASE value.type = "BLOB"
  <2>1. c \in Seq(Int)
    BY <1>2 DEF WellFormed, Texts
  <2>2. <<Len(c)>> \in Seq(Int) /\ <<Len(c)>> # <<>>
    BY <2>1, SeqBasics
  <2>3. <<Len(c)>> \o c # <<>>
    BY <2>1, <2>2, ConcatEqualIffEmpty
  <2>4. QED
    BY <1>2, <2>3 DEF Encode
<1>3. CASE value.type = "VECTOR_KEY"
  <2>1. c \in Seq(Seq(Int \ {Nul})) /\ c # <<>>
    BY <1>3 DEF WellFormed, Texts
  <2>2. Encode(value) = FlattenSeq(Terminated(c))
    BY <1>3 DEF Encode, Terminated
  <2>3. Strings(Encode(value)) = c
    BY <2>1, <2>2, StringsComeBack
  <2>4. DOMAIN Strings(<<>>) = {}
    <3>1. Nuls(<<>>) = {}
      BY DEF Nuls
    <3>2. Cardinality({}) = 0 /\ 1..0 = {}
      BY FS_EmptySet
    <3>3. DOMAIN Strings(<<>>) = 1..Cardinality(Nuls(<<>>))
      BY DEF Strings
    <3>4. QED
      BY <3>1, <3>2, <3>3
  <2>5. DOMAIN c # {}
    <3>1. Len(c) \in Nat \ {0} /\ DOMAIN c = 1..Len(c)
      BY <2>1, EmptySeq, LenProperties
    <3>2. 1 \in 1..Len(c)
      BY <3>1
    <3>3. QED
      BY <3>1, <3>2
  <2>6. QED
    BY <2>3, <2>4, <2>5
<1>4. CASE value.type \notin {"STRING", "BLOB", "VECTOR_KEY"}
  <2>1. c \in Seq(Int) /\ c # <<>>
    BY <1>4 DEF WellFormed, Texts
  <2>2. DOMAIN c # {}
    <3>1. Len(c) \in Nat \ {0} /\ DOMAIN c = 1..Len(c)
      BY <2>1, EmptySeq, LenProperties
    <3>2. 1 \in 1..Len(c)
      BY <3>1
    <3>3. QED
      BY <3>1, <3>2
  <2>3. DOMAIN Scalars(value) = DOMAIN c
    BY DEF Scalars
  <2>4. Encode(value) = Scalars(value)
    BY <1>4 DEF Encode
  <2>5. DOMAIN <<>> = {}
    OBVIOUS
  <2>6. QED
    BY <2>2, <2>3, <2>4, <2>5
<1>5. QED
  BY <1>1, <1>2, <1>3, <1>4
-----------------------------------------------------------------------------
(* What a request stores *)

(* The key's new entry reads back as the value its client gave. *)
Applied(map, items, k) ==
  /\ k \in KeysOf(map) /\ ~HalfStored(map[k])
  /\ map[k].type = items[k].type
  /\ Read(map[k]) = Readable(items[k])

(* A set that reports success has stored the value. *)
LEMMA StoreApplies ==
  ASSUME ClientsAreWellBehaved, NEW entry, NEW value \in Values, NEW at,
         Store(entry, value, TRUE, at).valid
  PROVE  LET new == Store(entry, value, TRUE, at).entry
         IN  /\ new # NoEntry /\ ~HalfStored(new)
             /\ new.type = value.type /\ Read(new) = Readable(value)
<1> DEFINE data == Encode(value)
           new == Store(entry, value, TRUE, at).entry
<1>1. Supported(value)
  BY DEF Store
<1>2. data # <<>> /\ Decode(value.type, data) = Readable(value)
  BY <1>1, ValuesHaveBytes, RoundTrip DEF ClientsAreWellBehaved
<1>3. new = FixedEntry(value) \/ new = VecEntry(value, TRUE)
  BY <1>1 DEF Store, VecEntry
<1>a. new # NoEntry
  BY <1>1, <1>3, EntriesAreCached, KvConstants
<1> HIDE DEF new
<1>4. CASE new = FixedEntry(value)
  <2>1. new.type = value.type /\ new.data = data
    BY <1>4 DEF FixedEntry
  <2> HIDE DEF data
  <2>2. QED
    BY <1>2, <1>a, <2>1 DEF HalfStored, Read, new
<1>5. CASE new = VecEntry(value, TRUE)
  <2>1. new.type = value.type /\ new.data = data
    BY <1>5 DEF VecEntry
  <2> HIDE DEF data
  <2>2. QED
    BY <1>2, <1>a, <2>1 DEF HalfStored, Read, new
<1>6. QED
  BY <1>3, <1>a, <1>4, <1>5 DEF new

(* A store that reports success leaves an entry. *)
LEMMA StoredIsThere ==
  ASSUME NEW entry, NEW value \in Values, NEW isSet, NEW at,
         Store(entry, value, isSet, at).valid
  PROVE  Store(entry, value, isSet, at).entry # NoEntry
<1> DEFINE new == Store(entry, value, isSet, at).entry
<1>1. Supported(value)
  BY DEF Store
<1>2. \/ new = entry /\ entry # NoEntry
      \/ new = FixedEntry(value) \/ new = VecEntry(value, at # "bytes")
  BY <1>1 DEF Store
<1>3. /\ FixedEntry(value) # NoEntry
      /\ VecEntry(value, at # "bytes") # NoEntry
  BY <1>1, EntriesAreCached, KvConstants
<1>4. QED
  BY <1>2, <1>3

(* A store that leaves an entry without bytes where another was, or none, fails. *)
LEMMA MissingBytesAreReported ==
  ASSUME ClientsAreWellBehaved, NEW entry, NEW value \in Values, NEW isSet, NEW at,
         LET new == Store(entry, value, isSet, at).entry
         IN  new # entry /\ new # NoEntry /\ HalfStored(new)
  PROVE  ~Store(entry, value, isSet, at).valid
<1> DEFINE new == Store(entry, value, isSet, at).entry
           data == Encode(value)
<1>1. SUFFICES ASSUME Store(entry, value, isSet, at).valid PROVE FALSE
  OBVIOUS
<1>2. Supported(value)
  BY <1>1 DEF Store
<1>3. data # <<>>
  BY <1>2, ValuesHaveBytes DEF ClientsAreWellBehaved
<1>4. new = FixedEntry(value) \/ (at # "bytes" /\ new = VecEntry(value, at # "bytes"))
  BY <1>1, <1>2 DEF Store
<1>5. HalfStored(new)
  OBVIOUS
<1> HIDE DEF new
<1>6. CASE new = FixedEntry(value)
  <2>1. new.data = data
    BY <1>6 DEF FixedEntry
  <2>2. QED
    BY <1>3, <1>5, <2>1 DEF HalfStored
<1>7. CASE at # "bytes" /\ new = VecEntry(value, at # "bytes")
  <2>1. new.data = data
    BY <1>7 DEF VecEntry
  <2>2. QED
    BY <1>3, <1>5, <2>1 DEF HalfStored
<1>8. QED
  BY <1>4, <1>6, <1>7

-----------------------------------------------------------------------------
(* What the loop over the items leaves *)

LEMMA UntouchedKeys ==
  ASSUME NEW map, NEW items, NEW isSet, NEW memory, NEW k \in Keys,
         k \notin Reached(map, items, isSet, memory)
  PROVE  AfterItems(map, items, isSet, memory)[k] = map[k]
  BY DEF AfterItems

LEMMA ReachedKeys ==
  ASSUME NEW map, NEW items \in Items, NEW isSet, NEW memory,
         NEW k \in Reached(map, items, isSet, memory)
  PROVE  /\ k \in DOMAIN items /\ k \in Keys /\ items[k] \in Values
         /\ AfterItems(map, items, isSet, memory)[k] =
              Store(map[k], items[k], isSet, At(memory, k)).entry
         /\ Stored(map, items, isSet, memory, k).valid =
              Store(map[k], items[k], isSet, At(memory, k)).valid
<1>1. k \in DOMAIN items /\ k \in Keys /\ items[k] \in Values
  BY ItemsAreValues DEF Reached
<1>2. QED
  BY <1>1 DEF AfterItems, Stored

(* As long as none fails, every key is reached. *)
LEMMA AllAreReached ==
  ASSUME NEW map, NEW items, NEW isSet, NEW memory, AllStored(map, items, isSet, memory)
  PROVE  \A k \in DOMAIN items : /\ k \in Reached(map, items, isSet, memory)
                                /\ Stored(map, items, isSet, memory, k).valid
  BY DEF AllStored, Reached

(* A new entry without its bytes: the request that made it fails. *)
LEMMA LoopReportsMissingBytes ==
  ASSUME ClientsAreWellBehaved, NEW map, NEW items \in Items, NEW isSet, NEW memory,
         NEW k \in Keys,
         LET new == AfterItems(map, items, isSet, memory)[k]
         IN  new # map[k] /\ new # NoEntry /\ HalfStored(new)
  PROVE  k \in DOMAIN items /\ ~AllStored(map, items, isSet, memory)
<1>1. k \in Reached(map, items, isSet, memory)
  BY UntouchedKeys
<1>2. /\ k \in DOMAIN items /\ items[k] \in Values
      /\ AfterItems(map, items, isSet, memory)[k] =
           Store(map[k], items[k], isSet, At(memory, k)).entry
      /\ Stored(map, items, isSet, memory, k).valid =
           Store(map[k], items[k], isSet, At(memory, k)).valid
  BY <1>1, ReachedKeys
<1> DEFINE entry == map[k]
           value == items[k]
           at == At(memory, k)
<1> HIDE DEF entry, value, at
<1>3. LET new == Store(entry, value, isSet, at).entry
      IN  new # entry /\ new # NoEntry /\ HalfStored(new)
  BY <1>2 DEF entry, value, at
<1>4. ~Store(entry, value, isSet, at).valid
  BY <1>2, <1>3, MissingBytesAreReported DEF value
<1>5. QED
  BY <1>2, <1>4 DEF AllStored, entry, value, at

(* A clear_set puts the items in an emptied map, or fails for want of its group. *)
LEMMA ClearSetInMaps ==
  ASSUME KvInv, NEW group \in MapNames, NEW items \in Items, NEW memory,
         KVClearSet(group, items, memory)
  PROVE  /\ \A g \in MapNames \ {group} : maps'[g] = maps[g]
         /\ rsp'.op = "KVClearSet" /\ rsp'.group = group /\ rsp'.items = items
         /\ Exists(group) =>
              /\ maps'[group] = AfterItems(EmptyMap, items, TRUE, memory)
              /\ rsp'.status = Status(AllStored(EmptyMap, items, TRUE, memory))
         /\ ~Exists(group) => maps' = maps /\ rsp'.status = "Fail"
<1> DEFINE result == SetOrAdd(EmptyMap, items, TRUE, memory)
           status == IF Exists(group) THEN Status(result.valid) ELSE "Fail"
<1>1. /\ result.map = AfterItems(EmptyMap, items, TRUE, memory)
      /\ result.valid = AllStored(EmptyMap, items, TRUE, memory)
  BY SetOrAddIs
<1>2. /\ Exists(group) => maps' = [maps EXCEPT ![group] = result.map]
      /\ ~Exists(group) => maps' = maps
      /\ Answer("KVClearSet", group, status, items)
  BY DEF KVClearSet
<1> HIDE DEF result
<1>3. DOMAIN maps = MapNames
  BY DEF KvInv, MapsInv
<1>4. /\ rsp'.op = "KVClearSet" /\ rsp'.group = group /\ rsp'.items = items
      /\ rsp'.status = status
  BY <1>2 DEF Answer, NoAnswer
<1>5. QED
  BY <1>1, <1>2, <1>3, <1>4

(* Only a request that stores makes an entry or changes one. *)
LEMMA OthersOnlyLose ==
  ASSUME KvInv, [Next]_vars, NEW g \in MapNames, NEW k \in Keys,
         Exists(g)', maps'[g][k] # NoEntry, maps'[g][k] # MapOrEmpty(g)[k]
  PROVE  \E group \in MapNames : \E items \in Items : \E memory \in Starvations(items) :
           \/ KVSet(group, items, memory) \/ KVAdd(group, items, memory)
           \/ KVClearSet(group, items, memory)
<1>1. ASSUME maps' = maps PROVE FALSE
  BY <1>1 DEF MapOrEmpty, Exists
<1>2. CASE UNCHANGED vars \/ Restart \/ KVGetAllOfMain
  BY <1>1, <1>2 DEF vars, Restart, KVGetAllOfMain
<1>3. ASSUME NEW starved, Die(starved) PROVE FALSE
  BY <1>3 DEF Die, Exists, EmptyMap
<1>4. ASSUME NEW op \in ClearsOfAll \cup {"KVClearGroup", "KVClearGroupKeysOnly"},
             NEW group, KVClear(op, group)
      PROVE  FALSE
  <2>1. maps'[g] = Cleared(op, group, g)
    BY <1>4 DEF KVClear
  <2>2. maps'[g] \in {maps[g], EmptyMap, NoGroup}
    BY <2>1 DEF Cleared, Emptied, ClearsOfAll
  <2>3. QED
    BY <2>2 DEF MapOrEmpty, Exists, EmptyMap
<1>5. ASSUME NEW group, NEW keys, NEW starved,
             \/ KVCount(group) \/ KVGet(group, keys) \/ KVContains(group, keys)
             \/ KVGetFails(group, keys, starved)
      PROVE  FALSE
  BY <1>1, <1>5 DEF KVCount, KVGet, KVContains, KVGetFails
<1>6. ASSUME NEW group \in MapNames, NEW keys, KVRmv(group, keys)
      PROVE  FALSE
  <2> DEFINE rest == [j \in Keys |-> IF j \in keys THEN NoEntry ELSE maps[group][j]]
  <2>1. Exists(group) /\ maps' = [maps EXCEPT ![group] = rest]
    BY <1>1, <1>6 DEF KVRmv
  <2>2. DOMAIN maps = MapNames
    BY DEF KvInv, MapsInv
  <2>3. g = group
    BY <2>1, <2>2 DEF MapOrEmpty, Exists
  <2>4. maps'[g][k] = IF k \in keys THEN NoEntry ELSE maps[g][k]
    BY <2>1, <2>2, <2>3
  <2>5. QED
    BY <2>1, <2>3, <2>4 DEF MapOrEmpty
<1>7. ASSUME NEW op, NEW group, NEW items, GroupStarved(op, group, items)
      PROVE  FALSE
  BY <1>1, <1>7, StarvedGroups
<1>8. QED
  BY <1>2, <1>3, <1>4, <1>5, <1>6, <1>7 DEF Next, ClearsOfAll, AnswerStarved, KVGetUndefined

(* A value whose bytes are missing is never left behind by a request that answered Ok. *)
THEOREM HalfStoredAreReported ==
  ASSUME ClientsAreWellBehaved PROVE Spec => HalfStoredIsReported
<1> DEFINE Reported ==
      \A g \in MapNames, k \in Keys :
        /\ Exists(g)' /\ maps'[g][k] # NoEntry /\ HalfStored(maps'[g][k])
        /\ maps'[g][k] # MapOrEmpty(g)[k]
        => rsp'.status = "Fail" /\ k \in DOMAIN rsp'.items
<1>1. KvInv /\ [Next]_vars => [Reported]_vars
  <2>1. SUFFICES ASSUME KvInv, [Next]_vars, NEW g \in MapNames, NEW k \in Keys,
                        Exists(g)', maps'[g][k] # NoEntry, HalfStored(maps'[g][k]),
                        maps'[g][k] # MapOrEmpty(g)[k]
                 PROVE  rsp'.status = "Fail" /\ k \in DOMAIN rsp'.items
    OBVIOUS
  <2>2. PICK group \in MapNames, items \in Items :
          \E memory \in Starvations(items) :
            \/ KVSet(group, items, memory) \/ KVAdd(group, items, memory)
            \/ KVClearSet(group, items, memory)
    BY <2>1, OthersOnlyLose
  <2>3. ASSUME NEW op, NEW isSet, NEW memory, SetOrAddIn(op, group, items, isSet, memory)
        PROVE  rsp'.status = "Fail" /\ k \in DOMAIN rsp'.items
    <3> DEFINE map == MapOrEmpty(group)
    <3>1. /\ maps'[group] = AfterItems(map, items, isSet, memory)
          /\ \A h \in MapNames \ {group} : maps'[h] = maps[h]
          /\ rsp'.items = items
          /\ rsp'.status = Status(AllStored(map, items, isSet, memory))
      BY <2>1, <2>3, SetOrAddInMaps
    <3>2. g = group
      BY <2>1, <3>1 DEF MapOrEmpty, Exists
    <3>3. maps'[g][k] # map[k]
      BY <2>1, <3>2
    <3> HIDE DEF map
    <3>4. LET new == AfterItems(map, items, isSet, memory)[k]
          IN  new # map[k] /\ new # NoEntry /\ HalfStored(new)
      BY <2>1, <3>1, <3>2, <3>3
    <3>5. k \in DOMAIN items /\ ~AllStored(map, items, isSet, memory)
      BY <3>4, LoopReportsMissingBytes
    <3>6. QED
      BY <3>1, <3>5 DEF Status
  <2>4. ASSUME NEW memory, KVClearSet(group, items, memory)
        PROVE  rsp'.status = "Fail" /\ k \in DOMAIN rsp'.items
    <3> DEFINE map == EmptyMap
               isSet == TRUE
    <3>1. /\ \A h \in MapNames \ {group} : maps'[h] = maps[h]
          /\ rsp'.items = items
          /\ Exists(group) =>
               /\ maps'[group] = AfterItems(map, items, isSet, memory)
               /\ rsp'.status = Status(AllStored(map, items, isSet, memory))
          /\ ~Exists(group) => maps' = maps
      BY <2>1, <2>4, ClearSetInMaps
    <3>2. g = group /\ Exists(group)
      BY <2>1, <3>1 DEF MapOrEmpty, Exists
    <3>3. map[k] = NoEntry
      BY DEF EmptyMap
    <3> HIDE DEF map, isSet
    <3>4. LET new == AfterItems(map, items, isSet, memory)[k]
          IN  new # map[k] /\ new # NoEntry /\ HalfStored(new)
      BY <2>1, <3>1, <3>2, <3>3
    <3>5. k \in DOMAIN items /\ ~AllStored(map, items, isSet, memory)
      BY <3>4, LoopReportsMissingBytes
    <3>6. QED
      BY <3>1, <3>2, <3>5 DEF Status
  <2>5. QED
    BY <2>2, <2>3, <2>4 DEF KVSet, KVAdd
<1>2. QED
  BY <1>1, AlwaysKvInv, PTL DEF Spec, HalfStoredIsReported

-----------------------------------------------------------------------------
(* A key whose turn comes and that does not fail reads back. *)
LEMMA ReachedIsApplied ==
  ASSUME ClientsAreWellBehaved, NEW map, NEW items \in Items, NEW isSet, isSet = TRUE,
         NEW memory, NEW k \in Reached(map, items, isSet, memory),
         Stored(map, items, isSet, memory, k).valid
  PROVE  Applied(AfterItems(map, items, isSet, memory), items, k)
<1> DEFINE entry == map[k]
           value == items[k]
           at == At(memory, k)
           new == AfterItems(map, items, isSet, memory)
<1>1. /\ k \in Keys /\ value \in Values
      /\ new[k] = Store(entry, value, TRUE, at).entry
      /\ Store(entry, value, TRUE, at).valid
  <2>1. k \in DOMAIN items
    BY DEF Reached
  <2>2. k \in Keys /\ value \in Values
    BY <2>1, ItemsAreValues
  <2>3. Store(entry, value, TRUE, at).valid
    BY DEF Stored
  <2>4. new[k] = Store(entry, value, TRUE, at).entry
    BY <2>2 DEF Stored, AfterItems
  <2>5. QED
    BY <2>2, <2>3, <2>4
<1> HIDE DEF entry, value, at, new
<1>2. LET made == Store(entry, value, TRUE, at).entry
      IN  /\ made # NoEntry /\ ~HalfStored(made)
          /\ made.type = value.type /\ Read(made) = Readable(value)
  BY <1>1, StoreApplies
<1>3. /\ new[k] # NoEntry /\ ~HalfStored(new[k])
      /\ new[k].type = value.type /\ Read(new[k]) = Readable(value)
  BY <1>1, <1>2
<1>4. Applied(new, items, k)
  BY <1>1, <1>3 DEF Applied, KeysOf, value
<1>5. QED
  BY <1>4 DEF new

(* What SetAppliesAPrefix says of a set that found old and left new. *)
PrefixApplied(old, new, items, valid) ==
  /\ \A k \in Keys \ DOMAIN items : new[k] = old[k]
  /\ valid => \A k \in DOMAIN items : Applied(new, items, k)
  /\ ~valid =>
       \E stop \in DOMAIN items :
         /\ \A k \in DOMAIN items : k < stop => Applied(new, items, k)
         /\ \A k \in DOMAIN items : k > stop => new[k] = old[k]

(* The loop of a set stops at the first key that fails. *)
LEMMA LoopAppliesAPrefix ==
  ASSUME ClientsAreWellBehaved, NEW map, NEW items \in Items, NEW memory, NEW isSet, isSet = TRUE
  PROVE  PrefixApplied(map, AfterItems(map, items, isSet, memory), items,
                       AllStored(map, items, isSet, memory))
<1> DEFINE keys == DOMAIN items
           new == AfterItems(map, items, isSet, memory)
           reached == Reached(map, items, isSet, memory)
           valid(k) == Stored(map, items, isSet, memory, k).valid
           all == AllStored(map, items, isSet, memory)
<1>1. keys \subseteq Keys /\ keys \subseteq Nat
  BY ItemsAreValues, KvConstants
<1>2. all = \A k \in keys : valid(k)
  BY DEF AllStored
<1>3. reached = {k \in keys : \A j \in keys : j < k => valid(j)}
  BY DEF Reached
<1>4. \A k \in reached : valid(k) => Applied(new, items, k)
  BY ReachedIsApplied
<1>5. \A k \in Keys : k \notin reached => new[k] = map[k]
  BY DEF AfterItems
<1> HIDE DEF new, reached, valid, all
<1>6. CASE all
  <2>1. \A k \in keys : k \in reached /\ valid(k)
    BY <1>2, <1>3, <1>6
  <2>2. QED
    BY <1>3, <1>4, <1>5, <1>6, <2>1 DEF PrefixApplied, new, all
<1>7. CASE ~all
  <2> DEFINE failing == {k \in keys : ~valid(k)}
  <2>1. failing \in SUBSET Nat /\ failing # {}
    BY <1>1, <1>2, <1>7
  <2> HIDE DEF failing
  <2>2. PICK stop \in failing : \A k \in failing : stop <= k
    BY <2>1, LeastNatural
  <2>3. stop \in keys /\ ~valid(stop)
    BY <2>2 DEF failing
  <2>4. ASSUME NEW k \in keys, k < stop PROVE Applied(new, items, k)
    <3>1. \A j \in keys : j <= k => valid(j)
      BY <1>1, <2>2, <2>3, <2>4 DEF failing
    <3>2. k \in reached /\ valid(k)
      BY <1>1, <1>3, <3>1
    <3>3. QED
      BY <1>4, <3>2
  <2>5. ASSUME NEW k \in keys, k > stop PROVE new[k] = map[k]
    <3>1. k \notin reached
      BY <1>1, <1>3, <2>3, <2>5
    <3>2. QED
      BY <1>1, <1>5, <3>1
  <2>6. \A k \in Keys \ keys : new[k] = map[k]
    BY <1>3, <1>5
  <2>7. PrefixApplied(map, new, items, all)
    BY <1>7, <2>3, <2>4, <2>5, <2>6 DEF PrefixApplied
  <2>8. QED
    BY <2>7 DEF new, all
<1>8. QED
  BY <1>6, <1>7

(* What a set or a clear_set did. *)
LEMMA SetsApplyAPrefix ==
  ASSUME ClientsAreWellBehaved, KvInv, Next, rsp'.op \in {"KVSet", "KVClearSet"},
         maps'[rsp'.group] # NoGroup
  PROVE  PrefixApplied(IF rsp'.op = "KVSet" THEN MapOrEmpty(rsp'.group) ELSE EmptyMap,
                       maps'[rsp'.group], rsp'.items, rsp'.status = "Ok")
         /\ rsp'.status \in {"Ok", "Fail"}
<1>1. PICK group \in MapNames, items \in Items :
        \E memory \in Starvations(items) :
          \/ KVSet(group, items, memory) /\ rsp'.op = "KVSet"
          \/ KVClearSet(group, items, memory) /\ rsp'.op = "KVClearSet"
  BY StoresByName DEF Stores
<1> DEFINE isSet == TRUE
<1>2. ASSUME NEW memory, SetOrAddIn("KVSet", group, items, isSet, memory), rsp'.op = "KVSet"
      PROVE  PrefixApplied(MapOrEmpty(rsp'.group), maps'[rsp'.group], rsp'.items,
                           rsp'.status = "Ok")
             /\ rsp'.status \in {"Ok", "Fail"}
  <2> DEFINE map == MapOrEmpty(group)
             new == AfterItems(map, items, isSet, memory)
             all == AllStored(map, items, isSet, memory)
  <2>1. /\ maps'[group] = new /\ rsp'.group = group /\ rsp'.items = items
        /\ rsp'.status = Status(all)
    BY <1>2, SetOrAddInMaps
  <2>2. isSet = TRUE
    OBVIOUS
  <2>3. PrefixApplied(map, new, items, all)
    <3> HIDE DEF map, isSet
    <3>1. QED
      BY <2>2, LoopAppliesAPrefix
  <2> HIDE DEF new, all
  <2>4. rsp'.status \in {"Ok", "Fail"} /\ (rsp'.status = "Ok" <=> all)
    BY <2>1 DEF Status
  <2>5. PrefixApplied(map, new, items, rsp'.status = "Ok")
    BY <2>3, <2>4 DEF PrefixApplied
  <2>6. QED
    BY <2>1, <2>4, <2>5
<1>3. ASSUME NEW memory, KVClearSet(group, items, memory), rsp'.op = "KVClearSet"
      PROVE  PrefixApplied(EmptyMap, maps'[rsp'.group], rsp'.items, rsp'.status = "Ok")
             /\ rsp'.status \in {"Ok", "Fail"}
  <2> DEFINE map == EmptyMap
             new == AfterItems(map, items, isSet, memory)
             all == AllStored(map, items, isSet, memory)
  <2>1. /\ Exists(group) => maps'[group] = new /\ rsp'.status = Status(all)
        /\ ~Exists(group) => maps' = maps
        /\ rsp'.group = group /\ rsp'.items = items
    BY <1>3, ClearSetInMaps
  <2>2. isSet = TRUE /\ Exists(group)
    BY <2>1 DEF Exists
  <2>3. PrefixApplied(map, new, items, all)
    <3> HIDE DEF map, isSet
    <3>1. QED
      BY <2>2, LoopAppliesAPrefix
  <2> HIDE DEF new, all
  <2>4. rsp'.status \in {"Ok", "Fail"} /\ (rsp'.status = "Ok" <=> all)
    BY <2>1, <2>2 DEF Status
  <2>5. PrefixApplied(map, new, items, rsp'.status = "Ok")
    BY <2>3, <2>4 DEF PrefixApplied
  <2>6. QED
    BY <2>1, <2>2, <2>4, <2>5
<1>4. QED
  BY <1>1, <1>2, <1>3 DEF KVSet

(* After an Ok every item of a set reads back as its client gave it; after a Fail a
   proper prefix of the items in key order does, and nothing after the failing key. *)
THEOREM SetsApplyPrefixes ==
  ASSUME ClientsAreWellBehaved PROVE Spec => SetAppliesAPrefix
<1> DEFINE AppliesAPrefix ==
      rsp'.op \in {"KVSet", "KVClearSet"} /\ maps'[rsp'.group] # NoGroup =>
        LET old == IF rsp'.op = "KVSet" THEN MapOrEmpty(rsp'.group) ELSE EmptyMap
            new == maps'[rsp'.group]
            applied(k) == /\ k \in KeysOf(new) /\ ~HalfStored(new[k])
                          /\ new[k].type = rsp'.items[k].type
                          /\ Read(new[k]) = Readable(rsp'.items[k])
            keys == DOMAIN rsp'.items
        IN  /\ \A k \in Keys \ keys : new[k] = old[k]
            /\ rsp'.status = "Ok" => \A k \in keys : applied(k)
            /\ rsp'.status = "Fail" =>
                 \E stop \in keys : /\ \A k \in keys : k < stop => applied(k)
                                    /\ \A k \in keys : k > stop => new[k] = old[k]
<1>1. KvInv /\ [Next]_vars => [AppliesAPrefix]_vars
  BY SetsApplyAPrefix DEF PrefixApplied, Applied
<1>2. QED
  BY <1>1, AlwaysKvInv, PTL DEF Spec, SetAppliesAPrefix

-----------------------------------------------------------------------------
(* The Python API *)

(* A call that returns and is no read got an Ok, and got it from this step. *)
LEMMA ReturnedCallsAreOk ==
  ASSUME ApiNext, call' # NoCall, call'.end = "returned",
         call'.op \notin Swallowing \cup {"KVCount"}
  PROVE  Next /\ rsp'.op = call'.op /\ rsp'.status = "Ok"
<1>1. ASSUME NEW op, call' = Failed(op) PROVE FALSE
  BY <1>1 DEF Failed, Returned
<1>2. ASSUME NEW op, NEW value, call' = Returned(op, value) PROVE call'.op = op
  BY <1>2 DEF Returned
<1>3. Next /\ call' \in CallEnds(rsp')
  BY <1>1 DEF ApiNext, Handled, RequestLost
<1>4. call' \in Checked(rsp')
  BY <1>1, <1>3 DEF CallEnds
<1>5. QED
  BY <1>1, <1>2, <1>3, <1>4 DEF Checked

(* The requests that clear answer with operations of their own. *)
LEMMA ClearsByName ==
  ASSUME KvInv, Next, rsp'.op \in ClearOps
  PROVE  \/ KVClear(rsp'.op, Main) /\ rsp'.op \in ClearsOfAll
         \/ KVClear(rsp'.op, rsp'.group) /\ rsp'.group \in Groups
<1> USE DEF ClearOps
<1>1. CASE Restart \/ KVGetAllOfMain
  BY <1>1, AnswerNamesItsRequest DEF Restart, KVGetAllOfMain, KvInv, RspInv
<1>2. CASE AnswerStarved
  BY <1>2 DEF AnswerStarved, Die, NoAnswer
<1>3. ASSUME NEW op, NEW group, KVClear(op, group)
      PROVE  rsp'.op = op /\ rsp'.group = group
  BY <1>3, AnswerNamesItsRequest DEF KVClear
<1>4. ASSUME NEW group, NEW keys, NEW starved,
             \/ KVCount(group) \/ KVGet(group, keys) \/ KVContains(group, keys)
             \/ KVGetFails(group, keys, starved)
      PROVE  FALSE
  BY <1>4 DEF KVCount, KVGet, KVContains, KVGetFails, NoAnswer
<1>5. ASSUME NEW group, NEW keys, KVGetUndefined(group, keys) \/ KVRmv(group, keys)
      PROVE  FALSE
  BY <1>5, AnswerNamesItsRequest DEF KVGetUndefined, KVRmv, Die, NoAnswer
<1>6. ASSUME NEW group, NEW items, NEW memory,
             \/ KVSet(group, items, memory) \/ KVAdd(group, items, memory)
             \/ KVClearSet(group, items, memory)
      PROVE  FALSE
  BY <1>6, AnswerNamesItsRequest DEF KVSet, KVAdd, SetOrAddIn, KVClearSet
<1>7. ASSUME NEW op \in {"KVSet", "KVAdd"}, NEW group, NEW items, GroupStarved(op, group, items)
      PROVE  FALSE
  BY <1>7, StarvedGroups
<1>8. QED
  BY <1>1, <1>2, <1>3, <1>4, <1>5, <1>6, <1>7 DEF Next, ClearsOfAll

(* A set or clear_set that is Ok: its values read back. *)
LEMMA SetsAreDone ==
  ASSUME ClientsAreWellBehaved, KvInv, Next, rsp'.op \in {"KVSet", "KVClearSet"},
         rsp'.status = "Ok"
  PROVE  /\ maps'[rsp'.group] # NoGroup
         /\ \A k \in DOMAIN rsp'.items : Applied(maps'[rsp'.group], rsp'.items, k)
         /\ rsp'.op = "KVClearSet" => KeysOf(maps'[rsp'.group]) = DOMAIN rsp'.items
<1>1. PICK group \in MapNames, items \in Items :
        \E memory \in Starvations(items) :
          \/ KVSet(group, items, memory) /\ rsp'.op = "KVSet"
          \/ KVClearSet(group, items, memory) /\ rsp'.op = "KVClearSet"
  BY StoresByName DEF Stores
<1>2. rsp'.group = group /\ rsp'.items = items
  BY <1>1, SetOrAddInMaps, ClearSetInMaps DEF KVSet
<1>3. maps'[group] # NoGroup
  <2>1. ASSUME NEW memory, SetOrAddIn("KVSet", group, items, TRUE, memory)
        PROVE  maps'[group] # NoGroup
    <3>1. maps' = [maps EXCEPT ![group] = SetOrAdd(MapOrEmpty(group), items, TRUE, memory).map]
      BY <2>1 DEF SetOrAddIn
    <3>2. SetOrAdd(MapOrEmpty(group), items, TRUE, memory).map \in GoodMaps
      BY MapOrEmptyIsGood, SetOrAddKeepsMaps DEF KvInv
    <3>3. QED
      BY <3>1, <3>2, GoodMapsAreMaps DEF KvInv, MapsInv
  <2>2. ASSUME NEW memory, KVClearSet(group, items, memory)
        PROVE  maps'[group] # NoGroup
    <3>1. Exists(group)
      BY <2>2, ClearSetInMaps
    <3>2. maps' = [maps EXCEPT ![group] = SetOrAdd(EmptyMap, items, TRUE, memory).map]
      BY <2>2, <3>1 DEF KVClearSet
    <3>3. SetOrAdd(EmptyMap, items, TRUE, memory).map \in GoodMaps
      BY EmptyMapIsGood, SetOrAddKeepsMaps
    <3>4. QED
      BY <3>2, <3>3, GoodMapsAreMaps DEF KvInv, MapsInv
  <2>3. QED
    BY <1>1, <2>1, <2>2 DEF KVSet
<1> DEFINE new == maps'[rsp'.group]
<1>4. /\ \A k \in DOMAIN items : Applied(new, items, k)
      /\ rsp'.op = "KVClearSet" => \A k \in Keys \ DOMAIN items : new[k] = EmptyMap[k]
  BY <1>2, <1>3, SetsApplyAPrefix DEF PrefixApplied
<1> HIDE DEF new
<1>5. ASSUME rsp'.op = "KVClearSet" PROVE KeysOf(new) = DOMAIN items
  <2>1. DOMAIN items \subseteq KeysOf(new)
    BY <1>4 DEF Applied
  <2>2. ASSUME NEW k \in KeysOf(new) PROVE k \in DOMAIN items
    BY <1>4, <1>5 DEF KeysOf, EmptyMap
  <2>3. QED
    BY <2>1, <2>2
<1>6. QED
  BY <1>2, <1>3, <1>4, <1>5 DEF new

(* An add that is Ok: its keys are there. *)
LEMMA AddsAreDone ==
  ASSUME KvInv, Next, rsp'.op = "KVAdd", rsp'.status = "Ok"
  PROVE  /\ maps'[rsp'.group] # NoGroup
         /\ \A k \in DOMAIN rsp'.items : maps'[rsp'.group][k] # NoEntry
<1>1. PICK group \in MapNames, items \in Items :
        \E memory \in Starvations(items) : KVAdd(group, items, memory)
  BY StoresByName DEF Stores
<1>2. PICK memory \in Starvations(items) : KVAdd(group, items, memory)
  BY <1>1
<1> DEFINE isSet == FALSE
           map == MapOrEmpty(group)
           new == AfterItems(map, items, isSet, memory)
<1>3. /\ maps'[group] = new /\ rsp'.group = group /\ rsp'.items = items
      /\ rsp'.status = Status(AllStored(map, items, isSet, memory))
  <2>1. SetOrAddIn("KVAdd", group, items, isSet, memory)
    BY <1>2 DEF KVAdd
  <2> HIDE DEF isSet
  <2>2. QED
    BY <2>1, SetOrAddInMaps
<1>4. AllStored(map, items, isSet, memory)
  BY <1>3 DEF Status
<1>5. new \in GoodMaps
  <2>1. map \in GoodMaps
    BY MapOrEmptyIsGood DEF KvInv
  <2> HIDE DEF map, isSet
  <2>2. QED
    BY <2>1, SetOrAddKeepsMaps, SetOrAddIs
<1> HIDE DEF map, isSet
<1>6. ASSUME NEW k \in DOMAIN items PROVE new[k] # NoEntry
  <2>1. k \in Reached(map, items, isSet, memory)
        /\ Stored(map, items, isSet, memory, k).valid
    BY <1>4, AllAreReached
  <2> DEFINE entry == map[k]
             value == items[k]
             at == At(memory, k)
  <2>2. /\ value \in Values /\ new[k] = Store(entry, value, isSet, at).entry
        /\ Store(entry, value, isSet, at).valid
    BY <2>1, ReachedKeys
  <2> HIDE DEF entry, value, at, new
  <2>3. QED
    BY <2>2, StoredIsThere
<1> HIDE DEF new
<1>7. QED
  BY <1>3, <1>5, <1>6, GoodMapsAreMaps

(* Whatever write or clear returns was done: its values read back, its keys are there,
   and what it was to clear is gone. *)
LEMMA ReturnedWritesAreDone ==
  ASSUME ClientsAreWellBehaved, KvInv, ApiNext, call' # NoCall, call'.end = "returned"
  PROVE  LET new == maps'[rsp'.group]
         IN  /\ call'.op \in WriteOps => new # NoGroup
             /\ call'.op \in WriteOps =>
                  \A k \in DOMAIN rsp'.items :
                    /\ new[k] # NoEntry
                    /\ call'.op # "KVAdd" =>
                         ~Undefined(new[k]) /\ Read(new[k]) = Readable(rsp'.items[k])
             /\ call'.op = "KVClearSet" => KeysOf(new) = DOMAIN rsp'.items
             /\ call'.op = "KVClearGroup" => new = NoGroup
             /\ call'.op = "KVClearGroupKeysOnly" => new \in {NoGroup, EmptyMap}
             /\ call'.op = "KVClearGroups" => \A g \in Groups : maps'[g] = NoGroup
             /\ call'.op = "KVClearGroupsKeysOnly" =>
                  \A g \in Groups : maps'[g] \in {NoGroup, EmptyMap}
             /\ call'.op = "KVClearAll" =>
                  maps' = [g \in MapNames |-> IF g = Main THEN EmptyMap ELSE NoGroup]
<1> DEFINE new == maps'[rsp'.group]
<1>1. ASSUME call'.op \notin Swallowing \cup {"KVCount"}
      PROVE  Next /\ rsp'.op = call'.op /\ rsp'.status = "Ok"
  BY <1>1, ReturnedCallsAreOk
<1>2. CASE call'.op \in {"KVSet", "KVClearSet"}
  <2>1. Next /\ rsp'.op = call'.op /\ rsp'.status = "Ok"
    BY <1>1, <1>2 DEF Swallowing
  <2>2. /\ new # NoGroup
        /\ \A k \in DOMAIN rsp'.items : Applied(new, rsp'.items, k)
        /\ call'.op = "KVClearSet" => KeysOf(new) = DOMAIN rsp'.items
    BY <1>2, <2>1, SetsAreDone
  <2> HIDE DEF new
  <2>3. ASSUME NEW k \in DOMAIN rsp'.items
        PROVE  /\ new[k] # NoEntry /\ ~Undefined(new[k])
               /\ Read(new[k]) = Readable(rsp'.items[k])
    BY <2>2 DEF Applied, KeysOf, Undefined
  <2>4. QED
    BY <1>2, <2>2, <2>3 DEF new
<1>3. CASE call'.op = "KVAdd"
  <2>1. Next /\ rsp'.op = call'.op /\ rsp'.status = "Ok"
    BY <1>1, <1>3 DEF Swallowing
  <2>2. /\ new # NoGroup
        /\ \A k \in DOMAIN rsp'.items : new[k] # NoEntry
    BY <1>3, <2>1, AddsAreDone
  <2>3. QED
    BY <1>3, <2>2
<1>4. CASE call'.op \in ClearOps
  <2>1. /\ Next /\ rsp'.op = call'.op
        /\ \/ KVClear(call'.op, Main) /\ call'.op \in ClearsOfAll
           \/ KVClear(call'.op, rsp'.group) /\ rsp'.group \in Groups
    BY <1>1, <1>4, ClearsByName DEF Swallowing, ClearOps
  <2>2. Groups \subseteq MapNames /\ Main \notin Groups
    BY KvConstants DEF MapNames
  <2>3. ASSUME NEW g, Emptied(g) \notin {NoGroup, EmptyMap} PROVE FALSE
    BY <2>3 DEF Emptied
  <2>4. /\ call'.op = "KVClearGroup" => new = NoGroup
        /\ call'.op = "KVClearGroupKeysOnly" => new \in {NoGroup, EmptyMap}
    BY <2>1, <2>2, <2>3 DEF KVClear, Cleared, ClearsOfAll
  <2>5. /\ call'.op = "KVClearGroups" => \A g \in Groups : maps'[g] = NoGroup
        /\ call'.op = "KVClearGroupsKeysOnly" =>
             \A g \in Groups : maps'[g] \in {NoGroup, EmptyMap}
    BY <2>1, <2>2, <2>3 DEF KVClear, Cleared
  <2>6. ASSUME call'.op = "KVClearAll"
        PROVE  maps' = [g \in MapNames |-> IF g = Main THEN EmptyMap ELSE NoGroup]
    BY <2>1, <2>6 DEF KVClear, Cleared
  <2>7. QED
    BY <1>4, <2>4, <2>5, <2>6 DEF WriteOps, ClearOps
<1>5. QED
  BY <1>2, <1>3, <1>4 DEF WriteOps, ClearOps

(* The calls of the API are the handlers' steps, or leave the server alone. *)
LEMMA ApiKeepsKvInv == ApiSpec => []KvInv
<1>1. ApiInit => KvInv
  BY InitKvInv DEF ApiInit
<1>2. KvInv /\ [ApiNext]_apiVars => KvInv'
  <2>1. [ApiNext]_apiVars => [Next]_vars
    BY DEF ApiNext, Handled, RequestLost, apiVars, vars
  <2>2. QED
    BY <2>1, StepKvInv
<1>3. QED
  BY <1>1, <1>2, PTL DEF ApiSpec

(* Whatever was lost or failed on the way, a set, add, clear_set or clear that returns
   was done; all others raise (kv.py). *)
THEOREM WritesReturnOnlyWhenDone ==
  ASSUME ClientsAreWellBehaved PROVE ApiSpec => WritesAreDoneOrRaise
<1> DEFINE Done ==
      call' # NoCall /\ call'.end = "returned" =>
        LET new == maps'[rsp'.group]
        IN  /\ call'.op \in WriteOps => new # NoGroup
            /\ call'.op \in WriteOps =>
                 \A k \in DOMAIN rsp'.items :
                   /\ new[k] # NoEntry
                   /\ call'.op # "KVAdd" =>
                        ~Undefined(new[k]) /\ Read(new[k]) = Readable(rsp'.items[k])
            /\ call'.op = "KVClearSet" => KeysOf(new) = DOMAIN rsp'.items
            /\ call'.op = "KVClearGroup" => new = NoGroup
            /\ call'.op = "KVClearGroupKeysOnly" => new \in {NoGroup, EmptyMap}
            /\ call'.op = "KVClearGroups" => \A g \in Groups : maps'[g] = NoGroup
            /\ call'.op = "KVClearGroupsKeysOnly" =>
                 \A g \in Groups : maps'[g] \in {NoGroup, EmptyMap}
            /\ call'.op = "KVClearAll" =>
                 maps' = [g \in MapNames |-> IF g = Main THEN EmptyMap ELSE NoGroup]
<1>1. KvInv /\ [ApiNext]_apiVars => [Done]_apiVars
  BY ReturnedWritesAreDone
<1>2. QED
  BY <1>1, ApiKeepsKvInv, PTL DEF ApiSpec, WritesAreDoneOrRaise
=============================================================================
