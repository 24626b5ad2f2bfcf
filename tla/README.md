# fcache in TLA+

Specifications, model-checking runs and machine-checked proofs for fcache: an
in-memory cache server in C++ (`src/server`) spoken to over WebSockets, and its
Python client library (`src/apis/python/fc`). File names below are relative to
the repository.

Run a model with `tlc -config X.cfg M`, a proof with `tlapm M.tla`, in this
directory.

## The system

```
 caller ──> List / KV API ──> Client.sendCmd ──> Connection ═══ WebSocket ═══ Server ──> KvHandler ──> CacheMap
            (list.py, kv.py)   (client.py)      (connection.py)              (Server.cpp)  ListHandler ──> list operations
```

| Part | State | Operations | Talks to |
|---|---|---|---|
| List operations (`ListOperations.hpp`) | none: functors on one `std::list` | add, append, set, get range, remove, remove_if, intersect | called through `std::visit` by the list handler |
| List handler (`ListHandler.cpp/.hpp`, `List.hpp`) | `m_lists`: name → list with a fixed type and sortedness | ten requests, each finishing one response builder, some twice | the dispatch calls it, one request at a time |
| Key-value handler and map (`KvHandler.cpp/.hpp`, `Map.hpp/.cpp`, `KvCommon.hpp`) | `m_map`, `m_groups`: key → tagged variant of a fixed value or bytes | eight requests | as above |
| Server dispatch (`Server.cpp` 149-309) | none | parses the identifier and body type, calls a handler, sends | worker thread only |
| Server lifecycle (`Server.cpp` 8-146, `fcache.cpp`) | clients, sockets, `m_run`, two latches, the worker thread | init, start, stop, signals; connections that open, send and close | main thread against worker thread |
| Command line (`fcache.cpp` 29-99) | none | address, port and payload limit | main |
| Value encoding (`Map.hpp`, `Map.cpp`) | none: bytes of a value | store, extract | CacheMap |
| Python connection (`connection.py`) | `opened`, `ws`, `rspEvt`, `message`, `connectedSem`, two tasks | start, open, query, close | coroutines of one event loop; the socket |
| Client and helpers (`client.py`, `common.py`) | none | sendCmd, raise_if_fail | Connection |
| Python APIs (`list.py`, `kv.py`) | none | build a request, map a response to a value or exception | Client |
| Memory pools (`Memory.hpp`) | two pool resources | allocate | CacheMap |
| Schemas, logging, tests, examples, benchmark | – | – | – |

**What is hard.** The server handles requests on one thread, so its difficulty
is not interleaving but sequences: a list created sorted must stay sorted
through every request that can reach it; an entry must stay readable through
changes of kind and failed allocations; a request of several items may stop
half-way; a response may be finished twice. Positions are signed, relative to
either end, and possibly out of range, in code that resolves them in more than
one place. The client is the concurrent part: one event and one message slot
shared by whatever coroutines send, a 5-second timeout that takes nothing back,
a link that may break at any point, responses the server may drop. The server's
start and stop cross two threads, two latches and a signal handler.

**What makes each part correct.**

- *List operations*: all of them mean the same nodes by a range; shortcuts agree
  with the plain search; order and content are kept.
- *List handler*: sorted lists ascend; a refused request changes nothing; a
  request changes only the lists it names, an intersection none that is there; answers
  say what became of the list.
- *Key-value handler*: tag and variant agree; nothing is half stored silently;
  groups are apart, and the main map outlives their clears; an add never overwrites; a
  set applies a prefix.
- *Connection*: answers are those of their own request, and one that arrived is
  returned.
- *Encoding*: what is stored reads back, whatever NULs and empty parts it holds.
- *Python APIs*: a call that returns did what it says; a read means a slice.
- *Lifecycle*: start returns and reports what happened; the clients in the set are
  the open ones, so stop reaches all; the threads race in stop only; a signal ends
  the process.

## Modules

| Module | Models | Notes |
|---|---|---|
| `ListOps` | `ListOperations.hpp` as operators on sequences | C++ indices are kept 0-based with an exclusive end; an iterator is a position in `1..Len+1`. `std::lower_bound` and friends are external |
| `SortedAdd` | `Add<true>` emplace by emplace | branch dispatch, loop index, iterator; holds the inductive invariant |
| `ListApi` | the ranges `list.py` builds, and the calls it answers by itself | operators on one list |
| `ListHandler` | the table of lists, one action per request | extends `ListApi`; `rsp` is the response sent last |
| `KvCodec` | how a value becomes bytes and comes back | operators; a cell for each character, scalar or length |
| `KvHandler` | main map, groups, one action per request | extends `KvCodec`; `Store` is `CacheMap::setOrAdd`, `SetOrAdd` the loop over items |
| `KvApi` | `kv.py` over the handler | each handler step with the end of its call: returned or raised; and calls whose request is lost |
| `CommandLine` | `getCmdArgs`, turn by turn of its option loop | sizes are narrowed, then clamped |
| `ServerLifecycle` | `main`, `Server`'s constructor to destructor, the worker, signals, clients | extends `CommandLine`; two threads that interleave between any two accesses to shared state |
| `Rpc` | what `sendCmd` promises | the abstract specification: a call ends with its own answer or an error |
| `Connection` | `connection.py` between callers and server | two FIFO channels; the step between two `await`s is atomic |
| `MC…` | instances for TLC | sets of positions and ranges, reference definitions (`MCListOps`) |
| `…Proofs`, `InductionFacts` | theorems and the lemmas under them | see Proofs |

Correspondence of state: `lists` is `m_lists`; `maps[Main]` is `m_map` and
`maps[g]` is `m_groups[g].kv`; in `Connection` `opened`, `sem`, `rspEvt` and
`message` are the fields of that name, `openTask` says where `open()` is,
`waiting[c]` is the request whose `_query` awaits the event and `woken` are the
waiters that `Event.set()` has scheduled but that have not run. In
`ServerLifecycle` `main` and `worker` are where the two threads are (`worker` with
the client whose callback it runs), `startLatch`, `runLatch`, `m_run`, `m_clients`
and `m_sockets` are the code's, `handlers` says that the two handlers exist,
`open` holds the connections uWS has open and `end()` was not called for, and
`toEnd` what is left of stop's walk. `rsp`, `call`, `report`, and `result` and
`base` (in `SortedAdd`), only record what happened, for the properties.

Modelling decisions:

- *Atomic handlers.* uWebSockets runs every callback on the one worker thread;
  a handler is one action. When the process dies, all is lost; a new process
  starts empty (`Restart`).
- *Requests are those the Python API can send*: items never empty, of the list's
  type, really sorted when flagged; `remove` and `remove_if_eq` pass
  `_is_range_valid` first.
- *Responses*: `Respond` takes the sequence of statuses a handler finishes and
  sends the last. This is the Release build (the default of
  `server/CMakeLists.txt`), where FlatBuffers' assertions are compiled out.
- *Undefined behaviour*: erasing a reversed range, and reading a string or blob
  with no bytes, end the process (`ListRemoveReversed`, `KVGetUndefined`).
- *Values* are integers in lists (only their order matters). In maps they have a
  type and a content, and are stored as cells (`Encode`) and read back (`Decode`):
  a string goes in by its `c_str()`, so it ends at its first NUL; a vector of
  strings is one run of cells divided by NULs; a double is narrowed to a float.
  A dict is a value the server refuses.
- *Allocation* may fail, with `MayStarve`, when a group is created (`GroupStarved`), at
  an entry or at its bytes, or while an answer is built. Entry without bytes (`HalfStored`): a typed vector then
  reads as an empty list, a string or blob through a null pointer.
- *The server's threads* interleave at every access to what they share. Where both
  may be in `m_clients` or inside uWS at once, or one calls a client or handler that
  is gone, the process dies or goes on (`Crash` beside the ordinary outcome); after
  stop that holds of `m_clients` too, which is destroyed before the worker is joined. A
  connection accepted before the listen socket is closed may open after that. A
  client is identified by the address of its WebSocket, which may be used again.
  uWS calls the listen callback exactly once, with null when there is no socket or
  the app could not be made, and never with a socket that is closed already, which
  `Server.cpp:105` allows for; its loop returns when it has no socket left.
- *Signals* may come from the first statement of `main` on. `std::latch::wait`
  returns at zero and only there; the counter may fall below.
- *The event loop*: `Event.set()` makes its waiters runnable ahead of the next
  `recv()`, so `Receive` waits until `woken` is empty; other coroutines and
  deadlines come in between. A query finding the event set does not suspend, and
  neither does `ws.send`, which would only while the socket's write buffer is full.
  `Outcome` compares body types only: a response of its query's type is an answer to it
  whatever its status, for which `raise_if_fail` may still raise.

## Runs

All runs use the constants in their `.cfg`. Numbers are distinct states.

| Run | Config | Checks | Size |
|---|---|---|---|
| `list_ops` | `MCListOps` | all lists of ≤ 4 nodes over 3 values, vectors of ≤ 2 items, positions −5..5: reads are Python slices; reads, removes, remove_if and intersect mean the same nodes by a range; counted reads are windows, head and tail calls meet the end items; the sorted add is a merge; both forms of remove_if agree; insert keeps order; set overwrites in place | 1 452 |
| `sorted_add` | `MCSortedAdd` | vectors of ≤ 3 of 4 values on a list of ≤ 5 nodes, any sequence of requests: order, content, the inductive invariant, equality with `ListOps!SortedAdd` | 18 825 |
| `lists` | `MCListHandler` | two names, two types, two values, ≤ 2 items a request, ≤ 3 nodes, positions before, at and past both ends: sortedness, answered sizes, refusals; a request changes only lists it names (all, if a delete names none) and an intersection none that is there; kinds, and which removes stay defined | 34 585 (names symmetric) |
| `lists_missing` | `MCListHandler_missing` | violated: `OkMeansListExists` | |
| `set_out_of_bounds` | `MCListOps_set` | violated: `SetOutOfBoundsChangesNothing` | |
| `kv` | `MCKvApi` | two keys with values of every layout, the main map and two groups, starvation and lost frames anywhere: entries keep their tag, read back what was given, half-stored ones are reported, an add never overwrites, a set applies a prefix; a request changes its group's map only, and a clear of the groups never the main map; reads are served while memory lasts, and a write of any kind that returns was done | 6 499 |
| `silent_failures` | `MCKvApi_silent` | violated: `FailuresAreRaised` | |
| `lifecycle` | `MCServerLifecycle` | command lines of two options with texts and with sizes at and past every limit, three clients, two signals: what `start` reports, which clients the set holds, where the threads race, `stop`'s walk, `start` returns, a signal ends the process | 42 282 |
| `prompt` | `MCConnection_prompt` | one caller, four requests, no timeouts but a link that loses and breaks: `AnswerIsOwn`; `Connection` implements `Rpc`; and an answer that arrived is returned, although the link breaks and `open()` ends and clears the event | 620 |
| `shared` | `MCConnection_shared` | two callers, three requests, timeouts and losses: a set event means an unread message; responses never go back | 23 468 |
| `stale_answer` | `MCConnection_stale` | violated: `AnswerIsOwn` when an answer may be late | |
| `start_hangs` | `MCConnection_start` | violated: `StartEnds` | |

**Why the bounds suffice.** List code distinguishes the ends, the inside, equal
neighbours and positions at, before and past either end; three to four nodes
and positions two past each end give every combination, and a third value gives
an item below, between and above two others. Two names and themselves fill the
three roles of an intersection (`a ∩ a` into `b`, into `a` itself, `a ∩ b` into
either). In the maps two keys are a first and a later one, which is all a
prefix needs; the kinds of values carry the rest: one key changes between a fixed
value and both texts, the other between strings with an empty one inside and a dict
that is refused. Two groups and the main map are a target, a bystander and the
default. The view of `kv` leaves `rsp` and `call` out, which no step reads; TLC still
evaluates action properties on every step it generates. Three clients are one whose
callback runs, one that stop's walk meets and one that arrives during it; a second
signal is all that a latch needs to go wrong. Payload sizes are scaled down: 2^32 is
`UIntRange`. On the connection two callers
are enough to wake one another and three requests to have one timed out, one
late and one current.

**Deadlock** is checked except on the connection, where a client whose requests
are spent, or whose connection is closed, rightly stops, and in `lifecycle`, where
the process ends, or waits for ever as described below.

**Fairness** (`Connection!Fairness`) is weak: the asyncio loop runs a coroutine
that can run (`Start`, `StartReturns`, `Receive`, `Wake`, `OpenEnds`),
`connect(open_timeout=5)` ends one way or another, the server's loop serves what
has arrived, and the timer of `wait_for` fires. No fairness is put on what a
user does or what is lost, nor on dropping a response.
`ServerLifecycle!FairSpec` has weak fairness for each thread: the scheduler runs a
thread that can run. No client has to connect, send or leave, and no signal has to
come.

**Mutants.** Each module keeps, before a definition and marked "Slip", the
variants that a plausible mistake would give (a search from the wrong node, an
event not cleared, an add that overwrites). `PROJECT.json` pairs each property
of a passing run with one that violates it.

## Where code and documentation disagree

Shown by a run:

- `lists_missing`: `set` and `remove` on a missing list answer Ok
  (`ListHandler.cpp:91`, `:188`): `haveList`'s Fail is finished first and then
  replaced. `list.py:23` promises a ResponseError.
- `set_out_of_bounds`: position −5 on three nodes is translated to −2 by `Set`
  and to 1 by `positionsToIndices`; `test_list.py:276` expects an out-of-bounds
  set to leave the list alone.
- `stale_answer`: an answer that arrives after its query timed out is returned
  by the next query of the same body type (`connection.py:73-75`).
- `silent_failures`: `get`, `remove` and `contains` catch every exception, log it
  and return (`kv.py:234`, `:95`, `:142`), so a failed read looks like a missing
  key; `kv.py:24` promises a ResponseError.
- `start_hangs`: `connect()` failing with anything but an OSError leaves `start()`
  waiting (`connection.py:43-48`); `client.py:34` promises an OSError.

Met while modelling and kept in the models as the code has them, without a run:
a stop before the head is folded back by `labs()` instead of being invalid
(`ListOperations.hpp:36`, `get_range.md`; `list_ops` excludes such stops where
it compares with slices); an intersection into a name that is taken answers Ok
and drops the matches (`ListHandler.cpp:413`, `intersect.md`); an intersection
of an invalid or empty range copies a flexbuffer nobody finished
(`ListOperations.hpp:469`, against the comment at `ListHandler.cpp:273`); a
disconnect does not cancel the active query, which runs into its timeout
(`connection.py:61-64`); two callers woken by one frame both take it; a remove from
3 to −4 of five nodes, or from 3 to 0, passes the client's check and erases a
reversed range (`list.py:300`, `ListOperations.hpp:310`); a string is cut at its
first NUL (`KvHandler.hpp:63`).

In the server's life, likewise: a client that connects after stop's walk and before
the listen socket is closed is never ended, so the join waits until it leaves by
itself (`Server.cpp:17-31`; `Stranded` in `SignalEndsServer`); a second signal that
comes before `run.wait()` has seen zero takes the latch below it, and the process
waits for ever (`fcache.cpp:25`); a client that leaves during the walk is ended
after it is gone (`Server.cpp:94`); the handlers are destroyed before the worker is
joined (`Server.hpp:56-72`). On the command line: `--maxPayload` of 2^32 is narrowed
to 0 and clamped to the minimum, where the warning announces the maximum
(`fcache.cpp:78-80`); `-p` and `-port=…` are refused, though `README.md:121` and
`:128` show them; `--ip <ipv4>`, as the usage text has it, gives a null `optarg`,
which is assigned to a string (`fcache.cpp:31`, `:59`).

## Proofs

| Module | Theorem | Says, for all constants |
|---|---|---|
| `InductionFacts` | – | lemmas: induction over the naturals and up to a bound, and what it says of functions defined by recursion over `0..n` (one exists, and there is no other) |
| `ListOpsProofs` | – | lemmas: what each operator of `ListOps` returns – its length, its items, the order it keeps – by induction over the items |
| `MCListOpsProofs` | `ReadsReturnSlices`, `OperationsShareRanges`, `SortedAddsMerge`, `BothFormsRemoveAlike`, `InsertsKeepOrder`, `SetsOverwriteInPlace` | the six comparisons of the run `list_ops`, for lists, items and positions of any length and size |
| `SortedAddProofs` | `InductiveInvariant`, `TypeCorrect`, `ListAlwaysAscends`, `NothingIsLost` | `Spec => []IInv`, and from it the type invariant, `ListAscends` and `AddKeepsEverything` |
| | `LoopsAreTheOperator` | the loops end with the list that `ListOps!SortedAdd` computes: `LoopIsSortedAdd` |
| `ListHandlerProofs` | `AlwaysShaped`, `RefusedRequestsChangeNothing`, `RequestsKeepToTheirLists`, `ListsKeepTheirKind` | every name holds no list or a record; the three action properties |
| | `ListTypesAreKept`, `SortedListsStaySorted`, `AnsweredSizesAreRight`, `RemovesOfOneSignAreDefined` | the four invariants of the run `lists` |
| `KvHandlerProofs` | `GroupsStayApart` | `GroupsAreApart` |
| | `KvTypesAreKept`, `TagsMatchVariants`, `AddsNeverOverwrite`, `MemoryIsAllItTakes` | `TypeOK`, `TagMatchesVariant`, `AddNeverOverwrites`, `ServesWhileMemoryLasts` |
| | `HalfStoredAreReported`, `SetsApplyPrefixes` | with clients that are well behaved (below): `HalfStoredIsReported`, `SetAppliesAPrefix` |
| | `WritesReturnOnlyWhenDone` | with such clients, of the Python API: `WritesAreDoneOrRaise` |
| `ConnectionProofs` | `TypesAreKept`, `EventsAnnounceUnread`, `ResponsesKeepTheirOrder` | any callers, any losses: `TypeOK`, `SetEventMeansUnread`, `ResponsesNeverGoBack` |
| | `AnswersAreOwn`, `ConnectionIsRpc` | one caller at a time and no late answers: `AnswerIsOwn`, and every step is a step of `Rpc` or a stutter |
| | `NoArrivedAnswerIsLost` | under the same premises: `ArrivedAnswersAreReturned` |
| `ServerLifecycleProofs` | `StartReportsTheTruth`, `RacesAreStops`, `OpenClientsAreTracked`, `WalkKeepsClients` | `ReportIsTrue`, `OnlyStopRaces`, `TracksOpenClients`, `WalkSparesClients` |
| | `LifecycleTypesAreKept`, `PayloadIsBounded` | `TypeOK`; `PayloadBounded`, for command lines of any length |

**Assumptions** are the named ones of the modules: item vectors are non-empty
sequences of integers (`ItemsAssumption`), constants are integers and sets of
the stated form (`ListConstants`, `KvConstants`, `MaxRequestsAssumption`,
`PayloadConstants`, `LifecycleConstants`, `ProbeConstants`), and
the markers for "none" differ from what they mark. TLC evaluates them on every run.
Premises of single theorems: `Alone` (one caller) and `Prompt` (no timeouts) on the
connection, which the run `prompt` meets and without which `stale_answer` is the
counterexample; and `ClientsAreWellBehaved` in the maps: the values a client gives,
unless the server refuses their type, are those `createKvMap` builds – a scalar, a
text, or a list with at least one element, whose strings hold no NUL
(`common.py:54-108` refuses empty lists, the flexbuffer library NULs in keys). What it
leaves out is an empty `array.array`. `MCKvApi` assumes it of its values, so TLC
evaluates it too.

**Induction over data.** What a recursion computes is not out of reach as long as it is
written as a function on `0..n`: a set is something the provers can instantiate, so
`InductionFacts` states induction for sets, and a property P is proved by citing it
with `{k \in 0..n : P(k)}`. That is why `ListOps` and `CommandLine` define their loops
as recursive functions, and why `KvHandler!SetOrAdd` says what a loop over distinct keys
does at each key.

- *Sorted add.* `ListAscends` is not inductive: an emplace is only safe because
  of what the branch knows. `BranchInv` states it: in front, the item is no
  higher than the head; behind, no lower than the tail; at the cursor, the
  iterator stands on the item emplaced last, which the next item is not below.
  `LoopInv` keeps the index in range and the flagged items ascending,
  `ContentInv` counts what is done. All four emplaces go through one lemma:
  inserting between a lower and an upper part keeps the order and adds one
  element. The run `sorted_add` checks `IInv` with TLC as well. `PathInv` follows the
  loops along the operator's recursions, one emplace to one index.
- *Operations against their references.* Each comparison holds of every sequence of
  integers, so the invariant under them only says that list and items are such
  sequences (`ProbesAreLists`). The references pick the nodes at a set of positions (`ItemsAt`);
  three lemmas carry the rest: at a run of positions they are a slice (`ItemsAtRun`),
  outside it what `Cut` leaves (`ItemsAtRest`), and a value's copies in and out of a cut
  add up (`CopiesOfCut`). For the two forms of remove_if, `EqualRange` on an ascending
  list is shown to bound exactly the nodes with the value.
- *Lists.* The action properties need no more than the shape of the
  table; the work is in the handlers: an answer finished twice, one list
  replaced, a list created only under a free name. `SortedListsAscend` is not
  inductive without types: `ListInv` adds that every item is of its list's type, and
  that an answered size was that of the list. Each handler has a lemma, which rests
  on what `ListOpsProofs` says of the operator it calls.
- *Maps.* `KvInv`: every entry is a cached value whose tag agrees with its variant, and
  a process that is gone has answered nothing. One lemma per way that
  `CacheMap::setOrAdd` ends; `AfterItems` is what its loop leaves. A value reads back
  because of the codec's `RoundTrip`: the string a scan finds between two NULs is
  the string that was written there, by induction over the strings of a list
  (`StringsComeBack`). The prefix of a failed set ends at the least failing key.
- *Connection.* `OwnInv` follows the one request under way: not sent, at
  the server, on the way back, arrived with its caller woken, or lost; `ConnectionIsRpc`
  maps each step with it. `WakeInv` says that whoever waits for the message read last
  has been woken; so `open()`, which ends only when `recv()` has nothing left to deliver
  and the woken have run, takes no answer with it. `OrderInv`, for any number of callers, says that responses
  taken, the message, the frames on their way back and the requests on their way out
  are numbered in that order.
- *Lifecycle.* Three invariants, one on the other. `StartInv` ties the start latch to
  the worker's place: it is down only when socket and flag have their last values,
  which is all `start` may read without a lock. `RaceInv` says where the main thread
  is when the flag is up and when the handlers exist, so that every action that can
  end the process is shown to happen in stop. `ClientsInv` says that a client whose
  close callback runs is no longer open, without which an erase could lose one.
  `PayloadInv` holds from the default on: every turn of the option loop keeps the limit
  within its bounds, which is an induction over the options.

**Only model-checked**: liveness (`StartReturns`, `SignalEndsServer` and
the fairness half of `ImplementsRpc`), which the prover does not cover. That a theorem's
premise is needed is also for TLC: the runs that expect a violation show it.

## Not modelled

Parse failures and unknown commands, which no request of the Python API meets; the
memory pools (`Memory.hpp`) beyond "an allocation may fail": two
pool resources of the standard library, with no logic of their own in Release; NaN in
sorted float lists; how the calls of `list.py` turn a failed response into an
exception, which is `raise_if_fail` as in `Connection` and `KvApi`; address and port
on the command line, of which only the form matters; compression and TLS settings
of uWS; schemas and logging, which hold no state that matters; the memory benchmark
and the examples, which are other programs.

## Plan

Done, in this order: `ListOps`, `SortedAdd`, `ListHandler`, `KvHandler`, `Rpc` and
`Connection`, with their proofs; then `KvCodec`, `KvApi`, `ListApi`, `CommandLine`
and `ServerLifecycle`.

Then the proofs of every invariant and action property of the passing runs, with
`InductionFacts` and `ListOpsProofs` under them.

Next:

1. `Fcache`: callers, `Connection` and the list handler composed, so that what a
   caller learns from its answers is compared with the lists.
