----------------------- MODULE ServerLifecycleProofs -----------------------
(***************************************************************************)
(* For any clients, signals and command lines: what Server::start reports  *)
(* is what happened, the clients in m_clients are the open ones until stop *)
(* takes over, the two threads race in stop only, and stop's walk loses no *)
(* client to the close callbacks it provokes.  The variables keep their    *)
(* types; that the limit of a payload keeps its bounds is an induction     *)
(* over the options of the command line.                                   *)
(***************************************************************************)
EXTENDS ServerLifecycle, InductionFacts, SequenceTheorems, TLAPS

Stopping == {"walk", "clear", "destroy", "join"}
BeforeWorker == {"args", "init", "start"}

(* How far the listen callback has come, and what may be reported by then: the latch
   is down only when the flag and the socket have their last values. *)
StartInv ==
  /\ main \in BeforeWorker => worker.at = "none"
  /\ worker.at \in {"none", "listen"} => startLatch = 1 /\ ~listening /\ ~m_sockets
  /\ worker.at = "publish" => startLatch = 1 /\ listening
  /\ m_sockets => listening
  /\ report = "notListening" => startLatch = 0
  /\ ReportIsTrue

(* The flag goes down with stop's first step, and the handlers are there whenever a
   worker runs until then. *)
RaceInv ==
  /\ main \in Places
  /\ main \in Stopping => ~m_run
  /\ main = "done" /\ worker.at # "none" => ~m_run
  /\ main \in {"start", "startWait", "runWait"} => handlers
  /\ main = "return" /\ worker.at # "none" => handlers
  /\ OnlyStopRaces

(* A client whose close callback runs is not open. *)
ClientsInv ==
  /\ worker.at \in {"check", "erase"} => worker.client \notin open
  /\ TracksOpenClients

IInv == StartInv /\ RaceInv /\ ClientsInv

-----------------------------------------------------------------------------
(* A connection that opens, whatever becomes of the walk. *)
LEMMA OpenEffect ==
  ASSUME NEW c \in Clients, Open(c)
  PROVE  \/ /\ worker = Loop /\ listening
            /\ open' = open \cup {c} /\ m_clients' = m_clients \cup {c}
            /\ UNCHANGED <<main, worker, crashed, start, latches, m_run, m_sockets, handlers>>
         \/ MainHasClients /\ Crash
  BY Zenon DEF Open

(* The invariant holds at first: no worker, no clients. *)
LEMMA InitIsInv == Init => IInv
  BY DEF Init, IInv, StartInv, ReportIsTrue, RaceInv, OnlyStopRaces, Places, Stopping,
         ClientsInv, TracksOpenClients, At

(* What is reported stays true: only the listen callback writes the flag, and it has done
   so when the latch is down. *)
LEMMA StartStep ==
  ASSUME StartInv, ~crashed, Next
  PROVE  StartInv'
<1> USE DEF StartInv, ReportIsTrue, BeforeWorker, At, Loop, start, latches, uws
<1>1. CASE \E options \in CommandLines : ParseArgs(options)
  BY <1>1 DEF ParseArgs, Crash
<1>2. CASE InitHandlers
  BY <1>2 DEF InitHandlers
<1>3. CASE InitFails
  BY <1>3 DEF InitFails
<1>4. CASE StartWorker
  BY <1>4 DEF StartWorker
<1>5. CASE SpawnFails
  BY <1>5 DEF SpawnFails, StartFails
<1>6. CASE NotListening
  BY <1>6 DEF NotListening, StartFails
<1>7. CASE NoAffinity
  BY <1>7 DEF NoAffinity, StartFails
<1>8. CASE Started
  BY <1>8 DEF Started
<1>9. CASE RunWaitReturns
  BY <1>9 DEF RunWaitReturns
<1>10. CASE Stop
  BY <1>10 DEF Stop
<1>11. CASE CloseSockets
  BY <1>11 DEF CloseSockets, Crash, InCallback
<1>12. CASE ClearClients
  BY <1>12 DEF ClearClients
<1>13. CASE DestroyHandlers
  BY <1>13 DEF DestroyHandlers
<1>14. CASE Join
  BY <1>14 DEF Join
<1>15. CASE \E c \in Clients : EndClient(c)
  BY <1>15 DEF EndClient, InCallback, Crash
<1>16. CASE Bound
  BY <1>16 DEF Bound
<1>17. CASE ListenFails
  BY <1>17 DEF ListenFails
<1>18. CASE Handled
  BY <1>18 DEF Handled, Crash
<1>19. CASE Check
  BY <1>19 DEF Check
<1>20. CASE Erase
  BY <1>20 DEF Erase, Crash, MainHasClients
<1>21. CASE RunReturns
  BY <1>21 DEF RunReturns
<1>22. CASE \E c \in Clients : Open(c)
  BY <1>22, OpenEffect DEF MainHasClients, Crash
<1>23. CASE \E c \in Clients : Message(c)
  BY <1>23 DEF Message
<1>24. CASE \E c \in Clients : Close(c)
  BY <1>24 DEF Close
<1>25. CASE Signal
  BY <1>25 DEF Signal
<1>26. QED
  BY <1>1, <1>2, <1>3, <1>4, <1>5, <1>6, <1>7, <1>8, <1>9, <1>10, <1>11, <1>12, <1>13, <1>14,
     <1>15, <1>16, <1>17, <1>18, <1>19, <1>20, <1>21, <1>22, <1>23, <1>24, <1>25 DEF Next,
     MainNext, WorkerNext, ClientNext

(* The process dies in stop, or of its command line. *)
LEMMA RaceStep ==
  ASSUME StartInv, RaceInv, ~crashed, Next
  PROVE  RaceInv'
<1> USE DEF StartInv, RaceInv, OnlyStopRaces, Stopping, BeforeWorker, Places, At, Loop, start, latches, uws
<1>1. CASE \E options \in CommandLines : ParseArgs(options)
  BY <1>1 DEF ParseArgs, Crash
<1>2. CASE InitHandlers
  BY <1>2 DEF InitHandlers
<1>3. CASE InitFails
  BY <1>3 DEF InitFails
<1>4. CASE StartWorker
  BY <1>4 DEF StartWorker
<1>5. CASE SpawnFails
  BY <1>5 DEF SpawnFails, StartFails
<1>6. CASE NotListening
  BY <1>6 DEF NotListening, StartFails
<1>7. CASE NoAffinity
  BY <1>7 DEF NoAffinity, StartFails
<1>8. CASE Started
  BY <1>8 DEF Started
<1>9. CASE RunWaitReturns
  BY <1>9 DEF RunWaitReturns
<1>10. CASE Stop
  BY <1>10 DEF Stop
<1>11. CASE CloseSockets
  BY <1>11 DEF CloseSockets, Crash, InCallback
<1>12. CASE ClearClients
  BY <1>12 DEF ClearClients
<1>13. CASE DestroyHandlers
  BY <1>13 DEF DestroyHandlers
<1>14. CASE Join
  BY <1>14 DEF Join
<1>15. CASE \E c \in Clients : EndClient(c)
  BY <1>15 DEF EndClient, InCallback, Crash
<1>16. CASE Bound
  BY <1>16 DEF Bound
<1>17. CASE ListenFails
  BY <1>17 DEF ListenFails
<1>18. CASE Handled
  BY <1>18 DEF Handled, Crash
<1>19. CASE Check
  BY <1>19 DEF Check
<1>20. CASE Erase
  BY <1>20 DEF Erase, Crash, MainHasClients
<1>21. CASE RunReturns
  BY <1>21 DEF RunReturns
<1>22. CASE \E c \in Clients : Open(c)
  BY <1>22, OpenEffect DEF MainHasClients, Crash
<1>23. CASE \E c \in Clients : Message(c)
  BY <1>23 DEF Message
<1>24. CASE \E c \in Clients : Close(c)
  BY <1>24 DEF Close
<1>25. CASE Signal
  BY <1>25 DEF Signal
<1>26. QED
  BY <1>1, <1>2, <1>3, <1>4, <1>5, <1>6, <1>7, <1>8, <1>9, <1>10, <1>11, <1>12, <1>13, <1>14,
     <1>15, <1>16, <1>17, <1>18, <1>19, <1>20, <1>21, <1>22, <1>23, <1>24, <1>25 DEF Next,
     MainNext, WorkerNext, ClientNext

(* A connection enters m_clients as it opens; the callback that saw it close takes it out,
   as long as the flag is up. *)
LEMMA ClientsStep ==
  ASSUME StartInv, RaceInv, ClientsInv, ~crashed, Next
  PROVE  ClientsInv'
<1> USE DEF StartInv, BeforeWorker, RaceInv, ClientsInv, TracksOpenClients, Stopping, At, Loop, start, latches, uws
<1>1. CASE \E options \in CommandLines : ParseArgs(options)
  BY <1>1 DEF ParseArgs, Crash
<1>2. CASE InitHandlers
  BY <1>2 DEF InitHandlers
<1>3. CASE InitFails
  BY <1>3 DEF InitFails
<1>4. CASE StartWorker
  BY <1>4 DEF StartWorker
<1>5. CASE SpawnFails
  BY <1>5 DEF SpawnFails, StartFails
<1>6. CASE NotListening
  BY <1>6 DEF NotListening, StartFails
<1>7. CASE NoAffinity
  BY <1>7 DEF NoAffinity, StartFails
<1>8. CASE Started
  BY <1>8 DEF Started
<1>9. CASE RunWaitReturns
  BY <1>9 DEF RunWaitReturns
<1>10. CASE Stop
  BY <1>10 DEF Stop
<1>11. CASE CloseSockets
  BY <1>11 DEF CloseSockets, Crash, InCallback
<1>12. CASE ClearClients
  BY <1>12 DEF ClearClients
<1>13. CASE DestroyHandlers
  BY <1>13 DEF DestroyHandlers
<1>14. CASE Join
  BY <1>14 DEF Join
<1>15. CASE \E c \in Clients : EndClient(c)
  BY <1>15 DEF EndClient, InCallback, Crash
<1>16. CASE Bound
  BY <1>16 DEF Bound
<1>17. CASE ListenFails
  BY <1>17 DEF ListenFails
<1>18. CASE Handled
  BY <1>18 DEF Handled, Crash
<1>19. CASE Check
  BY <1>19 DEF Check
<1>20. CASE Erase
  BY <1>20 DEF Erase, Crash, MainHasClients
<1>21. CASE RunReturns
  BY <1>21 DEF RunReturns
<1>22. CASE \E c \in Clients : Open(c)
  <2>1. PICK c \in Clients : Open(c)
    BY <1>22
  <2>2. CASE MainHasClients /\ Crash
    BY <2>2 DEF MainHasClients, Crash, ClientsInv, TracksOpenClients, uws
  <2>3. CASE /\ worker = Loop /\ worker' = worker /\ main' = main /\ m_run' = m_run
             /\ open' = open \cup {c} /\ m_clients' = m_clients \cup {c}
    BY <2>3 DEF ClientsInv, TracksOpenClients, Loop, At
  <2>4. QED
    BY <2>1, <2>2, <2>3, OpenEffect
<1>23. CASE \E c \in Clients : Message(c)
  BY <1>23 DEF Message
<1>24. CASE \E c \in Clients : Close(c)
  BY <1>24 DEF Close
<1>25. CASE Signal
  BY <1>25 DEF Signal
<1>26. QED
  BY <1>1, <1>2, <1>3, <1>4, <1>5, <1>6, <1>7, <1>8, <1>9, <1>10, <1>11, <1>12, <1>13, <1>14,
     <1>15, <1>16, <1>17, <1>18, <1>19, <1>20, <1>21, <1>22, <1>23, <1>24, <1>25 DEF Next,
     MainNext, WorkerNext, ClientNext

LEMMA StepKeepsInv == IInv /\ [Next]_vars => IInv'
<1> SUFFICES ASSUME IInv, [Next]_vars PROVE IInv'
  OBVIOUS
<1>1. CASE Next
  BY <1>1, StartStep, RaceStep, ClientsStep DEF IInv, Next
<1>2. CASE UNCHANGED vars
  BY <1>2 DEF vars, IInv, StartInv, ReportIsTrue, RaceInv, OnlyStopRaces, ClientsInv, TracksOpenClients
<1>3. QED
  BY <1>1, <1>2

LEMMA Invariance == Spec => []IInv
  BY InitIsInv, StepKeepsInv, PTL DEF Spec

-----------------------------------------------------------------------------
(* Server::start tells main what the listen callback did (Server.cpp:100-146). *)
THEOREM StartReportsTheTruth == Spec => []ReportIsTrue
<1>1. IInv => ReportIsTrue
  BY DEF IInv, StartInv
<1>2. QED
  BY <1>1, Invariance, PTL

(* Until stop begins no client or handler is used after it is gone, and the two threads
   are never in m_clients or uWS at once (Server.cpp:8-31). *)
THEOREM RacesAreStops == Spec => []OnlyStopRaces
<1>1. IInv => OnlyStopRaces
  BY DEF IInv, RaceInv
<1>2. QED
  BY <1>1, Invariance, PTL

(* stop finds every open connection in m_clients, and before it nothing else is there
   but the one that is being erased (Server.cpp:80-99). *)
THEOREM OpenClientsAreTracked == Spec => []TracksOpenClients
<1>1. IInv => TracksOpenClients
  BY DEF IInv, ClientsInv
<1>2. QED
  BY <1>1, Invariance, PTL

(* The close callbacks that stop's walk provokes leave m_clients alone
   (Server.cpp:92). *)
THEOREM WalkKeepsClients == Spec => WalkSparesClients
<1> DEFINE Kept == main = "walk" /\ m_clients' # m_clients =>
                     \/ \E c \in open' \ open : m_clients' = m_clients \cup {c}
                     \/ worker.at = "erase" /\ m_clients' = m_clients \ {worker.client}
<1>1. IInv /\ [Next]_vars => [Kept]_vars
  <2> SUFFICES ASSUME IInv, Next, main = "walk", m_clients' # m_clients PROVE Kept
    OBVIOUS
  <2>1. ~m_run
    BY DEF IInv, RaceInv, Stopping
  <2>2. (\E c \in Clients : Open(c)) \/ Erase
    BY <2>1 DEF Next, MainNext, WorkerNext, ClientNext, ParseArgs, InitHandlers, InitFails,
         StartWorker, SpawnFails, NotListening, NoAffinity, StartFails, Started, RunWaitReturns,
         Stop, EndClient, CloseSockets, ClearClients, DestroyHandlers, Join, Bound, ListenFails,
         Handled, Check, RunReturns, Message, Close, Signal, Crash, uws
  <2>3. CASE \E c \in Clients : Open(c)
    BY <2>3, OpenEffect DEF Open, Crash, uws
  <2>4. CASE Erase
    BY <2>4 DEF Erase, Crash, uws
  <2>5. QED
    BY <2>2, <2>3, <2>4
<1>2. QED
  BY <1>1, Invariance, PTL DEF Spec, WalkSparesClients

-----------------------------------------------------------------------------
(* The command line *)

(* What the option loop has come to: a limit within its bounds, at every turn. *)
CmdStates ==
  [valid : BOOLEAN, end : {"no", "died", "thrown"}, maxPayload : MinPayload .. MaxPayload]

LEMMA DefaultsAreBounded == Defaults \in CmdStates
  BY PayloadConstants DEF Defaults, CmdStates

(* std::clamp, whatever the narrowing left of the number. *)
LEMMA ClampIsBounded ==
  ASSUME NEW size \in Nat
  PROVE  Clamp(size) \in MinPayload .. MaxPayload
<1> DEFINE narrowed == size % UIntRange
<1>1. narrowed \in Nat
  BY PayloadConstants
<1> HIDE DEF narrowed
<1>2. QED
  BY <1>1, PayloadConstants DEF Clamp, narrowed

LEMMA TakeOptionStays ==
  ASSUME NEW state \in CmdStates, NEW option \in Options
  PROVE  TakeOption(state, option) \in CmdStates
<1>1. option.arg \in Sizes \cup {NoArg, Text, Unfit}
  BY DEF Options
<1>2. ASSUME option.arg \in Sizes
      PROVE  [state EXCEPT !.maxPayload = Clamp(option.arg)] \in CmdStates
  BY <1>2, ClampIsBounded, PayloadConstants DEF CmdStates
<1>3. /\ [state EXCEPT !.end = "died"] \in CmdStates
      /\ [state EXCEPT !.valid = FALSE] \in CmdStates
      /\ [state EXCEPT !.valid = FALSE, !.end = "thrown"] \in CmdStates
  BY DEF CmdStates
<1>4. QED
  BY <1>1, <1>2, <1>3 DEF TakeOption

(* getCmdArgs, by induction over the options of any command line. *)
LEMMA CmdArgsAreBounded ==
  ASSUME NEW options \in CommandLines
  PROVE  GetCmdArgs(options) \in CmdStates
<1>1. PICK m \in Nat : options \in [1 .. m -> Options]
  BY DEF CommandLines, SeqOf
<1>2. Len(options) = m
  <2>1. options \in Seq(Options)
    BY <1>1
  <2>2. QED
    BY <1>1, <2>1, LenProperties
<1> DEFINE after[i \in 0 .. Len(options)] ==
             IF i = 0 THEN Defaults ELSE TakeOption(after[i - 1], options[i])
           Walk(g) == g = [i \in 0 .. Len(options) |->
             IF i = 0 THEN Defaults ELSE TakeOption(g[i - 1], options[i])]
           step == [x \in CmdStates \X (1 .. m) |-> TakeOption(x[1], options[x[2]])]
<1>3. step \in [CmdStates \X (1 .. m) -> CmdStates]
  BY <1>1, TakeOptionStays
<1>4. \A t \in CmdStates, k \in 1 .. m : step[<<t, k>>] = TakeOption(t, options[k])
  OBVIOUS
<1> HIDE DEF step
<1>5. PICK f : Iterates(f, m, CmdStates, Defaults, step)
  BY <1>3, DefaultsAreBounded, RecursionExists
<1>6. /\ f \in [0 .. m -> CmdStates] /\ f[0] = Defaults
      /\ \A k \in 1 .. m : f[k] = step[<<f[k - 1], k>>]
  BY <1>5 DEF Iterates
<1>7. ASSUME NEW k \in 1 .. m PROVE f[k] = TakeOption(f[k - 1], options[k])
  <2>1. k - 1 \in 0 .. m
    BY <1>7
  <2>2. f[k - 1] \in CmdStates
    BY <1>6, <2>1
  <2>3. QED
    BY <1>4, <1>6, <2>2
<1>8. Walk(f)
  <2>1. \A k \in 0 .. m : f[k] = IF k = 0 THEN Defaults ELSE TakeOption(f[k - 1], options[k])
    BY <1>6, <1>7
  <2>2. f = [k \in 0 .. m |-> f[k]]
    BY <1>6
  <2>3. QED
    BY <1>2, <2>1, <2>2
<1>9. GetCmdArgs(options) = after[Len(options)] /\ after = CHOOSE g : Walk(g)
  BY DEF GetCmdArgs
<1> HIDE DEF after
<1>10. Walk(after)
  <2> HIDE DEF Walk
  <2>1. QED
    BY <1>8, <1>9
<1>11. /\ after[0] = Defaults
       /\ \A k \in 1 .. m : after[k] = TakeOption(after[k - 1], options[k])
  BY <1>1, <1>2, <1>10
<1> HIDE DEF Walk
<1> DEFINE S == {k \in 0 .. m : after[k] \in CmdStates}
<1>12. 0 \in S
  BY <1>1, <1>11, DefaultsAreBounded
<1>13. ASSUME NEW k \in 0 .. (m - 1), k \in S PROVE k + 1 \in S
  <2>1. k + 1 \in 1 .. m /\ k + 1 \in 0 .. m /\ (k + 1) - 1 = k
    BY <1>1
  <2>2. options[k + 1] \in Options /\ after[k + 1] = TakeOption(after[k], options[k + 1])
    BY <1>1, <1>11, <2>1
  <2>3. QED
    BY <1>13, <2>1, <2>2, TakeOptionStays
<1> HIDE DEF S
<1>14. \A k \in 0 .. m : k \in S
  BY <1>12, <1>13, BoundedInduction
<1>15. after[m] \in CmdStates
  BY <1>1, <1>14 DEF S
<1>16. QED
  BY <1>2, <1>9, <1>15

-----------------------------------------------------------------------------
(* The types, one part for each kind of variable *)

ThreadTypes ==
  /\ main \in Places
  /\ worker \in [at : WorkerPlaces, client : Clients \cup {NoClient}]
  /\ report \in {"none", "started", "noThread", "notListening", "noAffinity"}
FlagTypes == {crashed, listening, m_run, m_sockets, handlers} \subseteq BOOLEAN
CountTypes ==
  /\ startLatch \in {0, 1} /\ signals \in 0 .. MaxSignals
  /\ runLatch \in Int /\ runLatch <= 1
ClientTypes == m_clients \subseteq Clients /\ open \subseteq Clients /\ toEnd \subseteq Clients
PayloadInv == maxPayload \in MinPayload .. MaxPayload

(* The two threads are at their places, and report is one of start's. *)
LEMMA ThreadsStep ==
  ASSUME ThreadTypes, ~crashed, Next
  PROVE  ThreadTypes'
<1> USE DEF ThreadTypes, Places, WorkerPlaces, At, Loop, start, latches, uws
<1>1. CASE \E options \in CommandLines : ParseArgs(options)
  BY <1>1 DEF ParseArgs, Crash
<1>2. CASE InitHandlers
  BY <1>2 DEF InitHandlers
<1>3. CASE InitFails
  BY <1>3 DEF InitFails
<1>4. CASE StartWorker
  BY <1>4 DEF StartWorker
<1>5. CASE SpawnFails
  BY <1>5 DEF SpawnFails, StartFails
<1>6. CASE NotListening
  BY <1>6 DEF NotListening, StartFails
<1>7. CASE NoAffinity
  BY <1>7 DEF NoAffinity, StartFails
<1>8. CASE Started
  BY <1>8 DEF Started
<1>9. CASE RunWaitReturns
  BY <1>9 DEF RunWaitReturns
<1>10. CASE Stop
  BY <1>10 DEF Stop
<1>11. CASE CloseSockets
  BY <1>11 DEF CloseSockets, Crash, InCallback
<1>12. CASE ClearClients
  BY <1>12 DEF ClearClients
<1>13. CASE DestroyHandlers
  BY <1>13 DEF DestroyHandlers
<1>14. CASE Join
  BY <1>14 DEF Join
<1>15. CASE \E c \in Clients : EndClient(c)
  BY <1>15 DEF EndClient, InCallback, Crash
<1>16. CASE Bound
  BY <1>16 DEF Bound
<1>17. CASE ListenFails
  BY <1>17 DEF ListenFails
<1>18. CASE Handled
  BY <1>18 DEF Handled, Crash
<1>19. CASE Check
  BY <1>19 DEF Check
<1>20. CASE Erase
  BY <1>20 DEF Erase, Crash, MainHasClients
<1>21. CASE RunReturns
  BY <1>21 DEF RunReturns
<1>22. CASE \E c \in Clients : Open(c)
  BY <1>22 DEF Open, MainHasClients, Crash
<1>23. CASE \E c \in Clients : Message(c)
  BY <1>23 DEF Message
<1>24. CASE \E c \in Clients : Close(c)
  BY <1>24 DEF Close
<1>25. CASE Signal
  BY <1>25 DEF Signal
<1>26. QED
  BY <1>1, <1>2, <1>3, <1>4, <1>5, <1>6, <1>7, <1>8, <1>9, <1>10, <1>11, <1>12, <1>13, <1>14, <1>15, <1>16, <1>17, <1>18, <1>19, <1>20, <1>21, <1>22, <1>23, <1>24, <1>25 DEF Next,
     MainNext, WorkerNext, ClientNext

(* The flags are Booleans. *)
LEMMA FlagsStep ==
  ASSUME FlagTypes, ~crashed, Next
  PROVE  FlagTypes'
<1> USE DEF FlagTypes, start, latches, uws
<1>1. CASE \E options \in CommandLines : ParseArgs(options)
  BY <1>1 DEF ParseArgs, Crash
<1>2. CASE InitHandlers
  BY <1>2 DEF InitHandlers
<1>3. CASE InitFails
  BY <1>3 DEF InitFails
<1>4. CASE StartWorker
  BY <1>4 DEF StartWorker
<1>5. CASE SpawnFails
  BY <1>5 DEF SpawnFails, StartFails
<1>6. CASE NotListening
  BY <1>6 DEF NotListening, StartFails
<1>7. CASE NoAffinity
  BY <1>7 DEF NoAffinity, StartFails
<1>8. CASE Started
  BY <1>8 DEF Started
<1>9. CASE RunWaitReturns
  BY <1>9 DEF RunWaitReturns
<1>10. CASE Stop
  BY <1>10 DEF Stop
<1>11. CASE CloseSockets
  BY <1>11 DEF CloseSockets, Crash, InCallback
<1>12. CASE ClearClients
  BY <1>12 DEF ClearClients
<1>13. CASE DestroyHandlers
  BY <1>13 DEF DestroyHandlers
<1>14. CASE Join
  BY <1>14 DEF Join
<1>15. CASE \E c \in Clients : EndClient(c)
  BY <1>15 DEF EndClient, InCallback, Crash
<1>16. CASE Bound
  BY <1>16 DEF Bound
<1>17. CASE ListenFails
  BY <1>17 DEF ListenFails
<1>18. CASE Handled
  BY <1>18 DEF Handled, Crash
<1>19. CASE Check
  BY <1>19 DEF Check
<1>20. CASE Erase
  BY <1>20 DEF Erase, Crash, MainHasClients
<1>21. CASE RunReturns
  BY <1>21 DEF RunReturns
<1>22. CASE \E c \in Clients : Open(c)
  BY <1>22 DEF Open, MainHasClients, Crash
<1>23. CASE \E c \in Clients : Message(c)
  BY <1>23 DEF Message
<1>24. CASE \E c \in Clients : Close(c)
  BY <1>24 DEF Close
<1>25. CASE Signal
  BY <1>25 DEF Signal
<1>26. QED
  BY <1>1, <1>2, <1>3, <1>4, <1>5, <1>6, <1>7, <1>8, <1>9, <1>10, <1>11, <1>12, <1>13, <1>14, <1>15, <1>16, <1>17, <1>18, <1>19, <1>20, <1>21, <1>22, <1>23, <1>24, <1>25 DEF Next,
     MainNext, WorkerNext, ClientNext

(* The listen callback counts the start latch down once. *)
LEMMA CountsStep ==
  ASSUME StartInv, CountTypes, ~crashed, Next
  PROVE  CountTypes'
<1> USE DEF StartInv, CountTypes, At, Loop, start, latches, uws
<1>1. CASE \E options \in CommandLines : ParseArgs(options)
  BY <1>1 DEF ParseArgs, Crash
<1>2. CASE InitHandlers
  BY <1>2 DEF InitHandlers
<1>3. CASE InitFails
  BY <1>3 DEF InitFails
<1>4. CASE StartWorker
  BY <1>4 DEF StartWorker
<1>5. CASE SpawnFails
  BY <1>5 DEF SpawnFails, StartFails
<1>6. CASE NotListening
  BY <1>6 DEF NotListening, StartFails
<1>7. CASE NoAffinity
  BY <1>7 DEF NoAffinity, StartFails
<1>8. CASE Started
  BY <1>8 DEF Started
<1>9. CASE RunWaitReturns
  BY <1>9 DEF RunWaitReturns
<1>10. CASE Stop
  BY <1>10 DEF Stop
<1>11. CASE CloseSockets
  BY <1>11 DEF CloseSockets, Crash, InCallback
<1>12. CASE ClearClients
  BY <1>12 DEF ClearClients
<1>13. CASE DestroyHandlers
  BY <1>13 DEF DestroyHandlers
<1>14. CASE Join
  BY <1>14 DEF Join
<1>15. CASE \E c \in Clients : EndClient(c)
  BY <1>15 DEF EndClient, InCallback, Crash
<1>16. CASE Bound
  BY <1>16 DEF Bound
<1>17. CASE ListenFails
  BY <1>17 DEF ListenFails
<1>18. CASE Handled
  BY <1>18 DEF Handled, Crash
<1>19. CASE Check
  BY <1>19 DEF Check
<1>20. CASE Erase
  BY <1>20 DEF Erase, Crash, MainHasClients
<1>21. CASE RunReturns
  BY <1>21 DEF RunReturns
<1>22. CASE \E c \in Clients : Open(c)
  BY <1>22 DEF Open, MainHasClients, Crash
<1>23. CASE \E c \in Clients : Message(c)
  BY <1>23 DEF Message
<1>24. CASE \E c \in Clients : Close(c)
  BY <1>24 DEF Close
<1>25. CASE Signal
  BY <1>25, LifecycleConstants DEF Signal
<1>26. QED
  BY <1>1, <1>2, <1>3, <1>4, <1>5, <1>6, <1>7, <1>8, <1>9, <1>10, <1>11, <1>12, <1>13, <1>14, <1>15, <1>16, <1>17, <1>18, <1>19, <1>20, <1>21, <1>22, <1>23, <1>24, <1>25 DEF Next,
     MainNext, WorkerNext, ClientNext

(* Only clients are connected. *)
LEMMA ClientSetsStep ==
  ASSUME ThreadTypes, ClientTypes, ~crashed, Next
  PROVE  ClientTypes'
<1> USE DEF ThreadTypes, ClientTypes, At, Loop, start, latches, uws
<1>1. CASE \E options \in CommandLines : ParseArgs(options)
  BY <1>1 DEF ParseArgs, Crash
<1>2. CASE InitHandlers
  BY <1>2 DEF InitHandlers
<1>3. CASE InitFails
  BY <1>3 DEF InitFails
<1>4. CASE StartWorker
  BY <1>4 DEF StartWorker
<1>5. CASE SpawnFails
  BY <1>5 DEF SpawnFails, StartFails
<1>6. CASE NotListening
  BY <1>6 DEF NotListening, StartFails
<1>7. CASE NoAffinity
  BY <1>7 DEF NoAffinity, StartFails
<1>8. CASE Started
  BY <1>8 DEF Started
<1>9. CASE RunWaitReturns
  BY <1>9 DEF RunWaitReturns
<1>10. CASE Stop
  BY <1>10 DEF Stop
<1>11. CASE CloseSockets
  BY <1>11 DEF CloseSockets, Crash, InCallback
<1>12. CASE ClearClients
  BY <1>12 DEF ClearClients
<1>13. CASE DestroyHandlers
  BY <1>13 DEF DestroyHandlers
<1>14. CASE Join
  BY <1>14 DEF Join
<1>15. CASE \E c \in Clients : EndClient(c)
  BY <1>15 DEF EndClient, InCallback, Crash
<1>16. CASE Bound
  BY <1>16 DEF Bound
<1>17. CASE ListenFails
  BY <1>17 DEF ListenFails
<1>18. CASE Handled
  BY <1>18 DEF Handled, Crash
<1>19. CASE Check
  BY <1>19 DEF Check
<1>20. CASE Erase
  BY <1>20 DEF Erase, Crash, MainHasClients
<1>21. CASE RunReturns
  BY <1>21 DEF RunReturns
<1>22. CASE \E c \in Clients : Open(c)
  BY <1>22 DEF Open, MainHasClients, Crash
<1>23. CASE \E c \in Clients : Message(c)
  BY <1>23 DEF Message
<1>24. CASE \E c \in Clients : Close(c)
  BY <1>24 DEF Close
<1>25. CASE Signal
  BY <1>25 DEF Signal
<1>26. QED
  BY <1>1, <1>2, <1>3, <1>4, <1>5, <1>6, <1>7, <1>8, <1>9, <1>10, <1>11, <1>12, <1>13, <1>14, <1>15, <1>16, <1>17, <1>18, <1>19, <1>20, <1>21, <1>22, <1>23, <1>24, <1>25 DEF Next,
     MainNext, WorkerNext, ClientNext

(* Only the command line sets the limit. *)
LEMMA PayloadStep ==
  ASSUME PayloadInv, ~crashed, Next
  PROVE  PayloadInv'
<1>1. ASSUME NEW options \in CommandLines, ParseArgs(options) PROVE PayloadInv'
  <2>1. GetCmdArgs(options).maxPayload \in MinPayload .. MaxPayload
    BY CmdArgsAreBounded DEF CmdStates
  <2>2. QED
    BY <1>1, <2>1 DEF ParseArgs, Crash, start, PayloadInv
<1>2. CASE \/ InitHandlers \/ InitFails \/ StartWorker \/ SpawnFails \/ NotListening
           \/ NoAffinity \/ Started \/ RunWaitReturns \/ Stop \/ CloseSockets
           \/ ClearClients \/ DestroyHandlers \/ Join \/ \E c \in Clients : EndClient(c)
  BY <1>2 DEF InitHandlers, InitFails, StartWorker, SpawnFails, NotListening, NoAffinity,
       StartFails, Started, RunWaitReturns, Stop, CloseSockets, ClearClients,
       DestroyHandlers, Join, EndClient, Crash, start, PayloadInv
<1>3. CASE WorkerNext \/ ClientNext \/ Signal
  BY <1>3 DEF WorkerNext, Bound, ListenFails, Handled, Check, Erase, RunReturns,
       ClientNext, Open, Message, Close, Signal, Crash, start, PayloadInv
<1>4. QED
  BY <1>1, <1>2, <1>3 DEF Next, MainNext

(* The types of IInv's variables, and the limit's bounds, hold at every step. *)
TypesInv == ThreadTypes /\ FlagTypes /\ CountTypes /\ ClientTypes /\ PayloadInv

LEMMA InitTypes == Init => TypesInv
<1>1. Init => ThreadTypes
  BY DEF Init, ThreadTypes, Places, WorkerPlaces, At
<1>2. Init => FlagTypes
  BY DEF Init, FlagTypes
<1>3. Init => CountTypes
  BY LifecycleConstants DEF Init, CountTypes
<1>4. Init => ClientTypes
  BY DEF Init, ClientTypes
<1>5. Init => PayloadInv
  BY PayloadConstants DEF Init, PayloadInv
<1>6. QED
  BY <1>1, <1>2, <1>3, <1>4, <1>5 DEF TypesInv

LEMMA TypesStep == IInv /\ TypesInv /\ [Next]_vars => TypesInv'
<1> SUFFICES ASSUME IInv, TypesInv, [Next]_vars PROVE TypesInv'
  OBVIOUS
<1>1. CASE Next
  BY <1>1, ThreadsStep, FlagsStep, CountsStep, ClientSetsStep, PayloadStep
     DEF IInv, TypesInv, Next
<1>2. CASE UNCHANGED vars
  BY <1>2 DEF vars, TypesInv, ThreadTypes, FlagTypes, CountTypes, ClientTypes, PayloadInv
<1>3. QED
  BY <1>1, <1>2

LEMMA TypesInvariance == Spec => []TypesInv
  BY InitTypes, TypesStep, Invariance, PTL DEF Spec

(* The threads' places and the state they share keep their types; the start latch is
   counted down once, whatever the callback finds (Server.cpp:100-146). *)
THEOREM LifecycleTypesAreKept == Spec => []TypeOK
<1>1. TypesInv => TypeOK
  BY PayloadConstants DEF TypesInv, ThreadTypes, FlagTypes, CountTypes, ClientTypes, PayloadInv, TypeOK
<1>2. QED
  BY <1>1, TypesInvariance, PTL

(* Whatever the command line asks for, however often, the server listens with a limit
   within the documented bounds (fcache.cpp:64-80). *)
THEOREM PayloadIsBounded == Spec => []PayloadBounded
<1>1. TypesInv => PayloadBounded
  BY DEF TypesInv, PayloadInv, PayloadBounded
<1>2. QED
  BY <1>1, TypesInvariance, PTL
=============================================================================
