-------------------------- MODULE ServerLifecycle --------------------------
(***************************************************************************)
(* How the server starts and stops: main (fcache.cpp) and the two threads  *)
(* of Server (Server.cpp, Server.hpp).  The main thread parses the command *)
(* line, makes the handlers, starts the worker, waits for a signal, and    *)
(* stops the server in its destructor; the worker listens and runs the     *)
(* callbacks of uWS.  They share m_clients, m_run, the start latch and     *)
(* everything inside uWS, with no lock.                                    *)
(*                                                                         *)
(* A data race, or a call on a client or handler that is gone, is          *)
(* undefined behaviour: the process dies or goes on.                       *)
(***************************************************************************)
EXTENDS CommandLine, FiniteSets

CONSTANTS
  Clients,     \* connections, as the addresses of their WebSockets
  MaxSignals,  \* bound: signals sent to the process
  NoClient

ASSUME LifecycleConstants == MaxSignals \in Nat /\ NoClient \notin Clients

VARIABLES
  main,        \* where the main thread is
  worker,      \* where the worker is, and the client whose callback it runs
  crashed,     \* the process has died
  maxPayload,  \* of the command line
  report,      \* what Server::start told of itself
  listening,   \* start's local flag, set by the listen callback
  startLatch,  \* counted down by the listen callback
  runLatch,    \* counted down by signals
  signals,     \* signals received
  m_run,
  m_clients,
  m_sockets,   \* the listen socket is there (at most one)
  open,        \* connections that uWS holds open and end() was not called for
  toEnd,       \* clients that stop's loop has yet to visit
  handlers     \* m_kvHandler and m_listHandler are there

vars == <<main, worker, crashed, maxPayload, report, listening, startLatch, runLatch,
          signals, m_run, m_clients, m_sockets, open, toEnd, handlers>>
latches == <<startLatch, runLatch, signals>>
start == <<maxPayload, report, listening>>
uws == <<m_clients, m_sockets, open, toEnd>>

At(place, client) == [at |-> place, client |-> client]
Loop == At("loop", NoClient)

Init ==
  /\ main = "args"
  /\ worker = At("none", NoClient)
  /\ crashed = FALSE
  /\ maxPayload = DefaultPayload
  /\ report = "none"
  /\ listening = FALSE
  /\ startLatch = 1
  /\ runLatch = 1
  /\ signals = 0
  /\ m_run = TRUE
  /\ m_clients = {}
  /\ m_sockets = FALSE
  /\ open = {}
  /\ toEnd = {}
  /\ handlers = FALSE

(* The worker is in a callback: it touches uWS. *)
InCallback == worker.at \in {"message", "check", "erase"}

(* The main thread is in m_clients: at one of stop's two accesses, or past its
   destructor, which runs before the worker is joined. *)
MainHasClients == main \in {"walk", "clear", "join"}

Crash ==
  /\ crashed' = TRUE
  /\ UNCHANGED <<main, worker, start, latches, m_run, uws, handlers>>

-----------------------------------------------------------------------------
(* The main thread: main *)

ParseArgs(options) ==
  LET args == GetCmdArgs(options)
  IN  /\ main = "args"
      /\ IF args.end = "died" THEN Crash
         ELSE /\ main' = IF args.valid THEN "init" ELSE "done"
              /\ maxPayload' = args.maxPayload
              /\ UNCHANGED <<worker, crashed, report, listening, latches, m_run, uws, handlers>>

InitHandlers ==
  /\ main = "init"
  /\ main' = "start"
  /\ handlers' = TRUE
  /\ UNCHANGED <<worker, crashed, start, latches, m_run, uws>>

(* A handler could not be made: main returns without a start. *)
InitFails ==
  /\ main = "init"
  /\ main' = "return"
  /\ UNCHANGED <<worker, crashed, start, latches, m_run, uws, handlers>>

StartWorker ==
  /\ main = "start"
  /\ main' = "startWait"
  /\ worker' = At("listen", NoClient)
  /\ UNCHANGED <<crashed, start, latches, m_run, uws, handlers>>

(* A failed start counts the run latch down, which nobody waits for any more. *)
StartFails(why) ==
  /\ report' = why
  /\ main' = "return"
  /\ runLatch' = runLatch - 1
  /\ UNCHANGED <<worker, crashed, maxPayload, listening, startLatch, signals, m_run, uws, handlers>>

(* std::jthread's constructor throws. *)
SpawnFails == main = "start" /\ StartFails("noThread")

NotListening ==
  /\ main = "startWait" /\ startLatch = 0
  /\ ~listening
  /\ StartFails("notListening")

(* setThreadAffinity refuses. *)
NoAffinity ==
  /\ main = "startWait" /\ startLatch = 0
  /\ listening
  /\ StartFails("noAffinity")

Started ==
  /\ main = "startWait" /\ startLatch = 0
  /\ listening
  /\ report' = "started"
  /\ main' = "runWait"
  /\ UNCHANGED <<worker, crashed, maxPayload, listening, latches, m_run, uws, handlers>>

(* std::latch::wait returns when the counter is zero, and only then. *)
RunWaitReturns ==
  /\ main = "runWait" /\ runLatch = 0
  /\ main' = "return"
  /\ UNCHANGED <<worker, crashed, start, latches, m_run, uws, handlers>>

(* A signal may come at any time: kvSigHandle is the first thing main installs. *)
Signal ==
  /\ main # "done" /\ signals < MaxSignals
  /\ signals' = signals + 1
  /\ runLatch' = runLatch - 1
  /\ UNCHANGED <<main, worker, crashed, start, startLatch, m_run, uws, handlers>>

-----------------------------------------------------------------------------
(* The main thread: ~Server, which is stop() and the members' destructors *)

(* Slip: m_run stays set until the loop is over. *)
Stop_FlagLate ==
  /\ main = "return"
  /\ main' = "walk"
  /\ toEnd' = m_clients
  /\ UNCHANGED <<worker, crashed, start, latches, m_run, m_clients, m_sockets, open, handlers>>

Stop ==
  /\ main = "return"
  /\ main' = "walk"
  /\ m_run' = FALSE
  /\ toEnd' = m_clients
  /\ UNCHANGED <<worker, crashed, start, latches, m_clients, m_sockets, open, handlers>>

(* ws->end(1000) on a client: uWS calls the close callback on this thread, which
   leaves m_clients alone as m_run is FALSE. *)
EndClient(c) ==
  /\ main = "walk" /\ c \in toEnd
  /\ \/ /\ toEnd' = toEnd \ {c}
        /\ open' = open \ {c}
        /\ m_clients' = IF m_run THEN m_clients \ {c} ELSE m_clients
        /\ UNCHANGED <<main, worker, crashed, start, latches, m_run, m_sockets, handlers>>
     \/ /\ InCallback \/ c \notin open
        /\ Crash

(* Slip: the listen socket stays open. *)
CloseSockets_Not ==
  /\ main = "walk" /\ toEnd = {}
  /\ \/ /\ main' = "clear"
        /\ UNCHANGED <<worker, crashed, start, latches, m_run, uws, handlers>>
     \/ InCallback /\ Crash

CloseSockets ==
  /\ main = "walk" /\ toEnd = {}
  /\ \/ /\ main' = "clear"
        /\ m_sockets' = FALSE
        /\ UNCHANGED <<worker, crashed, start, latches, m_run, m_clients, open, toEnd, handlers>>
     \/ InCallback /\ Crash

ClearClients ==
  /\ main = "clear"
  /\ main' = "destroy"
  /\ m_clients' = {}
  /\ UNCHANGED <<worker, crashed, start, latches, m_run, m_sockets, open, toEnd, handlers>>

(* Members are destroyed in reverse: the handlers, then m_clients and m_sockets, and
   m_wsThread, the first member, is joined after them all. *)
DestroyHandlers ==
  /\ main = "destroy"
  /\ main' = "join"
  /\ handlers' = FALSE
  /\ UNCHANGED <<worker, crashed, start, latches, m_run, uws>>

Join ==
  /\ main = "join" /\ worker.at \in {"none", "returned"}
  /\ main' = "done"
  /\ UNCHANGED <<worker, crashed, start, latches, m_run, uws, handlers>>

-----------------------------------------------------------------------------
(* The worker *)

(* Slip: the latch is counted down before the flag is set. *)
Bound_LatchFirst ==
  \/ /\ worker.at = "listen"
     /\ m_sockets' = TRUE
     /\ startLatch' = startLatch - 1
     /\ worker' = At("publish", NoClient)
     /\ UNCHANGED <<main, crashed, start, runLatch, signals, m_run, m_clients, open, toEnd, handlers>>
  \/ /\ worker.at = "publish"
     /\ listening' = TRUE
     /\ worker' = Loop
     /\ UNCHANGED <<main, crashed, maxPayload, report, latches, m_run, uws, handlers>>

(* Slip: the latch is counted down in both branches. *)
Bound_Twice ==
  \/ /\ worker.at = "listen"
     /\ m_sockets' = TRUE
     /\ listening' = TRUE
     /\ startLatch' = startLatch - 1
     /\ worker' = At("publish", NoClient)
     /\ UNCHANGED <<main, crashed, maxPayload, report, runLatch, signals, m_run, m_clients, open, toEnd, handlers>>
  \/ /\ worker.at = "publish"
     /\ startLatch' = startLatch - 1
     /\ worker' = Loop
     /\ UNCHANGED <<main, crashed, start, runLatch, signals, m_run, uws, handlers>>

(* The listen callback with a socket, which uWS has just opened: the socket and the
   flag, then the latch. *)
Bound ==
  \/ /\ worker.at = "listen"
     /\ m_sockets' = TRUE
     /\ listening' = TRUE
     /\ worker' = At("publish", NoClient)
     /\ UNCHANGED <<main, crashed, maxPayload, report, latches, m_run, m_clients, open, toEnd, handlers>>
  \/ /\ worker.at = "publish"
     /\ startLatch' = startLatch - 1
     /\ worker' = Loop
     /\ UNCHANGED <<main, crashed, start, runLatch, signals, m_run, uws, handlers>>

(* Slip: without a socket the callback returns early. *)
ListenFails_NoCount ==
  /\ worker.at = "listen"
  /\ worker' = Loop
  /\ UNCHANGED <<main, crashed, start, latches, m_run, uws, handlers>>

(* The listen callback without a socket: the address is taken, or the app is not made. *)
ListenFails ==
  /\ worker.at = "listen"
  /\ startLatch' = startLatch - 1
  /\ worker' = Loop
  /\ UNCHANGED <<main, crashed, start, runLatch, signals, m_run, uws, handlers>>

(* A new address inserted during the walk is met by it or not; an old one is in the
   set already, and not met again.  A connection accepted before the listen socket was
   closed may finish its upgrade after that. *)
Open(c) ==
  /\ worker = Loop /\ listening /\ c \notin open
  /\ \/ /\ open' = open \cup {c}
        /\ m_clients' = m_clients \cup {c}
        /\ toEnd' \in {toEnd} \cup IF main = "walk" THEN {toEnd \cup ({c} \ m_clients)} ELSE {}
        /\ UNCHANGED <<main, worker, crashed, start, latches, m_run, m_sockets, handlers>>
     \/ MainHasClients /\ Crash

(* onMessage begins for a client, and ends: it calls a handler, and sends. *)
Message(c) ==
  /\ worker = Loop /\ c \in open
  /\ worker' = At("message", c)
  /\ UNCHANGED <<main, crashed, start, latches, m_run, uws, handlers>>

Handled ==
  /\ worker.at = "message"
  /\ \/ /\ worker' = Loop
        /\ UNCHANGED <<main, crashed, start, latches, m_run, uws, handlers>>
     \/ ~handlers /\ Crash

(* A client leaves: the close callback marks it, reads m_run, and then erases it. *)
Close(c) ==
  /\ worker = Loop /\ c \in open
  /\ open' = open \ {c}
  /\ worker' = At("check", c)
  /\ UNCHANGED <<main, crashed, start, latches, m_run, m_clients, m_sockets, toEnd, handlers>>

Check ==
  /\ worker.at = "check"
  /\ worker' = IF m_run THEN At("erase", worker.client) ELSE Loop
  /\ UNCHANGED <<main, crashed, start, latches, m_run, uws, handlers>>

(* Slip: the client stays in the set. *)
Erase_Not ==
  /\ worker.at = "erase"
  /\ worker' = Loop
  /\ UNCHANGED <<main, crashed, start, latches, m_run, uws, handlers>>

Erase ==
  /\ worker.at = "erase"
  /\ \/ /\ m_clients' = m_clients \ {worker.client}
        /\ toEnd' = toEnd \ {worker.client}
        /\ worker' = Loop
        /\ UNCHANGED <<main, crashed, start, latches, m_run, m_sockets, open, handlers>>
     \/ MainHasClients /\ Crash

(* uWS's loop runs as long as it has a socket. *)
RunReturns ==
  /\ worker = Loop /\ ~m_sockets /\ open = {}
  /\ worker' = At("returned", NoClient)
  /\ UNCHANGED <<main, crashed, start, latches, m_run, uws, handlers>>

-----------------------------------------------------------------------------
MainNext ==
  \/ \E options \in CommandLines : ParseArgs(options)
  \/ InitHandlers \/ InitFails
  \/ StartWorker \/ SpawnFails \/ NotListening \/ NoAffinity \/ Started \/ RunWaitReturns
  \/ Stop \/ (\E c \in Clients : EndClient(c)) \/ CloseSockets \/ ClearClients
  \/ DestroyHandlers \/ Join

(* What the worker does by itself; messages, connections and their ends come from outside. *)
WorkerNext == Bound \/ ListenFails \/ Handled \/ Check \/ Erase \/ RunReturns

ClientNext == \E c \in Clients : Open(c) \/ Message(c) \/ Close(c)

Next == ~crashed /\ (MainNext \/ WorkerNext \/ ClientNext \/ Signal)

Spec == Init /\ [][Next]_vars

(* Each thread that can go on does; nobody has to connect or to send a signal. *)
FairSpec == Spec /\ WF_vars(~crashed /\ MainNext) /\ WF_vars(~crashed /\ WorkerNext)

-----------------------------------------------------------------------------
(* Properties *)

Places == {"args", "init", "start", "startWait", "runWait", "return", "walk", "clear",
           "destroy", "join", "done"}
WorkerPlaces == {"none", "listen", "publish", "loop", "message", "check", "erase", "returned"}

(* main and start's locals, the worker, and what they share, over their types: the
   start latch is never below zero, the run latch may be. *)
TypeOK ==
  /\ main \in Places
  /\ worker \in [at : WorkerPlaces, client : Clients \cup {NoClient}]
  /\ maxPayload \in Nat
  /\ report \in {"none", "started", "noThread", "notListening", "noAffinity"}
  /\ {crashed, listening, m_run, m_sockets, handlers} \subseteq BOOLEAN
  /\ startLatch \in {0, 1}
  /\ signals \in 0 .. MaxSignals
  /\ runLatch \in Int /\ runLatch <= 1
  /\ m_clients \subseteq Clients /\ open \subseteq Clients /\ toEnd \subseteq Clients

(* What Server::start tells main, with no lock on the flag the worker sets, is what
   the listen callback did: "started" only of a server that listens, "failed to
   start" for want of a socket only of one that has none. *)
ReportIsTrue ==
  /\ report \in {"started", "noAffinity"} => listening
  /\ report = "notListening" => ~listening /\ ~m_sockets

(* Until the server stops, m_clients is the connections that are open, but for one
   whose close callback has yet to erase it; and until its clients are cleared no open
   connection is missing, so that stop can end it. *)
TracksOpenClients ==
  /\ main \notin {"destroy", "join", "done"} => open \subseteq m_clients
  /\ m_run => m_clients \ open \subseteq
                IF worker.at \in {"check", "erase"} THEN {worker.client} ELSE {}

(* All the races of the two threads are with stop: up to its first statement the
   process dies of none, once its command line is accepted. *)
OnlyStopRaces == crashed /\ main # "args" => ~m_run

(* Whatever the command line asks for, the server listens with a limit within the
   bounds that are documented. *)
PayloadBounded == listening => maxPayload \in MinPayload .. MaxPayload

(* The walk of stop meets its own close callbacks, and they leave the set it walks
   alone (Server.cpp:92): only the worker changes m_clients meanwhile, for a client
   that connects or for one whose close it had begun before. *)
WalkSparesClients ==
  [][main = "walk" /\ m_clients' # m_clients =>
       \/ \E c \in open' \ open : m_clients' = m_clients \cup {c}
       \/ worker.at = "erase" /\ m_clients' = m_clients \ {worker.client}]_vars

(* start() does not wait for ever: the callback counts the latch down whatever becomes
   of the listening. *)
StartReturns == main = "startWait" ~> main # "startWait" \/ crashed

(* A client whose connection opened when stop had passed it by. *)
Stranded == main \in {"destroy", "join"} /\ open # {}

(* A signal ends the process, unless a second one came too early or a client was
   stranded: stop lets the worker's loop run out and the join return. *)
SignalEndsServer ==
  main = "runWait" /\ runLatch = 0
    ~> main = "done" \/ crashed \/ (main = "runWait" /\ runLatch < 0) \/ Stranded
=============================================================================
