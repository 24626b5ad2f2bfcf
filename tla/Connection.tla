----------------------------- MODULE Connection -----------------------------
(***************************************************************************)
(* The Python client's Connection (connection.py) between its callers and  *)
(* the server, with the two directions of the WebSocket as FIFO channels.  *)
(*                                                                         *)
(* The client is one asyncio event loop: code between two awaits is one    *)
(* step.  Event.set() schedules every waiter ahead of the next recv(), so  *)
(* the waiters it woke run before another frame is taken; other coroutines *)
(* and deadlines may come between the two.                                 *)
(*                                                                         *)
(* A request is [n, body]: its place in the order of sending and its body  *)
(* type.  The server answers with the request's own [n, body].             *)
(***************************************************************************)
EXTENDS Integers, Sequences, SequencesExt

CONSTANTS
  Callers,      \* coroutines sharing the connection
  Bodies,       \* body types of requests and responses
  MaxRequests,  \* bound: requests sent on one connection
  MayTimeout,   \* the server may take longer than the 5 s of wait_for
  MayLose,      \* responses may be dropped by the server, the link may break
  NoMsg         \* no message or request

ASSUME MaxRequestsAssumption == MaxRequests \in Nat
ASSUME FlagsAssumption == MayTimeout \in BOOLEAN /\ MayLose \in BOOLEAN

VARIABLES
  starting,   \* the coroutine in start()
  openTask,   \* the task running open()
  opened,     \* self.opened
  sem,        \* self.connectedSem
  link,       \* the WebSocket: "none", "up" or "down"
  toServer, toClient,
  rspEvt,     \* self.rspEvt is set
  message,    \* self.message
  waiting,    \* caller -> the request whose _query awaits rspEvt, or NoMsg
  woken,      \* callers whose wait() the event has ended, yet to run
  result,     \* caller -> how its last query ended
  sent        \* number of requests sent so far

vars == <<starting, openTask, opened, sem, link, toServer, toClient,
          rspEvt, message, waiting, woken, result, sent>>
startVars == <<starting, openTask, opened, sem, link>>

Request == [n : 1..MaxRequests, body : Bodies]
ASSUME NoMsgAssumption == NoMsg \notin Request

NoResult == [kind |-> "Idle", request |-> NoMsg, response |-> NoMsg]

Init ==
  /\ starting = "new" /\ openTask = "none" /\ opened = FALSE /\ sem = 0 /\ link = "none"
  /\ toServer = <<>> /\ toClient = <<>>
  /\ rspEvt = FALSE /\ message = NoMsg
  /\ waiting = [c \in Callers |-> NoMsg] /\ woken = {}
  /\ result = [c \in Callers |-> NoResult]
  /\ sent = 0

-----------------------------------------------------------------------------
(* start() and the connecting half of open() *)

Start ==
  /\ starting = "new"
  /\ starting' = "acquiring" /\ openTask' = "connecting"
  /\ UNCHANGED <<opened, sem, link, toServer, toClient, rspEvt, message, waiting, woken, result, sent>>

Connected ==
  /\ openTask = "connecting"
  /\ openTask' = "receiving" /\ opened' = TRUE /\ link' = "up" /\ sem' = sem + 1
  /\ UNCHANGED <<starting, toServer, toClient, rspEvt, message, waiting, woken, result, sent>>

(* open() ends: the finally block. *)
EndOpen ==
  /\ openTask' = "ended" /\ opened' = FALSE /\ rspEvt' = FALSE

(* connect() raised an OSError: refused, unreachable, timed out. *)
ConnectOSError ==
  /\ openTask = "connecting"
  /\ EndOpen
  /\ sem' = IF sem = 0 THEN sem + 1 ELSE sem
  /\ UNCHANGED <<starting, link, toServer, toClient, message, waiting, woken, result, sent>>

(* connect() raised something else, as a failed handshake does: no handler of
   open() releases the semaphore. *)
ConnectOtherError ==
  /\ openTask = "connecting"
  /\ EndOpen
  /\ UNCHANGED <<starting, sem, link, toServer, toClient, message, waiting, woken, result, sent>>

StartReturns ==
  /\ starting = "acquiring" /\ sem > 0
  /\ sem' = sem - 1
  /\ starting' = IF opened THEN "returned" ELSE "raised"
  /\ UNCHANGED <<openTask, opened, link, toServer, toClient, rspEvt, message, waiting, woken, result, sent>>

-----------------------------------------------------------------------------
(* query() and _query() *)

(* raise_if_fail: what sendCmd makes of the bytes a query returned. *)
Outcome(request, response) ==
  [kind     |-> IF response.body = request.body THEN "Answer" ELSE "BodyTypeError",
   request  |-> request,
   response |-> response]

Failure(kind, request) == [kind |-> kind, request |-> request, response |-> NoMsg]

(* The frame is written; with the event already set, wait() does not suspend and
   the message there is taken at once. *)
Query(c, body) ==
  LET request == [n |-> sent + 1, body |-> body]
  IN  /\ starting = "returned" /\ openTask = "receiving"
      /\ waiting[c] = NoMsg
      /\ sent < MaxRequests
      /\ sent' = sent + 1
      /\ toServer' = IF link = "up" THEN Append(toServer, request) ELSE toServer
      /\ IF rspEvt
           THEN /\ result' = [result EXCEPT ![c] = Outcome(request, message)]
                /\ rspEvt' = FALSE
                /\ UNCHANGED waiting
           ELSE /\ waiting' = [waiting EXCEPT ![c] = request]
                /\ UNCHANGED <<result, rspEvt>>
      /\ UNCHANGED <<startVars, toClient, message, woken>>

(* send() raises ConnectionClosed once the library knows the link is down. *)
QueryOnClosed(c, body) ==
  /\ starting = "returned" /\ link = "down"
  /\ waiting[c] = NoMsg
  /\ sent < MaxRequests
  /\ sent' = sent + 1
  /\ result' = [result EXCEPT ![c] =
                  Failure("ConnectionClosed", [n |-> sent + 1, body |-> body])]
  /\ UNCHANGED <<startVars, toServer, toClient, rspEvt, message, waiting, woken>>

(* open()'s loop takes a frame and sets the event. *)
Receive ==
  /\ openTask = "receiving" /\ woken = {}
  /\ toClient # <<>>
  /\ message' = Head(toClient)
  /\ toClient' = Tail(toClient)
  /\ rspEvt' = TRUE
  /\ woken' = {c \in Callers : waiting[c] # NoMsg}
  /\ UNCHANGED <<startVars, toServer, waiting, result, sent>>

(* Slip: the event is not cleared. *)
Wake_KeepsEvent(c) ==
  /\ c \in woken
  /\ woken' = woken \ {c}
  /\ result' = [result EXCEPT ![c] = Outcome(waiting[c], message)]
  /\ waiting' = [waiting EXCEPT ![c] = NoMsg]
  /\ UNCHANGED <<startVars, toServer, toClient, message, rspEvt, sent>>

(* A woken query reads the message and clears the event, whoever else did. *)
Wake(c) ==
  /\ c \in woken
  /\ woken' = woken \ {c}
  /\ result' = [result EXCEPT ![c] = Outcome(waiting[c], message)]
  /\ waiting' = [waiting EXCEPT ![c] = NoMsg]
  /\ rspEvt' = FALSE
  /\ UNCHANGED <<startVars, toServer, toClient, message, sent>>

Unanswerable(request) ==
  \A i \in DOMAIN (toServer \o toClient) : (toServer \o toClient)[i] # request

(* Slip: the task is left to run when the time is up. *)
Timeout_LeavesTask(c) ==
  /\ waiting[c] # NoMsg
  /\ MayTimeout \/ (Unanswerable(waiting[c]) /\ c \notin woken)
  /\ result' = [result EXCEPT ![c] = Failure("Timeout", waiting[c])]
  /\ waiting' = [waiting EXCEPT ![c] = NoMsg]
  /\ UNCHANGED <<startVars, toServer, toClient, rspEvt, message, woken, sent>>

(* Slip: no deadline once the connection is gone. *)
Timeout_OnlyConnected(c) ==
  /\ openTask = "receiving"
  /\ waiting[c] # NoMsg
  /\ MayTimeout \/ (Unanswerable(waiting[c]) /\ c \notin woken)
  /\ result' = [result EXCEPT ![c] = Failure("Timeout", waiting[c])]
  /\ waiting' = [waiting EXCEPT ![c] = NoMsg]
  /\ woken' = woken \ {c}
  /\ UNCHANGED <<startVars, toServer, toClient, rspEvt, message, sent>>

(* wait_for gives up after 5 s: the query returns None.  Nothing is taken back:
   the request may still be answered, and the event stays set if it was. *)
Timeout(c) ==
  /\ waiting[c] # NoMsg
  /\ MayTimeout \/ (Unanswerable(waiting[c]) /\ c \notin woken)
  /\ result' = [result EXCEPT ![c] = Failure("Timeout", waiting[c])]
  /\ waiting' = [waiting EXCEPT ![c] = NoMsg]
  /\ woken' = woken \ {c}
  /\ UNCHANGED <<startVars, toServer, toClient, rspEvt, message, sent>>

-----------------------------------------------------------------------------
(* The server and the link *)

(* One worker thread: requests of a connection are answered in order. *)
Serve ==
  /\ link = "up"
  /\ toServer # <<>>
  /\ toClient' = Append(toClient, Head(toServer))
  /\ toServer' = Tail(toServer)
  /\ UNCHANGED <<startVars, rspEvt, message, waiting, woken, result, sent>>

(* ws->send's result is not looked at: above maxBackpressure the response is
   dropped. *)
ServeDropped ==
  /\ MayLose
  /\ link = "up"
  /\ toServer # <<>>
  /\ toServer' = Tail(toServer)
  /\ UNCHANGED <<startVars, toClient, rspEvt, message, waiting, woken, result, sent>>

(* The server stops, the network fails or the user calls close(): what had not
   arrived by then is lost in both directions, from some frame on. *)
LinkDown ==
  /\ MayLose
  /\ link = "up"
  /\ link' = "down"
  /\ toServer' = <<>>
  /\ \E arrived \in 0..Len(toClient) : toClient' = SubSeq(toClient, 1, arrived)
  /\ UNCHANGED <<starting, openTask, opened, sem, rspEvt, message, waiting, woken, result, sent>>

(* Slip: the loop ends with the link, whatever had arrived. *)
OpenEnds_Unread ==
  /\ openTask = "receiving"
  /\ link = "down" /\ woken = {}
  /\ EndOpen
  /\ toClient' = <<>>
  /\ UNCHANGED <<starting, sem, link, toServer, message, waiting, woken, result, sent>>

(* recv() raises ConnectionClosed when it has delivered what had arrived. *)
OpenEnds ==
  /\ openTask = "receiving"
  /\ link = "down" /\ toClient = <<>> /\ woken = {}
  /\ EndOpen
  /\ UNCHANGED <<starting, sem, link, toServer, toClient, message, waiting, woken, result, sent>>

-----------------------------------------------------------------------------
Next ==
  \/ Start \/ Connected \/ ConnectOSError \/ ConnectOtherError \/ StartReturns
  \/ Receive \/ Serve \/ ServeDropped \/ LinkDown \/ OpenEnds
  \/ \E c \in Callers :
       \/ Timeout(c) \/ Wake(c)
       \/ \E body \in Bodies : Query(c, body) \/ QueryOnClosed(c, body)

Spec == Init /\ [][Next]_vars

(* The event loop, the server's loop and wait_for's timer keep running; a user
   need never send, nothing need ever be lost. *)
Fairness ==
  /\ WF_vars(Start) /\ WF_vars(StartReturns)
  /\ WF_vars(Connected \/ ConnectOSError \/ ConnectOtherError)
  /\ WF_vars(Receive) /\ WF_vars(OpenEnds)
  /\ WF_vars(Serve)
  /\ \A c \in Callers : WF_vars(Timeout(c)) /\ WF_vars(Wake(c))

FairSpec == Spec /\ Fairness

-----------------------------------------------------------------------------
(* Properties *)

TypeOK ==
  /\ starting \in {"new", "acquiring", "returned", "raised"}
  /\ openTask \in {"none", "connecting", "receiving", "ended"}
  /\ opened \in BOOLEAN /\ rspEvt \in BOOLEAN /\ sem \in {0, 1}
  /\ link \in {"none", "up", "down"}
  /\ toServer \in Seq(Request) /\ toClient \in Seq(Request)
  /\ message \in Request \cup {NoMsg}
  /\ waiting \in [Callers -> Request \cup {NoMsg}]
  /\ result \in [Callers -> [kind : {"Idle", "Answer", "BodyTypeError", "Timeout", "ConnectionClosed"},
                             request : Request \cup {NoMsg}, response : Request \cup {NoMsg}]]
  /\ woken \subseteq {c \in Callers : waiting[c] # NoMsg}
  /\ sent \in 0..MaxRequests

(* A query that returns an answer returns the answer to its own request. *)
AnswerIsOwn ==
  \A c \in Callers : result[c].kind = "Answer" => result[c].response = result[c].request

(* Responses are handed out in the order in which the server sent them: no query is
   given a response older than those the callers' last queries returned, nor again the
   one its own caller's last query did, whatever timed out, was dropped or came late.
   (Two callers woken by one frame do read the same.) *)
ResponsesNeverGoBack ==
  [][\A c \in Callers :
       result'[c] # result[c] /\ result'[c].response # NoMsg =>
         \A d \in Callers : result[d].response # NoMsg =>
           /\ result[d].response.n <= result'[c].response.n
           /\ d = c => result[d].response.n < result'[c].response.n]_vars

(* A set event always announces a message that nobody has read, so a woken query
   never reads a message twice. *)
SetEventMeansUnread ==
  rspEvt => /\ message # NoMsg
            /\ \A c \in Callers : result[c].response # message

(* The answer is in self.message, or is a frame that recv() delivers although the link
   is down. *)
HasArrived(request) ==
  \/ message = request
  \/ link = "down" /\ \E i \in DOMAIN toClient : toClient[i] = request

(* An answer that has arrived is not lost to the query that waits for it: it stays
   until that query returns it, also when the link is gone and open() is about to end and
   clear the event. *)
ArrivedAnswersAreReturned ==
  [][\A c \in Callers : waiting[c] # NoMsg /\ HasArrived(waiting[c]) =>
       \/ waiting'[c] = waiting[c] /\ HasArrived(waiting[c])'
       \/ result'[c].response = waiting[c]]_vars

(* "Opens a websocket connection to the server, returning a Client object, or
   raises an OSError if connect fails" (client.py): start() comes back. *)
StartEnds == starting = "acquiring" ~> starting \in {"returned", "raised"}

AbstractOutcome(c) ==
  IF result[c].kind = "Answer"
    THEN [call |-> result[c].response, answered |-> TRUE]
    ELSE [call |-> NoMsg, answered |-> FALSE]

Abstract == INSTANCE Rpc WITH
  Calls <- Request, NoCall <- NoMsg, pending <- waiting,
  outcome <- [c \in Callers |-> AbstractOutcome(c)]

(* sendCmd as its callers see it: every call ends, with the answer to that call or
   with an error. *)
ImplementsRpc == Abstract!Spec
=============================================================================
