-------------------------- MODULE ConnectionProofs --------------------------
(***************************************************************************)
(* When a connection is used by one caller at a time and the server        *)
(* answers within the deadline, every answer is the answer to the request  *)
(* it is returned for, whatever is lost: responses dropped, the link       *)
(* broken.  Neither premise can be dropped: without promptness TLC finds   *)
(* the counterexample of MCConnection_stale, and two callers woken by one  *)
(* frame read the same answer.                                             *)
(*                                                                         *)
(* The invariant OwnInv follows the one request that can be under way      *)
(* through the places it can be at; with it, every step is a step of Rpc   *)
(* or one that no caller sees.  WakeInv adds that whoever waits for the     *)
(* message read last is about to run, so an answer that arrived is         *)
(* returned although the link is lost (the last part).                     *)
(*                                                                         *)
(* For any callers and any losses OrderInv numbers the places instead: a   *)
(* response taken is older than the message, the message than the frames   *)
(* to come, and those than the requests not served yet.                    *)
(***************************************************************************)
EXTENDS Connection, SequenceTheorems, TLAPS

Alone == \A c, d \in Callers : c = d
Prompt == ~MayTimeout

-----------------------------------------------------------------------------
(* Where the caller's request is. *)

NothingUnderway == toServer = <<>> /\ toClient = <<>>
NotSignalled == rspEvt = FALSE /\ woken = {}

Idle(c)     == waiting[c] = NoMsg /\ NothingUnderway /\ NotSignalled
Sent(c)     == waiting[c] # NoMsg /\ toServer = <<waiting[c]>> /\ toClient = <<>> /\ NotSignalled
Answered(c) == waiting[c] # NoMsg /\ toServer = <<>> /\ toClient = <<waiting[c]>> /\ NotSignalled
Arrived(c)  == waiting[c] # NoMsg /\ NothingUnderway /\ woken = {c} /\ message = waiting[c]
Lost(c)     == waiting[c] # NoMsg /\ NothingUnderway /\ NotSignalled

Place(c) == Idle(c) \/ Sent(c) \/ Answered(c) \/ Arrived(c) \/ Lost(c)

OwnInv ==
  /\ sent \in 0..MaxRequests
  /\ waiting = [c \in Callers |-> waiting[c]]
  /\ result = [c \in Callers |-> result[c]]
  /\ \A c \in Callers : Place(c)
  /\ AnswerIsOwn

-----------------------------------------------------------------------------
(* Nothing sent, nothing to mix up. *)
LEMMA InitIsOwn == Init => OwnInv
<1> SUFFICES ASSUME Init PROVE OwnInv
  OBVIOUS
<1>1. \A c \in Callers : Idle(c)
  BY DEF Init, Idle, NothingUnderway, NotSignalled
<1>2. AnswerIsOwn
  BY DEF Init, AnswerIsOwn, NoResult
<1>3. sent \in 0..MaxRequests
  BY MaxRequestsAssumption DEF Init
<1>4. QED
  BY <1>1, <1>2, <1>3 DEF OwnInv, Place, Init

(* A step that moves no frame and wakes nobody; it may clear the event. *)
LEMMA NothingMovesIsOwn ==
  ASSUME OwnInv,
         UNCHANGED <<toServer, toClient, message, waiting, woken, result, sent>>,
         rspEvt' = rspEvt \/ rspEvt' = FALSE
  PROVE  OwnInv'
<1>1. ASSUME NEW c \in Callers PROVE Place(c)'
  BY <1>1 DEF OwnInv, Place, Idle, Sent, Answered, Arrived, Lost, NothingUnderway, NotSignalled
<1>2. AnswerIsOwn'
  BY DEF OwnInv, AnswerIsOwn
<1>3. QED
  BY <1>1, <1>2 DEF OwnInv

(* A query of the only caller: with the event clear it waits for its own frame. *)
LEMMA QueryIsOwn ==
  ASSUME Alone, OwnInv, NEW c \in Callers, NEW body \in Bodies, Query(c, body)
  PROVE  OwnInv'
<1> DEFINE request == [n |-> sent + 1, body |-> body]
<1>1. Idle(c)
  BY DEF Query, OwnInv, Place, Idle, Sent, Answered, Arrived, Lost
<1>2. sent + 1 \in 1..MaxRequests /\ sent' = sent + 1
  BY MaxRequestsAssumption DEF Query, OwnInv
<1>3. request \in Request /\ request # NoMsg
  BY <1>2, NoMsgAssumption DEF Request
<1>4. /\ waiting' = [waiting EXCEPT ![c] = request]
      /\ result' = result
      /\ rspEvt' = FALSE /\ woken' = {} /\ toClient' = <<>>
  BY <1>1 DEF Query, Idle, NotSignalled, NothingUnderway
<1>5. toServer' = <<request>> \/ toServer' = <<>>
  BY <1>1 DEF Query, Idle, NothingUnderway
<1> HIDE DEF request
<1>6. waiting'[c] = request
  BY <1>4 DEF OwnInv
<1>7. Sent(c)' \/ Lost(c)'
  BY <1>3, <1>4, <1>5, <1>6 DEF Sent, Lost, NothingUnderway, NotSignalled
<1>8. \A d \in Callers : Place(d)'
  BY <1>7 DEF Alone, Place
<1>9. AnswerIsOwn'
  BY <1>4 DEF OwnInv, AnswerIsOwn
<1>10. sent' \in 0..MaxRequests
  BY <1>2, MaxRequestsAssumption
<1>11. waiting' = [d \in Callers |-> waiting'[d]] /\ result' = [d \in Callers |-> result'[d]]
  BY <1>4 DEF OwnInv
<1>12. QED
  BY <1>8, <1>9, <1>10, <1>11 DEF OwnInv

(* A query on a closed connection ends with an error at once. *)
LEMMA QueryOnClosedIsOwn ==
  ASSUME Alone, OwnInv, NEW c \in Callers, NEW body \in Bodies, QueryOnClosed(c, body)
  PROVE  OwnInv'
<1>1. result' = [result EXCEPT ![c] = Failure("ConnectionClosed", [n |-> sent + 1, body |-> body])]
  BY DEF QueryOnClosed
<1>2. result'[c].kind = "ConnectionClosed"
  BY <1>1 DEF OwnInv, Failure
<1>3. AnswerIsOwn'
  BY <1>2 DEF Alone, AnswerIsOwn
<1>4. \A d \in Callers : Place(d)'
  BY DEF QueryOnClosed, OwnInv, Place, Idle, Sent, Answered, Arrived, Lost, NothingUnderway,
         NotSignalled
<1>5. sent' \in 0..MaxRequests
  BY MaxRequestsAssumption DEF QueryOnClosed, OwnInv
<1>6. waiting' = [d \in Callers |-> waiting'[d]] /\ result' = [d \in Callers |-> result'[d]]
  BY <1>1 DEF QueryOnClosed, OwnInv
<1>7. QED
  BY <1>3, <1>4, <1>5, <1>6 DEF OwnInv

(* The frame taken is the one in flight, so it belongs to the waiting query. *)
LEMMA ReceiveIsOwn ==
  ASSUME Alone, OwnInv, NEW c \in Callers, Receive
  PROVE  OwnInv'
<1>1. Answered(c)
  BY DEF Receive, OwnInv, Place, Idle, Sent, Answered, Arrived, Lost, NothingUnderway
<1>2. message' = waiting[c] /\ toClient' = <<>>
  BY <1>1 DEF Receive, Answered
<1>3. woken' = {c}
  BY <1>1 DEF Receive, Answered, Alone
<1>4. Arrived(c)'
  BY <1>1, <1>2, <1>3 DEF Receive, Answered, Arrived, NothingUnderway
<1>5. \A d \in Callers : Place(d)'
  BY <1>4 DEF Alone, Place
<1>6. QED
  BY <1>5 DEF Receive, OwnInv, AnswerIsOwn

(* The woken query reads the answer to its own request and clears the event. *)
LEMMA WakeIsOwn ==
  ASSUME Alone, OwnInv, NEW c \in Callers, Wake(c)
  PROVE  OwnInv'
<1>1. Arrived(c)
  BY DEF Wake, OwnInv, Place, Idle, Sent, Answered, Arrived, Lost, NotSignalled
<1>2. /\ waiting' = [waiting EXCEPT ![c] = NoMsg]
      /\ result' = [result EXCEPT ![c] = Outcome(waiting[c], waiting[c])]
  BY <1>1 DEF Wake, Arrived
<1>3. waiting'[c] = NoMsg /\ result'[c] = Outcome(waiting[c], waiting[c])
  BY <1>2 DEF OwnInv
<1>4. Idle(c)'
  BY <1>1, <1>3 DEF Wake, Arrived, Idle, NothingUnderway, NotSignalled
<1>5. \A d \in Callers : Place(d)'
  BY <1>4 DEF Alone, Place
<1>6. AnswerIsOwn'
  BY <1>3 DEF Alone, AnswerIsOwn, Outcome
<1>7. waiting' = [d \in Callers |-> waiting'[d]] /\ result' = [d \in Callers |-> result'[d]]
  BY <1>2 DEF OwnInv
<1>8. QED
  BY <1>5, <1>6, <1>7 DEF Wake, OwnInv

(* With a prompt server the deadline only passes for a request that is lost. *)
LEMMA TimeoutIsOwn ==
  ASSUME Alone, Prompt, OwnInv, NEW c \in Callers, Timeout(c)
  PROVE  OwnInv'
<1>1. Unanswerable(waiting[c]) /\ c \notin woken /\ waiting[c] # NoMsg
  BY DEF Timeout, Prompt
<1>2. ~Sent(c)
  <2>1. SUFFICES ASSUME Sent(c) PROVE FALSE
    OBVIOUS
  <2>2. toServer \o toClient = <<waiting[c]>>
    BY <2>1 DEF Sent
  <2>3. QED
    BY <1>1, <2>2 DEF Unanswerable
<1>3. ~Answered(c)
  <2>1. SUFFICES ASSUME Answered(c) PROVE FALSE
    OBVIOUS
  <2>2. toServer \o toClient = <<waiting[c]>>
    BY <2>1 DEF Answered
  <2>3. QED
    BY <1>1, <2>2 DEF Unanswerable
<1>4. Lost(c)
  BY <1>1, <1>2, <1>3 DEF OwnInv, Place, Idle, Arrived
<1>5. /\ waiting' = [waiting EXCEPT ![c] = NoMsg]
      /\ result' = [result EXCEPT ![c] = Failure("Timeout", waiting[c])]
  BY DEF Timeout
<1>6. waiting'[c] = NoMsg /\ result'[c].kind = "Timeout"
  BY <1>5 DEF OwnInv, Failure
<1>7. Idle(c)'
  BY <1>4, <1>6 DEF Timeout, Lost, Idle, NothingUnderway, NotSignalled
<1>8. \A d \in Callers : Place(d)'
  BY <1>7 DEF Alone, Place
<1>9. AnswerIsOwn'
  BY <1>6 DEF Alone, AnswerIsOwn
<1>10. waiting' = [d \in Callers |-> waiting'[d]] /\ result' = [d \in Callers |-> result'[d]]
  BY <1>5 DEF OwnInv
<1>11. QED
  BY <1>8, <1>9, <1>10 DEF Timeout, OwnInv

(* The server answers the one request, or its answer is dropped. *)
LEMMA ServeIsOwn ==
  ASSUME Alone, OwnInv, NEW c \in Callers, Serve \/ ServeDropped
  PROVE  OwnInv'
<1>1. Sent(c)
  BY DEF Serve, ServeDropped, OwnInv, Place, Idle, Sent, Answered, Arrived, Lost, NothingUnderway
<1>2. toServer' = <<>>
  BY <1>1 DEF Serve, ServeDropped, Sent
<1>3. toClient' = <<waiting[c]>> \/ toClient' = <<>>
  BY <1>1 DEF Serve, ServeDropped, Sent
<1>4. UNCHANGED <<rspEvt, message, waiting, woken, result, sent>>
  BY DEF Serve, ServeDropped
<1>5. Answered(c)' \/ Lost(c)'
  BY <1>1, <1>2, <1>3, <1>4 DEF Sent, Answered, Lost, NothingUnderway, NotSignalled
<1>6. \A d \in Callers : Place(d)'
  BY <1>5 DEF Alone, Place
<1>7. QED
  BY <1>4, <1>6 DEF OwnInv, AnswerIsOwn

(* A link that breaks may take the request or its answer with it. *)
LEMMA LinkDownIsOwn ==
  ASSUME Alone, OwnInv, NEW c \in Callers, LinkDown
  PROVE  OwnInv'
<1>1. UNCHANGED <<rspEvt, message, waiting, woken, result, sent>> /\ toServer' = <<>>
  BY DEF LinkDown
<1>2. PICK arrived \in 0..Len(toClient) : toClient' = SubSeq(toClient, 1, arrived)
  BY DEF LinkDown
<1>3. CASE toClient = <<>>
  <2>1. toClient' = <<>>
    BY <1>2, <1>3
  <2>2. Place(c)'
    BY <1>1, <1>3, <2>1 DEF OwnInv, Place, Idle, Sent, Answered, Arrived, Lost, NothingUnderway,
                            NotSignalled
  <2>3. QED
    BY <1>1, <2>2 DEF Alone, OwnInv, AnswerIsOwn
<1>4. CASE toClient # <<>>
  <2>1. Answered(c)
    BY <1>4 DEF OwnInv, Place, Idle, Sent, Answered, Arrived, Lost, NothingUnderway
  <2>2. toClient' = <<>> \/ toClient' = <<waiting[c]>>
    <3>1. toClient = <<waiting[c]>> /\ arrived \in 0..1
      BY <1>2, <2>1 DEF Answered
    <3>2. SubSeq(toClient, 1, 0) = <<>>
      BY SubSeqEmpty
    <3>3. SubSeq(toClient, 1, 1) = toClient
      <4>1. toClient \in Seq({waiting[c]}) /\ Len(toClient) = 1
        BY <3>1
      <4>2. QED
        BY <4>1, SubSeqFull
    <3>4. arrived = 0 \/ arrived = 1
      BY <3>1
    <3>5. QED
      BY <1>2, <3>1, <3>2, <3>3, <3>4, Zenon
  <2>3. Answered(c)' \/ Lost(c)'
    BY <1>1, <2>1, <2>2 DEF Answered, Lost, NothingUnderway, NotSignalled
  <2>4. QED
    BY <1>1, <2>3 DEF Alone, OwnInv, Place, AnswerIsOwn
<1>5. QED
  BY <1>3, <1>4

(* Every action keeps the invariant. *)
LEMMA StepIsOwn ==
  ASSUME Alone, Prompt, OwnInv, [Next]_vars
  PROVE  OwnInv'
<1>1. CASE UNCHANGED vars
  BY <1>1, NothingMovesIsOwn DEF vars
<1>2. CASE Start \/ Connected \/ ConnectOSError \/ ConnectOtherError \/ StartReturns \/ OpenEnds
  BY <1>2, NothingMovesIsOwn
     DEF Start, Connected, ConnectOSError, ConnectOtherError, StartReturns, OpenEnds, EndOpen
<1>3. CASE Callers = {} /\ (Receive \/ Serve \/ ServeDropped \/ LinkDown)
  BY <1>3 DEF Receive, Serve, ServeDropped, LinkDown, OwnInv, AnswerIsOwn
<1>4. CASE Callers # {} /\ (Receive \/ Serve \/ ServeDropped \/ LinkDown)
  <2>1. PICK c : c \in Callers
    BY <1>4
  <2>2. QED
    BY <1>4, <2>1, ReceiveIsOwn, ServeIsOwn, LinkDownIsOwn
<1>5. ASSUME NEW c \in Callers, Timeout(c) \/ Wake(c)
      PROVE  OwnInv'
  BY <1>5, TimeoutIsOwn, WakeIsOwn
<1>6. ASSUME NEW c \in Callers, NEW body \in Bodies, Query(c, body) \/ QueryOnClosed(c, body)
      PROVE  OwnInv'
  BY <1>6, QueryIsOwn, QueryOnClosedIsOwn
<1>7. QED
  BY <1>1, <1>2, <1>3, <1>4, <1>5, <1>6 DEF Next

-----------------------------------------------------------------------------
(* One caller at a time and a prompt server: a query that returns an answer returns
   the answer to its own request, whatever is dropped and however often. *)
THEOREM AnswersAreOwn == Alone /\ Prompt => (Spec => []AnswerIsOwn)
<1>1. Init => OwnInv
  BY InitIsOwn
<1>2. Alone /\ Prompt /\ OwnInv /\ [Next]_vars => OwnInv'
  BY StepIsOwn
<1>3. OwnInv => AnswerIsOwn
  BY DEF OwnInv
<1>4. ASSUME Alone /\ Prompt PROVE OwnInv /\ [Next]_vars => OwnInv'
  BY <1>2, <1>4
<1>5. ASSUME Alone /\ Prompt PROVE Spec => []AnswerIsOwn
  BY <1>1, <1>3, <1>4, <1>5, PTL DEF Spec
<1>6. QED
  BY <1>5

-----------------------------------------------------------------------------
(* Type correctness, for any callers and any losses.                       *)

(* start() and open(): nobody releases the semaphore twice. *)
StartInv ==
  /\ starting = "new" => openTask = "none"
  /\ openTask \in {"none", "connecting"} => sem = 0

TypeInv == TypeOK /\ StartInv

Results == [kind : {"Idle", "Answer", "BodyTypeError", "Timeout", "ConnectionClosed"},
            request : Request \cup {NoMsg}, response : Request \cup {NoMsg}]

(* How a query can end is a Result. *)
LEMMA OutcomesAreResults ==
  /\ NoResult \in Results
  /\ \A request, response \in Request \cup {NoMsg} : Outcome(request, response) \in Results
  /\ \A kind \in {"Timeout", "ConnectionClosed"}, request \in Request \cup {NoMsg} :
       Failure(kind, request) \in Results
  BY DEF Results, NoResult, Outcome, Failure

(* The next request is one of the bounded requests. *)
LEMMA NextRequest ==
  ASSUME TypeOK, sent < MaxRequests, NEW body \in Bodies
  PROVE  /\ [n |-> sent + 1, body |-> body] \in Request
         /\ sent + 1 \in 0..MaxRequests
  BY MaxRequestsAssumption DEF TypeOK, Request

LEMMA InitTypeInv == Init => TypeInv
<1> SUFFICES ASSUME Init PROVE TypeInv
  OBVIOUS
<1>1. sent \in 0..MaxRequests
  BY MaxRequestsAssumption DEF Init
<1>2. result \in [Callers -> Results]
  BY OutcomesAreResults DEF Init
<1>3. woken \subseteq {c \in Callers : waiting[c] # NoMsg}
  BY DEF Init
<1>4. waiting \in [Callers -> Request \cup {NoMsg}]
  BY DEF Init
<1>5. toServer \in Seq(Request) /\ toClient \in Seq(Request)
  BY EmptySeq DEF Init
<1>6. StartInv
  BY DEF Init, StartInv
<1>7. QED
  BY <1>1, <1>2, <1>3, <1>4, <1>5, <1>6 DEF Init, TypeInv, TypeOK, Results

(* A query's request is new; it ends at once on a set event. *)
LEMMA QueryTypeInv ==
  ASSUME TypeInv, NEW c \in Callers, NEW body \in Bodies, Query(c, body)
  PROVE  TypeInv'
<1> DEFINE request == [n |-> sent + 1, body |-> body]
<1>1. request \in Request /\ sent' \in 0..MaxRequests
  BY NextRequest DEF Query, TypeInv
<1>2. request # NoMsg
  BY <1>1, NoMsgAssumption
<1>3. toServer' \in Seq(Request)
  BY <1>1 DEF Query, TypeInv, TypeOK
<1>4. /\ waiting' \in [Callers -> Request \cup {NoMsg}]
      /\ woken' \subseteq {d \in Callers : waiting'[d] # NoMsg}
  BY <1>1, <1>2 DEF Query, TypeInv, TypeOK
<1>5. result' \in [Callers -> Results] /\ rspEvt' \in BOOLEAN
  <2>1. Outcome(request, message) \in Results
    BY <1>1, OutcomesAreResults DEF TypeInv, TypeOK
  <2>2. QED
    BY <2>1 DEF Query, TypeInv, TypeOK, Results
<1>6. QED
  BY <1>1, <1>3, <1>4, <1>5 DEF Query, TypeInv, TypeOK, StartInv, startVars, Results

(* A query on a closed connection fails with the request it could not send. *)
LEMMA QueryOnClosedTypeInv ==
  ASSUME TypeInv, NEW c \in Callers, NEW body \in Bodies, QueryOnClosed(c, body)
  PROVE  TypeInv'
<1> DEFINE request == [n |-> sent + 1, body |-> body]
<1>1. request \in Request /\ sent' \in 0..MaxRequests
  BY NextRequest DEF QueryOnClosed, TypeInv
<1>2. result' \in [Callers -> Results]
  BY <1>1, OutcomesAreResults DEF QueryOnClosed, TypeInv, TypeOK, Results
<1>3. QED
  BY <1>1, <1>2 DEF QueryOnClosed, TypeInv, TypeOK, StartInv, startVars, Results

(* A query that ends leaves the woken ones. *)
LEMMA WakeOrTimeoutTypeInv ==
  ASSUME TypeInv, NEW c \in Callers, Wake(c) \/ Timeout(c)
  PROVE  TypeInv'
<1>1. waiting[c] \in Request \cup {NoMsg} /\ message \in Request \cup {NoMsg}
  BY DEF TypeInv, TypeOK
<1>2. PICK outcome \in Results : result' = [result EXCEPT ![c] = outcome]
  BY <1>1, OutcomesAreResults DEF Wake, Timeout
<1>3. result' \in [Callers -> Results]
  BY <1>2 DEF TypeInv, TypeOK, Results
<1>4. waiting' = [waiting EXCEPT ![c] = NoMsg] /\ woken' = woken \ {c}
  BY DEF Wake, Timeout
<1>5. /\ waiting' \in [Callers -> Request \cup {NoMsg}]
      /\ woken' \subseteq {d \in Callers : waiting'[d] # NoMsg}
  BY <1>4 DEF TypeInv, TypeOK
<1>6. QED
  BY <1>3, <1>5 DEF Wake, Timeout, TypeInv, TypeOK, StartInv, startVars, Results

(* Frames that move along the channels, or are lost, stay requests. *)
LEMMA ChannelsTypeInv ==
  ASSUME TypeInv, Receive \/ Serve \/ ServeDropped \/ LinkDown
  PROVE  TypeInv'
<1>1. CASE Receive
  <2>1. message' \in Request /\ toClient' \in Seq(Request)
    BY <1>1, HeadTailProperties DEF Receive, TypeInv, TypeOK
  <2>2. QED
    BY <1>1, <2>1 DEF Receive, TypeInv, TypeOK, StartInv, startVars
<1>2. CASE Serve \/ ServeDropped
  <2>1. Head(toServer) \in Request /\ Tail(toServer) \in Seq(Request)
    BY <1>2, HeadTailProperties DEF Serve, ServeDropped, TypeInv, TypeOK
  <2>2. toServer' \in Seq(Request)
    BY <1>2, <2>1 DEF Serve, ServeDropped
  <2>3. toClient' = toClient \/ toClient' = Append(toClient, Head(toServer))
    BY <1>2 DEF Serve, ServeDropped
  <2>4. toClient \in Seq(Request)
    BY DEF TypeInv, TypeOK
  <2>5. Append(toClient, Head(toServer)) \in Seq(Request)
    BY <2>1, <2>4, AppendProperties
  <2>6. toClient' \in Seq(Request)
    BY <2>3, <2>4, <2>5
  <2>7. QED
    BY <1>2, <2>2, <2>6 DEF Serve, ServeDropped, TypeInv, TypeOK, StartInv, startVars
<1>3. CASE LinkDown
  <2>1. PICK arrived \in 0..Len(toClient) : toClient' = SubSeq(toClient, 1, arrived)
    BY <1>3 DEF LinkDown
  <2>2. \A i \in 1..arrived : toClient[i] \in Request
    BY <2>1 DEF TypeInv, TypeOK
  <2>3. toClient' \in Seq(Request)
    BY <2>1, <2>2, SubSeqProperties
  <2>4. QED
    BY <1>3, <2>3 DEF LinkDown, TypeInv, TypeOK, StartInv
<1>4. QED
  BY <1>1, <1>2, <1>3

(* The semaphore goes up once, from 0, and down once. *)
LEMMA StartingTypeInv ==
  ASSUME TypeInv,
         Start \/ Connected \/ ConnectOSError \/ ConnectOtherError \/ StartReturns \/ OpenEnds
  PROVE  TypeInv'
<1>1. /\ starting' \in {"new", "acquiring", "returned", "raised"}
      /\ openTask' \in {"none", "connecting", "receiving", "ended"}
      /\ opened' \in BOOLEAN /\ rspEvt' \in BOOLEAN
      /\ link' \in {"none", "up", "down"}
      /\ UNCHANGED <<toServer, toClient, message, waiting, woken, result, sent>>
  BY DEF Start, Connected, ConnectOSError, ConnectOtherError, StartReturns, OpenEnds, EndOpen,
         TypeInv, TypeOK
<1>2. sem' \in {0, 1} /\ StartInv'
  BY DEF Start, Connected, ConnectOSError, ConnectOtherError, StartReturns, OpenEnds, EndOpen,
         TypeInv, TypeOK, StartInv
<1>3. QED
  BY <1>1, <1>2 DEF TypeInv, TypeOK

LEMMA StepTypeInv == TypeInv /\ [Next]_vars => TypeInv'
<1> SUFFICES ASSUME TypeInv, [Next]_vars PROVE TypeInv'
  OBVIOUS
<1>1. CASE UNCHANGED vars
  BY <1>1 DEF vars, TypeInv, TypeOK, StartInv
<1>2. QED
  BY <1>1, QueryTypeInv, QueryOnClosedTypeInv, WakeOrTimeoutTypeInv, ChannelsTypeInv,
     StartingTypeInv DEF Next

LEMMA AlwaysTypeInv == Spec => []TypeInv
  BY InitTypeInv, StepTypeInv, PTL DEF Spec

(* Every variable keeps its type, and the semaphore stays between 0 and 1. *)
THEOREM TypesAreKept == Spec => []TypeOK
<1>1. TypeInv => TypeOK
  BY DEF TypeInv
<1>2. QED
  BY <1>1, AlwaysTypeInv, PTL

-----------------------------------------------------------------------------
(* Order, for any number of callers, late answers and losses.              *)
(*                                                                         *)
(* Frames keep the order of sending from one end to the other, what was    *)
(* received is older than what is still under way, and what was taken is   *)
(* no newer than the last message received, and older while that message   *)
(* is announced: by the event, or to the callers it woke.                  *)

InOrder(s) == \A i, j \in 1..Len(s) : i < j => s[i].n < s[j].n
After(n, s) == \A i \in 1..Len(s) : n < s[i].n
UpTo(s, n) == \A i \in 1..Len(s) : s[i].n <= n

FramesInv ==
  /\ InOrder(toServer) /\ InOrder(toClient)
  /\ \A i \in 1..Len(toClient) : After(toClient[i].n, toServer)
  /\ UpTo(toServer, sent) /\ UpTo(toClient, sent)

MessageInv ==
  /\ rspEvt \/ woken # {} => message # NoMsg
  /\ message # NoMsg =>
       message.n <= sent /\ After(message.n, toServer) /\ After(message.n, toClient)

TakenInv ==
  \A c \in Callers : result[c].response # NoMsg =>
    /\ message # NoMsg
    /\ result[c].response.n <= message.n
    /\ rspEvt \/ c \in woken => result[c].response.n < message.n

OrderInv == FramesInv /\ MessageInv /\ TakenInv

(* Taking the head of an ordered channel leaves an ordered channel of later frames. *)
LEMMA TailInOrder ==
  ASSUME NEW s \in Seq(Request), s # <<>>, InOrder(s)
  PROVE  /\ Head(s) \in Request /\ Tail(s) \in Seq(Request)
         /\ InOrder(Tail(s)) /\ After(Head(s).n, Tail(s))
         /\ \A n \in Int : After(n, s) => After(n, Tail(s)) /\ n < Head(s).n
         /\ \A n \in Int : UpTo(s, n) => UpTo(Tail(s), n) /\ Head(s).n <= n
<1>1. /\ Head(s) \in Request /\ Tail(s) \in Seq(Request)
      /\ Len(Tail(s)) = Len(s) - 1
      /\ \A i \in 1..Len(Tail(s)) : Tail(s)[i] = s[i + 1]
  BY HeadTailProperties
<1>2. Len(s) \in Nat \ {0} /\ Head(s) = s[1]
  BY EmptySeq
<1>3. \A i \in 1..Len(Tail(s)) : i + 1 \in 1..Len(s) /\ Tail(s)[i] = s[i + 1]
  BY <1>1, <1>2
<1>4. InOrder(Tail(s)) /\ After(Head(s).n, Tail(s))
  BY <1>1, <1>2, <1>3 DEF InOrder, After
<1>5. \A n \in Int : After(n, s) => After(n, Tail(s)) /\ n < Head(s).n
  BY <1>2, <1>3 DEF After
<1>6. \A n \in Int : UpTo(s, n) => UpTo(Tail(s), n) /\ Head(s).n <= n
  BY <1>2, <1>3 DEF UpTo
<1>7. QED
  BY <1>1, <1>4, <1>5, <1>6

(* A frame later than all the others keeps a channel ordered. *)
LEMMA AppendInOrder ==
  ASSUME NEW s \in Seq(Request), NEW r \in Request, InOrder(s),
         \A i \in 1..Len(s) : s[i].n < r.n
  PROVE  /\ InOrder(Append(s, r))
         /\ \A n \in Int : After(n, s) /\ n < r.n => After(n, Append(s, r))
         /\ \A n \in Int : UpTo(s, n) /\ r.n <= n => UpTo(Append(s, r), n)
         /\ \A i \in 1..Len(Append(s, r)) :
              Append(s, r)[i] = r \/ \E j \in 1..Len(s) : Append(s, r)[i] = s[j]
<1> DEFINE t == Append(s, r)
<1>1. /\ Len(s) \in Nat /\ Len(t) = Len(s) + 1
      /\ \A i \in 1..Len(s) : t[i] = s[i]
      /\ t[Len(s) + 1] = r
  BY AppendProperties, LenProperties
<1> HIDE DEF t
<1>2. \A i \in 1..Len(t) : (i \in 1..Len(s) /\ t[i] = s[i]) \/ (i = Len(s) + 1 /\ t[i] = r)
  BY <1>1
<1>3. InOrder(t)
  BY <1>1, <1>2 DEF InOrder
<1>4. \A n \in Int : After(n, s) /\ n < r.n => After(n, t)
  BY <1>2 DEF After
<1>5. \A n \in Int : UpTo(s, n) /\ r.n <= n => UpTo(t, n)
  BY <1>2 DEF UpTo
<1>6. \A i \in 1..Len(t) : t[i] = r \/ \E j \in 1..Len(s) : t[i] = s[j]
  BY <1>2
<1>7. QED
  BY <1>3, <1>4, <1>5, <1>6 DEF t

(* What arrived of an ordered channel is ordered. *)
LEMMA PrefixInOrder ==
  ASSUME NEW s \in Seq(Request), NEW k \in 0..Len(s), InOrder(s)
  PROVE  /\ InOrder(SubSeq(s, 1, k))
         /\ \A n \in Int : After(n, s) => After(n, SubSeq(s, 1, k))
         /\ \A n \in Int : UpTo(s, n) => UpTo(SubSeq(s, 1, k), n)
<1> DEFINE t == SubSeq(s, 1, k)
<1>1. Len(s) \in Nat /\ \A i \in 1..k : s[i] \in Request
  BY LenProperties, ElementOfSeq
<1>2. Len(t) = k /\ \A i \in 1..k : t[i] = s[i]
  BY <1>1, SubSeqProperties
<1>3. \A i \in 1..Len(t) : i \in 1..Len(s) /\ t[i] = s[i]
  BY <1>1, <1>2
<1> HIDE DEF t
<1>4. QED
  BY <1>2, <1>3 DEF InOrder, After, UpTo, t

-----------------------------------------------------------------------------
(* Nothing sent, nothing out of order. *)
LEMMA InitInOrder == Init => OrderInv
  BY EmptySeq DEF Init, OrderInv, FramesInv, MessageInv, TakenInv, InOrder, After, UpTo, NoResult

(* Steps of start() and open() move no frame; at most they clear the event. *)
LEMMA NothingMovesInOrder ==
  ASSUME OrderInv,
         UNCHANGED <<toServer, toClient, message, waiting, woken, result, sent>>,
         rspEvt' = rspEvt \/ rspEvt' = FALSE
  PROVE  OrderInv'
<1>1. FramesInv'
  BY DEF OrderInv, FramesInv, InOrder, After, UpTo
<1>2. MessageInv'
  BY DEF OrderInv, MessageInv, After
<1>3. TakenInv'
  BY DEF OrderInv, TakenInv
<1>4. QED
  BY <1>1, <1>2, <1>3 DEF OrderInv

(* A frame sent is later than every other; what a query takes at once was unread. *)
LEMMA QueryInOrder ==
  ASSUME TypeInv, OrderInv, NEW c \in Callers, NEW body \in Bodies, Query(c, body)
  PROVE  OrderInv'
<1> DEFINE request == [n |-> sent + 1, body |-> body]
<1>1. request \in Request /\ request.n = sent + 1 /\ sent \in Int /\ sent' = sent + 1
  BY NextRequest DEF Query, TypeInv, TypeOK
<1>2. /\ toServer' = toServer \/ toServer' = Append(toServer, request)
      /\ UNCHANGED <<toClient, message, woken>>
  BY DEF Query
<1>3. toServer \in Seq(Request) /\ toClient \in Seq(Request)
  BY DEF TypeInv, TypeOK
<1> HIDE DEF request
<1>4. /\ \A i \in 1..Len(toServer) : toServer[i] \in Request /\ toServer[i].n <= sent
      /\ \A i \in 1..Len(toClient) : toClient[i] \in Request /\ toClient[i].n <= sent
  BY <1>3, ElementOfSeq DEF OrderInv, FramesInv, UpTo
<1>5. \A r \in Request : r.n \in Int
  BY DEF Request
<1>6. \A i \in 1..Len(toServer) : toServer[i].n < request.n
  BY <1>1, <1>4, <1>5
<1>7. /\ InOrder(toServer')
      /\ \A n \in Int : After(n, toServer) /\ n < request.n => After(n, toServer')
      /\ \A n \in Int : UpTo(toServer, n) /\ request.n <= n => UpTo(toServer', n)
  BY <1>1, <1>2, <1>3, <1>6, AppendInOrder DEF OrderInv, FramesInv
<1>8. FramesInv'
  <2>1. \A i \in 1..Len(toClient) : After(toClient[i].n, toServer')
    BY <1>1, <1>4, <1>5, <1>7 DEF OrderInv, FramesInv
  <2>2. UpTo(toServer, sent + 1) /\ UpTo(toClient, sent + 1)
    BY <1>1, <1>4, <1>5 DEF UpTo
  <2>3. UpTo(toServer', sent + 1)
    BY <1>1, <1>7, <2>2
  <2>4. QED
    BY <1>1, <1>2, <1>7, <2>1, <2>2, <2>3 DEF OrderInv, FramesInv
<1>9. message # NoMsg => message.n \in Int
  BY <1>5 DEF TypeInv, TypeOK
<1>10. MessageInv'
  <2>1. rspEvt' => rspEvt
    BY DEF Query
  <2>2. message # NoMsg => message.n <= sent + 1 /\ After(message.n, toServer')
    BY <1>1, <1>7, <1>9 DEF OrderInv, MessageInv
  <2>3. QED
    BY <1>1, <1>2, <2>1, <2>2 DEF OrderInv, MessageInv
<1>11. TakenInv'
  <2>1. CASE rspEvt
    <3>1. /\ result' = [result EXCEPT ![c] = Outcome(request, message)]
          /\ rspEvt' = FALSE
      BY <2>1 DEF Query, request
    <3>2. c \notin woken
      BY DEF Query, TypeInv, TypeOK
    <3>3. result'[c].response = message
      BY <3>1 DEF Outcome, TypeInv, TypeOK
    <3>4. \A d \in Callers : d # c => result'[d] = result[d]
      BY <3>1 DEF TypeInv, TypeOK
    <3>5. QED
      BY <1>2, <1>9, <3>1, <3>2, <3>3, <3>4 DEF OrderInv, TakenInv
  <2>2. CASE ~rspEvt
    BY <1>2, <2>2 DEF Query, OrderInv, TakenInv
  <2>3. QED
    BY <2>1, <2>2
<1>12. QED
  BY <1>8, <1>10, <1>11 DEF OrderInv

(* The request that could not be sent still counts. *)
LEMMA QueryOnClosedInOrder ==
  ASSUME TypeInv, OrderInv, NEW c \in Callers, NEW body \in Bodies, QueryOnClosed(c, body)
  PROVE  OrderInv'
<1>1. /\ UNCHANGED <<toServer, toClient, rspEvt, message, woken>>
      /\ sent \in Int /\ sent' = sent + 1
  BY DEF QueryOnClosed, TypeInv, TypeOK
<1>2. \A r \in Request : r.n \in Int
  BY DEF Request
<1>3. /\ \A i \in 1..Len(toServer) : toServer[i].n \in Int
      /\ \A i \in 1..Len(toClient) : toClient[i].n \in Int
      /\ message # NoMsg => message.n \in Int
  BY <1>2, ElementOfSeq DEF TypeInv, TypeOK
<1>4. FramesInv'
  BY <1>1, <1>3 DEF OrderInv, FramesInv, InOrder, After, UpTo
<1>5. MessageInv'
  BY <1>1, <1>3 DEF OrderInv, MessageInv, After
<1>6. /\ result'[c].response = NoMsg
      /\ \A d \in Callers : d # c => result'[d] = result[d]
  BY DEF QueryOnClosed, Failure, TypeInv, TypeOK
<1>7. TakenInv'
  BY <1>1, <1>6 DEF OrderInv, TakenInv
<1>8. QED
  BY <1>4, <1>5, <1>7 DEF OrderInv

(* The frame taken is later than anything taken before, and nobody has read it. *)
LEMMA ReceiveInOrder ==
  ASSUME TypeInv, OrderInv, Receive
  PROVE  OrderInv'
<1>1. /\ toClient \in Seq(Request) /\ toClient # <<>> /\ InOrder(toClient)
      /\ message' = Head(toClient) /\ toClient' = Tail(toClient)
      /\ UNCHANGED <<toServer, result, sent>>
  BY DEF Receive, TypeInv, TypeOK, OrderInv, FramesInv
<1>2. \A r \in Request : r.n \in Int
  BY DEF Request
<1>3. message' \in Request /\ message' # NoMsg /\ message'.n \in Int
  BY <1>1, <1>2, TailInOrder, NoMsgAssumption
<1>4. InOrder(toClient') /\ After(message'.n, toClient')
  BY <1>1, TailInOrder
<1>5. sent \in Int /\ UpTo(toClient', sent) /\ message'.n <= sent
  BY <1>1, TailInOrder DEF OrderInv, FramesInv, TypeInv, TypeOK
<1>6. /\ Len(toClient) \in Nat \ {0} /\ message' = toClient[1]
      /\ \A i \in 1..Len(toClient') : i + 1 \in 1..Len(toClient) /\ toClient'[i] = toClient[i + 1]
  BY <1>1, HeadTailProperties, EmptySeq
<1>7. FramesInv'
  BY <1>1, <1>4, <1>5, <1>6 DEF OrderInv, FramesInv
<1>8. MessageInv'
  BY <1>1, <1>3, <1>4, <1>5, <1>6 DEF OrderInv, FramesInv, MessageInv
<1>9. ASSUME NEW c \in Callers, result[c].response # NoMsg
      PROVE  result[c].response.n < message'.n
  <2>1. message # NoMsg /\ result[c].response.n <= message.n
    BY <1>9 DEF OrderInv, TakenInv
  <2>2. message.n \in Int /\ result[c].response.n \in Int
    BY <1>2, <1>9, <2>1 DEF TypeInv, TypeOK
  <2>3. message.n < message'.n
    BY <1>6, <2>1 DEF OrderInv, MessageInv, After
  <2>4. QED
    BY <1>3, <2>1, <2>2, <2>3
<1>10. \A c \in Callers : result[c].response # NoMsg => result[c].response.n \in Int
  BY <1>2 DEF TypeInv, TypeOK
<1>11. TakenInv'
  BY <1>1, <1>3, <1>9, <1>10 DEF TakenInv
<1>12. QED
  BY <1>7, <1>8, <1>11 DEF OrderInv

(* A woken query takes the message, clears the event and is woken no more; one whose
   time is up takes nothing. *)
LEMMA WakeOrTimeoutInOrder ==
  ASSUME TypeInv, OrderInv, NEW c \in Callers, Wake(c) \/ Timeout(c)
  PROVE  OrderInv'
<1>1. /\ UNCHANGED <<toServer, toClient, message, sent>>
      /\ woken' = woken \ {c} /\ (rspEvt' => rspEvt)
  BY DEF Wake, Timeout
<1>2. FramesInv'
  BY <1>1 DEF OrderInv, FramesInv, InOrder, After, UpTo
<1>3. MessageInv'
  BY <1>1 DEF OrderInv, MessageInv, After
<1>4. \A d \in Callers : d # c => result'[d] = result[d]
  BY DEF Wake, Timeout, TypeInv, TypeOK
<1>5. message # NoMsg => message.n \in Int
  BY DEF TypeInv, TypeOK, Request
<1>6. CASE Wake(c)
  <2>1. result'[c].response = message /\ rspEvt' = FALSE
    BY <1>6 DEF Wake, Outcome, TypeInv, TypeOK
  <2>2. TakenInv'
    BY <1>1, <1>4, <1>5, <2>1 DEF OrderInv, TakenInv
  <2>3. QED
    BY <1>2, <1>3, <2>2 DEF OrderInv
<1>7. CASE Timeout(c)
  <2>1. result'[c].response = NoMsg
    BY <1>7 DEF Timeout, Failure, TypeInv, TypeOK
  <2>2. TakenInv'
    BY <1>1, <1>4, <2>1 DEF OrderInv, TakenInv
  <2>3. QED
    BY <1>2, <1>3, <2>2 DEF OrderInv
<1>8. QED
  BY <1>6, <1>7

(* The server answers in order; what it drops leaves the rest in order. *)
LEMMA ServeInOrder ==
  ASSUME TypeInv, OrderInv, Serve \/ ServeDropped
  PROVE  OrderInv'
<1> DEFINE served == Head(toServer)
<1>1. /\ toServer \in Seq(Request) /\ toServer # <<>> /\ InOrder(toServer)
      /\ toClient \in Seq(Request) /\ InOrder(toClient) /\ sent \in Int
      /\ toServer' = Tail(toServer)
      /\ toClient' = toClient \/ toClient' = Append(toClient, served)
      /\ UNCHANGED <<rspEvt, message, woken, result, sent>>
  BY DEF Serve, ServeDropped, TypeInv, TypeOK, OrderInv, FramesInv
<1>2. \A r \in Request : r.n \in Int
  BY DEF Request
<1>3. /\ served \in Request /\ InOrder(toServer') /\ After(served.n, toServer')
      /\ \A n \in Int : After(n, toServer) => After(n, toServer') /\ n < served.n
      /\ \A n \in Int : UpTo(toServer, n) => UpTo(toServer', n) /\ served.n <= n
  BY <1>1, TailInOrder
<1> HIDE DEF served
<1>4. \A i \in 1..Len(toClient) : toClient[i].n \in Int
  BY <1>1, <1>2, ElementOfSeq
<1>5. \A i \in 1..Len(toClient) : toClient[i].n < served.n /\ After(toClient[i].n, toServer')
  BY <1>3, <1>4 DEF OrderInv, FramesInv
<1>6. /\ InOrder(toClient')
      /\ \A n \in Int : After(n, toClient) /\ n < served.n => After(n, toClient')
      /\ \A n \in Int : UpTo(toClient, n) /\ served.n <= n => UpTo(toClient', n)
      /\ \A i \in 1..Len(toClient') :
           toClient'[i] = served \/ \E j \in 1..Len(toClient) : toClient'[i] = toClient[j]
  <2>1. CASE toClient' = toClient
    BY <1>1, <2>1
  <2>2. CASE toClient' = Append(toClient, served)
    BY <1>1, <1>3, <1>5, <2>2, AppendInOrder
  <2>3. QED
    BY <1>1, <2>1, <2>2
<1>7. FramesInv'
  <2>1. \A i \in 1..Len(toClient') : After(toClient'[i].n, toServer')
    BY <1>3, <1>5, <1>6
  <2>2. UpTo(toServer', sent) /\ UpTo(toClient', sent)
    BY <1>1, <1>3, <1>6 DEF OrderInv, FramesInv
  <2>3. QED
    BY <1>1, <1>3, <1>6, <2>1, <2>2 DEF FramesInv
<1>8. MessageInv'
  <2>1. message # NoMsg => message.n \in Int
    BY <1>2 DEF TypeInv, TypeOK
  <2>2. message # NoMsg => After(message.n, toServer') /\ After(message.n, toClient')
    BY <1>3, <1>6, <2>1 DEF OrderInv, MessageInv
  <2>3. QED
    BY <1>1, <2>2 DEF OrderInv, MessageInv
<1>9. TakenInv'
  BY <1>1 DEF OrderInv, TakenInv
<1>10. QED
  BY <1>7, <1>8, <1>9 DEF OrderInv

(* What arrived before the link broke is in order. *)
LEMMA LinkDownInOrder ==
  ASSUME TypeInv, OrderInv, LinkDown
  PROVE  OrderInv'
<1>1. PICK k \in 0..Len(toClient) : toClient' = SubSeq(toClient, 1, k)
  BY DEF LinkDown
<1>2. toServer' = <<>> /\ UNCHANGED <<rspEvt, message, woken, result, sent>>
  BY DEF LinkDown
<1>3. Len(toServer') = 0
  BY <1>2, EmptySeq
<1>4. /\ InOrder(toClient')
      /\ \A n \in Int : After(n, toClient) => After(n, toClient')
      /\ \A n \in Int : UpTo(toClient, n) => UpTo(toClient', n)
  BY <1>1, PrefixInOrder DEF TypeInv, TypeOK, OrderInv, FramesInv
<1>5. sent \in Int /\ (message # NoMsg => message.n \in Int)
  BY DEF TypeInv, TypeOK, Request
<1>6. InOrder(toServer') /\ UpTo(toServer', sent) /\ \A n : After(n, toServer')
  BY <1>3 DEF InOrder, UpTo, After
<1>7. FramesInv'
  BY <1>2, <1>4, <1>5, <1>6 DEF OrderInv, FramesInv
<1>8. MessageInv'
  BY <1>2, <1>4, <1>5, <1>6 DEF OrderInv, MessageInv
<1>9. TakenInv'
  BY <1>2 DEF OrderInv, TakenInv
<1>10. QED
  BY <1>7, <1>8, <1>9 DEF OrderInv

LEMMA StepInOrder == TypeInv /\ OrderInv /\ [Next]_vars => OrderInv'
<1> SUFFICES ASSUME TypeInv, OrderInv, [Next]_vars PROVE OrderInv'
  OBVIOUS
<1>1. CASE UNCHANGED vars
  BY <1>1, NothingMovesInOrder DEF vars
<1>2. CASE Start \/ Connected \/ ConnectOSError \/ ConnectOtherError \/ StartReturns \/ OpenEnds
  BY <1>2, NothingMovesInOrder
     DEF Start, Connected, ConnectOSError, ConnectOtherError, StartReturns, OpenEnds, EndOpen
<1>3. QED
  BY <1>1, <1>2, QueryInOrder, QueryOnClosedInOrder, ReceiveInOrder, WakeOrTimeoutInOrder,
     ServeInOrder, LinkDownInOrder DEF Next

LEMMA AlwaysInOrder == Spec => [](TypeInv /\ OrderInv)
<1>1. Init => TypeInv /\ OrderInv
  BY InitTypeInv, InitInOrder
<1>2. TypeInv /\ OrderInv /\ [Next]_vars => (TypeInv /\ OrderInv)'
  BY StepTypeInv, StepInOrder
<1>3. QED
  BY <1>1, <1>2, PTL DEF Spec

(* Any callers, any losses: a set event announces a message that nobody has read. *)
THEOREM EventsAnnounceUnread == Spec => []SetEventMeansUnread
<1>1. TypeInv /\ OrderInv => SetEventMeansUnread
  <2>1. SUFFICES ASSUME TypeInv, OrderInv, rspEvt, NEW c \in Callers, result[c].response = message
                 PROVE  FALSE
    BY DEF SetEventMeansUnread, OrderInv, MessageInv
  <2>2. message # NoMsg /\ message.n < message.n
    BY <2>1 DEF OrderInv, MessageInv, TakenInv
  <2>3. message.n \in Int
    BY <2>1, <2>2 DEF TypeInv, TypeOK, Request
  <2>4. QED
    BY <2>2, <2>3
<1>2. QED
  BY <1>1, AlwaysInOrder, PTL

(* Only a query that meets a set event, or is woken, takes a response: the message. *)
LEMMA TakesTheMessage ==
  ASSUME TypeInv, [Next]_vars, NEW c \in Callers, result'[c] # result[c],
         result'[c].response # NoMsg
  PROVE  result'[c].response = message /\ (rspEvt \/ c \in woken)
<1>1. PICK d \in Callers :
        \/ Wake(d) \/ Timeout(d)
        \/ \E body \in Bodies : Query(d, body) \/ QueryOnClosed(d, body)
  BY DEF Next, vars, Start, Connected, ConnectOSError, ConnectOtherError, StartReturns, Receive,
         Serve, ServeDropped, LinkDown, OpenEnds
<1>2. CASE Wake(d)
  BY <1>2 DEF Wake, Outcome, TypeInv, TypeOK
<1>3. CASE Timeout(d)
  BY <1>3 DEF Timeout, Failure, TypeInv, TypeOK
<1>4. ASSUME NEW body \in Bodies, Query(d, body)
      PROVE  result'[c].response = message /\ rspEvt
  BY <1>4 DEF Query, Outcome, TypeInv, TypeOK
<1>5. ASSUME NEW body \in Bodies, QueryOnClosed(d, body)
      PROVE  FALSE
  BY <1>5 DEF QueryOnClosed, Failure, TypeInv, TypeOK
<1>6. QED
  BY <1>1, <1>2, <1>3, <1>4, <1>5

(* Any callers, any losses: responses are handed out in the order of sending, and no
   caller takes one twice. *)
THEOREM ResponsesKeepTheirOrder == Spec => ResponsesNeverGoBack
<1>1. TypeInv /\ OrderInv /\ [Next]_vars =>
        [\A c \in Callers :
           result'[c] # result[c] /\ result'[c].response # NoMsg =>
             \A d \in Callers : result[d].response # NoMsg =>
               /\ result[d].response.n <= result'[c].response.n
               /\ d = c => result[d].response.n < result'[c].response.n]_vars
  BY TakesTheMessage DEF OrderInv, TakenInv
<1>2. QED
  BY <1>1, AlwaysInOrder, PTL DEF Spec, ResponsesNeverGoBack

-----------------------------------------------------------------------------
(* One caller at a time and a prompt server: every step of the connection is a step
   of Rpc, or changes nothing a caller sees. *)

AbstractOutcomes == [c \in Callers |-> AbstractOutcome(c)]

(* A step that ends no query and starts none. *)
LEMMA InvisibleStep ==
  ASSUME UNCHANGED <<waiting, result>>
  PROVE  UNCHANGED Abstract!vars
  BY DEF Abstract!vars, AbstractOutcome

(* How one query ended changes that caller's outcome only. *)
LEMMA OneOutcome ==
  ASSUME NEW c \in Callers, \A d \in Callers : d # c => result'[d] = result[d]
  PROVE  AbstractOutcomes' = [AbstractOutcomes EXCEPT ![c] = AbstractOutcome(c)']
  BY DEF AbstractOutcomes, AbstractOutcome

(* A query that fails at once or waits in vain ends with an error. *)
LEMMA FailureIsError ==
  ASSUME OwnInv, NEW c \in Callers, NEW kind, NEW request, kind # "Answer",
         result' = [result EXCEPT ![c] = Failure(kind, request)],
         waiting' = [waiting EXCEPT ![c] = NoMsg]
  PROVE  Abstract!Error(c)
<1>1. /\ result'[c].kind # "Answer"
      /\ \A d \in Callers : d # c => result'[d] = result[d]
  BY DEF OwnInv, Failure
<1>2. AbstractOutcomes' = [AbstractOutcomes EXCEPT ![c] = AbstractOutcome(c)']
  BY <1>1, OneOutcome
<1>3. AbstractOutcome(c)' = Abstract!NoOutcome
  BY <1>1 DEF AbstractOutcome, Abstract!NoOutcome
<1>4. QED
  BY <1>2, <1>3 DEF Abstract!Error, AbstractOutcomes

(* With the event clear, as it is for a lone caller, a query starts a new call. *)
LEMMA QueryIsCall ==
  ASSUME Alone, OwnInv, NEW c \in Callers, NEW body \in Bodies, Query(c, body)
  PROVE  \E call \in Request : Abstract!Call(c, call)
<1> DEFINE request == [n |-> sent + 1, body |-> body]
<1>1. rspEvt = FALSE /\ waiting[c] = NoMsg
  BY DEF Query, OwnInv, Place, Idle, Sent, Answered, Arrived, Lost, NotSignalled
<1>2. request \in Request
  BY MaxRequestsAssumption DEF Query, OwnInv, Request
<1>3. request # NoMsg
  BY <1>2, NoMsgAssumption
<1>4. waiting' = [waiting EXCEPT ![c] = request] /\ result' = result
  BY <1>1 DEF Query
<1>5. \A d \in Callers : waiting[d] # request
  BY <1>1, <1>3 DEF Alone
<1> HIDE DEF request
<1>6. Abstract!Call(c, request)
  BY <1>1, <1>4, <1>5 DEF Abstract!Call, AbstractOutcome
<1>7. QED
  BY <1>2, <1>6

(* What a woken lone caller reads is the answer to its call. *)
LEMMA WakeIsAnswer ==
  ASSUME Alone, OwnInv, NEW c \in Callers, Wake(c)
  PROVE  Abstract!Answer(c)
<1>1. waiting[c] # NoMsg /\ message = waiting[c]
  BY DEF Wake, OwnInv, Place, Idle, Sent, Answered, Arrived, Lost, NotSignalled
<1>2. /\ waiting' = [waiting EXCEPT ![c] = NoMsg]
      /\ result' = [result EXCEPT ![c] = Outcome(waiting[c], waiting[c])]
  BY <1>1 DEF Wake
<1>3. /\ result'[c].kind = "Answer" /\ result'[c].response = waiting[c]
      /\ \A d \in Callers : d # c => result'[d] = result[d]
  BY <1>2 DEF OwnInv, Outcome
<1>4. AbstractOutcomes' = [AbstractOutcomes EXCEPT ![c] = AbstractOutcome(c)']
  BY <1>3, OneOutcome
<1>5. AbstractOutcome(c)' = [call |-> waiting[c], answered |-> TRUE]
  BY <1>3 DEF AbstractOutcome
<1>6. QED
  BY <1>1, <1>2, <1>4, <1>5 DEF Abstract!Answer, AbstractOutcomes

LEMMA StepIsRpcStep ==
  ASSUME Alone, Prompt, OwnInv, [Next]_vars
  PROVE  [Abstract!Next]_Abstract!vars
<1>1. CASE \/ UNCHANGED vars \/ Start \/ Connected \/ ConnectOSError \/ ConnectOtherError
           \/ StartReturns \/ Receive \/ Serve \/ ServeDropped \/ LinkDown \/ OpenEnds
  <2>1. UNCHANGED <<waiting, result>>
    BY <1>1 DEF vars, Start, Connected, ConnectOSError, ConnectOtherError, StartReturns, Receive,
                Serve, ServeDropped, LinkDown, OpenEnds
  <2>2. QED
    BY <2>1, InvisibleStep
<1>2. ASSUME NEW c \in Callers, Wake(c)
      PROVE  Abstract!Next
  BY <1>2, WakeIsAnswer DEF Abstract!Next
<1>3. ASSUME NEW c \in Callers, Timeout(c)
      PROVE  Abstract!Next
  <2>1. Abstract!Error(c)
    BY <1>3, FailureIsError DEF Timeout
  <2>2. QED
    BY <2>1 DEF Abstract!Next
<1>4. ASSUME NEW c \in Callers, NEW body \in Bodies, Query(c, body)
      PROVE  Abstract!Next
  BY <1>4, QueryIsCall DEF Abstract!Next
<1>5. ASSUME NEW c \in Callers, NEW body \in Bodies, QueryOnClosed(c, body)
      PROVE  Abstract!Next
  <2>1. waiting' = [waiting EXCEPT ![c] = NoMsg]
    BY <1>5 DEF QueryOnClosed, OwnInv
  <2>2. Abstract!Error(c)
    BY <1>5, <2>1, FailureIsError DEF QueryOnClosed
  <2>3. QED
    BY <2>2 DEF Abstract!Next
<1>6. QED
  BY <1>1, <1>2, <1>3, <1>4, <1>5 DEF Next

(* The safety half of ImplementsRpc, for any number of requests and losses: to its one
   caller the connection is Rpc, where a call ends with its own answer or an error.
   That every call ends is left to TLC. *)
THEOREM ConnectionIsRpc ==
  Alone /\ Prompt => (Spec => Abstract!Init /\ [][Abstract!Next]_Abstract!vars)
<1>1. Init => Abstract!Init
  BY DEF Init, Abstract!Init, Abstract!NoOutcome, AbstractOutcome, NoResult
<1>2. Init => OwnInv
  BY InitIsOwn
<1>3. ASSUME Alone /\ Prompt PROVE OwnInv /\ [Next]_vars => OwnInv' /\ [Abstract!Next]_Abstract!vars
  BY <1>3, StepIsOwn, StepIsRpcStep
<1>4. ASSUME Alone /\ Prompt
      PROVE  Spec => Abstract!Init /\ [][Abstract!Next]_Abstract!vars
  BY <1>1, <1>2, <1>3, <1>4, PTL DEF Spec
<1>5. QED
  BY <1>4

-----------------------------------------------------------------------------
(* An answer that arrived is returned, for one caller at a time and a prompt server. *)

(* Whoever waits for the message read last is about to run; a link that was lost was
   there before. *)
WakeInv ==
  /\ \A c \in Callers : waiting[c] # NoMsg /\ message = waiting[c] => c \in woken
  /\ openTask \in {"none", "connecting"} => link = "none"

LEMMA InitWake == Init => WakeInv
  BY DEF Init, WakeInv

(* A request is newer than any message; a frame received wakes whoever waits. *)
LEMMA StepWake ==
  ASSUME TypeInv, OrderInv, WakeInv, [Next]_vars
  PROVE  WakeInv'
<1>1. CASE UNCHANGED vars
  BY <1>1 DEF vars, WakeInv
<1>2. CASE Start \/ Connected \/ ConnectOSError \/ ConnectOtherError \/ StartReturns \/ OpenEnds
           \/ Serve \/ ServeDropped \/ LinkDown
  <2>1. UNCHANGED <<message, waiting, woken>>
    BY <1>2 DEF Start, Connected, ConnectOSError, ConnectOtherError, StartReturns, OpenEnds,
                Serve, ServeDropped, LinkDown
  <2>2. openTask' \in {"none", "connecting"} => link' = "none"
    BY <1>2 DEF WakeInv, TypeInv, StartInv, Start, Connected, ConnectOSError, ConnectOtherError,
                StartReturns, OpenEnds, EndOpen, Serve, ServeDropped, LinkDown, startVars
  <2>3. QED
    BY <2>1, <2>2 DEF WakeInv
<1>3. CASE Receive
  BY <1>3 DEF WakeInv, Receive, startVars
<1>4. ASSUME NEW c \in Callers, Wake(c) \/ Timeout(c)
      PROVE  WakeInv'
  BY <1>4 DEF WakeInv, Wake, Timeout, startVars, TypeInv, TypeOK
<1>5. ASSUME NEW c \in Callers, NEW body \in Bodies, Query(c, body)
      PROVE  WakeInv'
  <2>1. message # NoMsg => message.n <= sent /\ message.n \in Int
    BY DEF OrderInv, MessageInv, TypeInv, TypeOK, Request
  <2>2. message # [n |-> sent + 1, body |-> body]
    BY <1>5, <2>1, NextRequest, NoMsgAssumption DEF Query, TypeInv, TypeOK
  <2>3. /\ \A d \in Callers : waiting'[d] = waiting[d] \/ waiting'[d] = [n |-> sent + 1, body |-> body]
        /\ UNCHANGED <<message, woken, openTask, link>>
    BY <1>5 DEF Query, startVars, TypeInv, TypeOK
  <2>4. QED
    BY <2>2, <2>3 DEF WakeInv
<1>6. ASSUME NEW c \in Callers, NEW body \in Bodies, QueryOnClosed(c, body)
      PROVE  WakeInv'
  BY <1>6 DEF WakeInv, QueryOnClosed, startVars
<1>7. QED
  BY <1>1, <1>2, <1>3, <1>4, <1>5, <1>6 DEF Next

(* What a step does to an answer that has arrived. *)
Kept(c) ==
  \/ waiting'[c] = waiting[c] /\ HasArrived(waiting[c])'
  \/ result'[c].response = waiting[c]

(* A frame that outlives its link is the answer to the one query under way. *)
LEMMA ArrivedFrame ==
  ASSUME OwnInv, NEW c \in Callers, waiting[c] # NoMsg,
         \E i \in DOMAIN toClient : toClient[i] = waiting[c]
  PROVE  Answered(c)
<1>1. toClient # <<>>
  OBVIOUS
<1>2. QED
  BY <1>1 DEF OwnInv, Place, Idle, Sent, Answered, Arrived, Lost, NothingUnderway

LEMMA StepKeepsArrived ==
  ASSUME Alone, Prompt, OwnInv, WakeInv, [Next]_vars,
         NEW c \in Callers, waiting[c] # NoMsg, HasArrived(waiting[c])
  PROVE  Kept(c)
<1>1. CASE UNCHANGED <<message, waiting, toClient, link>>
  BY <1>1 DEF Kept, HasArrived
<1>2. CASE Connected
  <2>1. link = "none" /\ UNCHANGED <<message, waiting>>
    BY <1>2 DEF Connected, WakeInv
  <2>2. QED
    BY <2>1 DEF Kept, HasArrived
<1>3. CASE Serve \/ ServeDropped \/ LinkDown
  <2>1. link = "up" /\ UNCHANGED <<message, waiting>>
    BY <1>3 DEF Serve, ServeDropped, LinkDown
  <2>2. QED
    BY <2>1 DEF Kept, HasArrived
<1>4. CASE Receive
  <2>1. message # waiting[c]
    BY <1>4 DEF Receive, WakeInv
  <2>2. Answered(c)
    BY <2>1, ArrivedFrame DEF HasArrived
  <2>3. message' = waiting[c] /\ waiting' = waiting
    BY <1>4, <2>2 DEF Receive, Answered
  <2>4. QED
    BY <2>3 DEF Kept, HasArrived
<1>5. CASE Wake(c)
  <2>1. Arrived(c)
    BY <1>5 DEF Wake, OwnInv, Place, Idle, Sent, Answered, Arrived, Lost, NotSignalled
  <2>2. result' = [result EXCEPT ![c] = Outcome(waiting[c], waiting[c])]
    BY <1>5, <2>1 DEF Wake, Arrived
  <2>3. result'[c].response = waiting[c]
    BY <2>2 DEF OwnInv, Outcome
  <2>4. QED
    BY <2>3 DEF Kept
<1>6. CASE Timeout(c)
  <2>1. Unanswerable(waiting[c]) /\ c \notin woken
    BY <1>6 DEF Timeout, Prompt
  <2>2. message # waiting[c]
    BY <2>1 DEF WakeInv
  <2>3. Answered(c)
    BY <2>2, ArrivedFrame DEF HasArrived
  <2>4. toServer \o toClient = <<waiting[c]>>
    BY <2>3 DEF Answered
  <2>5. QED
    BY <2>1, <2>4 DEF Unanswerable
<1>7. ASSUME NEW body \in Bodies, Query(c, body) \/ QueryOnClosed(c, body)
      PROVE  Kept(c)
  BY <1>7 DEF Query, QueryOnClosed
<1>8. CASE Start \/ ConnectOSError \/ ConnectOtherError \/ StartReturns \/ OpenEnds
  BY <1>1, <1>8 DEF Start, ConnectOSError, ConnectOtherError, StartReturns, OpenEnds, EndOpen
<1>9. CASE UNCHANGED vars
  BY <1>1, <1>9 DEF vars
<1>10. \A d \in Callers : d = c
  BY DEF Alone
<1>11. QED
  BY <1>2, <1>3, <1>4, <1>5, <1>6, <1>7, <1>8, <1>9, <1>10 DEF Next

(* With one caller and a prompt server no answer that arrived is lost, not even to a
   link that breaks and an open() that ends before the query has run. *)
THEOREM NoArrivedAnswerIsLost == Alone /\ Prompt => (Spec => ArrivedAnswersAreReturned)
<1>1. Init => OwnInv /\ WakeInv
  BY InitIsOwn, InitWake
<1>2. ASSUME Alone /\ Prompt
      PROVE  TypeInv /\ OrderInv /\ OwnInv /\ WakeInv /\ [Next]_vars => OwnInv' /\ WakeInv'
  BY <1>2, StepIsOwn, StepWake
<1>3. ASSUME Alone /\ Prompt
      PROVE  OwnInv /\ WakeInv /\ [Next]_vars =>
        [\A c \in Callers : waiting[c] # NoMsg /\ HasArrived(waiting[c]) =>
           \/ waiting'[c] = waiting[c] /\ HasArrived(waiting[c])'
           \/ result'[c].response = waiting[c]]_vars
  BY <1>3, StepKeepsArrived DEF Kept
<1>4. ASSUME Alone /\ Prompt PROVE Spec => ArrivedAnswersAreReturned
  BY <1>1, <1>2, <1>3, <1>4, AlwaysInOrder, PTL DEF Spec, ArrivedAnswersAreReturned
<1>5. QED
  BY <1>4
=============================================================================
