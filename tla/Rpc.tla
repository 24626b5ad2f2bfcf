-------------------------------- MODULE Rpc --------------------------------
(***************************************************************************)
(* What a caller may expect of the client library's sendCmd: a call ends   *)
(* with the server's answer to that very call, or with an error.  Which    *)
(* call an answer belongs to is the whole point; what it says is not.      *)
(***************************************************************************)
CONSTANTS Callers, Calls, NoCall

VARIABLES
  pending,   \* the call a caller waits for, or NoCall
  outcome    \* how its last call ended

vars == <<pending, outcome>>

NoOutcome == [call |-> NoCall, answered |-> FALSE]

Init ==
  /\ pending = [c \in Callers |-> NoCall]
  /\ outcome = [c \in Callers |-> NoOutcome]

Call(c, call) ==
  /\ pending[c] = NoCall
  /\ \A d \in Callers : pending[d] # call
  /\ pending' = [pending EXCEPT ![c] = call]
  /\ UNCHANGED outcome

(* The answer names the call it answers. *)
Answer(c) ==
  /\ pending[c] # NoCall
  /\ outcome' = [outcome EXCEPT ![c] = [call |-> pending[c], answered |-> TRUE]]
  /\ pending' = [pending EXCEPT ![c] = NoCall]

(* An error, also one the call meets at once, without ever being pending. *)
Error(c) ==
  /\ outcome' = [outcome EXCEPT ![c] = NoOutcome]
  /\ pending' = [pending EXCEPT ![c] = NoCall]

Next == \E c \in Callers : Answer(c) \/ Error(c) \/ \E call \in Calls : Call(c, call)

(* Every call ends. *)
Spec ==
  /\ Init /\ [][Next]_vars
  /\ \A c \in Callers : WF_vars(pending[c] # NoCall /\ (Answer(c) \/ Error(c)))
=============================================================================
