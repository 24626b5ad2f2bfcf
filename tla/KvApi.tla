------------------------------- MODULE KvApi -------------------------------
(***************************************************************************)
(* The Python key-value API (kv.py) over the handler it calls: what a call *)
(* makes of the response, of one that is lost, or of a request that is.    *)
(* Connection models how they are lost; here query() returns the response  *)
(* or None.                                                                *)
(***************************************************************************)
EXTENDS KvHandler

CONSTANTS
  None,    \* Python's None
  NoCall   \* no call has ended in the last step

VARIABLE call  \* the call that ended: its request, how it ended, and its value

apiVars == <<maps, up, rsp, call>>

ClearOps == {"KVClearAll", "KVClearGroups", "KVClearGroupsKeysOnly", "KVClearGroup",
             "KVClearGroupKeysOnly"}
WriteOps == {"KVSet", "KVAdd", "KVClearSet"}

(* get, remove and contains log every exception and return. *)
Swallowing == {"KVGet", "KVRmv", "KVContains"}

Returned(op, value) == [op |-> op, end |-> "returned", value |-> value]
Failed(op) ==
  IF op \in Swallowing THEN Returned(op, None)
  ELSE [op |-> op, end |-> "raised", value |-> None]

(* A call for one key returns its value, or None; a call for several a dict. *)
GetValues(keys, answer) ==
  {[dict |-> answer]} \cup {[one |-> IF k \in DOMAIN answer THEN answer[k] ELSE None] :
                              k \in {j \in Keys : keys = {j}}}

ReturnValues(response) ==
  CASE response.op = "KVGet"      -> GetValues(response.keys, response.answer)
    [] response.op = "KVCount"    -> {response.count}
    [] response.op = "KVContains" -> {response.keys}
    [] OTHER                      -> {None}

(* Slip: the response's status is not looked at. *)
Checked_AnyStatus(response) ==
  {Returned(response.op, value) : value \in ReturnValues(response)}

(* raise_if_fail, and the call's own handling of what it raises. *)
Checked(response) ==
  IF response.status = "Ok"
    THEN {Returned(response.op, value) : value \in ReturnValues(response)}
  ELSE {Failed(response.op)}

(* The ends of a call that the server handled, or died over: NotPermitted answers a
   request that this API never makes. *)
CallEnds(response) ==
  CASE response.op = "None"             -> {NoCall} \cup {Failed(op) : op \in {"KVGet", "KVCount", "KVContains"}}
    [] response.status = "NotPermitted" -> {NoCall}
    [] OTHER                            -> Checked(response) \cup {Failed(response.op)}

Handled == Next /\ call' \in CallEnds(rsp')

(* The request does not reach the server, or the connection is closed. *)
RequestLost ==
  /\ call' \in {Failed(op) : op \in WriteOps \cup ClearOps \cup Swallowing \cup {"KVCount"}}
  /\ UNCHANGED vars

ApiInit == Init /\ call = NoCall
ApiNext == Handled \/ RequestLost
ApiSpec == ApiInit /\ [][ApiNext]_apiVars

-----------------------------------------------------------------------------
(* Properties *)

(* A set, add, clear_set or clear that returns was done: its values read back, its keys
   are there, and what it was to clear is gone; whatever was lost or failed raises
   (kv.py:276-281). *)
WritesAreDoneOrRaise ==
  [][call' # NoCall /\ call'.end = "returned" =>
       LET new == maps'[rsp'.group]
       IN  /\ call'.op \in WriteOps => new # NoGroup
           /\ call'.op \in WriteOps =>
                \A k \in DOMAIN rsp'.items :
                  /\ new[k] # NoEntry
                  /\ call'.op # "KVAdd" =>
                       ~Undefined(new[k]) /\ Read(new[k]) = Readable(rsp'.items[k])
           /\ call'.op = "KVClearSet" => KeysOf(new) = DOMAIN rsp'.items
           /\ call'.op = "KVClearGroup" => new = NoGroup
           /\ call'.op = "KVClearGroupKeysOnly" => new \in {NoGroup, EmptyMap}
           /\ call'.op = "KVClearGroups" => \A g \in Groups : maps'[g] = NoGroup
           /\ call'.op = "KVClearGroupsKeysOnly" =>
                \A g \in Groups : maps'[g] \in {NoGroup, EmptyMap}
           /\ call'.op = "KVClearAll" =>
                maps' = [g \in MapNames |-> IF g = Main THEN EmptyMap ELSE NoGroup]]_apiVars

(* If a response returns a fail, a ResponseError is raised (kv.py:24). *)
FailuresAreRaised ==
  [][rsp' # rsp /\ rsp'.status = "Fail" => call'.end = "raised"]_apiVars
=============================================================================
