---------------------------- MODULE RpcContract ----------------------------
(***************************************************************************)
(* What a caller of an MCP client may rely on, whatever the transport loses *)
(* or delays: a call has one outcome, it is answered only when the server   *)
(* has carried it out and with what that call gave, and the server carries  *)
(* it out once at most, be it after the caller was told of a failure.       *)
(***************************************************************************)
EXTENDS Naturals

CONSTANT Ids          \* the calls of a client

VARIABLES status,     \* call -> what its caller knows
          carried,    \* call -> how often the server has carried it out
          result      \* call -> the calls whose results its caller was given

vars == <<status, carried, result>>

Init == /\ status = [k \in Ids |-> "new"] /\ carried = [k \in Ids |-> 0]
        /\ result = [k \in Ids |-> {}]

Become(k, from, to) == status[k] = from /\ status' = [status EXCEPT ![k] = to]

Ask(k) == Become(k, "new", "asked") /\ UNCHANGED <<carried, result>>
CarryOut(k) == /\ status[k] # "new" /\ carried[k] = 0
               /\ carried' = [carried EXCEPT ![k] = 1] /\ UNCHANGED <<status, result>>
Answer(k) == /\ carried[k] = 1 /\ Become(k, "asked", "answered")
             /\ result' = [result EXCEPT ![k] = {k}] /\ UNCHANGED carried
Fail(k) == Become(k, "asked", "failed") /\ UNCHANGED <<carried, result>>

Next == \E k \in Ids : Ask(k) \/ CarryOut(k) \/ Answer(k) \/ Fail(k)

Spec == Init /\ [][Next]_vars
=============================================================================
