------------------------------- MODULE Calls -------------------------------
(***************************************************************************)
(* What the plugin may rely on when it calls a method of the bridge        *)
(* (send_request of bridge_client.gd): each call returns at most once; a   *)
(* call that returns an answer was executed, once; a call the client could *)
(* not send was not executed and never will be.  A call that fails any     *)
(* other way may have been executed, and may still be.                     *)
(***************************************************************************)
EXTENDS Naturals

CONSTANT Requests

VARIABLES
    outcome,    \* what the caller of each request knows
    executions  \* how often the bridge ran its handler

callVars == <<outcome, executions>>

Init ==
    /\ outcome = [r \in Requests |-> "none"]
    /\ executions = [r \in Requests |-> 0]

CallsTypeOK ==
    /\ outcome \in [Requests -> {"none", "open", "answered", "failed", "refused"}]
    /\ executions \in [Requests -> {0, 1}]

Submit(r) ==
    /\ outcome[r] = "none"
    /\ outcome' = [outcome EXCEPT ![r] = "open"]
    /\ UNCHANGED executions

Refuse(r) ==
    /\ outcome[r] = "none"
    /\ outcome' = [outcome EXCEPT ![r] = "refused"]
    /\ UNCHANGED executions

Execute(r) ==
    /\ outcome[r] \in {"open", "failed"}
    /\ executions[r] = 0
    /\ executions' = [executions EXCEPT ![r] = 1]
    /\ UNCHANGED outcome

Return(r) ==
    /\ outcome[r] = "open"
    /\ \/ executions[r] = 1 /\ outcome' = [outcome EXCEPT ![r] = "answered"]
       \/ outcome' = [outcome EXCEPT ![r] = "failed"]
    /\ UNCHANGED executions

Next == \E r \in Requests : Submit(r) \/ Refuse(r) \/ Execute(r) \/ Return(r)

Spec == Init /\ [][Next]_callVars

============================================================================
