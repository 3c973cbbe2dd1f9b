------------------------------ MODULE ToolGate ------------------------------
(***************************************************************************)
(* What the approval path promises, with the gateway, the chat and the     *)
(* timers left out: a tool call asks for permission once, and it runs only *)
(* if permission for that very call was granted before.  Permission comes  *)
(* from the session's mode or from the user, is given at most once, and    *)
(* may come too late: a call that was denied stays denied.                 *)
(*                                                                         *)
(* Approval.tla is shown to implement this specification.                  *)
(***************************************************************************)
CONSTANT Requests       \* tool calls of the Claude processes

VARIABLES
    gate,               \* where each call stands
    grant               \* the permission given for each call, if any

vars == <<gate, grant>>

GateState == {"idle", "asking", "allowed", "denied"}
Grant == {"none", "yes", "no"}

TypeOK ==
    /\ gate \in [Requests -> GateState]
    /\ grant \in [Requests -> Grant]

Init ==
    /\ gate = [r \in Requests |-> "idle"]
    /\ grant = [r \in Requests |-> "none"]

\* The call needs a human answer.
Ask(r) ==
    /\ gate[r] = "idle"
    /\ gate' = [gate EXCEPT ![r] = "asking"]
    /\ UNCHANGED grant

\* The session's mode answers for the human: the permission and the decision
\* are one step.
AllowByMode(r) ==
    /\ gate[r] = "idle"
    /\ gate' = [gate EXCEPT ![r] = "allowed"]
    /\ grant' = [grant EXCEPT ![r] = "yes"]

\* The human answers a call that asked, possibly after it was denied.
Answer(r) ==
    /\ gate[r] # "idle"
    /\ grant[r] = "none"
    /\ \E g \in {"yes", "no"} : grant' = [grant EXCEPT ![r] = g]
    /\ UNCHANGED gate

Allow(r) ==
    /\ gate[r] = "asking"
    /\ grant[r] = "yes"
    /\ gate' = [gate EXCEPT ![r] = "allowed"]
    /\ UNCHANGED grant

\* A call may be refused at any time: every failure is a refusal.
Deny(r) ==
    /\ gate[r] \in {"idle", "asking"}
    /\ gate' = [gate EXCEPT ![r] = "denied"]
    /\ UNCHANGED grant

Next ==
    \E r \in Requests :
        Ask(r) \/ AllowByMode(r) \/ Answer(r) \/ Allow(r) \/ Deny(r)

Spec == Init /\ [][Next]_vars
=============================================================================
