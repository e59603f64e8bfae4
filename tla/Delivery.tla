------------------------------ MODULE Delivery ------------------------------
(***************************************************************************)
(* What a publisher may rely on when it publishes on the agent bus         *)
(* (internal/agent/bus/bus.go, "at-least-once"): while the call goes on it *)
(* hands copies of the message to peers, at most MaxAttempts to each; it   *)
(* succeeds only if at least one peer has got one; after it has returned,  *)
(* nothing more is handed over.  SupervisorRun assumes this much of the    *)
(* bus and no more.                                                        *)
(***************************************************************************)
EXTENDS Naturals

CONSTANTS Calls, Peers, MaxAttempts

VARIABLES
  copies,    \* while a call goes on: how many copies each peer was handed
  outcome    \* of each call

vars == <<copies, outcome>>

Outcome == {"none", "pending", "ok", "error"}

Init ==
  /\ copies = [m \in Calls |-> [p \in Peers |-> 0]]
  /\ outcome = [m \in Calls |-> "none"]

Start(m) ==
  /\ outcome[m] = "none"
  /\ outcome' = [outcome EXCEPT ![m] = "pending"]
  /\ UNCHANGED copies

HandOver(m, p) ==
  /\ outcome[m] = "pending"
  /\ copies[m][p] < MaxAttempts
  /\ copies' = [copies EXCEPT ![m][p] = @ + 1]
  /\ UNCHANGED outcome

Return(m, how) ==
  /\ outcome[m] = "pending"
  /\ how = "ok" => \E p \in Peers : copies[m][p] > 0
  /\ outcome' = [outcome EXCEPT ![m] = how]
  /\ copies' = [copies EXCEPT ![m] = [p \in Peers |-> 0]]

Next ==
  \E m \in Calls :
    \/ Start(m)
    \/ \E p \in Peers : HandOver(m, p)
    \/ \E how \in {"ok", "error"} : Return(m, how)

Spec == Init /\ [][Next]_vars
=============================================================================
