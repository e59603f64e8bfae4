-------------------------- MODULE MissionLifecycle --------------------------
(***************************************************************************)
(* What the mission engine promises (mission.go:1-21, docs/agents/         *)
(* MISSIONS.md "Lifecycle"): a mission appears as created and then only    *)
(* ever moves along the transition matrix, so a terminal state is a sink.  *)
(* MissionManager is the detailed specification that should implement it.  *)
(***************************************************************************)
EXTENDS Mission

NoMission == "none"     \* the mission's row does not exist yet

VARIABLE state

Init == state = NoMission

Create == state = NoMission /\ state' = "created"

Move(to) == state \in State /\ CanTransition(state, to) /\ state' = to

Next == Create \/ \E to \in State : Move(to)

Spec == Init /\ [][Next]_state

TypeOK == state \in State \cup {NoMission}
=============================================================================
