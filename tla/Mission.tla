------------------------------- MODULE Mission -------------------------------
(***************************************************************************)
(* internal/mission/mission.go: the states a mission and its steps go      *)
(* through and the transition matrix every state change is checked         *)
(* against.  Constant-level; every mission module extends it.              *)
(***************************************************************************)

State == { "created", "planned", "running", "waiting_user",
           "completed", "failed", "cancelled" }

\* State.IsTerminal
Terminal == { "completed", "failed", "cancelled" }

Edges ==
  UNION { {"created"}      \X {"planned", "cancelled", "failed"},
          {"planned"}      \X {"running", "cancelled", "failed"},
          {"running"}      \X {"waiting_user", "completed", "failed", "cancelled"},
          {"waiting_user"} \X {"running", "completed", "failed", "cancelled"} }

\* A state may always be re-entered; a terminal state has no outgoing edge.
CanTransition(from, to) == from = to \/ <<from, to>> \in Edges
=============================================================================
