----------------------- MODULE MCSequentialSupervisor -----------------------
(* TLC instance of SequentialSupervisor: one user beside the supervisor. *)
EXTENDS SequentialSupervisor, TLC
CONSTANTS sup, user
MCCallers == {sup, user}
MCPlans == {0, 1, 2}
=============================================================================
