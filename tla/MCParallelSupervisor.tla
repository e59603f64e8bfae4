------------------------ MODULE MCParallelSupervisor ------------------------
(* TLC instance of ParallelSupervisor: independent steps, a chain, a cycle, *)
(* a dangling reference; the replacement depends on nothing or on step 1.   *)
EXTENDS ParallelSupervisor, TLC
CONSTANTS sup, user
MCCallers == {sup, user}
MCPlans == {2}
MCGraphs == { <<{}, {}, {}>>, <<{}, {1}, {}>>, <<{}, {}, {1}>>, <<{2}, {1}, {}>>,
              <<{}, {3}, {}>> }
MCIndependent == { <<{}, {}>> }
=============================================================================
