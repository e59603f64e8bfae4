------------------------------ MODULE MCTools ------------------------------
(* TLC instance of three components that concurrent tool calls share, one of  *)
(* which runs in each behaviour: Transaction, Checkpoint and ToolDispatch.    *)
EXTENDS Transaction, Checkpoint, ToolDispatch, TLC

CONSTANTS c1, c2, file1, file2, large
VARIABLE part   \* which one runs
sides == <<part, vars, ckvars, tdvars>>

MCAmounts == {-1, 2}
\* both limits; a limit per transaction alone
MCLimits == { [ per |-> 2, daily |-> 3 ], [ per |-> 1, daily |-> 0 ] }
\* a tool that acts and is cached, one that acts and is listed, one that reads
MCAsks == {"off", "look"}
MCSwitch == {"on", "off"}
MCKind == [ a \in {"on", "off", "look"} |-> CASE a = "on" -> "open" [] a = "off" -> "listed" [] OTHER -> "read" ]
MCEffect == [ a \in {"on", "off", "look"} |-> IF a = "on" THEN "lit" ELSE "dark" ]
Symmetry == {f @@ g : f \in Permutations({c1, c2}), g \in Permutations({file1, file2})}

Init ==
  /\ part \in {"transactions", "checkpoints", "dispatch"}
  /\ TxInit /\ CkInit /\ TdInit
  /\ part # "transactions" => limits = [ per |-> 1, daily |-> 0 ]
  /\ part # "checkpoints" => disk = [ f \in Paths |-> Absent ]
  /\ part # "dispatch" => device = "dark"
Transactions(A) == part = "transactions" /\ A /\ UNCHANGED <<part, ckvars, tdvars>>
Checkpoints(A) == part = "checkpoints" /\ A /\ UNCHANGED <<part, vars, tdvars>>
Dispatches(A) == part = "dispatch" /\ A /\ UNCHANGED <<part, vars, ckvars>>
Spec == Init /\ [][Transactions(TxNext) \/ Checkpoints(CkNext) \/ Dispatches(TdNext)]_sides

(* The type invariants of the three, each where it can change.                *)
ToolsTypeOK ==
  CASE part = "transactions" -> TxTypeOK
    [] part = "checkpoints" -> CkTypeOK
    [] part = "dispatch" -> TdTypeOK
=============================================================================
