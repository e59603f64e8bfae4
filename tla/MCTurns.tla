------------------------------ MODULE MCTurns ------------------------------
(* TLC instance of what the tool calls of a turn start: sub-agents            *)
(* (Delegation) and calls of an MCP server (McpClient). The two share nothing *)
(* and one of them runs in each behaviour.                                    *)
EXTENDS Delegation, McpClient, TLC

CONSTANT main
VARIABLE part  \* which of the two runs
turns == <<part, dgvars, mcvars>>

Init ==
  /\ part \in {"delegation", "mcp"} /\ DgInit /\ McInit
  /\ part = "mcp" => perUser = 1
Delegations(A) == part = "delegation" /\ A /\ UNCHANGED <<part, mcvars>>
McpCalls(A) == part = "mcp" /\ A /\ UNCHANGED <<part, dgvars>>
Fairness ==
  /\ WF_dgvars(part = "delegation" /\ \E n \in Agents : Advance(n))
  /\ WF_dgvars(part = "delegation" /\ Timers)
  /\ WF_mcvars(part = "mcp" /\ \E c \in Callers : Step(c))
  /\ WF_mcvars(part = "mcp" /\ Deadlines)
Spec == Init /\ [][Delegations(DgNext) \/ McpCalls(McNext)]_turns /\ Fairness

(* The type invariants of Delegation and McpClient.                           *)
TurnsTypeOK == DgTypeOK /\ McTypeOK

(* Every call of a sub-agent comes back: nested delegations that wait for the *)
(* slots of their own callers end with a timeout (agent/tools.go:115-128). So *)
(* does every call of an MCP tool, though the server may hang or die at any   *)
(* moment and the client's lock is held through handshakes (mcp.go:192-200,   *)
(* 498-540), with one exception: a call stays behind a write to a process     *)
(* that runs on and reads no more, its own or one that holds writeMu, since   *)
(* Send writes without its context (transport.go:259-261). No other call      *)
(* waits for such a write, not even on a later process of the same server.    *)
UnderWay(n) == IF part = "delegation" THEN Active(n) ELSE In(n, "lookup")
Back(n) == IF part = "delegation" THEN At(n, "done") ELSE In(n, "done")
BehindPipe(n) ==
  /\ call[n].pc \in {"write", "pipe"} /\ Busy(Gen(n))
  /\ proc[Gen(n)] = "up" /\ Gen(n) \notin closed
EveryCallReturns == \A n \in Agents : (UnderWay(n) ~> Back(n)) \/ <>[]BehindPipe(n)
=============================================================================
