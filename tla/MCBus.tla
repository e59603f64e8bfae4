------------------------------- MODULE MCBus -------------------------------
(* TLC instance of Bus. *)
EXTENDS Bus, TLC
CONSTANTS m1, m2, a, b
MCCalls == {m1, m2}
MCPeers == {a, b}
=============================================================================
