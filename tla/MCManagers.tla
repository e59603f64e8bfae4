----------------------------- MODULE MCManagers -----------------------------
(* TLC instance of two managers over the database that many callers share:    *)
(* the mission manager (MissionManager) and the conversations (Conversation). *)
(* They share nothing and one of them runs in each behaviour; of missions     *)
(* there are also behaviours in which one caller alone acts.                  *)
EXTENDS MissionManager, Conversation, TLC

CONSTANTS c1, c2, m1, m2, t1, t2
VARIABLE part   \* which one runs
managers == <<part, mgrVars, cvvars>>

Symmetry == {f @@ g : f \in Permutations({m1, m2}), g \in Permutations({t1, t2})}

MCInit == part \in {"missions", "solo", "conversations"} /\ Init /\ CvInit
Missions(A) == part \in {"missions", "solo"} /\ A /\ UNCHANGED <<part, cvvars>>
Conversations(A) == part = "conversations" /\ A /\ UNCHANGED <<part, mgrVars>>
MCNext ==
  \/ Missions(\E c \in Callers : (part = "solo" => c = c1) /\ CallerNext(c))
  \/ Conversations(CvNext)
MCSpec == MCInit /\ [][MCNext]_managers

(* With one caller the manager implements the promised life cycle             *)
(* (mission.go:1-21, manager.go:357-374).                                     *)
SoloLifecycle == [][part = "solo" => Lifecycle!Next]_(row.state)
=============================================================================
