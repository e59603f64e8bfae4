---------------------------- MODULE SupervisorRun ----------------------------
(***************************************************************************)
(* What the two dispatch modes of internal/agent/supervisor/supervisor.go  *)
(* share: one mission, the run that drives it, the worker of               *)
(* internal/agent/worker, the runtime that respawns the run                *)
(* (internal/agent/missionruntime) and the users who interrupt the mission *)
(* through mission.interrupt meanwhile.                                    *)
(*                                                                         *)
(* The supervisor is a caller of the manager like the users are: its       *)
(* transitions and replans are MissionManager's statements, one at a time, *)
(* and pc says what it does when the call has returned.  The bus is        *)
(* reduced to what it may do: a dispatch reaches an idle worker once or,   *)
(* when the ack is late, again; a result is delivered, lost or repeated,   *)
(* in any order. Process death, shutdown and a cancelled context end a run *)
(* anywhere (Interrupt); a failed statement of a manager call is answered  *)
(* by the run itself (StatementFails). A user's call may stop at any       *)
(* statement: no fairness makes a user go on.                              *)
(***************************************************************************)
EXTENDS MissionManager, FiniteSets

CONSTANTS Sup,           \* the supervisor, one of the callers
          Plans,         \* the possible lengths of the mission's plan
          MaxReplans,    \* Supervisor.MaxReplans (0: no Replanner)
          Capacity,      \* Worker.MaxConcurrent
          MaxLate,       \* bound: deliveries of one dispatch acked too late
          MaxResults,    \* bound: results on their way at the same time
          MaxDisturb     \* bound: user calls, failed statements and
                         \* interruptions altogether

ASSUME SupAssumption == Sup \in Callers
ASSUME PlansAssumption == Plans \subseteq 0 .. MaxStep
ASSUME BoundsAssumption ==
  /\ MaxReplans \in Nat /\ MaxLate \in Nat /\ Capacity \in Nat \ {0}
  /\ MaxResults \in Nat /\ MaxDisturb \in Nat

VARIABLES
  pc,        \* where Supervisor.Run is; "off": no run, the runtime may spawn one
  mem,       \* the run's in-memory copy of the step states
  cur,       \* the step being dispatched, awaited or replaced
  replans,   \* replanCount, local to the run
  tries,     \* unacknowledged deliveries of the current dispatch
  exec,      \* the steps the worker is executing; two deliveries of a step that
             \* run at the same time count as one
  results,   \* results published and not yet consumed or lost
  disturb    \* user calls, failed statements and interruptions so far

runVars == <<pc, mem, cur, replans, tries, exec, results, disturb>>

Users == Callers \ {Sup}

PC == { "off", "load", "begin", "start", "pick", "mark", "dispatch", "await", "decide",
        "failed", "replan", "confirm", "pause", "fail", "complete", "drain" }

\* What a worker reports of a task.
Result == [ step: Step, out: {"ok", "error", "confirm"} ]

RunTypeOK ==
  /\ TypeOK
  /\ pc \in PC
  /\ mem \in [Step -> State \cup {"absent"}]
  /\ cur \in Step \cup {0}
  /\ replans \in 0 .. MaxReplans
  /\ tries \in 0 .. MaxLate
  /\ exec \subseteq Step
  /\ results \subseteq Result
  /\ disturb \in 0 .. MaxDisturb

NoSteps == [s \in Step |-> "absent"]

NoRun ==
  /\ pc = "off" /\ mem = NoSteps /\ cur = 0 /\ replans = 0 /\ tries = 0
  /\ exec = {} /\ results = {} /\ disturb = 0
  /\ call = [c \in Callers |-> Returned(FALSE)]

\* A mission whose plan of n steps has been recorded.
PlannedInit ==
  /\ NoRun
  /\ \E n \in Plans :
       /\ row = [NoRow EXCEPT !.state = "planned", !.plan = 1 .. n]
       /\ steps = [s \in Step |-> IF s <= n THEN "created" ELSE "absent"]
       /\ ids = n

-----------------------------------------------------------------------------
\* Mutant: the plan is worked through from its end.
Last(S) == CHOOSE s \in S : \A t \in S : t <= s

First(S) == CHOOSE s \in S : \A t \in S : s <= t

\* The states in which checkExternalState makes the run leave the mission alone.
Stopped == {"cancelled", "failed", "waiting_user"}

\* The manager call the supervisor has made is over; how it returned.
Back(ok) == call[Sup].phase = "idle" /\ call[Sup].ok = ok

\* Supervisor calls a transition of the manager and waits for it at label.
Calls(op, label) == Transition(Sup, op) /\ pc' = label

\* The row of step s and its in-memory copy take state st.
SetStep(s, st) ==
  /\ mem' = [mem EXCEPT ![s] = st]
  /\ steps' = [steps EXCEPT ![s] = st]
  /\ UNCHANGED <<row, ids>>

\* Runtime.scan and spawn: a planned or running mission without a run gets one.
Spawn ==
  /\ pc = "off"
  /\ row.state \in {"planned", "running"}
  /\ pc' = "load"
  /\ UNCHANGED <<mgrVars, mem, cur, replans, tries, exec, results, disturb>>

\* Run: GetMission, the state check, GetSteps, and whether to call Start.
Load ==
  /\ pc = "load"
  /\ IF row.state \notin {"planned", "running"}
     THEN pc' = "drain" /\ UNCHANGED mem
     ELSE /\ mem' = steps
          /\ pc' = IF row.state = "planned" \/ steps = NoSteps THEN "begin" ELSE "pick"
  /\ UNCHANGED <<mgrVars, cur, replans, tries, exec, results, disturb>>

CallStart ==
  /\ pc = "begin"
  /\ Calls("Start", "start")
  /\ UNCHANGED <<mem, cur, replans, tries, exec, results, disturb>>

\* An empty plan goes on to Complete at once: nothing is left to do.
Started ==
  /\ pc = "start"
  /\ \/ Back(TRUE) /\ pc' = "pick"
     \/ Back(FALSE) /\ pc' = "drain"
  /\ UNCHANGED <<mgrVars, mem, cur, replans, tries, exec, results, disturb>>

\* PublishCompeting hands the task to a worker with a free slot; the ack comes
\* in time and the supervisor goes on, or too late and the task is published
\* again by the next attempt.
Dispatch(acked, label) ==
  /\ pc = "dispatch"
  /\ Cardinality(exec) < Capacity
  /\ exec' = exec \cup {cur}
  /\ \/ acked /\ pc' = label /\ tries' = 0
     \/ ~acked /\ tries < MaxLate /\ UNCHANGED pc /\ tries' = tries + 1
  /\ UNCHANGED <<mgrVars, mem, replans, results, disturb>>

\* tryReplan with a replanner that proposes n steps.
TryReplan(n) ==
  /\ pc = "failed"
  /\ replans < MaxReplans
  /\ Replan(Sup, cur, n)
  /\ pc' = "replan"
  /\ UNCHANGED <<mem, cur, replans, tries, exec, results, disturb>>

\* The replan is persisted: reload the steps and go on; it was refused, or the
\* reload fails: fail the mission.
Replanned ==
  /\ pc = "replan"
  /\ call[Sup].phase = "idle"
  /\ \/ /\ Back(TRUE)
        /\ pc' = "pick"
        /\ mem' = steps
        /\ replans' = replans + 1
        /\ UNCHANGED mgrVars
     \/ /\ Calls("Fail", "fail")
        /\ UNCHANGED <<mem, replans>>
  /\ cur' = 0
  /\ UNCHANGED <<tries, exec, results, disturb>>

\* Mutant: Run returns the step's error without failing the mission.
FailMissionForgotten ==
  /\ pc = "failed"
  /\ pc' = "drain"
  /\ cur' = 0
  /\ UNCHANGED <<mgrVars, mem, replans, tries, exec, results, disturb>>

\* No replanner, no attempt left, or the replanner declines.
FailMission ==
  /\ pc = "failed"
  /\ Calls("Fail", "fail")
  /\ cur' = 0
  /\ UNCHANGED <<mem, replans, tries, exec, results, disturb>>

\* Run returns whatever the last call said.
Return ==
  /\ pc \in {"complete", "fail"}
  /\ call[Sup].phase = "idle"
  /\ pc' = "drain"
  /\ UNCHANGED <<mgrVars, mem, cur, replans, tries, exec, results, disturb>>

\* spawn's deferred function: the worker has returned, the slot is freed.
Drained ==
  /\ pc = "drain"
  /\ exec = {}
  /\ pc' = "off"
  /\ mem' = NoSteps /\ cur' = 0 /\ replans' = 0 /\ tries' = 0
  /\ UNCHANGED <<mgrVars, exec, results, disturb>>

\* One statement of the manager call the supervisor is in.
SupStatement == Proceed(Sup) /\ UNCHANGED runVars

\* The steps of a run that do not depend on the dispatch mode.
CommonNext ==
  \/ Spawn \/ Load \/ CallStart \/ Started
  \/ \E n \in 1 .. MaxStep : TryReplan(n)
  \/ FailMission \/ Return \/ SupStatement

-----------------------------------------------------------------------------
\* Worker.handle: an executor returns, its result is published (or lost, when
\* more are on their way than the bound admits).
WorkerDone(s, out) ==
  /\ s \in exec
  /\ exec' = exec \ {s}
  /\ results' = IF Cardinality(results) < MaxResults
                THEN results \cup {[step |-> s, out |-> out]} ELSE results
  /\ UNCHANGED <<mgrVars, pc, mem, cur, replans, tries, disturb>>

WorkerNext == \E s \in exec, out \in {"ok", "error", "confirm"} : WorkerDone(s, out)

\* The publisher of a result has given up on it.
LoseResult(r) ==
  /\ results' = results \ {r}
  /\ UNCHANGED <<mgrVars, pc, mem, cur, replans, tries, exec, disturb>>

\* The process dies, is shut down, or the run's context is cancelled: every
\* statement the run would still make fails, the worker stops.
Interrupt ==
  /\ pc # "off"
  /\ disturb < MaxDisturb
  /\ disturb' = disturb + 1
  /\ pc' = "off"
  /\ call' = [call EXCEPT ![Sup] = Returned(FALSE)]
  /\ mem' = NoSteps /\ cur' = 0 /\ replans' = 0 /\ tries' = 0 /\ exec' = {}
  /\ UNCHANGED <<row, steps, ids, results>>

\* One statement of the supervisor's manager call fails: the call returns the
\* error half done, and the run goes on with that.
StatementFails ==
  /\ disturb < MaxDisturb
  /\ disturb' = disturb + 1
  /\ Abort(Sup)
  /\ UNCHANGED <<pc, mem, cur, replans, tries, exec, results>>

\* mission.interrupt: pause, resume or cancel.
UserCall(c, op) ==
  /\ disturb < MaxDisturb
  /\ disturb' = disturb + 1
  /\ Transition(c, op)
  /\ UNCHANGED <<pc, mem, cur, replans, tries, exec, results>>

UserStatement(c) == Proceed(c) /\ UNCHANGED runVars

UserNext(c) ==
  \/ \E op \in {"Pause", "Resume", "Cancel"} : UserCall(c, op)
  \/ UserStatement(c)

\* What goes on around the run, whatever the dispatch mode.
AroundNext ==
  \/ WorkerNext
  \/ \E r \in results : LoseResult(r)
  \/ StatementFails
  \/ \E c \in Users : UserNext(c)

-----------------------------------------------------------------------------
\* A settled step keeps its outcome: no late or repeated result, no
\* re-dispatch, no replan and no restart rewrites it.
SettledStepsFinal ==
  [][\A s \in Step : steps[s] \in Terminal => steps'[s] = steps[s]]_<<mgrVars, runVars>>

\* A completed mission has no step left open (supervisor.go:238-249, 516-527),
\* even when users and replans overwrite each other's rows.
CompletedMeansSettled ==
  row.state = "completed" => \A s \in Present : steps[s] \in Terminal

\* Every run of the supervisor ends.
RunEnds == pc # "off" ~> pc = "off"

\* Once nobody interferes any more, the mission comes to rest: over, or
\* waiting for its user.
ComesToRest == <>[](row.state \in Terminal \cup {"waiting_user"})
=============================================================================
