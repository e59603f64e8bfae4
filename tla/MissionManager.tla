--------------------------- MODULE MissionManager ---------------------------
(***************************************************************************)
(* internal/mission/manager.go over internal/mission/store.go, for one     *)
(* mission.  Every method of Manager is a sequence of SQL statements, each *)
(* atomic (one SQLite connection) and none of them inside a transaction:   *)
(* GetMission copies the row, the checks are made on the copy, and         *)
(* UpdateMission writes every column of the copy back.  Callers are the    *)
(* goroutines that use the manager at the same time: the supervisor of the *)
(* mission and the chat turns that run mission.* tools.  An action is one  *)
(* statement of one caller.  The rows of mission_events are not kept:      *)
(* nothing reads them back, only the statement that appends them remains.  *)
(***************************************************************************)
EXTENDS Mission, Integers

CONSTANTS Callers,    \* goroutines using the manager
          MaxStep     \* bound: number of mission_steps rows ever inserted

ASSUME MaxStepAssumption == MaxStep \in Nat

VARIABLES
  row,     \* the missions row
  steps,   \* state column of each mission_steps row, in (created_at, id) order
  ids,     \* number of step ids allocated so far
  call     \* the manager call each caller is in

mgrVars == <<row, steps, ids, call>>

Step == 1 .. MaxStep

\* target state of each method that goes through Manager.transition
Dest == [ Start  |-> "running",      Pause    |-> "waiting_user",
          Resume |-> "running",      Complete |-> "completed",
          Fail   |-> "failed",       Cancel   |-> "cancelled" ]

Transitions == {"Start", "Pause", "Resume", "Complete", "Fail", "Cancel"}
Ops == Transitions \cup {"Create", "SetPlan", "Replan"}

\* plan: the step ids in PlanJSON; started, completed: the two timestamps are set
Row == [ state: State \cup {"none"}, plan: SUBSET Step,
         started: BOOLEAN, completed: BOOLEAN ]

NoRow == [ state |-> "none", plan |-> {}, started |-> FALSE, completed |-> FALSE ]

Phase == {"idle", "list", "rows", "write", "log"}

\* read: the row as GetMission returned it; from: the step a replan starts at;
\* batch: the steps GetSteps returned, less those already superseded; fresh: the
\* ids this call allocated; ok: how the call returned.
Call == [ op: Ops, phase: Phase, read: Row, from: Step \cup {0},
          batch: SUBSET Step, fresh: SUBSET Step, ok: BOOLEAN ]

Returned(ok) ==
  [ op |-> "Create", phase |-> "idle", read |-> NoRow, from |-> 0,
    batch |-> {}, fresh |-> {}, ok |-> ok ]

Entered(op, phase, from, fresh) ==
  [ op |-> op, phase |-> phase, read |-> row, from |-> from,
    batch |-> {}, fresh |-> fresh, ok |-> FALSE ]

\* Mutant: one id more than there are steps.
NextIdsOneMore(n) == (ids + 1) .. (ids + n + 1)

Present == { s \in Step : steps[s] # "absent" }
NextIds(n) == (ids + 1) .. (ids + n)

TypeOK ==
  /\ row \in Row
  /\ steps \in [Step -> State \cup {"absent"}]
  /\ ids \in 0 .. MaxStep
  /\ call \in [Callers -> Call]

Init ==
  /\ row = NoRow
  /\ steps = [s \in Step |-> "absent"]
  /\ ids = 0
  /\ call = [c \in Callers |-> Returned(FALSE)]

-----------------------------------------------------------------------------
\* Manager.Create: INSERT the row, then append mission.created.
Create(c) ==
  /\ call[c].phase = "idle"
  /\ row.state = "none"
  /\ row' = [NoRow EXCEPT !.state = "created"]
  /\ call' = [call EXCEPT ![c] = Entered("Create", "log", 0, {})]
  /\ UNCHANGED <<steps, ids>>

\* Mutant: the matrix is not consulted.
RefusesTerminalOnly(op) == row.state = "none" \/ row.state \in Terminal

\* Manager.transition up to its early returns: GetMission (ErrNotFound when
\* there is no row), the terminal check, the matrix check.
Refuses(op) ==
  \/ row.state = "none"
  \/ row.state \in Terminal
  \/ ~CanTransition(row.state, Dest[op])

Transition(c, op) ==
  /\ call[c].phase = "idle"
  /\ call' = [call EXCEPT ![c] = IF Refuses(op) THEN Returned(FALSE)
                                                ELSE Entered(op, "write", 0, {})]
  /\ UNCHANGED <<row, steps, ids>>

\* Manager.setPlan up to its early return; the n step ids are allocated on the copy.
SetPlan(c, n) ==
  /\ call[c].phase = "idle"
  /\ ids + n <= MaxStep
  /\ IF row.state # "none" /\ CanTransition(row.state, "planned")
     THEN /\ call' = [call EXCEPT ![c] = Entered("SetPlan", "write", 0, NextIds(n))]
          /\ ids' = ids + n
     ELSE /\ call' = [call EXCEPT ![c] = Returned(FALSE)]
          /\ UNCHANGED ids
  /\ UNCHANGED <<row, steps>>

\* Mutant: no running check.
ReplanUnchecked(c, from, n) ==
  /\ call[c].phase = "idle"
  /\ ids + n <= MaxStep
  /\ row.state # "none"
  /\ call' = [call EXCEPT ![c] = Entered("Replan", "list", from, NextIds(n))]
  /\ ids' = ids + n
  /\ UNCHANGED <<row, steps>>

\* Manager.Replan up to the running check.
Replan(c, from, n) ==
  /\ call[c].phase = "idle"
  /\ ids + n <= MaxStep
  /\ IF row.state = "running"
     THEN /\ call' = [call EXCEPT ![c] = Entered("Replan", "list", from, NextIds(n))]
          /\ ids' = ids + n
     ELSE /\ call' = [call EXCEPT ![c] = Returned(FALSE)]
          /\ UNCHANGED ids
  /\ UNCHANGED <<row, steps>>

\* Replan's first GetSteps: an unknown fromStepID is an error; every created
\* step but the failed one is to be superseded.
ListSteps(c) ==
  /\ call[c].phase = "list"
  /\ call' = [call EXCEPT ![c] =
       IF call[c].from \in Present
       THEN [@ EXCEPT !.phase = "rows",
                      !.batch = { s \in Step : steps[s] = "created" } \ {call[c].from}]
       ELSE Returned(FALSE)]
  /\ UNCHANGED <<row, steps, ids>>

\* One UpdateStep of Replan's supersede loop.
Supersede(c, s) ==
  /\ call[c].phase = "rows"
  /\ s \in call[c].batch
  /\ steps' = [steps EXCEPT ![s] = "cancelled"]
  /\ call' = [call EXCEPT ![c].batch = @ \ {s}]
  /\ UNCHANGED <<row, ids>>

\* One AddStep of setPlan or Replan, in id order.
AddStep(c, s) ==
  /\ call[c].phase = "rows"
  /\ call[c].batch = {}
  /\ s \in call[c].fresh \ Present
  /\ \A t \in call[c].fresh : t < s => t \in Present
  /\ steps' = [steps EXCEPT ![s] = "created"]
  /\ UNCHANGED <<row, ids, call>>

RowsDone(c) ==
  /\ call[c].phase = "rows"
  /\ call[c].batch = {}
  /\ call[c].fresh \subseteq Present

\* Replan's second GetSteps, from which PlanJSON is rebuilt.
Reread(c) ==
  /\ call[c].op = "Replan"
  /\ RowsDone(c)
  /\ call' = [call EXCEPT ![c].phase = "write", ![c].batch = Present]
  /\ UNCHANGED <<row, steps, ids>>

\* Mutant: completed_at is set by Complete alone.
WrittenStampsCompleteOnly(k) ==
  IF k.op \in Transitions
  THEN [k.read EXCEPT !.state = Dest[k.op],
                      !.started = @ \/ k.op = "Start",
                      !.completed = @ \/ k.op = "Complete"]
  ELSE IF k.op = "SetPlan"
  THEN [k.read EXCEPT !.state = "planned", !.plan = k.fresh]
  ELSE [k.read EXCEPT !.plan = k.batch]

\* The row a call writes: the copy it read, with the columns it sets.
Written(k) ==
  IF k.op \in Transitions
  THEN [k.read EXCEPT !.state = Dest[k.op],
                      !.started = @ \/ k.op = "Start",
                      !.completed = @ \/ Dest[k.op] \in Terminal]
  ELSE IF k.op = "SetPlan"
  THEN [k.read EXCEPT !.state = "planned", !.plan = k.fresh]
  ELSE [k.read EXCEPT !.plan = k.batch]

\* UpdateMission: every column, whatever the row holds by now.
UpdateMission(c) ==
  /\ call[c].phase = "write"
  /\ row' = Written(call[c])
  /\ call' = [call EXCEPT ![c].phase = IF call[c].op = "SetPlan" THEN "rows" ELSE "log"]
  /\ UNCHANGED <<steps, ids>>

\* AppendEvent, the last statement of every method; the call returns nil.
AppendEvent(c) ==
  /\ \/ call[c].phase = "log"
     \/ call[c].op = "SetPlan" /\ RowsDone(c)
  /\ call' = [call EXCEPT ![c] = Returned(TRUE)]
  /\ UNCHANGED <<row, steps, ids>>

\* The caller's context ends or a statement fails: the method returns the
\* error and nothing it has already written is undone.  (Create and setPlan drop
\* the error of their event; no caller of theirs looks at what they return.)
Abort(c) ==
  /\ call[c].phase # "idle"
  /\ call' = [call EXCEPT ![c] = Returned(FALSE)]
  /\ UNCHANGED <<row, steps, ids>>

\* The statements of c's call after the first.
Proceed(c) ==
  \/ ListSteps(c)
  \/ \E s \in Step : Supersede(c, s) \/ AddStep(c, s)
  \/ Reread(c)
  \/ UpdateMission(c)
  \/ AppendEvent(c)

CallerNext(c) ==
  \/ Create(c)
  \/ \E op \in Transitions : Transition(c, op)
  \/ \E n \in 0 .. MaxStep : SetPlan(c, n)
  \/ \E from \in Step, n \in 1 .. MaxStep : Replan(c, from, n)
  \/ Proceed(c)
  \/ Abort(c)

Next == \E c \in Callers : CallerNext(c)

Spec == Init /\ [][Next]_mgrVars

-----------------------------------------------------------------------------
Writing(c) == call[c].phase \in {"list", "rows", "write"}

\* The calls that have read the row and will still write it.
WillWrite(c) == Writing(c) /\ ~(call[c].op = "SetPlan" /\ call[c].phase = "rows")

\* completed_at is set exactly on terminal missions, although concurrent
\* callers overwrite each other's rows: state and timestamp never come apart.
CompletedAtIffTerminal == row.completed <=> row.state \in Terminal

\* The row leaves the transition matrix only by a lost update: the writer's
\* copy is then older than the row it overwrites (manager.go:357-374).
IllegalMoveIsLostUpdate ==
  [][ (row.state \in State /\ ~CanTransition(row.state, row'.state)) =>
        \E c \in Callers : /\ call[c].phase = "write"
                           /\ row' = Written(call[c])
                           /\ call[c].read # row ]_mgrVars

\* Once a mission is terminal and no call that read it earlier is still to
\* write, no call whatsoever can move it again: every new one is refused.
QuietTerminal ==
  /\ row.state \in Terminal
  /\ \A c \in Callers : ~WillWrite(c)

QuietTerminalIsFinal == [][QuietTerminal => QuietTerminal' /\ row' = row]_mgrVars

Lifecycle == INSTANCE MissionLifecycle WITH state <- row.state

\* With one caller at a time the manager implements the promised life cycle.
LifecycleSpec == Lifecycle!Spec
=============================================================================
