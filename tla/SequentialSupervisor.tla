------------------------ MODULE SequentialSupervisor ------------------------
(***************************************************************************)
(* Supervisor.runSequential and runStep: one step at a time, in plan       *)
(* order.  The plan is recorded before the runtime sees the mission.       *)
(***************************************************************************)
EXTENDS SupervisorRun

vars == <<mgrVars, runVars>>

\* The step state runStep records for a worker's report.
Recorded == [ ok |-> "completed", error |-> "failed", confirm |-> "waiting_user" ]

\* Mutants: a parked step counts as done; a failed step is tried again.
UnresolvedSkipsParked ==
  { s \in Step : mem[s] \notin Terminal \cup {"absent", "waiting_user"} }
UnresolvedRetriesFailed == { s \in Step : mem[s] \notin {"completed", "cancelled", "absent"} }

Unresolved == { s \in Step : mem[s] \notin Terminal \cup {"absent"} }

-----------------------------------------------------------------------------
\* runSequential, nothing left to do.
Finish ==
  /\ pc = "pick"
  /\ Unresolved = {}
  /\ Calls("Complete", "complete")
  /\ UNCHANGED <<mem, cur, replans, tries, exec, results, disturb>>

\* runSequential picks the first unresolved step; checkExternalState re-reads
\* the mission and leaves it alone if it was stopped.
Check ==
  /\ pc = "pick"
  /\ Unresolved # {}
  /\ IF row.state \in Stopped
     THEN pc' = "drain" /\ UNCHANGED cur
     ELSE pc' = "mark" /\ cur' = First(Unresolved)
  /\ UNCHANGED <<mgrVars, mem, replans, tries, exec, results, disturb>>

Mark ==
  /\ pc = "mark"
  /\ SetStep(cur, "running")
  /\ pc' = "dispatch"
  /\ UNCHANGED <<call, cur, replans, tries, exec, results, disturb>>

\* runStep fails without a result: dispatch gave up on a busy or absent worker,
\* or StepTimeout ended the wait or one of the step's own statements.  The row
\* keeps the state it has.
StepError ==
  /\ pc \in {"mark", "dispatch", "await"}
  /\ pc' = "failed"
  /\ tries' = 0
  /\ UNCHANGED <<mgrVars, mem, cur, replans, exec, results, disturb>>

\* A result of another step is acked and dropped.
Discard(r) ==
  /\ pc = "await"
  /\ r.step # cur
  /\ results' = results \ {r}
  /\ UNCHANGED <<mgrVars, pc, mem, cur, replans, tries, exec, disturb>>

\* The awaited result: the step is recorded; again: another copy of it is still
\* on its way.
Record(r, again) ==
  /\ pc = "await"
  /\ r.step = cur
  /\ SetStep(cur, Recorded[r.out])
  /\ \/ r.out = "ok" /\ pc' = "pick" /\ cur' = 0
     \/ r.out = "error" /\ pc' = "failed" /\ UNCHANGED cur
     \/ r.out = "confirm" /\ pc' = "confirm" /\ UNCHANGED cur
  /\ results' = IF again THEN results ELSE results \ {r}
  /\ UNCHANGED <<call, replans, tries, exec, disturb>>

Receive(r) == Discard(r) \/ \E again \in BOOLEAN : Record(r, again)

\* The worker asked for confirmation: auto-pause, and fail if that is refused.
AutoPause ==
  /\ pc = "confirm"
  /\ Calls("Pause", "pause")
  /\ cur' = 0
  /\ UNCHANGED <<mem, replans, tries, exec, results, disturb>>

Paused ==
  /\ pc = "pause"
  /\ \/ Back(TRUE) /\ pc' = "drain" /\ UNCHANGED mgrVars
     \/ Back(FALSE) /\ Calls("Fail", "fail")
  /\ UNCHANGED <<mem, cur, replans, tries, exec, results, disturb>>

SupNext ==
  \/ CommonNext \/ Replanned \/ Drained
  \/ Finish \/ Check \/ Mark \/ StepError
  \/ \E acked \in BOOLEAN : Dispatch(acked, "await") /\ UNCHANGED cur
  \/ \E r \in results : Receive(r)
  \/ AutoPause \/ Paused

SeqNext == SupNext \/ AroundNext \/ Interrupt

\* Goroutines, the runtime's poll and its timers go on; an executor returns
\* once its context is cancelled.  Nothing else is owed.
Fairness ==
  /\ WF_vars(SupNext)
  /\ WF_vars(pc = "drain" /\ WorkerNext)

SeqSpec == PlannedInit /\ [][SeqNext]_vars /\ Fairness

-----------------------------------------------------------------------------
\* The steps are worked through in plan order, across timeouts, replans,
\* restarts, repeated and lost messages: a step that has been touched has only
\* settled steps before it.
InPlanOrder ==
  \A s, t \in Present :
    s < t /\ steps[t] \in {"running", "waiting_user", "completed", "failed"} =>
      steps[s] \in Terminal

=============================================================================
