------------------------- MODULE ParallelSupervisor -------------------------
(***************************************************************************)
(* Supervisor.runParallel: the plan is a graph; every step whose           *)
(* dependencies are completed is dispatched, results are taken in any      *)
(* order, and a failure is answered only when everything in flight has     *)
(* drained.  Steps, rows, worker, runtime and users are SupervisorRun's.   *)
(***************************************************************************)
EXTENDS SupervisorRun

CONSTANT Graphs    \* the possible DependsOn of all steps, replacements included

ASSUME GraphsAssumption == Graphs \subseteq [Step -> SUBSET Step]

\* Run completes an empty plan itself and never calls runParallel with it.
ASSUME ParPlansAssumption == 0 \notin Plans

VARIABLES
  deps,       \* DependsOn of each step
  todo,       \* ready steps this round has still to dispatch
  inFlight,   \* dispatched steps whose result is awaited
  failure     \* firstFailure, 0 if there is none

parVars == <<deps, todo, inFlight, failure>>
vars == <<mgrVars, runVars, parVars>>

ParTypeOK ==
  /\ RunTypeOK
  /\ deps \in Graphs
  /\ todo \subseteq Step
  /\ inFlight \subseteq Step
  /\ failure \in Step \cup {0}

ParInit ==
  /\ PlannedInit
  /\ deps \in Graphs
  /\ todo = {} /\ inFlight = {} /\ failure = 0

-----------------------------------------------------------------------------
Open == { s \in Step : mem[s] \notin Terminal \cup {"absent"} }

\* Mutant: dependencies need only be over, not completed.
ReadyWhenDepsOver ==
  { s \in Open \ inFlight : \A d \in deps[s] : mem[d] \in Terminal }

\* readyForDispatch: a dangling dependency is never satisfied.
Ready == { s \in Open \ inFlight : \A d \in deps[s] : mem[d] = "completed" }

\* The top of the loop: checkExternalState, then the ready steps are
\* collected, unless a failure is being drained.
Sweep ==
  /\ pc = "pick"
  /\ IF row.state \in Stopped
     THEN pc' = "drain" /\ todo' = {}
     ELSE /\ todo' = IF failure = 0 THEN Ready ELSE {}
          /\ pc' = IF todo' = {} THEN "decide" ELSE "mark"
  /\ UNCHANGED <<mgrVars, mem, cur, replans, tries, exec, results, disturb,
                 deps, inFlight, failure>>

Mark ==
  /\ pc = "mark"
  /\ cur' = First(todo)
  /\ SetStep(First(todo), "running")
  /\ pc' = "dispatch"
  /\ UNCHANGED <<call, replans, tries, exec, results, disturb, parVars>>

\* One ready step is dispatched; the next one, or the end of the round.
DispatchReady(acked) ==
  /\ Dispatch(acked, IF todo = {cur} THEN "decide" ELSE "mark")
  /\ IF acked THEN /\ inFlight' = inFlight \cup {cur}
                   /\ todo' = todo \ {cur}
                   /\ cur' = 0
              ELSE UNCHANGED <<inFlight, todo, cur>>
  /\ UNCHANGED <<deps, failure>>

\* PublishCompeting gives up on a worker that is busy or does not ack in time:
\* Run returns the error, and neither the step nor the mission is failed.
DispatchError ==
  /\ pc = "dispatch"
  /\ Cardinality(exec) >= Capacity \/ tries > 0
  /\ pc' = "drain"
  /\ tries' = 0
  /\ UNCHANGED <<mgrVars, mem, cur, replans, exec, results, disturb, parVars>>

\* A result of a step that is not in flight is acked and dropped.
Discard(r) ==
  /\ pc = "decide"
  /\ inFlight # {}
  /\ r.step \notin inFlight
  /\ results' = results \ {r}
  /\ pc' = "pick"
  /\ UNCHANGED <<mgrVars, mem, cur, replans, tries, exec, disturb, parVars>>

\* A result in flight: success, or anything else, which counts as a failure;
\* again: another copy of it is still on its way.
Record(r, again) ==
  /\ pc = "decide"
  /\ r.step \in inFlight
  /\ SetStep(r.step, IF r.out = "ok" THEN "completed" ELSE "failed")
  /\ failure' = IF r.out # "ok" /\ failure = 0 THEN r.step ELSE failure
  /\ inFlight' = inFlight \ {r.step}
  /\ results' = IF again THEN results ELSE results \ {r}
  /\ pc' = "pick"
  /\ UNCHANGED <<call, cur, replans, tries, exec, disturb, deps, todo>>

Receive(r) == Discard(r) \/ \E again \in BOOLEAN : Record(r, again)

\* handleParallelWaitErr, no step is over its deadline yet: round the loop again.
SpuriousWake ==
  /\ pc = "decide"
  /\ inFlight # {}
  /\ pc' = "pick"
  /\ UNCHANGED <<mgrVars, mem, cur, replans, tries, exec, results, disturb, parVars>>

\* Mutant: a step over its deadline is waited for again.
StepTimeoutWaitsOn ==
  /\ pc = "decide"
  /\ inFlight # {}
  /\ pc' = "pick"
  /\ UNCHANGED <<mgrVars, mem, cur, replans, tries, exec, results, disturb, parVars>>

\* handleParallelWaitErr, a step in flight is over its deadline.
StepTimeout ==
  /\ pc = "decide"
  /\ inFlight # {}
  /\ Calls("Fail", "fail")
  /\ UNCHANGED <<mem, cur, replans, tries, exec, results, disturb, parVars>>

\* Mutant: the failure is answered at once, with peers still in flight.
DrainedUndrained ==
  /\ pc = "decide"
  /\ failure # 0
  /\ pc' = "failed"
  /\ cur' = failure
  /\ UNCHANGED <<mgrVars, mem, replans, tries, exec, results, disturb, parVars>>

\* Nothing is in flight any more after a failure: replan or fail.
FailureDrained ==
  /\ pc = "decide"
  /\ inFlight = {}
  /\ failure # 0
  /\ pc' = "failed"
  /\ cur' = failure
  /\ UNCHANGED <<mgrVars, mem, replans, tries, exec, results, disturb, parVars>>

\* Mutant: nothing in flight and nothing ready is taken for done.
ConcludeUnsettled ==
  /\ pc = "decide"
  /\ inFlight = {} /\ failure = 0
  /\ Calls("Complete", "complete")
  /\ UNCHANGED <<mem, cur, replans, tries, exec, results, disturb, parVars>>

\* Nothing is in flight or ready: everything is settled, or what is left
\* depends on something that will never be completed.
Conclude ==
  /\ pc = "decide"
  /\ inFlight = {} /\ failure = 0
  /\ \/ Open = {} /\ Calls("Complete", "complete")
     \/ Open # {} /\ Calls("Fail", "fail")
  /\ UNCHANGED <<mem, cur, replans, tries, exec, results, disturb, parVars>>

\* buildParallelState after a replan; the run's maps die with the run.
ParReplanned == Replanned /\ failure' = 0 /\ UNCHANGED <<deps, todo, inFlight>>
Forget == todo' = {} /\ inFlight' = {} /\ failure' = 0 /\ UNCHANGED deps

SupNext ==
  \/ CommonNext /\ UNCHANGED parVars
  \/ ParReplanned
  \/ Drained /\ Forget
  \/ Sweep \/ Mark \/ DispatchError
  \/ \E acked \in BOOLEAN : DispatchReady(acked)
  \/ \E r \in results : Receive(r)
  \/ StepTimeout \/ FailureDrained \/ Conclude

ParNext ==
  \/ SupNext
  \/ SpuriousWake
  \/ AroundNext /\ UNCHANGED parVars
  \/ Interrupt /\ Forget

\* As in the sequential mode; and however often the wait ends early, the
\* deadline of a step in flight passes in the end.
Fairness ==
  /\ WF_vars(SupNext)
  /\ SF_vars(StepTimeout)
  /\ WF_vars(pc = "drain" /\ WorkerNext /\ UNCHANGED parVars)

ParSpec == ParInit /\ [][ParNext]_vars /\ Fairness

-----------------------------------------------------------------------------
\* A step runs only on completed dependencies: across peers, replans, restarts
\* and repeated results, a step that has been touched has every step it
\* depends on recorded as completed.
DepsCompleted ==
  \A s \in Present : steps[s] \in {"running", "completed", "failed"} =>
    \A d \in deps[s] : steps[d] = "completed"

\* supervisor.go:462-464: a replan sees a settled snapshot, no step is
\* mid-execution while it is asked for and written.
ReplanIsSettled == pc \in {"failed", "replan"} => \A s \in Step : steps[s] # "running"

\* docs/agents/MISSIONS.md:365-368: a worker's request for confirmation
\* pauses the mission instead of failing it.
ConfirmationNeverFails ==
  [][\A s \in Step : (steps[s] = "running" /\ steps'[s] = "failed") =>
       [step |-> s, out |-> "error"] \in results]_vars
=============================================================================
