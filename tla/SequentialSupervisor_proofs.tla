--------------------- MODULE SequentialSupervisor_proofs ---------------------
(***************************************************************************)
(* What holds of the sequential dispatch for every plan, every number of   *)
(* users, replans and repeated deliveries, and every interruption.         *)
(***************************************************************************)
EXTENDS SequentialSupervisor, Missions_proofs

\* From the start of the run to the end of a step the run's copy is what is
\* recorded: nobody else writes a step.
MemCurrent == pc \in {"begin", "start", "pick", "mark", "dispatch", "await"} => mem = steps

\* The step the run is at is the first one that is not settled.
AtFirst(c) ==
  c \in Present /\ steps[c] \notin Terminal /\ \A s \in Present : s < c => steps[s] \in Terminal
CurNext == pc \in {"mark", "dispatch", "await"} => AtFirst(cur)

SeqInv == RunTypes /\ RunInv /\ InPlanOrder /\ MemCurrent /\ CurNext

CommonStep == CommonNext \/ Replanned \/ Drained \/ AroundNext \/ Interrupt

\* The steps only this mode takes.
OwnStep ==
  \/ Finish \/ Check \/ Mark \/ StepError
  \/ \E acked \in BOOLEAN : Dispatch(acked, "await") /\ UNCHANGED cur
  \/ \E r \in results : Receive(r)
  \/ AutoPause \/ Paused

\* Every step is one both modes share or one of this mode.
LEMMA SeqSteps == SeqNext => CommonStep \/ OwnStep
  BY DEF SeqNext, SupNext, CommonStep, OwnStep

\* At the start nothing has been touched and there is no run.
LEMMA SeqInitInv == PlannedInit => SeqInv
<1> SUFFICES ASSUME PlannedInit PROVE SeqInv
  OBVIOUS
<1>1. RunTypes /\ RunInv
  BY RunInitInv
<1>2. pc = "off" /\ \A s \in Present : steps[s] = "created"
  BY DEF PlannedInit, NoRun, Present
<1> QED
  BY <1>1, <1>2 DEF SeqInv, InPlanOrder, MemCurrent, CurNext

-----------------------------------------------------------------------------
\* The steps of the modes' common part.
LEMMA SeqCommonInv ==
  ASSUME SeqInv, CommonStep
  PROVE  SeqInv'
<1> USE DEF SeqInv
<1>1. RunTypes' /\ RunInv'
  BY CommonTypes, CommonRunInv DEF CommonStep
<1>2. Moves /\ Places
  BY CommonMoves, CommonPlaces DEF CommonStep
<1>3. steps \in [Step -> State \cup {"absent"}] /\ steps' \in [Step -> State \cup {"absent"}]
  BY <1>1 DEF RunTypes, RunTypeOK, TypeOK
<1>4. InPlanOrder'
  <2>1. CASE UNCHANGED steps
    BY <2>1 DEF InPlanOrder, Present
  <2>2. CASE \A s \in Step : steps'[s] = steps[s] \/ Superseded(s) \/ Appended(s)
    <3>1. SUFFICES ASSUME NEW s \in Present', NEW t \in Present', s < t,
                          steps'[t] \in {"running", "waiting_user", "completed", "failed"}
                   PROVE  steps'[s] \in Terminal
      BY DEF InPlanOrder
    <3>2. s \in Step /\ t \in Step
      BY DEF Present
    <3>3. steps'[t] = steps[t] /\ t \in Present
      BY <2>2, <3>1, <3>2 DEF Superseded, Appended, Present
    <3>4. ~Appended(s)
      BY <3>1, <3>2, <3>3, MaxStepAssumption DEF Appended, Step
    <3>5. CASE steps'[s] = steps[s]
      BY <3>1, <3>3, <3>2, <3>5 DEF InPlanOrder, Present
    <3>6. CASE Superseded(s)
      BY <3>6 DEF Superseded, Terminal
    <3> QED
      BY <2>2, <3>2, <3>4, <3>5, <3>6
  <2> QED
    BY <1>2, <2>1, <2>2 DEF Moves
<1>5. MemCurrent'
  BY <1>2 DEF MemCurrent, Moves, Places
<1>6. CurNext'
  <2>1. SUFFICES ASSUME pc' \in {"mark", "dispatch", "await"} PROVE AtFirst(cur)'
    BY DEF CurNext
  <2>2. UNCHANGED <<pc, cur, steps>>
    BY <1>2, <2>1 DEF Places, Moves
  <2> QED
    BY <2>1, <2>2 DEF CurNext, AtFirst, Present
<1> QED
  BY <1>1, <1>4, <1>5, <1>6

-----------------------------------------------------------------------------
\* Recording the first unsettled step leaves the plan order intact.
LEMMA RecordInOrder ==
  ASSUME RunTypes, InPlanOrder, AtFirst(cur), NEW st \in State, SetStep(cur, st)
  PROVE  InPlanOrder'
<1>1. /\ steps \in [Step -> State \cup {"absent"}] /\ cur \in Step
      /\ steps' = [steps EXCEPT ![cur] = st] /\ Step \subseteq Int
  BY DEF RunTypes, RunTypeOK, TypeOK, SetStep, AtFirst, Present, Step
<1>2. Present' = Present /\ cur \in Present
  BY <1>1 DEF Present, State, AtFirst
<1>3. SUFFICES ASSUME NEW s \in Present, NEW t \in Present, s < t,
                      steps'[t] \in {"running", "waiting_user", "completed", "failed"}
               PROVE  steps'[s] \in Terminal
  BY <1>2 DEF InPlanOrder
<1>4. s \in Step /\ t \in Step
  BY DEF Present
<1>5. CASE t = cur
  BY <1>1, <1>3, <1>4, <1>5 DEF AtFirst
<1>6. CASE t # cur /\ s = cur
  BY <1>1, <1>3, <1>4, <1>6 DEF AtFirst, InPlanOrder
<1>7. CASE t # cur /\ s # cur
  BY <1>1, <1>3, <1>4, <1>7 DEF InPlanOrder
<1> QED
  BY <1>5, <1>6, <1>7

\* A step of the run that writes no step and leaves the manager alone.
LEMMA SeqQuietInv ==
  ASSUME SeqInv, UNCHANGED <<mgrVars, mem, replans>>, RunTypeOK', call[Sup].phase = "idle",
         row.state = "completed" => pc' \in {"complete", "drain", "off"},
         pc' \notin {"complete", "replan"},
         pc' \in {"begin", "start", "pick", "mark", "dispatch", "await"} =>
           pc \in {"begin", "start", "pick", "mark", "dispatch", "await"},
         pc' \in {"mark", "dispatch", "await"} => AtFirst(cur')
  PROVE  SeqInv'
<1> USE DEF SeqInv
<1>1. RunTypes' /\ RunInv'
  BY QuietRunInv DEF RunTypes
<1>2. InPlanOrder' /\ MemCurrent' /\ CurNext'
  BY DEF InPlanOrder, Present, MemCurrent, CurNext, AtFirst, mgrVars
<1> QED
  BY <1>1, <1>2

\* The run calls a transition and waits for it.
LEMMA SeqCallsInv ==
  ASSUME SeqInv, NEW op \in Transitions, NEW label \in {"complete", "fail", "pause"},
         Awaited[label] = op, Calls(op, label), pc \notin {"complete", "drain", "off"},
         op = "Complete" => Settled,
         UNCHANGED <<mem, replans, tries, exec, results, disturb>>, cur' \in {cur, 0}
  PROVE  SeqInv'
<1> USE DEF SeqInv
<1>1. RunInv'
  BY CallsRunInv DEF Awaited
<1>2. pc' = label /\ UNCHANGED <<row, steps, ids>>
  BY DEF Calls, Transition
<1>3. RunTypes'
  BY <1>2, CallsType DEF RunTypes, RunTypeOK, PC
<1>4. InPlanOrder' /\ MemCurrent' /\ CurNext'
  BY <1>2 DEF InPlanOrder, Present, MemCurrent, CurNext
<1> QED
  BY <1>1, <1>3, <1>4

\* The run records the step it is at.
LEMMA SeqSetStepInv ==
  ASSUME SeqInv, pc \in {"mark", "await"}, NEW st \in State, SetStep(cur, st),
         UNCHANGED <<call, replans, disturb>>,
         pc' \in {"dispatch", "pick", "failed", "confirm"},
         pc' = "dispatch" => st = "running" /\ cur' = cur,
         cur' \in {cur, 0}, tries' \in 0 .. MaxLate, exec' \subseteq Step, results' \subseteq Result
  PROVE  SeqInv'
<1> USE DEF SeqInv
<1>1. AtFirst(cur) /\ cur \in Present /\ cur \in Step /\ call[Sup].phase = "idle" /\ mem = steps
  BY DEF CurNext, AtFirst, Present, RunInv, AwaitsCall, Awaited, MemCurrent
<1>2. RunInv'
  BY <1>1, SetStepRunInv
<1>3. RunTypes'
  <2>1. TypeOK' /\ mem' \in [Step -> State \cup {"absent"}]
    BY <1>1, SetStepType DEF RunTypes, RunTypeOK
  <2> QED
    BY <1>1, <2>1 DEF RunTypes, RunTypeOK, PC
<1>4. InPlanOrder'
  BY <1>1, RecordInOrder
<1>5. MemCurrent'
  BY <1>1 DEF MemCurrent, SetStep
<1>6. CurNext'
  <2>1. SUFFICES ASSUME pc' = "dispatch" PROVE AtFirst(cur)'
    BY DEF CurNext
  <2>2. /\ steps' = [steps EXCEPT ![cur] = "running"] /\ steps \in [Step -> State \cup {"absent"}]
        /\ cur' = cur /\ Step \subseteq Int
    BY <2>1 DEF SetStep, RunTypes, RunTypeOK, TypeOK, Step
  <2>3. Present' = Present
    BY <1>1, <2>2 DEF Present
  <2> QED
    BY <1>1, <2>2, <2>3 DEF AtFirst, Terminal, Present
<1> QED
  BY <1>2, <1>3, <1>4, <1>5, <1>6

\* A step of this mode works on the first open step and records it in the copy and the row alike.
LEMMA SeqOwnInv ==
  ASSUME SeqInv, OwnStep
  PROVE  SeqInv'
<1> USE DEF SeqInv
<1>0. /\ RunTypeOK /\ TypeOK
      /\ pc \notin DOMAIN Awaited => call[Sup].phase = "idle"
      /\ row.state = "completed" => pc \in {"complete", "drain", "off"}
      /\ UNCHANGED mgrVars => TypeOK'
  BY DEF RunInv, AwaitsCall, DoneRests, RunTypes, RunTypeOK, TypeOK, mgrVars
<1>1. CASE Finish
  <2>1. mem = steps /\ Unresolved = {}
    BY <1>1 DEF Finish, MemCurrent
  <2>2. Settled
    BY <2>1 DEF Settled, Unresolved, Present
  <2> QED
    BY <1>1, <2>2, SeqCallsInv DEF Finish, Awaited, Transitions
<1>2. CASE Check
  <2>1. CASE row.state \in Stopped
    <3>1. RunTypeOK'
      BY <1>0, <1>2, <2>1 DEF Check, RunTypeOK, PC
    <3> QED
      BY <1>0, <1>2, <2>1, <3>1, SeqQuietInv DEF Check, Awaited
  <2>2. CASE row.state \notin Stopped
    <3>1. cur' = First(Unresolved) /\ pc' = "mark" /\ pc = "pick" /\ Unresolved # {} /\ mem = steps
      BY <1>2, <2>2 DEF Check, MemCurrent
    <3>2. cur' \in Unresolved /\ \A t \in Unresolved : cur' <= t
      BY <3>1, FirstIsLeast DEF Unresolved
    <3>3. AtFirst(cur')
      BY <3>1, <3>2, MaxStepAssumption DEF AtFirst, Unresolved, Present, Step
    <3>4. RunTypeOK'
      BY <1>0, <1>2, <2>2, <3>1, <3>2 DEF Check, RunTypeOK, PC, Unresolved
    <3> QED
      BY <1>0, <1>2, <3>1, <3>3, <3>4, SeqQuietInv DEF Check, Awaited
  <2> QED
    BY <2>1, <2>2
<1>3. CASE Mark
  BY <1>0, <1>3, SeqSetStepInv DEF Mark, State, RunTypeOK
<1>4. CASE StepError
  <2>1. RunTypeOK'
    BY <1>0, <1>4, BoundsAssumption DEF StepError, RunTypeOK, PC
  <2> QED
    BY <1>0, <1>4, <2>1, SeqQuietInv DEF StepError, Awaited
<1>5. ASSUME NEW acked \in BOOLEAN, Dispatch(acked, "await"), UNCHANGED cur PROVE SeqInv'
  <2>1. pc = "dispatch" /\ pc' \in {"dispatch", "await"} /\ AtFirst(cur) /\ cur \in Step
    BY <1>5 DEF Dispatch, CurNext, AtFirst, Present
  <2>2. RunTypeOK'
    BY <1>0, <1>5, <2>1, BoundsAssumption DEF Dispatch, RunTypeOK, PC
  <2> QED
    BY <1>0, <1>5, <2>1, <2>2, SeqQuietInv DEF Dispatch, Awaited
<1>6. ASSUME NEW r \in results, Receive(r) PROVE SeqInv'
  <2>1. CASE Discard(r)
    <3>1. RunTypeOK'
      BY <1>0, <2>1 DEF Discard, RunTypeOK
    <3> QED
      BY <1>0, <2>1, <3>1, SeqQuietInv DEF Discard, Awaited, CurNext
  <2>2. ASSUME NEW again \in BOOLEAN, Record(r, again) PROVE SeqInv'
    <3>1. r \in Result /\ results \subseteq Result
      BY <1>0 DEF RunTypeOK
    <3>2. Recorded[r.out] \in State
      BY <3>1 DEF Result, Recorded, State
    <3> QED
      BY <1>0, <2>2, <3>1, <3>2, SeqSetStepInv DEF Record, RunTypeOK
  <2> QED
    BY <1>6, <2>1, <2>2 DEF Receive
<1>7. CASE AutoPause
  BY <1>7, SeqCallsInv DEF AutoPause, Awaited, Transitions
<1>8. CASE Paused
  <2>1. CASE Back(TRUE) /\ pc' = "drain" /\ UNCHANGED mgrVars
    <3>1. RunTypeOK'
      BY <1>0, <1>8, <2>1 DEF Paused, RunTypeOK, PC
    <3> QED
      BY <1>0, <1>8, <2>1, <3>1, SeqQuietInv DEF Paused, Back
  <2>2. CASE Calls("Fail", "fail")
    BY <1>8, <2>2, SeqCallsInv DEF Paused, Awaited, Transitions
  <2> QED
    BY <1>8, <2>1, <2>2 DEF Paused
<1> QED
  BY <1>1, <1>2, <1>3, <1>4, <1>5, <1>6, <1>7, <1>8 DEF OwnStep

\* The shared steps and the own ones together.
LEMMA SeqNextInv == SeqInv /\ [SeqNext]_vars => SeqInv'
<1> SUFFICES ASSUME SeqInv, [SeqNext]_vars PROVE SeqInv'
  OBVIOUS
<1>1. CASE SeqNext
  BY <1>1, SeqSteps, SeqCommonInv, SeqOwnInv
<1>2. CASE UNCHANGED vars
  <2>1. UNCHANGED <<row, steps, ids, call, pc, mem, cur, replans, tries, exec, results, disturb>>
    BY <1>2 DEF vars, mgrVars, runVars
  <2>2. RunTypes' /\ InPlanOrder' /\ MemCurrent' /\ CurNext'
    BY <2>1 DEF SeqInv, RunTypes, RunTypeOK, TypeOK, InPlanOrder, Present, MemCurrent, CurNext, AtFirst
  <2>3. RunInv'
    BY <2>1 DEF SeqInv, RunInv, CallsKnown, AwaitsCall, FreshAbove, PresentKnown, ReplanRead,
                DoneRests, SettledAtEnd, Settled, Present
  <2> QED
    BY <2>2, <2>3 DEF SeqInv
<1> QED
  BY <1>1, <1>2

\* The inductive invariant.
THEOREM SeqInvCorrect == SeqSpec => []SeqInv
  BY SeqInitInv, SeqNextInv, PTL DEF SeqSpec

\* The run and its worker stay inside their types (runSequential, runStep).
THEOREM SeqTypeCorrect == SeqSpec => []RunTypeOK
<1>1. SeqInv => RunTypeOK
  BY DEF SeqInv, RunTypes
<1> QED
  BY <1>1, SeqInvCorrect, PTL

\* Steps are worked through in plan order: timeouts, replans, restarts,
\* repeated and lost messages included (runSequential).
THEOREM PlanOrderCorrect == SeqSpec => []InPlanOrder
<1>1. SeqInv => InPlanOrder
  BY DEF SeqInv
<1> QED
  BY <1>1, SeqInvCorrect, PTL

\* A completed mission has no open step (supervisor.go:238-249).
THEOREM SeqCompletedCorrect == SeqSpec => []CompletedMeansSettled
<1>1. SeqInv => CompletedMeansSettled
  BY DEF SeqInv, RunInv, SettledAtEnd, Settled, CompletedMeansSettled
<1> QED
  BY <1>1, SeqInvCorrect, PTL

\* No step of the run, of its worker, of a replan or of a user rewrites the
\* outcome of a settled step.
THEOREM SeqSettledFinal == SeqSpec => SettledStepsFinal
<1>1. ASSUME SeqInv, [SeqNext]_vars
      PROVE  [\A s \in Step : steps[s] \in Terminal => steps'[s] = steps[s]]_<<mgrVars, runVars>>
  <2>1. CASE UNCHANGED vars
    BY <2>1 DEF vars
  <2>2. CASE CommonStep
    <3>1. Moves
      BY <1>1, <2>2, CommonMoves DEF SeqInv, CommonStep
    <3> QED
      BY <3>1, MovesKeepSettled
  <2>3. CASE OwnStep
    <3>1. \/ UNCHANGED steps
          \/ /\ pc \in {"mark", "await"}
             /\ \E st : steps' = [steps EXCEPT ![cur] = st]
      BY <2>3 DEF OwnStep, Finish, Check, Mark, StepError, Dispatch, Receive, Discard, Record, AutoPause,
                  Paused, Calls, Transition, SetStep, mgrVars
    <3>2. pc \in {"mark", "await"} => steps[cur] \notin Terminal
      BY <1>1 DEF SeqInv, CurNext, AtFirst
    <3>3. steps \in [Step -> State \cup {"absent"}]
      BY <1>1 DEF SeqInv, RunTypes, RunTypeOK, TypeOK
    <3> QED
      BY <3>1, <3>2, <3>3
  <2> QED
    BY <1>1, <2>1, <2>2, <2>3, SeqSteps
<1> QED
  BY <1>1, SeqInvCorrect, PTL DEF SeqSpec, SettledStepsFinal
==============================================================================
