---------------------- MODULE ParallelSupervisor_proofs ----------------------
(***************************************************************************)
(* What holds of the parallel dispatch for every plan and every dependency *)
(* graph (cycles and dangling references included), every number of users, *)
(* replans and repeated deliveries, and every interruption.                *)
(***************************************************************************)
EXTENDS ParallelSupervisor, Missions_proofs

\* From the start of the run to its last result the run's copy is what is
\* recorded: nobody else writes a step.
MemCurrent == pc \in {"begin", "start", "pick", "mark", "dispatch", "decide"} => mem = steps

MayRun(s) == steps[s] \notin Terminal \cup {"absent"} /\ \A d \in deps[s] : steps[d] = "completed"
Running == { s \in Step : steps[s] = "running" }

\* A round has only steps left that may run, and what an earlier run left
\* running is among them or in flight; it does not begin once a step failed.
RoundOpen ==
  /\ pc \in {"mark", "dispatch"} =>
       /\ todo # {} /\ failure = 0
       /\ Running \subseteq inFlight \cup todo
       /\ \A s \in todo : MayRun(s)
  /\ pc = "dispatch" => cur \in todo /\ steps[cur] = "running"
  /\ pc \in {"pick", "decide"} => todo = {}

\* While results are awaited, and while a failure drains, what runs is in flight.
Drains ==
  /\ pc = "decide" \/ (pc = "pick" /\ failure # 0) => Running \subseteq inFlight
  /\ pc \in {"pick", "mark", "dispatch", "decide"} => \A s \in inFlight : steps[s] = "running"

\* The run's maps are empty before it starts and when it asks for a replan.
RoundEmpty ==
  /\ pc \in {"off", "load", "begin", "start"} => inFlight = {} /\ failure = 0 /\ todo = {}
  /\ pc \in {"failed", "replan"} => inFlight = {} /\ todo = {} /\ Running = {}

RoundInv == RoundOpen /\ Drains /\ RoundEmpty

ParTypes == ParTypeOK /\ RunTypes

ParInv == ParTypes /\ RunInv /\ DepsCompleted /\ MemCurrent /\ RoundInv

CommonStep ==
  \/ (CommonNext \/ AroundNext) /\ UNCHANGED parVars
  \/ ParReplanned
  \/ (Drained \/ Interrupt) /\ Forget

\* The steps only this mode takes.
OwnStep ==
  \/ Sweep \/ Mark \/ DispatchError
  \/ \E acked \in BOOLEAN : DispatchReady(acked)
  \/ \E r \in results : Receive(r)
  \/ StepTimeout \/ FailureDrained \/ Conclude \/ SpuriousWake

\* Every step is one both modes share or one of this mode.
LEMMA ParSteps == ParNext => CommonStep \/ OwnStep
  BY DEF ParNext, SupNext, CommonStep, OwnStep

\* At the start nothing has been touched and there is no run.
LEMMA ParInitInv == ParInit => ParInv
<1> SUFFICES ASSUME ParInit PROVE ParInv
  OBVIOUS
<1>1. RunTypes /\ RunInv
  BY RunInitInv DEF ParInit
<1>2. pc = "off" /\ \A s \in Present : steps[s] = "created"
  BY DEF ParInit, PlannedInit, NoRun, Present
<1>3. ParTypeOK
  BY <1>1 DEF ParInit, ParTypeOK, RunTypes
<1>4. DepsCompleted
  BY <1>2 DEF DepsCompleted
<1>5. MemCurrent /\ RoundInv
  BY <1>2 DEF MemCurrent, RoundInv, RoundOpen, Drains, RoundEmpty, ParInit
<1> QED
  BY <1>1, <1>3, <1>4, <1>5 DEF ParInv, ParTypes

-----------------------------------------------------------------------------
\* A dependency is a step.
LEMMA DepsAreSteps ==
  ASSUME ParTypeOK, NEW s \in Step
  PROVE  deps[s] \subseteq Step
  BY GraphsAssumption DEF ParTypeOK

\* A shared step starts nothing; one that ends the run empties its maps.
LEMMA ParCommonInv ==
  ASSUME ParInv, CommonStep
  PROVE  ParInv'
<1> USE DEF ParInv
<1>0. CommonNext \/ Replanned \/ Drained \/ AroundNext \/ Interrupt
  BY DEF CommonStep, ParReplanned
<1>1. RunTypes' /\ RunInv'
  BY <1>0, CommonTypes, CommonRunInv DEF ParTypes
<1>2. Moves /\ Places
  BY <1>0, CommonMoves, CommonPlaces DEF ParTypes
<1>3. steps \in [Step -> State \cup {"absent"}] /\ steps' \in [Step -> State \cup {"absent"}]
  BY <1>1 DEF RunTypes, RunTypeOK, TypeOK, ParTypes
<1>4. /\ deps' = deps
      /\ \/ UNCHANGED <<todo, inFlight, failure>>
         \/ pc = "replan" /\ failure' = 0 /\ UNCHANGED <<todo, inFlight>>
         \/ pc' = "off" /\ todo' = {} /\ inFlight' = {} /\ failure' = 0
  BY DEF CommonStep, parVars, ParReplanned, Replanned, Forget, Drained, Interrupt
<1>5. ParTypes'
  BY <1>1, <1>4 DEF ParTypes, ParTypeOK, RunTypes
<1>6. DepsCompleted'
  <2>1. SUFFICES ASSUME NEW s \in Present', steps'[s] \in {"running", "completed", "failed"},
                        NEW d \in deps[s]
                 PROVE  steps'[d] = "completed"
    BY <1>4 DEF DepsCompleted
  <2>2. s \in Step /\ d \in Step
    BY DepsAreSteps DEF Present, ParTypes
  <2>3. steps[s] = steps'[s] /\ s \in Present
    BY <1>2, <2>1, <2>2 DEF Moves, Superseded, Appended, Present
  <2>4. steps[d] = "completed"
    BY <2>1, <2>3 DEF DepsCompleted
  <2> QED
    BY <1>2, <2>2, <2>4, MovesKeepSettled DEF Terminal
<1>7. MemCurrent'
  BY <1>2 DEF MemCurrent, Moves, Places
<1>8. pc' = "off" => todo' = {} /\ inFlight' = {} /\ failure' = 0
  <2>1. CASE (Drained \/ Interrupt) /\ Forget
    BY <2>1 DEF Forget
  <2>2. CASE ParReplanned
    BY <2>2 DEF ParReplanned, Replanned, Calls
  <2>3. ASSUME CommonNext, UNCHANGED parVars, pc' = "off" PROVE pc = "off"
    BY <2>3 DEF CommonNext, Spawn, Load, CallStart, Started, TryReplan, FailMission, Return, SupStatement,
                Calls, runVars
  <2>4. ASSUME AroundNext PROVE pc' = pc
    BY <2>4 DEF AroundNext, WorkerNext, WorkerDone, LoseResult, StatementFails, UserNext, UserCall,
                UserStatement, runVars
  <2> QED
    BY <2>1, <2>2, <2>3, <2>4 DEF CommonStep, RoundInv, RoundEmpty, parVars
<1>9. RoundInv'
  <2>1. CASE pc' \in {"off", "drain", "fail"}
    BY <1>8, <2>1 DEF RoundInv, RoundOpen, Drains, RoundEmpty
  <2>2. CASE UNCHANGED steps /\ pc' \notin {"off", "drain", "fail"}
    <3>1. Running' = Running /\ (UNCHANGED todo => \A s \in todo : MayRun(s)' = MayRun(s))
      BY <1>4, <2>2 DEF Running, MayRun
    <3>2. RoundOpen'
      <4>1. CASE UNCHANGED <<pc, mem, cur>> /\ UNCHANGED <<todo, inFlight, failure>>
        BY <2>2, <3>1, <4>1 DEF RoundInv, RoundOpen
      <4>2. CASE pc' \notin {"mark", "dispatch"} /\ todo = {} /\ todo' = {}
        BY <4>2 DEF RoundOpen
      <4>3. CASE pc' \notin {"pick", "mark", "dispatch", "decide"}
        BY <4>3 DEF RoundOpen
      <4> QED
        BY <1>2, <1>4, <2>2, <4>1, <4>2, <4>3 DEF Places, RoundInv, RoundOpen, RoundEmpty
    <3>3. Drains'
      BY <1>2, <1>4, <2>2, <3>1 DEF Places, RoundInv, Drains, RoundEmpty
    <3>4. RoundEmpty'
      BY <1>2, <1>4, <2>2, <3>1 DEF Places, RoundInv, RoundEmpty
    <3> QED
      BY <3>2, <3>3, <3>4 DEF RoundInv
  <2>3. CASE /\ pc = "replan" /\ pc' = "replan"
             /\ \A s \in Step : steps'[s] = steps[s] \/ Superseded(s) \/ Appended(s)
    <3>1. Running' = {}
      BY <2>3 DEF RoundInv, RoundEmpty, Running, Superseded, Appended
    <3> QED
      BY <1>4, <2>3, <3>1 DEF RoundInv, RoundOpen, Drains, RoundEmpty
  <2> QED
    BY <1>2, <2>1, <2>2, <2>3 DEF Moves
<1> QED
  BY <1>1, <1>5, <1>6, <1>7, <1>9

-----------------------------------------------------------------------------
\* Recording a step that may run disturbs no dependency.
LEMMA RecordKeepsDeps ==
  ASSUME ParTypes, DepsCompleted, NEW s \in Step, MayRun(s), NEW st \in State, SetStep(s, st), UNCHANGED deps
  PROVE  DepsCompleted'
<1>1. steps' = [steps EXCEPT ![s] = st] /\ steps \in [Step -> State \cup {"absent"}]
  BY DEF SetStep, ParTypes, RunTypes, RunTypeOK, TypeOK
<1>2. SUFFICES ASSUME NEW t \in Present', steps'[t] \in {"running", "completed", "failed"},
                      NEW d \in deps[t]
               PROVE  steps'[d] = "completed"
  BY DEF DepsCompleted
<1>3. t \in Step /\ d \in Step
  BY DepsAreSteps DEF Present, ParTypes
<1>4. steps[d] = "completed"
  BY <1>1, <1>2, <1>3 DEF DepsCompleted, MayRun, Present
<1> QED
  BY <1>1, <1>3, <1>4 DEF MayRun, Terminal

\* What is running may run.
LEMMA RunningMayRun ==
  ASSUME DepsCompleted, NEW s \in Running
  PROVE  MayRun(s)
  BY DEF DepsCompleted, Running, MayRun, Present, Terminal

\* A step of the run that writes no step and leaves the manager alone.
LEMMA ParQuietInv ==
  ASSUME ParInv, UNCHANGED <<mgrVars, mem, replans, deps>>, ParTypeOK', call[Sup].phase = "idle",
         row.state # "completed",
         pc \in {"pick", "mark", "dispatch", "decide"},
         pc' \in {"pick", "mark", "dispatch", "decide", "failed", "drain"},
         RoundInv'
  PROVE  ParInv'
<1> USE DEF ParInv
<1>1. RunTypes' /\ RunInv'
  BY QuietRunInv DEF RunTypes, ParTypes, ParTypeOK
<1>2. DepsCompleted' /\ MemCurrent'
  BY DEF DepsCompleted, Present, MemCurrent, mgrVars
<1> QED
  BY <1>1, <1>2 DEF ParTypes

\* The run calls a transition and waits for it.
LEMMA ParCallsInv ==
  ASSUME ParInv, NEW op \in Transitions, NEW label \in {"complete", "fail"},
         Awaited[label] = op, Calls(op, label), pc = "decide",
         op = "Complete" => Settled,
         UNCHANGED <<mem, cur, replans, tries, exec, results, disturb, parVars>>
  PROVE  ParInv'
<1> USE DEF ParInv
<1>1. RunInv'
  BY CallsRunInv DEF Awaited, ParTypes
<1>2. pc' = label /\ UNCHANGED <<row, steps, ids>>
  BY DEF Calls, Transition
<1>3. RunTypes'
  BY <1>2, CallsType DEF RunTypes, RunTypeOK, PC, ParTypes
<1>4. DepsCompleted' /\ MemCurrent'
  BY <1>2 DEF DepsCompleted, Present, MemCurrent, parVars
<1>5. ParTypes' /\ RoundInv'
  BY <1>2, <1>3 DEF ParTypes, ParTypeOK, RunTypes, parVars, RoundInv, RoundOpen, Drains, RoundEmpty
<1> QED
  BY <1>1, <1>4, <1>5

\* The run records a step that may run.
LEMMA ParSetStepInv ==
  ASSUME ParInv, pc \in {"mark", "decide"}, pc' \in {"dispatch", "pick"},
         NEW s \in Step, MayRun(s), NEW st \in State, SetStep(s, st),
         UNCHANGED <<call, replans, tries, exec, disturb, deps>>, ParTypeOK', RoundInv'
  PROVE  ParInv'
<1> USE DEF ParInv
<1>1. s \in Present /\ call[Sup].phase = "idle" /\ mem = steps
  BY DEF MayRun, Present, RunInv, AwaitsCall, Awaited, MemCurrent
<1>2. RunInv'
  BY <1>1, SetStepRunInv DEF ParTypes
<1>3. ParTypes'
  BY DEF ParTypes, ParTypeOK, RunTypes
<1>4. DepsCompleted'
  BY RecordKeepsDeps
<1>5. MemCurrent'
  BY <1>1 DEF MemCurrent, SetStep
<1> QED
  BY <1>2, <1>3, <1>4, <1>5

\* A step of this mode starts only what may run, and settles only what is in flight.
LEMMA ParOwnInv ==
  ASSUME ParInv, OwnStep
  PROVE  ParInv'
<1> USE DEF ParInv
<1>0. /\ ParTypeOK /\ RunTypeOK /\ TypeOK
      /\ pc \notin DOMAIN Awaited => call[Sup].phase = "idle"
      /\ pc \notin {"complete", "drain", "off"} => row.state # "completed"
      /\ UNCHANGED mgrVars => TypeOK'
  BY DEF ParTypes, RunInv, AwaitsCall, DoneRests, RunTypes, RunTypeOK, TypeOK, mgrVars
<1>1. CASE Sweep
  <2>0. pc = "pick" /\ mem = steps /\ UNCHANGED mgrVars /\ todo = {} /\ Ready \subseteq Step
    BY <1>1 DEF Sweep, MemCurrent, RoundInv, RoundOpen, Ready, Open
  <2>1. ParTypeOK'
    BY <1>0, <1>1, <2>0 DEF Sweep, ParTypeOK, RunTypeOK, PC
  <2>2. UNCHANGED <<steps, inFlight, failure, deps>> /\ Running' = Running
    BY <1>1 DEF Sweep, mgrVars, Running
  <2>3. CASE row.state \in Stopped
    BY <1>0, <1>1, <2>0, <2>1, <2>3, ParQuietInv
       DEF Sweep, Awaited, RoundInv, RoundOpen, Drains, RoundEmpty
  <2>4. CASE row.state \notin Stopped
    <3>1. /\ todo' = IF failure = 0 THEN Ready ELSE {}
          /\ pc' = IF todo' = {} THEN "decide" ELSE "mark"
      BY <1>1, <2>4 DEF Sweep
    <3>2. failure = 0 => Running \subseteq inFlight \cup todo'
      <4>1. ASSUME NEW s \in Running, s \notin inFlight PROVE s \in Ready
        <5>1. s \in Step /\ MayRun(s)
          BY RunningMayRun DEF Running
        <5> QED
          BY <2>0, <4>1, <5>1 DEF MayRun, Ready, Open
      <4> QED
        BY <3>1, <4>1
    <3>3. \A s \in todo' : MayRun(s)'
      BY <2>0, <2>2, <3>1 DEF Ready, Open, MayRun
    <3>4. RoundOpen'
      BY <2>2, <3>1, <3>2, <3>3 DEF RoundOpen
    <3>5. Drains' /\ RoundEmpty'
      BY <2>0, <2>2, <3>1, <3>2 DEF RoundInv, Drains, RoundEmpty
    <3> QED
      BY <1>0, <1>1, <2>0, <2>1, <3>1, <3>4, <3>5, ParQuietInv DEF Sweep, Awaited, RoundInv
  <2> QED
    BY <2>3, <2>4
<1>2. CASE Mark
  <2> DEFINE s == First(todo)
  <2>1. pc = "mark" /\ todo # {} /\ failure = 0 /\ pc' = "dispatch" /\ cur' = s
    BY <1>2 DEF Mark, RoundInv, RoundOpen
  <2>2. s \in todo /\ s \in Step
    BY <1>0, <2>1, FirstIsLeast DEF ParTypeOK
  <2>3. SetStep(s, "running") /\ UNCHANGED <<call, replans, tries, exec, results, disturb, parVars>>
    BY <1>2 DEF Mark
  <2> HIDE DEF s
  <2>4. MayRun(s) /\ \A t \in todo : MayRun(t)
    BY <2>1, <2>2 DEF RoundInv, RoundOpen
  <2>5. steps' = [steps EXCEPT ![s] = "running"] /\ steps \in [Step -> State \cup {"absent"}]
    BY <1>0, <2>3 DEF SetStep, TypeOK
  <2>6. ParTypeOK'
    BY <1>0, <2>1, <2>2, <2>3, SetStepType DEF ParTypeOK, RunTypeOK, PC, State, parVars
  <2>7. Running' = Running \cup {s}
    BY <2>2, <2>5 DEF Running
  <2>8. ASSUME NEW t \in todo PROVE MayRun(t)'
    <3>1. t \in Step /\ deps[t] \subseteq Step /\ deps' = deps
      BY <1>0, <2>3, DepsAreSteps DEF ParTypeOK, parVars
    <3> QED
      BY <2>2, <2>4, <2>5, <3>1 DEF MayRun, Terminal
  <2>9. RoundOpen'
    BY <2>1, <2>2, <2>3, <2>5, <2>7, <2>8 DEF RoundInv, RoundOpen, parVars
  <2>10. Drains' /\ RoundEmpty'
    BY <1>0, <2>1, <2>3, <2>5 DEF RoundInv, Drains, RoundEmpty, parVars, ParTypeOK
  <2> QED
    BY <2>1, <2>2, <2>3, <2>4, <2>6, <2>9, <2>10, ParSetStepInv DEF RoundInv, State, parVars
<1>3. CASE DispatchError
  <2>1. ParTypeOK'
    BY <1>0, <1>3, BoundsAssumption DEF DispatchError, ParTypeOK, RunTypeOK, PC, parVars
  <2>2. RoundInv'
    BY <1>3 DEF DispatchError, RoundInv, RoundOpen, Drains, RoundEmpty
  <2> QED
    BY <1>0, <1>3, <2>1, <2>2, ParQuietInv DEF DispatchError, Awaited, parVars
<1>4. ASSUME NEW acked \in BOOLEAN, DispatchReady(acked) PROVE ParInv'
  <2>1. /\ pc = "dispatch" /\ cur \in todo /\ cur \in Step /\ steps[cur] = "running" /\ failure = 0
        /\ UNCHANGED <<mgrVars, mem, replans, deps, failure, results, disturb>>
    BY <1>0, <1>4 DEF DispatchReady, Dispatch, RoundInv, RoundOpen, ParTypeOK
  <2>2. UNCHANGED steps /\ Running' = Running /\ \A s \in Step : MayRun(s)' = MayRun(s)
    BY <2>1 DEF mgrVars, Running, MayRun
  <2>3. ParTypeOK'
    <3>1. /\ exec' \subseteq Step /\ tries' \in 0 .. MaxLate /\ pc' \in PC
          /\ cur' \in Step \cup {0} /\ todo' \subseteq Step /\ inFlight' \subseteq Step
      <4>0. /\ exec \subseteq Step /\ tries \in 0 .. MaxLate /\ pc \in PC /\ cur \in Step
            /\ todo \subseteq Step /\ inFlight \subseteq Step /\ MaxLate \in Nat
        BY <1>0, <2>1, BoundsAssumption DEF ParTypeOK, RunTypeOK
      <4>1. exec' = exec \cup {cur}
        BY <1>4 DEF DispatchReady, Dispatch
      <4>2. CASE acked
        <5>1. tries' = 0 /\ pc' \in {"decide", "mark"}
          BY <1>4, <4>2 DEF DispatchReady, Dispatch
        <5>2. inFlight' = inFlight \cup {cur} /\ todo' = todo \ {cur} /\ cur' = 0
          BY <1>4, <4>2 DEF DispatchReady
        <5> QED
          BY <4>0, <4>1, <5>1, <5>2 DEF PC
      <4>3. CASE ~acked
        <5>1. tries < MaxLate /\ UNCHANGED pc /\ tries' = tries + 1
          BY <1>4, <4>3 DEF DispatchReady, Dispatch
        <5>2. UNCHANGED <<inFlight, todo, cur>>
          BY <1>4, <4>3 DEF DispatchReady
        <5> QED
          BY <4>0, <4>1, <5>1, <5>2
      <4> QED
        BY <4>2, <4>3
    <3> QED
      BY <1>0, <2>1, <3>1 DEF ParTypeOK, RunTypeOK
  <2>4. CASE acked
    <3>1. /\ pc' = IF todo = {cur} THEN "decide" ELSE "mark"
          /\ inFlight' = inFlight \cup {cur} /\ todo' = todo \ {cur}
      BY <1>4, <2>4 DEF DispatchReady, Dispatch
    <3>2. RoundOpen'
      BY <1>0, <2>1, <2>2, <3>1 DEF RoundInv, RoundOpen, ParTypeOK
    <3>3. Drains' /\ RoundEmpty'
      BY <2>1, <2>2, <3>1 DEF RoundInv, RoundOpen, Drains, RoundEmpty
    <3> QED
      BY <1>0, <2>1, <2>3, <3>1, <3>2, <3>3, ParQuietInv DEF RoundInv, Awaited
  <2>5. CASE ~acked
    <3>1. UNCHANGED <<pc, inFlight, todo, cur>>
      BY <1>4, <2>5 DEF DispatchReady, Dispatch
    <3>2. RoundInv'
      BY <1>0, <2>1, <2>2, <3>1 DEF RoundInv, RoundOpen, Drains, RoundEmpty, ParTypeOK
    <3> QED
      BY <1>0, <2>1, <2>3, <3>1, <3>2, ParQuietInv DEF Awaited
  <2> QED
    BY <2>4, <2>5
<1>5. ASSUME NEW r \in results, Receive(r) PROVE ParInv'
  <2>1. CASE Discard(r)
    <3>1. ParTypeOK'
      BY <1>0, <2>1 DEF Discard, ParTypeOK, RunTypeOK, PC, parVars
    <3>2. RoundInv'
      BY <2>1 DEF Discard, parVars, mgrVars, Running, RoundInv, RoundOpen, Drains, RoundEmpty
    <3> QED
      BY <1>0, <2>1, <3>1, <3>2, ParQuietInv DEF Discard, Awaited, parVars
  <2>2. ASSUME NEW again \in BOOLEAN, Record(r, again) PROVE ParInv'
    <3> DEFINE s == r.step
               st == IF r.out = "ok" THEN "completed" ELSE "failed"
    <3>1. /\ s \in Step /\ s \in inFlight /\ steps[s] = "running" /\ st \in State /\ st # "running"
          /\ pc = "decide" /\ pc' = "pick"
      BY <1>0, <2>2 DEF Record, RunTypeOK, ParTypeOK, Result, State, RoundInv, Drains
    <3>2. MayRun(s)
      BY <3>1, RunningMayRun DEF Running
    <3>3. SetStep(s, st) /\ inFlight' = inFlight \ {s} /\ UNCHANGED <<call, cur, replans, tries, exec, disturb, deps, todo>>
      BY <2>2 DEF Record
    <3>4. steps' = [steps EXCEPT ![s] = st] /\ steps \in [Step -> State \cup {"absent"}]
      BY <1>0, <3>3 DEF SetStep, TypeOK
    <3>5. ParTypeOK'
      <4>1. results' \subseteq Result /\ failure' \in Step \cup {0}
        BY <1>0, <2>2, <3>1 DEF Record, ParTypeOK, RunTypeOK
      <4>2. TypeOK' /\ mem' \in [Step -> State \cup {"absent"}]
        BY <1>0, <3>1, <3>3, SetStepType DEF RunTypeOK
      <4> QED
        BY <1>0, <3>1, <3>3, <4>1, <4>2 DEF ParTypeOK, RunTypeOK, PC
    <3> HIDE DEF s, st
    <3>6. Running' = Running \ {s}
      BY <3>1, <3>4 DEF Running
    <3>7. RoundOpen' /\ RoundEmpty'
      BY <3>1, <3>3 DEF RoundInv, RoundOpen, RoundEmpty
    <3>8. Drains'
      <4>1. Running \subseteq inFlight /\ \A t \in inFlight : t \in Step /\ steps[t] = "running"
        <5>1. Running \subseteq inFlight
          BY <3>1 DEF RoundInv, Drains
        <5>2. \A t \in inFlight : steps[t] = "running"
          BY <3>1 DEF RoundInv, Drains
        <5> QED
          BY <1>0, <5>1, <5>2 DEF ParTypeOK
      <4>2. \A t \in inFlight' : steps'[t] = "running"
        BY <3>3, <3>4, <4>1
      <4>3. Running' \subseteq inFlight'
        BY <3>3, <3>6, <4>1
      <4> QED
        BY <4>2, <4>3 DEF Drains
    <3> QED
      BY <3>1, <3>2, <3>3, <3>5, <3>7, <3>8, ParSetStepInv DEF RoundInv
  <2> QED
    BY <1>5, <2>1, <2>2 DEF Receive
<1>6. CASE StepTimeout
  BY <1>6, ParCallsInv DEF StepTimeout, Awaited, Transitions
<1>7. CASE FailureDrained
  <2>1. ParTypeOK'
    BY <1>0, <1>7 DEF FailureDrained, ParTypeOK, RunTypeOK, PC, parVars
  <2>2. RoundInv'
    BY <1>7 DEF FailureDrained, parVars, mgrVars, Running, RoundInv, RoundOpen, Drains, RoundEmpty
  <2> QED
    BY <1>0, <1>7, <2>1, <2>2, ParQuietInv DEF FailureDrained, Awaited, parVars
<1>8. CASE Conclude
  <2>1. CASE Open = {} /\ Calls("Complete", "complete")
    <3>1. mem = steps
      BY <1>8 DEF Conclude, MemCurrent
    <3>2. Settled
      BY <2>1, <3>1 DEF Settled, Open, Present
    <3> QED
      BY <1>8, <2>1, <3>2, ParCallsInv DEF Conclude, Awaited, Transitions
  <2>2. CASE Calls("Fail", "fail")
    BY <1>8, <2>2, ParCallsInv DEF Conclude, Awaited, Transitions
  <2> QED
    BY <1>8, <2>1, <2>2 DEF Conclude
<1>9. CASE SpuriousWake
  <2>1. ParTypeOK'
    BY <1>0, <1>9 DEF SpuriousWake, ParTypeOK, RunTypeOK, PC, parVars
  <2>2. RoundInv'
    BY <1>9 DEF SpuriousWake, parVars, mgrVars, Running, RoundInv, RoundOpen, Drains, RoundEmpty
  <2> QED
    BY <1>0, <1>9, <2>1, <2>2, ParQuietInv DEF SpuriousWake, Awaited, parVars
<1> QED
  BY <1>1, <1>2, <1>3, <1>4, <1>5, <1>6, <1>7, <1>8, <1>9 DEF OwnStep

\* The shared steps and the own ones together.
LEMMA ParNextInv == ParInv /\ [ParNext]_vars => ParInv'
<1> SUFFICES ASSUME ParInv, [ParNext]_vars PROVE ParInv'
  OBVIOUS
<1>1. CASE ParNext
  BY <1>1, ParSteps, ParCommonInv, ParOwnInv
<1>2. CASE UNCHANGED vars
  <2>1. UNCHANGED <<row, steps, ids, call, pc, mem, cur, replans, tries, exec, results, disturb,
                    deps, todo, inFlight, failure>>
    BY <1>2 DEF vars, mgrVars, runVars, parVars
  <2>2. ParTypes' /\ DepsCompleted' /\ MemCurrent'
    BY <2>1 DEF ParInv, ParTypes, ParTypeOK, RunTypes, RunTypeOK, TypeOK, DepsCompleted, Present, MemCurrent
  <2>3. RoundInv'
    BY <2>1 DEF ParInv, RoundInv, RoundOpen, Drains, RoundEmpty, Running, MayRun
  <2>4. RunInv'
    BY <2>1 DEF ParInv, RunInv, CallsKnown, AwaitsCall, FreshAbove, PresentKnown, ReplanRead,
                DoneRests, SettledAtEnd, Settled, Present
  <2> QED
    BY <2>2, <2>3, <2>4 DEF ParInv
<1> QED
  BY <1>1, <1>2

\* The inductive invariant.
THEOREM ParInvCorrect == ParSpec => []ParInv
  BY ParInitInv, ParNextInv, PTL DEF ParSpec

\* The run, its maps and its worker stay inside their types (runParallel).
THEOREM ParTypeCorrect == ParSpec => []ParTypeOK
<1>1. ParInv => ParTypeOK
  BY DEF ParInv, ParTypes
<1> QED
  BY <1>1, ParInvCorrect, PTL

\* A step runs, and is over, only when everything it depends on is recorded
\* as completed (readyForDispatch, runParallel).
THEOREM DepsCorrect == ParSpec => []DepsCompleted
<1>1. ParInv => DepsCompleted
  BY DEF ParInv
<1> QED
  BY <1>1, ParInvCorrect, PTL

\* A replan is asked for and written only when no step is mid-execution
\* (supervisor.go:462-464).
THEOREM ReplanSettledCorrect == ParSpec => []ReplanIsSettled
<1>1. ParInv => ReplanIsSettled
  BY DEF ParInv, RoundInv, RoundEmpty, Running, ReplanIsSettled
<1> QED
  BY <1>1, ParInvCorrect, PTL

\* A completed mission has no open step (supervisor.go:516-527).
THEOREM ParCompletedCorrect == ParSpec => []CompletedMeansSettled
<1>1. ParInv => CompletedMeansSettled
  BY DEF ParInv, RunInv, SettledAtEnd, Settled, CompletedMeansSettled
<1> QED
  BY <1>1, ParInvCorrect, PTL

\* No late or repeated result, re-dispatch, replan or user call rewrites the
\* outcome of a settled step.
THEOREM ParSettledFinal == ParSpec => SettledStepsFinal
<1>1. ASSUME ParInv, [ParNext]_vars
      PROVE  [\A s \in Step : steps[s] \in Terminal => steps'[s] = steps[s]]_<<mgrVars, runVars>>
  <2>1. CASE UNCHANGED vars
    BY <2>1 DEF vars
  <2>2. CASE CommonStep
    <3>1. Moves
      BY <1>1, <2>2, CommonMoves DEF ParInv, ParTypes, CommonStep, ParReplanned
    <3> QED
      BY <3>1, MovesKeepSettled
  <2>3. CASE OwnStep
    <3>1. steps \in [Step -> State \cup {"absent"}] /\ todo \subseteq Step
      BY <1>1 DEF ParInv, ParTypes, ParTypeOK, RunTypes, RunTypeOK, TypeOK
    <3>2. \/ UNCHANGED steps
          \/ \E s \in Step, st \in State : steps[s] \notin Terminal /\ steps' = [steps EXCEPT ![s] = st]
      <4>1. CASE Mark
        <5>1. pc = "mark" /\ steps' = [steps EXCEPT ![First(todo)] = "running"]
          BY <4>1 DEF Mark, SetStep
        <5>2. First(todo) \in todo /\ MayRun(First(todo))
          BY <1>1, <3>1, <5>1, FirstIsLeast DEF ParInv, RoundInv, RoundOpen
        <5> QED
          BY <3>1, <5>1, <5>2 DEF MayRun, State
      <4>2. ASSUME NEW r \in results, NEW again \in BOOLEAN, Record(r, again)
            PROVE  \E s \in Step, st \in State : steps[s] \notin Terminal /\ steps' = [steps EXCEPT ![s] = st]
        <5>1. steps' = [steps EXCEPT ![r.step] = IF r.out = "ok" THEN "completed" ELSE "failed"]
          BY <4>2 DEF Record, SetStep
        <5>2. r.step \in Step /\ steps[r.step] = "running"
          BY <1>1, <4>2 DEF Record, ParInv, RoundInv, Drains, ParTypes, ParTypeOK
        <5> QED
          BY <5>1, <5>2 DEF State, Terminal
      <4>3. CASE \/ Sweep \/ DispatchError \/ StepTimeout \/ FailureDrained \/ Conclude \/ SpuriousWake
                 \/ \E acked \in BOOLEAN : DispatchReady(acked)
                 \/ \E r \in results : Discard(r)
        BY <4>3 DEF Sweep, DispatchError, StepTimeout, FailureDrained, Conclude, SpuriousWake,
                    DispatchReady, Dispatch, Discard, Calls, Transition, mgrVars
      <4> QED
        BY <2>3, <4>1, <4>2, <4>3 DEF OwnStep, Receive
    <3> QED
      BY <3>1, <3>2
  <2> QED
    BY <1>1, <2>1, <2>2, <2>3, ParSteps
<1> QED
  BY <1>1, ParInvCorrect, PTL DEF ParSpec, SettledStepsFinal
==============================================================================
