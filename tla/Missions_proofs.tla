--------------------------- MODULE Missions_proofs ---------------------------
(***************************************************************************)
(* What holds for every set of callers and every number of steps: of       *)
(* MissionManager, and, in the second part, of the run of a supervisor     *)
(* whatever its dispatch mode.                                             *)
(***************************************************************************)
EXTENDS SupervisorRun, FiniteSetTheorems, WellFoundedInduction, TLAPS

\* The record constructors stay inside the type of a call, and so does every
\* row a call writes.
LEMMA ReturnedType == ASSUME NEW ok \in BOOLEAN PROVE Returned(ok) \in Call
  BY DEF Returned, Call, Ops, Phase, Row, NoRow

\* A call that is entered with a copy of the row is a call.
LEMMA EnteredType ==
  ASSUME row \in Row, NEW op \in Ops, NEW phase \in Phase,
         NEW from \in Step \cup {0}, NEW fresh \in SUBSET Step
  PROVE  Entered(op, phase, from, fresh) \in Call
  BY DEF Entered, Call

\* What UpdateMission writes is a row, whatever the call read.
LEMMA WrittenType == ASSUME NEW k \in Call PROVE Written(k) \in Row
<1>1. CASE k.op \in Transitions
  <2>1. Dest[k.op] \in State
    BY <1>1 DEF Transitions, Dest, State
  <2>2. QED
    BY <1>1, <2>1 DEF Written, Call, Row
<1>2. CASE k.op \notin Transitions
  BY <1>2 DEF Written, Call, Row, State
<1>3. QED
  BY <1>1, <1>2

\* Ids that are allocated within the bound are ids of steps.
LEMMA NextIdsType ==
  ASSUME TypeOK, NEW n \in Nat, ids + n <= MaxStep
  PROVE  NextIds(n) \in SUBSET Step /\ ids + n \in 0 .. MaxStep
  BY MaxStepAssumption DEF TypeOK, NextIds, Step

-----------------------------------------------------------------------------
\* An empty store is well typed.
LEMMA InitTypeOK == Init => TypeOK
<1>1. Returned(FALSE) \in Call
  BY ReturnedType
<1>2. NoRow \in Row
  BY DEF NoRow, Row
<1>3. QED
  <2>1. ASSUME Init PROVE steps \in [Step -> State \cup {"absent"}]
    BY <2>1 DEF Init
  <2>2. ASSUME Init PROVE call \in [Callers -> Call]
    BY <2>2, <1>1 DEF Init
  <2>3. ASSUME Init PROVE row \in Row /\ ids \in 0 .. MaxStep
    BY <2>3, <1>2, MaxStepAssumption DEF Init
  <2>4. QED
    BY <2>1, <2>2, <2>3 DEF TypeOK

\* No statement leaves the types.
LEMMA NextTypeOK == TypeOK /\ [Next]_mgrVars => TypeOK'
<1> SUFFICES ASSUME TypeOK, [Next]_mgrVars PROVE TypeOK'
  OBVIOUS
<1> USE DEF TypeOK
<1>1. ASSUME NEW c \in Callers, Create(c) PROVE TypeOK'
  <2>1. row' \in Row
    BY <1>1 DEF Create, NoRow, Row, State
  <2>2. Entered("Create", "log", 0, {}) \in Call
    BY EnteredType DEF Ops, Phase
  <2>3. QED
    BY <1>1, <2>1, <2>2 DEF Create
<1>2. ASSUME NEW c \in Callers, NEW op \in Transitions, Transition(c, op)
      PROVE TypeOK'
  <2>1. Entered(op, "write", 0, {}) \in Call /\ Returned(FALSE) \in Call
    BY EnteredType, ReturnedType DEF Ops, Phase
  <2>2. QED
    BY <1>2, <2>1 DEF Transition
<1>3. ASSUME NEW c \in Callers, NEW n \in 0 .. MaxStep, SetPlan(c, n)
      PROVE TypeOK'
  <2>1. n \in Nat /\ ids + n <= MaxStep
    BY <1>3, MaxStepAssumption DEF SetPlan
  <2>2. NextIds(n) \in SUBSET Step /\ ids + n \in 0 .. MaxStep
    BY <2>1, NextIdsType
  <2>3. Entered("SetPlan", "write", 0, NextIds(n)) \in Call /\ Returned(FALSE) \in Call
    BY <2>2, EnteredType, ReturnedType DEF Ops, Phase
  <2>4. QED
    BY <1>3, <2>2, <2>3 DEF SetPlan
<1>4. ASSUME NEW c \in Callers, NEW from \in Step, NEW n \in 1 .. MaxStep,
             Replan(c, from, n)
      PROVE TypeOK'
  <2>1. n \in Nat /\ ids + n <= MaxStep
    BY <1>4, MaxStepAssumption DEF Replan
  <2>2. NextIds(n) \in SUBSET Step /\ ids + n \in 0 .. MaxStep
    BY <2>1, NextIdsType
  <2>3. Entered("Replan", "list", from, NextIds(n)) \in Call /\ Returned(FALSE) \in Call
    BY <2>2, EnteredType, ReturnedType DEF Ops, Phase
  <2>4. QED
    BY <1>4, <2>2, <2>3 DEF Replan
<1>5. ASSUME NEW c \in Callers, ListSteps(c) PROVE TypeOK'
  <2> DEFINE k == [call[c] EXCEPT
                     !.phase = "rows",
                     !.batch = { s \in Step : steps[s] = "created" } \ {call[c].from}]
  <2>1. k \in Call
    BY DEF Call, Phase
  <2>2. Returned(FALSE) \in Call
    BY ReturnedType
  <2>3. call' = [call EXCEPT ![c] = k] \/ call' = [call EXCEPT ![c] = Returned(FALSE)]
    BY <1>5 DEF ListSteps
  <2>4. call' \in [Callers -> Call]
    <3> HIDE DEF k
    <3>1. QED
      BY <2>1, <2>2, <2>3
  <2>5. QED
    BY <1>5, <2>4 DEF ListSteps
<1>6. ASSUME NEW c \in Callers, NEW s \in Step, Supersede(c, s) PROVE TypeOK'
  BY <1>6 DEF Supersede, Call, State
<1>7. ASSUME NEW c \in Callers, NEW s \in Step, AddStep(c, s) PROVE TypeOK'
  BY <1>7 DEF AddStep, State
<1>8. ASSUME NEW c \in Callers, Reread(c) PROVE TypeOK'
  <2> DEFINE k == [call[c] EXCEPT !.phase = "write", !.batch = Present]
  <2>1. k \in Call
    BY DEF Call, Phase, Present
  <2>2. call' = [call EXCEPT ![c] = k]
    BY <1>8 DEF Reread
  <2>3. call' \in [Callers -> Call]
    <3> HIDE DEF k
    <3>1. QED
      BY <2>1, <2>2
  <2>4. QED
    BY <1>8, <2>3 DEF Reread
<1>9. ASSUME NEW c \in Callers, UpdateMission(c) PROVE TypeOK'
  <2>1. Written(call[c]) \in Row
    BY WrittenType
  <2>2. QED
    BY <1>9, <2>1 DEF UpdateMission, Call, Phase
<1>10. ASSUME NEW c \in Callers, AppendEvent(c) PROVE TypeOK'
  BY <1>10, ReturnedType DEF AppendEvent
<1>11. ASSUME NEW c \in Callers, Abort(c) PROVE TypeOK'
  BY <1>11, ReturnedType DEF Abort
<1>12. CASE UNCHANGED mgrVars
  BY <1>12 DEF mgrVars
<1>13. QED
  BY <1>1, <1>2, <1>3, <1>4, <1>5, <1>6, <1>7, <1>8, <1>9, <1>10, <1>11, <1>12
     DEF Next, CallerNext, Proceed

\* Type correctness, for any callers and any number of steps.
THEOREM TypeCorrect == Spec => []TypeOK
  BY InitTypeOK, NextTypeOK, PTL DEF Spec

-----------------------------------------------------------------------------
(***************************************************************************)
(* The invariant behind the safety properties: what a caller that will     *)
(* still write knows of the copy it read.  Nothing is known of the row     *)
(* itself, which may have changed since; that is exactly why a write can   *)
(* undo another one, and why it can never write an inconsistent row.       *)
(***************************************************************************)
ReadChecked(k) ==
  /\ k.op \in Transitions =>
       /\ k.read.state \in State \ Terminal
       /\ CanTransition(k.read.state, Dest[k.op])
  /\ k.op = "SetPlan" => k.read.state \in State /\ CanTransition(k.read.state, "planned")
  /\ k.op = "Replan" => k.read.state = "running"
  /\ k.op # "Create"
  /\ k.read.completed <=> k.read.state \in Terminal

IInv ==
  /\ TypeOK
  /\ CompletedAtIffTerminal
  /\ \A c \in Callers : WillWrite(c) => ReadChecked(call[c])

\* A checked copy is written back as a consistent row, one legal move away
\* from the row that was read.
LEMMA WrittenIsLegal ==
  ASSUME NEW k \in Call, ReadChecked(k)
  PROVE  /\ Written(k).completed <=> Written(k).state \in Terminal
         /\ Written(k).state \in State
         /\ CanTransition(k.read.state, Written(k).state)
         /\ k.read.state \in Terminal => Written(k).state = k.read.state
<1> USE DEF Call, Row, ReadChecked
<1>1. CASE k.op \in Transitions
  <2>1. Dest[k.op] \in State
    BY <1>1 DEF Transitions, Dest, State
  <2>2. /\ Written(k).state = Dest[k.op]
        /\ Written(k).completed <=> k.read.completed \/ Dest[k.op] \in Terminal
    BY <1>1 DEF Written
  <2>3. QED
    BY <1>1, <2>1, <2>2
<1>2. CASE k.op = "SetPlan"
  <2>1. /\ Written(k).state = "planned"
        /\ Written(k).completed = k.read.completed
    BY <1>2 DEF Written, Transitions
  <2>2. k.read.state \notin Terminal
    BY <1>2 DEF CanTransition, Edges, Terminal, State
  <2>3. QED
    BY <1>2, <2>1, <2>2 DEF Terminal, State
<1>3. CASE k.op = "Replan"
  <2>1. /\ Written(k).state = k.read.state
        /\ Written(k).completed = k.read.completed
    BY <1>3 DEF Written, Transitions
  <2>2. QED
    BY <1>3, <2>1 DEF CanTransition, State
<1>4. QED
  BY <1>1, <1>2, <1>3 DEF Ops

\* Nobody is in a call at first.
LEMMA InitIInv == Init => IInv
<1> SUFFICES ASSUME Init PROVE IInv
  OBVIOUS
<1>1. TypeOK
  BY InitTypeOK
<1>2. CompletedAtIffTerminal
  BY DEF Init, NoRow, CompletedAtIffTerminal, Terminal
<1>3. ASSUME NEW c \in Callers PROVE ~WillWrite(c)
  BY DEF Init, Returned, WillWrite, Writing
<1>4. QED
  BY <1>1, <1>2, <1>3 DEF IInv

\* A statement that writes no row and leaves the caller's copy alone, or ends
\* the call, keeps the invariant.
LEMMA CopyKept ==
  ASSUME IInv, TypeOK', UNCHANGED row, NEW c \in Callers, NEW k \in Call,
         call' = [call EXCEPT ![c] = k],
         \/ k.phase \in {"idle", "log"}
         \/ (k.op = "SetPlan" /\ k.phase = "rows")
         \/ (WillWrite(c) /\ k.op = call[c].op /\ k.read = call[c].read)
         \/ ReadChecked(k)
  PROVE  IInv'
<1>1. CompletedAtIffTerminal'
  BY DEF IInv, CompletedAtIffTerminal
<1>2. ASSUME NEW d \in Callers, WillWrite(d)' PROVE ReadChecked(call[d])'
  <2>1. CASE d = c
    <3>1. call'[d] = k
      BY <2>1 DEF IInv, TypeOK
    <3>2. k.phase \notin {"idle", "log"} /\ ~(k.op = "SetPlan" /\ k.phase = "rows")
      BY <1>2, <3>1 DEF WillWrite, Writing
    <3>3. ReadChecked(k)
      BY <3>2 DEF IInv, ReadChecked
    <3>4. QED
      BY <3>1, <3>3 DEF ReadChecked
  <2>2. CASE d # c
    <3>1. call'[d] = call[d]
      BY <2>2 DEF IInv, TypeOK
    <3>2. WillWrite(d)
      BY <1>2, <3>1 DEF WillWrite, Writing
    <3>3. QED
      BY <3>1, <3>2 DEF IInv, ReadChecked
  <2>3. QED
    BY <2>1, <2>2
<1>3. QED
  BY <1>1, <1>2 DEF IInv

\* A call that ends without a write takes nothing from the others.
LEMMA CallEnds ==
  ASSUME IInv, TypeOK', UNCHANGED row, NEW c \in Callers, NEW ok \in BOOLEAN,
         call' = [call EXCEPT ![c] = Returned(ok)]
  PROVE  IInv'
<1> DEFINE k == Returned(ok)
<1>1. k \in Call /\ k.phase \in {"idle", "log"}
  BY ReturnedType DEF Returned
<1>2. call' = [call EXCEPT ![c] = k]
  OBVIOUS
<1> HIDE DEF k
<1>3. QED
  BY <1>1, <1>2, CopyKept

\* A call enters with a checked copy, and a write of one leaves the row consistent.
LEMMA NextIInv == IInv /\ [Next]_mgrVars => IInv'
<1> SUFFICES ASSUME IInv, [Next]_mgrVars PROVE IInv'
  OBVIOUS
<1>0. TypeOK /\ TypeOK' /\ CompletedAtIffTerminal
  BY NextTypeOK DEF IInv
<1>1. ASSUME NEW c \in Callers, Create(c) PROVE IInv'
  <2>1. CompletedAtIffTerminal'
    BY <1>1, <1>0 DEF Create, NoRow, CompletedAtIffTerminal, Terminal
  <2>2. ASSUME NEW d \in Callers, WillWrite(d)' PROVE ReadChecked(call[d])'
    <3>1. d # c
      BY <1>0, <1>1, <2>2 DEF Create, Entered, WillWrite, Writing, TypeOK
    <3>2. call'[d] = call[d]
      BY <1>0, <1>1, <3>1 DEF Create, TypeOK
    <3>3. QED
      BY <2>2, <3>2 DEF IInv, WillWrite, Writing, ReadChecked
  <2>3. QED
    BY <1>0, <2>1, <2>2 DEF IInv
<1>2. ASSUME NEW c \in Callers, NEW op \in Transitions, Transition(c, op) PROVE IInv'
  <2>1. CASE Refuses(op)
    BY <1>0, <1>2, <2>1, CallEnds DEF Transition
  <2>2. CASE ~Refuses(op)
    <3> DEFINE k == Entered(op, "write", 0, {})
    <3>1. k \in Call
      BY <1>0, EnteredType DEF TypeOK, Ops, Phase
    <3>2. k.op = op /\ k.read = row
      BY DEF Entered
    <3>3. ReadChecked(k)
      BY <1>0, <2>2, <3>2
         DEF ReadChecked, Refuses, Transitions, CompletedAtIffTerminal, TypeOK, Row
    <3>4. QED
      BY <1>0, <1>2, <2>2, <3>1, <3>3, CopyKept DEF Transition
  <2>3. QED
    BY <2>1, <2>2
<1>3. ASSUME NEW c \in Callers, NEW n \in 0 .. MaxStep, SetPlan(c, n) PROVE IInv'
  <2>1. CASE row.state # "none" /\ CanTransition(row.state, "planned")
    <3> DEFINE k == Entered("SetPlan", "write", 0, NextIds(n))
    <3>1. n \in Nat /\ ids + n <= MaxStep
      BY <1>3, MaxStepAssumption DEF SetPlan
    <3>2. NextIds(n) \in SUBSET Step
      BY <1>0, <3>1, NextIdsType
    <3>3. k \in Call
      BY <1>0, <3>2, EnteredType DEF TypeOK, Ops, Phase
    <3>4. k.op = "SetPlan" /\ k.read = row
      BY DEF Entered
    <3>5. ReadChecked(k)
      BY <1>0, <2>1, <3>4
         DEF ReadChecked, Transitions, CompletedAtIffTerminal, TypeOK, Row
    <3>6. QED
      BY <1>0, <1>3, <2>1, <3>3, <3>5, CopyKept DEF SetPlan
  <2>2. CASE ~(row.state # "none" /\ CanTransition(row.state, "planned"))
    BY <1>0, <1>3, <2>2, CallEnds DEF SetPlan
  <2>3. QED
    BY <2>1, <2>2
<1>4. ASSUME NEW c \in Callers, NEW from \in Step, NEW n \in 1 .. MaxStep,
             Replan(c, from, n)
      PROVE  IInv'
  <2>1. CASE row.state = "running"
    <3> DEFINE k == Entered("Replan", "list", from, NextIds(n))
    <3>1. n \in Nat /\ ids + n <= MaxStep
      BY <1>4, MaxStepAssumption DEF Replan
    <3>2. NextIds(n) \in SUBSET Step
      BY <1>0, <3>1, NextIdsType
    <3>3. k \in Call
      BY <1>0, <3>2, EnteredType DEF TypeOK, Ops, Phase
    <3>4. k.op = "Replan" /\ k.read = row
      BY DEF Entered
    <3>5. ReadChecked(k)
      BY <1>0, <2>1, <3>4 DEF ReadChecked, Transitions, CompletedAtIffTerminal
    <3>6. QED
      BY <1>0, <1>4, <2>1, <3>3, <3>5, CopyKept DEF Replan
  <2>2. CASE row.state # "running"
    BY <1>0, <1>4, <2>2, CallEnds DEF Replan
  <2>3. QED
    BY <2>1, <2>2
<1>5. ASSUME NEW c \in Callers, ListSteps(c) PROVE IInv'
  <2> DEFINE k == [call[c] EXCEPT
                     !.phase = "rows",
                     !.batch = { s \in Step : steps[s] = "created" } \ {call[c].from}]
  <2>1. k \in Call /\ k.op = call[c].op /\ k.read = call[c].read
    BY <1>0 DEF TypeOK, Call, Phase
  <2>2. WillWrite(c)
    BY <1>5 DEF ListSteps, WillWrite, Writing
  <2>3. CASE call' = [call EXCEPT ![c] = k]
    <3> HIDE DEF k
    <3>1. QED
      BY <1>0, <1>5, <2>1, <2>2, <2>3, CopyKept DEF ListSteps
  <2>4. CASE call' = [call EXCEPT ![c] = Returned(FALSE)]
    BY <1>0, <1>5, <2>4, CallEnds DEF ListSteps
  <2>5. QED
    BY <1>5, <2>3, <2>4 DEF ListSteps
<1>6. ASSUME NEW c \in Callers, NEW s \in Step, Supersede(c, s) PROVE IInv'
  <2> DEFINE k == [call[c] EXCEPT !.batch = @ \ {s}]
  <2>1. /\ k \in Call /\ k.op = call[c].op /\ k.read = call[c].read
        /\ k.phase = "rows"
    BY <1>0, <1>6 DEF TypeOK, Call, Supersede
  <2>2. WillWrite(c) \/ k.op = "SetPlan"
    BY <1>6, <2>1 DEF Supersede, WillWrite, Writing
  <2>3. call' = [call EXCEPT ![c] = k] /\ UNCHANGED row
    BY <1>6 DEF Supersede
  <2>4. QED
    <3> HIDE DEF k
    <3>1. QED
      BY <1>0, <2>1, <2>2, <2>3, CopyKept
<1>7. ASSUME NEW c \in Callers, NEW s \in Step, AddStep(c, s) PROVE IInv'
  BY <1>0, <1>7
     DEF AddStep, IInv, CompletedAtIffTerminal, WillWrite, Writing, ReadChecked
<1>8. ASSUME NEW c \in Callers, Reread(c) PROVE IInv'
  <2> DEFINE k == [call[c] EXCEPT !.phase = "write", !.batch = Present]
  <2>1. k \in Call /\ k.op = call[c].op /\ k.read = call[c].read
    BY <1>0 DEF TypeOK, Call, Phase, Present
  <2>2. WillWrite(c)
    BY <1>8 DEF Reread, RowsDone, WillWrite, Writing
  <2>3. call' = [call EXCEPT ![c] = k] /\ UNCHANGED row
    BY <1>8 DEF Reread
  <2>4. QED
    <3> HIDE DEF k
    <3>1. QED
      BY <1>0, <2>1, <2>2, <2>3, CopyKept
<1>9. ASSUME NEW c \in Callers, UpdateMission(c) PROVE IInv'
  <2>1. ReadChecked(call[c]) /\ call[c] \in Call
    BY <1>0, <1>9 DEF UpdateMission, IInv, WillWrite, Writing, TypeOK
  <2>2. row'.completed <=> row'.state \in Terminal
    BY <1>9, <2>1, WrittenIsLegal DEF UpdateMission
  <2>3. ASSUME NEW d \in Callers, WillWrite(d)' PROVE ReadChecked(call[d])'
    <3>1. CASE d = c
      <4>1. call'[c].phase = IF call[c].op = "SetPlan" THEN "rows" ELSE "log"
        BY <1>0, <1>9 DEF UpdateMission, TypeOK, Call
      <4>2. call'[c].op = call[c].op
        BY <1>0, <1>9 DEF UpdateMission, TypeOK, Call
      <4>3. QED
        BY <2>3, <3>1, <4>1, <4>2 DEF WillWrite, Writing
    <3>2. CASE d # c
      <4>1. call'[d] = call[d]
        BY <1>0, <1>9, <3>2 DEF UpdateMission, TypeOK
      <4>2. QED
        BY <2>3, <4>1 DEF IInv, WillWrite, Writing, ReadChecked
    <3>3. QED
      BY <3>1, <3>2
  <2>4. QED
    BY <1>0, <2>2, <2>3 DEF IInv, CompletedAtIffTerminal
<1>10. ASSUME NEW c \in Callers, AppendEvent(c) PROVE IInv'
  BY <1>0, <1>10, CallEnds DEF AppendEvent
<1>11. ASSUME NEW c \in Callers, Abort(c) PROVE IInv'
  BY <1>0, <1>11, CallEnds DEF Abort
<1>12. CASE UNCHANGED mgrVars
  BY <1>0, <1>12 DEF mgrVars, IInv, CompletedAtIffTerminal, WillWrite, Writing, ReadChecked
<1>13. QED
  BY <1>1, <1>2, <1>3, <1>4, <1>5, <1>6, <1>7, <1>8, <1>9, <1>10, <1>11, <1>12
     DEF Next, CallerNext, Proceed

\* The strengthening is an invariant: a caller that will still write holds a
\* copy whose move the matrix allowed and whose two columns agree.
THEOREM IInvCorrect == Spec => []IInv
  BY InitIInv, NextIInv, PTL DEF Spec

\* completed_at and a terminal state come and go together, whoever overwrites
\* whose row (Manager.transition, setPlan and Replan, all over UpdateMission).
THEOREM CompletedAtCorrect == Spec => []CompletedAtIffTerminal
<1>1. IInv => CompletedAtIffTerminal
  BY DEF IInv
<1>2. QED
  BY <1>1, IInvCorrect, PTL

-----------------------------------------------------------------------------
\* Only UpdateMission and Create change the row.
LEMMA RowWriters ==
  ASSUME [Next]_mgrVars, row' # row
  PROVE  \E c \in Callers : \/ row.state = "none" /\ Create(c)
                           \/ UpdateMission(c)
<1>1. CASE UNCHANGED mgrVars
  BY <1>1 DEF mgrVars
<1>2. ASSUME NEW c \in Callers, CallerNext(c)
      PROVE  (row.state = "none" /\ Create(c)) \/ UpdateMission(c)
  BY <1>2 DEF CallerNext, Proceed, Create, Transition, SetPlan, Replan, ListSteps,
              Supersede, AddStep, Reread, AppendEvent, Abort
<1>3. QED
  BY <1>1, <1>2 DEF Next

\* Only a write can leave the matrix, and only one of a copy that is no longer the row.
LEMMA IllegalMove ==
  ASSUME IInv, [Next]_mgrVars, row.state \in State,
         ~CanTransition(row.state, row'.state)
  PROVE  \E c \in Callers : /\ call[c].phase = "write"
                            /\ row' = Written(call[c])
                            /\ call[c].read # row
<1>1. row' # row
  BY DEF CanTransition
<1>2. row.state # "none"
  BY DEF State
<1>3. PICK c \in Callers : UpdateMission(c)
  BY <1>1, <1>2, RowWriters
<1>4. call[c] \in Call /\ ReadChecked(call[c])
  BY <1>3 DEF IInv, TypeOK, UpdateMission, WillWrite, Writing
<1>5. CanTransition(call[c].read.state, Written(call[c]).state)
  BY <1>4, WrittenIsLegal
<1>6. call[c].phase = "write" /\ row' = Written(call[c])
  BY <1>3 DEF UpdateMission
<1>7. QED
  BY <1>5, <1>6

\* Whatever the callers do, a move the matrix forbids is always the overwrite
\* of a row that changed after it was read; never a move that was not checked.
THEOREM LostUpdate == Spec => IllegalMoveIsLostUpdate
<1>1. IInv /\ [Next]_mgrVars =>
        [ (row.state \in State /\ ~CanTransition(row.state, row'.state)) =>
            \E c \in Callers : /\ call[c].phase = "write"
                               /\ row' = Written(call[c])
                               /\ call[c].read # row ]_mgrVars
  BY IllegalMove
<1>2. QED
  BY <1>1, IInvCorrect, PTL DEF Spec, IllegalMoveIsLostUpdate

-----------------------------------------------------------------------------
\* On a terminal mission every new call is refused, so no caller starts to write.
LEMMA QuietStep ==
  ASSUME IInv, [Next]_mgrVars, QuietTerminal
  PROVE  QuietTerminal' /\ row' = row
<1>0. TypeOK /\ row.state \in Terminal /\ row.state # "none"
  BY DEF IInv, QuietTerminal, Terminal
<1>1. row' = row
  BY <1>0, RowWriters DEF UpdateMission, QuietTerminal, WillWrite, Writing
<1>2. ASSUME NEW c \in Callers, NEW d \in Callers, CallerNext(c)
      PROVE  ~WillWrite(d)'
  <2>0. ~WillWrite(c) /\ ~WillWrite(d)
    BY DEF QuietTerminal
  <2>1. CASE d # c
    <3>1. call'[d] = call[d]
      BY <1>0, <1>2, <2>1
         DEF CallerNext, Proceed, Create, Transition, SetPlan, Replan, ListSteps,
             Supersede, AddStep, Reread, UpdateMission, AppendEvent, Abort, TypeOK
    <3>2. QED
      BY <2>0, <3>1 DEF WillWrite, Writing
  <2>2. CASE d = c
    <3>1. CASE call' = [call EXCEPT ![c] = Returned(FALSE)]
               \/ call' = [call EXCEPT ![c] = Returned(TRUE)]
      BY <1>0, <2>2, <3>1 DEF Returned, WillWrite, Writing, TypeOK
    <3>2. ASSUME NEW op \in Transitions, Transition(c, op)
          PROVE  call' = [call EXCEPT ![c] = Returned(FALSE)]
      BY <1>0, <3>2 DEF Transition, Refuses
    <3>3. ASSUME NEW n \in 0 .. MaxStep, SetPlan(c, n)
          PROVE  call' = [call EXCEPT ![c] = Returned(FALSE)]
      <4>1. ~CanTransition(row.state, "planned")
        BY <1>0 DEF CanTransition, Edges, Terminal
      <4>2. QED
        BY <3>3, <4>1 DEF SetPlan
    <3>4. ASSUME NEW from \in Step, NEW n \in 1 .. MaxStep, Replan(c, from, n)
          PROVE  call' = [call EXCEPT ![c] = Returned(FALSE)]
      BY <1>0, <3>4 DEF Replan, Terminal
    <3>5. ~Create(c) /\ ~ListSteps(c) /\ ~Reread(c) /\ ~UpdateMission(c)
      BY <1>0, <2>0 DEF Create, ListSteps, Reread, RowsDone, UpdateMission, WillWrite, Writing
    <3>6. ASSUME NEW s \in Step, Supersede(c, s) \/ AddStep(c, s)
          PROVE  ~WillWrite(d)'
      <4>1. call'[c].phase = call[c].phase /\ call'[c].op = call[c].op
        BY <1>0, <3>6 DEF Supersede, AddStep, TypeOK, Call
      <4>2. QED
        BY <2>0, <2>2, <4>1 DEF WillWrite, Writing
    <3>7. AppendEvent(c) => call' = [call EXCEPT ![c] = Returned(TRUE)]
      BY DEF AppendEvent
    <3>8. Abort(c) => call' = [call EXCEPT ![c] = Returned(FALSE)]
      BY DEF Abort
    <3>9. QED
      BY <1>2, <3>1, <3>2, <3>3, <3>4, <3>5, <3>6, <3>7, <3>8 DEF CallerNext, Proceed
  <2>3. QED
    BY <2>1, <2>2
<1>3. ASSUME UNCHANGED mgrVars, NEW d \in Callers PROVE ~WillWrite(d)'
  BY <1>3 DEF mgrVars, QuietTerminal, WillWrite, Writing
<1>4. QED
  BY <1>0, <1>1, <1>2, <1>3 DEF QuietTerminal, Next

\* A terminal mission nobody is still writing to stays as it is for ever.
THEOREM QuietFinal == Spec => QuietTerminalIsFinal
<1>1. IInv /\ [Next]_mgrVars => [QuietTerminal => QuietTerminal' /\ row' = row]_mgrVars
  BY QuietStep
<1>2. QED
  BY <1>1, IInvCorrect, PTL DEF Spec, QuietTerminalIsFinal

-----------------------------------------------------------------------------
(***************************************************************************)
(* With a single caller nothing can come between a read and its write.     *)
(***************************************************************************)
CopyCurrent == \A c \in Callers : WillWrite(c) => call[c].read = row

\* Nobody is to write at first.
LEMMA InitCopyCurrent == Init => CopyCurrent
  BY DEF Init, Returned, CopyCurrent, WillWrite, Writing

\* With a single caller nothing is written between its read and its write.
LEMMA NextCopyCurrent ==
  ASSUME \A c, d \in Callers : c = d, TypeOK, CopyCurrent, [Next]_mgrVars
  PROVE  CopyCurrent'
<1> USE DEF CopyCurrent, WillWrite, Writing, TypeOK
<1>1. ASSUME NEW c \in Callers, CallerNext(c), WillWrite(c)'
      PROVE  call'[c].read = row'
  <2>1. ~Create(c)
    BY <1>1 DEF Create, Entered
  <2>2. ASSUME NEW op \in Transitions, Transition(c, op) PROVE call'[c].read = row'
    BY <1>1, <2>2 DEF Transition, Entered, Returned
  <2>3. ASSUME NEW n \in 0 .. MaxStep, SetPlan(c, n) PROVE call'[c].read = row'
    BY <1>1, <2>3 DEF SetPlan, Entered, Returned
  <2>4. ASSUME NEW from \in Step, NEW n \in 1 .. MaxStep, Replan(c, from, n)
        PROVE  call'[c].read = row'
    BY <1>1, <2>4 DEF Replan, Entered, Returned
  <2>5. ASSUME ListSteps(c) PROVE call'[c].read = row'
    <3> DEFINE k == [call[c] EXCEPT
                       !.phase = "rows",
                       !.batch = { s \in Step : steps[s] = "created" } \ {call[c].from}]
    <3>1. k.read = call[c].read
      BY DEF Call
    <3>2. WillWrite(c)
      BY <2>5 DEF ListSteps
    <3>3. call'[c] = k
      BY <1>1, <2>5 DEF ListSteps, Returned
    <3>4. row' = row
      BY <2>5 DEF ListSteps
    <3>5. QED
      BY <3>1, <3>2, <3>3, <3>4
  <2>6. ASSUME NEW s \in Step, Supersede(c, s) PROVE call'[c].read = row'
    BY <1>1, <2>6 DEF Supersede, Call
  <2>7. ASSUME NEW s \in Step, AddStep(c, s) PROVE call'[c].read = row'
    BY <1>1, <2>7 DEF AddStep
  <2>8. ASSUME Reread(c) PROVE call'[c].read = row'
    <3> DEFINE k == [call[c] EXCEPT !.phase = "write", !.batch = Present]
    <3>1. k.read = call[c].read
      BY DEF Call
    <3>2. WillWrite(c)
      BY <2>8 DEF Reread, RowsDone
    <3>3. call'[c] = k /\ row' = row
      BY <2>8 DEF Reread
    <3>4. QED
      BY <3>1, <3>2, <3>3
  <2>9. ~UpdateMission(c)
    BY <1>1 DEF UpdateMission, Call
  <2>10. ~AppendEvent(c) /\ ~Abort(c)
    BY <1>1 DEF AppendEvent, Abort, Returned
  <2>11. QED
    BY <1>1, <2>1, <2>2, <2>3, <2>4, <2>5, <2>6, <2>7, <2>8, <2>9, <2>10
       DEF CallerNext, Proceed
<1>2. CASE UNCHANGED mgrVars
  BY <1>2 DEF mgrVars
<1>3. QED
  BY <1>1, <1>2 DEF Next

\* Used by one caller at a time, the manager implements the promised life
\* cycle: its row moves along the transition matrix and terminal is final.
THEOREM SerialImplements ==
  ASSUME \A c, d \in Callers : c = d
  PROVE  Spec => LifecycleSpec
<1>1. Init => Lifecycle!Init
  BY DEF Init, NoRow, Lifecycle!Init, Lifecycle!NoMission
<1>2. ASSUME IInv, CopyCurrent, [Next]_mgrVars PROVE [Lifecycle!Next]_(row.state)
  <2>1. CASE row' = row
    BY <2>1
  <2>2. CASE row' # row
    <3>1. PICK c \in Callers : \/ row.state = "none" /\ Create(c)
                              \/ UpdateMission(c)
      BY <1>2, <2>2, RowWriters
    <3>2. CASE row.state = "none" /\ Create(c)
      <4>1. row'.state = "created"
        BY <3>2 DEF Create, NoRow
      <4>2. QED
        BY <3>2, <4>1 DEF Lifecycle!Next, Lifecycle!Create, Lifecycle!NoMission
    <3>3. CASE UpdateMission(c)
      <4>1. call[c] \in Call /\ ReadChecked(call[c]) /\ call[c].read = row
        BY <1>2, <3>3 DEF IInv, TypeOK, UpdateMission, WillWrite, Writing, CopyCurrent
      <4>2. row'.state \in State /\ CanTransition(row.state, row'.state)
        BY <3>3, <4>1, WrittenIsLegal DEF UpdateMission
      <4>3. row.state \in State
        BY <4>1 DEF ReadChecked, Ops, Call, State
      <4>4. QED
        BY <4>2, <4>3 DEF Lifecycle!Next, Lifecycle!Move, Lifecycle!CanTransition,
                          Lifecycle!State, Lifecycle!Edges, CanTransition, State, Edges
    <3>4. QED
      BY <3>1, <3>2, <3>3
  <2>3. QED
    BY <2>1, <2>2
<1>3. IInv => TypeOK
  BY DEF IInv
<1>4. TypeOK /\ CopyCurrent /\ [Next]_mgrVars => CopyCurrent'
  BY NextCopyCurrent
<1>5. Spec => []CopyCurrent
  BY <1>3, <1>4, InitCopyCurrent, IInvCorrect, PTL DEF Spec
<1>6. QED
  BY <1>1, <1>2, <1>5, IInvCorrect, PTL DEF Spec, LifecycleSpec, Lifecycle!Spec

-----------------------------------------------------------------------------
(***************************************************************************)
(* The run of a supervisor, in either dispatch mode, among its manager's   *)
(* other callers.                                                          *)
(***************************************************************************)

\* A set of numbers has a least one: {0 .. m : m \in S} has a minimal element
\* under strict inclusion.
LEMMA LeastNat ==
  ASSUME NEW S \in SUBSET Nat, S # {}
  PROVE  \E m \in S : \A t \in S : m <= t
<1> DEFINE T == { 0 .. m : m \in S }
           R == StrictSubsetOrdering(Nat)
<1>1. IsWellFoundedOn(R, FiniteSubsetsOf(Nat))
  BY FS_StrictSubsetOrderingWellFounded
<1>2. ASSUME NEW m \in S PROVE 0 .. m \in FiniteSubsetsOf(Nat)
  BY FS_Interval DEF FiniteSubsetsOf
<1>3. T \subseteq FiniteSubsetsOf(Nat) /\ T # {}
  BY <1>2
<1>4. PICK x \in T : \A y \in T : <<y, x>> \notin R
  <2> HIDE DEF T, R
  <2> QED
    BY <1>1, <1>3, WFMin
<1>5. PICK m \in S : x = 0 .. m
  OBVIOUS
<1>6. ASSUME NEW t \in S, t < m PROVE FALSE
  <2>1. <<0 .. t, 0 .. m>> \in R
    BY <1>6 DEF StrictSubsetOrdering
  <2> QED
    BY <2>1, <1>4, <1>5
<1> QED
  BY <1>6

\* The step First chooses is the first one.
LEMMA FirstIsLeast ==
  ASSUME NEW S \in SUBSET Step, S # {}
  PROVE  First(S) \in S /\ \A t \in S : First(S) <= t
<1>1. S \in SUBSET Nat
  BY MaxStepAssumption DEF Step
<1>2. \E m \in S : \A t \in S : m <= t
  BY <1>1, LeastNat
<1> QED
  BY <1>2 DEF First

\* The types, and that a replan under way is one of those allowed.
RunTypes == RunTypeOK /\ (pc = "replan" => replans < MaxReplans)

\* Only the supervisor replans; users pause, resume and cancel.
CallsKnown ==
  \A c \in Callers :
    /\ call[c].phase \in {"list", "rows"} => c = Sup /\ call[c].op = "Replan"
    /\ c # Sup /\ call[c].phase # "idle" => call[c].op \in {"Pause", "Resume", "Cancel"}

\* The call a run waits for, by where it stands; elsewhere it is in none.
Awaited == [ start |-> "Start", replan |-> "Replan", pause |-> "Pause", fail |-> "Fail",
             complete |-> "Complete" ]
AwaitsCall ==
  call[Sup].phase # "idle" => pc \in DOMAIN Awaited /\ call[Sup].op = Awaited[pc]

\* The ids a replan allocated are behind all other steps, its new steps and
\* those it is about to supersede are untouched, and the two are different.
FreshAbove ==
  LET k == call[Sup] IN
  k.phase \in {"list", "rows"} =>
    /\ \A s \in k.fresh : /\ s <= ids /\ steps[s] \in {"absent", "created"}
                          /\ \A t \in Present \ k.fresh : t < s
    /\ k.phase = "list" => k.fresh \cap Present = {}
    /\ k.phase = "rows" => /\ k.batch \cap k.fresh = {}
                           /\ \A s \in k.batch : steps[s] = "created"
PresentKnown == \A s \in Present : s <= ids

\* A replan writes the row of a running mission back.
ReplanRead == call[Sup].phase # "idle" /\ call[Sup].op = "Replan" => call[Sup].read.state = "running"

Settled == \A s \in Present : steps[s] \in Terminal

\* A mission is completed only by a run that saw every step settled, and while
\* it is completed there is no run that could touch a step.
DoneRests == row.state = "completed" => pc \in {"complete", "drain", "off"}
SettledAtEnd == pc = "complete" \/ row.state = "completed" => Settled

RunInv == CallsKnown /\ AwaitsCall /\ FreshAbove /\ PresentKnown /\ ReplanRead
  /\ DoneRests /\ SettledAtEnd

-----------------------------------------------------------------------------
\* A mission is planned, its steps are untouched, and no run has begun.
LEMMA RunInitInv == PlannedInit => RunTypes /\ RunInv
<1> SUFFICES ASSUME PlannedInit PROVE RunTypes /\ RunInv
  OBVIOUS
<1> USE PlansAssumption, BoundsAssumption, MaxStepAssumption DEF PlannedInit, NoRun
<1>1. TypeOK
  <2>1. Returned(FALSE) \in Call
    BY ReturnedType
  <2>2. PICK n \in Plans : /\ row = [NoRow EXCEPT !.state = "planned", !.plan = 1 .. n]
                           /\ steps = [s \in Step |-> IF s <= n THEN "created" ELSE "absent"]
                           /\ ids = n
    OBVIOUS
  <2>3. n \in 0 .. MaxStep /\ 1 .. n \in SUBSET Step
    BY DEF Step
  <2>4. row \in Row
    BY <2>2, <2>3 DEF NoRow, Row, State
  <2>5. steps \in [Step -> State \cup {"absent"}]
    BY <2>2 DEF State
  <2> QED
    BY <2>1, <2>2, <2>3, <2>4, <2>5 DEF TypeOK
<1>2. RunTypeOK
  <2>1. mem \in [Step -> State \cup {"absent"}]
    BY DEF NoSteps
  <2> QED
    BY <1>1, <2>1 DEF RunTypeOK, PC
<1>3. \A c \in Callers : call[c].phase = "idle"
  BY DEF Returned
<1>4. row.state = "planned" /\ PresentKnown
  BY DEF NoRow, Step, Present, PresentKnown
<1> QED
  BY <1>2, <1>3, <1>4, SupAssumption
     DEF RunTypes, RunInv, CallsKnown, AwaitsCall, FreshAbove, ReplanRead, DoneRests, SettledAtEnd

\* What the manager's part of a step of the run may be.
LEMMA SetStepType ==
  ASSUME TypeOK, NEW s \in Step, NEW st \in State, SetStep(s, st), UNCHANGED call,
         mem \in [Step -> State \cup {"absent"}]
  PROVE  TypeOK' /\ mem' \in [Step -> State \cup {"absent"}]
  BY DEF SetStep, TypeOK

\* A statement of a manager call keeps the types.
LEMMA ManagerStepType ==
  ASSUME TypeOK, NEW c \in Callers, CallerNext(c)
  PROVE  TypeOK'
  BY NextTypeOK DEF Next

\* So does the call of a transition by a run or a user,
LEMMA CallsType ==
  ASSUME TypeOK, NEW op \in Transitions, NEW label, Calls(op, label)
  PROVE  TypeOK'
  BY ManagerStepType, SupAssumption DEF Calls, CallerNext

\* and that of a replan.
LEMMA ReplanType ==
  ASSUME TypeOK, NEW from \in Step \cup {0}, NEW n \in 1 .. MaxStep, Replan(Sup, from, n)
  PROVE  TypeOK'
<1>1. n \in Nat /\ ids + n <= MaxStep
  BY MaxStepAssumption DEF Replan
<1>2. NextIds(n) \in SUBSET Step /\ ids + n \in 0 .. MaxStep
  BY <1>1, NextIdsType
<1>3. Entered("Replan", "list", from, NextIds(n)) \in Call /\ Returned(FALSE) \in Call
  BY <1>2, EnteredType, ReturnedType DEF TypeOK, Ops, Phase
<1> QED
  BY <1>2, <1>3 DEF Replan, TypeOK

\* Every step the two modes share keeps the types.
LEMMA CommonTypes ==
  RunTypes /\ (CommonNext \/ Replanned \/ Drained \/ AroundNext \/ Interrupt) => RunTypes'
<1> SUFFICES ASSUME RunTypes, CommonNext \/ Replanned \/ Drained \/ AroundNext \/ Interrupt
             PROVE  RunTypes'
  OBVIOUS
<1> USE SupAssumption, BoundsAssumption DEF RunTypes, RunTypeOK
<1>0. ASSUME UNCHANGED mgrVars PROVE TypeOK'
  BY <1>0 DEF mgrVars, TypeOK
<1>1. CASE Spawn
  BY <1>1, <1>0 DEF Spawn, PC
<1>2. CASE Load
  BY <1>2, <1>0 DEF Load, PC, TypeOK
<1>3. CASE CallStart
  BY <1>3, CallsType DEF CallStart, Transitions, PC, Calls
<1>4. CASE Started
  BY <1>4, <1>0 DEF Started, PC
<1>5. ASSUME NEW n \in 1 .. MaxStep, TryReplan(n) PROVE RunTypes'
  <2>1. TypeOK'
    BY <1>5, ReplanType DEF TryReplan
  <2> QED
    BY <1>5, <2>1 DEF TryReplan, PC
<1>6. CASE FailMission
  BY <1>6, CallsType DEF FailMission, Transitions, PC, Calls
<1>7. CASE Return
  BY <1>7, <1>0 DEF Return, PC
<1>8. CASE SupStatement
  BY <1>8, ManagerStepType DEF SupStatement, CallerNext, runVars
<1>9. CASE Replanned
  <2>1. CASE Back(TRUE) /\ pc' = "pick" /\ mem' = steps /\ replans' = replans + 1 /\ UNCHANGED mgrVars
    BY <1>9, <2>1, <1>0 DEF Replanned, PC, TypeOK
  <2>2. CASE Calls("Fail", "fail") /\ UNCHANGED <<mem, replans>>
    BY <1>9, <2>2, CallsType DEF Replanned, PC, Calls, Transitions
  <2> QED
    BY <1>9, <2>1, <2>2 DEF Replanned
<1>10. CASE Drained
  BY <1>10, <1>0 DEF Drained, PC, NoSteps
<1>11. CASE WorkerNext
  BY <1>11, <1>0 DEF WorkerNext, WorkerDone, Result
<1>12. ASSUME NEW r \in results, LoseResult(r) PROVE RunTypes'
  BY <1>12, <1>0 DEF LoseResult
<1>13. CASE StatementFails
  BY <1>13, ManagerStepType DEF StatementFails, CallerNext
<1>14. ASSUME NEW c \in Users, UserNext(c) PROVE RunTypes'
  <2>1. CallerNext(c)
    BY <1>14 DEF UserNext, UserCall, UserStatement, CallerNext, Transitions
  <2>2. TypeOK'
    BY <2>1, ManagerStepType DEF Users
  <2> QED
    BY <1>14, <2>2 DEF UserNext, UserCall, UserStatement, runVars
<1>15. CASE Interrupt
  <2>1. TypeOK'
    BY <1>15, ReturnedType DEF Interrupt, TypeOK
  <2> QED
    BY <1>15, <2>1 DEF Interrupt, PC, NoSteps
<1> QED
  BY <1>1, <1>2, <1>3, <1>4, <1>5, <1>6, <1>7, <1>8, <1>9, <1>10, <1>11, <1>12, <1>13, <1>14, <1>15
     DEF CommonNext, AroundNext

-----------------------------------------------------------------------------
\* Nothing but the run's own state changes.
LEMMA QuietRunInv ==
  ASSUME RunInv, UNCHANGED mgrVars, pc' = pc \/ call[Sup].phase = "idle",
         pc' = "complete" => pc = "complete",
         row.state = "completed" => pc' \in {"complete", "drain", "off"}
  PROVE  RunInv'
<1> USE DEF RunInv, mgrVars
<1>1. CallsKnown' /\ FreshAbove' /\ PresentKnown' /\ ReplanRead' /\ SettledAtEnd'
  BY DEF CallsKnown, FreshAbove, PresentKnown, ReplanRead, SettledAtEnd, Settled, Present
<1>2. AwaitsCall' /\ DoneRests'
  BY DEF AwaitsCall, DoneRests
<1> QED
  BY <1>1, <1>2

\* The run calls a transition of the manager.
LEMMA CallsRunInv ==
  ASSUME RunTypes, RunInv, NEW op \in Transitions, NEW label \in DOMAIN Awaited,
         Awaited[label] = op, Calls(op, label), pc \notin {"complete", "drain", "off"},
         op = "Complete" => Settled
  PROVE  RunInv'
<1> DEFINE k == IF Refuses(op) THEN Returned(FALSE) ELSE Entered(op, "write", 0, {})
<1>1. call' = [call EXCEPT ![Sup] = k] /\ UNCHANGED <<row, steps, ids>> /\ pc' = label
  BY DEF Calls, Transition
<1>2. k.phase \in {"idle", "write"} /\ (k.phase # "idle" => k.op = op)
  BY DEF Returned, Entered
<1>3. call \in [Callers -> Call] /\ Sup \in Callers
  BY SupAssumption DEF RunTypes, RunTypeOK, TypeOK
<1> HIDE DEF k
<1>4. call'[Sup] = k /\ \A c \in Callers \ {Sup} : call'[c] = call[c]
  BY <1>1, <1>3
<1>5. CallsKnown' /\ AwaitsCall' /\ FreshAbove' /\ ReplanRead'
  BY <1>1, <1>2, <1>4 DEF RunInv, CallsKnown, AwaitsCall, FreshAbove, ReplanRead, Transitions
<1>6. PresentKnown' /\ DoneRests'
  BY <1>1 DEF RunInv, PresentKnown, Present, DoneRests
<1>7. SettledAtEnd'
  BY <1>1 DEF RunInv, SettledAtEnd, Settled, Present, DoneRests, Awaited
<1> QED
  BY <1>5, <1>6, <1>7 DEF RunInv

\* The run records the state of a step.
LEMMA SetStepRunInv ==
  ASSUME RunTypes, RunInv, NEW s \in Present, NEW st \in State, SetStep(s, st), UNCHANGED call,
         call[Sup].phase = "idle",
         pc \notin {"complete", "drain", "off"}, pc' \notin {"complete"}
  PROVE  RunInv'
<1>1. /\ s \in Step /\ steps' = [steps EXCEPT ![s] = st] /\ UNCHANGED <<row, ids, call>>
      /\ steps \in [Step -> State \cup {"absent"}]
  BY DEF SetStep, Present, RunTypes, RunTypeOK, TypeOK
<1>2. row.state # "completed"
  BY DEF RunInv, DoneRests
<1>3. Present' = Present
  BY <1>1 DEF Present, State
<1>4. CallsKnown' /\ AwaitsCall' /\ FreshAbove' /\ ReplanRead'
  BY <1>1 DEF RunInv, CallsKnown, AwaitsCall, FreshAbove, ReplanRead
<1>5. PresentKnown' /\ DoneRests' /\ SettledAtEnd'
  BY <1>1, <1>2, <1>3 DEF RunInv, PresentKnown, DoneRests, SettledAtEnd
<1> QED
  BY <1>4, <1>5 DEF RunInv

\* A manager call ends where it stands.
LEMMA EndsRunInv ==
  ASSUME RunTypes, RunInv, NEW c \in Callers, NEW ok \in BOOLEAN,
         call' = [call EXCEPT ![c] = Returned(ok)], UNCHANGED <<row, steps, ids>>,
         pc' \in {pc, "off"}, pc' = pc \/ c = Sup
  PROVE  RunInv'
<1> DEFINE k == Returned(ok)
<1>1. k.phase = "idle"
  BY DEF Returned
<1>2. call \in [Callers -> Call] /\ Sup \in Callers
  BY SupAssumption DEF RunTypes, RunTypeOK, TypeOK
<1>3. call' = [call EXCEPT ![c] = k]
  OBVIOUS
<1> HIDE DEF k
<1>4. call'[c] = k /\ \A d \in Callers \ {c} : call'[d] = call[d]
  BY <1>2, <1>3
<1>5. CallsKnown' /\ AwaitsCall' /\ ReplanRead'
  BY <1>1, <1>2, <1>4 DEF RunInv, CallsKnown, AwaitsCall, ReplanRead
<1>6. FreshAbove' /\ PresentKnown'
  BY <1>1, <1>2, <1>4 DEF RunInv, FreshAbove, PresentKnown, Present
<1>7. DoneRests' /\ SettledAtEnd'
  BY DEF RunInv, DoneRests, SettledAtEnd, Settled, Present
<1> QED
  BY <1>5, <1>6, <1>7 DEF RunInv

\* A statement of the manager call the run waits for.
LEMMA StatementRunInv ==
  ASSUME RunTypes, RunInv, Proceed(Sup), UNCHANGED pc
  PROVE  RunInv'
<1> DEFINE k == call[Sup]
<1>0. /\ call \in [Callers -> Call] /\ Sup \in Callers /\ k \in Call
      /\ steps \in [Step -> State \cup {"absent"}] /\ ids \in 0 .. MaxStep
  BY SupAssumption DEF RunTypes, RunTypeOK, TypeOK
<1>a. k.phase # "idle" => (row.state = "completed" => pc = "complete")
  BY DEF RunInv, AwaitsCall, DoneRests, Awaited
<1>b. k.op = "Replan" /\ k.phase # "idle" => pc = "replan" /\ row.state # "completed"
  BY DEF RunInv, AwaitsCall, DoneRests, Awaited
<1>1. CASE ListSteps(Sup)
  <2>1. k.phase = "list" /\ UNCHANGED <<row, steps, ids>>
    BY <1>1 DEF ListSteps
  <2>2. CASE k.from \in Present
    <3> DEFINE b == { s \in Step : steps[s] = "created" } \ {k.from}
    <3>1. call' = [call EXCEPT ![Sup].phase = "rows", ![Sup].batch = b]
      BY <1>0, <1>1, <2>2 DEF ListSteps
    <3>2. /\ call'[Sup].phase = "rows" /\ call'[Sup].op = k.op /\ call'[Sup].batch = b
          /\ call'[Sup].fresh = k.fresh /\ call'[Sup].read = k.read /\ \A d \in Callers \ {Sup} : call'[d] = call[d]
      BY <1>0, <3>1 DEF Call
    <3>3. CallsKnown' /\ AwaitsCall' /\ ReplanRead'
      BY <1>0, <2>1, <3>2 DEF RunInv, CallsKnown, AwaitsCall, ReplanRead
    <3>4. b \cap k.fresh = {}
      BY <2>1 DEF RunInv, FreshAbove, Present
    <3>5. FreshAbove' /\ PresentKnown'
      BY <2>1, <3>2, <3>4 DEF RunInv, FreshAbove, PresentKnown, Present
    <3>6. DoneRests' /\ SettledAtEnd'
      BY <2>1 DEF RunInv, DoneRests, SettledAtEnd, Settled, Present
    <3> QED
      BY <3>3, <3>5, <3>6 DEF RunInv
  <2>3. CASE k.from \notin Present
    BY <1>1, <2>1, <2>3, EndsRunInv, <1>0 DEF ListSteps
  <2> QED
    BY <2>2, <2>3
<1>2. ASSUME NEW s \in Step, Supersede(Sup, s) PROVE RunInv'
  <2>1. /\ k.phase = "rows" /\ s \in k.batch /\ steps' = [steps EXCEPT ![s] = "cancelled"]
        /\ UNCHANGED <<row, ids>> /\ k.op = "Replan"
    BY <1>2, <1>0 DEF Supersede, RunInv, CallsKnown
  <2>2. /\ call'[Sup].phase = "rows" /\ call'[Sup].op = k.op /\ call'[Sup].batch = k.batch \ {s}
        /\ call'[Sup].fresh = k.fresh /\ call'[Sup].read = k.read /\ \A d \in Callers \ {Sup} : call'[d] = call[d]
    BY <1>0, <1>2, <2>1 DEF Supersede, Call
  <2>3. steps[s] = "created" /\ s \notin k.fresh
    BY <2>1 DEF RunInv, FreshAbove
  <2>4. Present' = Present
    BY <1>0, <2>1, <2>3 DEF Present
  <2>5. CallsKnown' /\ AwaitsCall' /\ ReplanRead'
    BY <1>0, <2>1, <2>2 DEF RunInv, CallsKnown, AwaitsCall, ReplanRead
  <2>6. FreshAbove' /\ PresentKnown'
    BY <1>0, <2>1, <2>2, <2>3, <2>4 DEF RunInv, FreshAbove, PresentKnown, Call
  <2>7. DoneRests' /\ SettledAtEnd'
    BY <1>b, <2>1 DEF RunInv, DoneRests, SettledAtEnd
  <2> QED
    BY <2>5, <2>6, <2>7 DEF RunInv
<1>3. ASSUME NEW s \in Step, AddStep(Sup, s) PROVE RunInv'
  <2>1. /\ k.phase = "rows" /\ s \in k.fresh \ Present /\ steps' = [steps EXCEPT ![s] = "created"]
        /\ UNCHANGED <<row, ids, call>> /\ k.op = "Replan"
    BY <1>3, <1>0 DEF AddStep, RunInv, CallsKnown
  <2>2. Present' = Present \cup {s}
    BY <1>0, <2>1 DEF Present
  <2>3. CallsKnown' /\ AwaitsCall' /\ ReplanRead'
    BY <2>1 DEF RunInv, CallsKnown, AwaitsCall, ReplanRead
  <2>4. FreshAbove'
    BY <1>0, <2>1, <2>2 DEF RunInv, FreshAbove, Call
  <2>5. PresentKnown'
    BY <2>1, <2>2 DEF RunInv, FreshAbove, PresentKnown
  <2>6. DoneRests' /\ SettledAtEnd'
    BY <1>b, <2>1 DEF RunInv, DoneRests, SettledAtEnd
  <2> QED
    BY <2>3, <2>4, <2>5, <2>6 DEF RunInv
<1>4. CASE Reread(Sup) \/ UpdateMission(Sup)
  <2>1. UNCHANGED <<steps, ids>> /\ k.phase # "idle"
    BY <1>4 DEF Reread, UpdateMission, RowsDone
  <2>2. /\ call'[Sup].phase \in {"write", "log"} \/ k.op = "SetPlan"
        /\ call'[Sup].op = k.op /\ call'[Sup].read = k.read /\ \A d \in Callers \ {Sup} : call'[d] = call[d]
    BY <1>0, <1>4 DEF Reread, UpdateMission, Call
  <2>3. k.op # "SetPlan"
    BY <2>1 DEF RunInv, AwaitsCall, Awaited
  <2>4. CallsKnown' /\ AwaitsCall' /\ FreshAbove' /\ ReplanRead'
    BY <1>0, <2>1, <2>2, <2>3 DEF RunInv, CallsKnown, AwaitsCall, FreshAbove, ReplanRead
  <2>5. PresentKnown'
    BY <2>1 DEF RunInv, PresentKnown, Present
  <2>6. row'.state = "completed" => row.state = "completed" \/ pc = "complete"
    <3>1. CASE UpdateMission(Sup)
      <4>1. row' = Written(k)
        BY <3>1 DEF UpdateMission
      <4>2. CASE k.op = "Replan"
        BY <1>0, <2>1, <4>1, <4>2 DEF Written, Transitions, RunInv, ReplanRead, Call, Row
      <4>3. CASE k.op # "Replan"
        <5>1. k.op \in Transitions /\ (k.op = "Complete" => pc = "complete")
          BY <2>1, <4>3 DEF RunInv, AwaitsCall, Awaited, Transitions
        <5>2. row'.state = Dest[k.op]
          BY <1>0, <4>1, <5>1 DEF Written, Call, Row
        <5> QED
          BY <5>1, <5>2 DEF Dest, Transitions
      <4> QED
        BY <4>2, <4>3
    <3>2. CASE Reread(Sup)
      BY <3>2 DEF Reread
    <3> QED
      BY <1>4, <3>1, <3>2
  <2>7. DoneRests' /\ SettledAtEnd'
    BY <1>a, <2>1, <2>6 DEF RunInv, DoneRests, SettledAtEnd, Settled, Present
  <2> QED
    BY <2>4, <2>5, <2>7 DEF RunInv
<1>5. CASE AppendEvent(Sup)
  BY <1>5, <1>0, EndsRunInv DEF AppendEvent
<1> QED
  BY <1>1, <1>2, <1>3, <1>4, <1>5 DEF Proceed

\* A step of a user, who can only pause, resume or cancel.
LEMMA UserRunInv ==
  ASSUME RunTypes, RunInv, NEW c \in Users, UserNext(c)
  PROVE  RunInv'
<1>0. /\ call \in [Callers -> Call] /\ c \in Callers /\ c # Sup /\ Sup \in Callers /\ pc' = pc
  BY SupAssumption DEF RunTypes, RunTypeOK, TypeOK, Users, UserNext, UserCall, UserStatement, runVars
<1>1. ASSUME UNCHANGED <<steps, ids>>, \A d \in Callers \ {c} : call'[d] = call[d],
             call'[c].phase \in {"write", "log"}, call'[c].op \in {"Pause", "Resume", "Cancel"},
             row'.state # "completed" \/ row' = row
      PROVE  RunInv'
  <2>1. CallsKnown' /\ AwaitsCall' /\ FreshAbove' /\ ReplanRead'
    BY <1>0, <1>1 DEF RunInv, CallsKnown, AwaitsCall, FreshAbove, ReplanRead, Present
  <2>2. PresentKnown' /\ DoneRests' /\ SettledAtEnd'
    BY <1>0, <1>1 DEF RunInv, PresentKnown, DoneRests, SettledAtEnd, Settled, Present
  <2> QED
    BY <2>1, <2>2 DEF RunInv
<1>2. ASSUME NEW op \in {"Pause", "Resume", "Cancel"}, UserCall(c, op) PROVE RunInv'
  <2>1. UNCHANGED <<row, steps, ids>>
    BY <1>2 DEF UserCall, Transition
  <2>2. CASE Refuses(op)
    BY <1>0, <1>2, <2>1, <2>2, EndsRunInv DEF UserCall, Transition
  <2>3. CASE ~Refuses(op)
    <3> DEFINE k == Entered(op, "write", 0, {})
    <3>1. k.phase = "write" /\ k.op = op
      BY DEF Entered
    <3>2. call' = [call EXCEPT ![c] = k]
      BY <1>2, <2>3 DEF UserCall, Transition
    <3> HIDE DEF k
    <3>3. call'[c] = k /\ \A d \in Callers \ {c} : call'[d] = call[d]
      BY <1>0, <3>2
    <3> QED
      BY <1>1, <2>1, <3>1, <3>3
  <2> QED
    BY <2>2, <2>3
<1>3. CASE UserStatement(c)
  <2>1. call[c].phase \notin {"list", "rows"}
    BY <1>0 DEF RunInv, CallsKnown
  <2>2. UpdateMission(c) \/ AppendEvent(c)
    BY <1>3, <2>1 DEF UserStatement, Proceed, ListSteps, Supersede, AddStep, Reread, RowsDone
  <2>3. CASE UpdateMission(c)
    <3>1. call[c].op \in {"Pause", "Resume", "Cancel"} /\ call[c] \in Call
      BY <1>0, <2>3 DEF UpdateMission, RunInv, CallsKnown
    <3>2. row'.state = Dest[call[c].op]
      BY <2>3, <3>1 DEF UpdateMission, Written, Transitions, Call, Row
    <3>3. row'.state # "completed"
      BY <3>1, <3>2 DEF Dest
    <3>4. /\ call'[c].phase = "log" /\ call'[c].op = call[c].op
          /\ \A d \in Callers \ {c} : call'[d] = call[d]
      BY <1>0, <2>3, <3>1 DEF UpdateMission, Call
    <3>5. UNCHANGED <<steps, ids>>
      BY <2>3 DEF UpdateMission
    <3> QED
      BY <1>1, <3>1, <3>3, <3>4, <3>5
  <2>4. CASE AppendEvent(c)
    BY <1>0, <2>4, EndsRunInv DEF AppendEvent
  <2> QED
    BY <2>2, <2>3, <2>4
<1> QED
  BY <1>2, <1>3 DEF UserNext

\* The run enters a replan: its ids are behind everything there is.
LEMMA ReplanRunInv ==
  ASSUME RunTypes, RunInv, NEW n \in 1 .. MaxStep, TryReplan(n)
  PROVE  RunInv'
<1>0. /\ call \in [Callers -> Call] /\ Sup \in Callers /\ ids \in Nat /\ n \in Nat
      /\ row.state # "completed" /\ UNCHANGED <<row, steps>> /\ pc = "failed" /\ pc' = "replan"
      /\ ids + n <= MaxStep /\ MaxStep \in Nat
  BY SupAssumption, MaxStepAssumption
     DEF RunTypes, RunTypeOK, TypeOK, TryReplan, Replan, RunInv, DoneRests
<1> DEFINE k == IF row.state = "running" THEN Entered("Replan", "list", cur, NextIds(n))
                ELSE Returned(FALSE)
<1>1. /\ call' = [call EXCEPT ![Sup] = k]
      /\ ids' = IF row.state = "running" THEN ids + n ELSE ids
  BY DEF TryReplan, Replan
<1>2. \/ k.phase = "idle"
      \/ k.phase = "list" /\ k.op = "Replan" /\ k.fresh = NextIds(n) /\ k.read = row /\ row.state = "running"
  BY DEF Entered, Returned
<1> HIDE DEF k
<1>3. call'[Sup] = k /\ \A d \in Callers \ {Sup} : call'[d] = call[d]
  BY <1>0, <1>1
<1>4. CallsKnown' /\ AwaitsCall' /\ ReplanRead'
  BY <1>0, <1>2, <1>3 DEF RunInv, CallsKnown, AwaitsCall, Awaited, ReplanRead
<1>5. PresentKnown' /\ DoneRests' /\ SettledAtEnd'
  <2>1. Present' = Present /\ Present \subseteq Int
    BY <1>0 DEF Present, Step
  <2>2. PresentKnown'
    BY <1>0, <1>1, <2>1 DEF RunInv, PresentKnown
  <2> QED
    BY <1>0, <2>2 DEF DoneRests, SettledAtEnd
<1>6. FreshAbove'
  <2>1. CASE k.phase = "list"
    <3>1. /\ k.fresh = (ids + 1) .. (ids + n) /\ ids' = ids + n /\ Present \subseteq Int
          /\ row.state = "running"
      BY <1>1, <1>2, <2>1 DEF NextIds, Present, Step
    <3>2. ASSUME NEW s \in k.fresh PROVE s <= ids' /\ s \notin Present /\ \A t \in Present : t < s
      BY <1>0, <3>1, <3>2 DEF RunInv, PresentKnown
    <3>3. k.fresh \subseteq Step
      BY <1>0, <3>1 DEF Step
    <3>4. \A s \in k.fresh : steps[s] = "absent"
      BY <3>2, <3>3 DEF Present
    <3> QED
      BY <1>0, <1>3, <2>1, <3>2, <3>4 DEF FreshAbove, Present
  <2>2. CASE k.phase = "idle"
    BY <1>3, <2>2 DEF FreshAbove
  <2> QED
    BY <1>2, <2>1, <2>2
<1> QED
  BY <1>4, <1>5, <1>6 DEF RunInv

\* Every step the two modes share keeps the invariant.
LEMMA CommonRunInv ==
  RunTypes /\ RunInv /\ (CommonNext \/ Replanned \/ Drained \/ AroundNext \/ Interrupt) => RunInv'
<1> SUFFICES ASSUME RunTypes, RunInv,
                    CommonNext \/ Replanned \/ Drained \/ AroundNext \/ Interrupt
             PROVE  RunInv'
  OBVIOUS
<1>0. /\ pc \notin DOMAIN Awaited => call[Sup].phase = "idle"
      /\ row.state = "completed" => pc \in {"complete", "drain", "off"}
      /\ Sup \in Callers
  BY SupAssumption DEF RunInv, AwaitsCall, DoneRests
<1>1. CASE Spawn \/ Load \/ Drained
  <2>1. pc \notin DOMAIN Awaited
    BY <1>1 DEF Spawn, Load, Drained, Awaited
  <2>2. UNCHANGED mgrVars /\ pc' # "complete"
    BY <1>1 DEF Spawn, Load, Drained
  <2>3. row.state = "completed" => pc' = "off"
    BY <1>0, <1>1 DEF Spawn, Load, Drained
  <2> QED
    BY <1>0, <2>1, <2>2, <2>3, QuietRunInv
<1>2. CASE CallStart \/ FailMission
  <2>1. \/ pc = "begin" /\ Calls("Start", "start")
        \/ pc = "failed" /\ Calls("Fail", "fail")
    BY <1>2 DEF CallStart, FailMission
  <2> QED
    BY <2>1, CallsRunInv DEF Awaited, Transitions
<1>3. CASE Started \/ Return
  BY <1>0, <1>3, QuietRunInv DEF Started, Return, Back
<1>4. ASSUME NEW n \in 1 .. MaxStep, TryReplan(n) PROVE RunInv'
  BY <1>4, ReplanRunInv
<1>5. CASE SupStatement
  BY <1>5, StatementRunInv DEF SupStatement, runVars
<1>6. CASE Replanned
  <2>1. CASE Back(TRUE) /\ pc' = "pick" /\ UNCHANGED mgrVars
    BY <1>0, <1>6, <2>1, QuietRunInv DEF Replanned, Back
  <2>2. CASE Calls("Fail", "fail")
    BY <1>6, <2>2, CallsRunInv DEF Replanned, Awaited, Transitions
  <2> QED
    BY <1>6, <2>1, <2>2 DEF Replanned
<1>7. CASE WorkerNext
  BY <1>0, <1>7, QuietRunInv DEF WorkerNext, WorkerDone
<1>8. ASSUME NEW r \in results, LoseResult(r) PROVE RunInv'
  BY <1>0, <1>8, QuietRunInv DEF LoseResult
<1>9. CASE StatementFails
  BY <1>0, <1>9, EndsRunInv DEF StatementFails, Abort
<1>10. ASSUME NEW c \in Users, UserNext(c) PROVE RunInv'
  BY <1>10, UserRunInv
<1>11. CASE Interrupt
  BY <1>0, <1>11, EndsRunInv DEF Interrupt
<1> QED
  BY <1>1, <1>2, <1>3, <1>4, <1>5, <1>6, <1>7, <1>8, <1>9, <1>10, <1>11 DEF CommonNext, AroundNext

-----------------------------------------------------------------------------
\* What a step both modes share does to the steps of the mission: nothing,
\* but for a replan, which supersedes what has not been begun and appends.
Superseded(s) == steps[s] = "created" /\ steps'[s] = "cancelled"
Appended(s) ==
  /\ steps[s] = "absent" /\ steps'[s] = "created"
  /\ \A t \in Present : steps[t] = "created" \/ t < s
Moves == \/ UNCHANGED steps
         \/ /\ pc = "replan" /\ pc' = "replan"
            /\ \A s \in Step : steps'[s] = steps[s] \/ Superseded(s) \/ Appended(s)

\* Of the statements of the supervisor's call only those of a replan touch steps.
LEMMA StatementMoves ==
  ASSUME RunTypes, RunInv, Proceed(Sup), UNCHANGED pc
  PROVE  Moves
<1> DEFINE k == call[Sup]
<1>0. /\ Sup \in Callers /\ k \in Call /\ steps \in [Step -> State \cup {"absent"}]
      /\ k.phase \in {"list", "rows"} => pc = "replan" /\ pc' = "replan"
  <2>1. Sup \in Callers /\ k \in Call /\ steps \in [Step -> State \cup {"absent"}]
    BY SupAssumption DEF RunTypes, RunTypeOK, TypeOK
  <2>2. k.phase \in {"list", "rows"} => pc = "replan" /\ pc' = "replan"
    BY <2>1 DEF RunInv, CallsKnown, AwaitsCall, Awaited
  <2> QED
    BY <2>1, <2>2
<1>1. CASE ListSteps(Sup) \/ Reread(Sup) \/ UpdateMission(Sup) \/ AppendEvent(Sup)
  BY <1>1 DEF Moves, ListSteps, Reread, UpdateMission, AppendEvent
<1>2. ASSUME NEW s \in Step, Supersede(Sup, s) PROVE Moves
  <2>1. k.phase = "rows" /\ s \in k.batch /\ steps' = [steps EXCEPT ![s] = "cancelled"]
    BY <1>2 DEF Supersede
  <2>2. steps[s] = "created"
    BY <2>1 DEF RunInv, FreshAbove
  <2> QED
    BY <1>0, <2>1, <2>2 DEF Moves, Superseded
<1>3. ASSUME NEW s \in Step, AddStep(Sup, s) PROVE Moves
  <2>1. k.phase = "rows" /\ s \in k.fresh \ Present /\ steps' = [steps EXCEPT ![s] = "created"]
    BY <1>3 DEF AddStep
  <2>2. \A t \in Present : steps[t] = "created" \/ t < s
    BY <2>1 DEF RunInv, FreshAbove, Present
  <2>3. Appended(s)
    BY <1>0, <2>1, <2>2 DEF Appended, Present
  <2> QED
    BY <1>0, <2>1, <2>3 DEF Moves
<1> QED
  BY <1>1, <1>2, <1>3 DEF Proceed

\* What both modes share touches steps by a replan only.
LEMMA CommonMoves ==
  ASSUME RunTypes, RunInv, CommonNext \/ Replanned \/ Drained \/ AroundNext \/ Interrupt
  PROVE  Moves
<1>1. CASE SupStatement
  BY <1>1, StatementMoves DEF SupStatement, runVars
<1>2. ASSUME NEW c \in Users, UserNext(c) PROVE UNCHANGED steps
  <2>1. c \in Callers /\ c # Sup
    BY DEF Users
  <2>2. ASSUME UserStatement(c) PROVE UNCHANGED steps
    <3>1. UpdateMission(c) \/ AppendEvent(c)
      BY <2>1, <2>2 DEF RunInv, CallsKnown, UserStatement, Proceed, ListSteps, Supersede, AddStep,
                        Reread, RowsDone
    <3> QED
      BY <3>1 DEF UpdateMission, AppendEvent
  <2> QED
    BY <1>2, <2>2 DEF UserNext, UserCall, Transition
<1>3. ASSUME CommonNext, ~SupStatement PROVE UNCHANGED steps
  BY <1>3 DEF CommonNext, Spawn, Load, CallStart, Started, TryReplan, FailMission, Return, Calls,
              Transition, Replan, mgrVars
<1>4. ASSUME Replanned \/ Drained \/ WorkerNext \/ StatementFails \/ Interrupt
      PROVE  UNCHANGED steps
  BY <1>4 DEF Replanned, Drained, WorkerNext, WorkerDone, StatementFails, Interrupt, Calls, Transition,
              Abort, mgrVars
<1>5. ASSUME NEW r \in results, LoseResult(r) PROVE UNCHANGED steps
  BY <1>5 DEF LoseResult, mgrVars
<1>6. SupStatement \/ UNCHANGED steps
  BY <1>2, <1>3, <1>4, <1>5 DEF AroundNext
<1> QED
  BY <1>1, <1>6 DEF Moves

\* Neither a supersede nor an appended step touches one that is settled.
LEMMA MovesKeepSettled ==
  ASSUME Moves, NEW s \in Step, steps[s] \in Terminal
  PROVE  steps'[s] = steps[s]
  BY DEF Moves, Superseded, Appended, Terminal

\* Where such a step takes the run, and whether its copy is read afresh.
Places ==
  \/ UNCHANGED <<pc, mem, cur>>
  \/ /\ \/ pc = "load" /\ pc' \in {"begin", "pick"}
        \/ pc = "replan" /\ pc' = "pick"
     /\ mem' = steps
  \/ /\ \/ pc = "begin" /\ pc' = "start"
        \/ pc = "start" /\ pc' = "pick"
     /\ UNCHANGED mem
  \/ pc = "off" /\ pc' = "load"
  \/ pc = "failed" /\ pc' = "replan"
  \/ pc' \in {"off", "drain", "fail"}

\* Where what both modes share can take the run.
LEMMA CommonPlaces ==
  ASSUME CommonNext \/ Replanned \/ Drained \/ AroundNext \/ Interrupt
  PROVE  Places
<1>1. ASSUME CommonNext PROVE Places
  BY <1>1 DEF CommonNext, Spawn, Load, CallStart, Started, TryReplan, FailMission, Return, SupStatement,
              Calls, runVars, Places
<1>2. ASSUME Replanned \/ Drained \/ StatementFails \/ Interrupt PROVE Places
  BY <1>2 DEF Replanned, Drained, StatementFails, Interrupt, Calls, Places
<1>3. ASSUME WorkerNext \/ \E r \in results : LoseResult(r) PROVE UNCHANGED <<pc, mem, cur>>
  BY <1>3 DEF WorkerNext, WorkerDone, LoseResult
<1>4. ASSUME NEW c \in Users, UserNext(c) PROVE UNCHANGED <<pc, mem, cur>>
  BY <1>4 DEF UserNext, UserCall, UserStatement, runVars
<1> QED
  BY <1>1, <1>2, <1>3, <1>4 DEF AroundNext, Places
==============================================================================
