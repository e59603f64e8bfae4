---------------------------- MODULE Turns_proofs ----------------------------
(***************************************************************************)
(* Proofs about what the tool calls of a turn start, for every finite set  *)
(* of sub-agents and of callers, every limit and every number of faults:   *)
(* Delegation and McpClient, and MCTurns, in which one of them runs.       *)
(***************************************************************************)
EXTENDS MCTurns, FiniteSetTheorems, TLAPS

USE DelegationAssumption DEF DelegationAssumption

-----------------------------------------------------------------------------
(* Delegation: type correctness, that the two semaphores count exactly who    *)
(* holds them, and that the two tables agree on what ended undisturbed. Who   *)
(* is counted is read off the place of a sub-agent's goroutine, and a step    *)
(* moves one goroutine, so the counters are followed by adding or removing    *)
(* one element of a finite set.                                               *)

\* What the goroutine of a spawned agent has written so far is in the tables,
\* if none of its writes failed: agent.cancel overwrites no settled row.
Written(a) ==
  job[a].kind = "spawn" /\ a \notin spoiled =>
    /\ job[a].pc = "background" => delegation[a] = job[a].result
    /\ job[a].pc \in {"release", "leave", "done"} =>
         delegation[a] = background[a] /\ background[a] \in Settled

DgInv == DgTypeOK /\ SlotsAccounted /\ \A a \in Agents : Written(a)

\* A step that moves one goroutine only, and where that may get to.
Moves(a) == \A b \in Agents \ {a} : job'[b] = job[b]
UserCount(a) ==
  \/ users' = users /\ (Counted(a)' <=> Counted(a))
  \/ users' = users + 1 /\ ~Counted(a) /\ Counted(a)'
  \/ users' = users - 1 /\ Counted(a) /\ ~Counted(a)'
SlotCount(a) ==
  \/ slots' = slots /\ (Holding(a)' <=> Holding(a))
  \/ slots' = slots + 1 /\ ~Holding(a) /\ Holding(a)'
  \/ slots' = slots - 1 /\ Holding(a) /\ ~Holding(a)'

\* If one goroutine joins or leaves, the counters still count.
LEMMA SlotsStep ==
  ASSUME SlotsAccounted, NEW a \in Agents, Moves(a), UserCount(a), SlotCount(a)
  PROVE  SlotsAccounted' /\ users' \in Nat /\ slots' \in Nat
<1> DEFINE C == {b \in Agents : Counted(b)}
           H == {b \in Agents : Holding(b)}
           CC == {b \in Agents : Counted(b)'}
           HH == {b \in Agents : Holding(b)'}
<1>1. /\ IsFiniteSet(C) /\ IsFiniteSet(H) /\ IsFiniteSet(CC) /\ IsFiniteSet(HH)
      /\ users = Cardinality(C) /\ slots = Cardinality(H)
  <2>1. C \in SUBSET Agents /\ H \in SUBSET Agents /\ CC \in SUBSET Agents /\ HH \in SUBSET Agents
    OBVIOUS
  <2> QED
    BY <2>1, FS_Subset DEF SlotsAccounted
<1>2. \A b \in Agents \ {a} : (Counted(b)' <=> Counted(b)) /\ (Holding(b)' <=> Holding(b))
  BY DEF Moves, Counted, Holding
<1>3. Cardinality(CC) = users'
  <2>1. CASE users' = users /\ (Counted(a)' <=> Counted(a))
    <3>1. CC = C
      BY <1>2, <2>1
    <3> QED
      BY <1>1, <2>1, <3>1
  <2>2. CASE users' = users + 1 /\ ~Counted(a) /\ Counted(a)'
    <3>1. CC = C \cup {a} /\ a \notin C
      BY <1>2, <2>2
    <3> QED
      BY <1>1, <2>2, <3>1, FS_AddElement
  <2>3. CASE users' = users - 1 /\ Counted(a) /\ ~Counted(a)'
    <3>1. CC = C \ {a} /\ a \in C
      BY <1>2, <2>3
    <3> QED
      BY <1>1, <2>3, <3>1, FS_RemoveElement
  <2> QED
    BY <2>1, <2>2, <2>3 DEF UserCount
<1>4. Cardinality(HH) = slots'
  <2>1. CASE slots' = slots /\ (Holding(a)' <=> Holding(a))
    <3>1. HH = H
      BY <1>2, <2>1
    <3> QED
      BY <1>1, <2>1, <3>1
  <2>2. CASE slots' = slots + 1 /\ ~Holding(a) /\ Holding(a)'
    <3>1. HH = H \cup {a} /\ a \notin H
      BY <1>2, <2>2
    <3> QED
      BY <1>1, <2>2, <3>1, FS_AddElement
  <2>3. CASE slots' = slots - 1 /\ Holding(a) /\ ~Holding(a)'
    <3>1. HH = H \ {a} /\ a \in H
      BY <1>2, <2>3
    <3> QED
      BY <1>1, <2>3, <3>1, FS_RemoveElement
  <2> QED
    BY <2>1, <2>2, <2>3 DEF SlotCount
<1>5. Cardinality(CC) \in Nat /\ Cardinality(HH) \in Nat
  BY <1>1, FS_CardinalityType
<1> QED
  BY <1>3, <1>4, <1>5 DEF SlotsAccounted, Counted, Holding

\* Whatever is counted makes its counter positive.
LEMMA CountedPositive ==
  ASSUME SlotsAccounted, NEW a \in Agents
  PROVE  /\ users \in Nat /\ slots \in Nat
         /\ Counted(a) => users > 0
         /\ Holding(a) => slots > 0
<1> DEFINE C == {b \in Agents : Counted(b)}
           H == {b \in Agents : Holding(b)}
<1>1. IsFiniteSet(C) /\ IsFiniteSet(H) /\ users = Cardinality(C) /\ slots = Cardinality(H)
  <2>1. C \in SUBSET Agents /\ H \in SUBSET Agents
    OBVIOUS
  <2> QED
    BY <2>1, FS_Subset DEF SlotsAccounted
<1>2. users \in Nat /\ slots \in Nat
  BY <1>1, FS_CardinalityType
<1>3. (Counted(a) => Cardinality(C) # 0) /\ (Holding(a) => Cardinality(H) # 0)
  <2>1. (Counted(a) => C # {}) /\ (Holding(a) => H # {})
    OBVIOUS
  <2> QED
    BY <1>1, <2>1, FS_EmptySet
<1> QED
  BY <1>1, <1>2, <1>3

\* The ways a job changes: to another place, to its end, to nothing.
LEMMA GotoJob ==
  ASSUME job \in [Agents -> Job], NEW a \in Agents, NEW pc \in PC, Goto(a, pc)
  PROVE  /\ job' \in [Agents -> Job] /\ Moves(a)
         /\ job'[a].pc = pc /\ job'[a].kind = job[a].kind /\ job'[a].result = job[a].result
<1>1. job[a] \in Job /\ job' = [job EXCEPT ![a] = job'[a]]
  BY DEF Goto
<1>2. job'[a] = [pc |-> pc, kind |-> job[a].kind, parent |-> job[a].parent,
                 within |-> job[a].within, result |-> job[a].result]
  BY <1>1 DEF Goto, Job
<1>3. job'[a] \in Job
  BY <1>1, <1>2 DEF Job
<1> QED
  BY <1>1, <1>2, <1>3 DEF Moves

\* A goroutine that gets its result moves alone.
LEMMA EndJob ==
  ASSUME job \in [Agents -> Job], NEW a \in Agents, NEW pc \in PC, NEW r \in Settled,
         job' = [job EXCEPT ![a].pc = pc, ![a].result = r]
  PROVE  /\ job' \in [Agents -> Job] /\ Moves(a)
         /\ job'[a].pc = pc /\ job'[a].kind = job[a].kind /\ job'[a].result = r
<1>1. job[a] \in Job /\ job' = [job EXCEPT ![a] = job'[a]]
  OBVIOUS
<1>2. job'[a] = [pc |-> pc, kind |-> job[a].kind, parent |-> job[a].parent,
                 within |-> job[a].within, result |-> r]
  BY <1>1 DEF Job
<1>3. job'[a] \in Job
  BY <1>1, <1>2 DEF Job
<1> QED
  BY <1>1, <1>2, <1>3 DEF Moves

\* A goroutine that is over keeps nothing but its kind.
LEMMA OverJob ==
  ASSUME job \in [Agents -> Job], NEW a \in Agents, Over(a)
  PROVE  /\ job' \in [Agents -> Job] /\ Moves(a)
         /\ job'[a].pc = "done" /\ job'[a].kind = job[a].kind
         /\ late' \subseteq late /\ cut' \subseteq cut
<1>1. job[a] \in Job /\ job' = [job EXCEPT ![a] = job'[a]]
  BY DEF Over
<1>2. job'[a] = [pc |-> "done", kind |-> job[a].kind, parent |-> Nobody,
                 within |-> {}, result |-> "failed"]
  BY <1>1 DEF Over, NoJob
<1>3. job'[a] \in Job
  BY <1>1, <1>2 DEF Job, PC, Settled
<1> QED
  BY <1>1, <1>2, <1>3 DEF Moves, Over

\* The initial state satisfies the invariant.
LEMMA DgInitInv == DgInit => DgInv
<1> SUFFICES ASSUME DgInit PROVE DgInv
  OBVIOUS
<1>1. DgTypeOK
  BY DEF DgInit, DgTypeOK, Job, NoJob, PC, Settled
<1>2. SlotsAccounted
  <2>1. {a \in Agents : Counted(a)} = {} /\ {a \in Agents : Holding(a)} = {}
    BY DEF DgInit, NoJob, Counted, Holding
  <2> QED
    BY <2>1, FS_EmptySet DEF DgInit, SlotsAccounted
<1>3. \A a \in Agents : Written(a)
  BY DEF DgInit, NoJob, Written
<1> QED
  BY <1>1, <1>2, <1>3 DEF DgInv

\* The parts of the invariant no step of one goroutine disturbs in another.
LEMMA WrittenStep ==
  ASSUME NEW a \in Agents, Moves(a), \A b \in Agents : Written(b),
         \A b \in Agents \ {a} : delegation'[b] = delegation[b] /\ background'[b] = background[b],
         spoiled \subseteq spoiled', Written(a)'
  PROVE  \A b \in Agents : Written(b)'
<1> SUFFICES ASSUME NEW b \in Agents \ {a} PROVE Written(b)'
  OBVIOUS
<1> QED
  BY DEF Moves, Written

\* The records a job is made of anew.
LEMMA NewJob ==
  ASSUME NEW kind, NEW p, NEW w, NEW j,
         j = [NoJob EXCEPT !.pc = "user", !.kind = kind, !.parent = p, !.within = w]
  PROVE  j = [pc |-> "user", kind |-> kind, parent |-> p, within |-> w, result |-> "failed"]
  BY DEF NoJob

\* The record that is left of it.
LEMMA EndedJob ==
  ASSUME NEW kind, NEW j, j = [NoJob EXCEPT !.pc = "done", !.kind = kind]
  PROVE  j = [pc |-> "done", kind |-> kind, parent |-> Nobody, within |-> {}, result |-> "failed"]
  BY DEF NoJob

\* A tool call begins: its job is new and holds nothing.
LEMMA CallKeeps ==
  ASSUME DgInv, NEW p \in Agents \cup {Nobody}, NEW a \in Agents, NEW kind \in {"delegate", "spawn"},
         Call(p, a, kind)
  PROVE  /\ job' \in [Agents -> Job] /\ Moves(a) /\ job'[a].pc = "user" /\ SlotsAccounted'
         /\ UNCHANGED <<perUser, users, slots, cancelling, late, faults>>
<1> DEFINE w == IF kind = "delegate" /\ p # Nobody THEN job[p].within \cup {p} ELSE {}
           j == [NoJob EXCEPT !.pc = "user", !.kind = kind, !.parent = p, !.within = w]
<1>1. job \in [Agents -> Job] /\ SlotsAccounted
  BY DEF DgInv, DgTypeOK
<1>2. w \in SUBSET Agents
  <2>1. CASE kind = "delegate" /\ p # Nobody
    BY <1>1, <2>1 DEF Job
  <2>2. CASE ~(kind = "delegate" /\ p # Nobody)
    BY <2>2
  <2> QED
    BY <2>1, <2>2
<1>3. j = [pc |-> "user", kind |-> kind, parent |-> p, within |-> w, result |-> "failed"]
  BY NewJob
<1>4. j \in Job
  BY <1>2, <1>3 DEF Job, PC, Settled
<1>5. job' = [job EXCEPT ![a] = j] /\ job[a].pc = "none"
  BY DEF Call, At
<1>6. job' \in [Agents -> Job] /\ Moves(a) /\ job'[a].pc = "user"
  BY <1>1, <1>3, <1>4, <1>5 DEF Moves
<1>7. UNCHANGED <<perUser, users, slots, cancelling, late, faults>>
  BY DEF Call
<1>8. UserCount(a) /\ SlotCount(a)
  BY <1>5, <1>6, <1>7 DEF UserCount, SlotCount, Counted, Holding
<1> QED
  BY <1>1, <1>6, <1>7, <1>8, SlotsStep

\* A goroutine is started by a tool call and holds nothing yet.
LEMMA ToolKeeps ==
  ASSUME DgInv, NEW p \in Agents \cup {Nobody}, NEW a \in Agents, Delegate(p, a) \/ Spawn(p, a)
  PROVE  DgInv'
<1>1. /\ job' \in [Agents -> Job] /\ Moves(a) /\ job'[a].pc = "user" /\ SlotsAccounted'
      /\ UNCHANGED <<perUser, users, slots, cancelling, late, faults>>
  <2>1. Call(p, a, "delegate") \/ Call(p, a, "spawn")
    BY DEF Delegate, Spawn
  <2>2. ASSUME NEW kind \in {"delegate", "spawn"}, Call(p, a, kind)
        PROVE  /\ job' \in [Agents -> Job] /\ Moves(a) /\ job'[a].pc = "user" /\ SlotsAccounted'
               /\ UNCHANGED <<perUser, users, slots, cancelling, late, faults>>
    BY <2>2, CallKeeps
  <2> QED
    BY <2>1, <2>2
<1>2. Written(a)'
  BY <1>1 DEF Written
<1>3. /\ delegation' \in [Agents -> Settled \cup {"none", "running"}]
      /\ background' \in [Agents -> Settled \cup {"none", "running"}]
      /\ cut' \subseteq Agents /\ spoiled' \subseteq Agents /\ spoiled \subseteq spoiled'
      /\ \A b \in Agents \ {a} : delegation'[b] = delegation[b] /\ background'[b] = background[b]
  <2>1. CASE Delegate(p, a)
    <3>1. cut' \subseteq Agents /\ spoiled' \subseteq Agents /\ spoiled \subseteq spoiled'
      BY <2>1 DEF Delegate, DgInv, DgTypeOK
    <3>2. /\ delegation' \in [Agents -> Settled \cup {"none", "running"}]
          /\ \A b \in Agents \ {a} : delegation'[b] = delegation[b]
      BY <2>1 DEF Delegate, DgInv, DgTypeOK
    <3> QED
      BY <2>1, <3>1, <3>2 DEF Delegate, DgInv, DgTypeOK
  <2>2. CASE Spawn(p, a)
    BY <2>2 DEF Spawn, DgInv, DgTypeOK
  <2> QED
    BY <2>1, <2>2
<1>4. \A b \in Agents : Written(b)'
  BY <1>1, <1>2, <1>3, WrittenStep DEF DgInv
<1>5. DgTypeOK'
  BY <1>1, <1>3 DEF DgInv, DgTypeOK
<1> QED
  BY <1>1, <1>4, <1>5 DEF DgInv

\* A call that gets no slot ends, and its agent counts as disturbed.
LEMMA NotRunKeeps ==
  ASSUME DgInv, NEW a \in Agents, NotRun(a)
  PROVE  /\ job' \in [Agents -> Job] /\ Moves(a) /\ job'[a].pc = "done"
         /\ background' \in [Agents -> Settled \cup {"none", "running"}]
         /\ late' \subseteq Agents /\ cut' \subseteq Agents /\ spoiled' \subseteq Agents
         /\ delegation' = delegation => \A b \in Agents : Written(b)'
<1>1. /\ job' \in [Agents -> Job] /\ Moves(a) /\ job'[a].pc = "done"
      /\ late' \subseteq late /\ cut' \subseteq cut
  BY OverJob DEF NotRun, DgInv, DgTypeOK
<1>2. spoiled' = spoiled \cup {a}
  BY DEF NotRun
<1>3. /\ background' \in [Agents -> Settled \cup {"none", "running"}]
      /\ \A b \in Agents \ {a} : background'[b] = background[b]
  BY DEF NotRun, DgInv, DgTypeOK, Settled
<1>4. ASSUME delegation' = delegation PROVE \A b \in Agents : Written(b)'
  <2>1. Written(a)'
    BY <1>2 DEF Written
  <2> QED
    BY <1>1, <1>2, <1>3, <1>4, <2>1, WrittenStep DEF DgInv
<1> QED
  BY <1>1, <1>2, <1>3, <1>4 DEF DgInv, DgTypeOK

\* The user's count is raised below its limit, or the call is over.
LEMMA AcquireUserKeeps ==
  ASSUME DgInv, NEW a \in Agents, AcquireUser(a)
  PROVE  DgInv'
<1>0. job[a].pc = "user" /\ ~Counted(a) /\ ~Holding(a) /\ users \in Nat /\ perUser \in Nat
  BY CountedPositive DEF AcquireUser, At, Counted, Holding, DgInv, DgTypeOK
<1>1. CASE NotRun(a) /\ UNCHANGED users
  <2>1. /\ job' \in [Agents -> Job] /\ Moves(a) /\ job'[a].pc = "done"
        /\ background' \in [Agents -> Settled \cup {"none", "running"}]
        /\ late' \subseteq Agents /\ cut' \subseteq Agents /\ spoiled' \subseteq Agents
        /\ \A b \in Agents : Written(b)'
    BY <1>1, NotRunKeeps DEF AcquireUser
  <2>2. UserCount(a) /\ SlotCount(a)
    BY <1>0, <1>1, <2>1 DEF AcquireUser, UserCount, SlotCount, Counted, Holding
  <2>3. SlotsAccounted'
    BY <2>1, <2>2, SlotsStep DEF DgInv
  <2>4. DgTypeOK'
    BY <1>1, <2>1 DEF AcquireUser, DgInv, DgTypeOK
  <2> QED
    BY <2>1, <2>3, <2>4 DEF DgInv
<1>2. CASE /\ ~AtLimit /\ users' = users + 1 /\ Goto(a, "global")
           /\ UNCHANGED <<background, late, cut, spoiled>>
  <2>1. /\ job' \in [Agents -> Job] /\ Moves(a)
        /\ job'[a].pc = "global" /\ job'[a].kind = job[a].kind
    BY <1>2, GotoJob DEF DgInv, DgTypeOK, PC
  <2>2. UserCount(a) /\ SlotCount(a)
    BY <1>0, <1>2, <2>1 DEF AcquireUser, UserCount, SlotCount, Counted, Holding
  <2>3. SlotsAccounted'
    BY <2>1, <2>2, SlotsStep DEF DgInv
  <2>4. users' \in 0..perUser
    BY <1>0, <1>2 DEF AtLimit
  <2>5. DgTypeOK'
    BY <1>2, <2>1, <2>4 DEF AcquireUser, DgInv, DgTypeOK
  <2>6. Written(a)'
    BY <2>1 DEF Written
  <2>7. \A b \in Agents : Written(b)'
    BY <1>2, <2>1, <2>6, WrittenStep DEF AcquireUser, DgInv
  <2> QED
    BY <2>3, <2>5, <2>7 DEF DgInv
<1> QED
  BY <1>1, <1>2 DEF AcquireUser

\* A slot is taken below the limit, by one that is counted already.
LEMMA AcquireSlotKeeps ==
  ASSUME DgInv, NEW a \in Agents, AcquireSlot(a)
  PROVE  DgInv'
<1>1. /\ job' \in [Agents -> Job] /\ Moves(a) /\ job'[a].pc = "loop" /\ job'[a].kind = job[a].kind
  BY GotoJob DEF AcquireSlot, DgInv, DgTypeOK, PC
<1>2. UserCount(a) /\ SlotCount(a) /\ slots' \in 0..MaxRunning
  BY <1>1 DEF AcquireSlot, At, UserCount, SlotCount, Counted, Holding, DgInv, DgTypeOK
<1>3. SlotsAccounted'
  BY <1>1, <1>2, SlotsStep DEF DgInv
<1>4. DgTypeOK'
  BY <1>1, <1>2 DEF AcquireSlot, DgInv, DgTypeOK
<1>5. Written(a)'
  BY <1>1 DEF Written
<1>6. \A b \in Agents : Written(b)'
  BY <1>1, <1>5, WrittenStep DEF AcquireSlot, DgInv
<1> QED
  BY <1>3, <1>4, <1>6 DEF DgInv

\* Who gives up waiting for a slot gives the user's count back.
LEMMA GiveUpKeeps ==
  ASSUME DgInv, NEW a \in Agents, GiveUp(a)
  PROVE  DgInv'
<1>0. job[a].pc = "global" /\ Counted(a) /\ ~Holding(a)
  BY DEF GiveUp, At, Counted, Holding
<1>1. /\ job' \in [Agents -> Job] /\ Moves(a) /\ job'[a].pc = "done"
      /\ background' \in [Agents -> Settled \cup {"none", "running"}]
      /\ late' \subseteq Agents /\ cut' \subseteq Agents /\ spoiled' \subseteq Agents
      /\ \A b \in Agents : Written(b)'
  BY NotRunKeeps DEF GiveUp
<1>2. UserCount(a) /\ SlotCount(a)
  BY <1>0, <1>1 DEF GiveUp, UserCount, SlotCount, Counted, Holding
<1>3. SlotsAccounted' /\ users' \in Nat
  BY <1>1, <1>2, SlotsStep DEF DgInv
<1>4. users' \in 0..perUser
  BY <1>3 DEF GiveUp, DgInv, DgTypeOK
<1>5. DgTypeOK'
  BY <1>1, <1>4 DEF GiveUp, DgInv, DgTypeOK
<1> QED
  BY <1>1, <1>3, <1>5 DEF DgInv

\* The loop moves between places that hold the slot, and ends with a result.
LEMMA LoopKeeps ==
  ASSUME DgInv, NEW a \in Agents, LoopNext(a)
  PROVE  DgInv'
<1>0. /\ job[a].pc \in {"loop", "tools"}
      /\ UNCHANGED <<perUser, delegation, background, users, slots, cancelling, late, cut, faults, spoiled>>
  BY DEF LoopNext, StopAtHead, Complete, ModelFails, UseTools, ToolsDone, At
<1>1. job' \in [Agents -> Job] /\ Moves(a) /\ job'[a].pc \in {"loop", "tools", "delegation"}
  <2>1. ASSUME NEW pc \in {"loop", "tools"}, Goto(a, pc)
        PROVE  job' \in [Agents -> Job] /\ Moves(a) /\ job'[a].pc \in {"loop", "tools", "delegation"}
    BY <2>1, GotoJob DEF DgInv, DgTypeOK, PC
  <2>2. ASSUME NEW r \in Settled, EndsAs(a, r)
        PROVE  job' \in [Agents -> Job] /\ Moves(a) /\ job'[a].pc \in {"loop", "tools", "delegation"}
    BY <2>2, EndJob DEF EndsAs, DgInv, DgTypeOK, PC
  <2> QED
    BY <2>1, <2>2 DEF LoopNext, StopAtHead, Complete, ModelFails, UseTools, ToolsDone, Settled
<1>2. UserCount(a) /\ SlotCount(a)
  BY <1>0, <1>1 DEF UserCount, SlotCount, Counted, Holding
<1>3. SlotsAccounted'
  BY <1>1, <1>2, SlotsStep DEF DgInv
<1>4. DgTypeOK'
  BY <1>0, <1>1 DEF DgInv, DgTypeOK
<1>5. Written(a)'
  BY <1>1 DEF Written
<1>6. \A b \in Agents : Written(b)'
  BY <1>0, <1>1, <1>5, WrittenStep DEF DgInv
<1> QED
  BY <1>3, <1>4, <1>6 DEF DgInv

\* The write of one table, in its order: each moves the goroutine on.
LEMMA AfterDelegationJob ==
  ASSUME job \in [Agents -> Job], NEW a \in Agents, AfterDelegation(a), At(a, "delegation")
  PROVE  /\ job' \in [Agents -> Job] /\ Moves(a) /\ job'[a].kind = job[a].kind
         /\ \/ job[a].kind = "spawn" /\ job'[a].pc = "background" /\ job'[a].result = job[a].result
            \/ job[a].kind # "spawn" /\ job'[a].pc = "release"
<1>1. CASE job[a].kind = "spawn"
  BY <1>1, GotoJob DEF AfterDelegation, PC
<1>2. CASE job[a].kind # "spawn"
  BY <1>2, EndJob DEF AfterDelegation, ToRelease, NoJob, PC, Settled
<1> QED
  BY <1>1, <1>2

\* The goroutine's first statement, which writes nothing once its caller's context has ended.
LEMMA UpdateDelegationKeeps ==
  ASSUME DgInv, NEW a \in Agents, UpdateDelegation(a)
  PROVE  DgInv'
<1>0. job \in [Agents -> Job] /\ job[a] \in Job /\ job[a].pc = "delegation" /\ job[a].result \in Settled
  BY DEF UpdateDelegation, At, DgInv, DgTypeOK, Job
<1>1. /\ job' \in [Agents -> Job] /\ Moves(a) /\ job'[a].kind = job[a].kind
      /\ \/ job[a].kind = "spawn" /\ job'[a].pc = "background" /\ job'[a].result = job[a].result
         \/ job[a].kind # "spawn" /\ job'[a].pc = "release"
  BY <1>0, AfterDelegationJob DEF UpdateDelegation
<1>2. UserCount(a) /\ SlotCount(a)
  BY <1>0, <1>1 DEF UpdateDelegation, UserCount, SlotCount, Counted, Holding
<1>3. SlotsAccounted'
  BY <1>1, <1>2, SlotsStep DEF DgInv
<1>4. /\ delegation' \in [Agents -> Settled \cup {"none", "running"}]
      /\ spoiled' \subseteq Agents /\ spoiled \subseteq spoiled'
      /\ \A b \in Agents \ {a} : delegation'[b] = delegation[b]
  BY <1>0 DEF UpdateDelegation, DgInv, DgTypeOK
<1>5. DgTypeOK'
  BY <1>1, <1>4 DEF UpdateDelegation, DgInv, DgTypeOK
<1>6. Written(a)'
  <2>1. CASE a \in cut
    BY <2>1 DEF UpdateDelegation, Written
  <2>2. CASE a \notin cut
    <3>1. delegation'[a] = job[a].result
      BY <2>2 DEF UpdateDelegation, DgInv, DgTypeOK
    <3> QED
      BY <1>1, <3>1 DEF Written
  <2> QED
    BY <2>1, <2>2
<1>7. \A b \in Agents : Written(b)'
  BY <1>1, <1>4, <1>6, WrittenStep DEF UpdateDelegation, DgInv
<1> QED
  BY <1>3, <1>5, <1>7 DEF DgInv

\* Its second, after which both tables say the same.
LEMMA UpdateBackgroundKeeps ==
  ASSUME DgInv, NEW a \in Agents, UpdateBackground(a)
  PROVE  DgInv'
<1>0. job \in [Agents -> Job] /\ job[a] \in Job /\ job[a].pc = "background" /\ job[a].result \in Settled
  BY DEF UpdateBackground, At, DgInv, DgTypeOK, Job
<1>1. job' \in [Agents -> Job] /\ Moves(a) /\ job'[a].pc = "release" /\ job'[a].kind = job[a].kind
  BY <1>0, EndJob DEF UpdateBackground, ToRelease, NoJob, PC, Settled
<1>2. UserCount(a) /\ SlotCount(a)
  BY <1>0, <1>1 DEF UpdateBackground, UserCount, SlotCount, Counted, Holding
<1>3. SlotsAccounted'
  BY <1>1, <1>2, SlotsStep DEF DgInv
<1>4. /\ background' \in [Agents -> Settled \cup {"none", "running"}]
      /\ background'[a] = job[a].result
      /\ \A b \in Agents \ {a} : background'[b] = background[b]
  BY <1>0 DEF UpdateBackground, DgInv, DgTypeOK
<1>5. DgTypeOK'
  BY <1>1, <1>4 DEF UpdateBackground, DgInv, DgTypeOK
<1>6. Written(a)'
  BY <1>0, <1>1, <1>4 DEF UpdateBackground, Written, DgInv
<1>7. \A b \in Agents : Written(b)'
  BY <1>1, <1>4, <1>6, WrittenStep DEF UpdateBackground, DgInv
<1> QED
  BY <1>3, <1>5, <1>7 DEF DgInv

\* A write that fails, a panic: the agent counts as disturbed and goes on.
LEMMA FaultKeeps ==
  ASSUME DgInv, NEW a \in Agents, WriteFails(a) \/ Panic(a)
  PROVE  DgInv'
<1>0. /\ job \in [Agents -> Job] /\ job[a].pc \in {"loop", "tools", "delegation", "background"}
      /\ UNCHANGED <<perUser, delegation, background, users, slots, cancelling, late, cut>>
      /\ spoiled' = spoiled \cup {a} /\ faults' \in 0..MaxFaults
  BY DEF WriteFails, Panic, Fault, At, DgInv, DgTypeOK
<1>1. job' \in [Agents -> Job] /\ Moves(a) /\ job'[a].pc \in {"background", "release"}
  <2>1. CASE ToRelease(a)
    BY <1>0, <2>1, EndJob DEF ToRelease, NoJob, PC, Settled
  <2>2. CASE At(a, "delegation") /\ AfterDelegation(a)
    BY <1>0, <2>2, AfterDelegationJob
  <2> QED
    BY <2>1, <2>2 DEF WriteFails, Panic
<1>2. UserCount(a) /\ SlotCount(a)
  BY <1>0, <1>1 DEF UserCount, SlotCount, Counted, Holding
<1>3. SlotsAccounted'
  BY <1>1, <1>2, SlotsStep DEF DgInv
<1>4. DgTypeOK'
  BY <1>0, <1>1 DEF DgInv, DgTypeOK
<1>5. Written(a)'
  BY <1>0 DEF Written
<1>6. \A b \in Agents : Written(b)'
  BY <1>0, <1>1, <1>5, WrittenStep DEF DgInv
<1> QED
  BY <1>3, <1>4, <1>6 DEF DgInv

\* The slot is given back,
LEMMA ReleaseKeeps ==
  ASSUME DgInv, NEW a \in Agents, Release(a)
  PROVE  DgInv'
<1>0. job \in [Agents -> Job] /\ job[a].pc = "release"
  BY DEF Release, At, DgInv, DgTypeOK
<1>1. job' \in [Agents -> Job] /\ Moves(a) /\ job'[a].pc = "leave" /\ job'[a].kind = job[a].kind
  BY <1>0, GotoJob DEF Release, PC
<1>2. UserCount(a) /\ SlotCount(a) /\ slots' \in 0..MaxRunning
  BY <1>0, <1>1 DEF Release, UserCount, SlotCount, Counted, Holding, DgInv, DgTypeOK
<1>3. SlotsAccounted'
  BY <1>1, <1>2, SlotsStep DEF DgInv
<1>4. DgTypeOK'
  BY <1>1, <1>2 DEF Release, DgInv, DgTypeOK
<1>5. Written(a)'
  BY <1>0, <1>1 DEF Release, Written, DgInv
<1>6. \A b \in Agents : Written(b)'
  BY <1>1, <1>5, WrittenStep DEF Release, DgInv
<1> QED
  BY <1>3, <1>4, <1>6 DEF DgInv

\* and then the user's count.
LEMMA LeaveKeeps ==
  ASSUME DgInv, NEW a \in Agents, Leave(a)
  PROVE  DgInv'
<1>0. job \in [Agents -> Job] /\ job[a].pc = "leave" /\ users > 0 /\ users \in Nat
  BY CountedPositive DEF Leave, At, DgInv, DgTypeOK, Counted
<1>1. /\ job' \in [Agents -> Job] /\ Moves(a) /\ job'[a].pc = "done" /\ job'[a].kind = job[a].kind
      /\ late' \subseteq late /\ cut' \subseteq cut
  BY <1>0, OverJob DEF Leave
<1>2. UserCount(a) /\ SlotCount(a) /\ users' \in 0..perUser
  BY <1>0, <1>1 DEF Leave, UserCount, SlotCount, Counted, Holding, DgInv, DgTypeOK
<1>3. SlotsAccounted'
  BY <1>1, <1>2, SlotsStep DEF DgInv
<1>4. DgTypeOK'
  BY <1>1, <1>2 DEF Leave, DgInv, DgTypeOK
<1>5. Written(a)'
  BY <1>0, <1>1 DEF Leave, Written, DgInv
<1>6. \A b \in Agents : Written(b)'
  BY <1>1, <1>5, WrittenStep DEF Leave, DgInv
<1> QED
  BY <1>3, <1>4, <1>6 DEF DgInv

\* agent.cancel overwrites a running row only: nothing that is written is lost.
LEMMA CancelKeeps ==
  ASSUME DgInv, NEW a \in Agents, CancelBackground(a) \/ CancelDelegation(a)
  PROVE  DgInv'
<1>0. /\ Moves(a) /\ UNCHANGED <<perUser, job, users, slots, late, cut, faults, spoiled>>
      /\ cancelling' \subseteq Agents
  BY DEF CancelBackground, CancelDelegation, Moves, DgInv, DgTypeOK
<1>1. UserCount(a) /\ SlotCount(a)
  BY <1>0 DEF UserCount, SlotCount, Counted, Holding
<1>2. SlotsAccounted'
  BY <1>0, <1>1, SlotsStep DEF DgInv
<1>3. /\ delegation' \in [Agents -> Settled \cup {"none", "running"}]
      /\ background' \in [Agents -> Settled \cup {"none", "running"}]
      /\ \A b \in Agents \ {a} : delegation'[b] = delegation[b] /\ background'[b] = background[b]
      /\ delegation[a] # "running" => delegation'[a] = delegation[a]
      /\ background[a] # "running" => background'[a] = background[a]
  BY DEF CancelBackground, CancelDelegation, StillRunning, DgInv, DgTypeOK, Settled
<1>4. DgTypeOK'
  BY <1>0, <1>3 DEF DgInv, DgTypeOK
<1>5. Written(a)'
  BY <1>0, <1>3 DEF Written, DgInv, DgTypeOK, Job, Settled
<1>6. \A b \in Agents : Written(b)'
  BY <1>0, <1>3, <1>5, WrittenStep DEF DgInv
<1> QED
  BY <1>2, <1>4, <1>6 DEF DgInv

\* Time moves no goroutine.
LEMMA TimersKeep ==
  ASSUME DgInv, Timers
  PROVE  DgInv'
<1>0. /\ UNCHANGED <<perUser, job, delegation, background, users, slots, cancelling, faults, spoiled>>
      /\ late' \subseteq Agents /\ cut' \subseteq Agents
  BY DEF Timers, Timeout, CallerEnds, DgInv, DgTypeOK
<1>1. DgTypeOK'
  BY <1>0 DEF DgInv, DgTypeOK
<1>2. SlotsAccounted'
  BY <1>0 DEF DgInv, SlotsAccounted, Counted, Holding
<1>3. \A a \in Agents : Written(a)'
  BY <1>0 DEF DgInv, Written
<1> QED
  BY <1>1, <1>2, <1>3 DEF DgInv

\* After a crash nobody holds a slot, and nobody was left undisturbed.
LEMMA CrashKeeps ==
  ASSUME DgInv, Crash
  PROVE  DgInv'
<1> DEFINE ended(a) == [NoJob EXCEPT !.pc = "done", !.kind = job[a].kind]
<1>1. job \in [Agents -> Job]
  BY DEF DgInv, DgTypeOK
<1>2. \A a \in Agents : job'[a] = IF Active(a) THEN ended(a) ELSE job[a]
  BY DEF Crash
<1>3. \A a \in Agents : ended(a) = [pc |-> "done", kind |-> job[a].kind, parent |-> Nobody,
                                    within |-> {}, result |-> "failed"]
  BY EndedJob
<1>4. \A a \in Agents : ended(a) \in Job /\ ended(a).pc = "done"
  <2>1. SUFFICES ASSUME NEW a \in Agents PROVE ended(a) \in Job /\ ended(a).pc = "done"
    OBVIOUS
  <2>2. job[a].kind \in {"delegate", "spawn"}
    BY <1>1 DEF Job
  <2> HIDE DEF ended
  <2> QED
    BY <1>3, <2>2 DEF Job, PC, Settled
<1>5. job' \in [Agents -> Job]
  BY <1>1, <1>4 DEF Crash
<1>6. \A a \in Agents : job'[a].pc \in {"none", "done"}
  BY <1>2, <1>4 DEF Active
<1>7. SlotsAccounted'
  <2>1. {a \in Agents : Counted(a)'} = {} /\ {a \in Agents : Holding(a)'} = {}
    BY <1>6 DEF Counted, Holding
  <2>2. users' = 0 /\ slots' = 0
    BY DEF Crash
  <2> QED
    BY <2>1, <2>2, FS_EmptySet DEF SlotsAccounted, Counted, Holding
<1>8. spoiled' \subseteq Agents /\ faults' \in 0..MaxFaults
  <2>1. faults' \in 0..MaxFaults
    <3>1. faults \in 0..MaxFaults
      BY DEF DgInv, DgTypeOK
    <3>2. faults > 0 /\ faults' = faults - 1
      BY DEF Crash
    <3> QED
      BY <3>1, <3>2
  <2>2. spoiled \subseteq Agents /\ spoiled' = spoiled \cup {a \in Agents : Active(a)}
    BY DEF Crash, DgInv, DgTypeOK
  <2> QED
    BY <2>1, <2>2
<1>9. DgTypeOK'
  <2>1. /\ users' = 0 /\ slots' = 0 /\ cancelling' = {} /\ late' = {} /\ cut' = {}
        /\ UNCHANGED <<perUser, delegation, background>>
    BY DEF Crash
  <2> QED
    BY <1>5, <1>8, <2>1 DEF DgInv, DgTypeOK
<1>10. ASSUME NEW a \in Agents PROVE Written(a)'
  <2>1. CASE Active(a)
    BY <2>1 DEF Crash, Written
  <2>2. CASE ~Active(a)
    BY <1>2, <2>2 DEF Crash, Written, DgInv, Active
  <2> QED
    BY <2>1, <2>2
<1> QED
  BY <1>7, <1>9, <1>10 DEF DgInv

\* Every step keeps the invariant.
LEMMA DgStepInv == DgInv /\ [DgNext]_dgvars => DgInv'
<1> SUFFICES ASSUME DgInv, [DgNext]_dgvars PROVE DgInv'
  OBVIOUS
<1>1. ASSUME NEW a \in Agents, ToolNext(a) PROVE DgInv'
  BY <1>1, ToolKeeps, CancelKeeps DEF ToolNext
<1>2. ASSUME NEW a \in Agents, Advance(a) PROVE DgInv'
  BY <1>2, AcquireUserKeeps, AcquireSlotKeeps, GiveUpKeeps, LoopKeeps, UpdateDelegationKeeps,
     UpdateBackgroundKeeps, ReleaseKeeps, LeaveKeeps DEF Advance
<1>3. ASSUME NEW a \in Agents, WriteFails(a) \/ Panic(a) PROVE DgInv'
  BY <1>3, FaultKeeps
<1>4. CASE Timers
  BY <1>4, TimersKeep
<1>5. CASE Crash
  BY <1>5, CrashKeeps
<1>6. CASE UNCHANGED dgvars
  <2>1. DgTypeOK'
    BY <1>6 DEF dgvars, DgInv, DgTypeOK
  <2>2. SlotsAccounted'
    BY <1>6 DEF dgvars, DgInv, SlotsAccounted, Counted, Holding
  <2>3. \A a \in Agents : Written(a)'
    BY <1>6 DEF dgvars, DgInv, Written
  <2> QED
    BY <2>1, <2>2, <2>3 DEF DgInv
<1> QED
  BY <1>1, <1>2, <1>3, <1>4, <1>5, <1>6 DEF DgNext

\* The semaphores, the two tables and the places of the goroutines are well
\* typed; neither semaphore exceeds its limit (agent.go:497-558).
THEOREM DgTypeCorrect == DgSpec => []DgTypeOK
<1>1. DgInv => DgTypeOK
  BY DEF DgInv
<1> QED
  BY <1>1, DgInitInv, DgStepInv, PTL DEF DgSpec

\* The counters are exactly the sub-agents that hold something: no slot is
\* lost or used twice (agent.go:497-558, tools.go:115-125).
THEOREM NoSlotLost == DgSpec => []SlotsAccounted
<1>1. DgInv => SlotsAccounted
  BY DEF DgInv
<1> QED
  BY <1>1, DgInitInv, DgStepInv, PTL DEF DgSpec

\* The tables agree on a background agent that ended undisturbed, cancelled
\* meanwhile or not (tools.go:244-245, 334-339).
THEOREM TablesStayInStep == DgSpec => []TablesAgree
<1>1. DgInv => TablesAgree
  BY DEF DgInv, Written, TablesAgree, At
<1> QED
  BY <1>1, DgInitInv, DgStepInv, PTL DEF DgSpec

-----------------------------------------------------------------------------
(* McpClient: type correctness, that no failure leaks a process or a waiting  *)
(* request, that tools come back, and that no call tears down a connection    *)
(* that works. A caller who has torn a connection down is alone until it has  *)
(* put another in its place or given up: with nothing connected nobody else   *)
(* gets past the head of Reconnect.                                           *)

HIDE DelegationAssumption
USE McpAssumption DEF McpAssumption


\* Whoever stops a process or shakes hands holds the lock; whoever starts one
\* is alone, and nothing is connected.
Starting(c) == call[c].pc \in {"start", "lock", "handshake"}
OneReconnects ==
  /\ \A c \in Callers : In(c, "closing") => holder = c /\ conn # 0
  /\ \A c \in Callers : In(c, "handshake") => holder = c
  /\ \A c \in Callers : call[c].pc \in {"lock", "handshake"} => Gen(c) # 0
  /\ \A c \in Callers : Starting(c) => conn = 0
  /\ \A c, d \in Callers : Starting(c) /\ Starting(d) => c = d

\* A call whose answer has come has no request left, and starts without one.
AnswersTaken(c) ==
  /\ call[c].pc \in {"lookup", "register"} => ~call[c].answered
  /\ call[c].pc \in {"write", "pipe", "wait"} /\ call[c].answered =>
       \A g \in Gens : \A id \in pending[g] : id[1] # c

McInv ==
  McTypeOK /\ OneReconnects /\ NothingLeaks /\ ToolsComeBack /\ \A c \in Callers : AnswersTaken(c)

PCs == {"lookup", "register", "write", "pipe", "wait", "reconnect", "closing",
        "start", "lock", "handshake", "hook", "tools", "done"}

\* The call of c alone has changed, and it is now at one of pcs.
Moved(c, pcs) ==
  /\ call' \in [Callers -> McCall]
  /\ call'[c].pc \in pcs
  /\ \A d \in Callers : d # c => call'[d] = call[d]

-----------------------------------------------------------------------------
(* What a step of a call does to the calls *)

\* A call that goes on moves alone and keeps its request.
LEMMA GoToMoves ==
  ASSUME McTypeOK, NEW c \in Callers, NEW x \in PCs, GoTo(c, x)
  PROVE  Moved(c, {x}) /\ Gen(c)' = Gen(c) /\ Id(c)' = Id(c) /\ call'[c].answered = call[c].answered
<1>1. call' = [call EXCEPT ![c].pc = x] /\ call \in [Callers -> McCall]
  BY DEF GoTo, McTypeOK
<1>2. call'[c] = [call[c] EXCEPT !.pc = x] /\ \A d \in Callers : d # c => call'[d] = call[d]
  BY <1>1
<1>3. ASSUME NEW j, j = [call[c] EXCEPT !.pc = x]
      PROVE  /\ j \in McCall /\ j.pc = x /\ j.gen = call[c].gen /\ j.try = call[c].try
             /\ j.answered = call[c].answered
  BY <1>1, <1>3 DEF McCall, PCs
<1>4. /\ call'[c] \in McCall /\ call'[c].pc = x /\ call'[c].gen = call[c].gen
      /\ call'[c].try = call[c].try /\ call'[c].answered = call[c].answered
  BY <1>2, <1>3
<1>5. call' \in [Callers -> McCall]
  BY <1>1, <1>2, <1>4
<1> QED
  BY <1>2, <1>4, <1>5 DEF Moved, Gen, Id

\* A call that returns moves alone.
LEMMA ReturnMoves ==
  ASSUME McTypeOK, NEW c \in Callers, Return(c)
  PROVE  Moved(c, {"done"})
<1>1. ASSUME NEW j, j = [NewCall EXCEPT !.pc = "done"]
      PROVE  j \in McCall /\ j.pc = "done"
  <2>1. 0 \in 0..MaxGen
    OBVIOUS
  <2>2. j = [pc |-> "done", try |-> 1, gen |-> 0, answered |-> FALSE, late |-> FALSE]
    BY <1>1 DEF NewCall
  <2> QED
    BY <2>1, <2>2 DEF McCall
<1>2. call' = [call EXCEPT ![c] = [NewCall EXCEPT !.pc = "done"]] /\ call \in [Callers -> McCall]
  BY DEF Return, McTypeOK
<1>3. call'[c] \in McCall /\ call'[c].pc = "done"
  BY <1>1, <1>2
<1> QED
  BY <1>2, <1>3 DEF Moved

\* So does one that tries again, with no answer.
LEMMA AgainMoves ==
  ASSUME McTypeOK, NEW c \in Callers, Again(c)
  PROVE  Moved(c, {"lookup"}) /\ ~call'[c].answered
<1>1. call' = [call EXCEPT ![c] = [NewCall EXCEPT !.try = 2, !.late = call[c].late]]
      /\ call \in [Callers -> McCall]
  BY DEF Again, McTypeOK
<1>2. call[c].late \in BOOLEAN
  BY <1>1 DEF McCall
<1>3. ASSUME NEW j, j = [NewCall EXCEPT !.try = 2, !.late = call[c].late]
      PROVE  j \in McCall /\ j.pc = "lookup" /\ ~j.answered
  <2>1. 0 \in 0..MaxGen
    OBVIOUS
  <2>2. j = [pc |-> "lookup", try |-> 2, gen |-> 0, answered |-> FALSE, late |-> call[c].late]
    BY <1>3 DEF NewCall
  <2> QED
    BY <1>2, <2>1, <2>2 DEF McCall
<1>4. call'[c] \in McCall /\ call'[c].pc = "lookup" /\ ~call'[c].answered
  BY <1>1, <1>3
<1> QED
  BY <1>1, <1>4 DEF Moved

\* A call that failed reconnects or returns.
LEMMA FailedMoves ==
  ASSUME McTypeOK, NEW c \in Callers, Failed(c)
  PROVE  Moved(c, {"reconnect", "done"})
<1>1. CASE GoTo(c, "reconnect")
  <2>1. Moved(c, {"reconnect"})
    BY <1>1, GoToMoves DEF PCs
  <2> QED
    BY <2>1 DEF Moved
<1>2. CASE Return(c)
  BY <1>2, ReturnMoves DEF Moved
<1> QED
  BY <1>1, <1>2 DEF Failed

\* A call finds a connection, or a process it has started.
LEMMA TakesGen ==
  ASSUME McTypeOK, NEW c \in Callers, NEW x \in PCs, NEW g \in 0..MaxGen,
         call' = [call EXCEPT ![c].pc = x, ![c].gen = g]
  PROVE  Moved(c, {x}) /\ Gen(c)' = g /\ call'[c].answered = call[c].answered
<1>1. call \in [Callers -> McCall]
  BY DEF McTypeOK
<1>2. call'[c] = [call[c] EXCEPT !.pc = x, !.gen = g] /\ \A d \in Callers : d # c => call'[d] = call[d]
  BY <1>1
<1>3. ASSUME NEW j, j = [call[c] EXCEPT !.pc = x, !.gen = g]
      PROVE  j \in McCall /\ j.pc = x /\ j.gen = g /\ j.answered = call[c].answered
  BY <1>1, <1>3 DEF McCall, PCs
<1>4. call'[c] \in McCall /\ call'[c].pc = x /\ call'[c].gen = g /\ call'[c].answered = call[c].answered
  BY <1>2, <1>3
<1>5. call' \in [Callers -> McCall]
  BY <1>1, <1>2, <1>4
<1> QED
  BY <1>2, <1>4, <1>5 DEF Moved, Gen

\* What McTypeOK says of the parts of a call.
LEMMA TypeParts ==
  ASSUME McTypeOK
  PROVE  /\ \A c \in Callers : call[c] \in McCall /\ Gen(c) \in 0..MaxGen /\ Id(c) \in Ids
         /\ \A g \in Gens : pending[g] \subseteq Ids /\ asked[g] \subseteq Ids /\ said[g] \subseteq Ids
         /\ \A c \in Callers : Id(c)[1] = c /\ c # Free
BY DEF McTypeOK, McCall, Gen, Id, Ids

-----------------------------------------------------------------------------
(* What is left alone keeps its part of the invariant *)

\* Requests of the other calls stay, or are taken; those of c are those it
\* waits for and has no answer to.
RequestsAfter(c) ==
  \A g \in Gens : \A id \in pending'[g] :
    \/ id \in pending[g] /\ id[1] # c
    \/ id = Id(c)' /\ Gen(c)' = g /\ call'[c].pc \in {"write", "pipe", "wait"} /\ ~call'[c].answered

\* A call that moves with its own request alone leaves no request behind.
LEMMA RequestsKept ==
  ASSUME McInv, NEW c \in Callers, NEW pcs, Moved(c, pcs), RequestsAfter(c),
         call'[c].pc \in {"lookup", "register"} => ~call'[c].answered
  PROVE  NoRequestLeaks' /\ \A d \in Callers : AnswersTaken(d)'
<1>1. ASSUME NEW g \in Gens, NEW id \in pending'[g]
      PROVE  call'[id[1]].pc \in {"write", "pipe", "wait"} /\ Gen(id[1])' = g /\ Id(id[1])' = id
  <2>1. CASE id \in pending[g] /\ id[1] # c
    <3>1. id[1] \in Callers
      BY <2>1, TypeParts DEF McInv, Ids
    <3>2. call'[id[1]] = call[id[1]]
      BY <2>1, <3>1 DEF Moved
    <3>3. call[id[1]].pc \in {"write", "pipe", "wait"} /\ Gen(id[1]) = g /\ Id(id[1]) = id
      BY <2>1 DEF McInv, NothingLeaks, NoRequestLeaks
    <3> QED
      BY <3>2, <3>3 DEF Gen, Id
  <2>2. CASE id = Id(c)' /\ Gen(c)' = g /\ call'[c].pc \in {"write", "pipe", "wait"}
    BY <2>2 DEF Id
  <2> QED
    BY <2>1, <2>2 DEF RequestsAfter
<1>2. ASSUME NEW d \in Callers, d # c
      PROVE  AnswersTaken(d)'
  <2>1. call'[d] = call[d] /\ AnswersTaken(d)
    BY <1>2 DEF Moved, McInv
  <2>2. \A g \in Gens : \A id \in pending'[g] : id[1] = d => id \in pending[g]
    BY <1>2 DEF RequestsAfter, Id
  <2> QED
    BY <2>1, <2>2 DEF AnswersTaken
<1>3. AnswersTaken(c)'
  BY DEF AnswersTaken, RequestsAfter, Id
<1> QED
  BY <1>1, <1>2, <1>3 DEF NoRequestLeaks

\* A call that waits for nothing has no request.
LEMMA NoRequest ==
  ASSUME McInv, NEW c \in Callers, call[c].pc \notin {"write", "pipe", "wait"}
  PROVE  \A g \in Gens : \A id \in pending[g] : id[1] # c
BY DEF McInv, NothingLeaks, NoRequestLeaks

\* Outside Reconnect a call changes nothing but itself and its requests.
LEMMA CallSide ==
  ASSUME McInv, NEW c \in Callers,
         Moved(c, {"register", "write", "pipe", "wait", "reconnect", "done"}),
         call[c].pc \in {"lookup", "register", "write", "pipe", "wait"},
         UNCHANGED <<conn, proc, holder, tools>>
  PROVE  OneReconnects' /\ NoProcessLeaks' /\ ToolsComeBack'
<1>1. OneReconnects'
  BY DEF McInv, OneReconnects, In, Starting, Moved, Gen
<1>2. NoProcessLeaks'
  <2> SUFFICES ASSUME NEW g \in Gens, proc[g] = "up", g # conn
               PROVE  \E d \in Callers : call'[d].pc \in {"lock", "handshake"} /\ Gen(d)' = g
    BY DEF NoProcessLeaks
  <2>1. PICK d \in Callers : call[d].pc \in {"lock", "handshake"} /\ Gen(d) = g
    BY DEF McInv, NothingLeaks, NoProcessLeaks
  <2>2. call'[d] = call[d]
    BY <2>1 DEF Moved
  <2> QED
    BY <2>1, <2>2 DEF Gen
<1>3. ToolsComeBack'
  <2>1. ASSUME NEW d \in Callers, Reconnecting(d)
        PROVE  Reconnecting(d)'
    BY <2>1 DEF Reconnecting, Moved
  <2> QED
    BY <2>1 DEF McInv, ToolsComeBack
<1> QED
  BY <1>1, <1>2, <1>3

-----------------------------------------------------------------------------
(* The steps of a call *)

\* A call looks up what is connected.
LEMMA LookupInv ==
  ASSUME McInv, NEW c \in Callers, Lookup(c)
  PROVE  McInv'
<1>1. Moved(c, {"register", "reconnect", "done"})
  <2>1. CASE conn = 0
    BY <2>1, FailedMoves DEF McInv, Lookup, Moved
  <2>2. CASE conn # 0
    <3>1. Moved(c, {"register"})
      BY <2>2, TakesGen DEF McInv, McTypeOK, Lookup, PCs
    <3> QED
      BY <3>1 DEF Moved
  <2> QED
    BY <2>1, <2>2
<1>2. McTypeOK'
  BY <1>1 DEF McInv, McTypeOK, Lookup, Moved
<1>3. OneReconnects' /\ NoProcessLeaks' /\ ToolsComeBack'
  <2>1. Moved(c, {"register", "write", "pipe", "wait", "reconnect", "done"})
    BY <1>1 DEF Moved
  <2> QED
    BY <2>1, CallSide DEF Lookup, In
<1>4. NoRequestLeaks' /\ \A d \in Callers : AnswersTaken(d)'
  <2>1. pending' = pending /\ call[c].pc \notin {"write", "pipe", "wait"} /\ ~call[c].answered
    BY DEF Lookup, In, McInv, AnswersTaken
  <2>2. RequestsAfter(c)
    BY <2>1, NoRequest DEF RequestsAfter
  <2>3. call'[c].pc \in {"lookup", "register"} => ~call'[c].answered
    <3>1. CASE conn = 0
      BY <3>1, FailedMoves DEF McInv, Lookup, Moved
    <3>2. CASE conn # 0
      BY <2>1, <3>2, TakesGen DEF McInv, McTypeOK, Lookup, PCs
    <3> QED
      BY <3>1, <3>2
  <2> QED
    BY <1>1, <2>2, <2>3, RequestsKept
<1> QED
  BY <1>2, <1>3, <1>4 DEF McInv, NothingLeaks

\* It registers its request with the transport it uses,
LEMMA RegisterInv ==
  ASSUME McInv, NEW c \in Callers, Register(c)
  PROVE  McInv'
<1>1. \/ Moved(c, {"reconnect", "done"}) /\ pending' = pending
      \/ /\ Moved(c, {"write"}) /\ Gen(c)' = Gen(c) /\ Id(c)' = Id(c) /\ ~call'[c].answered
         /\ pending' = [pending EXCEPT ![Gen(c)] = @ \cup {Id(c)}]
  <2>1. ~call[c].answered
    BY DEF Register, In, McInv, AnswersTaken
  <2> QED
    BY <2>1, FailedMoves, GoToMoves DEF McInv, Register, PCs
<1>2. McTypeOK'
  <2>1. call' \in [Callers -> McCall]
    BY <1>1 DEF Moved
  <2>2. pending' \in [Gens -> SUBSET Ids]
    BY <1>1, TypeParts DEF McInv, McTypeOK
  <2> QED
    BY <2>1, <2>2 DEF McInv, McTypeOK, Register
<1>3. OneReconnects' /\ NoProcessLeaks' /\ ToolsComeBack'
  <2>1. Moved(c, {"register", "write", "pipe", "wait", "reconnect", "done"})
    BY <1>1 DEF Moved
  <2> QED
    BY <2>1, CallSide DEF Register, In
<1>4. NoRequestLeaks' /\ \A d \in Callers : AnswersTaken(d)'
  <2>1. \A g \in Gens : \A id \in pending[g] : id[1] # c
    BY NoRequest DEF Register, In
  <2>2. CASE Moved(c, {"reconnect", "done"}) /\ pending' = pending
    BY <2>1, <2>2, RequestsKept DEF RequestsAfter, Moved
  <2>3. CASE /\ Moved(c, {"write"}) /\ Gen(c)' = Gen(c) /\ Id(c)' = Id(c) /\ ~call'[c].answered
             /\ pending' = [pending EXCEPT ![Gen(c)] = @ \cup {Id(c)}]
    <3>1. \A g \in Gens : \A id \in pending'[g] : id \in pending[g] \/ (id = Id(c) /\ g = Gen(c))
      BY <2>3 DEF McInv, McTypeOK
    <3>2. call'[c].pc = "write"
      BY <2>3 DEF Moved
    <3>3. RequestsAfter(c)
      BY <2>1, <2>3, <3>1, <3>2 DEF RequestsAfter
    <3> QED
      BY <2>3, <3>2, <3>3, RequestsKept
  <2> QED
    BY <1>1, <2>2, <2>3
<1> QED
  BY <1>2, <1>3, <1>4 DEF McInv, NothingLeaks

\* What Unregister leaves.
LEMMA Unregistered ==
  ASSUME McInv, NEW c \in Callers, Unregister(c)
  PROVE  /\ pending' \in [Gens -> SUBSET Ids]
         /\ \A g \in Gens : \A id \in pending'[g] : id \in pending[g] /\ id[1] # c
<1>1. pending \in [Gens -> SUBSET Ids] /\ pending' = [pending EXCEPT ![Gen(c)] = @ \ {Id(c)}]
  BY DEF McInv, McTypeOK, Unregister
<1>2. \A g \in Gens : pending'[g] = IF g = Gen(c) THEN pending[g] \ {Id(c)} ELSE pending[g]
  BY <1>1
<1>3. \A g \in Gens : \A id \in pending[g] : id[1] = c => Gen(c) = g /\ Id(c) = id
  BY DEF McInv, NothingLeaks, NoRequestLeaks
<1> QED
  BY <1>1, <1>2, <1>3

\* A call that goes on within Send keeps its request.
LEMMA WithinSend ==
  ASSUME McInv, NEW c \in Callers, NEW x \in {"pipe", "wait"}, GoTo(c, x),
         call[c].pc \in {"write", "pipe"}, UNCHANGED <<conn, proc, holder, tools, pending>>
  PROVE  /\ call' \in [Callers -> McCall] /\ NoRequestLeaks' /\ \A d \in Callers : AnswersTaken(d)'
         /\ OneReconnects' /\ NoProcessLeaks' /\ ToolsComeBack'
<1>1. Moved(c, {x}) /\ Gen(c)' = Gen(c) /\ Id(c)' = Id(c) /\ call'[c].answered = call[c].answered
  BY GoToMoves DEF McInv, PCs
<1>2. call'[c].pc = x /\ Moved(c, {"register", "write", "pipe", "wait", "reconnect", "done"})
  BY <1>1 DEF Moved
<1>3. OneReconnects' /\ NoProcessLeaks' /\ ToolsComeBack'
  BY <1>2, CallSide
<1>4. NoRequestLeaks' /\ \A d \in Callers : AnswersTaken(d)'
  <2>1. \A g \in Gens : \A id \in pending[g] :
          id[1] # c \/ (id = Id(c) /\ g = Gen(c) /\ ~call[c].answered)
    BY DEF McInv, NothingLeaks, NoRequestLeaks, AnswersTaken
  <2>2. RequestsAfter(c)
    BY <1>1, <1>2, <2>1 DEF RequestsAfter
  <2> QED
    BY <1>1, <1>2, <2>2, RequestsKept
<1> QED
  BY <1>2, <1>3, <1>4 DEF Moved

\* takes the transport's lock,
LEMMA TakePipeInv ==
  ASSUME McInv, NEW c \in Callers, TakePipe(c)
  PROVE  McInv'
<1>1. /\ call' \in [Callers -> McCall] /\ NoRequestLeaks' /\ \A d \in Callers : AnswersTaken(d)'
      /\ OneReconnects' /\ NoProcessLeaks' /\ ToolsComeBack'
  BY WithinSend DEF TakePipe, In
<1>2. McTypeOK'
  BY <1>1 DEF McInv, McTypeOK, TakePipe
<1> QED
  BY <1>1, <1>2 DEF McInv, NothingLeaks

\* writes it
LEMMA WriteInv ==
  ASSUME McInv, NEW c \in Callers, Write(c)
  PROVE  McInv'
<1>1. /\ call' \in [Callers -> McCall] /\ NoRequestLeaks' /\ \A d \in Callers : AnswersTaken(d)'
      /\ OneReconnects' /\ NoProcessLeaks' /\ ToolsComeBack'
  BY WithinSend DEF Write, In
<1>2. McTypeOK'
  <2>1. asked \in [Gens -> SUBSET Ids] /\ asked' = [asked EXCEPT ![Gen(c)] = @ \cup {Id(c)}] /\ Id(c) \in Ids
    BY TypeParts DEF McInv, McTypeOK, Write
  <2>2. asked' \in [Gens -> SUBSET Ids]
    BY <2>1
  <2> QED
    BY <1>1, <2>2 DEF McInv, McTypeOK, Write
<1> QED
  BY <1>1, <1>2 DEF McInv, NothingLeaks

\* unless the process or its input has gone,
LEMMA PipeBreaksInv ==
  ASSUME McInv, NEW c \in Callers, PipeBreaks(c)
  PROVE  McInv'
<1>1. Moved(c, {"reconnect", "done"}) /\ Unregister(c)
  BY FailedMoves DEF McInv, PipeBreaks
<1>2. /\ pending' \in [Gens -> SUBSET Ids]
      /\ \A g \in Gens : \A id \in pending'[g] : id \in pending[g] /\ id[1] # c
  BY <1>1, Unregistered
<1>3. McTypeOK'
  BY <1>1, <1>2 DEF McInv, McTypeOK, PipeBreaks, Moved
<1>4. OneReconnects' /\ NoProcessLeaks' /\ ToolsComeBack'
  <2>1. Moved(c, {"register", "write", "pipe", "wait", "reconnect", "done"})
    BY <1>1 DEF Moved
  <2> QED
    BY <2>1, CallSide DEF PipeBreaks, In
<1>5. NoRequestLeaks' /\ \A d \in Callers : AnswersTaken(d)'
  <2>1. RequestsAfter(c) /\ call'[c].pc \notin {"lookup", "register"}
    BY <1>1, <1>2 DEF RequestsAfter, Moved
  <2> QED
    BY <1>1, <2>1, RequestsKept
<1> QED
  BY <1>3, <1>4, <1>5 DEF McInv, NothingLeaks

\* and waits for an answer, the end of the transport or its deadline.
LEMMA AwaitInv ==
  ASSUME McInv, NEW c \in Callers, Await(c)
  PROVE  McInv'
<1>1. /\ Moved(c, {"reconnect", "done"})
      /\ Unregister(c) \/ (UNCHANGED pending /\ call[c].answered)
  BY FailedMoves, ReturnMoves DEF McInv, Await, Moved
<1>2. /\ pending' \in [Gens -> SUBSET Ids]
      /\ \A g \in Gens : \A id \in pending'[g] : id \in pending[g] /\ id[1] # c
  <2>1. CASE Unregister(c)
    BY <2>1, Unregistered
  <2>2. CASE UNCHANGED pending /\ call[c].answered
    BY <2>2 DEF McInv, McTypeOK, AnswersTaken, Await, In
  <2> QED
    BY <1>1, <2>1, <2>2
<1>3. McTypeOK'
  BY <1>1, <1>2 DEF McInv, McTypeOK, Await, Moved
<1>4. OneReconnects' /\ NoProcessLeaks' /\ ToolsComeBack'
  <2>1. Moved(c, {"register", "write", "pipe", "wait", "reconnect", "done"})
    BY <1>1 DEF Moved
  <2> QED
    BY <2>1, CallSide DEF Await, In
<1>5. NoRequestLeaks' /\ \A d \in Callers : AnswersTaken(d)'
  BY <1>1, <1>2, RequestsKept DEF RequestsAfter, Moved
<1> QED
  BY <1>3, <1>4, <1>5 DEF McInv, NothingLeaks

\* Where a call has no request, moving it on disturbs none.
LEMMA RequestsAside ==
  ASSUME McInv, NEW c \in Callers, NEW pcs, Moved(c, pcs), UNCHANGED pending,
         call[c].pc \notin {"write", "pipe", "wait"},
         call'[c].pc \in {"lookup", "register"} => ~call'[c].answered
  PROVE  NoRequestLeaks' /\ \A d \in Callers : AnswersTaken(d)'
BY NoRequest, RequestsKept DEF RequestsAfter

\* The holder of the lock closes the connection,
LEMMA TearDownInv ==
  ASSUME McInv, NEW c \in Callers, TearDown(c)
  PROVE  McInv'
<1>1. \/ conn = 0 /\ Moved(c, {"done"}) /\ UNCHANGED <<closed, holder>>
      \/ conn # 0 /\ Moved(c, {"closing"}) /\ closed' = closed \cup {conn} /\ holder' = c
  BY GoToMoves, ReturnMoves DEF McInv, TearDown, PCs
<1>2. McTypeOK'
  <2>1. conn # 0 => conn \in Gens
    BY DEF McInv, McTypeOK, Gens
  <2>2. closed' \subseteq Gens /\ holder' \in Callers \cup {Free}
    BY <1>1, <2>1 DEF McInv, McTypeOK
  <2> QED
    BY <1>1, <2>2 DEF McInv, McTypeOK, TearDown, Moved
<1>3. OneReconnects'
  BY <1>1 DEF McInv, OneReconnects, TearDown, In, Starting, Moved, Gen
<1>4. NoProcessLeaks'
  BY <1>1 DEF McInv, NothingLeaks, NoProcessLeaks, TearDown, In, Moved, Gen
<1>5. ToolsComeBack'
  BY <1>1 DEF McInv, ToolsComeBack, Reconnecting, TearDown, Moved
<1>6. NoRequestLeaks' /\ \A d \in Callers : AnswersTaken(d)'
  BY <1>1, RequestsAside DEF TearDown, In, Moved
<1> QED
  BY <1>2, <1>3, <1>4, <1>5, <1>6 DEF McInv, NothingLeaks

\* stops its process and forgets it; from then on nothing is connected.
LEMMA ForgetInv ==
  ASSUME McInv, NEW c \in Callers, Forget(c)
  PROVE  McInv'
<1>1. Moved(c, {"start"})
  BY GoToMoves DEF McInv, Forget, PCs
<1>2. McTypeOK'
  <2>1. proc' \in [Gens -> {"none", "up", "gone"}] /\ asked' \in [Gens -> SUBSET Ids]
    BY DEF McInv, McTypeOK, Forget, Stopped
  <2>2. conn' \in 0..MaxGen
    BY DEF Forget
  <2> QED
    BY <1>1, <2>1, <2>2 DEF McInv, McTypeOK, Forget, Moved
<1>3. conn # 0 /\ holder = c /\ holder' = Free /\ conn' = 0 /\ c # Free /\ In(c, "closing")
  BY DEF McInv, OneReconnects, Forget
<1>4. OneReconnects'
  <2>1. \A d \in Callers : ~Starting(d)
    BY <1>3 DEF McInv, OneReconnects
  <2>2. \A d \in Callers : d # c => ~In(d, "closing")
    BY <1>3 DEF McInv, OneReconnects
  <2> QED
    BY <1>1, <1>3, <2>1, <2>2 DEF OneReconnects, In, Starting, Moved, Gen
<1>5. NoProcessLeaks'
  <2> SUFFICES ASSUME NEW g \in Gens, proc'[g] = "up"
               PROVE  \E d \in Callers : call'[d].pc \in {"lock", "handshake"} /\ Gen(d)' = g
    BY DEF NoProcessLeaks
  <2>1. proc[g] = "up" /\ g # conn
    BY DEF Forget, Stopped, McInv, McTypeOK
  <2>2. PICK d \in Callers : call[d].pc \in {"lock", "handshake"} /\ Gen(d) = g
    BY <2>1 DEF McInv, NothingLeaks, NoProcessLeaks
  <2> QED
    BY <1>1, <1>3, <2>2 DEF Moved, In, Gen
<1>6. ToolsComeBack'
  BY <1>3 DEF ToolsComeBack
<1>7. NoRequestLeaks' /\ \A d \in Callers : AnswersTaken(d)'
  BY <1>1, RequestsAside DEF Forget, In, Moved
<1> QED
  BY <1>2, <1>4, <1>5, <1>6, <1>7 DEF McInv, NothingLeaks

\* Only where nothing is connected a process is started, with a new number.
LEMMA StartProcessInv ==
  ASSUME McInv, NEW c \in Callers, StartProcess(c)
  PROVE  McInv'
<1>1. PICK g \in Gens :
        /\ proc[g] = "none" /\ proc' = [proc EXCEPT ![g] = "up"]
        /\ call' = [call EXCEPT ![c].pc = "lock", ![c].gen = g]
  BY DEF StartProcess
<1>2. Moved(c, {"lock"}) /\ Gen(c)' = g
  <2>1. g \in 0..MaxGen /\ "lock" \in PCs
    BY DEF Gens, PCs
  <2> QED
    BY <1>1, <2>1, TakesGen DEF McInv
<1>3. McTypeOK'
  <2>1. proc' \in [Gens -> {"none", "up", "gone"}]
    BY <1>1 DEF McInv, McTypeOK
  <2> QED
    BY <1>2, <2>1 DEF McInv, McTypeOK, StartProcess, Moved
<1>4. OneReconnects'
  <2>1. g # 0
    BY DEF Gens
  <2> QED
    BY <1>2, <2>1 DEF McInv, OneReconnects, StartProcess, In, Starting, Moved, Gen
<1>5. NoProcessLeaks'
  <2> SUFFICES ASSUME NEW h \in Gens, proc'[h] = "up", h # conn
               PROVE  \E d \in Callers : call'[d].pc \in {"lock", "handshake"} /\ Gen(d)' = h
    BY DEF NoProcessLeaks, StartProcess
  <2>1. CASE h = g
    BY <1>2, <2>1 DEF Moved
  <2>2. CASE h # g
    <3>1. proc[h] = "up"
      BY <1>1, <2>2 DEF McInv, McTypeOK
    <3>2. PICK d \in Callers : call[d].pc \in {"lock", "handshake"} /\ Gen(d) = h
      BY <3>1 DEF McInv, NothingLeaks, NoProcessLeaks
    <3> QED
      BY <1>2, <3>2 DEF Moved, StartProcess, In, Gen
  <2> QED
    BY <2>1, <2>2
<1>6. ToolsComeBack'
  BY <1>2 DEF ToolsComeBack, Reconnecting, Moved
<1>7. NoRequestLeaks' /\ \A d \in Callers : AnswersTaken(d)'
  BY <1>2, RequestsAside DEF StartProcess, In, Moved
<1> QED
  BY <1>3, <1>4, <1>5, <1>6, <1>7 DEF McInv, NothingLeaks

\* A start that fails leaves no process.
LEMMA StartFailsInv ==
  ASSUME McInv, NEW c \in Callers, StartFails(c)
  PROVE  McInv'
<1>1. Moved(c, {"done"})
  BY ReturnMoves DEF McInv, StartFails
<1>2. McTypeOK'
  BY <1>1 DEF McInv, McTypeOK, StartFails, Mishap, Moved
<1>3. OneReconnects'
  BY <1>1 DEF McInv, OneReconnects, StartFails, In, Starting, Moved, Gen
<1>4. NoProcessLeaks'
  BY <1>1 DEF McInv, NothingLeaks, NoProcessLeaks, StartFails, In, Moved, Gen
<1>5. ToolsComeBack'
  BY DEF McInv, OneReconnects, ToolsComeBack, StartFails, In, Starting
<1>6. NoRequestLeaks' /\ \A d \in Callers : AnswersTaken(d)'
  BY <1>1, RequestsAside DEF StartFails, In, Moved
<1> QED
  BY <1>2, <1>3, <1>4, <1>5, <1>6 DEF McInv, NothingLeaks

\* The lock is taken when it is free.
LEMMA LockInv ==
  ASSUME McInv, NEW c \in Callers, Lock(c)
  PROVE  McInv'
<1>1. Moved(c, {"handshake"}) /\ Gen(c)' = Gen(c)
  BY GoToMoves DEF McInv, Lock, PCs
<1>2. McTypeOK'
  BY <1>1 DEF McInv, McTypeOK, Lock, Moved
<1>3. OneReconnects'
  BY <1>1 DEF McInv, OneReconnects, Lock, In, Starting, Moved, Gen
<1>4. NoProcessLeaks'
  BY <1>1 DEF McInv, NothingLeaks, NoProcessLeaks, Lock, In, Moved, Gen
<1>5. ToolsComeBack'
  BY <1>1 DEF McInv, ToolsComeBack, Reconnecting, Lock, Moved
<1>6. NoRequestLeaks' /\ \A d \in Callers : AnswersTaken(d)'
  BY <1>1, RequestsAside DEF Lock, In, Moved
<1> QED
  BY <1>2, <1>3, <1>4, <1>5, <1>6 DEF McInv, NothingLeaks

\* The handshake connects the process its caller started.
LEMMA ConnectedInv ==
  ASSUME McInv, NEW c \in Callers, Connected(c)
  PROVE  McInv'
<1>1. Moved(c, {"hook"})
  BY GoToMoves DEF McInv, Connected, PCs
<1>2. McTypeOK'
  BY <1>1, TypeParts DEF McInv, McTypeOK, Connected, Moved
<1>3. conn = 0 /\ holder = c /\ Starting(c)
  BY DEF McInv, OneReconnects, Connected, In, Starting
<1>4. OneReconnects'
  <2>1. \A d \in Callers : Starting(d) => d = c
    BY <1>3 DEF McInv, OneReconnects
  <2>2. \A d \in Callers : ~In(d, "closing")
    BY <1>3 DEF McInv, OneReconnects
  <2> QED
    BY <1>1, <2>1, <2>2 DEF McInv, OneReconnects, In, Starting, Moved, Gen
<1>5. NoProcessLeaks'
  <2> SUFFICES ASSUME NEW g \in Gens, proc[g] = "up"
               PROVE  g = conn'
    BY DEF NoProcessLeaks, Connected
  <2>1. g # conn
    BY <1>3 DEF Gens
  <2>2. PICK d \in Callers : call[d].pc \in {"lock", "handshake"} /\ Gen(d) = g
    BY <2>1 DEF McInv, NothingLeaks, NoProcessLeaks
  <2>3. d = c
    BY <1>3, <2>2 DEF McInv, OneReconnects, Starting
  <2> QED
    BY <2>2, <2>3 DEF Connected
<1>6. ToolsComeBack'
  BY <1>1 DEF ToolsComeBack, Reconnecting, Moved
<1>7. NoRequestLeaks' /\ \A d \in Callers : AnswersTaken(d)'
  BY <1>1, RequestsAside DEF Connected, In, Moved
<1> QED
  BY <1>2, <1>4, <1>5, <1>6, <1>7 DEF McInv, NothingLeaks

\* Or it fails, and the process is stopped.
LEMMA HandshakeFailsInv ==
  ASSUME McInv, NEW c \in Callers, HandshakeFails(c)
  PROVE  McInv'
<1>1. Moved(c, {"done"})
  BY ReturnMoves DEF McInv, HandshakeFails
<1>2. conn = 0 /\ holder = c /\ c # Free /\ Starting(c)
  BY DEF McInv, OneReconnects, HandshakeFails, In, Starting
<1>3. McTypeOK'
  <2>1. proc' \in [Gens -> {"none", "up", "gone"}] /\ asked' \in [Gens -> SUBSET Ids]
    BY DEF McInv, McTypeOK, HandshakeFails, Stopped
  <2>2. Gen(c) \in Gens
    BY TypeParts DEF McInv, OneReconnects, HandshakeFails, In, Gens
  <2>3. closed' \subseteq Gens
    BY <2>2 DEF McInv, McTypeOK, HandshakeFails
  <2> QED
    BY <1>1, <2>1, <2>3 DEF McInv, McTypeOK, HandshakeFails, Moved
<1>4. OneReconnects'
  <2>1. \A d \in Callers : Starting(d) => d = c
    BY <1>2 DEF McInv, OneReconnects
  <2>2. \A d \in Callers : ~In(d, "closing")
    BY <1>2 DEF McInv, OneReconnects
  <2> QED
    BY <1>1, <1>2, <2>1, <2>2 DEF McInv, OneReconnects, HandshakeFails, In, Starting, Moved, Gen
<1>5. NoProcessLeaks'
  <2> SUFFICES ASSUME NEW g \in Gens, proc'[g] = "up"
               PROVE  FALSE
    BY DEF NoProcessLeaks
  <2>1. proc[g] = "up" /\ g # Gen(c) /\ g # conn
    BY <1>2 DEF HandshakeFails, Stopped, McInv, McTypeOK, Gens
  <2>2. PICK d \in Callers : call[d].pc \in {"lock", "handshake"} /\ Gen(d) = g
    BY <2>1 DEF McInv, NothingLeaks, NoProcessLeaks
  <2>3. d = c
    BY <1>2, <2>2 DEF McInv, OneReconnects, Starting
  <2> QED
    BY <2>1, <2>2, <2>3
<1>6. ToolsComeBack'
  BY <1>2 DEF ToolsComeBack, HandshakeFails
<1>7. NoRequestLeaks' /\ \A d \in Callers : AnswersTaken(d)'
  BY <1>1, RequestsAside DEF HandshakeFails, In, Moved
<1> QED
  BY <1>3, <1>4, <1>5, <1>6, <1>7 DEF McInv, NothingLeaks

\* The hook looks whether a server is connected,
LEMMA HookInv ==
  ASSUME McInv, NEW c \in Callers, Hook(c)
  PROVE  McInv'
<1>1. \/ conn = 0 /\ Moved(c, {"lookup"}) /\ ~call'[c].answered
      \/ Moved(c, {"tools"})
  BY AgainMoves, GoToMoves DEF McInv, Hook, PCs
<1>2. McTypeOK'
  BY <1>1 DEF McInv, McTypeOK, Hook, Moved
<1>3. OneReconnects'
  BY <1>1 DEF McInv, OneReconnects, Hook, In, Starting, Moved, Gen
<1>4. NoProcessLeaks'
  BY <1>1 DEF McInv, NothingLeaks, NoProcessLeaks, Hook, In, Moved, Gen
<1>5. ToolsComeBack'
  BY <1>1 DEF McInv, ToolsComeBack, Reconnecting, Hook, Moved
<1>6. NoRequestLeaks' /\ \A d \in Callers : AnswersTaken(d)'
  BY <1>1, RequestsAside DEF Hook, In, Moved
<1> QED
  BY <1>2, <1>3, <1>4, <1>5, <1>6 DEF McInv, NothingLeaks

\* and registers its tools.
LEMMA PutToolsInv ==
  ASSUME McInv, NEW c \in Callers, PutTools(c)
  PROVE  McInv'
<1>1. Moved(c, {"lookup"}) /\ ~call'[c].answered
  BY AgainMoves DEF McInv, PutTools
<1>2. McTypeOK'
  BY <1>1 DEF McInv, McTypeOK, PutTools, Moved
<1>3. OneReconnects'
  BY <1>1 DEF McInv, OneReconnects, PutTools, In, Starting, Moved, Gen
<1>4. NoProcessLeaks'
  BY <1>1 DEF McInv, NothingLeaks, NoProcessLeaks, PutTools, In, Moved, Gen
<1>5. ToolsComeBack'
  BY DEF ToolsComeBack, PutTools
<1>6. NoRequestLeaks' /\ \A d \in Callers : AnswersTaken(d)'
  BY <1>1, RequestsAside DEF PutTools, In, Moved
<1> QED
  BY <1>2, <1>3, <1>4, <1>5, <1>6 DEF McInv, NothingLeaks

\* A deadline changes nothing but the call.
LEMMA DeadlineInv ==
  ASSUME McInv, NEW c \in Callers, Deadline(c)
  PROVE  McInv'
<1>1. call \in [Callers -> McCall] /\ call' = [call EXCEPT ![c].late = TRUE]
  BY DEF McInv, McTypeOK, Deadline
<1>2. ASSUME NEW j, j = [call[c] EXCEPT !.late = TRUE]
      PROVE  /\ j \in McCall /\ j.pc = call[c].pc /\ j.gen = call[c].gen
             /\ j.try = call[c].try /\ j.answered = call[c].answered
  BY <1>1, <1>2 DEF McCall
<1>3. call'[c] = [call[c] EXCEPT !.late = TRUE] /\ \A d \in Callers : d # c => call'[d] = call[d]
  BY <1>1
<1>4. /\ call'[c] \in McCall /\ call'[c].pc = call[c].pc /\ call'[c].gen = call[c].gen
      /\ call'[c].try = call[c].try /\ call'[c].answered = call[c].answered
  BY <1>2, <1>3
<1>5. \A d \in Callers : /\ call'[d].pc = call[d].pc /\ call'[d].gen = call[d].gen
                         /\ call'[d].try = call[d].try /\ call'[d].answered = call[d].answered
  BY <1>3, <1>4
<1>6. call' \in [Callers -> McCall]
  BY <1>1, <1>3, <1>4
<1>7. McTypeOK'
  BY <1>6 DEF McInv, McTypeOK, Deadline
<1>8. OneReconnects'
  BY <1>5 DEF McInv, OneReconnects, Deadline, In, Starting, Gen
<1>9. NoProcessLeaks'
  BY <1>5 DEF McInv, NothingLeaks, NoProcessLeaks, Deadline, Gen
<1>10. NoRequestLeaks'
  <2>1. \A g \in Gens : \A id \in pending[g] : id[1] \in Callers
    BY TypeParts DEF McInv, Ids
  <2> QED
    BY <1>5, <2>1 DEF McInv, NothingLeaks, NoRequestLeaks, Deadline, Gen, Id
<1>11. ToolsComeBack'
  BY <1>5 DEF McInv, ToolsComeBack, Reconnecting, Deadline
<1>12. \A d \in Callers : AnswersTaken(d)'
  BY <1>5 DEF McInv, AnswersTaken, Deadline
<1> QED
  BY <1>7, <1>8, <1>9, <1>10, <1>11, <1>12 DEF McInv, NothingLeaks

-----------------------------------------------------------------------------
(* The read loop, the process, the shutdown *)

\* Steps that leave the calls alone and at most take requests away.
LEMMA BesideCalls ==
  ASSUME McInv, UNCHANGED call,
         \A g \in Gens : pending'[g] \subseteq pending[g]
  PROVE  NoRequestLeaks' /\ \A d \in Callers : AnswersTaken(d)'
<1>1. NoRequestLeaks'
  BY DEF McInv, NothingLeaks, NoRequestLeaks, Gen, Id
<1>2. \A d \in Callers : AnswersTaken(d)'
  BY DEF McInv, AnswersTaken
<1> QED
  BY <1>1, <1>2

\* The read loop hands an answer over and forgets the request.
LEMMA ReadInv ==
  ASSUME McInv, NEW g \in Gens, Read(g)
  PROVE  McInv'
<1>1. PICK id \in said[g] :
        /\ said' = [said EXCEPT ![g] = @ \ {id}] /\ pending' = [pending EXCEPT ![g] = @ \ {id}]
        /\ call' = IF id \in pending[g] THEN [call EXCEPT ![id[1]].answered = TRUE] ELSE call
  BY DEF Read
<1>2. /\ said' \in [Gens -> SUBSET Ids] /\ pending' \in [Gens -> SUBSET Ids]
      /\ \A h \in Gens : pending'[h] \subseteq pending[h]
      /\ id \notin pending'[g]
  BY <1>1 DEF McInv, McTypeOK
<1>3. CASE id \notin pending[g]
  <2>1. call' = call
    BY <1>1, <1>3
  <2>2. McTypeOK'
    BY <1>2, <2>1 DEF McInv, McTypeOK, Read
  <2>3. OneReconnects' /\ NoProcessLeaks' /\ ToolsComeBack'
    BY <2>1 DEF McInv, OneReconnects, NothingLeaks, NoProcessLeaks, ToolsComeBack, Reconnecting,
                Read, In, Starting, Gen
  <2> QED
    BY <1>2, <2>1, <2>2, <2>3, BesideCalls DEF McInv, NothingLeaks
<1>4. CASE id \in pending[g]
  <2> DEFINE d == id[1]
  <2>1. d \in Callers /\ call[d].pc \in {"write", "pipe", "wait"} /\ Gen(d) = g /\ Id(d) = id
    BY <1>4, TypeParts DEF McInv, NothingLeaks, NoRequestLeaks, Ids
  <2>2. call \in [Callers -> McCall] /\ call' = [call EXCEPT ![d].answered = TRUE]
    BY <1>1, <1>4 DEF McInv, McTypeOK
  <2>3. ASSUME NEW j, j = [call[d] EXCEPT !.answered = TRUE]
        PROVE  j \in McCall /\ j.pc = call[d].pc
    BY <2>1, <2>2, <2>3 DEF McCall
  <2>4. call'[d] = [call[d] EXCEPT !.answered = TRUE] /\ \A e \in Callers : e # d => call'[e] = call[e]
    BY <2>1, <2>2
  <2>5. call'[d] \in McCall /\ call'[d].pc = call[d].pc
    BY <2>3, <2>4
  <2>6. call' \in [Callers -> McCall]
    BY <2>2, <2>4, <2>5
  <2>7. Moved(d, {"write", "pipe", "wait"})
    BY <2>1, <2>4, <2>5, <2>6 DEF Moved
  <2>8. McTypeOK'
    BY <1>2, <2>6 DEF McInv, McTypeOK, Read
  <2>9. OneReconnects' /\ NoProcessLeaks' /\ ToolsComeBack'
    <3>1. Moved(d, {"register", "write", "pipe", "wait", "reconnect", "done"})
      BY <2>7 DEF Moved
    <3>2. UNCHANGED <<conn, proc, holder, tools>>
      BY DEF Read
    <3> QED
      BY <2>1, <3>1, <3>2, CallSide
  <2>10. RequestsAfter(d)
    <3> SUFFICES ASSUME NEW h \in Gens, NEW r \in pending'[h], r[1] = d
                 PROVE  FALSE
      BY <1>2 DEF RequestsAfter
    <3>1. r \in pending[h]
      BY <1>2
    <3>2. Gen(d) = h /\ Id(d) = r
      BY <3>1 DEF McInv, NothingLeaks, NoRequestLeaks
    <3> QED
      BY <1>2, <2>1, <3>2
  <2>11. NoRequestLeaks' /\ \A e \in Callers : AnswersTaken(e)'
    <3>1. call'[d].pc \notin {"lookup", "register"}
      BY <2>7 DEF Moved
    <3> QED
      BY <2>1, <2>7, <2>10, <3>1, RequestsKept
  <2> QED
    BY <2>8, <2>9, <2>11 DEF McInv, NothingLeaks
<1> QED
  BY <1>3, <1>4

\* A read loop ends with all requests of its transport.
LEMMA EndOfFileInv ==
  ASSUME McInv, NEW g \in Gens, EndOfFile(g)
  PROVE  McInv'
<1>1. /\ pending' \in [Gens -> SUBSET Ids]
      /\ \A h \in Gens : pending'[h] \subseteq pending[h]
  BY DEF McInv, McTypeOK, EndOfFile
<1>2. McTypeOK'
  BY <1>1 DEF McInv, McTypeOK, EndOfFile
<1>3. OneReconnects' /\ NoProcessLeaks' /\ ToolsComeBack'
  BY DEF McInv, OneReconnects, NothingLeaks, NoProcessLeaks, ToolsComeBack, Reconnecting,
         EndOfFile, In, Starting, Gen
<1>4. NoRequestLeaks' /\ \A d \in Callers : AnswersTaken(d)'
  BY <1>1, BesideCalls DEF EndOfFile
<1> QED
  BY <1>2, <1>3, <1>4 DEF McInv, NothingLeaks

\* A server answers what it was asked.
LEMMA ServeInv ==
  ASSUME McInv, NEW g \in Gens, Serve(g)
  PROVE  McInv'
<1>1. PICK id \in asked[g] :
        asked' = [asked EXCEPT ![g] = @ \ {id}] /\ said' = [said EXCEPT ![g] = @ \cup {id}]
  BY DEF Serve
<1>2. asked' \in [Gens -> SUBSET Ids] /\ said' \in [Gens -> SUBSET Ids]
  BY <1>1, TypeParts DEF McInv, McTypeOK
<1>3. McTypeOK'
  BY <1>2 DEF McInv, McTypeOK, Serve
<1>4. OneReconnects' /\ NoProcessLeaks' /\ ToolsComeBack'
  BY DEF McInv, OneReconnects, NothingLeaks, NoProcessLeaks, ToolsComeBack, Reconnecting,
         Serve, In, Starting, Gen
<1>5. NoRequestLeaks' /\ \A d \in Callers : AnswersTaken(d)'
  BY BesideCalls DEF Serve
<1> QED
  BY <1>3, <1>4, <1>5 DEF McInv, NothingLeaks

\* A process that ends is no leak.
LEMMA Ends ==
  ASSUME McInv, NEW g \in 0..MaxGen, Stopped(g)
  PROVE  /\ proc' \in [Gens -> {"none", "up", "gone"}] /\ asked' \in [Gens -> SUBSET Ids]
         /\ \A h \in Gens : proc'[h] = "up" => proc[h] = "up" /\ h # g
BY DEF McInv, McTypeOK, Stopped

\* A process dies by itself.
LEMMA DieInv ==
  ASSUME McInv, NEW g \in Gens, Die(g)
  PROVE  McInv'
<1>1. /\ proc' \in [Gens -> {"none", "up", "gone"}] /\ asked' \in [Gens -> SUBSET Ids]
      /\ \A h \in Gens : proc'[h] = "up" => proc[h] = "up"
  <2>1. g \in 0..MaxGen
    BY DEF Gens
  <2> QED
    BY <2>1, Ends DEF Die
<1>2. McTypeOK'
  BY <1>1 DEF McInv, McTypeOK, Die, Mishap
<1>3. OneReconnects' /\ NoProcessLeaks' /\ ToolsComeBack'
  BY <1>1 DEF McInv, OneReconnects, NothingLeaks, NoProcessLeaks, ToolsComeBack, Reconnecting,
              Die, In, Starting, Gen
<1>4. NoRequestLeaks' /\ \A d \in Callers : AnswersTaken(d)'
  BY BesideCalls DEF Die
<1> QED
  BY <1>2, <1>3, <1>4 DEF McInv, NothingLeaks

\* Shutdown stops what is connected.
LEMMA DisconnectInv ==
  ASSUME McInv, Disconnect
  PROVE  McInv'
<1>1. /\ proc' \in [Gens -> {"none", "up", "gone"}] /\ asked' \in [Gens -> SUBSET Ids]
      /\ \A h \in Gens : proc'[h] = "up" => proc[h] = "up" /\ h # conn
  BY Ends DEF Disconnect, McInv, McTypeOK
<1>2. McTypeOK'
  <2>1. conn \in Gens /\ conn' \in 0..MaxGen
    BY DEF McInv, McTypeOK, Disconnect, Gens
  <2> QED
    BY <1>1, <2>1 DEF McInv, McTypeOK, Disconnect, Mishap
<1>3. OneReconnects'
  <2>1. \A c \in Callers : ~In(c, "closing")
    BY DEF McInv, OneReconnects, Disconnect
  <2> QED
    BY <2>1 DEF McInv, OneReconnects, Disconnect, In, Starting, Gen
<1>4. NoProcessLeaks'
  BY <1>1 DEF McInv, NothingLeaks, NoProcessLeaks, Disconnect, Gen
<1>5. ToolsComeBack'
  BY DEF ToolsComeBack, Disconnect
<1>6. NoRequestLeaks' /\ \A d \in Callers : AnswersTaken(d)'
  BY BesideCalls DEF Disconnect
<1> QED
  BY <1>2, <1>3, <1>4, <1>5, <1>6 DEF McInv, NothingLeaks

-----------------------------------------------------------------------------
(* The invariant *)

\* At first one server is connected, with its tools.
LEMMA McInitInv == McInit => McInv
<1> SUFFICES ASSUME McInit PROVE McInv
  OBVIOUS
<1>1. NewCall \in McCall /\ NewCall.pc = "lookup" /\ ~NewCall.answered
  <2>1. 0 \in 0..MaxGen
    OBVIOUS
  <2> QED
    BY <2>1 DEF NewCall, McCall
<1>2. \A c \in Callers : call[c] = NewCall
  BY DEF McInit
<1>3. McTypeOK
  <2>1. 1 \in 0..MaxGen /\ MaxMishaps \in 0..MaxMishaps
    OBVIOUS
  <2>2. call \in [Callers -> McCall]
    BY <1>1 DEF McInit
  <2> QED
    BY <2>1, <2>2 DEF McInit, McTypeOK
<1>4. OneReconnects
  BY <1>1, <1>2 DEF OneReconnects, In, Starting
<1>5. NothingLeaks
  BY DEF McInit, NothingLeaks, NoProcessLeaks, NoRequestLeaks
<1>6. ToolsComeBack
  BY DEF McInit, ToolsComeBack
<1>7. \A c \in Callers : AnswersTaken(c)
  BY <1>1, <1>2 DEF AnswersTaken
<1> QED
  BY <1>3, <1>4, <1>5, <1>6, <1>7 DEF McInv

\* All steps together.
LEMMA McNextInv == McInv /\ [McNext]_mcvars => McInv'
<1> SUFFICES ASSUME McInv, [McNext]_mcvars PROVE McInv'
  OBVIOUS
<1>1. ASSUME NEW c \in Callers, Step(c) \/ Write(c) \/ Connected(c)
      PROVE  McInv'
  BY <1>1, LookupInv, RegisterInv, TakePipeInv, WriteInv, PipeBreaksInv, AwaitInv, TearDownInv, ForgetInv, StartProcessInv,
     StartFailsInv, LockInv, ConnectedInv, HandshakeFailsInv, HookInv, PutToolsInv DEF Step
<1>2. ASSUME NEW g \in Gens, Read(g) \/ EndOfFile(g) \/ Serve(g) \/ Die(g)
      PROVE  McInv'
  BY <1>2, ReadInv, EndOfFileInv, ServeInv, DieInv
<1>3. CASE Deadlines
  BY <1>3, DeadlineInv DEF Deadlines
<1>4. CASE Disconnect
  BY <1>4, DisconnectInv
<1>5. CASE UNCHANGED mcvars
  <2>1. McTypeOK' /\ OneReconnects'
    BY <1>5 DEF mcvars, McInv, McTypeOK, OneReconnects, In, Starting, Gen
  <2>2. NothingLeaks' /\ ToolsComeBack'
    BY <1>5 DEF mcvars, McInv, NothingLeaks, NoProcessLeaks, NoRequestLeaks, ToolsComeBack,
                Reconnecting, Gen, Id
  <2>3. \A c \in Callers : AnswersTaken(c)'
    BY <1>5 DEF mcvars, McInv, AnswersTaken
  <2> QED
    BY <2>1, <2>2, <2>3 DEF McInv
<1> QED
  BY <1>1, <1>2, <1>3, <1>4, <1>5 DEF McNext

(* The inductive invariant: who stops a process or shakes hands holds the     *)
(* lock, who starts one is alone (mcp.go:306-347).                            *)
THEOREM McInvCorrect == McSpec => []McInv
<1>1. McInit => McInv
  BY McInitInv
<1>2. McInv /\ [McNext]_mcvars => McInv'
  BY McNextInv
<1> QED
  BY <1>1, <1>2, PTL DEF McSpec

(* Whatever fails, no process runs that nobody owns and no request waits      *)
(* that nobody sent (mcp.go:282-303, transport.go:270-312).                   *)
THEOREM NothingLeaked == McSpec => []NothingLeaks
<1>1. McInv => NothingLeaks
  BY DEF McInv
<1> QED
  BY <1>1, McInvCorrect, PTL

(* A connected server has its tools in the registry unless somebody is about  *)
(* to put them there (mcp.go:348-356).                                        *)
THEOREM ToolsCameBack == McSpec => []ToolsComeBack
<1>1. McInv => ToolsComeBack
  BY DEF McInv
<1> QED
  BY <1>1, McInvCorrect, PTL

-----------------------------------------------------------------------------
(* No call tears down a connection that works *)

\* A transport that is closed or read to its end has no process any more, but
\* for the one that is being closed just now.
BeingClosed == \E c \in Callers : In(c, "closing")
ConnectionsOld ==
  /\ conn # 0 => proc[conn] # "none"
  /\ \A g \in closed : proc[g] = "gone" \/ (g = conn /\ BeingClosed)
  /\ \A g \in eof : proc[g] = "gone"

\* A call uses a process that was connected when it looked, never one that
\* is being started; on its way to Reconnect it has seen that one fail.
Used(c) ==
  /\ In(c, "lookup") => Gen(c) = 0
  /\ call[c].pc \in {"register", "write", "pipe", "wait"} => Gen(c) # 0
  /\ call[c].pc \in {"register", "write", "pipe", "wait", "reconnect"} /\ Gen(c) # 0 =>
       /\ proc[Gen(c)] # "none"
       /\ \A d \in Callers : call[d].pc \in {"lock", "handshake"} => Gen(d) # Gen(c)
  /\ In(c, "reconnect") /\ conn # 0 /\ Gen(c) = conn /\ ~call[c].answered =>
       proc[conn] = "gone" \/ conn \in closed

UsedInv == ConnectionsOld /\ \A c \in Callers : Used(c)

\* A call that returns or starts again has no connection; one that failed
\* goes to Reconnect with what it had.
LEMMA StartsAfresh ==
  ASSUME McTypeOK, NEW c \in Callers, Return(c) \/ Again(c)
  PROVE  Gen(c)' = 0 /\ call'[c].pc \in {"lookup", "done"}
<1>1. call'[c] \in {[NewCall EXCEPT !.pc = "done"], [NewCall EXCEPT !.try = 2, !.late = call[c].late]}
  BY DEF McTypeOK, Return, Again
<1> QED
  BY <1>1 DEF NewCall, Gen

\* A call that failed goes to Reconnect with the connection it used, or returns.
LEMMA FailedGoesOn ==
  ASSUME McTypeOK, NEW c \in Callers, Failed(c)
  PROVE  \/ In(c, "done")' /\ Gen(c)' = 0
         \/ /\ In(c, "reconnect")' /\ Gen(c)' = Gen(c) /\ call'[c].answered = call[c].answered
            /\ ~call[c].late
<1>1. CASE GoTo(c, "reconnect") /\ ~call[c].late
  BY <1>1, GoToMoves DEF PCs, Moved, In
<1>2. CASE Return(c)
  BY <1>2, ReturnMoves, StartsAfresh DEF Moved, In
<1> QED
  BY <1>1, <1>2 DEF Failed

\* A call that goes on leaves the other calls' connections as they were.
LEMMA UsedBeside ==
  ASSUME UsedInv, NEW c \in Callers, NEW pcs, Moved(c, pcs), Used(c)',
         UNCHANGED <<conn, proc, closed, eof>>, ~In(c, "closing"),
         call'[c].pc \in {"lock", "handshake"} =>
           call[c].pc \in {"lock", "handshake"} /\ Gen(c)' = Gen(c)
  PROVE  UsedInv'
<1>1. ASSUME NEW d \in Callers, d # c
      PROVE  call'[d] = call[d]
  BY <1>1 DEF Moved
<1>2. ConnectionsOld'
  <2>1. BeingClosed => BeingClosed'
    BY <1>1 DEF BeingClosed, In
  <2> QED
    BY <2>1 DEF UsedInv, ConnectionsOld
<1>3. ASSUME NEW d \in Callers, d # c
      PROVE  Used(d)'
  <2>1. \A e \in Callers : call'[e].pc \in {"lock", "handshake"} =>
          call[e].pc \in {"lock", "handshake"} /\ Gen(e)' = Gen(e)
    BY <1>1 DEF Gen
  <2>2. call'[d] = call[d] /\ Gen(d)' = Gen(d) /\ Used(d)
    BY <1>1, <1>3 DEF UsedInv, Gen
  <2> QED
    BY <2>1, <2>2 DEF Used, In
<1> QED
  BY <1>2, <1>3 DEF UsedInv

\* A step beside the calls may end processes and close their transports.
LEMMA UsedWhileEnding ==
  ASSUME UsedInv, McTypeOK,
         \A d \in Callers : /\ call'[d].pc = call[d].pc /\ Gen(d)' = Gen(d)
                            /\ call[d].answered => call'[d].answered,
         conn' \in {conn, 0},
         \A g \in Gens : proc'[g] = proc[g] \/ proc'[g] = "gone",
         closed \subseteq closed', closed' \subseteq Gens, eof' \subseteq Gens,
         \A g \in closed' : g \in closed \/ proc'[g] = "gone",
         conn' = 0 => \A g \in closed' : proc'[g] = "gone",
         \A g \in eof' : g \in eof \/ proc'[g] = "gone"
  PROVE  UsedInv'
<1>1. closed \subseteq Gens /\ eof \subseteq Gens /\ (conn # 0 => conn \in Gens)
  BY DEF McTypeOK, Gens
<1>2. ConnectionsOld'
  <2>1. BeingClosed' <=> BeingClosed
    BY DEF BeingClosed, In
  <2> QED
    BY <1>1, <2>1 DEF UsedInv, ConnectionsOld
<1>3. ASSUME NEW d \in Callers
      PROVE  Used(d)'
  <2>1. Gen(d) # 0 => Gen(d) \in Gens
    BY TypeParts DEF Gens
  <2> QED
    BY <1>1, <2>1 DEF UsedInv, Used, In
<1> QED
  BY <1>2, <1>3 DEF UsedInv

-----------------------------------------------------------------------------
(* The steps of a call *)

\* The steps of writing a request.
InPipe(c) == TakePipe(c) \/ Write(c) \/ PipeBreaks(c)

\* A call takes the connection it finds, and leaves it when it saw it fail.
LEMMA CallUses ==
  ASSUME McInv, UsedInv, NEW c \in Callers, Lookup(c) \/ Register(c) \/ InPipe(c) \/ Await(c)
  PROVE  UsedInv'
<1> DEFINE pcs == {"register", "write", "pipe", "wait", "reconnect", "done"}
<1>1. McTypeOK /\ UNCHANGED <<conn, proc, closed, eof, holder>> /\ ~In(c, "closing")
  BY DEF McInv, Lookup, Register, InPipe, TakePipe, Write, PipeBreaks, Await, In
<1>2. CASE Lookup(c) /\ conn # 0
  <2>1. conn \in 0..MaxGen
    BY <1>1 DEF McTypeOK
  <2>2. Moved(c, {"register"}) /\ Gen(c)' = conn
    BY <1>1, <1>2, <2>1, TakesGen DEF Lookup, PCs
  <2>3. call'[c].pc = "register" /\ \A d \in Callers : call[d].pc \notin {"lock", "handshake"}
    BY <1>2, <2>2 DEF Moved, McInv, OneReconnects, Starting
  <2>4. \A d \in Callers : call'[d].pc \notin {"lock", "handshake"}
    BY <2>2, <2>3 DEF Moved
  <2>5. Used(c)'
    BY <1>1, <1>2, <2>2, <2>3, <2>4 DEF Used, In, UsedInv, ConnectionsOld
  <2> QED
    BY <1>1, <2>2, <2>3, <2>5, UsedBeside
<1>3. CASE Failed(c)
  <2>1. Moved(c, {"reconnect", "done"})
    BY <1>1, <1>3, FailedMoves
  <2>2. ASSUME In(c, "reconnect")', Gen(c)' = Gen(c), call'[c].answered = call[c].answered, ~call[c].late,
               Gen(c) # 0
        PROVE  proc[Gen(c)] # "none" /\ \A d \in Callers : call'[d].pc \in {"lock", "handshake"} => Gen(d)' # Gen(c)
    <3>1. call[c].pc \in {"register", "write", "pipe", "wait"}
      BY <2>2 DEF Lookup, Register, InPipe, TakePipe, Write, PipeBreaks, Await, In, UsedInv, Used
    <3>2. \A d \in Callers : call'[d].pc \in {"lock", "handshake"} => d # c
      BY <2>2 DEF In
    <3> QED
      BY <2>1, <2>2, <3>1, <3>2 DEF Moved, UsedInv, Used, Gen
  <2>3. ASSUME In(c, "reconnect")', ~call[c].late, ~call[c].answered, conn # 0, Gen(c) = conn
        PROVE  proc[conn] = "gone" \/ conn \in closed
    <3>1. CASE Lookup(c)
      BY <2>3, <3>1 DEF Lookup, UsedInv, Used
    <3>2. CASE Register(c)
      BY <2>3, <3>2, GoToMoves DEF Register, McInv, PCs, Moved, In
    <3>3. CASE InPipe(c)
      <4>1. proc[conn] \in {"none", "up", "gone"}
        BY <1>1, <2>3 DEF McTypeOK, Gens
      <4>2. ~TakePipe(c) /\ ~Write(c)
        BY <1>1, <2>3, GoToMoves DEF TakePipe, Write, PCs, Moved, In
      <4> QED
        BY <1>1, <2>3, <3>3, <4>1, <4>2 DEF InPipe, PipeBreaks, UsedInv, ConnectionsOld
    <3>4. CASE Await(c)
      BY <2>3, <3>4 DEF Await, UsedInv, ConnectionsOld
    <3> QED
      BY <3>1, <3>2, <3>3, <3>4
  <2>4. Used(c)'
    BY <1>1, <1>3, <2>2, <2>3, FailedGoesOn DEF Used, In
  <2> QED
    BY <1>1, <2>1, <2>4, UsedBeside DEF Moved
<1>4. ASSUME NEW x \in {"write", "pipe", "wait"}, GoTo(c, x), Register(c) \/ TakePipe(c) \/ Write(c)
      PROVE  UsedInv'
  <2>1. Moved(c, {x}) /\ Gen(c)' = Gen(c)
    BY <1>1, <1>4, GoToMoves DEF PCs
  <2>2. call[c].pc \in {"register", "write", "pipe"} /\ call'[c].pc = x
    BY <1>4, <2>1 DEF Register, TakePipe, Write, In, Moved
  <2>3. \A d \in Callers : call'[d].pc \in {"lock", "handshake"} => call'[d] = call[d]
    BY <2>1, <2>2 DEF Moved
  <2>4. Used(c)'
    BY <1>1, <2>1, <2>2, <2>3 DEF Used, In, UsedInv, Gen
  <2> QED
    BY <1>1, <2>1, <2>2, <2>4, UsedBeside
<1>5. CASE Return(c)
  <2>1. Moved(c, {"done"}) /\ call'[c].pc = "done"
    BY <1>1, <1>5, ReturnMoves DEF Moved
  <2> QED
    BY <1>1, <2>1, UsedBeside DEF Used, In
<1> QED
  BY <1>2, <1>3, <1>4, <1>5 DEF Lookup, Register, InPipe, TakePipe, Write, PipeBreaks, Await

\* The steps of a reconnect that touch no process.
LEMMA ReconnectGoesOn ==
  ASSUME McInv, UsedInv, NEW c \in Callers,
         StartFails(c) \/ Lock(c) \/ Hook(c) \/ PutTools(c) \/ (TearDown(c) /\ conn = 0)
  PROVE  UsedInv'
<1>1. McTypeOK /\ UNCHANGED <<conn, proc, closed, eof>> /\ ~In(c, "closing")
  BY DEF McInv, StartFails, Lock, Hook, PutTools, TearDown, In
<1>2. CASE Return(c) \/ Again(c)
  <2>1. Moved(c, {"done"}) \/ Moved(c, {"lookup"})
    BY <1>1, <1>2, ReturnMoves, AgainMoves
  <2>2. Gen(c)' = 0 /\ call'[c].pc \in {"lookup", "done"}
    BY <1>1, <1>2, StartsAfresh
  <2>3. Used(c)'
    BY <2>2 DEF Used, In
  <2> QED
    BY <1>1, <2>1, <2>2, <2>3, UsedBeside
<1>3. CASE Lock(c) /\ GoTo(c, "handshake")
  <2>1. Moved(c, {"handshake"}) /\ Gen(c)' = Gen(c)
    BY <1>1, <1>3, GoToMoves DEF PCs
  <2>2. call'[c].pc = "handshake" /\ call[c].pc = "lock"
    BY <1>3, <2>1 DEF Moved, Lock, In
  <2> QED
    BY <1>1, <2>1, <2>2, UsedBeside DEF Used, In
<1>4. CASE Hook(c) /\ GoTo(c, "tools")
  <2>1. Moved(c, {"tools"}) /\ Gen(c)' = Gen(c)
    BY <1>1, <1>4, GoToMoves DEF PCs
  <2>2. call'[c].pc = "tools"
    BY <2>1 DEF Moved
  <2> QED
    BY <1>1, <2>1, <2>2, UsedBeside DEF Used, In
<1> QED
  BY <1>2, <1>3, <1>4 DEF StartFails, Lock, Hook, PutTools, TearDown

\* What is connected is closed, and the lock is held: nobody else looks at it.
LEMMA TearDownUses ==
  ASSUME McInv, UsedInv, NEW c \in Callers, TearDown(c)
  PROVE  UsedInv'
<1>1. McTypeOK /\ UNCHANGED <<conn, proc, eof>>
  BY DEF McInv, TearDown
<1>2. CASE conn # 0
  <2>1. Moved(c, {"closing"}) /\ call'[c].pc = "closing" /\ closed' = closed \cup {conn}
    BY <1>1, <1>2, GoToMoves DEF TearDown, PCs, Moved
  <2>2. BeingClosed'
    BY <2>1 DEF BeingClosed, In
  <2>3. ConnectionsOld'
    BY <1>1, <2>1, <2>2 DEF ConnectionsOld, UsedInv
  <2>4. ASSUME NEW d \in Callers
        PROVE  Used(d)'
    BY <1>1, <2>1 DEF Moved, UsedInv, Used, In, Gen
  <2> QED
    BY <2>3, <2>4 DEF UsedInv
<1> QED
  BY <1>2, ReconnectGoesOn

\* What is forgotten has ended.
LEMMA ForgetUses ==
  ASSUME McInv, UsedInv, NEW c \in Callers, Forget(c)
  PROVE  UsedInv'
<1>1. McTypeOK /\ UNCHANGED <<closed, eof>> /\ conn # 0 /\ conn' = 0 /\ In(c, "closing")
  BY DEF McInv, Forget, OneReconnects
<1>2. \A g \in Gens : proc'[g] = IF g = conn THEN "gone" ELSE proc[g]
  BY <1>1 DEF Forget, Stopped, McTypeOK
<1>3. Moved(c, {"start"}) /\ call'[c].pc = "start"
  BY <1>1, GoToMoves DEF Forget, PCs, Moved
<1>4. closed \subseteq Gens /\ eof \subseteq Gens
  BY <1>1 DEF McTypeOK
<1>5. ConnectionsOld'
  BY <1>1, <1>2, <1>4 DEF UsedInv, ConnectionsOld
<1>6. ASSUME NEW d \in Callers
      PROVE  Used(d)'
  <2>1. CASE d = c
    BY <1>3, <2>1 DEF Used, In
  <2>2. CASE d # c
    <3>1. call'[d] = call[d] /\ Used(d) /\ (Gen(d) # 0 => Gen(d) \in Gens)
      BY <1>1, <1>3, <2>2, TypeParts DEF Moved, UsedInv, Gens
    <3>2. \A e \in Callers : call'[e].pc \in {"lock", "handshake"} => call'[e] = call[e]
      BY <1>3 DEF Moved
    <3> QED
      BY <1>1, <1>2, <3>1, <3>2 DEF Used, In, Gen
  <2> QED
    BY <2>1, <2>2
<1> QED
  BY <1>5, <1>6 DEF UsedInv

\* A process that is started is none that a call has used.
LEMMA StartProcessUses ==
  ASSUME McInv, UsedInv, NEW c \in Callers, StartProcess(c)
  PROVE  UsedInv'
<1>1. PICK g \in Gens :
        /\ proc[g] = "none" /\ proc' = [proc EXCEPT ![g] = "up"]
        /\ call' = [call EXCEPT ![c].pc = "lock", ![c].gen = g]
  BY DEF StartProcess
<1>2. Moved(c, {"lock"}) /\ Gen(c)' = g /\ call'[c].pc = "lock"
  <2>1. g \in 0..MaxGen /\ "lock" \in PCs
    BY DEF Gens, PCs
  <2> QED
    BY <1>1, <2>1, TakesGen DEF McInv, Moved
<1>3. \A h \in Gens : proc'[h] = IF h = g THEN "up" ELSE proc[h]
  BY <1>1 DEF McInv, McTypeOK
<1>4. UNCHANGED <<conn, closed, eof>> /\ conn = 0 /\ closed \subseteq Gens /\ eof \subseteq Gens
  BY DEF StartProcess, McInv, McTypeOK, OneReconnects, Starting, In
<1>5. ConnectionsOld'
  <2>1. \A h \in closed \cup eof : proc[h] = "gone"
    BY <1>4 DEF UsedInv, ConnectionsOld, Gens
  <2> QED
    BY <1>1, <1>3, <1>4, <2>1 DEF ConnectionsOld
<1>6. ASSUME NEW d \in Callers
      PROVE  Used(d)'
  <2>1. CASE d = c
    BY <1>2, <2>1 DEF Used, In
  <2>2. CASE d # c
    <3>1. call'[d] = call[d] /\ Used(d) /\ (Gen(d) # 0 => Gen(d) \in Gens)
      BY <1>2, <2>2, TypeParts DEF Moved, UsedInv, Gens, McInv
    <3>2. \A e \in Callers : e # c => call'[e] = call[e]
      BY <1>2 DEF Moved
    <3>3. Gen(d)' = Gen(d) /\ Gen(c)' = g /\ conn' = 0 /\ g # 0
      BY <1>2, <1>4, <3>1 DEF Gen, Gens
    <3>4. ASSUME call[d].pc \in {"register", "write", "pipe", "wait", "reconnect"}, Gen(d) # 0
          PROVE  /\ proc'[Gen(d)] # "none"
                 /\ \A e \in Callers : call'[e].pc \in {"lock", "handshake"} => Gen(e)' # Gen(d)
      <4>1. proc[Gen(d)] # "none" /\ Gen(d) # g /\ proc'[Gen(d)] = proc[Gen(d)]
        BY <1>1, <1>3, <3>1, <3>4 DEF Used
      <4>2. \A e \in Callers : e # c /\ call[e].pc \in {"lock", "handshake"} => Gen(e) # Gen(d)
        BY <3>1, <3>4 DEF Used
      <4> QED
        BY <3>2, <3>3, <4>1, <4>2 DEF Gen
    <3> QED
      BY <3>1, <3>3, <3>4 DEF Used, In
  <2> QED
    BY <2>1, <2>2
<1> QED
  BY <1>5, <1>6 DEF UsedInv

\* Nobody has used a process whose handshake ends, so nobody has seen it fail.
LEMMA ConnectedUses ==
  ASSUME McInv, UsedInv, NEW c \in Callers, Connected(c)
  PROVE  UsedInv'
<1>1. McTypeOK /\ UNCHANGED <<proc, closed, eof>> /\ conn = 0 /\ conn' = Gen(c) /\ proc[Gen(c)] = "up"
  BY DEF McInv, Connected, OneReconnects, Starting, In
<1>2. Moved(c, {"hook"}) /\ call'[c].pc = "hook"
  BY <1>1, GoToMoves DEF Connected, PCs, Moved
<1>3. ConnectionsOld'
  <2>1. closed \subseteq Gens /\ 0 \notin Gens
    BY <1>1 DEF McTypeOK, Gens
  <2> QED
    BY <1>1, <2>1 DEF UsedInv, ConnectionsOld
<1>4. ASSUME NEW d \in Callers
      PROVE  Used(d)'
  <2>1. CASE d = c
    BY <1>2, <2>1 DEF Used, In
  <2>2. CASE d # c
    <3>1. call'[d] = call[d] /\ Used(d) /\ call[c].pc = "handshake"
      BY <1>2, <2>2 DEF Moved, UsedInv, Connected, In
    <3>2. \A e \in Callers : call'[e].pc \in {"lock", "handshake"} => call'[e] = call[e]
      BY <1>2 DEF Moved
    <3> QED
      BY <1>1, <3>1, <3>2 DEF Used, In, Gen
  <2> QED
    BY <2>1, <2>2
<1> QED
  BY <1>3, <1>4 DEF UsedInv

\* A process that was never connected is used by nobody.
LEMMA HandshakeFailsUses ==
  ASSUME McInv, UsedInv, NEW c \in Callers, HandshakeFails(c)
  PROVE  UsedInv'
<1>1. /\ McTypeOK /\ UNCHANGED <<conn, eof>> /\ conn = 0 /\ Gen(c) \in Gens
      /\ closed' = closed \cup {Gen(c)}
  BY TypeParts DEF McInv, HandshakeFails, OneReconnects, Starting, In, Gens
<1>2. \A g \in Gens : proc'[g] = IF g = Gen(c) THEN "gone" ELSE proc[g]
  BY <1>1 DEF HandshakeFails, Stopped, McTypeOK
<1>3. Moved(c, {"done"}) /\ call'[c].pc = "done"
  BY <1>1, ReturnMoves DEF HandshakeFails, Moved
<1>4. closed \subseteq Gens /\ eof \subseteq Gens /\ 0 \notin Gens
  BY <1>1 DEF McTypeOK, Gens
<1>5. ConnectionsOld'
  BY <1>1, <1>2, <1>4 DEF UsedInv, ConnectionsOld
<1>6. ASSUME NEW d \in Callers
      PROVE  Used(d)'
  <2>1. CASE d = c
    BY <1>3, <2>1 DEF Used, In
  <2>2. CASE d # c
    <3>1. call'[d] = call[d] /\ Used(d) /\ (Gen(d) # 0 => Gen(d) \in Gens)
      BY <1>1, <1>3, <2>2, TypeParts DEF Moved, UsedInv, Gens
    <3>2. \A e \in Callers : call'[e].pc \in {"lock", "handshake"} => call'[e] = call[e]
      BY <1>3 DEF Moved
    <3> QED
      BY <1>1, <1>2, <3>1, <3>2 DEF Used, In, Gen
  <2> QED
    BY <2>1, <2>2
<1> QED
  BY <1>5, <1>6 DEF UsedInv

-----------------------------------------------------------------------------
(* The steps beside the calls *)

\* An answer that is read, or a deadline, leaves the call where it is.
LEMMA CallKeepsPlace ==
  ASSUME McInv, \/ \E g \in Gens : Read(g)
                \/ \E c \in Callers : Deadline(c)
  PROVE  \A d \in Callers : /\ call'[d].pc = call[d].pc /\ Gen(d)' = Gen(d)
                            /\ call[d].answered => call'[d].answered
<1>1. call \in [Callers -> McCall]
  BY DEF McInv, McTypeOK
<1>2. CASE \E c \in Callers : Deadline(c)
  BY <1>1, <1>2 DEF Deadline, Gen, McCall
<1>3. ASSUME NEW g \in Gens, Read(g)
      PROVE  \A d \in Callers : /\ call'[d].pc = call[d].pc /\ Gen(d)' = Gen(d)
                                /\ call[d].answered => call'[d].answered
  <2>1. PICK id \in said[g] :
          call' = IF id \in pending[g] THEN [call EXCEPT ![id[1]].answered = TRUE] ELSE call
    BY <1>3 DEF Read
  <2> QED
    BY <1>1, <2>1 DEF Gen, McCall
<1> QED
  BY <1>2, <1>3

\* Steps of the server, the read loops, the deadlines and the shutdown end connections, and begin none.
LEMMA EndingUses ==
  ASSUME McInv, UsedInv,
         \/ \E g \in Gens : Read(g) \/ EndOfFile(g) \/ Serve(g) \/ Die(g)
         \/ \E c \in Callers : Deadline(c)
         \/ Disconnect
         \/ UNCHANGED mcvars
  PROVE  UsedInv'
<1>1. /\ McTypeOK /\ closed \subseteq Gens /\ eof \subseteq Gens
      /\ (conn # 0 => conn \in Gens) /\ 0 \notin Gens
  BY DEF McInv, McTypeOK, Gens
<1>2. conn = 0 => \A g \in closed : proc[g] = "gone"
  BY <1>1 DEF UsedInv, ConnectionsOld
<1>3. CASE \/ \E g \in Gens : Read(g) \/ Serve(g)
           \/ \E c \in Callers : Deadline(c)
           \/ UNCHANGED mcvars
  <2>1. UNCHANGED <<conn, proc, closed, eof>>
    BY <1>3 DEF Read, Serve, Deadline, mcvars
  <2>2. \A d \in Callers : /\ call'[d].pc = call[d].pc /\ Gen(d)' = Gen(d)
                           /\ call[d].answered => call'[d].answered
    BY <1>3, CallKeepsPlace DEF Serve, mcvars, Gen
  <2> QED
    BY <1>1, <1>2, <2>1, <2>2, UsedWhileEnding
<1>4. ASSUME NEW g \in Gens, EndOfFile(g)
      PROVE  UsedInv'
  <2>1. UNCHANGED <<conn, proc, closed, call>> /\ eof' = eof \cup {g} /\ proc[g] = "gone"
    BY <1>4 DEF EndOfFile
  <2> QED
    BY <1>1, <1>2, <2>1, UsedWhileEnding DEF Gen
<1>5. ASSUME NEW g \in Gens, Die(g)
      PROVE  UsedInv'
  <2>1. UNCHANGED <<conn, closed, eof, call>> /\ \A h \in Gens : proc'[h] = IF h = g THEN "gone" ELSE proc[h]
    BY <1>1, <1>5 DEF Die, Stopped, McTypeOK
  <2> QED
    BY <1>1, <1>2, <2>1, UsedWhileEnding DEF Gen
<1>6. CASE Disconnect
  <2>1. /\ UNCHANGED <<eof, call>> /\ conn # 0 /\ conn' = 0 /\ closed' = closed \cup {conn}
        /\ \A h \in Gens : proc'[h] = IF h = conn THEN "gone" ELSE proc[h]
    BY <1>1, <1>6 DEF Disconnect, Stopped, McTypeOK
  <2>2. \A g \in closed' : proc'[g] = "gone"
    BY <1>1, <2>1 DEF UsedInv, ConnectionsOld
  <2> QED
    BY <1>1, <2>1, <2>2, UsedWhileEnding DEF Gen
<1> QED
  BY <1>3, <1>4, <1>5, <1>6

\* At first nobody uses a connection.
LEMMA UsedInitInv == McInit => UsedInv
<1> SUFFICES ASSUME McInit PROVE UsedInv
  OBVIOUS
<1>1. 1 \in Gens /\ proc[1] = "up" /\ conn = 1 /\ closed = {} /\ eof = {}
  BY DEF McInit, Gens
<1>2. \A c \in Callers : call[c].pc = "lookup" /\ Gen(c) = 0
  BY DEF McInit, NewCall, Gen
<1> QED
  BY <1>1, <1>2 DEF UsedInv, ConnectionsOld, Used, In

\* All steps together.
LEMMA UsedStepInv == McInv /\ UsedInv /\ [McNext]_mcvars => UsedInv'
BY CallUses, ReconnectGoesOn, TearDownUses, ForgetUses, StartProcessUses, ConnectedUses,
   HandshakeFailsUses, EndingUses DEF McNext, Step, Deadlines, InPipe

(* Only a call that saw its connection fail tears it down: a call that ran    *)
(* out of time, or whose tool is slow, leaves a working server to the others  *)
(* (mcp.go:519-525).                                                          *)
THEOREM WorkingConnectionStaysCorrect == McSpec => WorkingConnectionStays
<1>1. McInit => McInv /\ UsedInv
  BY McInitInv, UsedInitInv
<1>2. McInv /\ UsedInv /\ [McNext]_mcvars => McInv' /\ UsedInv'
  BY McNextInv, UsedStepInv
<1>3. McInv /\ UsedInv /\ [McNext]_mcvars =>
        [\A c \in Callers :
           TearDown(c) /\ conn # 0 /\ conn = Gen(c) /\ ~call[c].answered => proc[conn] = "gone"]_mcvars
  <2> SUFFICES ASSUME McInv, UsedInv, NEW c \in Callers, TearDown(c), conn # 0, conn = Gen(c), ~call[c].answered
               PROVE  proc[conn] = "gone"
    OBVIOUS
  <2>1. ~BeingClosed
    BY DEF TearDown, BeingClosed, McInv, OneReconnects
  <2> QED
    BY <2>1 DEF TearDown, UsedInv, ConnectionsOld, Used
<1> QED
  BY <1>1, <1>2, <1>3, PTL DEF McSpec, WorkingConnectionStays

-----------------------------------------------------------------------------
(* Sub-agents and MCP calls: one of the two runs, and each keeps its          *)
(* invariant whichever does.                                                  *)

\* A step of the instance is one of each component or leaves it alone.
LEMMA EachAlone ==
  [Delegations(DgNext) \/ McpCalls(McNext)]_turns => [DgNext]_dgvars /\ [McNext]_mcvars
BY DEF Delegations, McpCalls, turns

(* The whole is well typed, whichever of the two runs (agent.go:497-558,      *)
(* mcp.go:306-347).                                                           *)
THEOREM TurnsTypeCorrect == Spec => []TurnsTypeOK
<1>1. Init => DgInv /\ McInv
  BY DgInitInv, McInitInv DEF Init
<1>2. (DgInv /\ McInv) /\ [Delegations(DgNext) \/ McpCalls(McNext)]_turns => (DgInv /\ McInv)'
  BY EachAlone, DgStepInv, McNextInv
<1>3. DgInv /\ McInv => TurnsTypeOK
  BY DEF DgInv, McInv, TurnsTypeOK
<1> QED
  BY <1>1, <1>2, <1>3, PTL DEF Spec
=============================================================================
