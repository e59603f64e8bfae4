----------------------------- MODULE Delegation -----------------------------
(* Sub-agents: agent.delegate runs one while the caller waits, agent.spawn    *)
(* one in the background; two semaphores bound how many run; agent.cancel     *)
(* works on the tables alone. The tools are registered once, for no user and  *)
(* at depth 0, whoever calls them. The row of a sub-agent in table agents is  *)
(* never written (it has no session, and session_id is a foreign key), so     *)
(* agents is left out.                                                        *)
EXTENDS Integers, FiniteSets

CONSTANTS Agents,      \* ids of sub-agents, numbered as they are called
          Nobody,      \* the caller is not a sub-agent
          UserLimits,  \* the limits of UserSemaphore considered
          MaxRunning,  \* Semaphore: running
          CurrentDepth, MaxDepth, \* DelegateConfig
          MaxFaults    \* bound: crashes, panics and statements that fail

ASSUME DelegationAssumption ==
  /\ Agents \subseteq Nat /\ IsFiniteSet(Agents) /\ Nobody \notin Agents
  /\ UserLimits \subseteq Nat \ {0} /\ MaxRunning \in Nat \ {0} /\ MaxFaults \in Nat
  /\ CurrentDepth < MaxDepth

VARIABLES job,        \* per sub-agent: where the goroutine is that runs it
          delegation, \* table agent_delegations: status by child
          background, \* table background_agents: status
          perUser,    \* UserSemaphore: its limit for agents that run or wait for a slot ...
          users,      \* ... and the count of the one user
          slots,      \* Semaphore: slots taken
          cancelling, \* agent.cancel has done the first of its two statements
          late,       \* sub-agents whose own timeout has run out
          cut,        \* sub-agents whose caller's context has ended
          faults,
          spoiled     \* history: sub-agents that lost a write or their goroutine

dgvars == <<job, delegation, background, perUser, users, slots, cancelling, late, cut, faults, spoiled>>

Settled == {"completed", "failed", "cancelled"}
PC == {"none", "user", "global", "loop", "tools", "delegation", "background", "release", "leave", "done"}
\* within: the calling agents in whose context it runs
Job == [pc : PC, kind : {"delegate", "spawn"}, parent : Agents \cup {Nobody},
        within : SUBSET Agents, result : Settled]
NoJob == [pc |-> "none", kind |-> "spawn", parent |-> Nobody, within |-> {}, result |-> "failed"]

DgInit ==
  /\ job = [a \in Agents |-> NoJob]
  /\ delegation = [a \in Agents |-> "none"] /\ background = [a \in Agents |-> "none"]
  /\ perUser \in UserLimits /\ users = 0 /\ slots = 0 /\ cancelling = {} /\ late = {} /\ cut = {}
  /\ faults = MaxFaults /\ spoiled = {}

At(a, pc) == job[a].pc = pc
Goto(a, pc) == job' = [job EXCEPT ![a].pc = pc]
EndsAs(a, result) == job' = [job EXCEPT ![a].pc = "delegation", ![a].result = result]
Ended(a) == a \in late \cup cut
Active(a) == job[a].pc \notin {"none", "done"}
Children(a) == {b \in Agents : Active(b) /\ job[b].kind = "delegate" /\ job[b].parent = a}
\* the call is over; what its contexts were is forgotten
Over(a) == /\ job' = [job EXCEPT ![a] = [NoJob EXCEPT !.pc = "done", !.kind = job[a].kind]]
           /\ late' = late \ {a} /\ cut' = cut \ {a}
Fault(a) == faults > 0 /\ faults' = faults - 1 /\ spoiled' = spoiled \cup {a}

-----------------------------------------------------------------------------
(* The tools *)

\* what agent.delegate and agent.spawn have in common; p's model called the tool
Call(p, a, kind) ==
  /\ At(a, "none") /\ \A b \in Agents : b < a => ~At(b, "none")
  /\ CurrentDepth < MaxDepth
  /\ p # Nobody => At(p, "tools")
  /\ job' = [job EXCEPT ![a] =
       [NoJob EXCEPT !.pc = "user", !.kind = kind, !.parent = p,
          !.within = IF kind = "delegate" /\ p # Nobody THEN job[p].within \cup {p} ELSE {}]]
  /\ UNCHANGED <<perUser, users, slots, cancelling, late, faults>>

\* the row is written in the caller's context, and not at all if that has ended
Delegate(p, a) ==
  /\ Call(p, a, "delegate")
  /\ cut' = IF p # Nobody /\ Ended(p) THEN cut \cup {a} ELSE cut
  /\ delegation' = IF a \in cut' THEN delegation ELSE [delegation EXCEPT ![a] = "running"]
  /\ spoiled' = IF a \in cut' THEN spoiled \cup {a} ELSE spoiled
  /\ UNCHANGED background

Spawn(p, a) ==
  /\ Call(p, a, "spawn")
  /\ p # Nobody => ~Ended(p)
  /\ delegation' = [delegation EXCEPT ![a] = "running"]
  /\ background' = [background EXCEPT ![a] = "running"]
  /\ UNCHANGED <<cut, spoiled>>

\* no slot: a delegation stays running in its table, a spawned agent has failed in one of two
NotRun(a) ==
  /\ background' = IF job[a].kind = "spawn" THEN [background EXCEPT ![a] = "failed"] ELSE background
  /\ spoiled' = spoiled \cup {a}
  /\ Over(a)

\* Mutant: one agent more.
OverLimit == users > perUser

AtLimit == users >= perUser

\* UserSemaphore.Acquire: the count is checked under the mutex ...
AcquireUser(a) ==
  /\ At(a, "user")
  /\ IF AtLimit
     THEN NotRun(a) /\ UNCHANGED users
     ELSE users' = users + 1 /\ Goto(a, "global") /\ UNCHANGED <<background, late, cut, spoiled>>
  /\ UNCHANGED <<perUser, delegation, slots, cancelling, faults>>

\* ... then it waits for a slot, or for the end of the caller's context
AcquireSlot(a) ==
  /\ At(a, "global") /\ slots < MaxRunning /\ slots' = slots + 1
  /\ Goto(a, "loop")
  /\ UNCHANGED <<perUser, delegation, background, users, cancelling, late, cut, faults, spoiled>>

\* Mutant: the count is not taken back.
GiveUpCounted(a) ==
  /\ At(a, "global") /\ Ended(a) /\ NotRun(a)
  /\ UNCHANGED <<perUser, delegation, users, slots, cancelling, faults>>

GiveUp(a) ==
  /\ At(a, "global") /\ Ended(a)
  /\ users' = users - 1 /\ NotRun(a)
  /\ UNCHANGED <<perUser, delegation, slots, cancelling, faults>>

-----------------------------------------------------------------------------
(* The agent loop: one turn of the model at a time *)

\* its context has ended, or a budget is used up
StopAtHead(a) == At(a, "loop") /\ EndsAs(a, "cancelled")
\* the final answer, or the limit of tool calls
Complete(a) == At(a, "loop") /\ EndsAs(a, "completed")
ModelFails(a) == At(a, "loop") /\ EndsAs(a, "failed")
\* the model asks for tools, also if the context ends meanwhile
UseTools(a) == At(a, "loop") /\ Goto(a, "tools")
\* all of them have returned, delegations too
ToolsDone(a) == At(a, "tools") /\ Children(a) = {} /\ Goto(a, "loop")

LoopNext(a) ==
  /\ StopAtHead(a) \/ (~Ended(a) /\ (Complete(a) \/ UseTools(a))) \/ ModelFails(a) \/ ToolsDone(a)
  /\ UNCHANGED <<perUser, delegation, background, users, slots, cancelling, late, cut, faults, spoiled>>

ToRelease(a) == job' = [job EXCEPT ![a].pc = "release", ![a].result = NoJob.result]
AfterDelegation(a) == IF job[a].kind = "spawn" THEN Goto(a, "background") ELSE ToRelease(a)

\* updateDelegation: whatever the row says; a delegate's in the caller's context
UpdateDelegation(a) ==
  /\ At(a, "delegation")
  /\ AfterDelegation(a)
  /\ IF a \in cut
     THEN UNCHANGED delegation /\ spoiled' = spoiled \cup {a}
     ELSE delegation' = [delegation EXCEPT ![a] = job[a].result] /\ UNCHANGED spoiled
  /\ UNCHANGED <<perUser, background, users, slots, cancelling, late, cut, faults>>

UpdateBackground(a) ==
  /\ At(a, "background") /\ ToRelease(a)
  /\ background' = [background EXCEPT ![a] = job[a].result]
  /\ UNCHANGED <<perUser, delegation, users, slots, cancelling, late, cut, faults, spoiled>>

WriteFails(a) ==
  /\ \/ At(a, "delegation") /\ AfterDelegation(a)
     \/ At(a, "background") /\ ToRelease(a)
  /\ Fault(a)
  /\ UNCHANGED <<perUser, delegation, background, users, slots, cancelling, late, cut>>

\* the goroutine of a spawned agent recovers, and releases what it holds
Panic(a) ==
  /\ job[a].pc \in {"loop", "tools"} /\ job[a].kind = "spawn" /\ Children(a) = {}
  /\ Fault(a) /\ ToRelease(a)
  /\ UNCHANGED <<perUser, delegation, background, users, slots, cancelling, late, cut>>

\* UserSemaphore.Release: the slot, then the count
Release(a) ==
  /\ At(a, "release") /\ slots > 0 /\ slots' = slots - 1 /\ Goto(a, "leave")
  /\ UNCHANGED <<perUser, delegation, background, users, cancelling, late, cut, faults, spoiled>>

Leave(a) ==
  /\ At(a, "leave") /\ users' = (IF users > 0 THEN users - 1 ELSE users) /\ Over(a)
  /\ UNCHANGED <<perUser, delegation, background, slots, cancelling, faults, spoiled>>

-----------------------------------------------------------------------------
(* Cancellation, time, crash *)

\* Mutant: whatever the row says.
AnyStatus(a) == delegation[a] # "none"

StillRunning(a) == delegation[a] = "running"

\* agent.cancel: background_agents first; the goroutine is not told
CancelBackground(a) ==
  /\ job[a].pc # "none" /\ a \notin cancelling /\ cancelling' = cancelling \cup {a}
  /\ background' = IF background[a] = "running" THEN [background EXCEPT ![a] = "cancelled"] ELSE background
  /\ UNCHANGED <<perUser, job, delegation, users, slots, late, cut, faults, spoiled>>

CancelDelegation(a) ==
  /\ a \in cancelling /\ cancelling' = cancelling \ {a}
  /\ delegation' = IF StillRunning(a) THEN [delegation EXCEPT ![a] = "cancelled"] ELSE delegation
  /\ UNCHANGED <<perUser, job, background, users, slots, late, cut, faults, spoiled>>

\* a timeout runs from the start of Run, for a spawned agent from its goroutine's
Timeout(a) ==
  /\ a \notin late
  /\ job[a].pc \in {"loop", "tools"} \cup (IF job[a].kind = "spawn" THEN {"user", "global"} ELSE {})
  /\ late' = late \cup {a}
  /\ cut' = cut \cup {b \in Agents : Active(b) /\ a \in job[b].within}
  /\ UNCHANGED <<perUser, job, delegation, background, users, slots, cancelling, faults, spoiled>>

\* the turn that called ends, by its own timeout
CallerEnds(a) ==
  /\ Active(a) /\ job[a].kind = "delegate" /\ job[a].parent = Nobody /\ a \notin cut
  /\ cut' = cut \cup {a} \cup {b \in Agents : Active(b) /\ a \in job[b].within}
  /\ UNCHANGED <<perUser, job, delegation, background, users, slots, cancelling, late, faults, spoiled>>

\* the rows stay; RecoverAgents looks at table agents only
Crash ==
  /\ faults > 0 /\ faults' = faults - 1
  /\ spoiled' = spoiled \cup {a \in Agents : Active(a)}
  /\ job' = [a \in Agents |-> IF Active(a) THEN [NoJob EXCEPT !.pc = "done", !.kind = job[a].kind]
                              ELSE job[a]]
  /\ users' = 0 /\ slots' = 0 /\ cancelling' = {} /\ late' = {} /\ cut' = {}
  /\ UNCHANGED <<perUser, delegation, background>>

\* the goroutine of a sub-agent goes on
Advance(a) ==
  \/ AcquireUser(a) \/ AcquireSlot(a) \/ GiveUp(a) \/ LoopNext(a)
  \/ UpdateDelegation(a) \/ UpdateBackground(a) \/ Release(a) \/ Leave(a)

ToolNext(a) ==
  \/ \E p \in Agents \cup {Nobody} : Delegate(p, a) \/ Spawn(p, a)
  \/ CancelBackground(a) \/ CancelDelegation(a)

\* a timeout runs out, or the context of a turn ends
Timers == \E a \in Agents : Timeout(a) \/ CallerEnds(a)

DgNext ==
  \/ \E a \in Agents : ToolNext(a) \/ Advance(a) \/ WriteFails(a) \/ Panic(a)
  \/ Timers \/ Crash

\* goroutines go on and timers run out; it is enough that some do
DgFairness == WF_dgvars(\E a \in Agents : Advance(a)) /\ WF_dgvars(Timers)
DgSpec == DgInit /\ [][DgNext]_dgvars /\ DgFairness

-----------------------------------------------------------------------------
Counted(a) == job[a].pc \in {"global", "loop", "tools", "delegation", "background", "release", "leave"}
Holding(a) == job[a].pc \in {"loop", "tools", "delegation", "background", "release"}

(* The type invariant.                                                        *)
DgTypeOK ==
  /\ job \in [Agents -> Job]
  /\ delegation \in [Agents -> Settled \cup {"none", "running"}]
  /\ background \in [Agents -> Settled \cup {"none", "running"}]
  /\ cancelling \subseteq Agents /\ late \subseteq Agents /\ cut \subseteq Agents /\ spoiled \subseteq Agents
  /\ perUser \in UserLimits /\ users \in 0..perUser /\ slots \in 0..MaxRunning /\ faults \in 0..MaxFaults

(* No slot is lost or used twice, whichever way a call ends (no slot, a       *)
(* timeout while it waits for one, a panic, a normal end): the counters are   *)
(* the agents that hold something (agent.go:497-558, tools.go:115-125).       *)
SlotsAccounted ==
  /\ users = Cardinality({a \in Agents : Counted(a)})
  /\ slots = Cardinality({a \in Agents : Holding(a)})

(* The two tables agree on a background agent that has ended, at any moment   *)
(* of a cancellation, although its goroutine and agent.cancel each update     *)
(* them with one statement after the other (tools.go:244-245, 334-339).       *)
TablesAgree ==
  \A a \in Agents :
    At(a, "done") /\ job[a].kind = "spawn" /\ a \notin spoiled
      => delegation[a] = background[a] /\ background[a] \in Settled
=============================================================================
