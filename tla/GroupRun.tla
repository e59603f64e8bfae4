------------------------------ MODULE GroupRun ------------------------------
(* A grouped step: the supervisor hands it to the manager tier, which runs    *)
(* its sub-steps on the workers one after the other and publishes one result. *)
(* Both listen to the mission's events, where every result appears; the       *)
(* manager listens only while it waits for a sub-step. Competing and reliable *)
(* publications are taken by what Bus shows of them: a message may be taken   *)
(* although its call fails, and may come twice.                               *)
EXTENDS Integers, Sequences, FiniteSets, SequencesExt

CONSTANTS Groups,      \* the grouped steps, dispatched in any order
          Size,        \* group -> its number of sub-steps
          Buffer,      \* capacity of the manager's events channel (code: 8)
          MaxDispatch, \* bound: dispatches of groups
          MaxRepeats   \* bound: results that come twice

ASSUME GroupAssumption ==
  /\ Groups # {} /\ Size \in [Groups -> Nat]
  /\ {Buffer, MaxDispatch, MaxRepeats} \subseteq Nat

VARIABLES waits,    \* the group the supervisor waits for, or none
          outcome,  \* what the supervisor recorded of a group
          mgr,      \* the manager: its place, its group and sub-step
          work,     \* sub-steps the workers execute
          events,   \* results in the manager's channel
          results,  \* group results on their way to the supervisor
          dispatched, repeats,
          done,     \* history: sub-steps a worker has executed with success
          begun     \* history: sub-steps taken by a worker

gvars == <<waits, outcome, mgr, work, events, results, dispatched, repeats, done, begun>>

None == "none"
Subs == UNION {{g} \X (1..Size[g]) : g \in Groups}
Say == {"success", "failure", "confirm"}
Rest == [pc |-> "idle", group |-> CHOOSE g \in Groups : TRUE, i |-> 1]

GrInit ==
  /\ waits = None /\ outcome = [g \in Groups |-> "open"] /\ mgr = Rest
  /\ work = <<>> /\ events = <<>> /\ results = {} /\ dispatched = 0 /\ repeats = 0
  /\ done = {} /\ begun = {}

-----------------------------------------------------------------------------
(* The supervisor *)

\* PublishCompeting to the manager, which takes it only when it is idle, and acks it
Dispatch(g) ==
  /\ waits = None /\ outcome[g] = "open" /\ dispatched < MaxDispatch
  /\ mgr.pc = "idle" /\ mgr' = [Rest EXCEPT !.pc = "begin", !.group = g]
  /\ waits' \in {g, None}                          \* None: the ack came too late
  /\ dispatched' = dispatched + 1
  /\ UNCHANGED <<outcome, work, events, results, repeats, done, begun>>

\* the first result of the group decides, of whichever dispatch
Receive(g, say) ==
  /\ <<g, say>> \in results /\ results' = results \ {<<g, say>>}
  /\ IF waits = g
     THEN outcome' = [outcome EXCEPT ![g] = IF say = "success" THEN "completed" ELSE "failed"] /\ waits' = None
     ELSE UNCHANGED <<outcome, waits>>
  /\ UNCHANGED <<mgr, work, events, dispatched, repeats, done, begun>>

\* StepTimeout: the step stays open and may be dispatched again after a replan
StepTimeout ==
  /\ waits # None /\ waits' = None
  /\ UNCHANGED <<outcome, mgr, work, events, results, dispatched, repeats, done, begun>>

-----------------------------------------------------------------------------
(* The manager *)

\* the group's one result, published by a goroutine
Publish(say) == results' = results \cup {<<mgr.group, say>>} /\ mgr' = Rest

\* an empty list of sub-steps is a failure
BeginGroup ==
  /\ mgr.pc = "begin"
  /\ IF Size[mgr.group] = 0 THEN Publish("failure")
     ELSE mgr' = [mgr EXCEPT !.pc = "dispatch"] /\ UNCHANGED results
  /\ UNCHANGED <<waits, outcome, work, events, dispatched, repeats, done, begun>>

Sub == <<mgr.group, mgr.i>>
Taken == work' = Append(work, Sub) /\ begun' = begun \cup {Sub}

\* PublishCompeting to the workers
DispatchSub ==
  /\ mgr.pc = "dispatch" /\ Taken
  /\ mgr' = [mgr EXCEPT !.pc = "wait"]
  /\ UNCHANGED <<waits, outcome, events, results, dispatched, repeats, done>>

\* ... fails: no worker took it, or the one that did acked too late
DispatchSubFails ==
  /\ mgr.pc = "dispatch"
  /\ Taken \/ UNCHANGED <<work, begun>>
  /\ Publish("failure")
  /\ UNCHANGED <<waits, outcome, events, dispatched, repeats, done>>

\* Mutant: any result of the group.
OfGroup(sub) == sub[1] = mgr.group

Awaited(sub) == sub = Sub

\* a result of this sub-step, or another one, which is acked and dropped
TakeEvent ==
  LET sub == Head(events)[1]
      say == Head(events)[2]
  IN /\ mgr.pc = "wait" /\ events # <<>> /\ events' = Tail(events)
     /\ \/ ~Awaited(sub) /\ UNCHANGED <<mgr, results>>
        \/ Awaited(sub) /\ say # "success" /\ Publish("failure")
        \/ /\ Awaited(sub) /\ say = "success" /\ mgr.i < Size[mgr.group]
           /\ mgr' = [mgr EXCEPT !.pc = "dispatch", !.i = @ + 1] /\ UNCHANGED results
        \/ Awaited(sub) /\ say = "success" /\ mgr.i = Size[mgr.group] /\ Publish("success")
     /\ UNCHANGED <<waits, outcome, work, dispatched, repeats, done, begun>>

\* Mutant: the timer counts only while results come in.
SubStepTimeoutIfLate ==
  /\ mgr.pc = "wait" /\ events # <<>> /\ Publish("failure")
  /\ UNCHANGED <<waits, outcome, work, events, dispatched, repeats, done, begun>>

\* SubStepTimeout: the worker is not told
SubStepTimeout ==
  /\ mgr.pc = "wait" /\ Publish("failure")
  /\ UNCHANGED <<waits, outcome, work, events, dispatched, repeats, done, begun>>

-----------------------------------------------------------------------------
(* The workers *)

\* a result goes to the manager's channel, unless that is full: the supervisor,
\* which is subscribed too, acks it all the same
Execute(k) ==
  /\ k \in DOMAIN work /\ work' = RemoveAt(work, k)
  /\ \E say \in Say :
       /\ done' = IF say = "success" THEN done \cup {work[k]} ELSE done
       /\ events' = IF Len(events) < Buffer THEN Append(events, <<work[k], say>>) ELSE events
  /\ UNCHANGED <<waits, outcome, mgr, results, dispatched, repeats, begun>>

\* a retry of a publication whose ack came too late
EventAgain ==
  /\ repeats < MaxRepeats /\ repeats' = repeats + 1
  /\ events # <<>> /\ Len(events) < Buffer /\ events' = Append(events, Last(events))
  /\ UNCHANGED <<waits, outcome, mgr, work, results, dispatched, done, begun>>

Manage == BeginGroup \/ DispatchSub \/ DispatchSubFails \/ TakeEvent
GrNext ==
  \/ \E g \in Groups : Dispatch(g) \/ \E say \in Say : Receive(g, say)
  \/ StepTimeout \/ Manage \/ SubStepTimeout \/ EventAgain
  \/ \E k \in 1..MaxDispatch : Execute(k)

\* the manager goes on and its timers run out; workers may hang
GrFairness == WF_gvars(Manage) /\ WF_gvars(SubStepTimeout)
GrSpec == GrInit /\ [][GrNext]_gvars /\ GrFairness

-----------------------------------------------------------------------------
(* The type invariant.                                                        *)
GrTypeOK ==
  /\ waits \in Groups \cup {None} /\ outcome \in [Groups -> {"open", "completed", "failed"}]
  /\ mgr \in [pc : {"idle", "begin", "dispatch", "wait"}, group : Groups, i : Nat \ {0}]
  /\ mgr.pc \in {"dispatch", "wait"} => mgr.i <= Size[mgr.group]
  /\ work \in Seq(Subs) /\ events \in Seq(Subs \X Say) /\ Len(events) <= Buffer
  /\ results \subseteq Groups \X Say /\ done \subseteq begun /\ begun \subseteq Subs
  /\ dispatched \in 0..MaxDispatch /\ repeats \in 0..MaxRepeats

(* A group is completed only when every one of its sub-steps has been         *)
(* executed with success, and a sub-step is begun only when the ones before   *)
(* it have been, whatever results of abandoned dispatches arrive late, twice  *)
(* or not at all (manager.go:166-197).                                        *)
GroupInOrder ==
  /\ \A g \in Groups : outcome[g] = "completed" =>
       Size[g] > 0 /\ \A i \in 1..Size[g] : <<g, i>> \in done
  /\ \A s \in begun : \A i \in 1..(s[2] - 1) : <<s[1], i>> \in done

(* A group that has been taken is answered, and the manager is free again,    *)
(* even if the workers hang or their results are lost (manager.go:163-180).   *)
GroupAnswered == (mgr.pc # "idle") ~> (mgr.pc = "idle")
=============================================================================
