------------------------------ MODULE Schedule ------------------------------
(* The scheduler: a loop that runs what is due once a minute, a recovery that *)
(* does the same once at every start, the goroutines that execute the runs    *)
(* and record their outcome, and the tools that create and delete schedules.  *)
(* Nothing keeps the loop, the recovery and the tools apart but the database, *)
(* one statement at a time.                                                   *)
EXTENDS Cron

CONSTANTS Scheds,        \* schedule ids, never used twice
          Crons,         \* the expressions in use, accepted by ParseCron
          Begin, MaxTime,\* bound: the minutes looked at
          MaxMishaps      \* bound: stops, failing statements and deletions

ASSUME ScheduleAssumption ==
  /\ Scheds # {} /\ Crons # {} /\ \A c \in Crons : Accepted(c)
  /\ {Begin, MaxTime, MaxMishaps} \subseteq Nat /\ Begin \in 1..MaxTime

VARIABLES now,
          rows,      \* table schedules
          runs,      \* table schedule_runs
          disp,      \* the loop and the recovery: where they are
          execs,     \* goroutines that execute a run
          deleting,  \* Delete has removed the runs and not yet the row
          up,        \* the process runs
          left       \* faults that remain

svars == <<now, rows, runs, disp, execs, deleting, up, left>>

Times == Begin..MaxTime
Dispatchers == {"loop", "recovery"}
NoRow == [st |-> "none", cron |-> CHOOSE c \in Crons : TRUE, created |-> Begin]
Pending == [pc |-> "idle", todo |-> {}, sched |-> CHOOSE s \in Scheds : TRUE, seen |-> 0, at |-> Begin]

SchedInit ==
  /\ now = Begin /\ rows = [s \in Scheds |-> NoRow] /\ runs = {}
  /\ disp = [d \in Dispatchers |-> Pending]
  /\ execs = {} /\ deleting = {} /\ up = TRUE
  /\ left = MaxMishaps

Exists(s) == rows[s].st \in {"on", "off"}
RunsOf(s) == {r \in runs : r.sched = s}
\* Mutant: the oldest run instead of the newest.
FirstTime(s) == IF RunsOf(s) = {} THEN rows[s].created - 1
                ELSE Min({r.started : r \in RunsOf(s)})

\* LastRun, or a minute before the creation
LastTime(s) == IF RunsOf(s) = {} THEN rows[s].created - 1
               ELSE Max({r.started : r \in RunsOf(s)})
\* Mutant: the largest rowid in use.
LastId == Max({r.id : r \in runs} \cup {1})

\* a rowid is one more than the largest in use: it is used again after a delete
NextId == Max({r.id : r \in runs} \cup {0}) + 1
Mishap == left > 0 /\ left' = left - 1

-----------------------------------------------------------------------------
(* Tools *)

Create(s) ==
  /\ rows[s].st = "none"
  /\ \E c \in Crons : rows' = [rows EXCEPT ![s] = [st |-> "on", cron |-> c, created |-> now]]
  /\ UNCHANGED <<now, runs, disp, execs, deleting, up, left>>

\* DisableBuiltinSchedule, when the process starts without the feature
Disable(s) ==
  /\ rows[s].st = "on" /\ rows' = [rows EXCEPT ![s].st = "off"]
  /\ UNCHANGED <<now, runs, disp, execs, deleting, up, left>>

DeleteRuns(s) ==
  /\ Exists(s) /\ s \notin deleting /\ Mishap
  /\ runs' = runs \ RunsOf(s) /\ deleting' = deleting \cup {s}
  /\ UNCHANGED <<now, rows, disp, execs, up>>

\* refused by the foreign key if a run has been inserted since
DeleteRow(s) ==
  /\ s \in deleting /\ deleting' = deleting \ {s}
  /\ rows' = IF RunsOf(s) = {} THEN [rows EXCEPT ![s].st = "gone"] ELSE rows
  /\ UNCHANGED <<now, runs, disp, execs, up, left>>

-----------------------------------------------------------------------------
(* The loop and the recovery *)

\* Tick or RecoverMissed: the enabled schedules, and the time after the query
List(d) ==
  /\ up /\ disp[d].pc = IF d = "loop" THEN "idle" ELSE "start"
  /\ disp' = [disp EXCEPT ![d] = [Pending EXCEPT !.pc = "last", !.at = now,
                                    !.todo = {s \in Scheds : rows[s].st = "on"}]]
  /\ UNCHANGED <<now, rows, runs, execs, deleting, up, left>>

\* Mutant: only what is due in this very minute.
DueNow(c, last, at) == Next(c, last) = at

\* whatever is not due later, the zero time included
Due(c, last, at) == ~(Next(c, last) > at)

\* the recovery wants a fire before the present second: in the minute of the
\* fire itself it may pass over what is due
JustDue(d, c, last, at) == d = "recovery" /\ Next(c, last) = at

\* LastRun of the next schedule; the row that was listed decides with it
ReadLast(d) ==
  \E s \in disp[d].todo, run \in BOOLEAN :
    LET last == LastTime(s)
        cron == rows[s].cron
        over == [disp[d] EXCEPT !.todo = @ \ {s}] IN
    /\ disp[d].pc = "last"
    /\ run = Due(cron, last, disp[d].at) \/ (~run /\ JustDue(d, cron, last, disp[d].at))
    /\ disp' = [disp EXCEPT ![d] =
         IF run THEN [over EXCEPT !.pc = "record", !.sched = s, !.seen = last] ELSE over]
    /\ UNCHANGED <<now, rows, runs, execs, deleting, up, left>>

Onward(d) == [Pending EXCEPT !.pc = "last", !.at = disp[d].at, !.todo = disp[d].todo]

\* RecordRun: the run is running, and a goroutine executes it
Record(d) ==
  LET s == disp[d].sched
      twins == {e \in execs : e.id = NextId /\ e.sched = s}
  IN /\ disp[d].pc = "record"
     /\ disp' = [disp EXCEPT ![d] = Onward(d)]
     /\ IF Exists(s)
        THEN /\ runs' = runs \cup {[id |-> NextId, sched |-> s, started |-> disp[d].at, status |-> "running"]}
             /\ execs' = execs \cup {[id |-> NextId, sched |-> s, twin |-> Cardinality(twins)]}
        ELSE UNCHANGED <<runs, execs>>
     /\ UNCHANGED <<now, rows, deleting, up, left>>

\* a failing statement passes over one schedule, or over all of them
DispatchFails(d) ==
  /\ disp[d].pc # "idle" /\ Mishap
  /\ \/ disp[d].pc = "start" /\ disp' = [disp EXCEPT ![d] = Pending]
     \/ disp[d].pc = "record" /\ disp' = [disp EXCEPT ![d] = Onward(d)]
     \/ \E s \in disp[d].todo :
          disp[d].pc = "last" /\ disp' = [disp EXCEPT ![d].todo = @ \ {s}]
  /\ UNCHANGED <<now, rows, runs, execs, deleting, up>>

DispatchDone(d) ==
  /\ disp[d].pc = "last" /\ disp[d].todo = {}
  /\ disp' = [disp EXCEPT ![d] = Pending]
  /\ UNCHANGED <<now, rows, runs, execs, deleting, up, left>>

\* Mutant: the outcome goes to all runs of the schedule.
SameSchedule(r, e) == r.sched = e.sched

SameRun(r, e) == r.id = e.id

\* a run ends, and its outcome goes to the row of its id, whatever run that is
Finish(e) ==
  /\ e \in execs /\ execs' = execs \ {e}
  /\ \E status \in {"completed", "failed"} :
       runs' = {IF SameRun(r, e) THEN [r EXCEPT !.status = status] ELSE r : r \in runs}
  /\ UNCHANGED <<now, rows, disp, deleting, up, left>>

FinishUnrecorded(e) ==
  /\ e \in execs /\ execs' = execs \ {e} /\ Mishap
  /\ UNCHANGED <<now, rows, runs, disp, deleting, up>>

-----------------------------------------------------------------------------
\* Stop or a crash: what executes is cut off, and so is the statement that records it
Stop ==
  /\ up /\ up' = FALSE /\ Mishap
  /\ disp' = [d \in Dispatchers |-> Pending] /\ execs' = {} /\ deleting' = {}
  /\ UNCHANGED <<now, rows, runs>>

\* Start, then RecoverMissed
Start ==
  /\ ~up /\ up' = TRUE
  /\ disp' = [disp EXCEPT !["recovery"].pc = "start"]
  /\ UNCHANGED <<now, rows, runs, execs, deleting, left>>

Clock ==
  /\ now < MaxTime /\ now' = now + 1
  /\ UNCHANGED <<rows, runs, disp, execs, deleting, up, left>>

DispatchNext(d) == List(d) \/ ReadLast(d) \/ Record(d) \/ DispatchDone(d)
SchedToolNext == up /\ \E s \in Scheds : Create(s) \/ Disable(s) \/ DeleteRuns(s) \/ DeleteRow(s)
ExecNext == \E e \in execs : Finish(e) \/ FinishUnrecorded(e)

SchedNext ==
  \/ SchedToolNext \/ ExecNext \/ Stop \/ Start \/ Clock
  \/ \E d \in Dispatchers : DispatchNext(d) \/ DispatchFails(d)

\* the loop goes on for as long as the process runs, and time passes
SchedFairness == WF_svars(DispatchNext("loop")) /\ WF_svars(Clock)
SchedSpec == SchedInit /\ [][SchedNext]_svars /\ SchedFairness

-----------------------------------------------------------------------------
(* The type invariant: ids are the keys of the table.                         *)
SchedTypeOK ==
  /\ now \in Times /\ up \in BOOLEAN /\ deleting \subseteq Scheds
  /\ rows \in [Scheds -> [st : {"none", "on", "off", "gone"}, cron : Crons, created : Times]]
  /\ \A r \in runs : r.sched \in Scheds /\ r.started \in Times /\ r.status \in {"running", "completed", "failed"}
  /\ \A r, q \in runs : r.id = q.id => r = q
  /\ \A d \in Dispatchers : /\ disp[d].pc \in {"idle", "start", "last", "record"}
                            /\ disp[d].todo \subseteq Scheds /\ disp[d].sched \in Scheds
  /\ \A e \in execs : e.sched \in Scheds

(* Between two fires of its expression a schedule runs at most once per       *)
(* dispatcher, however late the loop is, whatever is missed in a downtime and *)
(* however often the process starts (schedule.go:201-227, reliability.go:     *)
(* 54-80): what was missed is made up by one run.                             *)
OncePerFire ==
  \A r \in runs :
    Next(rows[r.sched].cron, r.started) # Zero =>
      Cardinality({q \in RunsOf(r.sched) :
                     q.started \in r.started..(Next(rows[r.sched].cron, r.started) - 1)})
        <= Cardinality(Dispatchers)

(* The outcome of a run that has ended stays, unless an execution is under    *)
(* way that was begun for a deleted run with the same id (store.go:138-152,   *)
(* 201; the key is not AUTOINCREMENT).                                        *)
OutcomeFinal ==
  [][\A r \in runs :
       r.status # "running" /\ (\A e \in execs : e.id # r.id)
         => r \in runs' \/ RunsOf(r.sched)' = {}]_svars

(* No fire is missed for good: a schedule that is due is run in the end, by   *)
(* the loop or, after a downtime, by the recovery or the loop, unless it is   *)
(* disabled or deleted or the process stops.                                  *)
Overdue(s) == rows[s].st = "on" /\ Next(rows[s].cron, LastTime(s)) <= now
DueIsServed == \A s \in Scheds : Overdue(s) ~> (~Overdue(s) \/ ~up)

(* A tick runs the schedules that are due (schedule.go:178): what it starts   *)
(* has fired since the last run it read.                                      *)
RunsOnlyWhenDue ==
  [][\A d \in Dispatchers :
       Record(d) /\ runs' # runs =>
         \E t \in (disp[d].seen + 1)..disp[d].at : Matches(rows[disp[d].sched].cron, t)]_svars
=============================================================================
