---------------------------- MODULE Conversation ----------------------------
(***************************************************************************)
(* Messages of users on their way through channel/router.go: the session   *)
(* they belong to, the rows session/session.go keeps of them, the run of   *)
(* the agent that answers, and the sweep that removes sessions in the      *)
(* background.  Adapters hand each message over in a goroutine of its own  *)
(* (slack.go:203, discord.go:291, webchat.go:354), so two messages of one  *)
(* conversation may be anywhere at the same time.  Tables reference        *)
(* sessions: a row of a session that is gone is refused, and so is the     *)
(* removal of a session that rows still refer to (db.go:108).  What a      *)
(* message says is left out.                                               *)
(***************************************************************************)
EXTENDS Integers

CONSTANTS
  Inbox,       \* messages users send; a session goes by the message that created it
  Threads,     \* conversations: what sessionKey tells apart
  None,        \* no session
  MaxAge,      \* sessions.max_age
  MaxTime,     \* bound: the clock
  MaxMishaps   \* bound: statements that fail, contexts that end, restarts

ASSUME CvAssumption ==
  /\ None \notin Inbox /\ MaxAge \in Nat /\ MaxTime \in Nat /\ MaxMishaps \in Nat

VARIABLES
  turn,      \* the handling of each message
  mapped,    \* Router.sessionMap
  rows,      \* table sessions: updated_at, which nothing moves, or Absent
  log,       \* table messages
  runs,      \* table agents: the state of the run for each message
  sweep,     \* CleanupExpired
  now, mishaps

cvvars == <<turn, mapped, rows, log, runs, sweep, now, mishaps>>

Absent == -1

RunState == {"none", "running", "completed", "failed", "cancelled"}

\* ctx: the run's own deadline has passed (late), the message's context has
\* ended (over); outcome: what is sent; hurt: the database refused a statement.
\* Of a turn that is over only its session is kept, and whether the user got
\* an answer while nothing went wrong.
Turn == [ at : {"new", "create", "enter", "ask", "compose", "begin", "loop", "answer", "send",
                "done", "lost"},
          thread : Threads \cup {None}, session : Inbox \cup {None},
          ctx : {"live", "late", "over"}, outcome : {"none", "stop", "error", "answer", "failed", "paused"},
          tries : 0..2, hurt : BOOLEAN, answered : BOOLEAN ]
NewTurn == [ at |-> "new", thread |-> None, session |-> None, ctx |-> "live", outcome |-> "none",
             tries |-> 0, hurt |-> FALSE, answered |-> FALSE ]

Entry == [ id : Nat, session : Inbox, role : {"user", "assistant"}, of : Inbox ]

NoSweep == [ at |-> "idle", left |-> {}, on |-> None ]

CvTypeOK ==
  /\ turn \in [Inbox -> Turn] /\ mapped \in [Threads -> Inbox \cup {None}]
  /\ rows \in [Inbox -> 0..MaxTime \cup {Absent}] /\ log \subseteq Entry
  /\ runs \in [Inbox -> RunState]
  /\ sweep \in [ at : {"idle", "next", "session"}, left : SUBSET Inbox,
                 on : Inbox \cup {None} ]
  /\ now \in 0..MaxTime /\ mishaps \in 0..MaxMishaps

CvInit ==
  /\ turn = [m \in Inbox |-> NewTurn] /\ mapped = [t \in Threads |-> None]
  /\ rows = [m \in Inbox |-> Absent] /\ log = {} /\ runs = [m \in Inbox |-> "none"]
  /\ sweep = NoSweep /\ now = 0 /\ mishaps = MaxMishaps

Is(m, at) == turn[m].at = at
Session(m) == turn[m].session
Mishap == mishaps > 0 /\ mishaps' = mishaps - 1
UnderWay(m) == turn[m].at \notin {"new", "done", "lost"}

\* A statement of the turn runs, or fails: its context has ended, or the
\* database refuses for once.
Runs(m) == turn[m].ctx # "over" /\ UNCHANGED mishaps
Fails(m) == IF turn[m].ctx = "over" THEN UNCHANGED mishaps ELSE Mishap

\* The next stage, after a statement that ran or one that failed.
GoesOn(m, at) == turn' = [turn EXCEPT ![m].at = at, ![m].hurt = @ \/ mishaps' # mishaps]
SendsBack(m, outcome) ==
  turn' = [turn EXCEPT ![m].at = "send", ![m].outcome = outcome]

-----------------------------------------------------------------------------
\* A message comes in; a known conversation has its session in the map.
Receive(m, t) ==
  /\ Is(m, "new")
  /\ turn' = [turn EXCEPT ![m].thread = t, ![m].session = mapped[t],
                          ![m].at = IF mapped[t] = None THEN "create" ELSE "ask"]
  /\ UNCHANGED <<mapped, rows, log, runs, sweep, now, mishaps>>

\* A stop phrase is acknowledged before anything else and has no session.
StopPhrase(m) ==
  /\ Is(m, "new") /\ SendsBack(m, "stop")
  /\ UNCHANGED <<mapped, rows, log, runs, sweep, now, mishaps>>

\* The INSERT of the session; its error is returned and nothing is sent.
CreateSession(m) ==
  /\ Is(m, "create")
  /\ \/ Runs(m) /\ rows' = [rows EXCEPT ![m] = now] /\ GoesOn(m, "enter")
     \/ Fails(m) /\ GoesOn(m, "done") /\ UNCHANGED rows
  /\ UNCHANGED <<mapped, log, runs, sweep, now>>

\* Mutant: the id is stored whatever the map holds by now.
EnterOwn(m) ==
  /\ Is(m, "enter")
  /\ mapped' = [mapped EXCEPT ![turn[m].thread] = m]
  /\ turn' = [turn EXCEPT ![m].at = "ask", ![m].session = m]
  /\ UNCHANGED <<rows, log, runs, sweep, now, mishaps>>

\* LoadOrStore: another message of the conversation may have been faster.
Enter(m) ==
  /\ Is(m, "enter")
  /\ LET t == turn[m].thread
         s == IF mapped[t] = None THEN m ELSE mapped[t] IN
       /\ mapped' = [mapped EXCEPT ![t] = s]
       /\ turn' = [turn EXCEPT ![m].at = "ask", ![m].session = s]
  /\ UNCHANGED <<rows, log, runs, sweep, now, mishaps>>

\* A voice message nothing was heard in.
Unheard(m) ==
  /\ Is(m, "ask") /\ SendsBack(m, "error")
  /\ UNCHANGED <<mapped, rows, log, runs, sweep, now, mishaps>>

\* INTEGER PRIMARY KEY: one more than the largest id in the table.
MessageIds == IF log = {} THEN {1} ELSE { e.id + 1 : e \in { f \in log : \A g \in log : g.id <= f.id } }

\* AddMessage: an error is logged and the turn goes on.
AddMessage(m, role, next) ==
  /\ \/ /\ Runs(m) /\ GoesOn(m, next)
        /\ \E i \in MessageIds :
             log' = IF rows[Session(m)] = Absent THEN log
                    ELSE log \cup {[id |-> i, session |-> Session(m), role |-> role, of |-> m]}
     \/ Fails(m) /\ GoesOn(m, next) /\ UNCHANGED log
  /\ UNCHANGED <<mapped, rows, runs, sweep, now>>

Ask(m) == Is(m, "ask") /\ AddMessage(m, "user", "compose")

\* Compose reads what the prompt needs; its error ends the turn.
Compose(m) ==
  /\ Is(m, "compose")
  /\ \/ Runs(m) /\ GoesOn(m, "begin")
     \/ Fails(m) /\ SendsBack(m, "error")
  /\ UNCHANGED <<mapped, rows, log, runs, sweep, now>>

-----------------------------------------------------------------------------
\* persistState: an upsert whose error is logged; live: its context is.
PersistState(m, state, live) ==
  \/ /\ live /\ UNCHANGED mishaps
     /\ runs' = IF runs[m] = "none" /\ rows[Session(m)] = Absent THEN runs
                ELSE [runs EXCEPT ![m] = state]
  \/ UNCHANGED runs /\ IF live THEN Mishap ELSE UNCHANGED mishaps

Live(m) == turn[m].ctx = "live"

\* The run begins, or comes back from its tools.
Begin(m) ==
  /\ Is(m, "begin") \/ Is(m, "loop")
  /\ PersistState(m, "running", Live(m))
  /\ GoesOn(m, "loop")
  /\ UNCHANGED <<mapped, rows, log, sweep, now>>

\* Mutant: an error of the model is not recorded.
EndingsSilent(m) ==
  { [outcome |-> "answer", state |-> "completed", live |-> Live(m)],
    [outcome |-> "paused", state |-> "cancelled", live |-> Live(m)],
    [outcome |-> "failed", state |-> "running", live |-> TRUE] }
  \cup IF Live(m) THEN {} ELSE { [outcome |-> "failed", state |-> "cancelled", live |-> FALSE] }

\* The ways a run ends: with an answer (or the limit of tool calls), in the
\* middle of a paused budget, with the model's error, which alone is recorded
\* under a context of its own, or at its deadline.
Endings(m) ==
  { [outcome |-> "answer", state |-> "completed", live |-> Live(m)],
    [outcome |-> "paused", state |-> "cancelled", live |-> Live(m)],
    [outcome |-> "failed", state |-> "failed", live |-> TRUE] }
  \cup IF Live(m) THEN {} ELSE { [outcome |-> "failed", state |-> "cancelled", live |-> FALSE] }

EndRun(m) ==
  /\ Is(m, "loop")
  /\ \E e \in Endings(m) :
       /\ PersistState(m, e.state, e.live)
       /\ turn' = [turn EXCEPT ![m].at = "answer", ![m].outcome = e.outcome,
                               ![m].hurt = @ \/ mishaps' # mishaps]
  /\ UNCHANGED <<mapped, rows, log, sweep, now>>

\* What is sent is stored first, and sent even if storing it failed.
Answer(m) ==
  /\ Is(m, "answer") /\ AddMessage(m, "assistant", "send")

\* Only an answer is sent again when the channel fails, unless the message's
\* context ends between the attempts.
Attempts(m) == IF turn[m].outcome = "answer" THEN 3 ELSE 1
Over(m, sent) ==
  turn' = [turn EXCEPT ![m] =
    [NewTurn EXCEPT !.at = "done", !.session = Session(m),
                    !.answered = /\ sent /\ ~turn[m].hurt /\ turn[m].ctx # "over"
                                 /\ turn[m].outcome \in {"answer", "failed", "paused"}]]
Send(m) ==
  /\ Is(m, "send")
  /\ IF turn[m].tries > 0 /\ turn[m].ctx = "over" THEN Over(m, FALSE)
     ELSE \/ Over(m, TRUE)
          \/ IF turn[m].tries + 1 = Attempts(m) THEN Over(m, FALSE)
             ELSE turn' = [turn EXCEPT ![m].tries = @ + 1]
  /\ UNCHANGED <<mapped, rows, log, runs, sweep, now, mishaps>>

-----------------------------------------------------------------------------
\* The run's own timeout; the connection of the user, or the program, ends.
Deadline(m) ==
  /\ Is(m, "loop") /\ Live(m) /\ Mishap /\ turn' = [turn EXCEPT ![m].ctx = "late"]
  /\ UNCHANGED <<mapped, rows, log, runs, sweep, now>>

Disconnect(m) ==
  /\ UnderWay(m) /\ turn[m].ctx # "over" /\ Mishap /\ turn' = [turn EXCEPT ![m].ctx = "over"]
  /\ UNCHANGED <<mapped, rows, log, runs, sweep, now>>

\* Mutant: one step of the clock too early.
ExpiredEarly == { s \in Inbox : rows[s] # Absent /\ rows[s] + MaxAge <= now }

\* What the cleanup finds: nothing but its creation moves updated_at.
Expired == { s \in Inbox : rows[s] # Absent /\ rows[s] + MaxAge < now }

SweepStart ==
  /\ sweep.at = "idle"
  /\ sweep' = [ at |-> IF Expired = {} THEN "idle" ELSE "next", left |-> Expired, on |-> None ]
  /\ UNCHANGED <<turn, mapped, rows, log, runs, now, mishaps>>

\* Delete, first statement; if it fails, the second is not tried.
SweepMessages(s) ==
  /\ sweep.at = "next" /\ s \in sweep.left
  /\ \/ /\ log' = { e \in log : e.session # s }
        /\ sweep' = [sweep EXCEPT !.at = "session", !.on = s, !.left = @ \ {s}]
        /\ UNCHANGED mishaps
     \/ /\ Mishap /\ UNCHANGED log
        /\ sweep' = [sweep EXCEPT !.left = @ \ {s},
                                  !.at = IF sweep.left = {s} THEN "idle" ELSE "next"]
  /\ UNCHANGED <<turn, mapped, rows, runs, now>>

\* The second: refused while a message or a run refers to the session, and
\* the error is dropped.
Referring(s) ==
  \/ \E e \in log : e.session = s
  \/ \E m \in Inbox : runs[m] # "none" /\ Session(m) = s
SweepSession ==
  /\ sweep.at = "session"
  /\ \/ /\ rows' = IF Referring(sweep.on) THEN rows ELSE [rows EXCEPT ![sweep.on] = Absent]
        /\ UNCHANGED mishaps
     \/ Mishap /\ UNCHANGED rows
  /\ sweep' = [sweep EXCEPT !.at = IF sweep.left = {} THEN "idle" ELSE "next", !.on = None]
  /\ UNCHANGED <<turn, mapped, log, runs, now>>

Tick ==
  /\ now < MaxTime /\ now' = now + 1
  /\ UNCHANGED <<turn, mapped, rows, log, runs, sweep, mishaps>>

\* The process stops: the map is in memory, the tables are not.
Restart ==
  /\ Mishap
  /\ turn' = [m \in Inbox |-> IF UnderWay(m) THEN [NewTurn EXCEPT !.at = "lost", !.session = Session(m)] ELSE turn[m]]
  /\ mapped' = [t \in Threads |-> None] /\ sweep' = NoSweep
  /\ UNCHANGED <<rows, log, runs, now>>

CvNext ==
  \/ \E m \in Inbox :
       \/ \E t \in Threads : Receive(m, t)
       \/ StopPhrase(m) \/ CreateSession(m) \/ Enter(m) \/ Unheard(m) \/ Ask(m) \/ Compose(m)
       \/ Begin(m) \/ EndRun(m) \/ Answer(m) \/ Send(m) \/ Deadline(m) \/ Disconnect(m)
       \/ SweepMessages(m)
  \/ SweepStart \/ SweepSession \/ Tick \/ Restart

CvSpec == CvInit /\ [][CvNext]_cvvars

-----------------------------------------------------------------------------
\* Two messages of one conversation that are handled at the same time belong
\* to one session, and those of two conversations to two, although each may
\* have created a session before it looked again (router.go:305-320).
OneSession ==
  \A m, n \in Inbox :
    UnderWay(m) /\ UnderWay(n) /\ Session(m) # None /\ Session(n) # None =>
      (turn[m].thread = turn[n].thread <=> Session(m) = Session(n))

\* A reply a user has got is in the table behind the message it replies to,
\* each once, whatever other turns, restarts and the cleanup do meanwhile: as
\* long as the session is not expired and the database took the statements.
TurnRecorded ==
  \A m \in Inbox :
    LET s == Session(m) IN
    turn[m].answered /\ rows[s] # Absent /\ rows[s] + MaxAge >= now =>
      \E u, a \in log : /\ { e \in log : e.of = m } = {u, a} /\ u.id < a.id
                        /\ u.role = "user" /\ a.role = "assistant" /\ {u.session, a.session} = {s}

\* The row of a run that has ended says how, so that nothing looks as if it
\* still ran (agent.go:435-438); except at the run's own deadline, where the
\* code writes it under the context that has ended (agent.go:210-217).
Final == [ answer |-> "completed", paused |-> "cancelled", failed |-> "failed",
           none |-> "none", stop |-> "none", error |-> "none" ]
Recorded(m) ==
  turn[m].at \in {"answer", "send"} /\ turn[m].ctx = "live" /\ ~turn[m].hurt
    /\ Session(m) # None /\ rows[Session(m)] # Absent => runs[m] = Final[turn[m].outcome]
RunRecorded == \A m \in Inbox : Recorded(m)

\* "Delete removes a session and all its messages" (session.go:155): once both
\* statements have run, a session that no turn is using is gone.
SweptIsGone ==
  [][ /\ sweep.at = "session" /\ sweep'.at # "session" /\ mishaps' = mishaps
      /\ ~\E m \in Inbox : UnderWay(m) /\ Session(m) = sweep.on
      => rows'[sweep.on] = Absent ]_cvvars
=============================================================================
