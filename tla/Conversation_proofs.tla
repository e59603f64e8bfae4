------------------------ MODULE Conversation_proofs ------------------------
(***************************************************************************)
(* Theorems about Conversation, for any messages, conversations, ages and  *)
(* number of mishaps.  The first part leaves the table of messages aside;  *)
(* the second is about that table alone and rests on the first.            *)
(***************************************************************************)
EXTENDS Conversation, TLAPS

Typed ==
  /\ turn \in [Inbox -> Turn] /\ mapped \in [Threads -> Inbox \cup {None}]
  /\ rows \in [Inbox -> 0..MaxTime \cup {Absent}] /\ runs \in [Inbox -> RunState]
  /\ sweep \in [ at : {"idle", "next", "session"}, left : SUBSET Inbox, on : Inbox \cup {None} ]
  /\ now \in 0..MaxTime /\ mishaps \in 0..MaxMishaps

\* A turn with a session has that of its conversation; the message that
\* created one is no longer waiting to enter it.
InMap(m) ==
  /\ UnderWay(m) /\ Session(m) # None =>
       turn[m].thread \in Threads /\ mapped[turn[m].thread] = Session(m)
  /\ turn[m].at \in {"new", "create", "enter"} =>
       Session(m) = None /\ \A t \in Threads : mapped[t] # m
  /\ turn[m].at \in {"create", "enter"} => turn[m].thread \in Threads
  /\ turn[m].at \in {"ask", "compose", "begin", "loop", "answer"} => Session(m) # None

\* A turn that has not ended its run has no outcome, and no row before it began.
RunOf(m) ==
  /\ turn[m].at \in {"new", "create", "enter", "ask", "compose", "begin", "loop"} =>
       turn[m].outcome = "none" /\ turn[m].tries = 0
  /\ turn[m].at \in {"new", "create", "enter", "ask", "compose", "begin"} => runs[m] = "none"
  /\ turn[m].at = "answer" => turn[m].tries = 0
  /\ turn[m].at = "send" => turn[m].tries < Attempts(m)
  /\ Recorded(m)

\* A session is of one conversation.
Apart == \A t, u \in Threads : mapped[t] = mapped[u] /\ mapped[t] # None => t = u

CvInv == Typed /\ Apart /\ \A m \in Inbox : InMap(m) /\ RunOf(m)

-----------------------------------------------------------------------------
\* No message has been received at first.
LEMMA CvInitInv == CvInit => CvInv
<1> SUFFICES ASSUME CvInit PROVE CvInv
  OBVIOUS
<1>1. NewTurn \in Turn
  BY DEF NewTurn, Turn
<1>2. Typed
  BY <1>1, CvAssumption DEF CvInit, Typed, NoSweep, RunState, Absent
<1>3. ASSUME NEW m \in Inbox PROVE InMap(m) /\ RunOf(m)
  BY <1>3, CvAssumption DEF CvInit, InMap, RunOf, Recorded, NewTurn, UnderWay, Session, Attempts
<1>4. Apart
  BY DEF CvInit, Apart
<1> QED
  BY <1>2, <1>3, <1>4 DEF CvInv

\* Of another message's turn, only what the map and its session's row say matters.
LEMMA MessageKept ==
  ASSUME CvInv, NEW n \in Inbox, turn'[n] = turn[n], runs'[n] = runs[n], mapped' = mapped,
         \A s \in Inbox : rows'[s] # rows[s] => rows'[s] = Absent
  PROVE  InMap(n)' /\ RunOf(n)'
<1>1. InMap(n) /\ RunOf(n) /\ Session(n) \in Inbox \cup {None}
  BY DEF CvInv, Typed, Turn, Session
<1>2. InMap(n)'
  BY <1>1 DEF InMap, UnderWay, Session
<1>3. RunOf(n)'
  BY <1>1 DEF RunOf, Recorded, Session, Attempts
<1> QED
  BY <1>2, <1>3

\* What a step of one turn that leaves the map alone has to show.
LEMMA TurnStep ==
  ASSUME CvInv, NEW m \in Inbox, NEW T \in Turn, turn' = [turn EXCEPT ![m] = T], mapped' = mapped,
         \A s \in Inbox : rows'[s] # rows[s] => rows'[s] = Absent,
         \A n \in Inbox \ {m} : runs'[n] = runs[n],
         Typed', InMap(m)', RunOf(m)'
  PROVE  CvInv'
<1>1. ASSUME NEW n \in Inbox PROVE InMap(n)' /\ RunOf(n)'
  <2>1. CASE n = m
    BY <2>1
  <2>2. CASE n # m
    <3>1. turn'[n] = turn[n] /\ runs'[n] = runs[n]
      BY <2>2 DEF CvInv, Typed
    <3> QED
      BY <3>1, MessageKept
  <2> QED
    BY <2>1, <2>2
<1>2. Apart'
  BY DEF CvInv, Apart
<1> QED
  BY <1>1, <1>2 DEF CvInv

\* Mishaps are counted down.
LEMMA MishapTyped ==
  ASSUME CvInv, Mishap \/ UNCHANGED mishaps PROVE mishaps' \in 0..MaxMishaps
BY CvAssumption DEF CvInv, Typed, Mishap

\* A message of a conversation in the map gets its session; any other has none yet.
LEMMA ReceiveKeeps == ASSUME CvInv, NEW m \in Inbox, NEW t \in Threads, Receive(m, t) PROVE CvInv'
<1> DEFINE T == [turn[m] EXCEPT !.thread = t, !.session = mapped[t],
                                !.at = IF mapped[t] = None THEN "create" ELSE "ask"]
<1>1. turn[m] \in Turn /\ turn[m].at = "new" /\ mapped[t] \in Inbox \cup {None} /\ InMap(m) /\ RunOf(m)
  BY DEF CvInv, Typed, Receive, Is
<1>2. turn' = [turn EXCEPT ![m] = T] /\ mapped' = mapped /\ rows' = rows /\ runs' = runs
  BY DEF Receive
<1>3. T \in Turn
  BY <1>1 DEF Turn
<1>4. turn'[m] = T
  BY <1>2 DEF CvInv, Typed
<1>5. Typed'
  BY <1>2, <1>3 DEF CvInv, Typed, Receive
<1>6. InMap(m)'
  BY <1>1, <1>2, <1>4 DEF InMap, UnderWay, Session, Turn
<1>7. RunOf(m)'
  BY <1>1, <1>2, <1>4 DEF RunOf, Recorded, Session, Turn, Attempts
<1> QED
  BY <1>2, <1>3, <1>5, <1>6, <1>7, TurnStep

\* A message that only stops a run is acknowledged and has no session.
LEMMA StopPhraseKeeps == ASSUME CvInv, NEW m \in Inbox, StopPhrase(m) PROVE CvInv'
<1> DEFINE T == [turn[m] EXCEPT !.at = "send", !.outcome = "stop"]
<1>1. turn[m] \in Turn /\ turn[m].at = "new" /\ InMap(m) /\ RunOf(m)
  BY DEF CvInv, Typed, StopPhrase, SendsBack, Is
<1>2. turn' = [turn EXCEPT ![m] = T] /\ mapped' = mapped /\ rows' = rows /\ runs' = runs
  BY DEF StopPhrase, SendsBack, Is
<1>3. T \in Turn
  BY <1>1 DEF Turn
<1>4. turn'[m] = T
  BY <1>2 DEF CvInv, Typed
<1>5. Typed'
  BY <1>2, <1>3 DEF CvInv, Typed, StopPhrase, SendsBack, Is
<1>6. InMap(m)'
  BY <1>1, <1>2, <1>4 DEF InMap, UnderWay, Session, Turn
<1>7. RunOf(m)'
  BY <1>1, <1>2, <1>4 DEF RunOf, Recorded, Session, Turn, Final, Attempts
<1> QED
  BY <1>2, <1>3, <1>5, <1>6, <1>7, TurnStep

\* A voice message nothing was heard in has no run.
LEMMA UnheardKeeps == ASSUME CvInv, NEW m \in Inbox, Unheard(m) PROVE CvInv'
<1> DEFINE T == [turn[m] EXCEPT !.at = "send", !.outcome = "error"]
<1>1. turn[m] \in Turn /\ turn[m].at = "ask" /\ InMap(m) /\ RunOf(m)
  BY DEF CvInv, Typed, Unheard, SendsBack, Is
<1>2. turn' = [turn EXCEPT ![m] = T] /\ mapped' = mapped /\ rows' = rows /\ runs' = runs
  BY DEF Unheard, SendsBack, Is
<1>3. T \in Turn
  BY <1>1 DEF Turn
<1>4. turn'[m] = T
  BY <1>2 DEF CvInv, Typed
<1>5. Typed'
  BY <1>2, <1>3 DEF CvInv, Typed, Unheard, SendsBack, Is
<1>6. InMap(m)'
  BY <1>1, <1>2, <1>4 DEF InMap, UnderWay, Session, Turn
<1>7. RunOf(m)'
  BY <1>1, <1>2, <1>4 DEF RunOf, Recorded, Session, Turn, Final, Attempts
<1> QED
  BY <1>2, <1>3, <1>5, <1>6, <1>7, TurnStep

\* Recording the message changes the table of messages and the place of the turn.
LEMMA AskKeeps == ASSUME CvInv, NEW m \in Inbox, Ask(m) PROVE CvInv'
<1> DEFINE T == [turn[m] EXCEPT !.at = "compose", !.hurt = @ \/ mishaps' # mishaps]
<1>1. turn[m] \in Turn /\ turn[m].at = "ask" /\ InMap(m) /\ RunOf(m)
  BY DEF CvInv, Typed, Ask, AddMessage, Runs, Fails, GoesOn, Is
<1>2. turn' = [turn EXCEPT ![m] = T] /\ mapped' = mapped /\ rows' = rows /\ runs' = runs
  BY DEF Ask, AddMessage, Runs, Fails, GoesOn, Is
<1>3. T \in Turn
  BY <1>1 DEF Turn
<1>4. turn'[m] = T
  BY <1>2 DEF CvInv, Typed
<1>5. Typed'
  <2>1. mishaps' \in 0..MaxMishaps
    BY MishapTyped DEF Ask, AddMessage, Runs, Fails, GoesOn, Is
  <2> QED
    BY <1>2, <1>3, <2>1 DEF CvInv, Typed, Ask, AddMessage, Runs, Fails, GoesOn, Is
<1>6. InMap(m)'
  BY <1>1, <1>2, <1>4 DEF InMap, UnderWay, Session, Turn
<1>7. RunOf(m)'
  BY <1>1, <1>2, <1>4 DEF RunOf, Recorded, Session, Turn, Final, Attempts
<1> QED
  BY <1>2, <1>3, <1>5, <1>6, <1>7, TurnStep

\* So does recording the answer.
LEMMA AnswerKeeps == ASSUME CvInv, NEW m \in Inbox, Answer(m) PROVE CvInv'
<1> DEFINE T == [turn[m] EXCEPT !.at = "send", !.hurt = @ \/ mishaps' # mishaps]
<1>1. turn[m] \in Turn /\ turn[m].at = "answer" /\ InMap(m) /\ RunOf(m)
  BY DEF CvInv, Typed, Answer, AddMessage, Runs, Fails, GoesOn, Is
<1>2. turn' = [turn EXCEPT ![m] = T] /\ mapped' = mapped /\ rows' = rows /\ runs' = runs
  BY DEF Answer, AddMessage, Runs, Fails, GoesOn, Is
<1>3. T \in Turn
  BY <1>1 DEF Turn
<1>4. turn'[m] = T
  BY <1>2 DEF CvInv, Typed
<1>5. Typed'
  <2>1. mishaps' \in 0..MaxMishaps
    BY MishapTyped DEF Answer, AddMessage, Runs, Fails, GoesOn, Is
  <2> QED
    BY <1>2, <1>3, <2>1 DEF CvInv, Typed, Answer, AddMessage, Runs, Fails, GoesOn, Is
<1>6. InMap(m)'
  BY <1>1, <1>2, <1>4 DEF InMap, UnderWay, Session, Turn
<1>7. RunOf(m)'
  BY <1>1, <1>2, <1>4 DEF RunOf, Recorded, Session, Turn, Final, Attempts
<1> QED
  BY <1>2, <1>3, <1>5, <1>6, <1>7, TurnStep

\* A deadline changes the context of the turn only.
LEMMA DeadlineKeeps == ASSUME CvInv, NEW m \in Inbox, Deadline(m) PROVE CvInv'
<1> DEFINE T == [turn[m] EXCEPT !.ctx = "late"]
<1>1. turn[m] \in Turn /\ turn[m].at = "loop" /\ InMap(m) /\ RunOf(m)
  BY DEF CvInv, Typed, Deadline, Live, Is
<1>2. turn' = [turn EXCEPT ![m] = T] /\ mapped' = mapped /\ rows' = rows /\ runs' = runs
  BY DEF Deadline, Live, Is
<1>3. T \in Turn
  BY <1>1 DEF Turn
<1>4. turn'[m] = T
  BY <1>2 DEF CvInv, Typed
<1>5. Typed'
  <2>1. mishaps' \in 0..MaxMishaps
    BY MishapTyped DEF Deadline, Live, Is
  <2> QED
    BY <1>2, <1>3, <2>1 DEF CvInv, Typed, Deadline, Live, Is
<1>6. InMap(m)'
  BY <1>1, <1>2, <1>4 DEF InMap, UnderWay, Session, Turn
<1>7. RunOf(m)'
  BY <1>1, <1>2, <1>4 DEF RunOf, Recorded, Session, Turn, Final, Attempts
<1> QED
  BY <1>2, <1>3, <1>5, <1>6, <1>7, TurnStep

\* So does a channel that goes.
LEMMA DisconnectKeeps == ASSUME CvInv, NEW m \in Inbox, Disconnect(m) PROVE CvInv'
<1> DEFINE T == [turn[m] EXCEPT !.ctx = "over"]
<1>1. turn[m] \in Turn /\ UnderWay(m) /\ InMap(m) /\ RunOf(m)
  BY DEF CvInv, Typed, Disconnect
<1>2. turn' = [turn EXCEPT ![m] = T] /\ mapped' = mapped /\ rows' = rows /\ runs' = runs
  BY DEF Disconnect
<1>3. T \in Turn
  BY <1>1 DEF Turn
<1>4. turn'[m] = T
  BY <1>2 DEF CvInv, Typed
<1>5. Typed'
  <2>1. mishaps' \in 0..MaxMishaps
    BY MishapTyped DEF Disconnect
  <2> QED
    BY <1>2, <1>3, <2>1 DEF CvInv, Typed, Disconnect
<1>6. InMap(m)'
  BY <1>1, <1>2, <1>4 DEF InMap, UnderWay, Session, Turn
<1>7. RunOf(m)'
  BY <1>1, <1>2, <1>4 DEF RunOf, Recorded, Session, Turn, Final, Attempts
<1> QED
  BY <1>2, <1>3, <1>5, <1>6, <1>7, TurnStep

\* A prompt is composed, or its error sent back without a run.
LEMMA ComposeKeeps == ASSUME CvInv, NEW m \in Inbox, Compose(m) PROVE CvInv'
<1> DEFINE On == [turn[m] EXCEPT !.at = "begin", !.hurt = @ \/ mishaps' # mishaps]
           Back == [turn[m] EXCEPT !.at = "send", !.outcome = "error"]
<1>1. turn[m] \in Turn /\ turn[m].at = "compose" /\ InMap(m) /\ RunOf(m)
  BY DEF CvInv, Typed, Compose, Is
<1>2. mapped' = mapped /\ rows' = rows /\ runs' = runs
  BY DEF Compose
<1>3. ASSUME NEW T \in Turn, T = On \/ T = Back, turn' = [turn EXCEPT ![m] = T] PROVE CvInv'
  <2>1. turn'[m] = T
    BY <1>3 DEF CvInv, Typed
  <2>2. Typed'
    <3>1. mishaps' \in 0..MaxMishaps
      BY MishapTyped DEF Compose, Runs, Fails
    <3> QED
      BY <1>2, <1>3, <3>1 DEF CvInv, Typed, Compose
  <2>3. /\ T.thread = turn[m].thread /\ T.session = turn[m].session /\ T.tries = turn[m].tries
        /\ \/ T.at = "begin" /\ T.outcome = turn[m].outcome
           \/ T.at = "send" /\ T.outcome = "error"
    BY <1>1, <1>3 DEF Turn
  <2>4. InMap(m)'
    BY <1>1, <1>2, <2>1, <2>3 DEF InMap, UnderWay, Session
  <2>5. RunOf(m)'
    BY <1>1, <1>2, <2>1, <2>3 DEF RunOf, Recorded, Session, Final, Attempts
  <2> QED
    BY <1>2, <1>3, <2>2, <2>4, <2>5, TurnStep
<1>4. On \in Turn /\ Back \in Turn
  BY <1>1 DEF Turn
<1>5. CASE GoesOn(m, "begin")
  BY <1>3, <1>4, <1>5 DEF GoesOn
<1>6. CASE SendsBack(m, "error")
  <2>1. turn' = [turn EXCEPT ![m] = Back]
    BY <1>6 DEF SendsBack
  <2> QED
    BY <1>3, <1>4, <2>1
<1> QED
  BY <1>5, <1>6 DEF Compose

\* What persistState leaves of the rows of runs.
LEMMA Persisted ==
  ASSUME CvInv, NEW m \in Inbox, NEW state \in RunState, NEW live \in BOOLEAN, PersistState(m, state, live)
  PROVE  /\ runs' \in [Inbox -> RunState] /\ mishaps' \in 0..MaxMishaps
         /\ \A n \in Inbox \ {m} : runs'[n] = runs[n]
         /\ live /\ mishaps' = mishaps /\ Session(m) # None /\ rows[Session(m)] # Absent =>
              runs'[m] = state
<1>1. runs \in [Inbox -> RunState] /\ mishaps \in 0..MaxMishaps
  BY DEF CvInv, Typed
<1>2. mishaps' \in 0..MaxMishaps
  BY MishapTyped DEF PersistState
<1> QED
  BY <1>1, <1>2 DEF PersistState, Mishap

\* A run begins, or goes on, with a row that says so, or without if the statement failed.
LEMMA BeginKeeps == ASSUME CvInv, NEW m \in Inbox, Begin(m) PROVE CvInv'
<1> DEFINE T == [turn[m] EXCEPT !.at = "loop", !.hurt = @ \/ mishaps' # mishaps]
<1>1. turn[m] \in Turn /\ turn[m].at \in {"begin", "loop"} /\ InMap(m) /\ RunOf(m)
  BY DEF CvInv, Typed, Begin, Is
<1>2. turn' = [turn EXCEPT ![m] = T] /\ mapped' = mapped /\ rows' = rows
  BY DEF Begin, GoesOn
<1>3. T \in Turn
  BY <1>1 DEF Turn
<1>4. turn'[m] = T
  BY <1>2 DEF CvInv, Typed
<1>0. /\ runs' \in [Inbox -> RunState] /\ mishaps' \in 0..MaxMishaps
      /\ \A n \in Inbox \ {m} : runs'[n] = runs[n]
  <2>1. "running" \in RunState /\ Live(m) \in BOOLEAN /\ PersistState(m, "running", Live(m))
    BY DEF RunState, Live, Begin
  <2> QED
    BY <2>1, Persisted
<1>5. Typed'
  BY <1>0, <1>2, <1>3 DEF CvInv, Typed, Begin
<1>6. InMap(m)'
  BY <1>1, <1>2, <1>4 DEF InMap, UnderWay, Session, Turn
<1>7. RunOf(m)'
  <2>1. T.at = "loop" /\ T.outcome = "none" /\ T.tries = 0
    BY <1>1 DEF Turn, RunOf
  <2> QED
    BY <1>4, <2>1 DEF RunOf, Recorded
<1> QED
  BY <1>0, <1>2, <1>3, <1>5, <1>6, <1>7, TurnStep

\* A run that ends records how, unless a statement failed or its context has ended.
LEMMA EndRunKeeps == ASSUME CvInv, NEW m \in Inbox, EndRun(m) PROVE CvInv'
<1>1. turn[m] \in Turn /\ turn[m].at = "loop" /\ InMap(m) /\ RunOf(m)
  BY DEF CvInv, Typed, EndRun, Is
<1>2. PICK e \in Endings(m) :
        /\ PersistState(m, e.state, e.live)
        /\ turn' = [turn EXCEPT ![m].at = "answer", ![m].outcome = e.outcome,
                                ![m].hurt = @ \/ mishaps' # mishaps]
  BY DEF EndRun
<1> DEFINE T == [turn[m] EXCEPT !.at = "answer", !.outcome = e.outcome,
                                !.hurt = @ \/ mishaps' # mishaps]
<1>3. /\ e.outcome \in {"answer", "paused", "failed"} /\ e.state \in RunState /\ e.live \in BOOLEAN
      /\ Live(m) => e.live /\ e.state = Final[e.outcome]
  <2>1. CASE Live(m)
    <3>1. Live(m) = TRUE
      BY <2>1 DEF Live
    <3>2. \/ e = [outcome |-> "answer", state |-> "completed", live |-> TRUE]
          \/ e = [outcome |-> "paused", state |-> "cancelled", live |-> TRUE]
          \/ e = [outcome |-> "failed", state |-> "failed", live |-> TRUE]
      BY <1>2, <3>1 DEF Endings
    <3>3. e.live = TRUE /\ e.outcome \in {"answer", "paused", "failed"} /\ e.state = Final[e.outcome]
      BY <3>2 DEF Final
    <3>4. e.state \in RunState
      BY <3>2 DEF RunState
    <3> QED
      BY <3>3, <3>4, Zenon
  <2>2. CASE ~Live(m)
    <3>1. Live(m) = FALSE
      BY <2>2 DEF Live
    <3>2. \/ e = [outcome |-> "answer", state |-> "completed", live |-> FALSE]
          \/ e = [outcome |-> "paused", state |-> "cancelled", live |-> FALSE]
          \/ e = [outcome |-> "failed", state |-> "failed", live |-> TRUE]
          \/ e = [outcome |-> "failed", state |-> "cancelled", live |-> FALSE]
      BY <1>2, <3>1 DEF Endings
    <3>3. (e.live = TRUE \/ e.live = FALSE) /\ e.outcome \in {"answer", "paused", "failed"}
      BY <3>2
    <3>4. e.state \in RunState
      BY <3>2 DEF RunState
    <3> QED
      BY <2>2, <3>3, <3>4, Zenon
  <2> QED
    BY <2>1, <2>2
<1>4. turn' = [turn EXCEPT ![m] = T] /\ mapped' = mapped /\ rows' = rows
  BY <1>2 DEF EndRun
<1>5. T \in Turn
  BY <1>1, <1>3 DEF Turn
<1>6. turn'[m] = T
  BY <1>4 DEF CvInv, Typed
<1>7. /\ runs' \in [Inbox -> RunState] /\ mishaps' \in 0..MaxMishaps
      /\ \A n \in Inbox \ {m} : runs'[n] = runs[n]
      /\ e.live /\ mishaps' = mishaps /\ Session(m) # None /\ rows[Session(m)] # Absent =>
           runs'[m] = e.state
  BY <1>2, <1>3, Persisted
<1>8. Typed'
  BY <1>4, <1>5, <1>7 DEF CvInv, Typed, EndRun
<1>9. InMap(m)'
  BY <1>1, <1>4, <1>6 DEF InMap, UnderWay, Session, Turn
<1>10. RunOf(m)'
  <2>1. T.at = "answer" /\ T.outcome = e.outcome /\ T.ctx = turn[m].ctx /\ T.session = turn[m].session
        /\ T.tries = 0 /\ (~T.hurt => mishaps' = mishaps)
    BY <1>1 DEF Turn, RunOf
  <2>2. ASSUME T.ctx = "live", ~T.hurt, Session(m) # None, rows[Session(m)] # Absent
        PROVE  runs'[m] = Final[e.outcome]
    <3>1. Live(m) /\ mishaps' = mishaps
      BY <2>1, <2>2 DEF Live
    <3> QED
      BY <1>3, <1>7, <2>2, <3>1
  <2>3. Session(m)' = Session(m) /\ rows' = rows
    BY <1>4, <1>6, <2>1 DEF Session
  <2>4. Recorded(m)'
    BY <1>6, <2>1, <2>2, <2>3 DEF Recorded
  <2> QED
    BY <1>6, <2>1, <2>4 DEF RunOf
<1> QED
  BY <1>4, <1>5, <1>7, <1>8, <1>9, <1>10, TurnStep

\* An answer is sent, or tried again a bounded number of times.
LEMMA SendKeeps == ASSUME CvInv, NEW m \in Inbox, Send(m) PROVE CvInv'
<1> DEFINE More == [turn[m] EXCEPT !.tries = @ + 1]
<1>1. turn[m] \in Turn /\ turn[m].at = "send" /\ InMap(m) /\ RunOf(m)
  BY DEF CvInv, Typed, Send, Is
<1>2. mapped' = mapped /\ rows' = rows /\ runs' = runs
  BY DEF Send
<1>3. ASSUME NEW T \in Turn, T.at = "done" \/ (T = More /\ turn[m].tries + 1 # Attempts(m)),
             turn' = [turn EXCEPT ![m] = T]
      PROVE  CvInv'
  <2>1. turn'[m] = T
    BY <1>3 DEF CvInv, Typed
  <2>2. Typed'
    BY <1>2, <1>3 DEF CvInv, Typed, Send
  <2>3. \/ T.at = "done"
        \/ /\ T.at = "send" /\ T.thread = turn[m].thread /\ T.session = turn[m].session
           /\ T.ctx = turn[m].ctx /\ T.hurt = turn[m].hurt /\ T.outcome = turn[m].outcome
           /\ T.tries = turn[m].tries + 1 /\ turn[m].tries + 1 # Attempts(m)
    BY <1>1, <1>3 DEF Turn
  <2>4. InMap(m)'
    BY <1>1, <1>2, <2>1, <2>3 DEF InMap, UnderWay, Session
  <2>5. RunOf(m)'
    <3>1. turn[m].tries \in 0..2 /\ Attempts(m) \in {1, 3} /\ turn[m].tries < Attempts(m)
      BY <1>1 DEF Turn, Attempts, RunOf
    <3> QED
      BY <1>1, <1>2, <2>1, <2>3, <3>1 DEF RunOf, Recorded, Session, Attempts
  <2> QED
    BY <1>2, <1>3, <2>2, <2>4, <2>5, TurnStep
<1>4. ASSUME NEW sent \in BOOLEAN, Over(m, sent) PROVE CvInv'
  <2> DEFINE T == [NewTurn EXCEPT !.at = "done", !.session = Session(m),
                    !.answered = /\ sent /\ ~turn[m].hurt /\ turn[m].ctx # "over"
                                 /\ turn[m].outcome \in {"answer", "failed", "paused"}]
  <2>1. turn' = [turn EXCEPT ![m] = T]
    BY <1>4 DEF Over
  <2>2. T \in Turn /\ T.at = "done"
    <3>1. NewTurn \in Turn /\ Session(m) \in Inbox \cup {None}
      BY <1>1 DEF NewTurn, Turn, Session
    <3> QED
      BY <3>1 DEF Turn
  <2> QED
    BY <1>3, <2>1, <2>2
<1>5. ASSUME turn[m].tries + 1 # Attempts(m), turn' = [turn EXCEPT ![m].tries = @ + 1] PROVE CvInv'
  <2>1. turn' = [turn EXCEPT ![m] = More]
    BY <1>5
  <2>2. More \in Turn
    <3>1. turn[m].tries + 1 \in 0..2
      BY <1>1, <1>5 DEF Turn, Attempts, RunOf
    <3> QED
      BY <1>1, <3>1 DEF Turn
  <2> QED
    BY <1>3, <1>5, <2>1, <2>2
<1> QED
  BY <1>4, <1>5 DEF Send
-----------------------------------------------------------------------------
\* The two steps that put a session in a table or in the map.
LEMMA CreateKeeps == ASSUME CvInv, NEW m \in Inbox, CreateSession(m) PROVE CvInv'
<1>1. turn[m] \in Turn /\ turn[m].at = "create" /\ InMap(m) /\ RunOf(m)
  BY DEF CvInv, Typed, CreateSession, Is
<1>2. mapped' = mapped /\ runs' = runs /\ sweep' = sweep /\ now' = now
  BY DEF CreateSession
<1>3. PICK to \in {"enter", "done"} : GoesOn(m, to)
  BY DEF CreateSession
<1> DEFINE T == [turn[m] EXCEPT !.at = to, !.hurt = @ \/ mishaps' # mishaps]
<1>4. turn' = [turn EXCEPT ![m] = T]
  BY <1>3 DEF GoesOn
<1>5. T \in Turn /\ T.at = to /\ T.thread = turn[m].thread /\ T.session = turn[m].session
      /\ T.outcome = turn[m].outcome /\ T.tries = turn[m].tries
  BY <1>1 DEF Turn
<1>6. turn'[m] = T
  BY <1>4 DEF CvInv, Typed
<1>7. Typed'
  <2>1. mishaps' \in 0..MaxMishaps
    BY MishapTyped DEF CreateSession, Runs, Fails
  <2>2. rows' \in [Inbox -> 0..MaxTime \cup {Absent}]
    BY DEF CvInv, Typed, CreateSession
  <2> QED
    BY <1>2, <1>4, <1>5, <2>1, <2>2 DEF CvInv, Typed
<1>8. InMap(m)' /\ RunOf(m)'
  BY <1>1, <1>2, <1>5, <1>6 DEF InMap, RunOf, Recorded, UnderWay, Session
<1>9. ASSUME NEW n \in Inbox, n # m PROVE InMap(n)' /\ RunOf(n)'
  <2>1. turn'[n] = turn[n] /\ InMap(n) /\ RunOf(n)
    BY <1>4, <1>9 DEF CvInv, Typed
  <2>2. UnderWay(n) => Session(n) # m
    BY <1>1, <2>1, CvAssumption DEF InMap
  <2>3. \A s \in Inbox \ {m} : rows'[s] = rows[s]
    BY DEF CvInv, Typed, CreateSession
  <2>4. Session(n) \in Inbox \cup {None}
    BY DEF CvInv, Typed, Turn, Session
  <2>5. InMap(n)'
    BY <1>2, <2>1 DEF InMap, UnderWay, Session
  <2>6. RunOf(n)'
    BY <1>2, <2>1, <2>2, <2>3, <2>4 DEF RunOf, Recorded, UnderWay, Session, Attempts
  <2> QED
    BY <2>5, <2>6
<1>10. Apart'
  BY <1>2 DEF CvInv, Apart
<1> QED
  BY <1>7, <1>8, <1>9, <1>10 DEF CvInv

\* The session enters the map under its conversation, or the one that got there first is taken.
LEMMA EnterKeeps == ASSUME CvInv, NEW m \in Inbox, Enter(m) PROVE CvInv'
<1> DEFINE t == turn[m].thread
           s == IF mapped[t] = None THEN m ELSE mapped[t]
           T == [turn[m] EXCEPT !.at = "ask", !.session = s]
<1>1. turn[m] \in Turn /\ turn[m].at = "enter" /\ InMap(m) /\ RunOf(m)
  BY DEF CvInv, Typed, Enter, Is
<1>2. /\ mapped' = [mapped EXCEPT ![t] = s] /\ turn' = [turn EXCEPT ![m] = T]
      /\ UNCHANGED <<rows, log, runs, sweep, now, mishaps>>
  BY DEF Enter
<1>3. t \in Threads /\ s \in Inbox /\ s # None /\ (\A u \in Threads : mapped[u] # m)
  BY <1>1, CvAssumption DEF InMap, CvInv, Typed
<1>4. T \in Turn /\ T.at = "ask" /\ T.thread = t /\ T.session = s
      /\ T.outcome = turn[m].outcome /\ T.tries = turn[m].tries
  BY <1>1, <1>3 DEF Turn
<1>5. turn'[m] = T /\ mapped'[t] = s /\ \A u \in Threads \ {t} : mapped'[u] = mapped[u]
  BY <1>2, <1>3 DEF CvInv, Typed
<1>6. Typed'
  BY <1>2, <1>3, <1>4 DEF CvInv, Typed
<1>7. InMap(m)' /\ RunOf(m)'
  <2>1. turn'[m].at = "ask" /\ turn'[m].thread = t /\ turn'[m].session = s /\ runs'[m] = "none"
        /\ turn'[m].outcome = "none" /\ turn'[m].tries = 0
    BY <1>1, <1>2, <1>4, <1>5 DEF RunOf
  <2>2. InMap(m)'
    BY <1>3, <1>5, <2>1 DEF InMap, UnderWay, Session
  <2>3. RunOf(m)'
    BY <2>1 DEF RunOf, Recorded
  <2> QED
    BY <2>2, <2>3
<1>8. ASSUME NEW n \in Inbox, n # m PROVE InMap(n)' /\ RunOf(n)'
  <2>1. turn'[n] = turn[n] /\ InMap(n) /\ RunOf(n)
    BY <1>2, <1>8 DEF CvInv, Typed
  <2>2. InMap(n)'
    BY <1>3, <1>5, <1>8, <2>1 DEF InMap, UnderWay, Session
  <2>3. RunOf(n)'
    BY <1>2, <2>1 DEF RunOf, Recorded, UnderWay, Session, Attempts
  <2> QED
    BY <2>2, <2>3
<1>9. Apart'
  BY <1>3, <1>5 DEF CvInv, Apart
<1> QED
  BY <1>6, <1>7, <1>8, <1>9 DEF CvInv

\* Steps of nobody's turn.
LEMMA TablesStep ==
  ASSUME CvInv, Typed', turn' = turn, mapped' = mapped, runs' = runs,
         \A s \in Inbox : rows'[s] # rows[s] => rows'[s] = Absent
  PROVE  CvInv'
<1>1. ASSUME NEW n \in Inbox PROVE InMap(n)' /\ RunOf(n)'
  BY MessageKept
<1>2. Apart'
  BY DEF CvInv, Apart
<1> QED
  BY <1>1, <1>2 DEF CvInv

\* The cleanup changes no turn, and removes no session a run refers to.
LEMMA SweepKeeps ==
  ASSUME CvInv, SweepStart \/ (\E s \in Inbox : SweepMessages(s)) \/ SweepSession \/ Tick PROVE CvInv'
<1>1. CASE SweepStart
  <2>1. sweep' \in [ at : {"idle", "next", "session"}, left : SUBSET Inbox, on : Inbox \cup {None} ]
    BY <1>1 DEF SweepStart, Expired
  <2>2. Typed' /\ turn' = turn /\ mapped' = mapped /\ runs' = runs /\ rows' = rows
    BY <1>1, <2>1 DEF SweepStart, CvInv, Typed
  <2> QED
    BY <2>2, TablesStep
<1>2. ASSUME NEW s \in Inbox, SweepMessages(s) PROVE CvInv'
  <2>1. mishaps' \in 0..MaxMishaps
    BY <1>2, MishapTyped DEF SweepMessages
  <2>2. sweep' \in [ at : {"idle", "next", "session"}, left : SUBSET Inbox, on : Inbox \cup {None} ]
    BY <1>2 DEF SweepMessages, CvInv, Typed
  <2>3. Typed' /\ turn' = turn /\ mapped' = mapped /\ runs' = runs /\ rows' = rows
    BY <1>2, <2>1, <2>2 DEF SweepMessages, CvInv, Typed
  <2> QED
    BY <2>3, TablesStep
<1>3. CASE SweepSession
  <2>1. mishaps' \in 0..MaxMishaps
    BY <1>3, MishapTyped DEF SweepSession
  <2>2. sweep' \in [ at : {"idle", "next", "session"}, left : SUBSET Inbox, on : Inbox \cup {None} ]
    BY <1>3 DEF SweepSession, CvInv, Typed
  <2>3. /\ rows' \in [Inbox -> 0..MaxTime \cup {Absent}]
        /\ \A s \in Inbox : rows'[s] # rows[s] => rows'[s] = Absent
    BY <1>3 DEF SweepSession, CvInv, Typed
  <2>4. turn' = turn /\ mapped' = mapped /\ runs' = runs /\ now' = now
    BY <1>3 DEF SweepSession
  <2> QED
    BY <2>1, <2>2, <2>3, <2>4, TablesStep DEF CvInv, Typed
<1>4. CASE Tick
  <2>1. now' \in 0..MaxTime
    BY <1>4, CvAssumption DEF Tick, CvInv, Typed
  <2> QED
    BY <1>4, <2>1, TablesStep DEF Tick, CvInv, Typed
<1> QED
  BY <1>1, <1>2, <1>3, <1>4

\* A restart empties the map and loses the turns under way.
LEMMA RestartKeeps == ASSUME CvInv, Restart PROVE CvInv'
<1> DEFINE Lost(m) == [NewTurn EXCEPT !.at = "lost", !.session = Session(m)]
<1>1. ASSUME NEW m \in Inbox PROVE Lost(m) \in Turn /\ Lost(m).at = "lost"
  <2>1. NewTurn \in Turn /\ Session(m) \in Inbox \cup {None}
    BY DEF CvInv, Typed, NewTurn, Turn, Session
  <2> QED
    BY <2>1 DEF Turn
<1>2. \A m \in Inbox : turn'[m] = IF UnderWay(m) THEN Lost(m) ELSE turn[m]
  BY DEF Restart
<1>3. /\ mapped' = [t \in Threads |-> None] /\ sweep' = NoSweep
      /\ rows' = rows /\ runs' = runs /\ now' = now
  BY DEF Restart
<1>4. Typed'
  <2>1. mishaps' \in 0..MaxMishaps
    BY MishapTyped DEF Restart
  <2>2. turn' \in [Inbox -> Turn]
    BY <1>1 DEF Restart, CvInv, Typed
  <2>3. sweep' \in [ at : {"idle", "next", "session"}, left : SUBSET Inbox, on : Inbox \cup {None} ]
    BY <1>3 DEF NoSweep
  <2> QED
    BY <1>3, <2>1, <2>2, <2>3 DEF CvInv, Typed
<1>5. ASSUME NEW n \in Inbox PROVE InMap(n)' /\ RunOf(n)'
  <2>1. turn'[n].at \in {"new", "done", "lost"} /\ (turn'[n].at = "new" => turn'[n] = turn[n])
    BY <1>1, <1>2 DEF UnderWay
  <2>2. InMap(n) /\ RunOf(n)
    BY DEF CvInv
  <2> QED
    BY <1>3, <2>1, <2>2, CvAssumption DEF InMap, RunOf, Recorded, UnderWay, Session
<1>6. Apart'
  BY <1>3 DEF Apart
<1> QED
  BY <1>4, <1>5, <1>6 DEF CvInv

\* All steps together.
LEMMA CvStepInv == CvInv /\ [CvNext]_cvvars => CvInv'
<1> SUFFICES ASSUME CvInv, [CvNext]_cvvars PROVE CvInv'
  OBVIOUS
<1>1. CASE CvNext
  BY <1>1, ReceiveKeeps, StopPhraseKeeps, CreateKeeps, EnterKeeps, UnheardKeeps, AskKeeps, ComposeKeeps,
     BeginKeeps, EndRunKeeps, AnswerKeeps, SendKeeps, DeadlineKeeps, DisconnectKeeps, SweepKeeps,
     RestartKeeps DEF CvNext
<1>2. CASE UNCHANGED cvvars
  <2>1. Typed' /\ turn' = turn /\ mapped' = mapped /\ runs' = runs /\ rows' = rows
    BY <1>2 DEF cvvars, CvInv, Typed
  <2> QED
    BY <2>1, TablesStep
<1> QED
  BY <1>1, <1>2

-----------------------------------------------------------------------------
\* The state but for the table of messages is well typed, and the map and the
\* rows of runs are in step with the turns.
THEOREM CvInvCorrect == CvSpec => []CvInv
BY CvInitInv, CvStepInv, PTL DEF CvSpec

\* Messages handled at the same time share a session exactly if they share a
\* conversation (router.go:305-320).
THEOREM OneSessionCorrect == CvSpec => []OneSession
<1>1. CvInv => OneSession
  <2> SUFFICES ASSUME CvInv, NEW m \in Inbox, NEW n \in Inbox,
                      UnderWay(m), UnderWay(n), Session(m) # None, Session(n) # None
               PROVE  turn[m].thread = turn[n].thread <=> Session(m) = Session(n)
    BY DEF OneSession
  <2> QED
    BY DEF CvInv, InMap, Apart
<1> QED
  BY <1>1, CvInvCorrect, PTL

\* A run that ended before its deadline is recorded as what it came to
\* (agent.go:435-438).
THEOREM RunsRecorded == CvSpec => []RunRecorded
<1>1. CvInv => RunRecorded
  BY DEF CvInv, RunOf, RunRecorded
<1> QED
  BY <1>1, CvInvCorrect, PTL
-----------------------------------------------------------------------------
(* The table of messages.  A session ages and goes, and never comes back; of  *)
(* one that is neither gone nor old the sweep takes nothing.                  *)
Created(s) == turn[s].at \notin {"new", "create"}
Fresh(s) == rows[s] # Absent /\ rows[s] + MaxAge >= now
Unharmed(m) == turn[m].ctx # "over" /\ ~turn[m].hurt
Real == {"answer", "failed", "paused"}

Told(m) == { e \in log : e.of = m }
Asked(m) == \E u \in Told(m) : Told(m) = {u} /\ u.role = "user" /\ u.session = Session(m)
Exchange(m) ==
  \E u, a \in Told(m) : /\ Told(m) = {u, a} /\ u.id < a.id
                        /\ u.role = "user" /\ a.role = "assistant" /\ {u.session, a.session} = {Session(m)}

\* What the table holds of a message at each stage of its turn.
Trail(m) ==
  /\ \A e \in Told(m) : e.session = Session(m)
  /\ turn[m].at \in {"new", "create", "enter", "ask"} => Told(m) = {}
  /\ turn[m].at \in {"compose", "begin", "loop", "answer"} /\ Unharmed(m) /\ Fresh(Session(m)) => Asked(m)
  /\ turn[m].at = "answer" => turn[m].outcome \in Real
  /\ turn[m].at = "send" /\ turn[m].outcome \in Real =>
       Session(m) # None /\ (Unharmed(m) /\ Fresh(Session(m)) => Exchange(m))
  /\ turn[m].answered =>
       turn[m].at = "done" /\ Session(m) # None /\ (Fresh(Session(m)) => Exchange(m))

\* A session a turn has been given was created, and its row is made only once.
Born(m) ==
  /\ Session(m) # None => Created(Session(m))
  /\ ~Created(m) => rows[m] = Absent

\* What the sweep has before it is gone or expired, for good.
SweepsOld == \A s \in Inbox : s \in sweep.left \/ s = sweep.on => Created(s) /\ ~Fresh(s)

LogInv == log \subseteq Entry /\ SweepsOld /\ \A m \in Inbox : Trail(m) /\ Born(m)

\* The table of messages is empty at first.
LEMMA LogInit == CvInit => LogInv
<1> SUFFICES ASSUME CvInit PROVE LogInv
  OBVIOUS
<1>1. SweepsOld
  BY CvAssumption DEF CvInit, SweepsOld, NoSweep
<1>2. ASSUME NEW m \in Inbox PROVE Trail(m) /\ Born(m)
  <2>1. turn[m] = NewTurn /\ log = {} /\ rows[m] = Absent
    BY DEF CvInit
  <2> QED
    BY <2>1 DEF Trail, Born, Told, Session, NewTurn, Created
<1> QED
  BY <1>1, <1>2 DEF LogInv, CvInit

\* A turn leaves its first stages once; only its session's own turn makes a row.
LEMMA Leaves ==
  ASSUME CvInv, [CvNext]_cvvars
  PROVE  /\ now' \in Nat /\ now' >= now
         /\ \A s \in Inbox : Created(s) => Created(s)'
         /\ \A s \in Inbox : rows'[s] # rows[s] =>
              rows'[s] = Absent \/ (turn[s].at = "create" /\ turn'[s].at = "enter")
<1>1. now' \in Nat /\ now' >= now
  <2>1. now \in Nat
    BY CvAssumption DEF CvInv, Typed
  <2>2. CASE Tick
    BY <2>1, <2>2 DEF Tick
  <2>3. CASE now' = now
    BY <2>1, <2>3
  <2> QED
    BY <2>2, <2>3 DEF CvNext, cvvars, Receive, StopPhrase, CreateSession, Enter, Unheard, Ask,
       AddMessage, Compose, Begin, EndRun, Answer, Send, Deadline, Disconnect, SweepMessages, SweepStart,
       SweepSession, Restart
<1>2. ASSUME NEW s \in Inbox, Created(s) PROVE Created(s)'
  <2>1. turn[s] \in Turn /\ turn \in [Inbox -> Turn]
    BY DEF CvInv, Typed
  <2>3. ASSUME NEW m \in Inbox,
               (\E t \in Threads : Receive(m, t)) \/ StopPhrase(m) \/ CreateSession(m)
        PROVE  Created(s)'
    <3>1. turn[m].at \in {"new", "create"} /\ m # s
      BY <1>2, <2>3 DEF Receive, StopPhrase, CreateSession, Created, Is
    <3>2. \A n \in Inbox \ {m} : turn'[n] = turn[n]
      BY <2>1, <2>3 DEF Receive, StopPhrase, SendsBack, CreateSession, GoesOn
    <3> QED
      BY <1>2, <3>1, <3>2 DEF Created
  <2>4. ASSUME NEW m \in Inbox, Enter(m) PROVE Created(s)'
    BY <1>2, <2>1, <2>4 DEF Enter, Created
  <2>5. ASSUME NEW m \in Inbox, Unheard(m) PROVE Created(s)'
    BY <1>2, <2>1, <2>5 DEF Unheard, SendsBack, Created
  <2>6. ASSUME NEW m \in Inbox, Ask(m) PROVE Created(s)'
    <3>1. GoesOn(m, "compose")
      BY <2>6 DEF Ask, AddMessage
    <3> QED
      BY <1>2, <2>1, <3>1 DEF GoesOn, Created
  <2>7. ASSUME NEW m \in Inbox, Compose(m) PROVE Created(s)'
    <3>1. GoesOn(m, "begin") \/ SendsBack(m, "error")
      BY <2>7 DEF Compose
    <3>2. CASE GoesOn(m, "begin")
      BY <1>2, <2>1, <3>2 DEF GoesOn, Created
    <3>3. CASE SendsBack(m, "error")
      BY <1>2, <2>1, <3>3 DEF SendsBack, Created
    <3> QED
      BY <3>1, <3>2, <3>3
  <2>8. ASSUME NEW m \in Inbox, Begin(m) PROVE Created(s)'
    BY <1>2, <2>1, <2>8 DEF Begin, GoesOn, Created
  <2>9. ASSUME NEW m \in Inbox, EndRun(m) PROVE Created(s)'
    BY <1>2, <2>1, <2>9 DEF EndRun, Created
  <2>10. ASSUME NEW m \in Inbox, Answer(m) PROVE Created(s)'
    <3>1. GoesOn(m, "send")
      BY <2>10 DEF Answer, AddMessage
    <3> QED
      BY <1>2, <2>1, <3>1 DEF GoesOn, Created
  <2>11. ASSUME NEW m \in Inbox, Send(m) PROVE Created(s)'
    <3>1. PICK T : turn' = [turn EXCEPT ![m] = T] /\ (T.at = "done" \/ T.at = turn[m].at)
      <4>1. CASE turn' = [turn EXCEPT ![m].tries = @ + 1]
        <5>1. turn' = [turn EXCEPT ![m] = [turn[m] EXCEPT !.tries = @ + 1]]
          BY <4>1
        <5>2. [turn[m] EXCEPT !.tries = @ + 1].at = turn[m].at
          BY <2>1 DEF Turn
        <5> QED
          BY <5>1, <5>2
      <4>2. ASSUME NEW sent, Over(m, sent)
            PROVE  \E T : turn' = [turn EXCEPT ![m] = T] /\ (T.at = "done" \/ T.at = turn[m].at)
        <5> DEFINE T == [NewTurn EXCEPT !.at = "done", !.session = Session(m),
                           !.answered = /\ sent /\ ~turn[m].hurt /\ turn[m].ctx # "over"
                                        /\ turn[m].outcome \in {"answer", "failed", "paused"}]
        <5>1. turn' = [turn EXCEPT ![m] = T] /\ T.at = "done"
          BY <4>2 DEF Over, NewTurn
        <5> QED
          BY <5>1
      <4> QED
        BY <2>11, <4>1, <4>2 DEF Send
    <3> QED
      BY <1>2, <2>1, <2>11, <3>1 DEF Send, Is, Created
  <2>12. ASSUME NEW m \in Inbox, Deadline(m) PROVE Created(s)'
    BY <1>2, <2>1, <2>12 DEF Deadline, Created
  <2>13. ASSUME NEW m \in Inbox, Disconnect(m) PROVE Created(s)'
    BY <1>2, <2>1, <2>13 DEF Disconnect, Created
  <2>14. CASE Restart
    BY <1>2, <2>14 DEF Restart, NewTurn, Created
  <2>15. CASE turn' = turn
    BY <1>2, <2>15 DEF Created
  <2> QED
    BY <2>3, <2>4, <2>5, <2>6, <2>7, <2>8, <2>9, <2>10, <2>11, <2>12, <2>13, <2>14, <2>15
       DEF CvNext, cvvars, SweepMessages, SweepStart, SweepSession, Tick
<1>3. ASSUME NEW s \in Inbox, rows'[s] # rows[s]
      PROVE  rows'[s] = Absent \/ (turn[s].at = "create" /\ turn'[s].at = "enter")
  <2>1. CASE SweepSession
    BY <1>3, <2>1 DEF SweepSession, CvInv, Typed
  <2>2. ASSUME NEW m \in Inbox, CreateSession(m)
        PROVE  turn[s].at = "create" /\ turn'[s].at = "enter"
    <3>1. m = s /\ GoesOn(m, "enter")
      BY <1>3, <2>2 DEF CreateSession, CvInv, Typed
    <3> QED
      BY <2>2, <3>1 DEF CreateSession, GoesOn, CvInv, Typed, Turn, Is
  <2>3. CASE rows' = rows
    BY <1>3, <2>3
  <2> QED
    BY <2>1, <2>2, <2>3 DEF CvNext, cvvars, Receive, StopPhrase, Enter, Unheard, Ask,
       AddMessage, Compose, Begin, EndRun, Answer, Send, Deadline, Disconnect, SweepMessages, SweepStart,
       Tick, Restart
<1> QED
  BY <1>1, <1>2, <1>3

\* What is fresh was fresh before.
LEMMA Ages ==
  ASSUME CvInv, [CvNext]_cvvars, NEW s \in Inbox, Created(s)
  PROVE  Created(s)' /\ (Fresh(s)' => Fresh(s))
<1>1. Created(s)' /\ now' >= now /\ (rows'[s] # rows[s] => rows'[s] = Absent)
  BY Leaves DEF Created
<1>2. rows[s] \in Int /\ now \in Nat /\ now' \in Nat /\ MaxAge \in Nat
  BY CvAssumption, Leaves DEF CvInv, Typed, Absent
<1> QED
  BY <1>1, <1>2 DEF Fresh, Absent

\* A turn that stands still, and whose messages are left, keeps its trail.
LEMMA TrailKept ==
  ASSUME CvInv, LogInv, [CvNext]_cvvars, NEW m \in Inbox, turn'[m] = turn[m],
         Told(m)' = Told(m) \/ (Told(m)' \subseteq Told(m) /\ Session(m) \in Inbox /\ ~Fresh(Session(m)))
  PROVE  Trail(m)'
<1>1. turn[m] \in Turn /\ Trail(m) /\ Born(m) /\ InMap(m) /\ Session(m)' = Session(m)
  BY DEF CvInv, Typed, LogInv, Session
<1>2. Session(m) \in Inbox => (Fresh(Session(m))' => Fresh(Session(m)))
  <2> SUFFICES ASSUME NEW s \in Inbox, s = Session(m) PROVE Fresh(Session(m))' => Fresh(Session(m))
    OBVIOUS
  <2>1. Created(s)
    BY <1>1, CvAssumption DEF Born
  <2>2. Fresh(s)' => Fresh(s)
    BY <2>1, Ages
  <2> QED
    BY <1>1, <2>2 DEF Fresh
<1>3. turn[m].at \in {"compose", "begin", "loop", "answer"} => Session(m) \in Inbox
  BY <1>1 DEF InMap, Turn, Session
<1>4. turn[m].answered \/ (turn[m].at = "send" /\ turn[m].outcome \in Real) => Session(m) \in Inbox
  BY <1>1 DEF Trail, Turn, Session
<1>5. Told(m)' = Told(m) => (Asked(m) => Asked(m)') /\ (Exchange(m) => Exchange(m)')
  BY <1>1 DEF Asked, Exchange
<1> DEFINE R == Fresh(Session(m))
<1>6. Session(m) \in Inbox => (Fresh(Session(m))' => Fresh(Session(m)) /\ Told(m)' = Told(m))
  BY <1>2
<1>7. Unharmed(m)' = Unharmed(m)
  BY DEF Unharmed
<1> QED
  BY <1>1, <1>3, <1>4, <1>5, <1>6, <1>7 DEF Trail

\* A session has no row before the message that creates it gets to that.
LEMMA NewHasNoRow ==
  ASSUME CvInv, LogInv, [CvNext]_cvvars, NEW m \in Inbox, ~Created(m)' PROVE rows'[m] = Absent
<1>1. ~Created(m) /\ turn'[m].at # "enter"
  BY Leaves DEF Created
<1> QED
  BY <1>1, Leaves DEF LogInv, Born

\* A turn that keeps its session keeps that it was created.
LEMMA BornKept ==
  ASSUME CvInv, LogInv, [CvNext]_cvvars, NEW m \in Inbox, Session(m)' = Session(m)
  PROVE  Born(m)'
<1>1. Born(m) /\ Session(m) \in Inbox \cup {None} /\ None \notin Inbox
  BY CvAssumption DEF LogInv, CvInv, Typed, Turn, Session
<1>2. Session(m)' # None => Created(Session(m))'
  <2> SUFFICES ASSUME NEW s \in Inbox, s = Session(m) PROVE Created(Session(m))'
    BY <1>1
  <2>1. Created(s)'
    BY <1>1, Ages DEF Born
  <2> QED
    BY <2>1 DEF Created
<1> QED
  BY <1>2, NewHasNoRow DEF Born

\* A step of one turn, by what it does to the table.
LEMMA TurnKeepsLog ==
  ASSUME CvInv, LogInv, [CvNext]_cvvars, NEW m \in Inbox, NEW T, turn' = [turn EXCEPT ![m] = T],
         sweep' = sweep, log' \subseteq Entry, \A n \in Inbox \ {m} : Told(n)' = Told(n),
         Trail(m)', Born(m)'
  PROVE  LogInv'
<1>1. ASSUME NEW n \in Inbox, n # m PROVE Trail(n)' /\ Born(n)'
  <2>1. turn'[n] = turn[n]
    BY <1>1 DEF CvInv, Typed
  <2>2. Session(n)' = Session(n) /\ Told(n)' = Told(n)
    BY <1>1, <2>1 DEF Session
  <2> QED
    BY <2>1, <2>2, TrailKept, BornKept
<1>2. SweepsOld'
  BY Ages DEF LogInv, SweepsOld
<1> QED
  BY <1>1, <1>2 DEF LogInv

\* What a stage may leave a turn in without touching the table.
Advance(m) ==
  \/ /\ turn[m].at \in {"new", "create", "enter", "ask"} /\ ~turn'[m].answered
     /\ turn'[m].at \in {"new", "create", "enter", "ask"}
  \/ /\ turn[m].at \in {"compose", "begin", "loop"} /\ ~turn'[m].answered
     /\ turn'[m].at \in {"compose", "begin", "loop", "answer"}
     /\ turn'[m].at = "answer" => turn'[m].outcome \in Real
  \/ turn'[m].at = "answer" /\ turn[m].at = "answer" /\ turn'[m].outcome = turn[m].outcome /\ ~turn'[m].answered
  \/ turn'[m].at = "send" /\ turn'[m].outcome \notin Real /\ ~turn'[m].answered
  \/ turn'[m].at = "send" /\ turn[m].at = "send" /\ turn'[m].outcome = turn[m].outcome /\ ~turn'[m].answered
  \/ turn'[m].at = "done" /\ (turn'[m].answered => turn[m].at = "send" /\ turn[m].outcome \in Real /\ Unharmed(m))
  \/ turn'[m].at = "lost" /\ ~turn'[m].answered

\* A turn that moves on as Advance says, with its part of the table left alone, keeps its trail.
LEMMA TrailAdvances ==
  ASSUME CvInv, LogInv, [CvNext]_cvvars, NEW m \in Inbox, Advance(m), Told(m)' = Told(m),
         Session(m)' = Session(m), turn'[m].at \notin {"done", "lost"} /\ Unharmed(m)' => Unharmed(m)
  PROVE  Trail(m)'
<1>1. turn[m] \in Turn /\ Trail(m) /\ Born(m) /\ InMap(m) /\ Session(m) \in Inbox \cup {None} /\ None \notin Inbox
  BY CvAssumption DEF CvInv, Typed, LogInv, Turn, Session
<1>2. Session(m) \in Inbox => (Fresh(Session(m))' => Fresh(Session(m)))
  <2> SUFFICES ASSUME NEW s \in Inbox, s = Session(m) PROVE Fresh(Session(m))' => Fresh(Session(m))
    OBVIOUS
  <2>1. Created(s)
    BY <1>1 DEF Born
  <2>2. Fresh(s)' => Fresh(s)
    BY <2>1, Ages
  <2> QED
    BY <1>1, <2>2 DEF Fresh
<1>3. turn[m].at \in {"compose", "begin", "loop", "answer"} => Session(m) # None
  BY <1>1 DEF InMap
<1>4. (Asked(m) => Asked(m)') /\ (Exchange(m) => Exchange(m)')
  BY DEF Asked, Exchange
<1> QED
  BY <1>1, <1>2, <1>3, <1>4 DEF Trail, Advance, Real

\* A step of one turn that leaves the table, the sweep and its own session alone.
LEMMA AdvanceKeepsLog ==
  ASSUME CvInv, LogInv, [CvNext]_cvvars, NEW m \in Inbox, NEW T, turn' = [turn EXCEPT ![m] = T],
         log' = log, sweep' = sweep, T.session = Session(m), Advance(m),
         T.at # "done" => /\ T.ctx = "over" \/ T.ctx = turn[m].ctx \/ turn[m].ctx = "live"
                         /\ (turn[m].hurt => T.hurt)
  PROVE  LogInv'
<1>1. turn'[m] = T /\ turn[m] \in Turn
  BY DEF CvInv, Typed
<1>2. \A n \in Inbox : Told(n)' = Told(n)
  BY DEF Told
<1>3. Session(m)' = Session(m) /\ (turn'[m].at # "done" /\ Unharmed(m)' => Unharmed(m))
  BY <1>1 DEF Session, Unharmed
<1>4. Trail(m)' /\ Born(m)'
  BY <1>2, <1>3, TrailAdvances, BornKept
<1>5. log' \subseteq Entry
  BY DEF LogInv
<1> QED
  BY <1>2, <1>4, <1>5, TurnKeepsLog

\* The steps that store nothing keep LogInv.
LEMMA QuietKeepLog ==
  ASSUME CvInv, LogInv, [CvNext]_cvvars, NEW m \in Inbox,
         StopPhrase(m) \/ CreateSession(m) \/ Unheard(m) \/ Compose(m) \/ Begin(m) \/ EndRun(m)
           \/ Send(m) \/ Deadline(m) \/ Disconnect(m)
  PROVE  LogInv'
<1>1. turn[m] \in Turn /\ Trail(m) /\ turn \in [Inbox -> Turn]
  BY DEF CvInv, Typed, LogInv
<1>2. turn[m].answered \in BOOLEAN /\ (turn[m].at # "done" => ~turn[m].answered)
  BY <1>1 DEF Turn, Trail
<1>3. log' = log /\ sweep' = sweep
  BY DEF StopPhrase, CreateSession, Unheard, Compose, Begin, EndRun, Send, Deadline, Disconnect
<1>4. ASSUME NEW at, NEW outcome, turn' = [turn EXCEPT ![m] = [turn[m] EXCEPT !.at = at, !.outcome = outcome]],
             turn[m].at # "done", at = "send" /\ outcome \notin Real
      PROVE  LogInv'
  <2> DEFINE T == [turn[m] EXCEPT !.at = at, !.outcome = outcome]
  <2>1. /\ T.at = at /\ T.outcome = outcome /\ T.session = turn[m].session /\ T.ctx = turn[m].ctx
        /\ T.hurt = turn[m].hurt /\ T.answered = turn[m].answered
    BY <1>1 DEF Turn
  <2>2. turn'[m] = T
    BY <1>1, <1>4
  <2>3. Advance(m)
    BY <1>2, <1>4, <2>1, <2>2 DEF Advance
  <2> QED
    BY <1>3, <1>4, <2>1, <2>3, AdvanceKeepsLog DEF Session
<1>5. ASSUME NEW at, NEW outcome, NEW hurt,
             turn' = [turn EXCEPT ![m] = [turn[m] EXCEPT !.at = at, !.outcome = outcome, !.hurt = hurt]],
             turn[m].hurt => hurt, turn[m].at # "done",
             \/ turn[m].at \in {"new", "create", "enter", "ask"} /\ at \in {"new", "create", "enter", "ask"}
             \/ turn[m].at \in {"compose", "begin", "loop"} /\ at \in {"compose", "begin", "loop"}
             \/ turn[m].at \in {"compose", "begin", "loop"} /\ at = "answer" /\ outcome \in Real
             \/ at = "done"
      PROVE  LogInv'
  <2> DEFINE T == [turn[m] EXCEPT !.at = at, !.outcome = outcome, !.hurt = hurt]
  <2>1. /\ T.at = at /\ T.outcome = outcome /\ T.session = turn[m].session /\ T.ctx = turn[m].ctx
        /\ T.hurt = hurt /\ T.answered = turn[m].answered
    BY <1>1 DEF Turn
  <2>2. turn'[m] = T
    BY <1>1, <1>5
  <2>3. Advance(m)
    BY <1>2, <1>5, <2>1, <2>2 DEF Advance
  <2> QED
    BY <1>3, <1>5, <2>1, <2>3, AdvanceKeepsLog DEF Session
<1>6. ASSUME NEW at, GoesOn(m, at), turn[m].at # "done",
             \/ turn[m].at \in {"new", "create", "enter", "ask"} /\ at \in {"new", "create", "enter", "ask"}
             \/ turn[m].at \in {"compose", "begin", "loop"} /\ at \in {"compose", "begin", "loop"}
             \/ at = "done"
      PROVE  LogInv'
  <2> DEFINE hurt == turn[m].hurt \/ mishaps' # mishaps
             T == [turn[m] EXCEPT !.at = at, !.outcome = turn[m].outcome, !.hurt = hurt]
  <2>1. T = [turn[m] EXCEPT !.at = at, !.hurt = hurt]
    BY <1>1 DEF Turn
  <2>2. turn' = [turn EXCEPT ![m] = T]
    BY <1>6, <2>1 DEF GoesOn
  <2>3. turn[m].hurt => hurt
    OBVIOUS
  <2> QED
    BY <1>5, <1>6, <2>2, <2>3
<1>7. ASSUME NEW ctx, turn' = [turn EXCEPT ![m].ctx = ctx], turn[m].at \notin {"new", "done", "lost"},
             ctx = "over" \/ turn[m].ctx = "live"
      PROVE  LogInv'
  <2> DEFINE T == [turn[m] EXCEPT !.ctx = ctx]
  <2>1. /\ T.at = turn[m].at /\ T.outcome = turn[m].outcome /\ T.session = turn[m].session /\ T.ctx = ctx
        /\ T.hurt = turn[m].hurt /\ T.answered = turn[m].answered /\ turn' = [turn EXCEPT ![m] = T]
    BY <1>1, <1>7 DEF Turn
  <2>2. turn'[m] = T
    BY <1>1, <1>7
  <2>3. Advance(m)
    BY <1>1, <1>2, <1>7, <2>1, <2>2 DEF Advance, Turn
  <2> QED
    BY <1>3, <1>7, <2>1, <2>3, AdvanceKeepsLog DEF Session
<1>8. CASE StopPhrase(m) \/ Unheard(m)
  <2>1. PICK outcome \in {"stop", "error"} : SendsBack(m, outcome) /\ turn[m].at \in {"new", "ask"}
    BY <1>8 DEF StopPhrase, Unheard, Is
  <2> QED
    BY <1>4, <2>1 DEF SendsBack, Real
<1>9. CASE CreateSession(m)
  <2>1. turn[m].at = "create" /\ (GoesOn(m, "enter") \/ GoesOn(m, "done"))
    BY <1>9 DEF CreateSession, Is
  <2> QED
    BY <1>6, <2>1
<1>10. CASE Compose(m)
  <2>1. turn[m].at = "compose" /\ (GoesOn(m, "begin") \/ SendsBack(m, "error"))
    BY <1>10 DEF Compose, Is
  <2>2. CASE SendsBack(m, "error")
    <3>1. turn' = [turn EXCEPT ![m] = [turn[m] EXCEPT !.at = "send", !.outcome = "error"]]
      BY <1>1, <2>2 DEF SendsBack
    <3>2. turn[m].at # "done" /\ "error" \notin Real
      BY <2>1 DEF Real
    <3> QED
      BY <1>4, <3>1, <3>2
  <2>3. CASE GoesOn(m, "begin")
    <3>1. turn[m].at # "done" /\ turn[m].at \in {"compose", "begin", "loop"} /\ "begin" \in {"compose", "begin", "loop"}
      BY <2>1
    <3> QED
      BY <1>6, <2>3, <3>1
  <2> QED
    BY <2>1, <2>2, <2>3
<1>11. CASE Begin(m)
  <2>1. turn[m].at \in {"begin", "loop"} /\ GoesOn(m, "loop")
    BY <1>11 DEF Begin, Is
  <2> QED
    BY <1>6, <2>1
<1>12. CASE EndRun(m)
  <2>1. PICK e \in Endings(m) :
          turn' = [turn EXCEPT ![m].at = "answer", ![m].outcome = e.outcome, ![m].hurt = @ \/ mishaps' # mishaps]
    BY <1>12 DEF EndRun
  <2>2. e.outcome \in Real /\ turn[m].at = "loop"
    <3>1. /\ Live(m) \in BOOLEAN
          /\ \E b \in BOOLEAN : \/ e = [outcome |-> "answer", state |-> "completed", live |-> b]
                               \/ e = [outcome |-> "paused", state |-> "cancelled", live |-> b]
                               \/ e = [outcome |-> "failed", state |-> "failed", live |-> b]
                               \/ e = [outcome |-> "failed", state |-> "cancelled", live |-> b]
      BY <2>1 DEF Endings, Live
    <3>2. e.outcome \in {"answer", "paused", "failed"}
      BY <3>1
    <3> QED
      BY <1>12, <3>2 DEF EndRun, Real, Is
  <2> DEFINE hurt == turn[m].hurt \/ mishaps' # mishaps
  <2>3. turn' = [turn EXCEPT ![m] = [turn[m] EXCEPT !.at = "answer", !.outcome = e.outcome, !.hurt = hurt]]
    BY <2>1
  <2>4. turn[m].hurt => hurt
    OBVIOUS
  <2> QED
    BY <1>5, <2>2, <2>3, <2>4
<1>13. CASE Send(m)
  <2>1. turn[m].at = "send"
    BY <1>13 DEF Send, Is
  <2>2. ASSUME NEW sent, Over(m, sent) PROVE LogInv'
    <3> DEFINE T == [NewTurn EXCEPT !.at = "done", !.session = Session(m),
                       !.answered = /\ sent /\ ~turn[m].hurt /\ turn[m].ctx # "over"
                                    /\ turn[m].outcome \in {"answer", "failed", "paused"}]
    <3>1. /\ turn' = [turn EXCEPT ![m] = T] /\ T.at = "done" /\ T.session = Session(m)
          /\ T.answered => Unharmed(m) /\ turn[m].outcome \in Real
      BY <2>2 DEF Over, NewTurn, Unharmed, Real
    <3>2. turn'[m] = T
      BY <1>1, <3>1
    <3>3. Advance(m)
      BY <2>1, <3>1, <3>2 DEF Advance
    <3> QED
      BY <1>3, <3>1, <3>3, AdvanceKeepsLog
  <2>3. CASE turn' = [turn EXCEPT ![m].tries = @ + 1]
    <3> DEFINE T == [turn[m] EXCEPT !.tries = @ + 1]
    <3>1. /\ turn' = [turn EXCEPT ![m] = T] /\ T.at = "send" /\ T.session = turn[m].session
          /\ T.outcome = turn[m].outcome /\ T.ctx = turn[m].ctx /\ T.hurt = turn[m].hurt
          /\ T.answered = turn[m].answered
      BY <1>1, <2>1, <2>3 DEF Turn
    <3>2. turn'[m] = T
      BY <1>1, <3>1
    <3>3. Advance(m)
      BY <1>2, <2>1, <3>1, <3>2 DEF Advance
    <3> QED
      BY <1>3, <3>1, <3>3, AdvanceKeepsLog DEF Session
  <2> QED
    BY <1>13, <2>2, <2>3 DEF Send
<1>14. CASE Deadline(m) \/ Disconnect(m)
  <2>1. turn[m].at \notin {"new", "done", "lost"}
    BY <1>14 DEF Deadline, Disconnect, UnderWay, Is
  <2>2. \/ turn' = [turn EXCEPT ![m].ctx = "late"] /\ turn[m].ctx = "live"
        \/ turn' = [turn EXCEPT ![m].ctx = "over"]
    BY <1>14 DEF Deadline, Disconnect, Live
  <2> QED
    BY <1>7, <2>1, <2>2
<1> QED
  BY <1>8, <1>9, <1>10, <1>11, <1>12, <1>13, <1>14

\* A turn gets its session before it stores anything.
LEMMA JoinKeepsLog ==
  ASSUME CvInv, LogInv, [CvNext]_cvvars, NEW m \in Inbox, (\E t \in Threads : Receive(m, t)) \/ Enter(m)
  PROVE  LogInv'
<1>1. turn[m] \in Turn /\ Trail(m) /\ InMap(m) /\ turn \in [Inbox -> Turn] /\ mapped \in [Threads -> Inbox \cup {None}]
  BY DEF CvInv, Typed, LogInv
<1>2. turn[m].at \in {"new", "enter"} /\ ~turn[m].answered /\ log' = log /\ sweep' = sweep
  BY <1>1 DEF Receive, Enter, Is, Trail, Turn
<1>3. ASSUME NEW T, NEW s \in Inbox \cup {None}, turn' = [turn EXCEPT ![m] = T], T.session = s,
             T.at \in {"create", "ask"}, ~T.answered, s # None => Created(s)'
      PROVE  LogInv'
  <2>1. turn'[m] = T /\ Session(m)' = s
    BY <1>1, <1>3 DEF Session
  <2>2. \A n \in Inbox : Told(n)' = Told(n)
    BY <1>2 DEF Told
  <2>3. Told(m) = {} /\ log' \subseteq Entry
    BY <1>1, <1>2 DEF Trail, LogInv
  <2>4. Trail(m)'
    BY <1>3, <2>1, <2>2, <2>3 DEF Trail
  <2>5. Session(m)' # None => Created(Session(m))'
    <3> SUFFICES ASSUME s # None PROVE Created(Session(m))'
      BY <2>1
    <3> QED
      BY <1>3, <2>1 DEF Created
  <2>6. Born(m)'
    BY <2>5, NewHasNoRow DEF Born
  <2> QED
    BY <1>2, <1>3, <2>2, <2>3, <2>4, <2>6, TurnKeepsLog
<1>4. ASSUME NEW t \in Threads, Receive(m, t) PROVE LogInv'
  <2> DEFINE T == [turn[m] EXCEPT !.thread = t, !.session = mapped[t],
                                  !.at = IF mapped[t] = None THEN "create" ELSE "ask"]
  <2>1. /\ turn' = [turn EXCEPT ![m] = T] /\ T.session = mapped[t] /\ T.at \in {"create", "ask"}
        /\ T.answered = turn[m].answered
    BY <1>1, <1>4 DEF Receive, Turn
  <2>2. PICK s \in Inbox \cup {None} : s = mapped[t]
    BY <1>1
  <2>3. s # None => Created(s)'
    <3>1. s # None => s \in Inbox /\ Created(s)
      BY <2>2 DEF CvInv, InMap, Created
    <3> QED
      BY <3>1, Ages
  <2> QED
    BY <1>2, <1>3, <2>1, <2>2, <2>3
<1>5. CASE Enter(m)
  <2>1. turn[m].at = "enter" /\ turn[m].thread \in Threads
    BY <1>1, <1>5 DEF Enter, Is, InMap
  <2>2. PICK s \in Inbox : s = IF mapped[turn[m].thread] = None THEN m ELSE mapped[turn[m].thread]
    BY <1>1, <2>1
  <2> DEFINE T == [turn[m] EXCEPT !.at = "ask", !.session = s]
  <2>3. /\ turn' = [turn EXCEPT ![m] = T] /\ T.session = s /\ T.at = "ask" /\ T.answered = turn[m].answered
    BY <1>1, <1>5, <2>2 DEF Enter, Turn
  <2>4. Created(s)
    BY <2>1, <2>2 DEF CvInv, InMap, Created
  <2> QED
    BY <1>2, <1>3, <2>3, <2>4, Ages
<1> QED
  BY <1>4, <1>5

\* What AddMessage leaves behind: a row with a greater id than all before it,
\* or a turn that cannot be held to it.
LEMMA AddMessageAdds ==
  ASSUME CvInv, LogInv, NEW m \in Inbox, NEW role \in {"user", "assistant"}, NEW next,
         AddMessage(m, role, next), Session(m) \in Inbox
  PROVE  /\ GoesOn(m, next) /\ log' \subseteq Entry /\ sweep' = sweep
         /\ \A n \in Inbox \ {m} : Told(n)' = Told(n)
         /\ \/ /\ Told(m)' = Told(m)
               /\ turn[m].ctx = "over" \/ mishaps' # mishaps \/ rows[Session(m)] = Absent
            \/ \E x : /\ Told(m)' = Told(m) \cup {x} /\ x.session = Session(m) /\ x.role = role
                      /\ \A e \in log : e.id < x.id
<1>1. GoesOn(m, next) /\ sweep' = sweep /\ log \subseteq Entry
  BY DEF AddMessage, LogInv
<1>2. CASE log' = log
  <2>1. \A n \in Inbox : Told(n)' = Told(n)
    BY <1>2 DEF Told
  <2>2. CASE rows[Session(m)] = Absent
    BY <1>1, <1>2, <2>1, <2>2
  <2>3. CASE Fails(m)
    BY <1>1, <1>2, <2>1, <2>3, CvAssumption DEF Fails, Mishap, CvInv, Typed
  <2>4. ASSUME NEW i \in MessageIds, rows[Session(m)] # Absent,
               log' = log \cup {[id |-> i, session |-> Session(m), role |-> role, of |-> m]}
        PROVE  FALSE
    <3>1. [id |-> i, session |-> Session(m), role |-> role, of |-> m] \in log
      BY <1>2, <2>4
    <3>2. log # {}
      BY <3>1
    <3>3. PICK f \in log : i = f.id + 1 /\ \A g \in log : g.id <= f.id
      BY <3>2 DEF MessageIds
    <3>4. i <= f.id /\ f.id \in Nat
      BY <1>1, <3>1, <3>3 DEF Entry
    <3> QED
      BY <3>3, <3>4
  <2> QED
    BY <2>2, <2>3, <2>4 DEF AddMessage
<1>3. CASE log' # log
  <2>1. PICK i \in MessageIds : log' = log \cup {[id |-> i, session |-> Session(m), role |-> role, of |-> m]}
    BY <1>3 DEF AddMessage
  <2>2. i \in Nat /\ \A e \in log : e.id < i
    <3>1. CASE log = {}
      BY <2>1, <3>1 DEF MessageIds
    <3>2. CASE log # {}
      <4>1. PICK f \in log : i = f.id + 1 /\ \A g \in log : g.id <= f.id
        BY <3>2 DEF MessageIds
      <4>2. \A e \in log : e.id \in Nat
        BY <1>1 DEF Entry
      <4> QED
        BY <4>1, <4>2
    <3> QED
      BY <3>1, <3>2
  <2> DEFINE x == [id |-> i, session |-> Session(m), role |-> role, of |-> m]
  <2>3. x \in Entry
    BY <2>2 DEF Entry
  <2>4. Told(m)' = Told(m) \cup {x} /\ \A n \in Inbox \ {m} : Told(n)' = Told(n)
    BY <2>1 DEF Told
  <2> QED
    BY <1>1, <2>1, <2>2, <2>3, <2>4
<1> QED
  BY <1>2, <1>3

\* A stored message has the largest id, so an answer is behind what it answers.
LEMMA StoreKeepsLog ==
  ASSUME CvInv, LogInv, [CvNext]_cvvars, NEW m \in Inbox, Ask(m) \/ Answer(m) PROVE LogInv'
<1>1. /\ turn[m] \in Turn /\ Trail(m) /\ Born(m) /\ turn \in [Inbox -> Turn] /\ turn[m].at \in {"ask", "answer"}
      /\ InMap(m)
  BY DEF CvInv, Typed, LogInv, Ask, Answer, Is
<1>2. PICK s \in Inbox : s = Session(m)
  BY <1>1 DEF InMap, Turn, Session
<1>3. Created(s) /\ (Fresh(s)' => Fresh(s))
  <2>1. Created(s)
    BY <1>1, <1>2, CvAssumption DEF Born
  <2> QED
    BY <2>1, Ages
<1>4. PICK role \in {"user", "assistant"}, next \in {"compose", "send"} :
        /\ AddMessage(m, role, next)
        /\ \/ role = "user" /\ next = "compose" /\ turn[m].at = "ask"
           \/ role = "assistant" /\ next = "send" /\ turn[m].at = "answer"
  BY DEF Ask, Answer, Is
<1> DEFINE hurt == turn[m].hurt \/ mishaps' # mishaps
           T == [turn[m] EXCEPT !.at = next, !.hurt = hurt]
<1>5. /\ GoesOn(m, next) /\ log' \subseteq Entry /\ sweep' = sweep
      /\ \A n \in Inbox \ {m} : Told(n)' = Told(n)
      /\ \/ /\ Told(m)' = Told(m)
            /\ turn[m].ctx = "over" \/ mishaps' # mishaps \/ rows[Session(m)] = Absent
         \/ \E x : /\ Told(m)' = Told(m) \cup {x} /\ x.session = Session(m) /\ x.role = role
                   /\ \A e \in log : e.id < x.id
  BY <1>2, <1>4, AddMessageAdds
<1>6. turn' = [turn EXCEPT ![m] = T]
  BY <1>5 DEF GoesOn
<1>7. /\ T.at = next /\ T.hurt = hurt /\ T.ctx = turn[m].ctx /\ T.session = turn[m].session
      /\ T.outcome = turn[m].outcome /\ T.answered = turn[m].answered /\ turn'[m] = T
  BY <1>1, <1>6 DEF Turn
<1>8. Session(m)' = s /\ Session(m) = s /\ (Unharmed(m)' => Unharmed(m) /\ mishaps' = mishaps)
  BY <1>2, <1>7 DEF Session, Unharmed
<1>9. ~turn[m].answered /\ s # None
  BY <1>1, CvAssumption DEF Trail, Turn
<1>10. Fresh(Session(m))' => Fresh(s) /\ rows[Session(m)] # Absent
  BY <1>3, <1>8 DEF Fresh
<1>11. CASE Told(m)' = Told(m) /\ (turn[m].ctx = "over" \/ mishaps' # mishaps \/ rows[Session(m)] = Absent)
  <2>1. ~(Unharmed(m)' /\ Fresh(Session(m))')
    BY <1>8, <1>10, <1>11 DEF Unharmed
  <2>2. Trail(m)'
    BY <1>1, <1>4, <1>7, <1>8, <1>9, <1>11, <2>1 DEF Trail
  <2> QED
    BY <1>5, <1>6, <1>8, <2>2, BornKept, TurnKeepsLog
<1>12. ASSUME NEW x, Told(m)' = Told(m) \cup {x}, x.session = Session(m), x.role = role, \A e \in log : e.id < x.id
       PROVE  LogInv'
  <2>1. CASE role = "user"
    <3>1. Told(m) = {} /\ turn'[m].at = "compose"
      BY <1>1, <1>4, <1>7, <2>1 DEF Trail
    <3>2. Asked(m)'
      BY <1>8, <1>12, <2>1, <3>1 DEF Asked
    <3>3. Trail(m)'
      BY <1>7, <1>8, <1>9, <1>12, <3>1, <3>2 DEF Trail
    <3> QED
      BY <1>5, <1>6, <1>8, <3>3, BornKept, TurnKeepsLog
  <2>2. CASE role = "assistant"
    <3>1. turn[m].at = "answer" /\ turn'[m].at = "send" /\ turn[m].outcome \in Real
      BY <1>1, <1>4, <1>7, <2>2 DEF Trail
    <3>2. Unharmed(m)' /\ Fresh(Session(m))' => Exchange(m)'
      <4> SUFFICES ASSUME Unharmed(m)', Fresh(Session(m))' PROVE Exchange(m)'
        OBVIOUS
      <4>1. Asked(m)
        BY <1>1, <1>8, <1>10, <3>1 DEF Trail
      <4>2. PICK u \in Told(m) : Told(m) = {u} /\ u.role = "user" /\ u.session = s
        BY <1>8, <4>1 DEF Asked
      <4>3. u.id < x.id
        BY <1>12, <4>2 DEF Told
      <4> QED
        BY <1>8, <1>12, <2>2, <4>2, <4>3 DEF Exchange
    <3>3. Trail(m)'
      BY <1>1, <1>7, <1>8, <1>9, <1>12, <3>1, <3>2 DEF Trail
    <3> QED
      BY <1>5, <1>6, <1>8, <3>3, BornKept, TurnKeepsLog
  <2> QED
    BY <2>1, <2>2
<1> QED
  BY <1>5, <1>11, <1>12

\* The sweep takes the messages of what is gone or expired, nobody else's.
LEMMA SweepKeepsLog ==
  ASSUME CvInv, LogInv, [CvNext]_cvvars,
         SweepStart \/ (\E s \in Inbox : SweepMessages(s)) \/ SweepSession \/ Tick \/ UNCHANGED cvvars
  PROVE  LogInv'
<1>1. turn' = turn /\ None \notin Inbox
  BY CvAssumption DEF SweepStart, SweepMessages, SweepSession, Tick, cvvars
<1>2. ASSUME NEW m \in Inbox PROVE Session(m)' = Session(m) /\ turn'[m] = turn[m] /\ Born(m)'
  <2>1. Session(m)' = Session(m)
    BY <1>1 DEF Session
  <2> QED
    BY <1>1, <2>1, BornKept
<1>3. CASE log' = log
  <2>1. \A m \in Inbox : Told(m)' = Told(m)
    BY <1>3 DEF Told
  <2>2. \A m \in Inbox : Trail(m)'
    BY <1>2, <2>1, TrailKept
  <2>3. SweepsOld'
    <3>1. CASE SweepStart
      <4>1. ASSUME NEW s \in Inbox, s \in Expired PROVE Created(s)' /\ ~Fresh(s)'
        <5>1. rows[s] # Absent /\ rows[s] + MaxAge < now /\ rows[s] \in Int /\ now \in Int /\ MaxAge \in Int
          BY <4>1, CvAssumption DEF Expired, CvInv, Typed, Absent
        <5>2. Created(s) /\ ~Fresh(s)
          BY <5>1 DEF LogInv, Born, Fresh
        <5> QED
          BY <5>2, Ages
      <4>2. sweep'.left = Expired /\ sweep'.on = None
        BY <3>1 DEF SweepStart
      <4> QED
        BY <1>1, <4>1, <4>2 DEF SweepsOld
    <3>2. CASE \A s \in Inbox : s \in sweep'.left \/ s = sweep'.on => s \in sweep.left \/ s = sweep.on
      <4>1. ASSUME NEW s \in Inbox, s \in sweep'.left \/ s = sweep'.on PROVE Created(s)' /\ ~Fresh(s)'
        <5>1. Created(s) /\ ~Fresh(s)
          BY <3>2, <4>1 DEF LogInv, SweepsOld
        <5> QED
          BY <5>1, Ages
      <4> QED
        BY <4>1 DEF SweepsOld
    <3>3. ASSUME NEW s \in Inbox, SweepMessages(s)
          PROVE  \A n \in Inbox : n \in sweep'.left \/ n = sweep'.on => n \in sweep.left \/ n = sweep.on
      BY <3>3 DEF SweepMessages, CvInv, Typed
    <3>4. CASE SweepSession
      <4>1. sweep'.left = sweep.left /\ sweep'.on = None
        BY <3>4 DEF SweepSession, CvInv, Typed
      <4> QED
        BY <1>1, <3>2, <4>1
    <3>5. CASE sweep' = sweep
      BY <3>2, <3>5
    <3> QED
      BY <3>1, <3>2, <3>3, <3>4, <3>5 DEF Tick, cvvars
  <2> QED
    BY <1>2, <1>3, <2>2, <2>3 DEF LogInv
<1>4. ASSUME NEW s \in Inbox, SweepMessages(s), log' = { e \in log : e.session # s } PROVE LogInv'
  <2>1. s \in sweep.left /\ Created(s) /\ ~Fresh(s)
    BY <1>4 DEF SweepMessages, LogInv, SweepsOld
  <2>2. ASSUME NEW m \in Inbox PROVE Trail(m)'
    <3>1. CASE Session(m) = s
      <4>1. Told(m)' \subseteq Told(m)
        BY <1>4 DEF Told
      <4> QED
        BY <1>2, <2>1, <3>1, <4>1, TrailKept
    <3>2. CASE Session(m) # s
      <4>1. \A e \in Told(m) : e.session = Session(m)
        BY DEF LogInv, Trail
      <4>2. Told(m)' = Told(m)
        BY <1>4, <3>2, <4>1 DEF Told
      <4> QED
        BY <1>2, <4>2, TrailKept
    <3> QED
      BY <3>1, <3>2
  <2>3. \A n \in Inbox : n \in sweep'.left \/ n = sweep'.on => n \in sweep.left \/ n = sweep.on
    BY <1>4 DEF SweepMessages, CvInv, Typed
  <2>4. SweepsOld'
    <3>1. ASSUME NEW n \in Inbox, n \in sweep'.left \/ n = sweep'.on PROVE Created(n)' /\ ~Fresh(n)'
      <4>1. Created(n) /\ ~Fresh(n)
        BY <2>3, <3>1 DEF LogInv, SweepsOld
      <4> QED
        BY <4>1, Ages
    <3> QED
      BY <3>1 DEF SweepsOld
  <2>5. log' \subseteq Entry
    BY <1>4 DEF LogInv
  <2> QED
    BY <1>2, <2>2, <2>4, <2>5 DEF LogInv
<1> QED
  BY <1>3, <1>4 DEF SweepStart, SweepMessages, SweepSession, Tick, cvvars

\* A restart leaves the table alone; the turns it loses are not answered.
LEMMA RestartKeepsLog == ASSUME CvInv, LogInv, [CvNext]_cvvars, Restart PROVE LogInv'
<1>1. log' = log /\ log' \subseteq Entry /\ sweep' = NoSweep
  BY DEF Restart, LogInv
<1>2. SweepsOld'
  BY <1>1, CvAssumption DEF SweepsOld, NoSweep
<1>3. ASSUME NEW m \in Inbox PROVE Trail(m)' /\ Born(m)'
  <2>1. Told(m)' = Told(m)
    BY <1>1 DEF Told
  <2>2. CASE ~UnderWay(m)
    <3>1. turn'[m] = turn[m] /\ Session(m)' = Session(m)
      BY <2>2 DEF Restart, Session
    <3> QED
      BY <2>1, <3>1, TrailKept, BornKept
  <2>3. CASE UnderWay(m)
    <3>1. turn'[m].at = "lost" /\ ~turn'[m].answered /\ Session(m)' = Session(m)
      BY <2>3 DEF Restart, NewTurn, Session
    <3>2. Advance(m)
      BY <3>1 DEF Advance
    <3> QED
      BY <2>1, <3>1, <3>2, TrailAdvances, BornKept
  <2> QED
    BY <2>2, <2>3
<1> QED
  BY <1>1, <1>2, <1>3 DEF LogInv

\* All steps together.
LEMMA LogStep == CvInv /\ LogInv /\ [CvNext]_cvvars => LogInv'
<1> SUFFICES ASSUME CvInv, LogInv, [CvNext]_cvvars PROVE LogInv'
  OBVIOUS
<1> QED
  BY QuietKeepLog, JoinKeepsLog, StoreKeepsLog, SweepKeepsLog, RestartKeepsLog DEF CvNext

-----------------------------------------------------------------------------
\* At every stage of a turn the table holds what that stage has stored, unless
\* the session is gone or expired; and the sweep takes only from such sessions.
THEOREM LogInvCorrect == CvSpec => []LogInv
<1>1. CvInit /\ [][CvNext]_cvvars => []CvInv
  BY CvInitInv, CvStepInv, PTL
<1> QED
  BY <1>1, LogInit, LogStep, PTL DEF CvSpec

\* The state of conversations is well typed.
THEOREM CvTypeCorrect == CvSpec => []CvTypeOK
<1>1. CvInv /\ LogInv => CvTypeOK
  BY DEF CvInv, Typed, LogInv, CvTypeOK
<1> QED
  BY <1>1, CvInvCorrect, LogInvCorrect, PTL

\* A reply a user has got is in the table behind the message it replies to,
\* each once, whatever other turns, restarts and the cleanup do meanwhile
\* (session.go:96-105, 155-166).
THEOREM TurnRecordedCorrect == CvSpec => []TurnRecorded
<1>1. CvInv /\ LogInv => TurnRecorded
  <2> SUFFICES ASSUME CvInv, LogInv, NEW m \in Inbox, turn[m].answered, Fresh(Session(m))
               PROVE  \E u, a \in log :
                        /\ { e \in log : e.of = m } = {u, a} /\ u.id < a.id
                        /\ u.role = "user" /\ a.role = "assistant" /\ {u.session, a.session} = {Session(m)}
    BY DEF TurnRecorded, Fresh
  <2>1. Exchange(m)
    BY DEF LogInv, Trail
  <2>2. Told(m) = { e \in log : e.of = m } /\ Told(m) \subseteq log
    BY DEF Told
  <2> QED
    BY <2>1, <2>2 DEF Exchange
<1> QED
  BY <1>1, CvInvCorrect, LogInvCorrect, PTL
=============================================================================
