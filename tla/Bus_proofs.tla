----------------------------- MODULE Bus_proofs -----------------------------
(***************************************************************************)
(* Proofs about Bus, for every set of calls and every finite set of peers: *)
(* type correctness, that a competing message has one handler unless an    *)
(* ack was late, and that a call told "all nacked" had no ack.  A copy is  *)
(* in one place at a time: buffered, in a peer's hand, acked, or nacked    *)
(* with its answer under way or read.                                      *)
(***************************************************************************)
EXTENDS Bus, FiniteSetTheorems, TLAPS

USE BusAssumption DEF BusAssumption

\* A copy that is buffered, in hand or acked; those of m that have not expired.
Known(d) ==
  \/ \E i \in 1 .. Len(queue[d.to]) : queue[d.to][i] = d
  \/ d \in hand[d.to]
  \/ d \in acked
Live(m) == { d \in Copy : d.call = m /\ Known(d) /\ d \notin expired }

\* A copy is in one place.
Places ==
  \A p \in Peers :
    /\ \A d \in hand[p] : d.to = p /\ d \notin acked
    /\ \A i \in 1 .. Len(queue[p]) :
         queue[p][i].to = p /\ queue[p][i] \notin hand[p] /\ queue[p][i] \notin acked
    /\ \A i, j \in 1 .. Len(queue[p]) : queue[p][i] = queue[p][j] => i = j
    /\ mode = "compete" => queue[p] = <<>>

\* The call m has handed a copy to this peer in this attempt.
Past(m, try, to) ==
  \/ pub[m].at = "done"
  \/ pub[m].at \in {"try", "send", "await"} /\ try < pub[m].try
  \/ pub[m].at \in {"send", "await"} /\ try = pub[m].try /\ to \in pub[m].sent

OnlyPast(m) ==
  /\ \A d \in Copy : d.call = m /\ Known(d) => Past(m, d.try, d.to)
  /\ \A a \in reply[m] : Past(m, a.try, a.to)

\* What an answer says is so.
AnswersTrue(m) ==
  \A a \in reply[m], d \in Copy :
    d.call = m /\ d.try = a.try /\ d.to = a.to => IF a.ok THEN d \in acked ELSE ~Known(d)

\* Every nack counted in this attempt is that of another peer.
Counts(m, N) ==
  /\ Cardinality(N) = pub[m].nacks
  /\ \A p \in N : ~Known(CopyTo(m, p))
  /\ \A a \in reply[m] : a.try = pub[m].try => a.to \notin N
NacksCounted(m) ==
  pub[m].at \in {"send", "await"} => \E N \in SUBSET pub[m].sent : Counts(m, N)

Shape(m) ==
  /\ pub[m].at # "done" => pub[m].result = "none"
  /\ pub[m].at \in {"send", "await"} =>
       /\ pub[m].sent \subseteq pub[m].group /\ pub[m].left \subseteq pub[m].group
       /\ pub[m].sent \cap pub[m].left = {}

\* In competing mode one copy at a time may still be acked in time.
OneLive(m) ==
  mode = "compete" =>
    /\ pub[m].at \in {"idle", "try", "send"} => Live(m) = {}
    /\ pub[m].at = "await" => \E p \in Peers : pub[m].asked = {p} /\ Live(m) \subseteq {CopyTo(m, p)}
    /\ pub[m].at = "done" => \A d, e \in Live(m) : d = e

CallInv(m) == OnlyPast(m) /\ AnswersTrue(m) /\ NacksCounted(m) /\ Shape(m) /\ OneLive(m)

BusInv == BusTypeOK /\ Places /\ \A m \in Calls : CallInv(m)

-----------------------------------------------------------------------------
\* Nothing has been published at first.
LEMMA BusInitInv == Init => BusInv
<1> SUFFICES ASSUME Init PROVE BusInv
  OBVIOUS
<1>1. BusTypeOK
  BY DEF Init, BusTypeOK, Mode, Pub, NoPub, Result, Try
<1>2. Places
  BY DEF Init, Places
<1>3. ASSUME NEW d \in Copy PROVE ~Known(d)
  BY DEF Init, Known, Copy
<1>4. ASSUME NEW m \in Calls PROVE CallInv(m)
  BY <1>3 DEF Init, CallInv, OnlyPast, AnswersTrue, NacksCounted, Shape, OneLive, Live, NoPub
<1> QED
  BY <1>1, <1>2, <1>4 DEF BusInv

\* A call that a step leaves alone, while copies may go but none is new.
LEMMA CallKept ==
  ASSUME BusInv, NEW c \in Calls, mode' = mode, pub'[c] = pub[c], reply'[c] = reply[c],
         \A d \in Copy : Known(d)' => Known(d), acked \subseteq acked', expired \subseteq expired'
  PROVE  CallInv(c)'
<1>0. CallInv(c) /\ pub[c] \in Pub
  BY DEF BusInv, BusTypeOK
<1>1. Live(c)' \subseteq Live(c)
  BY DEF Live
<1>2. OnlyPast(c)' /\ AnswersTrue(c)' /\ Shape(c)'
  BY <1>0 DEF CallInv, OnlyPast, Past, AnswersTrue, Shape
<1>3. NacksCounted(c)'
  <2>1. \A p \in pub[c].sent : CopyTo(c, p) \in Copy
    BY <1>0 DEF CopyTo, Copy, Pub
  <2> QED
    BY <1>0, <2>1 DEF CallInv, NacksCounted, Counts, CopyTo
<1>4. OneLive(c)'
  BY <1>0, <1>1 DEF CallInv, OneLive, CopyTo
<1> QED
  BY <1>2, <1>3, <1>4 DEF CallInv

\* A step of the call m that moves no copy.
LEMMA CallAlone ==
  ASSUME BusInv, NEW m \in Calls, UNCHANGED <<mode, queue, hand, acked>>,
         \A c \in Calls : c # m => pub'[c] = pub[c] /\ reply'[c] = reply[c],
         expired \subseteq expired', BusTypeOK', CallInv(m)'
  PROVE  BusInv'
<1>1. Places'
  BY DEF BusInv, Places
<1>2. \A d : Known(d)' <=> Known(d)
  BY DEF Known
<1>3. ASSUME NEW c \in Calls, c # m PROVE CallInv(c)'
  BY <1>2, <1>3, CallKept
<1> QED
  BY <1>1, <1>3 DEF BusInv

\* The call as a step may leave it, field by field.
Remade(m, at, try, group, left, sent, nacks) ==
  [ at |-> at, attempts |-> pub[m].attempts, try |-> try, group |-> group, left |-> left,
    sent |-> sent, asked |-> pub[m].asked, nacks |-> nacks, copies |-> pub[m].copies,
    result |-> pub[m].result ]

\* Of a competing call at most one copy may still be acked in time.
LEMMA AtMostOne ==
  ASSUME BusInv, NEW m \in Calls, mode = "compete"
  PROVE  \A d, e \in Live(m) : d = e
<1>1. pub[m].at \in {"idle", "try", "send", "await", "done"} /\ OneLive(m)
  BY DEF BusInv, BusTypeOK, Pub, CallInv
<1> QED
  BY <1>1 DEF OneLive

\* A call may return from anywhere.
LEMMA ReturnKeeps ==
  ASSUME BusInv, NEW m \in Calls, NEW r \in Result, Return(m, r),
         UNCHANGED <<mode, peer, queue, hand, acked>>,
         expired \subseteq expired', expired' \subseteq Copy
  PROVE  BusInv'
<1>1. pub'[m] = [NoPub EXCEPT !.at = "done", !.attempts = pub[m].attempts, !.result = r]
  BY DEF Return, BusInv, BusTypeOK
<1>2. pub'[m].at = "done" /\ reply'[m] = {}
  BY <1>1 DEF Return, NoPub, BusInv, BusTypeOK
<1>3. BusTypeOK'
  <2>1. pub'[m] = [ at |-> "done", attempts |-> pub[m].attempts, try |-> 1, group |-> {},
                    left |-> {}, sent |-> {}, asked |-> {}, nacks |-> 0,
                    copies |-> [p \in Peers |-> 0], result |-> r ]
    BY <1>1 DEF NoPub
  <2>2. pub'[m] \in Pub
    BY <2>1 DEF BusInv, BusTypeOK, Pub, Try
  <2> QED
    BY <2>2 DEF Return, BusInv, BusTypeOK
<1>4. CallInv(m)'
  <2>1. \A d, e \in Live(m)' : mode = "compete" => d = e
    BY AtMostOne DEF Live, Known
  <2> QED
    BY <1>2, <2>1 DEF CallInv, OnlyPast, Past, AnswersTrue, NacksCounted, Shape, OneLive
<1> QED
  BY <1>3, <1>4, CallAlone DEF Return, BusInv, BusTypeOK

\* An attempt fails once nothing of it may be acked in time.
LEMMA AttemptFailsKeeps ==
  ASSUME BusInv, NEW m \in Calls, NEW err \in Result, AttemptFails(m, err),
         pub[m].at \in {"send", "await"}, mode = "compete" => Live(m)' = {},
         UNCHANGED <<mode, peer, queue, hand, acked>>,
         expired \subseteq expired', expired' \subseteq Copy
  PROVE  BusInv'
<1>1. CASE pub[m].try < pub[m].attempts
  <2>0. reply' = reply /\ pub' = [pub EXCEPT ![m] = [pub[m] EXCEPT !.at = "try", !.try = pub[m].try + 1]]
    BY <1>1 DEF AttemptFails
  <2>1. pub'[m] = [pub[m] EXCEPT !.at = "try", !.try = pub[m].try + 1] /\ pub[m] \in Pub
    BY <2>0 DEF BusInv, BusTypeOK
  <2>2. pub'[m].at = "try" /\ pub'[m].try = pub[m].try + 1 /\ pub'[m].result = pub[m].result
        /\ pub[m].try \in Try
    BY <2>1 DEF Pub
  <2>3. BusTypeOK'
    <3>1. pub[m].try + 1 \in Try
      BY <1>1, <2>1 DEF Pub, Try
    <3>2. pub'[m] = Remade(m, "try", pub[m].try + 1, pub[m].group, pub[m].left, pub[m].sent, pub[m].nacks)
      BY <2>1 DEF Remade, Pub
    <3>3. pub'[m] \in Pub
      BY <2>1, <3>1, <3>2 DEF Remade, Pub
    <3> QED
      BY <2>0, <3>3 DEF BusInv, BusTypeOK
  <2>4. \A d : Known(d)' <=> Known(d)
    BY DEF Known
  <2>5. ASSUME NEW t \in Try, NEW to, Past(m, t, to) PROVE Past(m, t, to)'
    BY <2>2, <2>5 DEF Past, Try
  <2>6. OnlyPast(m)' /\ AnswersTrue(m)'
    <3>1. OnlyPast(m) /\ AnswersTrue(m) /\ reply[m] \subseteq Answer
      BY DEF BusInv, CallInv, BusTypeOK
    <3>2. OnlyPast(m)'
      BY <2>0, <2>4, <2>5, <3>1 DEF OnlyPast, Copy, Answer
    <3> QED
      BY <2>0, <2>4, <3>1, <3>2 DEF AnswersTrue
  <2>7. NacksCounted(m)' /\ Shape(m)' /\ OneLive(m)'
    BY <2>2 DEF BusInv, CallInv, NacksCounted, Shape, OneLive
  <2> QED
    BY <2>0, <2>3, <2>6, <2>7, CallAlone DEF CallInv
<1>2. CASE ~(pub[m].try < pub[m].attempts)
  BY <1>2, ReturnKeeps DEF AttemptFails
<1> QED
  BY <1>1, <1>2

\* A call begins with no attempt, no copy and no answer.
LEMMA PublishKeeps ==
  ASSUME BusInv, NEW m \in Calls, NEW n \in Try, Publish(m, n)
  PROVE  BusInv'
<1>1. pub'[m] = [pub[m] EXCEPT !.at = "try", !.attempts = n] /\ pub[m] \in Pub /\ pub[m].at = "idle"
  BY DEF Publish, BusInv, BusTypeOK
<1>2. pub'[m].at = "try" /\ pub'[m].try = pub[m].try /\ pub'[m].result = pub[m].result
  BY <1>1 DEF Pub
<1>3. BusTypeOK'
  <2>1. pub'[m] = [ at |-> "try", attempts |-> n, try |-> pub[m].try, group |-> pub[m].group,
                    left |-> pub[m].left, sent |-> pub[m].sent, asked |-> pub[m].asked,
                    nacks |-> pub[m].nacks, copies |-> pub[m].copies, result |-> pub[m].result ]
    BY <1>1 DEF Pub
  <2>2. pub'[m] \in Pub
    BY <1>1, <2>1 DEF Pub, Try
  <2> QED
    BY <2>2 DEF Publish, BusInv, BusTypeOK
<1>4. \A d : Known(d)' <=> Known(d)
  BY DEF Publish, Known
<1>5. Live(m)' = Live(m)
  BY <1>4 DEF Publish, Live
<1>6. CallInv(m)'
  <2>0. CallInv(m)
    BY DEF BusInv
  <2>1. OnlyPast(m)'
    BY <1>1, <1>2, <1>4, <2>0 DEF Publish, CallInv, OnlyPast, Past
  <2>2. AnswersTrue(m)'
    BY <1>4, <2>0 DEF Publish, CallInv, AnswersTrue
  <2>3. NacksCounted(m)' /\ Shape(m)' /\ OneLive(m)'
    BY <1>1, <1>2, <1>5, <2>0 DEF Publish, CallInv, NacksCounted, Shape, OneLive
  <2> QED
    BY <2>1, <2>2, <2>3 DEF CallInv
<1> QED
  BY <1>3, <1>6, CallAlone DEF Publish, BusInv, BusTypeOK

\* A new attempt asks the peers of its snapshot and has copies of its own.
LEMMA SnapshotKeeps ==
  ASSUME BusInv, NEW m \in Calls, Snapshot(m)
  PROVE  BusInv'
<1>1. CASE Subscribed = {}
  BY <1>1, ReturnKeeps DEF Snapshot, Result, BusInv, BusTypeOK
<1>2. CASE Subscribed # {}
  <2>0. pub' = [pub EXCEPT ![m] = [@ EXCEPT !.at = "send", !.group = Subscribed, !.left = Subscribed,
                                           !.sent = {}, !.nacks = 0]]
        /\ reply' = reply /\ pub[m].at = "try"
    BY <1>2 DEF Snapshot
  <2>1. pub'[m] = [pub[m] EXCEPT !.at = "send", !.group = Subscribed, !.left = Subscribed,
                                 !.sent = {}, !.nacks = 0] /\ pub[m] \in Pub
    BY <2>0 DEF BusInv, BusTypeOK
  <2>2. pub'[m].at = "send" /\ pub'[m].try = pub[m].try /\ pub'[m].result = pub[m].result
        /\ pub'[m].sent = {} /\ pub'[m].nacks = 0
    BY <2>1 DEF Pub
  <2>3. BusTypeOK'
    <3>1. Subscribed \subseteq Peers
      BY DEF Subscribed
    <3>2. pub'[m] = Remade(m, "send", pub[m].try, Subscribed, Subscribed, {}, 0)
      BY <2>1 DEF Remade, Pub
    <3>3. pub'[m] \in Pub
      BY <2>1, <3>1, <3>2 DEF Remade, Pub
    <3> QED
      BY <2>0, <3>3 DEF Snapshot, BusInv, BusTypeOK
  <2>4. \A d : Known(d)' <=> Known(d)
    BY DEF Snapshot, Known
  <2>5. CallInv(m)'
    <3>0. CallInv(m)
      BY DEF BusInv
    <3>1. OnlyPast(m)'
      BY <2>0, <2>2, <2>4, <3>0 DEF CallInv, OnlyPast, Past
    <3>2. AnswersTrue(m)'
      BY <2>0, <2>4, <3>0 DEF Snapshot, CallInv, AnswersTrue
    <3>3. NacksCounted(m)'
      BY <2>2, FS_EmptySet DEF NacksCounted, Counts
    <3>4. Shape(m)'
      BY <2>0, <2>2, <3>0 DEF CallInv, Shape
    <3>5. OneLive(m)'
      <4>1. Live(m)' = Live(m)
        BY <2>4 DEF Snapshot, Live
      <4> QED
        BY <2>0, <2>2, <3>0, <4>1 DEF Snapshot, CallInv, OneLive
    <3> QED
      BY <3>1, <3>2, <3>3, <3>4, <3>5 DEF CallInv
  <2> QED
    BY <2>0, <2>3, <2>5, CallAlone DEF Snapshot
<1> QED
  BY <1>1, <1>2

\* A peer that is skipped gets no copy.
LEMMA SkipKeeps ==
  ASSUME BusInv, NEW m \in Calls, NEW p \in Peers, Skip(m, p)
  PROVE  BusInv'
<1>1. pub'[m] = [pub[m] EXCEPT !.left = pub[m].left \ {p}] /\ pub[m] \in Pub
  BY DEF Skip, BusInv, BusTypeOK
<1>2. pub'[m] = Remade(m, pub[m].at, pub[m].try, pub[m].group, pub[m].left \ {p}, pub[m].sent, pub[m].nacks)
  BY <1>1 DEF Remade, Pub
<1>3. BusTypeOK'
  <2>1. pub'[m] \in Pub
    BY <1>1, <1>2 DEF Remade, Pub
  <2> QED
    BY <2>1 DEF Skip, BusInv, BusTypeOK
<1>4. \A d : Known(d)' <=> Known(d)
  BY DEF Skip, Known
<1>5. Live(m)' = Live(m)
  BY <1>4 DEF Skip, Live
<1>6. CallInv(m)'
  <2>0. CallInv(m) /\ pub[m].at = "send"
    BY DEF Skip, BusInv
  <2>1. OnlyPast(m)'
    BY <1>2, <1>4, <2>0 DEF Skip, Remade, CallInv, OnlyPast, Past
  <2>2. AnswersTrue(m)'
    BY <1>4, <2>0 DEF Skip, CallInv, AnswersTrue
  <2>3. NacksCounted(m)'
    BY <1>2, <1>4, <2>0 DEF Skip, Remade, CallInv, NacksCounted, Counts, CopyTo
  <2>4. Shape(m)' /\ OneLive(m)'
    BY <1>2, <1>5, <2>0 DEF Skip, Remade, CallInv, Shape, OneLive
  <2> QED
    BY <2>1, <2>2, <2>3, <2>4 DEF CallInv
<1> QED
  BY <1>3, <1>6, CallAlone DEF Skip, BusInv, BusTypeOK

\* An attempt whose peers were all tried fails or waits; its copies stay.
LEMMA TriedKeeps ==
  ASSUME BusInv, NEW m \in Calls, Tried(m)
  PROVE  BusInv'
<1>1. CASE mode = "broadcast" /\ pub[m].sent # {}
  <2>0. pub' = [pub EXCEPT ![m].at = "await"] /\ reply' = reply /\ pub[m].at = "send"
    BY <1>1 DEF Tried
  <2>1. pub'[m] = [pub[m] EXCEPT !.at = "await"] /\ pub[m] \in Pub
    BY <2>0 DEF BusInv, BusTypeOK
  <2>2. pub'[m] = Remade(m, "await", pub[m].try, pub[m].group, pub[m].left, pub[m].sent, pub[m].nacks)
    BY <2>1 DEF Remade, Pub
  <2>3. BusTypeOK'
    <3>1. pub'[m] \in Pub
      BY <2>1, <2>2 DEF Remade, Pub
    <3> QED
      BY <2>0, <3>1 DEF Tried, BusInv, BusTypeOK
  <2>4. \A d : Known(d)' <=> Known(d)
    BY DEF Tried, Known
  <2>5. CallInv(m)'
    <3>0. CallInv(m) /\ mode' # "compete"
      BY <1>1 DEF Tried, BusInv
    <3>1. OnlyPast(m)'
      BY <2>0, <2>2, <2>4, <3>0 DEF Remade, CallInv, OnlyPast, Past
    <3>2. AnswersTrue(m)'
      BY <2>0, <2>4, <3>0 DEF Tried, CallInv, AnswersTrue
    <3>3. NacksCounted(m)'
      BY <2>0, <2>2, <2>4, <3>0 DEF Remade, CallInv, NacksCounted, Counts, CopyTo
    <3>4. Shape(m)' /\ OneLive(m)'
      BY <2>0, <2>2, <3>0 DEF Remade, CallInv, Shape, OneLive
    <3> QED
      BY <3>1, <3>2, <3>3, <3>4 DEF CallInv
  <2> QED
    BY <2>0, <2>3, <2>5, CallAlone DEF Tried
<1>2. CASE ~(mode = "broadcast" /\ pub[m].sent # {})
  <2>1. PICK err \in {"nacked", "failed"} : AttemptFails(m, err)
    BY <1>2 DEF Tried
  <2>2. pub[m].at = "send" /\ (mode = "compete" => Live(m) = {})
    BY DEF Tried, BusInv, CallInv, OneLive
  <2>3. mode = "compete" => Live(m)' = {}
    BY <2>2 DEF Tried, Live, Known
  <2>4. err \in Result /\ pub[m].at \in {"send", "await"} /\ expired \subseteq expired' /\ expired' \subseteq Copy
        /\ UNCHANGED <<mode, peer, queue, hand, acked>>
    BY <2>2 DEF Tried, Result, BusInv, BusTypeOK
  <2> QED
    BY <2>1, <2>3, <2>4, AttemptFailsKeeps
<1> QED
  BY <1>1, <1>2

\* A cancelled call returns and drops its answers; its copies stay where they are.
LEMMA CancelKeeps ==
  ASSUME BusInv, NEW m \in Calls, Cancel(m)
  PROVE  BusInv'
BY ReturnKeeps DEF Cancel, Result, BusInv, BusTypeOK

\* In competing mode a copy whose timer ran out can only be acked late; a broadcast attempt fails.
LEMMA AckTimeoutKeeps ==
  ASSUME BusInv, NEW m \in Calls, AckTimeout(m)
  PROVE  BusInv'
<1>0. pub[m].at = "await" /\ CallInv(m) /\ pub[m] \in Pub /\ mode \in Mode
  BY DEF AckTimeout, BusInv, BusTypeOK
<1>1. CASE mode = "broadcast"
  <2>1. AttemptFails(m, "failed") /\ UNCHANGED <<mode, peer, queue, hand, acked, expired>>
    BY <1>1 DEF AckTimeout
  <2> QED
    BY <1>0, <1>1, <2>1, AttemptFailsKeeps DEF Result, BusInv, BusTypeOK
<1>2. CASE mode = "compete"
  <2>0. PICK p \in Peers : pub[m].asked = {p} /\ Live(m) \subseteq {CopyTo(m, p)}
    BY <1>0, <1>2 DEF CallInv, OneLive
  <2>1. /\ pub' = [pub EXCEPT ![m] = [@ EXCEPT !.at = "send", !.asked = {}]] /\ reply' = reply
        /\ UNCHANGED <<mode, peer, queue, hand, acked>>
        /\ expired' = expired \cup {CopyTo(m, p)}
    BY <1>2, <2>0 DEF AckTimeout
  <2>2. pub'[m] = [pub[m] EXCEPT !.at = "send", !.asked = {}]
    BY <2>1 DEF BusInv, BusTypeOK
  <2>3. pub'[m] = [ at |-> "send", attempts |-> pub[m].attempts, try |-> pub[m].try,
                    group |-> pub[m].group, left |-> pub[m].left, sent |-> pub[m].sent,
                    asked |-> {}, nacks |-> pub[m].nacks, copies |-> pub[m].copies,
                    result |-> pub[m].result ]
    BY <1>0, <2>2 DEF Pub
  <2>4. BusTypeOK'
    <3>1. pub'[m] \in Pub
      BY <1>0, <2>3 DEF Pub
    <3>2. CopyTo(m, p) \in Copy
      BY <1>0 DEF CopyTo, Copy, Pub
    <3> QED
      BY <2>1, <3>1, <3>2 DEF BusInv, BusTypeOK
  <2>5. \A d : Known(d)' <=> Known(d)
    BY <2>1 DEF Known
  <2>6. CallInv(m)'
    <3>1. OnlyPast(m)'
      BY <1>0, <2>1, <2>3, <2>5 DEF CallInv, OnlyPast, Past
    <3>2. AnswersTrue(m)'
      BY <1>0, <2>1, <2>5 DEF CallInv, AnswersTrue
    <3>3. NacksCounted(m)'
      BY <1>0, <2>1, <2>3, <2>5 DEF CallInv, NacksCounted, Counts, CopyTo
    <3>4. Live(m)' = {}
      BY <2>0, <2>1, <2>5 DEF Live
    <3>5. Shape(m)' /\ OneLive(m)'
      BY <1>0, <2>3, <3>4 DEF CallInv, Shape, OneLive
    <3> QED
      BY <3>1, <3>2, <3>3, <3>5 DEF CallInv
  <2> QED
    BY <2>1, <2>4, <2>6, CallAlone
<1> QED
  BY <1>0, <1>1, <1>2 DEF Mode

\* A nack that is read is one more, of a peer not counted before.
LEMMA NackCounts ==
  ASSUME BusInv, NEW m \in Calls, pub[m].at = "await", NEW a \in reply[m], a.try = pub[m].try, ~a.ok
  PROVE  /\ ~Known(CopyTo(m, a.to))
         /\ \E N \in SUBSET pub[m].sent :
              /\ Cardinality(N) = pub[m].nacks + 1
              /\ \A p \in N : ~Known(CopyTo(m, p))
              /\ \A b \in reply[m] \ {a} : b.try = pub[m].try => b.to \notin N
<1>0. CallInv(m) /\ pub[m] \in Pub /\ a \in Answer /\ reply[m] \subseteq Answer
  BY DEF BusInv, BusTypeOK
<1>1. PICK N \in SUBSET pub[m].sent : Counts(m, N)
  BY <1>0 DEF CallInv, NacksCounted
<1>2. a.to \in pub[m].sent
  BY <1>0 DEF CallInv, OnlyPast, Past, Pub, Try
<1>3. a.to \notin N
  BY <1>1 DEF Counts
<1>4. IsFiniteSet(N)
  <2>1. N \subseteq Peers
    BY <1>0 DEF Pub
  <2> QED
    BY <2>1, FS_Subset
<1>5. Cardinality(N \cup {a.to}) = pub[m].nacks + 1
  BY <1>1, <1>3, <1>4, FS_AddElement DEF Counts
<1>6. CopyTo(m, a.to) \in Copy /\ CopyTo(m, a.to).call = m /\ CopyTo(m, a.to).try = a.try
      /\ CopyTo(m, a.to).to = a.to
  BY <1>0 DEF CopyTo, Copy, Answer, Pub
<1>7. ~Known(CopyTo(m, a.to))
  BY <1>0, <1>6 DEF CallInv, AnswersTrue
<1>8. ASSUME NEW b \in reply[m], b.try = a.try, b.to = a.to PROVE b = a
  <2>1. ~b.ok
    BY <1>0, <1>6, <1>7, <1>8 DEF CallInv, AnswersTrue, Known
  <2>2. b \in Answer /\ b.ok = a.ok
    BY <1>0, <2>1 DEF Answer
  <2> QED
    BY <1>0, <1>8, <2>2 DEF Answer
<1>9. \A b \in reply[m] \ {a} : b.try = pub[m].try => b.to \notin N \cup {a.to}
  BY <1>1, <1>8 DEF Counts
<1>10. \A p \in N \cup {a.to} : ~Known(CopyTo(m, p))
  BY <1>1, <1>7 DEF Counts
<1>11. N \cup {a.to} \in SUBSET pub[m].sent
  BY <1>2
<1> QED
  BY <1>5, <1>7, <1>9, <1>10, <1>11

\* An answer that is read says what became of its copy.
LEMMA ReadKeeps ==
  ASSUME BusInv, NEW m \in Calls, NEW a \in reply[m], Read(m, a)
  PROVE  BusInv'
<1>0. /\ pub[m].at = "await" /\ CallInv(m) /\ pub[m] \in Pub /\ a \in Answer /\ mode \in Mode
      /\ a.try = pub[m].try /\ (mode = "compete" => a.to \in pub[m].asked)
      /\ UNCHANGED <<mode, peer, queue, hand, acked, expired>> /\ expired \subseteq Copy
  BY DEF Read, Visible, BusInv, BusTypeOK
<1>1. CASE a.ok /\ Return(m, "ok")
  BY <1>0, <1>1, ReturnKeeps DEF Result
<1>2. CASE mode = "broadcast" /\ AttemptFails(m, "nacked")
  BY <1>0, <1>2, AttemptFailsKeeps DEF Result
<1>3. CASE /\ ~a.ok
           /\ pub' = [pub EXCEPT ![m] =
                [@ EXCEPT !.nacks = pub[m].nacks + 1, !.asked = {},
                          !.at = IF mode = "compete" THEN "send" ELSE "await"]]
           /\ reply' = [reply EXCEPT ![m] = @ \ {a}]
  <2> DEFINE at == IF mode = "compete" THEN "send" ELSE "await"
  <2>1. pub'[m] = [pub[m] EXCEPT !.nacks = pub[m].nacks + 1, !.asked = {}, !.at = at]
    BY <1>0, <1>3 DEF BusInv, BusTypeOK
  <2>2. pub'[m] = [ at |-> at, attempts |-> pub[m].attempts, try |-> pub[m].try,
                    group |-> pub[m].group, left |-> pub[m].left, sent |-> pub[m].sent,
                    asked |-> {}, nacks |-> pub[m].nacks + 1, copies |-> pub[m].copies,
                    result |-> pub[m].result ]
    BY <1>0, <2>1 DEF Pub
  <2>3. reply'[m] = reply[m] \ {a}
    BY <1>3 DEF BusInv, BusTypeOK
  <2>4. BusTypeOK'
    <3>1. pub'[m] \in Pub
      BY <1>0, <2>2 DEF Pub
    <3> QED
      BY <1>0, <1>3, <3>1 DEF BusInv, BusTypeOK
  <2>5. \A d : Known(d)' <=> Known(d)
    BY <1>0 DEF Known
  <2>6. CallInv(m)'
    <3>1. OnlyPast(m)'
      BY <1>0, <2>2, <2>3, <2>5 DEF CallInv, OnlyPast, Past
    <3>2. AnswersTrue(m)'
      BY <1>0, <2>3, <2>5 DEF CallInv, AnswersTrue
    <3>3. NacksCounted(m)'
      <4>1. PICK N \in SUBSET pub[m].sent :
              /\ Cardinality(N) = pub[m].nacks + 1
              /\ \A p \in N : ~Known(CopyTo(m, p))
              /\ \A b \in reply[m] \ {a} : b.try = pub[m].try => b.to \notin N
        BY <1>0, <1>3, NackCounts
      <4>2. Counts(m, N)'
        BY <2>2, <2>3, <2>5, <4>1 DEF Counts, CopyTo
      <4> QED
        BY <2>2, <4>2 DEF NacksCounted
    <3>4. mode = "compete" => Live(m)' = {}
      BY <1>0, <1>3, <2>5, NackCounts DEF CallInv, OneLive, Live
    <3>5. Shape(m)' /\ OneLive(m)'
      BY <1>0, <2>2, <3>4 DEF CallInv, Shape, OneLive
    <3> QED
      BY <3>1, <3>2, <3>3, <3>5 DEF CallInv
  <2> QED
    BY <1>0, <1>3, <2>4, <2>6, CallAlone DEF BusInv, BusTypeOK
<1> QED
  BY <1>1, <1>2, <1>3 DEF Read

-----------------------------------------------------------------------------
(* Copies on their way *)

\* A copy goes to a peer that had none of this attempt.
LEMMA HandOver ==
  ASSUME BusInv, NEW m \in Calls, NEW p \in pub[m].left, pub[m].at = "send",
         UNCHANGED <<mode, reply, acked, expired>>,
         \A d \in Copy : Known(d)' <=> Known(d) \/ d = CopyTo(m, p),
         NEW at \in {"send", "await"},
         \A c \in Calls : c # m => pub'[c] = pub[c],
         pub'[m] = [ at |-> at, attempts |-> pub[m].attempts, try |-> pub[m].try,
                     group |-> pub[m].group, left |-> pub[m].left \ {p}, sent |-> pub[m].sent \cup {p},
                     asked |-> IF at = "await" THEN {p} ELSE pub[m].asked, nacks |-> pub[m].nacks,
                     copies |-> [pub[m].copies EXCEPT ![p] = pub[m].copies[p] + 1],
                     result |-> pub[m].result ],
         at = "await" <=> mode = "compete"
  PROVE  pub'[m] \in Pub /\ \A c \in Calls : CallInv(c)'
<1>0. CallInv(m) /\ pub[m] \in Pub /\ pub \in [Calls -> Pub] /\ p \in Peers
  BY DEF BusInv, BusTypeOK, Pub
<1>2. pub'[m] \in Pub
  <2>1. [pub[m].copies EXCEPT ![p] = pub[m].copies[p] + 1] \in [Peers -> Nat]
    BY <1>0 DEF Pub
  <2> QED
    BY <1>0, <2>1 DEF Pub
<1>3. CopyTo(m, p) \in Copy /\ CopyTo(m, p).call = m /\ CopyTo(m, p).try = pub[m].try /\ CopyTo(m, p).to = p
  BY <1>0 DEF CopyTo, Copy, Pub
<1>4. p \notin pub[m].sent
  BY <1>0 DEF CallInv, Shape
<1>5. ASSUME NEW c \in Calls, c # m PROVE CallInv(c)'
  <2>0. CallInv(c) /\ pub[c] \in Pub /\ pub'[c] = pub[c] /\ reply'[c] = reply[c]
    BY <1>0, <1>5 DEF BusInv
  <2>1. \A d \in Copy : d.call = c => (Known(d)' <=> Known(d))
    BY <1>3, <1>5
  <2>2. Live(c)' = Live(c)
    BY <2>1 DEF Live
  <2>3. OnlyPast(c)' /\ AnswersTrue(c)' /\ Shape(c)'
    BY <2>0, <2>1 DEF CallInv, OnlyPast, Past, AnswersTrue, Shape
  <2>4. NacksCounted(c)'
    <3>1. \A q \in pub[c].sent : CopyTo(c, q) \in Copy /\ CopyTo(c, q).call = c
      BY <2>0 DEF CopyTo, Copy, Pub
    <3> QED
      BY <2>0, <2>1, <3>1 DEF CallInv, NacksCounted, Counts, CopyTo
  <2>5. OneLive(c)'
    BY <2>0, <2>2 DEF CallInv, OneLive, CopyTo
  <2> QED
    BY <2>3, <2>4, <2>5 DEF CallInv
<1>6. CallInv(m)'
  <2>1. OnlyPast(m)'
    BY <1>0, <1>3 DEF CallInv, OnlyPast, Past
  <2>2. AnswersTrue(m)'
    <3>1. ASSUME NEW a \in reply[m], a.try = pub[m].try, a.to = p PROVE FALSE
      BY <1>0, <1>4, <3>1 DEF CallInv, OnlyPast, Past, Pub, Try
    <3> QED
      BY <1>0, <1>3, <3>1 DEF CallInv, AnswersTrue
  <2>3. NacksCounted(m)'
    <3>1. PICK N \in SUBSET pub[m].sent : Counts(m, N)
      BY <1>0 DEF CallInv, NacksCounted
    <3>2. \A q \in N : CopyTo(m, q) \in Copy /\ CopyTo(m, q).to = q /\ q # p
      BY <1>0, <1>4 DEF CopyTo, Copy, Pub
    <3>3. \A q : CopyTo(m, q)' = CopyTo(m, q)
      BY DEF CopyTo
    <3>4. Counts(m, N)'
      BY <1>3, <3>1, <3>2, <3>3 DEF Counts
    <3> QED
      BY <3>1, <3>4 DEF NacksCounted
  <2>4. Shape(m)'
    BY <1>0 DEF CallInv, Shape
  <2>5. OneLive(m)'
    <3>1. CASE mode = "compete"
      <4>1. Live(m) = {} /\ pub'[m].at = "await" /\ pub'[m].asked = {p}
        BY <1>0, <3>1 DEF CallInv, OneLive
      <4>2. Live(m)' \subseteq {CopyTo(m, p)} /\ CopyTo(m, p)' = CopyTo(m, p)
        BY <4>1 DEF Live, CopyTo
      <4> QED
        BY <1>0, <4>1, <4>2 DEF OneLive
    <3> QED
      BY <3>1 DEF OneLive
  <2> QED
    BY <2>1, <2>2, <2>3, <2>4, <2>5 DEF CallInv
<1> QED
  BY <1>2, <1>5, <1>6

\* What has not been handed to a peer in this attempt is nowhere.
LEMMA NotYetKnown ==
  ASSUME BusInv, NEW m \in Calls, NEW p \in pub[m].left, pub[m].at = "send"
  PROVE  CopyTo(m, p) \in Copy /\ ~Known(CopyTo(m, p))
<1>0. CallInv(m) /\ pub[m] \in Pub /\ p \in Peers
  BY DEF BusInv, BusTypeOK, Pub
<1>1. CopyTo(m, p) \in Copy /\ CopyTo(m, p).call = m /\ CopyTo(m, p).try = pub[m].try /\ CopyTo(m, p).to = p
  BY <1>0 DEF CopyTo, Copy, Pub
<1>2. p \notin pub[m].sent
  BY <1>0 DEF CallInv, Shape
<1> QED
  BY <1>0, <1>1, <1>2 DEF CallInv, OnlyPast, Past, Pub, Try

\* In competing mode a copy is handed over only when no other one may be acked in time.
LEMMA OfferKeeps ==
  ASSUME BusInv, NEW m \in Calls, NEW p \in Peers, Offer(m, p)
  PROVE  BusInv'
<1>0. /\ pub[m].at = "send" /\ mode = "compete" /\ p \in pub[m].left /\ pub[m] \in Pub
      /\ UNCHANGED <<mode, peer, queue, reply, acked, expired>>
      /\ hand' = [hand EXCEPT ![p] = @ \cup {CopyTo(m, p)}]
  BY DEF Offer, BusInv, BusTypeOK
<1>1. /\ \A c \in Calls : c # m => pub'[c] = pub[c]
      /\ pub' \in [Calls -> {pub'[c] : c \in Calls}]
      /\ pub'[m] = [ at |-> "await", attempts |-> pub[m].attempts, try |-> pub[m].try,
                     group |-> pub[m].group, left |-> pub[m].left \ {p}, sent |-> pub[m].sent \cup {p},
                     asked |-> {p}, nacks |-> pub[m].nacks,
                     copies |-> [pub[m].copies EXCEPT ![p] = pub[m].copies[p] + 1],
                     result |-> pub[m].result ]
  <2>1. pub'[m] = [pub[m] EXCEPT !.left = pub[m].left \ {p}, !.sent = pub[m].sent \cup {p},
                                 !.copies = [pub[m].copies EXCEPT ![p] = pub[m].copies[p] + 1], !.asked = {p}, !.at = "await"]
    BY DEF Offer, BusInv, BusTypeOK
  <2>2. pub[m].copies \in [Peers -> Nat]
    BY <1>0 DEF Pub
  <2>3. \A c \in Calls : c # m => pub'[c] = pub[c]
    BY DEF Offer, BusInv, BusTypeOK
  <2>4. pub' \in [Calls -> {pub'[c] : c \in Calls}]
    BY DEF Offer, BusInv, BusTypeOK
  <2> QED
    BY <1>0, <2>1, <2>2, <2>3, <2>4 DEF Pub
<1>2. CopyTo(m, p) \in Copy /\ CopyTo(m, p).to = p /\ ~Known(CopyTo(m, p))
  BY <1>0, NotYetKnown DEF CopyTo
<1>3. hand' \in [Peers -> SUBSET Copy] /\ \A q \in Peers : hand'[q] = IF q = p THEN hand[p] \cup {CopyTo(m, p)} ELSE hand[q]
  BY <1>0, <1>2 DEF BusInv, BusTypeOK
<1>4. \A d \in Copy : Known(d)' <=> Known(d) \/ d = CopyTo(m, p)
  BY <1>0, <1>2, <1>3 DEF Known, Copy
<1>5. pub'[m] \in Pub /\ \A c \in Calls : CallInv(c)'
  BY <1>0, <1>1, <1>4, HandOver
<1>6. BusTypeOK'
  <2>1. pub' \in [Calls -> Pub]
    BY <1>1, <1>5 DEF BusInv, BusTypeOK
  <2> QED
    BY <1>0, <1>3, <2>1 DEF BusInv, BusTypeOK
<1>7. Places'
  BY <1>0, <1>2, <1>3 DEF BusInv, Places, Known
<1> QED
  BY <1>5, <1>6, <1>7 DEF BusInv

\* A broadcast puts a copy into a buffer with room, and none into a full one.
LEMMA BroadcastKeeps ==
  ASSUME BusInv, NEW m \in Calls, NEW p \in Peers, Broadcast(m, p)
  PROVE  BusInv'
<1>0. /\ pub[m].at = "send" /\ mode = "broadcast" /\ p \in pub[m].left /\ pub[m] \in Pub
      /\ UNCHANGED <<mode, peer, hand, reply, acked, expired>>
      /\ queue' = [queue EXCEPT ![p] = Append(@, CopyTo(m, p))] /\ Len(queue[p]) < Buffer
      /\ queue \in [Peers -> Seq(Copy)]
  BY DEF Broadcast, BusInv, BusTypeOK
<1>1. /\ \A c \in Calls : c # m => pub'[c] = pub[c]
      /\ pub' \in [Calls -> {pub'[c] : c \in Calls}]
      /\ pub'[m] = [ at |-> "send", attempts |-> pub[m].attempts, try |-> pub[m].try,
                     group |-> pub[m].group, left |-> pub[m].left \ {p}, sent |-> pub[m].sent \cup {p},
                     asked |-> pub[m].asked, nacks |-> pub[m].nacks,
                     copies |-> [pub[m].copies EXCEPT ![p] = pub[m].copies[p] + 1],
                     result |-> pub[m].result ]
  <2>1. pub'[m] = [pub[m] EXCEPT !.left = pub[m].left \ {p}, !.sent = pub[m].sent \cup {p},
                                 !.copies = [pub[m].copies EXCEPT ![p] = pub[m].copies[p] + 1]]
    BY DEF Broadcast, BusInv, BusTypeOK
  <2>2. pub[m].copies \in [Peers -> Nat]
    BY <1>0 DEF Pub
  <2>3. \A c \in Calls : c # m => pub'[c] = pub[c]
    BY DEF Broadcast, BusInv, BusTypeOK
  <2>4. pub' \in [Calls -> {pub'[c] : c \in Calls}]
    BY DEF Broadcast, BusInv, BusTypeOK
  <2> QED
    BY <1>0, <2>1, <2>2, <2>3, <2>4 DEF Pub
<1>2. CopyTo(m, p) \in Copy /\ CopyTo(m, p).to = p /\ ~Known(CopyTo(m, p))
  BY <1>0, NotYetKnown DEF CopyTo
<1>3. \A q \in Peers : queue'[q] = IF q = p THEN Append(queue[p], CopyTo(m, p)) ELSE queue[q]
  BY <1>0
<1>4. /\ queue[p] \in Seq(Copy) /\ queue'[p] \in Seq(Copy) /\ Len(queue'[p]) = Len(queue[p]) + 1
      /\ \A i \in 1 .. Len(queue[p]) : queue'[p][i] = queue[p][i]
      /\ queue'[p][Len(queue[p]) + 1] = CopyTo(m, p)
  BY <1>0, <1>2, <1>3
<1>5. \A d \in Copy : Known(d)' <=> Known(d) \/ d = CopyTo(m, p)
  <2>1. ASSUME NEW d \in Copy, d.to = p
        PROVE  (\E i \in 1 .. Len(queue'[p]) : queue'[p][i] = d)
               <=> (\E i \in 1 .. Len(queue[p]) : queue[p][i] = d) \/ d = CopyTo(m, p)
    BY <1>4
  <2>2. ASSUME NEW d \in Copy, d.to # p PROVE Known(d)' <=> Known(d)
    BY <1>0, <1>3, <2>2 DEF Known, Copy
  <2> QED
    BY <1>0, <1>2, <2>1, <2>2 DEF Known
<1>6. pub'[m] \in Pub /\ \A c \in Calls : CallInv(c)'
  BY <1>0, <1>1, <1>5, HandOver
<1>7. BusTypeOK'
  <2>1. pub' \in [Calls -> Pub]
    BY <1>1, <1>6 DEF BusInv, BusTypeOK
  <2>2. queue' \in [Peers -> Seq(Copy)] /\ \A q \in Peers : Len(queue'[q]) <= Buffer
    BY <1>0, <1>3, <1>4 DEF BusInv, BusTypeOK
  <2> QED
    BY <1>0, <2>1, <2>2 DEF BusInv, BusTypeOK
<1>8. Places'
  <2>1. \A i \in 1 .. Len(queue[p]) : queue[p][i] # CopyTo(m, p)
    BY <1>2 DEF Known
  <2>0. \A i \in 1 .. Len(queue'[p]) :
          \/ i = Len(queue[p]) + 1 /\ queue'[p][i] = CopyTo(m, p)
          \/ i \in 1 .. Len(queue[p]) /\ queue'[p][i] = queue[p][i]
    BY <1>4
  <2>2. \A i, j \in 1 .. Len(queue'[p]) : queue'[p][i] = queue'[p][j] => i = j
    BY <2>0, <2>1 DEF BusInv, Places
  <2>3. \A i \in 1 .. Len(queue'[p]) :
          queue'[p][i].to = p /\ queue'[p][i] \notin hand[p] /\ queue'[p][i] \notin acked
    BY <1>2, <2>0 DEF BusInv, Places, Known
  <2>4. ASSUME NEW q \in Peers, q # p PROVE queue'[q] = queue[q]
    BY <1>3, <2>4
  <2> QED
    BY <1>0, <2>2, <2>3, <2>4 DEF BusInv, Places
<1> QED
  BY <1>6, <1>7, <1>8 DEF BusInv

\* A copy moves from the buffer to the hand.
LEMMA TakeKeeps ==
  ASSUME BusInv, NEW p \in Peers, Take(p)
  PROVE  BusInv'
<1>0. /\ UNCHANGED <<mode, peer, reply, pub, acked, expired>> /\ queue[p] # <<>>
      /\ hand' = [hand EXCEPT ![p] = @ \cup {Head(queue[p])}]
      /\ queue' = [queue EXCEPT ![p] = Tail(@)]
      /\ queue \in [Peers -> Seq(Copy)] /\ hand \in [Peers -> SUBSET Copy]
  BY DEF Take, BusInv, BusTypeOK
<1>1. /\ queue[p] \in Seq(Copy) /\ Len(queue[p]) \in Nat \ {0} /\ Head(queue[p]) = queue[p][1]
      /\ queue'[p] = Tail(queue[p]) /\ queue'[p] \in Seq(Copy) /\ Len(queue'[p]) = Len(queue[p]) - 1
      /\ \A i \in 1 .. Len(queue'[p]) : queue'[p][i] = queue[p][i + 1]
  BY <1>0
<1>2. queue[p][1] \in Copy /\ queue[p][1].to = p
  BY <1>1 DEF BusInv, Places
<1>3. \A q \in Peers : q # p => queue'[q] = queue[q] /\ hand'[q] = hand[q]
  BY <1>0
<1>4. hand'[p] = hand[p] \cup {queue[p][1]}
  BY <1>0, <1>1
<1>5. \A d \in Copy : Known(d)' => Known(d)
  <2>1. ASSUME NEW d \in Copy, d.to = p, Known(d)' PROVE Known(d)
    <3>1. CASE \E i \in 1 .. Len(queue'[p]) : queue'[p][i] = d
      <4>1. PICK i \in 1 .. Len(queue'[p]) : queue[p][i + 1] = d
        BY <1>1, <3>1
      <4>2. i + 1 \in 1 .. Len(queue[p])
        BY <1>1
      <4> QED
        BY <2>1, <4>1, <4>2 DEF Known
    <3>2. CASE d \in hand'[p] \/ d \in acked'
      <4>1. 1 \in 1 .. Len(queue[p])
        BY <1>1
      <4> QED
        BY <1>0, <1>4, <2>1, <3>2, <4>1 DEF Known
    <3> QED
      BY <2>1, <3>1, <3>2 DEF Known
  <2>2. ASSUME NEW d \in Copy, d.to # p PROVE Known(d)' <=> Known(d)
    BY <1>0, <1>3, <2>2 DEF Known, Copy
  <2> QED
    BY <2>1, <2>2
<1>6. BusTypeOK'
  BY <1>0, <1>1, <1>2, <1>3, <1>4 DEF BusInv, BusTypeOK
<1>7. Places'
  <2>1. \A i \in 1 .. Len(queue'[p]) : i + 1 \in 1 .. Len(queue[p]) /\ i + 1 # 1
    BY <1>1
  <2>2. 1 \in 1 .. Len(queue[p])
    BY <1>1
  <2>3. \A i \in 1 .. Len(queue'[p]) : queue'[p][i] # queue[p][1]
    BY <1>1, <2>1, <2>2 DEF BusInv, Places
  <2>4. \A i \in 1 .. Len(queue'[p]) :
          queue'[p][i].to = p /\ queue'[p][i] \notin hand'[p] /\ queue'[p][i] \notin acked
    BY <1>1, <1>4, <2>1, <2>3 DEF BusInv, Places
  <2>5. \A i, j \in 1 .. Len(queue'[p]) : queue'[p][i] = queue'[p][j] => i = j
    <3>1. ASSUME NEW i \in 1 .. Len(queue'[p]), NEW j \in 1 .. Len(queue'[p]), queue'[p][i] = queue'[p][j]
          PROVE  i = j
      <4>1. i + 1 = j + 1
        BY <1>1, <2>1, <3>1 DEF BusInv, Places
      <4> QED
        BY <4>1
    <3> QED
      BY <3>1
  <2>6. \A d \in hand'[p] : d.to = p /\ d \notin acked
    BY <1>2, <1>4, <2>2 DEF BusInv, Places
  <2>7. mode # "compete"
    BY <1>0 DEF BusInv, Places
  <2> QED
    BY <1>0, <1>3, <2>4, <2>5, <2>6, <2>7 DEF BusInv, Places
<1> QED
  BY <1>0, <1>5, <1>6, <1>7, CallKept DEF BusInv

\* A copy that is answered leaves the hand, acked or nacked.
LEMMA ReplyKeeps ==
  ASSUME BusInv, NEW p \in Peers, NEW d \in hand[p], NEW ok \in BOOLEAN, Reply(p, d, ok)
  PROVE  BusInv'
<1> DEFINE m == d.call
           answer == [ try |-> d.try, to |-> d.to, ok |-> ok ]
<1>0. /\ UNCHANGED <<mode, peer, queue, pub, expired>>
      /\ d \in Copy /\ d.to = p /\ d \notin acked /\ m \in Calls /\ Known(d)
      /\ hand \in [Peers -> SUBSET Copy] /\ acked \subseteq Copy /\ reply \in [Calls -> SUBSET Answer]
  BY DEF Reply, BusInv, BusTypeOK, Places, Copy, Known
<1>1. /\ acked' = IF ok THEN acked \cup {d} ELSE acked
      /\ \A q \in Peers : hand'[q] = IF q = p THEN hand[p] \ {d} ELSE hand[q]
      /\ hand' \in [Peers -> SUBSET Copy]
  BY <1>0 DEF Reply
<1>2. answer \in Answer
  BY <1>0 DEF Answer, Copy
<1>3. /\ reply'[m] = IF pub[m].at = "done" THEN reply[m] ELSE reply[m] \cup {answer}
      /\ \A c \in Calls : c # m => reply'[c] = reply[c]
      /\ reply' \in [Calls -> SUBSET Answer]
  BY <1>0, <1>2 DEF Reply
<1>4. \A i \in 1 .. Len(queue[p]) : queue[p][i] # d
  BY DEF BusInv, Places
<1>5. \A e \in Copy : e # d => (Known(e)' <=> Known(e))
  BY <1>0, <1>1 DEF Known, Copy
<1>6. Known(d)' <=> ok
  BY <1>0, <1>1, <1>4 DEF Known
<1>7. BusTypeOK'
  BY <1>0, <1>1, <1>3 DEF BusInv, BusTypeOK
<1>8. Places'
  <2>1. ASSUME NEW q \in Peers, q # p
        PROVE  /\ \A e \in hand[q] : e # d
               /\ \A i \in 1 .. Len(queue[q]) : queue[q][i] # d
    BY <1>0, <2>1 DEF BusInv, Places
  <2> QED
    BY <1>0, <1>1, <1>4, <2>1 DEF BusInv, Places
<1>9. ASSUME NEW c \in Calls, c # m PROVE CallInv(c)'
  BY <1>0, <1>1, <1>3, <1>5, <1>9, CallKept
<1>10. CallInv(m)'
  <2>0. CallInv(m) /\ pub[m] \in Pub
    BY <1>0 DEF BusInv, BusTypeOK
  <2>1. \A e \in Copy : Known(e)' => Known(e)
    BY <1>0, <1>5
  <2>2. OnlyPast(m)'
    <3>1. Past(m, d.try, d.to)
      BY <1>0, <2>0 DEF CallInv, OnlyPast
    <3> QED
      BY <1>0, <1>3, <2>0, <2>1, <3>1 DEF CallInv, OnlyPast, Past
  <2>3. AnswersTrue(m)'
    <3>1. ASSUME NEW a \in reply'[m], NEW e \in Copy, e.call = m, e.try = a.try, e.to = a.to
          PROVE  IF a.ok THEN e \in acked' ELSE ~Known(e)'
      <4>1. CASE a \in reply[m]
        BY <1>1, <2>0, <2>1, <3>1, <4>1 DEF CallInv, AnswersTrue
      <4>2. CASE a = answer
        <5>1. e = d
          BY <1>0, <3>1, <4>2 DEF Copy
        <5> QED
          BY <1>1, <1>6, <4>2, <5>1
      <4> QED
        BY <1>3, <4>1, <4>2
    <3> QED
      BY <3>1 DEF AnswersTrue
  <2>4. NacksCounted(m)'
    <3>1. SUFFICES ASSUME pub[m].at \in {"send", "await"}
                   PROVE  \E N \in SUBSET pub[m].sent : Counts(m, N)'
      BY <1>0 DEF NacksCounted
    <3>2. PICK N \in SUBSET pub[m].sent : Counts(m, N)
      BY <2>0, <3>1 DEF CallInv, NacksCounted
    <3>3. \A q \in N : CopyTo(m, q) \in Copy /\ CopyTo(m, q)' = CopyTo(m, q)
      BY <1>0, <2>0 DEF CopyTo, Copy, Pub
    <3>4. answer.try = pub[m].try => answer.to \notin N
      <4>1. d.try = pub[m].try => d = CopyTo(m, d.to)
        BY <1>0 DEF CopyTo, Copy
      <4> QED
        BY <1>0, <3>2, <4>1 DEF Counts
    <3>5. Counts(m, N)'
      BY <1>0, <1>3, <2>1, <3>2, <3>3, <3>4 DEF Counts
    <3> QED
      BY <3>5
  <2>5. Shape(m)'
    BY <1>0, <2>0 DEF CallInv, Shape
  <2>6. OneLive(m)'
    <3>1. Live(m)' \subseteq Live(m)
      BY <1>0, <2>1 DEF Live
    <3> QED
      BY <1>0, <2>0, <3>1 DEF CallInv, OneLive, CopyTo
  <2> QED
    BY <2>2, <2>3, <2>4, <2>5, <2>6 DEF CallInv
<1> QED
  BY <1>0, <1>7, <1>8, <1>9, <1>10 DEF BusInv

\* A peer comes or goes; its copies stay where they are.
LEMMA SubscriptionKeeps ==
  ASSUME BusInv, NEW p \in Peers, Subscribe(p) \/ Unsubscribe(p)
  PROVE  BusInv'
<1>0. UNCHANGED <<mode, queue, hand, reply, pub, acked, expired>>
      /\ peer' \in [Peers -> {"new", "in", "out"}]
  BY DEF Subscribe, Unsubscribe, BusInv, BusTypeOK
<1>1. BusTypeOK' /\ Places'
  BY <1>0 DEF BusInv, BusTypeOK, Places
<1>2. \A d : Known(d)' <=> Known(d)
  BY <1>0 DEF Known
<1> QED
  BY <1>0, <1>1, <1>2, CallKept DEF BusInv

\* All steps of the bus together.
LEMMA BusStepInv == BusInv /\ [Next]_vars => BusInv'
<1> SUFFICES ASSUME BusInv, [Next]_vars PROVE BusInv'
  OBVIOUS
<1>1. ASSUME NEW m \in Calls, \E n \in Try : Publish(m, n) PROVE BusInv'
  BY <1>1, PublishKeeps
<1>2. ASSUME NEW m \in Calls, CallNext(m) PROVE BusInv'
  BY <1>2, SnapshotKeeps, TriedKeeps, AckTimeoutKeeps, BroadcastKeeps, OfferKeeps, SkipKeeps,
     ReadKeeps DEF CallNext
<1>3. ASSUME NEW m \in Calls, Cancel(m) PROVE BusInv'
  BY <1>3, CancelKeeps
<1>4. ASSUME NEW p \in Peers, PeerNext(p) PROVE BusInv'
  BY <1>4, SubscriptionKeeps, TakeKeeps, ReplyKeeps DEF PeerNext
<1>5. CASE UNCHANGED vars
  <2>1. BusTypeOK' /\ Places'
    BY <1>5 DEF vars, BusInv, BusTypeOK, Places
  <2>2. \A d : Known(d)' <=> Known(d)
    BY <1>5 DEF vars, Known
  <2> QED
    BY <1>5, <2>1, <2>2, CallKept DEF vars, BusInv
<1> QED
  BY <1>1, <1>2, <1>3, <1>4, <1>5 DEF Next

-----------------------------------------------------------------------------
\* The bus is well typed: no attempt beyond the last, no channel over its
\* capacity (bus.go:253-300, 417-470).
THEOREM BusTypeCorrect == Spec => []BusTypeOK
<1>1. BusInv => BusTypeOK
  BY DEF BusInv
<1> QED
  BY <1>1, BusInitInv, BusStepInv, PTL DEF Spec

\* Two peers ack the same competing message only if one of them was late
\* (bus.go:360-364, 409-413).
THEOREM OneHandler == Spec => []ExactlyOneUnlessLate
<1>1. BusInv => ExactlyOneUnlessLate
  <2> SUFFICES ASSUME BusInv, mode = "compete", NEW d \in acked, NEW e \in acked, d.call = e.call,
                      d \notin expired, e \notin expired
               PROVE  d = e
    BY DEF ExactlyOneUnlessLate
  <2>1. d.call \in Calls /\ d \in Live(d.call) /\ e \in Live(d.call)
    BY DEF BusInv, BusTypeOK, Live, Known, Copy
  <2> QED
    BY <2>1, AtMostOne
<1> QED
  BY <1>1, BusInitInv, BusStepInv, PTL DEF Spec

\* A return other than "all nacked", or none, is no claim about nacks.
LEMMA OtherResult ==
  ASSUME BusInv, NEW m \in Calls, pub[m].at # "done"
  PROVE  /\ \A r \in Result \ {"nacked"} : Return(m, r) => pub'[m].result # "nacked"
         /\ AttemptFails(m, "failed") => pub'[m].result # "nacked"
         /\ pub[m].try < pub[m].attempts => \A err : AttemptFails(m, err) => pub'[m].result # "nacked"
<1>0. pub[m] \in Pub /\ pub \in [Calls -> Pub] /\ pub[m].result = "none"
  BY DEF BusInv, BusTypeOK, CallInv, Shape
<1>1. ASSUME NEW r \in Result \ {"nacked"}, Return(m, r) PROVE pub'[m].result # "nacked"
  <2>1. pub'[m] = [NoPub EXCEPT !.at = "done", !.attempts = pub[m].attempts, !.result = r]
    BY <1>0, <1>1 DEF Return
  <2> QED
    BY <2>1 DEF NoPub
<1>2. ASSUME NEW err, pub[m].try < pub[m].attempts, AttemptFails(m, err) PROVE pub'[m].result # "nacked"
  <2>1. pub'[m] = [pub[m] EXCEPT !.at = "try", !.try = pub[m].try + 1]
    BY <1>0, <1>2 DEF AttemptFails
  <2> QED
    BY <1>0, <2>1 DEF Pub
<1> QED
  BY <1>1, <1>2 DEF AttemptFails, Result

\* A call that reports "all nacked" had no ack in its last attempt
\* (bus.go:111-112, 296-300).
LEMMA HonestStep ==
  ASSUME BusInv, [Next]_vars, NEW m \in Calls, pub[m].at # "done", pub'[m].result = "nacked",
         NEW d \in acked, d.call = m, d.try = pub[m].try
  PROVE  FALSE
<1>0. /\ pub[m] \in Pub /\ pub \in [Calls -> Pub] /\ CallInv(m) /\ pub[m].result = "none"
      /\ d \in Copy /\ Known(d)
  BY DEF BusInv, BusTypeOK, CallInv, Shape, Known
\* All of a set of distinct peers that is as large as the group has nacked.
<1>1. ASSUME pub[m].at \in {"send", "await"}, NEW N \in SUBSET pub[m].sent,
             Cardinality(N) = Cardinality(pub[m].group) \/ Cardinality(N) = Cardinality(pub[m].sent),
             \A p \in N : ~Known(CopyTo(m, p))
      PROVE  FALSE
  <2>1. pub[m].sent \subseteq pub[m].group /\ pub[m].group \subseteq Peers
    BY <1>0, <1>1 DEF CallInv, Shape, Pub
  <2>2. IsFiniteSet(pub[m].group) /\ IsFiniteSet(pub[m].sent)
    BY <2>1, FS_Subset
  <2>3. N = pub[m].group \/ N = pub[m].sent
    BY <1>1, <2>1, <2>2, FS_Subset
  <2>4. d.to \in pub[m].sent
    BY <1>0, <1>1 DEF CallInv, OnlyPast, Past, Pub, Try
  <2>5. d = CopyTo(m, d.to)
    BY <1>0 DEF CopyTo, Copy
  <2> QED
    BY <1>0, <1>1, <2>1, <2>3, <2>4, <2>5
<1>2. CASE Tried(m)
  <2>1. CASE mode = "broadcast" /\ pub[m].sent # {}
    <3>1. pub'[m] = [pub[m] EXCEPT !.at = "await"]
      BY <1>0, <1>2, <2>1 DEF Tried
    <3> QED
      BY <1>0, <3>1 DEF Pub
  <2>2. CASE ~(mode = "broadcast" /\ pub[m].sent # {})
    <3>1. pub[m].at = "send" /\ (AttemptFails(m, "failed") \/ pub[m].nacks = Cardinality(pub[m].group))
      BY <1>2, <2>2 DEF Tried
    <3>2. ~AttemptFails(m, "failed")
      BY OtherResult
    <3> QED
      BY <1>0, <1>1, <3>1, <3>2 DEF CallInv, NacksCounted, Counts
  <2> QED
    BY <2>1, <2>2
<1>3. ASSUME NEW a \in reply[m], Read(m, a) PROVE FALSE
  <2>1. pub[m].at = "await" /\ a.try = pub[m].try
    BY <1>3 DEF Read, Visible
  <2>2. ~Return(m, "ok")
    BY OtherResult DEF Result
  <2>3. CASE ~a.ok /\ pub[m].nacks + 1 = Cardinality(pub[m].sent)
    BY <1>1, <2>1, <2>3, NackCounts
  <2>4. CASE pub' = [pub EXCEPT ![m] =
               [@ EXCEPT !.nacks = pub[m].nacks + 1, !.asked = {},
                         !.at = IF mode = "compete" THEN "send" ELSE "await"]]
    <3>1. pub'[m] = [pub[m] EXCEPT !.nacks = pub[m].nacks + 1, !.asked = {},
                                   !.at = IF mode = "compete" THEN "send" ELSE "await"]
      BY <1>0, <2>4
    <3> QED
      BY <1>0, <3>1 DEF Pub
  <2> QED
    BY <1>3, <2>2, <2>3, <2>4 DEF Read
<1>4. CASE pub'[m] = pub[m]
  BY <1>0, <1>4
<1>5. CASE Snapshot(m) \/ AckTimeout(m) \/ Cancel(m)
  <2>1. ~Return(m, "failed") /\ ~AttemptFails(m, "failed")
    BY OtherResult DEF Result
  <2>2. CASE Snapshot(m)
    <3>1. pub'[m] = [pub[m] EXCEPT !.at = "send", !.group = Subscribed, !.left = Subscribed,
                                   !.sent = {}, !.nacks = 0]
      BY <1>0, <2>1, <2>2 DEF Snapshot
    <3> QED
      BY <1>0, <3>1 DEF Pub
  <2>3. CASE AckTimeout(m)
    <3>1. pub'[m] = [pub[m] EXCEPT !.at = "send", !.asked = {}]
      BY <1>0, <2>1, <2>3 DEF AckTimeout
    <3> QED
      BY <1>0, <3>1 DEF Pub
  <2> QED
    BY <1>5, <2>1, <2>2, <2>3 DEF Cancel
<1>6. CASE \E n \in Try : Publish(m, n)
  BY <1>0, <1>6 DEF Publish, Pub
<1>7. ASSUME NEW p \in Peers, Broadcast(m, p) \/ Offer(m, p) \/ Skip(m, p) PROVE FALSE
  <2>1. CASE Broadcast(m, p)
    <3>1. pub'[m] = [pub[m] EXCEPT !.left = pub[m].left \ {p}, !.sent = pub[m].sent \cup {p},
                                   !.copies = [pub[m].copies EXCEPT ![p] = pub[m].copies[p] + 1]]
      BY <1>0, <2>1 DEF Broadcast
    <3> QED
      BY <1>0, <3>1 DEF Pub
  <2>2. CASE Offer(m, p)
    <3>1. pub'[m] = [pub[m] EXCEPT !.left = pub[m].left \ {p}, !.sent = pub[m].sent \cup {p},
                                   !.copies = [pub[m].copies EXCEPT ![p] = pub[m].copies[p] + 1],
                                   !.asked = {p}, !.at = "await"]
      BY <1>0, <2>2 DEF Offer
    <3> QED
      BY <1>0, <3>1 DEF Pub
  <2>3. CASE Skip(m, p)
    <3>1. pub'[m] = [pub[m] EXCEPT !.left = pub[m].left \ {p}]
      BY <1>0, <2>3 DEF Skip
    <3> QED
      BY <1>0, <3>1 DEF Pub
  <2> QED
    BY <1>7, <2>1, <2>2, <2>3
<1>8. CASE Next
  <2>1. ASSUME NEW c \in Calls, c # m, (\E n \in Try : Publish(c, n)) \/ CallNext(c) \/ Cancel(c)
        PROVE  pub'[m] = pub[m]
    BY <1>0, <2>1 DEF Publish, CallNext, Snapshot, Tried, AckTimeout, Broadcast, Offer, Skip, Read,
       Cancel, AttemptFails, Return
  <2>2. ASSUME NEW p \in Peers, PeerNext(p) PROVE pub' = pub
    BY <2>2 DEF PeerNext, Subscribe, Unsubscribe, Take, Reply
  <2> QED
    BY <1>2, <1>3, <1>4, <1>5, <1>6, <1>7, <1>8, <2>1, <2>2 DEF Next, CallNext
<1> QED
  BY <1>4, <1>8 DEF vars

\* No call blames its subscribers for nacks while one of them has acked.
THEOREM NackedHonest == Spec => AllNackedIsHonest
<1>1. BusInv /\ [Next]_vars =>
        [\A m \in Calls : (pub[m].at # "done" /\ pub'[m].result = "nacked") =>
           ~ \E d \in acked : d.call = m /\ d.try = pub[m].try]_vars
  BY HonestStep
<1> QED
  BY <1>1, BusInitInv, BusStepInv, PTL DEF Spec, AllNackedIsHonest

-----------------------------------------------------------------------------
\* What a step of the call m does to the part of it the promise is about.
Same(m) == pub'[m].copies = pub[m].copies /\ pub'[m].try = pub[m].try

Starts(m) == pub[m].at = "idle" /\ pub'[m].at = "try" /\ Same(m)

Attempts(m) == pub[m].at = "try" /\ pub'[m].at = "send" /\ pub'[m].sent = {} /\ Same(m)

Hands(m, p) ==
  /\ pub[m].at = "send" /\ p \in pub[m].left /\ pub'[m].at \in {"send", "await"}
  /\ pub'[m].try = pub[m].try /\ pub'[m].sent = pub[m].sent \cup {p}
  /\ pub'[m].copies = [pub[m].copies EXCEPT ![p] = pub[m].copies[p] + 1]

GoesOn(m) ==
  /\ pub[m].at \in {"send", "await"} /\ pub'[m].at \in {"send", "await"}
  /\ pub'[m].sent = pub[m].sent /\ Same(m)

TriesAgain(m) ==
  /\ pub[m].at \in {"send", "await"} /\ pub'[m].at = "try"
  /\ pub'[m].try = pub[m].try + 1 /\ pub'[m].copies = pub[m].copies

Ends(m) ==
  /\ pub[m].at \in {"try", "send", "await"} /\ pub'[m].at = "done"
  /\ pub'[m].copies = [p \in Peers |-> 0]
  /\ pub'[m].result = "ok" => pub[m].at = "await" /\ pub[m].sent # {}

Advances(m) ==
  \/ Starts(m) \/ Attempts(m) \/ GoesOn(m) \/ TriesAgain(m) \/ Ends(m)
  \/ \E p \in Peers : Hands(m, p)

\* A call that returns ends the promise as Delivery allows: a success had a copy handed over.
LEMMA ReturnEnds ==
  ASSUME BusInv, NEW m \in Calls, NEW r, Return(m, r),
         pub[m].at \in {"try", "send", "await"},
         r = "ok" => pub[m].at = "await" /\ pub[m].sent # {}
  PROVE  Ends(m)
<1>1. pub'[m] = [NoPub EXCEPT !.at = "done", !.attempts = pub[m].attempts, !.result = r]
  BY DEF Return, BusInv, BusTypeOK
<1> QED
  BY <1>1 DEF NoPub, Ends

\* An attempt that fails is a stutter of Delivery or the end of the call.
LEMMA AttemptAdvances ==
  ASSUME BusInv, NEW m \in Calls, NEW r, r # "ok", AttemptFails(m, r),
         pub[m].at \in {"send", "await"}
  PROVE  Advances(m)
<1>1. CASE pub[m].try < pub[m].attempts
  <2>1. pub'[m] = [pub[m] EXCEPT !.at = "try", !.try = pub[m].try + 1] /\ pub[m] \in Pub
    BY <1>1 DEF AttemptFails, BusInv, BusTypeOK
  <2> QED
    BY <2>1 DEF Pub, TriesAgain, Advances
<1> QED
  BY <1>1, ReturnEnds DEF AttemptFails, Advances

\* Every step of a call is one of these.
LEMMA CallAdvances ==
  ASSUME BusInv, NEW m \in Calls, (\E n \in Try : Publish(m, n)) \/ CallNext(m) \/ Cancel(m)
  PROVE  Advances(m)
<1>0. pub[m] \in Pub /\ pub \in [Calls -> Pub] /\ CallInv(m)
  BY DEF BusInv, BusTypeOK
<1>1. ASSUME NEW n \in Try, Publish(m, n) PROVE Advances(m)
  <2>1. pub'[m] = [pub[m] EXCEPT !.at = "try", !.attempts = n]
    BY <1>0, <1>1 DEF Publish
  <2> QED
    BY <1>0, <1>1, <2>1 DEF Publish, Pub, Starts, Same, Advances
<1>2. CASE Snapshot(m)
  <2>1. CASE Return(m, "failed")
    BY <1>2, <2>1, ReturnEnds DEF Snapshot, Advances
  <2>2. CASE ~Return(m, "failed")
    <3>1. pub'[m] = [pub[m] EXCEPT !.at = "send", !.group = Subscribed, !.left = Subscribed,
                                   !.sent = {}, !.nacks = 0]
      BY <1>0, <1>2, <2>2 DEF Snapshot
    <3> QED
      BY <1>0, <1>2, <3>1 DEF Snapshot, Pub, Attempts, Same, Advances
  <2> QED
    BY <2>1, <2>2
<1>3. CASE Tried(m)
  <2>1. CASE mode = "broadcast" /\ pub[m].sent # {}
    <3>1. pub'[m] = [pub[m] EXCEPT !.at = "await"]
      BY <1>0, <1>3, <2>1 DEF Tried
    <3> QED
      BY <1>0, <1>3, <3>1 DEF Tried, Pub, GoesOn, Same, Advances
  <2> QED
    BY <1>3, <2>1, AttemptAdvances DEF Tried
<1>4. CASE AckTimeout(m)
  <2>1. CASE mode = "compete"
    <3>1. pub'[m] = [pub[m] EXCEPT !.at = "send", !.asked = {}]
      BY <1>0, <1>4, <2>1 DEF AckTimeout
    <3> QED
      BY <1>0, <1>4, <3>1 DEF AckTimeout, Pub, GoesOn, Same, Advances
  <2> QED
    BY <1>4, <2>1, AttemptAdvances DEF AckTimeout, BusInv, BusTypeOK, Mode
<1>5. ASSUME NEW p \in Peers, Broadcast(m, p) \/ Offer(m, p) \/ Skip(m, p) PROVE Advances(m)
  <2>1. CASE Broadcast(m, p)
    <3>1. pub'[m] = [pub[m] EXCEPT !.left = pub[m].left \ {p}, !.sent = pub[m].sent \cup {p},
                                   !.copies = [pub[m].copies EXCEPT ![p] = pub[m].copies[p] + 1]]
      BY <1>0, <2>1 DEF Broadcast
    <3>2. Hands(m, p)
      BY <1>0, <2>1, <3>1 DEF Broadcast, Pub, Hands
    <3> QED
      BY <3>2 DEF Advances
  <2>2. CASE Offer(m, p)
    <3>1. pub'[m] = [pub[m] EXCEPT !.left = pub[m].left \ {p}, !.sent = pub[m].sent \cup {p},
                                   !.copies = [pub[m].copies EXCEPT ![p] = pub[m].copies[p] + 1],
                                   !.asked = {p}, !.at = "await"]
      BY <1>0, <2>2 DEF Offer
    <3>2. Hands(m, p)
      BY <1>0, <2>2, <3>1 DEF Offer, Pub, Hands
    <3> QED
      BY <3>2 DEF Advances
  <2>3. CASE Skip(m, p)
    <3>1. pub'[m] = [pub[m] EXCEPT !.left = pub[m].left \ {p}]
      BY <1>0, <2>3 DEF Skip
    <3> QED
      BY <1>0, <2>3, <3>1 DEF Skip, Pub, GoesOn, Same, Advances
  <2> QED
    BY <1>5, <2>1, <2>2, <2>3
<1>6. ASSUME NEW a \in reply[m], Read(m, a) PROVE Advances(m)
  <2>1. pub[m].at = "await" /\ a.try = pub[m].try /\ a \in Answer
    BY <1>6 DEF Read, Visible, BusInv, BusTypeOK
  <2>2. a.to \in pub[m].sent
    BY <1>0, <2>1 DEF CallInv, OnlyPast, Past, Answer, Try
  <2>3. CASE Return(m, "ok")
    BY <2>1, <2>2, <2>3, ReturnEnds DEF Advances
  <2>4. CASE AttemptFails(m, "nacked")
    BY <2>1, <2>4, AttemptAdvances
  <2>5. CASE pub' = [pub EXCEPT ![m] =
               [@ EXCEPT !.nacks = pub[m].nacks + 1, !.asked = {},
                         !.at = IF mode = "compete" THEN "send" ELSE "await"]]
    <3>1. pub'[m] = [pub[m] EXCEPT !.nacks = pub[m].nacks + 1, !.asked = {},
                                   !.at = IF mode = "compete" THEN "send" ELSE "await"]
      BY <1>0, <2>5
    <3> QED
      BY <1>0, <2>1, <3>1 DEF Pub, GoesOn, Same, Advances
  <2> QED
    BY <1>6, <2>3, <2>4, <2>5 DEF Read
<1>7. CASE Cancel(m)
  BY <1>7, ReturnEnds DEF Cancel, Advances
<1> QED
  BY <1>1, <1>2, <1>3, <1>4, <1>5, <1>6, <1>7 DEF CallNext

\* How many copies a call can have handed to a peer by now: at most one per
\* attempt, and one at least to whoever was served in this attempt.
Handed(m) ==
  /\ pub[m].at \in {"idle", "done"} => pub[m].copies = [p \in Peers |-> 0]
  /\ pub[m].at = "try" => \A p \in Peers : pub[m].copies[p] < pub[m].try
  /\ pub[m].at \in {"send", "await"} =>
       \A p \in Peers : IF p \in pub[m].sent THEN pub[m].copies[p] \in 1 .. pub[m].try
                         ELSE pub[m].copies[p] < pub[m].try
AllHanded == \A m \in Calls : Handed(m)

\* A step is that of one call, or no call is touched.
LEMMA OneCallMoves ==
  ASSUME BusInv, [Next]_vars
  PROVE  \/ UNCHANGED pub
         \/ \E m \in Calls : Advances(m) /\ \A c \in Calls : c # m => pub'[c] = pub[c]
<1>0. pub \in [Calls -> Pub]
  BY DEF BusInv, BusTypeOK
<1>1. ASSUME NEW m \in Calls, (\E n \in Try : Publish(m, n)) \/ CallNext(m) \/ Cancel(m)
      PROVE  Advances(m) /\ \A c \in Calls : c # m => pub'[c] = pub[c]
  BY <1>0, <1>1, CallAdvances DEF Publish, CallNext, Snapshot, Tried, AckTimeout, Broadcast, Offer, Skip, Read,
     Cancel, AttemptFails, Return
<1>2. ASSUME NEW p \in Peers, PeerNext(p) PROVE UNCHANGED pub
  BY <1>2 DEF PeerNext, Subscribe, Unsubscribe, Take, Reply
<1> QED
  BY <1>1, <1>2 DEF Next, vars

\* Whoever was served in this attempt has been handed a copy in it, after every step.
LEMMA HandedStep ==
  ASSUME BusInv, BusInv', AllHanded, [Next]_vars
  PROVE  AllHanded'
<1>1. ASSUME NEW m \in Calls, Advances(m) PROVE Handed(m)'
  <2>0. pub[m] \in Pub /\ pub'[m] \in Pub /\ Handed(m)
    BY DEF BusInv, BusTypeOK, AllHanded
  <2>1. CASE Starts(m)
    BY <2>0, <2>1 DEF Starts, Same, Handed, Pub, Try
  <2>2. CASE Attempts(m)
    BY <2>0, <2>2 DEF Attempts, Same, Handed, Pub, Try
  <2>3. CASE GoesOn(m)
    BY <2>0, <2>3 DEF GoesOn, Same, Handed
  <2>4. CASE TriesAgain(m)
    BY <2>0, <2>4 DEF TriesAgain, Handed, Pub, Try
  <2>5. CASE Ends(m)
    BY <2>0, <2>5 DEF Ends, Handed
  <2>6. ASSUME NEW p \in Peers, Hands(m, p) PROVE Handed(m)'
    <3>1. /\ pub[m].copies \in [Peers -> Nat] /\ pub[m].sent \subseteq Peers
          /\ pub[m].try \in Nat \ {0}
      BY <2>0 DEF Pub, Try
    <3>2. p \notin pub[m].sent /\ pub[m].copies[p] < pub[m].try
      <4>1. p \notin pub[m].sent
        BY <2>6 DEF Hands, BusInv, CallInv, Shape
      <4> QED
        BY <2>0, <2>6, <4>1 DEF Hands, Handed
    <3>3. ASSUME NEW q \in Peers
          PROVE  IF q \in pub'[m].sent THEN pub'[m].copies[q] \in 1 .. pub'[m].try
                 ELSE pub'[m].copies[q] < pub'[m].try
      <4>1. IF q \in pub[m].sent THEN pub[m].copies[q] \in 1 .. pub[m].try
            ELSE pub[m].copies[q] < pub[m].try
        BY <2>0, <2>6 DEF Hands, Handed
      <4>2. pub'[m].try = pub[m].try /\ (q \in pub'[m].sent <=> q \in pub[m].sent \/ q = p)
        BY <2>6 DEF Hands
      <4>3. pub'[m].copies[q] = IF q = p THEN pub[m].copies[p] + 1 ELSE pub[m].copies[q]
        BY <2>6, <3>1 DEF Hands
      <4> QED
        BY <3>1, <3>2, <4>1, <4>2, <4>3
    <3> QED
      BY <2>6, <3>3 DEF Hands, Handed
  <2> QED
    BY <1>1, <2>1, <2>2, <2>3, <2>4, <2>5, <2>6 DEF Advances
<1> QED
  BY <1>1, OneCallMoves DEF AllHanded, Handed

\* What the promise sees of a call.
OutcomeOf(x) ==
  CASE x.at = "idle" -> "none"
    [] x.at \in {"try", "send", "await"} -> "pending"
    [] x.result = "ok" -> "ok"
    [] OTHER -> "error"
Outcomes == [m \in Calls |-> OutcomeOf(pub[m])]
Copies == [m \in Calls |-> pub[m].copies]

\* The cases exclude each other: a call has no result before it is done.
LEMMA OutcomeIs ==
  ASSUME NEW x, x.at # "done" => x.result = "none"
  PROVE  /\ x.at = "idle" => OutcomeOf(x) = "none"
         /\ x.at \in {"try", "send", "await"} => OutcomeOf(x) = "pending"
         /\ x.at = "done" => OutcomeOf(x) = IF x.result = "ok" THEN "ok" ELSE "error"
  BY DEF OutcomeOf

\* A step that changes one call changes the refinement mapping at that call only.
LEMMA OneOutcome ==
  ASSUME NEW m \in Calls, \A c \in Calls : c # m => pub'[c] = pub[c]
  PROVE  /\ Outcomes' = [Outcomes EXCEPT ![m] = OutcomeOf(pub'[m])]
         /\ Copies' = [Copies EXCEPT ![m] = pub'[m].copies]
<1>1. \A c \in Calls : c # m => OutcomeOf(pub'[c]) = OutcomeOf(pub[c])
  BY DEF OutcomeOf
<1>2. Outcomes' = [c \in Calls |-> OutcomeOf(pub'[c])]
  BY DEF Outcomes
<1>3. Copies' = [c \in Calls |-> pub'[c].copies]
  BY DEF Copies
<1>4. [c \in Calls |-> OutcomeOf(pub'[c])] = [Outcomes EXCEPT ![m] = OutcomeOf(pub'[m])]
  BY <1>1 DEF Outcomes
<1>5. [c \in Calls |-> pub'[c].copies] = [Copies EXCEPT ![m] = pub'[m].copies]
  BY DEF Copies
<1> QED
  BY <1>2, <1>3, <1>4, <1>5

\* The step the promise sees, or none.
LEMMA StepKept ==
  ASSUME BusInv, BusInv', AllHanded, [Next]_vars
  PROVE  [Promise!Next]_(Promise!vars)
<1>1. CASE UNCHANGED pub
  BY <1>1 DEF Promise!vars
<1>2. ASSUME NEW m \in Calls, Advances(m), \A c \in Calls : c # m => pub'[c] = pub[c]
      PROVE  [Promise!Next]_(Promise!vars)
  <2>0. pub[m] \in Pub /\ pub'[m] \in Pub /\ Handed(m) /\ CallInv(m)
    BY DEF BusInv, BusTypeOK, AllHanded
  <2>a. /\ pub[m].at # "done" => pub[m].result = "none"
        /\ pub'[m].at # "done" => pub'[m].result = "none"
    BY DEF BusInv, CallInv, Shape
  <2>1. CASE Starts(m)
    <3>1. Outcomes[m] = "none" /\ Outcomes' = [Outcomes EXCEPT ![m] = "pending"]
      BY <1>2, <2>1, <2>a, OneOutcome, OutcomeIs DEF Starts, Outcomes
    <3>2. Copies' = Copies
      BY <1>2, <2>1 DEF Starts, Same, Copies
    <3>3. Promise!Start(m)
      BY <3>1, <3>2 DEF Promise!Start, Outcomes, OutcomeOf, Copies
    <3> QED
      BY <3>3 DEF Promise!Next
  <2>2. CASE Attempts(m) \/ GoesOn(m) \/ TriesAgain(m)
    <3>1. \A c \in Calls : OutcomeOf(pub'[c]) = OutcomeOf(pub[c]) /\ pub'[c].copies = pub[c].copies
      BY <1>2, <2>2, <2>a, OutcomeIs DEF Attempts, GoesOn, TriesAgain, Same
    <3>2. Outcomes' = Outcomes /\ Copies' = Copies
      BY <3>1 DEF Outcomes, Copies
    <3> QED
      BY <3>2 DEF Promise!vars, Outcomes, OutcomeOf, Copies
  <2>3. CASE Ends(m)
    <3>0. PICK how \in {"ok", "error"} : how = IF pub'[m].result = "ok" THEN "ok" ELSE "error"
      OBVIOUS
    <3>1. how = "ok" => \E p \in Peers : pub[m].copies[p] > 0
      <4>1. pub[m].sent \subseteq Peers
        BY <2>0 DEF Pub
      <4> QED
        BY <2>0, <2>3, <3>0, <4>1 DEF Ends, Handed
    <3>2. OutcomeOf(pub[m]) = "pending" /\ OutcomeOf(pub'[m]) = how
      BY <2>3, <3>0, <2>a, OutcomeIs DEF Ends
    <3>3. /\ Outcomes[m] = "pending" /\ Outcomes' = [Outcomes EXCEPT ![m] = how]
          /\ Copies' = [Copies EXCEPT ![m] = [p \in Peers |-> 0]]
          /\ \A p \in Peers : Copies[m][p] = pub[m].copies[p]
      BY <1>2, <2>3, <3>2, OneOutcome DEF Ends, Outcomes, Copies
    <3>4. Promise!Return(m, how)
      BY <3>1, <3>3 DEF Promise!Return, Outcomes, OutcomeOf, Copies
    <3> QED
      BY <3>4 DEF Promise!Next
  <2>4. ASSUME NEW p \in Peers, Hands(m, p) PROVE [Promise!Next]_(Promise!vars)
    <3>1. pub[m].copies[p] < MaxAttempts
      <4>1. p \notin pub[m].sent
        BY <2>0, <2>4 DEF Hands, CallInv, Shape
      <4> QED
        BY <2>0, <2>4, <4>1 DEF Hands, Handed, Pub, Try
    <3>2. Outcomes[m] = "pending" /\ Outcomes' = Outcomes
      <4>1. OutcomeOf(pub[m]) = "pending" /\ OutcomeOf(pub'[m]) = "pending"
        BY <2>4, <2>a, OutcomeIs DEF Hands
      <4> QED
        BY <1>2, <4>1, OneOutcome DEF Outcomes
    <3>3. Copies' = [Copies EXCEPT ![m] = [Copies[m] EXCEPT ![p] = Copies[m][p] + 1]]
      BY <1>2, <2>4, OneOutcome DEF Hands, Copies
    <3>4. Copies[m][p] < MaxAttempts
      BY <3>1 DEF Copies
    <3>5. Promise!HandOver(m, p)
      BY <3>2, <3>3, <3>4 DEF Promise!HandOver, Outcomes, OutcomeOf, Copies
    <3> QED
      BY <3>5 DEF Promise!Next
  <2> QED
    BY <1>2, <2>1, <2>2, <2>3, <2>4 DEF Advances
<1> QED
  BY <1>1, <1>2, OneCallMoves

\* The bus keeps its promise: at most MaxAttempts copies to each peer, success
\* only after a copy was handed over, nothing after the call has returned
\* (bus.go:222-300, 409-490).
THEOREM BusKeepsPromise == Spec => DeliverySpec
<1>1. Init => Promise!Init /\ AllHanded
  BY DEF Init, NoPub, Promise!Init, AllHanded, Handed
<1>2. BusInv /\ BusInv' /\ AllHanded /\ [Next]_vars => AllHanded' /\ [Promise!Next]_(Promise!vars)
  BY HandedStep, StepKept
<1> QED
  BY <1>1, <1>2, BusInitInv, BusStepInv, PTL DEF Spec, DeliverySpec, Promise!Spec
=============================================================================
