-------------------------------- MODULE Bus --------------------------------
(***************************************************************************)
(* The acknowledged delivery modes of internal/agent/bus/bus.go on one     *)
(* topic: PublishReliable ("broadcast": to every subscriber, through a     *)
(* buffered channel) and PublishCompeting ("compete": to one idle          *)
(* subscriber after another, unbuffered, until one acks).  A call works on *)
(* a snapshot of the subscribers, which come and go meanwhile; a peer may  *)
(* answer late or never.  The order in which a call goes through its       *)
(* snapshot is left open (PublishCompeting shuffles it; PublishReliable    *)
(* takes it as it is, one of the orders allowed here).  The two modes keep *)
(* separate subscriber lists, and a topic of this program is used in one   *)
(* mode only: mode says which.  Subscribe and Publish, the fire-and-forget *)
(* mode, are not modelled.                                                 *)
(***************************************************************************)
EXTENDS Naturals, Sequences, FiniteSets, FiniteSetsExt

CONSTANTS
  Calls,         \* calls of PublishReliable and PublishCompeting
  Peers,         \* subscribers, each with a channel of its own per mode
  MaxAttempts,   \* bound: ReliableOpts.MaxAttempts, of all calls together
  Buffer,        \* capacity of a broadcast subscriber's channel
  Slots          \* messages a peer handles at the same time

ASSUME BusAssumption ==
  /\ MaxAttempts \in Nat \ {0} /\ Buffer \in Nat \ {0} /\ Slots \in Nat \ {0}
  /\ IsFiniteSet(Peers)

VARIABLES
  mode,      \* how the topic is used
  peer,      \* each peer: not subscribed yet, subscribed, gone for good
  queue,     \* what is buffered in each broadcast channel
  hand,      \* what each peer has received and not answered
  reply,     \* answers not yet read, per call
  pub,       \* the publish calls
  acked,     \* history: every copy acked
  expired    \* history: every competing copy whose ack timer ran out

vars == <<mode, peer, queue, hand, reply, pub, acked, expired>>

Mode == {"broadcast", "compete"}

Try == 1 .. MaxAttempts

\* One copy of a message: the attempt that sent it and the peer it went to.
Copy == [ call: Calls, try: Try, to: Peers ]

\* What Ack and Nack put into the reply channel the copy carries.
Answer == [ try: Try, to: Peers, ok: BOOLEAN ]

\* "failed" stands for ErrNoSubscribers, ErrAckTimeout and the context's error.
Result == {"none", "ok", "failed", "nacked"}

\* attempts: the MaxAttempts of the call; group: the snapshot; left: those not
\* tried yet; sent: those that got a copy; asked: whose answer PublishCompeting
\* awaits; copies: how many copies the call has handed to each peer so far
Pub == [ at: {"idle", "try", "send", "await", "done"}, attempts: 0 .. MaxAttempts, try: Try,
         group: SUBSET Peers, left: SUBSET Peers, sent: SUBSET Peers,
         asked: SUBSET Peers, nacks: Nat, copies: [Peers -> Nat], result: Result ]

NoPub == [ at |-> "idle", attempts |-> 0, try |-> 1, group |-> {}, left |-> {},
           sent |-> {}, asked |-> {}, nacks |-> 0, copies |-> [p \in Peers |-> 0],
           result |-> "none" ]

BusTypeOK ==
  /\ mode \in Mode
  /\ peer \in [Peers -> {"new", "in", "out"}]
  /\ queue \in [Peers -> Seq(Copy)]
  /\ hand \in [Peers -> SUBSET Copy]
  /\ reply \in [Calls -> SUBSET Answer]
  /\ pub \in [Calls -> Pub]
  /\ acked \subseteq Copy /\ expired \subseteq Copy
  /\ \A p \in Peers : Len(queue[p]) <= Buffer

Init ==
  /\ mode \in Mode
  /\ peer = [p \in Peers |-> "new"]
  /\ queue = [p \in Peers |-> <<>>]
  /\ hand = [p \in Peers |-> {}]
  /\ reply = [m \in Calls |-> {}]
  /\ pub = [m \in Calls |-> NoPub]
  /\ acked = {} /\ expired = {}

-----------------------------------------------------------------------------
CopyTo(m, p) == [ call |-> m, try |-> pub[m].try, to |-> p ]

Return(m, result) ==
  /\ pub' = [pub EXCEPT ![m] = [NoPub EXCEPT !.at = "done", !.attempts = pub[m].attempts, !.result = result]]
  /\ reply' = [reply EXCEPT ![m] = {}]

\* Mutant: attempts are not counted.
AttemptFailsUncounted(m, err) ==
  /\ pub' = [pub EXCEPT ![m].at = "try"]
  /\ UNCHANGED reply

\* The end of an attempt that brought no ack: the next one after RetryDelay, or
\* the error of the last.
AttemptFails(m, err) ==
  IF pub[m].try < pub[m].attempts
  THEN /\ pub' = [pub EXCEPT ![m] = [@ EXCEPT !.at = "try", !.try = pub[m].try + 1]]
       /\ UNCHANGED reply
  ELSE Return(m, err)

Subscribed == { p \in Peers : peer[p] = "in" }

Publish(m, n) ==
  /\ pub[m].at = "idle"
  /\ n + MapThenSumSet(LAMBDA c : pub[c].attempts, Calls) <= MaxAttempts
  /\ pub' = [pub EXCEPT ![m] = [@ EXCEPT !.at = "try", !.attempts = n]]
  /\ UNCHANGED <<mode, peer, queue, hand, reply, acked, expired>>

\* Mutant: the nacks of the previous attempt still count.
SnapshotKeepsNacks(m) ==
  /\ pub[m].at = "try"
  /\ LET group == Subscribed IN
       IF group = {} THEN Return(m, "failed")
       ELSE /\ pub' = [pub EXCEPT ![m] = [@ EXCEPT !.at = "send", !.group = group, !.left = group,
                                                   !.sent = {}]]
            /\ UNCHANGED reply
  /\ UNCHANGED <<mode, peer, queue, hand, acked, expired>>

\* An attempt starts from the subscribers of this moment and a fresh reply channel.
Snapshot(m) ==
  /\ pub[m].at = "try"
  /\ LET group == Subscribed IN
       IF group = {} THEN Return(m, "failed")
       ELSE /\ pub' = [pub EXCEPT ![m] = [@ EXCEPT !.at = "send", !.group = group, !.left = group,
                                                   !.sent = {}, !.nacks = 0]]
            /\ UNCHANGED reply
  /\ UNCHANGED <<mode, peer, queue, hand, acked, expired>>

\* A channel with room takes the copy at once.
Broadcast(m, p) ==
  /\ pub[m].at = "send" /\ mode = "broadcast" /\ p \in pub[m].left
  /\ Len(queue[p]) < Buffer
  /\ queue' = [queue EXCEPT ![p] = Append(@, CopyTo(m, p))]
  /\ pub' = [pub EXCEPT ![m] = [@ EXCEPT !.left = pub[m].left \ {p}, !.sent = pub[m].sent \cup {p},
                                         !.copies = [pub[m].copies EXCEPT ![p] = @ + 1]]]
  /\ UNCHANGED <<mode, peer, hand, reply, acked, expired>>

\* A competing peer is at its receive: subscribed, with a free slot.
Receiving(p) == peer[p] = "in" /\ Cardinality(hand[p]) < Slots

\* Mutant: the next peer is offered the message without waiting for this one.
OfferOn(m, p) ==
  /\ pub[m].at = "send" /\ mode = "compete" /\ p \in pub[m].left
  /\ Receiving(p)
  /\ hand' = [hand EXCEPT ![p] = @ \cup {CopyTo(m, p)}]
  /\ pub' = [pub EXCEPT ![m] = [@ EXCEPT !.left = pub[m].left \ {p}, !.sent = pub[m].sent \cup {p},
                                         !.copies = [pub[m].copies EXCEPT ![p] = @ + 1]]]
  /\ UNCHANGED <<mode, peer, queue, reply, acked, expired>>

\* The unbuffered send meets a receiving peer; now its answer is awaited.
Offer(m, p) ==
  /\ pub[m].at = "send" /\ mode = "compete" /\ p \in pub[m].left
  /\ Receiving(p)
  /\ hand' = [hand EXCEPT ![p] = @ \cup {CopyTo(m, p)}]
  /\ pub' = [pub EXCEPT ![m] = [@ EXCEPT !.left = pub[m].left \ {p}, !.sent = pub[m].sent \cup {p},
                                         !.copies = [pub[m].copies EXCEPT ![p] = @ + 1],
                                         !.asked = {p}, !.at = "await"]]
  /\ UNCHANGED <<mode, peer, queue, reply, acked, expired>>

\* SendTimeout: the channel had no room, or nobody was at its other end (a peer
\* may still be busy with what it has acked).
Skip(m, p) ==
  /\ pub[m].at = "send" /\ p \in pub[m].left
  /\ mode = "broadcast" => Len(queue[p]) = Buffer
  /\ pub' = [pub EXCEPT ![m].left = @ \ {p}]
  /\ UNCHANGED <<mode, peer, queue, hand, reply, acked, expired>>

\* Mutant: no error is left over when nobody could be asked.
TriedReportsOk(m) ==
  /\ pub[m].at = "send" /\ pub[m].left = {}
  /\ IF mode = "broadcast" /\ pub[m].sent # {}
     THEN pub' = [pub EXCEPT ![m].at = "await"] /\ UNCHANGED reply
     ELSE Return(m, "ok")
  /\ UNCHANGED <<mode, peer, queue, hand, acked, expired>>

\* Everyone has been tried: PublishReliable awaits whoever got a copy,
\* PublishCompeting has had no ack.
Tried(m) ==
  /\ pub[m].at = "send" /\ pub[m].left = {}
  /\ IF mode = "broadcast" /\ pub[m].sent # {}
     THEN pub' = [pub EXCEPT ![m].at = "await"] /\ UNCHANGED reply
     ELSE AttemptFails(m, IF mode = "compete" /\ pub[m].nacks = Cardinality(pub[m].group)
                          THEN "nacked" ELSE "failed")
  /\ UNCHANGED <<mode, peer, queue, hand, acked, expired>>

\* The answers the call can see: those of this attempt's channel, which
\* PublishCompeting makes anew for each peer.
Visible(m) ==
  { a \in reply[m] : a.try = pub[m].try /\ (mode = "compete" => a.to \in pub[m].asked) }

\* An answer is read: an ack ends the call; when the last nack is in, the attempt
\* has failed or the next peer's turn has come.
Read(m, a) ==
  /\ pub[m].at = "await" /\ a \in Visible(m)
  /\ \/ a.ok /\ Return(m, "ok")
     \/ /\ ~a.ok
        /\ IF mode = "broadcast" /\ pub[m].nacks + 1 = Cardinality(pub[m].sent)
           THEN AttemptFails(m, "nacked")
           ELSE /\ pub' = [pub EXCEPT ![m] =
                     [@ EXCEPT !.nacks = pub[m].nacks + 1, !.asked = {},
                               !.at = IF mode = "compete" THEN "send" ELSE "await"]]
                /\ reply' = [reply EXCEPT ![m] = @ \ {a}]
  /\ UNCHANGED <<mode, peer, queue, hand, acked, expired>>

\* Opts.Timeout runs out: of the attempt, or of the peer asked last.
AckTimeout(m) ==
  /\ pub[m].at = "await"
  /\ IF mode = "broadcast"
     THEN AttemptFails(m, "failed") /\ UNCHANGED expired
     ELSE /\ expired' = expired \cup { CopyTo(m, p) : p \in pub[m].asked }
          /\ pub' = [pub EXCEPT ![m] = [@ EXCEPT !.at = "send", !.asked = {}]]
          /\ UNCHANGED reply
  /\ UNCHANGED <<mode, peer, queue, hand, acked>>

\* The caller's context ends.
Cancel(m) ==
  /\ pub[m].at \in {"try", "send", "await"}
  /\ Return(m, "failed")
  /\ UNCHANGED <<mode, peer, queue, hand, acked, expired>>

\* What a call does by itself, its timers included.
CallNext(m) ==
  \/ Snapshot(m) \/ Tried(m) \/ AckTimeout(m)
  \/ \E p \in Peers : Broadcast(m, p) \/ Offer(m, p) \/ Skip(m, p)
  \/ \E a \in reply[m] : Read(m, a)

-----------------------------------------------------------------------------
Subscribe(p) ==
  /\ peer[p] = "new"
  /\ peer' = [peer EXCEPT ![p] = "in"]
  /\ UNCHANGED <<mode, queue, hand, reply, pub, acked, expired>>

\* Unsubscribe, for good: what is buffered is never taken, what the peer has in
\* hand it may still answer or not.
Unsubscribe(p) ==
  /\ peer[p] = "in"
  /\ peer' = [peer EXCEPT ![p] = "out"]
  /\ UNCHANGED <<mode, queue, hand, reply, pub, acked, expired>>

Take(p) ==
  /\ peer[p] = "in"
  /\ queue[p] # <<>>
  /\ Cardinality(hand[p]) < Slots
  /\ hand' = [hand EXCEPT ![p] = @ \cup {Head(queue[p])}]
  /\ queue' = [queue EXCEPT ![p] = Tail(@)]
  /\ UNCHANGED <<mode, peer, reply, pub, acked, expired>>

\* Ack or Nack; a call that has returned has dropped its reply channels.
Reply(p, d, ok) ==
  /\ d \in hand[p]
  /\ hand' = [hand EXCEPT ![p] = @ \ {d}]
  /\ acked' = IF ok THEN acked \cup {d} ELSE acked
  /\ reply' = IF pub[d.call].at = "done" THEN reply
              ELSE [reply EXCEPT ![d.call] = @ \cup {[try |-> d.try, to |-> d.to, ok |-> ok]}]
  /\ UNCHANGED <<mode, peer, queue, pub, expired>>

PeerNext(p) ==
  \/ Subscribe(p) \/ Unsubscribe(p) \/ Take(p)
  \/ \E d \in hand[p], ok \in BOOLEAN : Reply(p, d, ok)

Next ==
  \/ \E m \in Calls : (\E n \in Try : Publish(m, n)) \/ CallNext(m) \/ Cancel(m)
  \/ \E p \in Peers : PeerNext(p)

\* A publishing goroutine runs and its timers fire; a peer owes nothing.
Spec == Init /\ [][Next]_vars /\ \A m \in Calls : WF_vars(CallNext(m))

-----------------------------------------------------------------------------
\* bus.go:360-364, 409-413: a competing message is handled by exactly one peer,
\* except where an ack came too late: of two peers that acked it, one had let
\* its ack timer run out.
ExactlyOneUnlessLate ==
  \A d, e \in acked :
    (d # e /\ d.call = e.call /\ mode = "compete") => d \in expired \/ e \in expired

\* bus.go:111-112: a call reports that its message was nacked only when no peer
\* of the last attempt has acked it.
AllNackedIsHonest ==
  [][\A m \in Calls : (pub[m].at # "done" /\ pub'[m].result = "nacked") =>
       ~ \E d \in acked : d.call = m /\ d.try = pub[m].try]_vars

\* A publish call returns, whatever its subscribers do or fail to do.
PublishReturns == \A m \in Calls : pub[m].at # "idle" ~> pub[m].at = "done"

\* What a publisher may rely on.
Promise == INSTANCE Delivery WITH
  copies <- [m \in Calls |-> pub[m].copies],
  outcome <- [m \in Calls |->
    CASE pub[m].at = "idle" -> "none"
      [] pub[m].at \in {"try", "send", "await"} -> "pending"
      [] pub[m].result = "ok" -> "ok"
      [] OTHER -> "error"]

DeliverySpec == Promise!Spec
=============================================================================
