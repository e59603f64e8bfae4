---------------------------- MODULE Transaction ----------------------------
(***************************************************************************)
(* internal/transaction/transaction.go: purchases that are prepared,       *)
(* confirmed, executed or cancelled, under a limit per transaction and one *)
(* per day.  Engine has no lock and uses no database transaction: a method *)
(* reads the row, decides on that copy, and writes status and time stamp   *)
(* by id, whatever the row has become.  Callers are the goroutines of      *)
(* Agent.executeToolsParallel and of other agents.  An action is one SQL   *)
(* statement of one caller.  Left out: the phase column, which is written  *)
(* with status and says the same; the columns nothing decides on; the rows *)
(* of transaction_audit, which nothing reads (the statement is kept); the  *)
(* rounding of amounts.                                                    *)
(***************************************************************************)
EXTENDS Integers, FiniteSets, FiniteSetsExt

CONSTANTS Callers,    \* goroutines that call the engine
          Amounts,    \* the amounts details may name, negative ones included
          Limits,     \* the configured limits considered
          MaxTx,      \* bound: transactions ever prepared
          MaxDay      \* bound: days that pass

ASSUME TransactionAssumption ==
  /\ IsFiniteSet(Callers)
  /\ Amounts \subseteq Int
  /\ Limits \subseteq [ per: Nat, daily: Nat ]
  /\ MaxTx \in Nat
  /\ MaxDay \in Nat \ {0}

VARIABLES
  limits,   \* Engine.limits, 0 for no limit
  tx,       \* the transactions table
  today,    \* date('now')
  call      \* the call each caller is in

vars == <<limits, tx, today, call>>

Tx  == 1 .. MaxTx
Day == 1 .. MaxDay

Settled == {"executed", "cancelled"}

Status == {"none", "pending", "confirmed"} \cup Settled

\* confirmed: confirmed_at is set; day: date(executed_at), 0 when it is null
TxRow == [ status: Status, amount: Nat, confirmed: BOOLEAN, day: Day \cup {0} ]

NoTx == [ status |-> "none", amount |-> 0, confirmed |-> FALSE, day |-> 0 ]

\* read: the status in the copy; day: the day on which the call read the row
\* or, later, passed the daily limit
Call == [ op: {"Prepare", "Confirm", "Execute", "Cancel"},
          phase: {"idle", "limit", "write", "audit"},
          tx: Tx \cup {0}, read: Status, day: Day ]

Idle == [ op |-> "Prepare", phase |-> "idle", tx |-> 0, read |-> "none", day |-> 1 ]

TxInit ==
  /\ limits \in Limits
  /\ tx = [ t \in Tx |-> NoTx ]
  /\ today = 1
  /\ call = [ c \in Callers |-> Idle ]

-----------------------------------------------------------------------------
\* The row is written; what is left of the call is its audit row.
ToAudit(c) == call' = [ call EXCEPT ![c] = [ Idle EXCEPT !.phase = "audit" ] ]

\* get: the row is read and the checks of the method are made on the copy; a
\* refusal changes nothing.
Reads(c, op, t, phase) ==
  /\ call[c].phase = "idle"
  /\ tx[t].status # "none"
  /\ call' = [ call EXCEPT ![c] =
                 [ op |-> op, phase |-> phase, tx |-> t,
                   read |-> tx[t].status, day |-> today ] ]
  /\ UNCHANGED <<limits, tx, today>>

\* Mutant: a negative amount is taken.
AnyAmount(a) == a \in Int

Payable(a) == a >= 0

Prepare(c, t, a) ==
  /\ call[c].phase = "idle"
  /\ tx[t].status = "none"
  /\ \A u \in Tx : u < t => tx[u].status # "none"
  /\ Payable(a)
  /\ tx' = [ tx EXCEPT ![t] = [ NoTx EXCEPT !.status = "pending", !.amount = a ] ]
  /\ ToAudit(c)
  /\ UNCHANGED <<limits, today>>

\* Mutant: Confirm lacks the check for an executed transaction.
ConfirmIfNotCancelled(c, t) ==
  tx[t].status # "cancelled" /\ Reads(c, "Confirm", t, "write")

\* A confirmed transaction may be confirmed again.
Confirm(c, t) == tx[t].status \notin Settled /\ Reads(c, "Confirm", t, "write")

Cancel(c, t) == tx[t].status \notin Settled /\ Reads(c, "Cancel", t, "write")

\* The part of CheckLimits that needs no query.
WithinPerTransaction(a) == a >= 0 /\ (limits.per > 0 => a <= limits.per)

\* Mutant: Execute takes a transaction nobody has confirmed.
ExecuteUnsettled(c, t) ==
  /\ tx[t].status \notin Settled
  /\ WithinPerTransaction(tx[t].amount)
  /\ Reads(c, "Execute", t, IF limits.daily > 0 THEN "limit" ELSE "write")

Execute(c, t) ==
  /\ tx[t].status = "confirmed"
  /\ WithinPerTransaction(tx[t].amount)
  /\ Reads(c, "Execute", t, IF limits.daily > 0 THEN "limit" ELSE "write")

-----------------------------------------------------------------------------
\* DailySpend of day d: the sum over the rows that are executed and dated d.
DailySpend(d) ==
  MapThenSumSet(LAMBDA t : tx[t].amount,
                { t \in Tx : tx[t].status = "executed" /\ tx[t].day = d })

\* Mutant: the amount about to be spent is not counted.
WithinDailySoFar(a) == DailySpend(today) <= limits.daily

WithinDaily(a) == DailySpend(today) + a <= limits.daily

\* The rest of CheckLimits.  The amount is that of the copy; no statement ever
\* changes it in the row.
CheckDaily(c) ==
  /\ call[c].phase = "limit"
  /\ call' = [ call EXCEPT ![c] =
                 IF WithinDaily(tx[call[c].tx].amount)
                 THEN [ @ EXCEPT !.phase = "write", !.day = today ]
                 ELSE Idle ]
  /\ UNCHANGED <<limits, tx, today>>

\* The UPDATE that ends a method: by id alone, whatever the row has become.
Sets(c, op, r) ==
  /\ call[c].phase = "write" /\ call[c].op = op
  /\ tx' = [ tx EXCEPT ![call[c].tx] = r ]
  /\ ToAudit(c)
  /\ UNCHANGED <<limits, today>>

\* Execute takes the time between its check and the statement; midnight may
\* pass before, in between or not at all.
Write(c) ==
  LET old == tx[call[c].tx] IN
  \/ Sets(c, "Confirm", [ old EXCEPT !.status = "confirmed", !.confirmed = TRUE ])
  \/ Sets(c, "Cancel", [ old EXCEPT !.status = "cancelled" ])
  \/ \E d \in call[c].day .. today :
       Sets(c, "Execute", [ old EXCEPT !.status = "executed", !.day = d ])

\* The audit row is written, or not: its error is dropped.
Audit(c) ==
  /\ call[c].phase = "audit"
  /\ call' = [ call EXCEPT ![c] = Idle ]
  /\ UNCHANGED <<limits, tx, today>>

\* The call has read its row and is still to write it.
Writing(c) == call[c].phase \in {"limit", "write"}

\* A statement fails, the call's context ends, or the process does.
StatementFails(c) ==
  /\ Writing(c)
  /\ call' = [ call EXCEPT ![c] = Idle ]
  /\ UNCHANGED <<limits, tx, today>>

Midnight ==
  /\ today < MaxDay
  /\ today' = today + 1
  /\ UNCHANGED <<limits, tx, call>>

CallerNext(c) ==
  \/ \E t \in Tx, a \in Amounts : Prepare(c, t, a)
  \/ \E t \in Tx : Confirm(c, t) \/ Cancel(c, t) \/ Execute(c, t)
  \/ CheckDaily(c)
  \/ Write(c)
  \/ Audit(c)
  \/ StatementFails(c)

TxNext == Midnight \/ \E c \in Callers : CallerNext(c)

TxSpec == TxInit /\ [][TxNext]_vars

-----------------------------------------------------------------------------
TxTypeOK ==
  /\ limits \in Limits
  /\ tx \in [ Tx -> TxRow ]
  /\ today \in Day
  /\ call \in [ Callers -> Call ]
  /\ \A c \in Callers :
       Writing(c) => call[c].tx \in Tx /\ tx[call[c].tx].status # "none"

\* Nothing is bought that its user has not confirmed or that is above the limit
\* of one transaction, whatever other calls did to the row between Execute's
\* read and its write.
ExecutedWasApproved ==
  \A t \in Tx : tx[t].status = "executed" =>
    tx[t].confirmed /\ WithinPerTransaction(tx[t].amount)

\* An executed or cancelled transaction stays what it is, unless a call that
\* read it before it was settled is still to write: only such a call can execute
\* a cancelled one, cancel an executed one, or open it for a second execution.
SettledUnlessRaced ==
  [][ \A t \in Tx :
        /\ tx[t].status \in Settled
        /\ \A c \in Callers : Writing(c) /\ call[c].tx = t => call[c].read \in Settled
        => tx'[t].status = tx[t].status ]_vars

\* The most one call can add to a day whose limit was checked for another.
LargestPurchase ==
  IF limits.per > 0 /\ limits.per < limits.daily THEN limits.per ELSE limits.daily

\* A day is overspent by at most one purchase for every caller beyond the
\* first, midnight and rewritten rows included; with one caller the limit holds.
DailyOverrunBounded ==
  limits.daily > 0 =>
    \A d \in Day :
      DailySpend(d) <= limits.daily + (Cardinality(Callers) - 1) * LargestPurchase

\* transaction.go:58, "max daily spend (0 = unlimited)": what has been spent today
\* is within the daily limit.
DailyLimitKept == limits.daily > 0 => DailySpend(today) <= limits.daily
=============================================================================
