------------------------- MODULE Background_proofs -------------------------
(***************************************************************************)
(* Proofs about what runs in the background: Cron, for every expression    *)
(* and every calendar; Schedule, for every set of schedules and every      *)
(* number of mishaps; GroupRun, for every set of groups, every number of   *)
(* sub-steps and every buffer; and MCBackground, in which one of them runs.*)
(***************************************************************************)
EXTENDS MCBackground, FiniteSetTheorems, SequenceTheorems, WellFoundedInduction, TLAPS

USE CronAssumption DEF CronAssumption

-----------------------------------------------------------------------------
(* Cron: arithmetic of the calendar *)

\* The arithmetic of a quotient.
LEMMA QuotientBounds ==
  ASSUME NEW t \in Nat, NEW p \in Nat \ {0}
  PROVE  t \div p \in Nat /\ (t \div p) * p <= t /\ t < (t \div p) * p + p
OBVIOUS

\* A quotient is known by its bounds.
LEMMA QuotientIs ==
  ASSUME NEW t \in Nat, NEW p \in Nat \ {0}, NEW q \in Nat, q * p <= t, t < q * p + p
  PROVE  t \div p = q
OBVIOUS

\* Multiplication is monotonic.
LEMMA TimesGrows ==
  ASSUME NEW p \in Nat \ {0}, NEW a \in Nat, NEW b \in Nat, a <= b
  PROVE  a * p <= b * p /\ (b + 1) * p = b * p + p
OBVIOUS

\* Nothing lies between the start of a quotient's period and the next one's.
LEMMA SamePeriod ==
  ASSUME NEW t \in Nat, NEW u \in Nat, NEW p \in Nat \ {0}, t <= u, u < (t \div p + 1) * p
  PROVE  u \div p = t \div p /\ t < (t \div p + 1) * p
<1>1. t \div p \in Nat /\ (t \div p) * p <= t /\ t < (t \div p) * p + p
  BY QuotientBounds
<1>2. (t \div p + 1) * p = (t \div p) * p + p
  BY <1>1, TimesGrows
<1>3. ASSUME NEW q \in Nat, q * p <= t, t < q * p + p, u < q * p + p PROVE u \div p = q
  BY <1>3, QuotientIs
<1> QED
  BY <1>1, <1>2, <1>3

\* A day has the minutes of its hours.
LEMMA DayMinutes ==
  /\ PerHour * PerDay \in Nat \ {0}
  /\ \A d \in Nat : Midnight(d) = d * (PerHour * PerDay)
BY DEF Midnight

\* A time is before the midnight that ends its day.
LEMMA DayIsNat ==
  ASSUME NEW t \in Nat
  PROVE  DayOf(t) \in Nat /\ t < Midnight(DayOf(t) + 1) /\ Midnight(DayOf(t) + 1) \in Nat
<1> DEFINE p == PerHour * PerDay
<1>1. p \in Nat \ {0} /\ \A d \in Nat : Midnight(d) = d * p
  BY DayMinutes
<1>2. DayOf(t) = t \div p
  BY DEF DayOf
<1> HIDE DEF p
<1>3. t \div p \in Nat /\ t < (t \div p) * p + p
  BY <1>1, QuotientBounds
<1>4. (t \div p + 1) * p = (t \div p) * p + p
  BY <1>1, <1>3, TimesGrows
<1>5. (t \div p + 1) * p \in Nat
  BY <1>1, <1>3
<1> QED
  BY <1>1, <1>2, <1>3, <1>4, <1>5

\* Until a midnight every time is of a day before it.
LEMMA DaysBefore ==
  ASSUME NEW t \in Nat, NEW u \in Nat, NEW e \in Nat, t <= u, u < Midnight(e)
  PROVE  DayOf(t) <= DayOf(u) /\ DayOf(u) < e
<1> DEFINE p == PerHour * PerDay
<1>1. p \in Nat \ {0} /\ Midnight(e) = e * p
  BY DayMinutes
<1>2. DayOf(t) = t \div p /\ DayOf(u) = u \div p
  BY DEF DayOf
<1> HIDE DEF p
<1>3. /\ t \div p \in Nat /\ (t \div p) * p <= t
      /\ u \div p \in Nat /\ (u \div p) * p <= u /\ u < (u \div p) * p + p
  BY <1>1, QuotientBounds
<1>4. ASSUME e <= u \div p PROVE FALSE
  BY <1>1, <1>3, <1>4, TimesGrows
<1>5. ASSUME u \div p + 1 <= t \div p PROVE FALSE
  <2>1. u \div p + 1 \in Nat /\ (u \div p + 1) * p = (u \div p) * p + p
    BY <1>1, <1>3, TimesGrows
  <2>2. (u \div p + 1) * p <= (t \div p) * p
    BY <1>1, <1>3, <1>5, <2>1, TimesGrows
  <2> QED
    BY <1>1, <1>3, <2>1, <2>2
<1> QED
  BY <1>2, <1>3, <1>4, <1>5

\* The midnight at which a later day begins is ahead.
LEMMA MidnightGrows ==
  ASSUME NEW t \in Nat, NEW e \in Nat, DayOf(t) < e
  PROVE  Midnight(e) \in Nat /\ t < Midnight(e)
<1> DEFINE p == PerHour * PerDay
<1>1. p \in Nat \ {0} /\ \A d \in Nat : Midnight(d) = d * p
  BY DayMinutes
<1>2. DayOf(t) \in Nat /\ t < Midnight(DayOf(t) + 1)
  BY DayIsNat
<1> HIDE DEF p
<1>3. (DayOf(t) + 1) * p <= e * p /\ e * p \in Nat
  BY <1>1, <1>2, TimesGrows
<1> QED
  BY <1>1, <1>2, <1>3

-----------------------------------------------------------------------------
(* Least and greatest elements *)

\* A set of naturals that is not empty has a least element: if it had none,
\* the intervals up to its elements would not be well-founded.
LEMMA LeastNat ==
  ASSUME NEW S \in SUBSET Nat, S # {}
  PROVE  \E m \in S : \A t \in S : m <= t
<1> DEFINE T == { 0 .. m : m \in S }
           R == StrictSubsetOrdering(Nat)
<1>1. IsWellFoundedOn(R, FiniteSubsetsOf(Nat))
  BY FS_StrictSubsetOrderingWellFounded
<1>2. ASSUME NEW m \in S PROVE 0 .. m \in FiniteSubsetsOf(Nat)
  BY FS_Interval DEF FiniteSubsetsOf
<1>3. T \subseteq FiniteSubsetsOf(Nat) /\ T # {}
  BY <1>2
<1>4. PICK x \in T : \A y \in T : <<y, x>> \notin R
  <2> HIDE DEF T, R
  <2> QED
    BY <1>1, <1>3, WFMin
<1>5. PICK m \in S : x = 0 .. m
  OBVIOUS
<1>6. ASSUME NEW t \in S, t < m PROVE FALSE
  <2>1. <<0 .. t, 0 .. m>> \in R
    BY <1>6 DEF StrictSubsetOrdering
  <2> QED
    BY <2>1, <1>4, <1>5
<1> QED
  BY <1>6

\* The least of a set of times is one of them.
LEMMA MinIs ==
  ASSUME NEW S \in SUBSET Nat, S # {}
  PROVE  Min(S) \in S /\ \A t \in S : Min(S) <= t
<1>1. \E m \in S : \A t \in S : m <= t
  BY LeastNat
<1> QED
  BY <1>1 DEF Min

\* The same above, where something bounds the set: its least bound is in it.
LEMMA MaxIs ==
  ASSUME NEW S \in SUBSET Nat, S # {}, NEW b \in Nat, \A t \in S : t <= b
  PROVE  Max(S) \in S /\ \A t \in S : t <= Max(S)
<1> DEFINE B == {n \in Nat : \A t \in S : t <= n}
<1>1. PICK m \in B : \A n \in B : m <= n
  BY LeastNat
<1>2. m \in S
  <2> SUFFICES ASSUME m \notin S PROVE FALSE
    OBVIOUS
  <2>1. PICK t \in S : TRUE
    OBVIOUS
  <2>2. m - 1 \in Nat /\ \A u \in S : u <= m - 1
    BY <1>1, <2>1
  <2> QED
    BY <1>1, <2>2
<1>3. \E x \in S : \A y \in S : y <= x
  BY <1>1, <1>2
<1> QED
  BY <1>3 DEF Max

-----------------------------------------------------------------------------
(* Cron: where the search goes on, it has passed over nothing *)

\* The calendar goes on past what a search from this time looks at.
Covers(base) ==
  \A t \in (base + 1)..(base + Horizon) :
    /\ DayOf(t) \in DOMAIN Dom
    /\ \E d \in DOMAIN Dom : d > DayOf(t) /\ Dom[d] = 1

\* Up to the first of the next month it is the same month.
LEMMA SameMonth ==
  ASSUME NEW d \in DOMAIN Dom, NEW e \in DOMAIN Dom, d < e,
         \A f \in DOMAIN Dom : d < f /\ f < e => Dom[f] # 1
  PROVE  \A f \in d..(e - 1) : f \in DOMAIN Dom /\ Month[f] = Month[d]
<1> DEFINE Bad == {f \in Nat : d <= f /\ f < e /\ ~(f \in DOMAIN Dom /\ Month[f] = Month[d])}
<1> SUFFICES ASSUME Bad # {} PROVE FALSE
  OBVIOUS
<1>1. PICK m \in Bad : \A t \in Bad : m <= t
  <2>1. Bad \in SUBSET Nat
    OBVIOUS
  <2> QED
    BY <2>1, LeastNat
<1>2. d \in Nat /\ e \in Nat /\ m > d
  BY <1>1
<1>3. m - 1 \in DOMAIN Dom /\ Month[m - 1] = Month[d] /\ m - 1 < e
  BY <1>1, <1>2
<1>4. m \in DOMAIN Dom
  <2>1. (m - 1) + 1 \in DOMAIN Dom
    BY <1>3
  <2> QED
    BY <1>2, <2>1
<1>5. Month[m] = Month[m - 1]
  <2>1. Dom[m] # 1
    BY <1>1, <1>2, <1>4
  <2>2. (m - 1) + 1 = m
    BY <1>2
  <2> QED
    BY <1>3, <1>4, <2>1, <2>2
<1> QED
  BY <1>1, <1>3, <1>4, <1>5

\* A jump goes ahead, and what it passes over does not match.
LEMMA JumpPassesNothing ==
  ASSUME NEW c, NEW t \in Nat, DayOf(t) \in DOMAIN Dom,
         \E d \in DOMAIN Dom : d > DayOf(t) /\ Dom[d] = 1, ~Matches(c, t)
  PROVE  /\ Jump(c, t) \in Nat /\ Jump(c, t) > t
         /\ \A u \in t..(Jump(c, t) - 1) : ~Matches(c, u)
<1>1. CASE ~MonthMatches(c, t)
  <2> DEFINE S == {d \in DOMAIN Dom : d > DayOf(t) /\ Dom[d] = 1}
             e == Min(S)
  <2>1. S \in SUBSET Nat /\ S # {}
    OBVIOUS
  <2>2. e \in S /\ \A d \in S : e <= d
    <3> HIDE DEF S
    <3> QED
      BY <2>1, MinIs
  <2>3. Jump(c, t) = Midnight(e)
    BY <1>1 DEF Jump, FirstOfNextMonth
  <2> HIDE DEF e
  <2>4. e \in DOMAIN Dom /\ e \in Nat /\ DayOf(t) < e /\ DayOf(t) \in Nat
    BY <2>2, DayIsNat
  <2>5. \A f \in DOMAIN Dom : DayOf(t) < f /\ f < e => Dom[f] # 1
    BY <2>2, <2>4
  <2>6. \A f \in DayOf(t)..(e - 1) : Month[f] = Month[DayOf(t)]
    BY <2>4, <2>5, SameMonth
  <2>7. Midnight(e) \in Nat /\ t < Midnight(e)
    BY <2>4, MidnightGrows
  <2>8. ASSUME NEW u \in t..(Midnight(e) - 1) PROVE ~Matches(c, u)
    <3>1. u \in Nat /\ t <= u /\ u < Midnight(e)
      BY <2>7
    <3>2. DayOf(u) \in DayOf(t)..(e - 1)
      BY <2>4, <3>1, DaysBefore, DayIsNat
    <3> QED
      BY <1>1, <2>6, <3>2 DEF Matches, MonthMatches
  <2> QED
    BY <2>3, <2>7, <2>8
<1>2. CASE MonthMatches(c, t) /\ ~DayMatches(c, t)
  <2>1. Jump(c, t) = Midnight(DayOf(t) + 1)
    BY <1>2 DEF Jump, NextMidnight
  <2>2. DayOf(t) \in Nat /\ Midnight(DayOf(t) + 1) \in Nat /\ t < Midnight(DayOf(t) + 1)
    BY DayIsNat
  <2>3. ASSUME NEW u \in t..(Midnight(DayOf(t) + 1) - 1) PROVE ~Matches(c, u)
    <3>1. u \in Nat /\ t <= u /\ u < Midnight(DayOf(t) + 1)
      BY <2>2
    <3>2. DayOf(u) = DayOf(t)
      <4>1. DayOf(t) <= DayOf(u) /\ DayOf(u) < DayOf(t) + 1
        BY <2>2, <3>1, DaysBefore
      <4>2. DayOf(t) \in Nat /\ DayOf(u) \in Nat
        BY <3>1, DayIsNat
      <4> QED
        BY <4>1, <4>2
    <3> QED
      BY <1>2, <3>2 DEF Matches, DayMatches
  <2> QED
    BY <2>1, <2>2, <2>3
<1>3. CASE MonthMatches(c, t) /\ DayMatches(c, t) /\ ~HourMatches(c, t)
  <2> DEFINE j == (t \div PerHour + 1) * PerHour
  <2>1. Jump(c, t) = j
    BY <1>3 DEF Jump, NextFullHour
  <2>2. j \in Nat /\ t < j
    <3>1. t \div PerHour \in Nat /\ t < (t \div PerHour) * PerHour + PerHour
      BY QuotientBounds
    <3>2. (t \div PerHour + 1) * PerHour = (t \div PerHour) * PerHour + PerHour
      BY <3>1, TimesGrows
    <3> QED
      BY <3>1, <3>2
  <2>3. ASSUME NEW u \in t..(j - 1) PROVE ~Matches(c, u)
    <3>1. u \in Nat /\ t <= u /\ u < j
      BY <2>2
    <3>2. u \div PerHour = t \div PerHour
      BY <3>1, SamePeriod
    <3> QED
      BY <1>3, <3>2 DEF Matches, HourMatches, HourOf
  <2> HIDE DEF j
  <2> QED
    BY <2>1, <2>2, <2>3
<1>4. CASE MonthMatches(c, t) /\ DayMatches(c, t) /\ HourMatches(c, t)
  <2>1. Jump(c, t) = t + 1
    BY <1>4 DEF Jump
  <2> QED
    BY <2>1
<1> QED
  BY <1>1, <1>2, <1>3, <1>4

-----------------------------------------------------------------------------
(* Cron: what the search returns *)

\* The matches a search that stands at t can still return, and the first one.
Ahead(c, t, limit) == {u \in t..(limit - 1) : Matches(c, u)}
FirstAhead(c, t, limit) == IF Ahead(c, t, limit) = {} THEN Zero ELSE Min(Ahead(c, t, limit))
From(base) == {u \in Nat : u > base}
\* one step of the search, as a function of where it goes on
Searches(f, c, base, limit) ==
  f = [t \in From(base) |-> IF t >= limit THEN Zero
                            ELSE IF Matches(c, t) THEN t
                            ELSE f[Jump(c, t)]]

\* Next is what a function that takes the steps of the search returns for the minute after base.
LEMMA NextSearches ==
  ASSUME NEW c, NEW base
  PROVE  Next(c, base) = (CHOOSE f : Searches(f, c, base, base + 1 + Horizon))[base + 1]
BY DEF Next, Searches, From

\* The first match ahead is the place itself, or the one where the search goes on.
LEMMA FirstAheadStep ==
  ASSUME NEW c, NEW base \in Nat, Covers(base), NEW limit, limit = base + 1 + Horizon,
         NEW t \in From(base), t < limit
  PROVE  /\ Matches(c, t) => FirstAhead(c, t, limit) = t
         /\ ~Matches(c, t) => /\ Jump(c, t) \in From(base) /\ Jump(c, t) > t
                              /\ FirstAhead(c, t, limit) = FirstAhead(c, Jump(c, t), limit)
<1>1. limit \in Nat /\ t \in Nat /\ t \in (base + 1)..(base + Horizon)
  BY DEF From
<1>2. ASSUME Matches(c, t) PROVE FirstAhead(c, t, limit) = t
  <2>1. t \in Ahead(c, t, limit) /\ Ahead(c, t, limit) \in SUBSET Nat /\ \A u \in Ahead(c, t, limit) : t <= u
    BY <1>1, <1>2 DEF Ahead
  <2>2. Min(Ahead(c, t, limit)) \in Ahead(c, t, limit) /\ Min(Ahead(c, t, limit)) <= t
    BY <2>1, MinIs
  <2>3. Min(Ahead(c, t, limit)) = t
    BY <1>1, <2>1, <2>2
  <2> QED
    BY <2>1, <2>3 DEF FirstAhead
<1>3. ASSUME ~Matches(c, t)
      PROVE  /\ Jump(c, t) \in From(base) /\ Jump(c, t) > t
             /\ FirstAhead(c, t, limit) = FirstAhead(c, Jump(c, t), limit)
  <2>1. /\ Jump(c, t) \in Nat /\ Jump(c, t) > t
        /\ \A u \in t..(Jump(c, t) - 1) : ~Matches(c, u)
    BY <1>1, <1>3, JumpPassesNothing DEF Covers
  <2>2. Ahead(c, t, limit) = Ahead(c, Jump(c, t), limit)
    BY <1>1, <2>1 DEF Ahead
  <2> QED
    BY <1>1, <2>1, <2>2 DEF FirstAhead, From
<1> QED
  BY <1>2, <1>3

\* So the function that returns the first match ahead is a search: there is one.
LEMMA FirstAheadSearches ==
  ASSUME NEW c, NEW base \in Nat, Covers(base), NEW limit, limit = base + 1 + Horizon
  PROVE  Searches([t \in From(base) |-> FirstAhead(c, t, limit)], c, base, limit)
<1> DEFINE g == [t \in From(base) |-> FirstAhead(c, t, limit)]
<1>1. ASSUME NEW t \in From(base)
      PROVE  FirstAhead(c, t, limit) =
               IF t >= limit THEN Zero ELSE IF Matches(c, t) THEN t ELSE g[Jump(c, t)]
  <2>1. CASE t >= limit
    <3>1. Ahead(c, t, limit) = {}
      BY <2>1 DEF Ahead, From
    <3> QED
      BY <2>1, <3>1 DEF FirstAhead
  <2>2. CASE ~(t >= limit)
    <3>1. t < limit
      BY <2>2 DEF From
    <3> QED
      BY <2>2, <3>1, FirstAheadStep
  <2> QED
    BY <2>1, <2>2
<1> QED
  BY <1>1 DEF Searches

\* And every search returns it: else take the last place where one does not.
LEMMA SearchIsFirstAhead ==
  ASSUME NEW c, NEW base \in Nat, Covers(base), NEW limit, limit = base + 1 + Horizon,
         NEW f, Searches(f, c, base, limit), NEW t \in From(base)
  PROVE  f[t] = FirstAhead(c, t, limit)
<1>1. limit \in Nat /\ From(base) \subseteq Nat
  BY DEF From
<1>2. \A u \in From(base) :
        f[u] = IF u >= limit THEN Zero ELSE IF Matches(c, u) THEN u ELSE f[Jump(c, u)]
  BY DEF Searches
<1>3. ASSUME NEW u \in From(base), u >= limit PROVE f[u] = FirstAhead(c, u, limit)
  <2>1. Ahead(c, u, limit) = {}
    BY <1>1, <1>3 DEF Ahead
  <2> QED
    BY <1>2, <1>3, <2>1 DEF FirstAhead
<1> DEFINE Bad == {n \in Nat : \E u \in From(base) : n = limit - u /\ u < limit /\ f[u] # FirstAhead(c, u, limit)}
<1>4. Bad = {}
  <2> SUFFICES ASSUME Bad # {} PROVE FALSE
    OBVIOUS
  <2>1. PICK n \in Bad : \A k \in Bad : n <= k
    <3>1. Bad \in SUBSET Nat
      OBVIOUS
    <3> HIDE DEF Bad
    <3> QED
      BY <3>1, LeastNat
  <2>2. PICK u \in From(base) : n = limit - u /\ u < limit /\ f[u] # FirstAhead(c, u, limit)
    BY <2>1
  <2>3. ~Matches(c, u)
    <3> SUFFICES ASSUME Matches(c, u) PROVE FALSE
      OBVIOUS
    <3>1. ~(u >= limit)
      BY <1>1, <2>2
    <3>2. f[u] = u
      BY <1>2, <3>1
    <3>3. FirstAhead(c, u, limit) = u
      <4> HIDE DEF Bad
      <4>1. u < limit
        BY <2>2
      <4> QED
        BY <4>1, FirstAheadStep
    <3> QED
      BY <2>2, <3>2, <3>3
  <2>4. /\ Jump(c, u) \in From(base) /\ Jump(c, u) > u
        /\ FirstAhead(c, u, limit) = FirstAhead(c, Jump(c, u), limit)
    BY <2>2, <2>3, FirstAheadStep
  <2>5. f[u] = f[Jump(c, u)]
    BY <1>1, <1>2, <2>2, <2>3
  <2>6. f[Jump(c, u)] = FirstAhead(c, Jump(c, u), limit)
    <3>1. CASE Jump(c, u) >= limit
      BY <1>3, <2>4, <3>1
    <3>2. CASE Jump(c, u) < limit
      <4>1. limit - Jump(c, u) \in Nat /\ limit - Jump(c, u) < n
        BY <1>1, <2>2, <2>4, <3>2
      <4> QED
        BY <1>1, <2>1, <2>4, <3>2, <4>1
    <3> QED
      BY <1>1, <2>4, <3>1, <3>2
  <2> QED
    BY <2>2, <2>4, <2>5, <2>6
<1>5. CASE t < limit
  <2>1. limit - t \in Nat
    BY <1>1, <1>5
  <2> QED
    BY <1>4, <1>5, <2>1
<1> QED
  BY <1>1, <1>3, <1>5

(* Next finds the earliest fire, and finds it whenever there is one within    *)
(* the horizon, for every expression and every calendar: the jumps over       *)
(* months, days and hours pass over nothing (cron.go:110-140).                *)
THEOREM NextIsEarliestCorrect ==
  ASSUME NEW c, NEW base \in Nat, Covers(base)
  PROVE  NextIsEarliest(c, base)
<1> DEFINE limit == base + 1 + Horizon
           f == CHOOSE h : Searches(h, c, base, limit)
<1>1. Searches(f, c, base, limit)
  <2>1. \E h : Searches(h, c, base, limit)
    BY FirstAheadSearches
  <2> QED
    BY <2>1
<1>2. Next(c, base) = f[base + 1]
  BY NextSearches
<1>3. base + 1 \in From(base)
  BY DEF From
<1>4. f[base + 1] = FirstAhead(c, base + 1, limit)
  <2> HIDE DEF f
  <2> QED
    BY <1>1, <1>3, SearchIsFirstAhead
<1>5. Ahead(c, base + 1, limit) = {t \in (base + 1)..(base + Horizon) : Matches(c, t)}
  BY DEF Ahead
<1> QED
  BY <1>2, <1>4, <1>5 DEF NextIsEarliest, FirstAhead

HIDE CronAssumption
USE ScheduleAssumption DEF ScheduleAssumption

-----------------------------------------------------------------------------
(* Schedule: the invariant *)

Run == [id : Nat, sched : Scheds, started : Times, status : {"running", "completed", "failed"}]
Disp == [pc : {"idle", "start", "last", "record"}, todo : SUBSET Scheds, sched : Scheds,
         seen : Nat, at : Times]

\* Ids are naturals, and something bounds them: the next one is above all.
SchedShape ==
  /\ SchedTypeOK
  /\ runs \subseteq Run /\ \E n \in Nat : \A r \in runs : r.id <= n
  /\ disp \in [Dispatchers -> Disp]

\* A schedule that was never created has no run and is on nobody's list.
NothingBefore ==
  \A s \in Scheds : rows[s].st = "none" =>
    /\ RunsOf(s) = {}
    /\ \A d \in Dispatchers : s \notin disp[d].todo /\ ~(disp[d].pc = "record" /\ disp[d].sched = s)

\* The fire after a run, and the runs before it.
NextFire(r) == Next(rows[r.sched].cron, r.started)
Within(q, r) == r.started <= q.started /\ q.started < NextFire(r)

\* One dispatcher begins no two runs between two fires, and when it is about
\* to begin one the fire after each of its earlier ones has come.
Apart(own) ==
  \A r, q \in runs : r # q /\ r.sched = q.sched /\ own[r.id] = own[q.id] => ~Within(q, r)
FireHasCome(own) ==
  \A d \in Dispatchers : disp[d].pc = "record" =>
    \A r \in RunsOf(disp[d].sched) : own[r.id] = d => NextFire(r) <= disp[d].at
Begun == \E own \in [Nat -> Dispatchers] : Apart(own) /\ FireHasCome(own)

SchedInv == SchedShape /\ NothingBefore

\* Every expression in use fires again within the horizon, as long as time is
\* looked at. The code does not see to it: for one that does not, whatever is
\* not due counts as due.
KeepsFiring ==
  \A c \in Crons : \A t \in (Begin - 1)..MaxTime : Covers(t) /\ Next(c, t) # Zero

-----------------------------------------------------------------------------
(* Schedule: what the helpers return *)

\* A fire that is found lies within the horizon, matches, and no match is before it.
LEMMA NextFacts ==
  ASSUME NEW c, NEW base \in Nat, Covers(base), Next(c, base) # Zero
  PROVE  /\ Next(c, base) \in Nat /\ base < Next(c, base) /\ Next(c, base) <= base + Horizon
         /\ Matches(c, Next(c, base))
         /\ \A t \in (base + 1)..(base + Horizon) : Matches(c, t) => Next(c, base) <= t
<1> DEFINE fires == {t \in (base + 1)..(base + Horizon) : Matches(c, t)}
<1>1. Next(c, base) = IF fires = {} THEN Zero ELSE Min(fires)
  BY NextIsEarliestCorrect DEF NextIsEarliest
<1>2. fires \in SUBSET Nat
  OBVIOUS
<1> HIDE DEF fires
<1>3. Next(c, base) \in fires /\ \A t \in fires : Next(c, base) <= t
  BY <1>1, <1>2, MinIs
<1> QED
  BY <1>3 DEF fires

\* The later a time, the later the fire after it.
LEMMA NextGrows ==
  ASSUME NEW c, NEW a \in Nat, NEW b \in Nat, a <= b, Covers(a), Covers(b),
         Next(c, a) # Zero, Next(c, b) # Zero
  PROVE  Next(c, a) <= Next(c, b)
<1>1. /\ Next(c, a) \in Nat /\ Next(c, a) <= a + Horizon
      /\ \A t \in (a + 1)..(a + Horizon) : Matches(c, t) => Next(c, a) <= t
  BY NextFacts
<1>2. Next(c, b) \in Nat /\ b < Next(c, b) /\ Matches(c, Next(c, b))
  BY NextFacts
<1>3. Horizon \in Nat
  BY CronAssumption DEF CronAssumption
<1>4. CASE Next(c, b) <= a + Horizon
  BY <1>1, <1>2, <1>3, <1>4
<1>5. CASE Next(c, b) > a + Horizon
  BY <1>1, <1>2, <1>3, <1>5
<1> QED
  BY <1>1, <1>2, <1>3, <1>4, <1>5

\* What SchedShape says of one run.
LEMMA RunParts ==
  ASSUME SchedShape, NEW r \in runs
  PROVE  /\ r.id \in Nat /\ r.sched \in Scheds /\ r.started \in Times /\ r.started \in Nat
         /\ r.started >= Begin /\ r.started <= MaxTime
         /\ rows[r.sched].cron \in Crons
<1>1. r \in Run /\ rows \in [Scheds -> [st : {"none", "on", "off", "gone"}, cron : Crons, created : Times]]
  BY DEF SchedShape, SchedTypeOK
<1>2. r.id \in Nat /\ r.sched \in Scheds /\ r.started \in Times
  BY <1>1 DEF Run
<1> QED
  BY <1>1, <1>2 DEF Times

\* A new row id is above all others.
LEMMA NextIdIsNew ==
  ASSUME SchedShape
  PROVE  NextId \in Nat /\ \A r \in runs : r.id < NextId
<1> DEFINE S == {r.id : r \in runs} \cup {0}
<1>1. S \in SUBSET Nat /\ S # {}
  BY RunParts
<1>2. PICK n \in Nat : \A t \in S : t <= n
  BY DEF SchedShape
<1>3. Max(S) \in S /\ \A t \in S : t <= Max(S)
  <2> HIDE DEF S
  <2> QED
    BY <1>1, <1>2, MaxIs
<1>4. NextId = Max(S) + 1
  BY DEF NextId
<1>5. Max(S) \in Nat /\ \A r \in runs : r.id \in Nat /\ r.id <= Max(S)
  BY <1>1, <1>3, RunParts
<1> HIDE DEF S
<1> QED
  BY <1>4, <1>5

\* The last run of a schedule is the latest.
LEMMA LastTimeIs ==
  ASSUME SchedShape, NEW s \in Scheds
  PROVE  /\ LastTime(s) \in (Begin - 1)..MaxTime
         /\ \A r \in RunsOf(s) : r.started <= LastTime(s)
<1>1. CASE RunsOf(s) = {}
  <2>1. rows[s].created \in Times
    BY DEF SchedShape, SchedTypeOK
  <2> QED
    BY <1>1, <2>1 DEF LastTime, Times
<1>2. CASE RunsOf(s) # {}
  <2> DEFINE S == {r.started : r \in RunsOf(s)}
  <2>1. S \in SUBSET Nat /\ S # {} /\ \A t \in S : t <= MaxTime /\ t >= Begin
    BY <1>2, RunParts DEF RunsOf
  <2>2. Max(S) \in S /\ \A t \in S : t <= Max(S)
    <3> HIDE DEF S
    <3> QED
      BY <2>1, MaxIs
  <2>3. LastTime(s) = Max(S)
    BY <1>2 DEF LastTime
  <2>4. \A r \in RunsOf(s) : r.started <= Max(S)
    BY <2>2
  <2>5. Max(S) \in Nat /\ Begin <= Max(S) /\ Max(S) <= MaxTime
    BY <2>1, <2>2
  <2> HIDE DEF S
  <2>6. Max(S) \in (Begin - 1)..MaxTime
    BY <2>5
  <2> QED
    BY <2>3, <2>4, <2>6
<1> QED
  BY <1>1, <1>2

\* What a dispatcher may be, and that one moves alone.
LEMMA PendingIsDisp == Pending \in Disp /\ Pending.pc = "idle" /\ Pending.todo = {}
<1>1. (CHOOSE s \in Scheds : TRUE) \in Scheds
  OBVIOUS
<1>2. Begin \in Times
  BY ScheduleAssumption DEF Times
<1> QED
  BY <1>1, <1>2 DEF Pending, Disp

\* Whatever is not about the dispatchers' runs keeps who has begun what.
LEMMA BegunKept ==
  ASSUME SchedShape, Begun, runs' \subseteq runs,
         \A r \in runs : rows'[r.sched].cron = rows[r.sched].cron,
         \A d \in Dispatchers : disp'[d].pc = "record" =>
           disp[d].pc = "record" /\ disp'[d].sched = disp[d].sched /\ disp'[d].at = disp[d].at
  PROVE  Begun'
<1>1. PICK own \in [Nat -> Dispatchers] : Apart(own) /\ FireHasCome(own)
  BY DEF Begun
<1>2. \A r \in runs : NextFire(r)' = NextFire(r)
  BY DEF NextFire
<1>3. Apart(own)'
  BY <1>1, <1>2 DEF Apart, Within
<1>4. FireHasCome(own)'
  BY <1>1, <1>2 DEF FireHasCome, RunsOf
<1> QED
  BY <1>3, <1>4 DEF Begun

\* One dispatcher moves, with schedules that were created, and nothing else
\* changes.
Created(x) ==
  \A s \in Scheds : rows[s].st = "none" => s \notin x.todo /\ ~(x.pc = "record" /\ x.sched = s)

\* A dispatcher that moves to a well-typed place, with schedules that exist, keeps SchedInv.
LEMMA DispMoves ==
  ASSUME SchedInv, NEW d \in Dispatchers, NEW x \in Disp, disp' = [disp EXCEPT ![d] = x], Created(x),
         UNCHANGED <<now, rows, runs, execs, deleting, up>>
  PROVE  /\ SchedInv' /\ disp'[d] = x
         /\ \A e \in Dispatchers : e # d => disp'[e] = disp[e]
<1>1. /\ disp' \in [Dispatchers -> Disp] /\ disp'[d] = x
      /\ \A e \in Dispatchers : e # d => disp'[e] = disp[e]
  BY DEF SchedInv, SchedShape
<1>2. SchedTypeOK'
  BY <1>1 DEF SchedInv, SchedShape, SchedTypeOK, Disp
<1>3. SchedShape'
  BY <1>1, <1>2 DEF SchedInv, SchedShape
<1>4. NothingBefore'
  BY <1>1 DEF SchedInv, NothingBefore, RunsOf, Created
<1> QED
  BY <1>1, <1>3, <1>4 DEF SchedInv

\* The same for a dispatcher that is not about to begin a run.
LEMMA DispMovesOn ==
  ASSUME SchedInv, NEW d \in Dispatchers, NEW x \in Disp, disp' = [disp EXCEPT ![d] = x],
         \A s \in x.todo : rows[s].st # "none", x.pc # "record",
         UNCHANGED <<now, rows, runs, execs, deleting, up>>
  PROVE  SchedInv' /\ (Begun => Begun')
<1>1. /\ SchedInv' /\ disp'[d] = x
      /\ \A e \in Dispatchers : e # d => disp'[e] = disp[e]
  <2>1. Created(x)
    BY DEF Created
  <2> QED
    BY <2>1, DispMoves
<1>2. Begun => Begun'
  BY <1>1, BegunKept DEF SchedInv
<1> QED
  BY <1>1, <1>2

\* What SchedInv says of one dispatcher.
LEMMA DispParts ==
  ASSUME SchedInv, NEW d \in Dispatchers
  PROVE  /\ disp[d] \in Disp /\ disp[d].todo \subseteq Scheds /\ disp[d].sched \in Scheds
         /\ disp[d].at \in Times /\ now \in Times
         /\ \A s \in disp[d].todo : rows[s].st # "none"
         /\ disp[d].pc = "record" => rows[disp[d].sched].st # "none"
BY DEF SchedInv, SchedShape, SchedTypeOK, Disp, NothingBefore

-----------------------------------------------------------------------------
(* Schedule: the tools, the process and time *)

\* Rows and runs change; the expression of a schedule with runs does not.
LEMMA RowsChange ==
  ASSUME SchedInv, runs' \subseteq runs, now' \in Times, up' \in BOOLEAN, deleting' \subseteq Scheds,
         rows' \in [Scheds -> [st : {"none", "on", "off", "gone"}, cron : Crons, created : Times]],
         \A s \in Scheds : /\ rows'[s].st = "none" => rows[s].st = "none"
                           /\ rows[s].st # "none" => rows'[s].cron = rows[s].cron,
         UNCHANGED <<disp, execs>>
  PROVE  SchedInv' /\ (Begun => Begun')
<1>1. SchedTypeOK'
  BY DEF SchedInv, SchedShape, SchedTypeOK
<1>2. SchedShape'
  BY <1>1 DEF SchedInv, SchedShape
<1>3. NothingBefore'
  BY DEF SchedInv, NothingBefore, RunsOf
<1>4. \A r \in runs : rows'[r.sched].cron = rows[r.sched].cron
  <2>1. \A r \in runs : r.sched \in Scheds /\ rows[r.sched].st # "none"
    BY RunParts DEF SchedInv, NothingBefore, RunsOf
  <2> QED
    BY <2>1
<1>5. Begun => Begun'
  BY <1>4, BegunKept DEF SchedInv
<1> QED
  BY <1>2, <1>3, <1>5 DEF SchedInv

\* Creating, disabling and deleting begin no run; runs that go take their schedule's history along.
LEMMA SchedToolKeeps ==
  ASSUME SchedInv, NEW s \in Scheds, Create(s) \/ Disable(s) \/ DeleteRuns(s) \/ DeleteRow(s)
  PROVE  SchedInv' /\ (Begun => Begun')
<1> DEFINE Row == [st : {"none", "on", "off", "gone"}, cron : Crons, created : Times]
<1>1. /\ rows \in [Scheds -> Row] /\ now \in Times /\ up \in BOOLEAN /\ deleting \subseteq Scheds
  BY DEF SchedInv, SchedShape, SchedTypeOK
<1>2. rows[s] \in Row
  BY <1>1
<1>3. CASE Create(s)
  <2>1. PICK c \in Crons : rows' = [rows EXCEPT ![s] = [st |-> "on", cron |-> c, created |-> now]]
    BY <1>3 DEF Create
  <2>2. [st |-> "on", cron |-> c, created |-> now] \in Row
    BY <1>1
  <2>3. rows' \in [Scheds -> Row] /\ rows'[s].st = "on" /\ \A t \in Scheds : t # s => rows'[t] = rows[t]
    BY <1>1, <2>1, <2>2
  <2>4. rows[s].st = "none" /\ UNCHANGED <<now, runs, disp, execs, deleting, up>>
    BY <1>3 DEF Create
  <2>5. \A t \in Scheds : /\ rows'[t].st = "none" => rows[t].st = "none"
                          /\ rows[t].st # "none" => rows'[t].cron = rows[t].cron
    BY <2>3, <2>4
  <2> HIDE DEF Row
  <2> QED
    BY <1>1, <2>3, <2>4, <2>5, RowsChange DEF Row
<1>4. ASSUME NEW st \in {"off", "gone"}, rows' = [rows EXCEPT ![s].st = st], runs' \subseteq runs,
             deleting' \subseteq Scheds, UNCHANGED <<now, disp, execs, up>>
      PROVE  SchedInv' /\ (Begun => Begun')
  <2>1. [rows[s] EXCEPT !.st = st] \in Row /\ [rows[s] EXCEPT !.st = st].cron = rows[s].cron
        /\ [rows[s] EXCEPT !.st = st].st = st
    BY <1>2
  <2>2. rows'[s] = [rows[s] EXCEPT !.st = st] /\ \A t \in Scheds : t # s => rows'[t] = rows[t]
    BY <1>1, <1>4
  <2>3. rows' \in [Scheds -> Row]
    BY <1>1, <1>4, <2>1
  <2>4. \A t \in Scheds : /\ rows'[t].st = "none" => rows[t].st = "none"
                          /\ rows[t].st # "none" => rows'[t].cron = rows[t].cron
    BY <2>1, <2>2
  <2> QED
    BY <1>1, <1>4, <2>3, <2>4, RowsChange
<1>5. ASSUME UNCHANGED rows, runs' \subseteq runs, deleting' \subseteq Scheds,
             UNCHANGED <<now, disp, execs, up>>
      PROVE  SchedInv' /\ (Begun => Begun')
  BY <1>1, <1>5, RowsChange
<1>6. CASE Disable(s)
  BY <1>1, <1>4, <1>6 DEF Disable
<1>7. CASE DeleteRuns(s)
  BY <1>1, <1>5, <1>7 DEF DeleteRuns
<1>8. CASE DeleteRow(s)
  BY <1>1, <1>4, <1>5, <1>8 DEF DeleteRow
<1> QED
  BY <1>3, <1>6, <1>7, <1>8

\* Time passing moves no dispatcher.
LEMMA ClockKeeps ==
  ASSUME SchedInv, Clock \/ UNCHANGED svars
  PROVE  SchedInv' /\ (Begun => Begun')
<1>1. /\ rows \in [Scheds -> [st : {"none", "on", "off", "gone"}, cron : Crons, created : Times]]
      /\ now \in Times /\ up \in BOOLEAN /\ deleting \subseteq Scheds
  BY DEF SchedInv, SchedShape, SchedTypeOK
<1>2. UNCHANGED <<rows, runs, disp, execs, deleting, up>> /\ now' \in Times
  BY <1>1 DEF Clock, svars, Times
<1> QED
  BY <1>1, <1>2, RowsChange

\* A stop leaves the tables, and a start the recovery to do.
LEMMA ProcessKeeps ==
  ASSUME SchedInv, Stop \/ Start
  PROVE  SchedInv' /\ (Begun => Begun')
<1>1. CASE Stop
  <2>1. disp' = [d \in Dispatchers |-> Pending] /\ UNCHANGED <<now, rows, runs>>
        /\ execs' = {} /\ deleting' = {} /\ up' = FALSE
    BY <1>1 DEF Stop
  <2>2. /\ disp' \in [Dispatchers -> Disp]
        /\ \A d \in Dispatchers : disp'[d].pc = "idle" /\ disp'[d].todo = {}
    BY <2>1, PendingIsDisp
  <2>3. SchedTypeOK'
    BY <2>1, <2>2 DEF SchedInv, SchedShape, SchedTypeOK, Disp
  <2>4. SchedShape'
    BY <2>1, <2>2, <2>3 DEF SchedInv, SchedShape
  <2>5. NothingBefore'
    BY <2>1, <2>2 DEF SchedInv, NothingBefore, RunsOf
  <2>6. Begun => Begun'
    BY <2>1, <2>2, BegunKept DEF SchedInv
  <2> QED
    BY <2>4, <2>5, <2>6 DEF SchedInv
<1>2. CASE Start
  <2>1. "recovery" \in Dispatchers /\ disp["recovery"] \in Disp /\ up' = TRUE
        /\ disp' = [disp EXCEPT !["recovery"].pc = "start"]
        /\ UNCHANGED <<now, rows, runs, execs, deleting>>
    BY <1>2, DispParts DEF Start, Dispatchers
  <2>2. ASSUME NEW x, x = [disp["recovery"] EXCEPT !.pc = "start"]
        PROVE  x \in Disp /\ x.pc = "start" /\ x.todo = disp["recovery"].todo
    BY <2>1, <2>2 DEF Disp
  <2>3. disp \in [Dispatchers -> Disp]
    BY DEF SchedInv, SchedShape
  <2>4. /\ disp'["recovery"] = [disp["recovery"] EXCEPT !.pc = "start"]
        /\ \A d \in Dispatchers : d # "recovery" => disp'[d] = disp[d]
    BY <2>1, <2>3
  <2>5. disp' \in [Dispatchers -> Disp]
    BY <2>1, <2>2, <2>3
  <2>6. disp'["recovery"].pc = "start" /\ disp'["recovery"].todo = disp["recovery"].todo
    BY <2>2, <2>4
  <2>7. SchedTypeOK'
    BY <2>1, <2>5 DEF SchedInv, SchedShape, SchedTypeOK, Disp
  <2>8. SchedShape'
    BY <2>1, <2>5, <2>7 DEF SchedInv, SchedShape
  <2>9. NothingBefore'
    BY <2>1, <2>4, <2>6 DEF SchedInv, NothingBefore, RunsOf
  <2>10. Begun => Begun'
    BY <2>1, <2>4, <2>6, BegunKept DEF SchedInv
  <2> QED
    BY <2>8, <2>9, <2>10 DEF SchedInv
<1> QED
  BY <1>1, <1>2

-----------------------------------------------------------------------------
(* Schedule: the dispatchers and the runs *)

\* A dispatcher lists schedules that were created.
LEMMA ListKeeps ==
  ASSUME SchedInv, NEW d \in Dispatchers, List(d)
  PROVE  SchedInv' /\ (Begun => Begun')
<1> DEFINE on == {s \in Scheds : rows[s].st = "on"}
           x == [Pending EXCEPT !.pc = "last", !.at = now, !.todo = on]
<1>1. x \in Disp /\ x.pc = "last" /\ x.todo = on
  <2>1. now \in Times /\ on \subseteq Scheds
    BY DispParts
  <2> HIDE DEF on
  <2> QED
    BY <2>1, PendingIsDisp DEF Disp
<1>2. disp' = [disp EXCEPT ![d] = x] /\ UNCHANGED <<now, rows, runs, execs, deleting, up>>
  BY DEF List
<1> HIDE DEF x
<1> QED
  BY <1>1, <1>2, DispMovesOn

\* A dispatcher goes on with the rest of its list.
LEMMA OnwardIsDisp ==
  ASSUME SchedInv, NEW d \in Dispatchers
  PROVE  Onward(d) \in Disp /\ Onward(d).pc = "last" /\ Onward(d).todo = disp[d].todo
<1>1. disp[d].at \in Times /\ disp[d].todo \subseteq Scheds
  BY DispParts
<1> QED
  BY <1>1, PendingIsDisp DEF Onward, Disp

\* A dispatcher takes a schedule off its list.
LEMMA TodoShrinks ==
  ASSUME SchedInv, NEW d \in Dispatchers, NEW s
  PROVE  LET x == [disp[d] EXCEPT !.todo = @ \ {s}]
         IN  x \in Disp /\ x.pc = disp[d].pc /\ x.todo = disp[d].todo \ {s}
BY DispParts DEF Disp

\* A dispatcher that passes over a schedule begins no run of it.
LEMMA PassesOver ==
  ASSUME SchedInv, NEW d \in Dispatchers, DispatchFails(d) \/ DispatchDone(d)
  PROVE  SchedInv' /\ (Begun => Begun')
<1>1. UNCHANGED <<now, rows, runs, execs, deleting, up>>
  BY DEF DispatchFails, DispatchDone
<1>2. CASE disp' = [disp EXCEPT ![d] = Pending]
  BY <1>1, <1>2, PendingIsDisp, DispMovesOn
<1>3. CASE disp' = [disp EXCEPT ![d] = Onward(d)]
  BY <1>1, <1>3, OnwardIsDisp, DispParts, DispMovesOn
<1>4. ASSUME NEW s \in disp[d].todo, disp[d].pc = "last", disp' = [disp EXCEPT ![d].todo = @ \ {s}]
      PROVE  SchedInv' /\ (Begun => Begun')
  <2> DEFINE x == [disp[d] EXCEPT !.todo = @ \ {s}]
  <2>1. x \in Disp /\ x.pc = "last" /\ \A t \in x.todo : rows[t].st # "none"
    BY <1>4, TodoShrinks, DispParts
  <2>2. disp' = [disp EXCEPT ![d] = x]
    BY <1>4
  <2> HIDE DEF x
  <2> QED
    BY <1>1, <2>1, <2>2, DispMovesOn
<1> QED
  BY <1>2, <1>3, <1>4 DEF DispatchFails, DispatchDone

\* What is due has fired by the time looked at, whatever runs came before.
LEMMA DueHasFired ==
  ASSUME SchedInv, KeepsFiring, NEW d \in Dispatchers, NEW s \in Scheds, NEW r \in RunsOf(s),
         \/ Due(rows[s].cron, LastTime(s), disp[d].at)
         \/ JustDue(d, rows[s].cron, LastTime(s), disp[d].at)
  PROVE  NextFire(r) <= disp[d].at
<1> DEFINE c == rows[s].cron
           last == LastTime(s)
           at == disp[d].at
<1>1. r \in runs /\ r.sched = s
  BY DEF RunsOf
<1>2. /\ c \in Crons /\ r.started \in Nat /\ r.started >= Begin /\ r.started <= MaxTime
  BY <1>1, RunParts DEF SchedInv
<1>3. last \in (Begin - 1)..MaxTime /\ r.started <= last /\ last \in Nat
  <2>1. LastTime(s) \in (Begin - 1)..MaxTime /\ r.started <= LastTime(s)
    BY LastTimeIs DEF SchedInv
  <2> QED
    BY <1>2, <2>1
<1>4. at \in Nat
  BY DispParts DEF Times
<1>5. NextFire(r) = Next(c, r.started)
  BY <1>1 DEF NextFire
<1>6. ~(Next(c, last) > at) \/ Next(c, last) = at
  BY DEF Due, JustDue
<1> HIDE DEF c, last, at
<1>7. /\ Covers(last) /\ Next(c, last) # Zero
      /\ Covers(r.started) /\ Next(c, r.started) # Zero
  BY <1>2, <1>3 DEF KeepsFiring
<1>8. Next(c, last) \in Nat /\ Next(c, r.started) \in Nat
  BY <1>2, <1>3, <1>7, NextFacts
<1>9. Next(c, r.started) <= Next(c, last)
  BY <1>2, <1>3, <1>7, NextGrows
<1> QED
  BY <1>4, <1>5, <1>6, <1>8, <1>9 DEF at

\* A dispatcher that has found a schedule due is about to begin a run.
LEMMA TakesUp ==
  ASSUME SchedInv, NEW d \in Dispatchers, NEW s \in disp[d].todo, NEW x \in Disp,
         x.pc = "record", x.sched = s, x.at = disp[d].at, x.todo = disp[d].todo \ {s},
         disp' = [disp EXCEPT ![d] = x], UNCHANGED <<now, rows, runs, execs, deleting, up>>,
         Due(rows[s].cron, LastTime(s), disp[d].at)
  PROVE  SchedInv' /\ (KeepsFiring /\ Begun => Begun')
<1>1. s \in Scheds /\ rows[s].st # "none"
  BY DispParts
<1>2. Created(x)
  BY <1>1, DispParts DEF Created
<1>3. /\ SchedInv' /\ disp'[d] = x
      /\ \A e \in Dispatchers : e # d => disp'[e] = disp[e]
  BY <1>2, DispMoves
<1>4. ASSUME KeepsFiring, Begun PROVE Begun'
  <2>1. PICK own \in [Nat -> Dispatchers] : Apart(own) /\ FireHasCome(own)
    BY <1>4 DEF Begun
  <2>2. Apart(own)'
    BY <2>1 DEF Apart, Within, NextFire
  <2>3. \A r \in RunsOf(s) : NextFire(r) <= disp[d].at
    BY <1>1, <1>4, DueHasFired
  <2>4. FireHasCome(own)'
    BY <1>3, <2>1, <2>3 DEF FireHasCome, RunsOf, NextFire
  <2> QED
    BY <2>2, <2>4 DEF Begun
<1> QED
  BY <1>3, <1>4

\* A schedule is found due after the fire that follows its last run has come.
LEMMA ReadLastKeeps ==
  ASSUME SchedInv, NEW d \in Dispatchers, ReadLast(d)
  PROVE  SchedInv' /\ (KeepsFiring /\ Begun => Begun')
<1>1. UNCHANGED <<now, rows, runs, execs, deleting, up>> /\ disp[d].pc = "last"
  BY DEF ReadLast
<1> DEFINE over(s) == [disp[d] EXCEPT !.todo = @ \ {s}]
           taken(s) == [over(s) EXCEPT !.pc = "record", !.sched = s, !.seen = LastTime(s)]
           where(s, run) == IF run THEN taken(s) ELSE over(s)
<1>2. PICK s \in disp[d].todo, run \in BOOLEAN :
        /\ run = Due(rows[s].cron, LastTime(s), disp[d].at)
           \/ (~run /\ JustDue(d, rows[s].cron, LastTime(s), disp[d].at))
        /\ disp' = [disp EXCEPT ![d] = where(s, run)]
  BY DEF ReadLast
<1> DEFINE x == where(s, run)
<1>3. disp' = [disp EXCEPT ![d] = x]
  BY <1>2
<1>4. over(s) \in Disp /\ over(s).pc = "last" /\ \A t \in over(s).todo : rows[t].st # "none"
  BY <1>1, TodoShrinks, DispParts
<1>5. /\ taken(s) \in Disp /\ taken(s).pc = "record" /\ taken(s).sched = s /\ taken(s).at = disp[d].at
      /\ taken(s).todo = disp[d].todo \ {s}
  <2>1. s \in Scheds
    BY DispParts
  <2>2. LastTime(s) \in Nat
    <3>1. LastTime(s) \in (Begin - 1)..MaxTime
      BY <2>1, LastTimeIs DEF SchedInv
    <3> QED
      BY <3>1
  <2>3. over(s).at = disp[d].at /\ over(s).todo = disp[d].todo \ {s}
    BY DispParts DEF Disp
  <2> HIDE DEF over
  <2> QED
    BY <1>4, <2>1, <2>2, <2>3 DEF Disp
<1>6. (run /\ x = taken(s)) \/ (~run /\ x = over(s))
  <2> HIDE DEF taken, over
  <2> QED
    OBVIOUS
<1>7. run => Due(rows[s].cron, LastTime(s), disp[d].at)
  BY <1>2
<1> HIDE DEF x, where, taken, over
<1>8. CASE ~run /\ x = over(s)
  BY <1>1, <1>3, <1>4, <1>8, DispMovesOn
<1>9. CASE run /\ x = taken(s)
  <2>1. /\ x \in Disp /\ x.pc = "record" /\ x.sched = s /\ x.at = disp[d].at
        /\ x.todo = disp[d].todo \ {s}
    BY <1>5, <1>9
  <2> QED
    BY <1>1, <1>3, <1>7, <1>9, <2>1, TakesUp
<1> QED
  BY <1>6, <1>8, <1>9

\* The run that is begun has a new id and a place after all earlier ones of
\* the same dispatcher.
LEMMA RecordKeeps ==
  ASSUME SchedInv, NEW d \in Dispatchers, Record(d)
  PROVE  SchedInv' /\ (KeepsFiring /\ Begun => Begun')
<1> DEFINE s == disp[d].sched
           new == [id |-> NextId, sched |-> s, started |-> disp[d].at, status |-> "running"]
<1>1. /\ disp[d].pc = "record" /\ disp' = [disp EXCEPT ![d] = Onward(d)]
      /\ UNCHANGED <<now, rows, deleting, up>>
      /\ \/ UNCHANGED <<runs, execs>>
         \/ runs' = runs \cup {new} /\ \E n : execs' = execs \cup {[id |-> NextId, sched |-> s, twin |-> n]}
  BY DEF Record
<1>2. CASE UNCHANGED <<runs, execs>>
  BY <1>1, <1>2, OnwardIsDisp, DispParts, DispMovesOn
<1>3. CASE runs' = runs \cup {new} /\ \E n : execs' = execs \cup {[id |-> NextId, sched |-> s, twin |-> n]}
  <2>1. s \in Scheds /\ rows[s].st # "none" /\ disp[d].at \in Times
    BY <1>1, DispParts
  <2>2. NextId \in Nat /\ \A r \in runs : r.id < NextId
    BY NextIdIsNew DEF SchedInv
  <2>3. new \in Run /\ new.id = NextId /\ new.sched = s /\ new.started = disp[d].at /\ new.status = "running"
    BY <2>1, <2>2 DEF Run
  <2> HIDE DEF new
  <2>4. /\ disp' \in [Dispatchers -> Disp] /\ disp'[d] = Onward(d)
        /\ \A e \in Dispatchers : e # d => disp'[e] = disp[e]
    BY <1>1, OnwardIsDisp DEF SchedInv, SchedShape
  <2>5. SchedTypeOK'
    <3>1. \A r \in runs' : r.sched \in Scheds /\ r.started \in Times /\ r.status \in {"running", "completed", "failed"}
      BY <1>3, <2>1, <2>3 DEF SchedInv, SchedShape, SchedTypeOK
    <3>2. \A r, q \in runs' : r.id = q.id => r = q
      <4>1. \A r \in runs : r.id \in Nat /\ r.id # new.id
        BY <2>2, <2>3, RunParts DEF SchedInv
      <4> QED
        BY <1>3, <4>1 DEF SchedInv, SchedShape, SchedTypeOK
    <3>3. \A e \in execs' : e.sched \in Scheds
      BY <1>3, <2>1 DEF SchedInv, SchedShape, SchedTypeOK
    <3>4. \A e \in Dispatchers : /\ disp'[e].pc \in {"idle", "start", "last", "record"}
                                 /\ disp'[e].todo \subseteq Scheds /\ disp'[e].sched \in Scheds
      BY <2>4 DEF Disp
    <3> QED
      BY <1>1, <3>1, <3>2, <3>3, <3>4 DEF SchedInv, SchedShape, SchedTypeOK
  <2>6. SchedShape'
    <3>1. runs' \subseteq Run
      BY <1>3, <2>3 DEF SchedInv, SchedShape
    <3>2. \A r \in runs' : r.id <= NextId
      BY <1>3, <2>2, <2>3, RunParts DEF SchedInv
    <3> QED
      BY <2>2, <2>4, <2>5, <3>1, <3>2 DEF SchedShape
  <2>7. NothingBefore'
    <3>1. \A e \in Dispatchers : /\ disp'[e].todo \subseteq disp[e].todo
                                 /\ disp'[e].pc = "record" => disp'[e] = disp[e]
      BY <2>4, OnwardIsDisp
    <3> QED
      BY <1>1, <1>3, <2>1, <2>3, <3>1 DEF SchedInv, NothingBefore, RunsOf
  <2>8. ASSUME KeepsFiring, Begun PROVE Begun'
    <3>1. PICK own \in [Nat -> Dispatchers] : Apart(own) /\ FireHasCome(own)
      BY <2>8 DEF Begun
    <3>2. PICK now_own \in [Nat -> Dispatchers] :
            now_own[new.id] = d /\ \A r \in runs : now_own[r.id] = own[r.id]
      <4>1. [own EXCEPT ![NextId] = d] \in [Nat -> Dispatchers]
        OBVIOUS
      <4>2. [own EXCEPT ![NextId] = d][new.id] = d
        BY <2>2, <2>3
      <4>3. \A r \in runs : [own EXCEPT ![NextId] = d][r.id] = own[r.id]
        BY <2>2, RunParts DEF SchedInv
      <4> QED
        BY <4>1, <4>2, <4>3
    <3>3. \A r : NextFire(r)' = NextFire(r)
      BY <1>1 DEF NextFire
    <3>4. ASSUME NEW r \in runs, r.sched = s, own[r.id] = d
          PROVE  r.started < NextFire(r) /\ NextFire(r) <= new.started /\ NextFire(r) \in Nat /\ r.started \in Nat
      <4>1. NextFire(r) <= disp[d].at
        BY <1>1, <3>1, <3>4 DEF FireHasCome, RunsOf
      <4>2. r.started \in Nat /\ Covers(r.started) /\ Next(rows[r.sched].cron, r.started) # Zero
        <5>1. /\ r.started \in Nat /\ r.started >= Begin /\ r.started <= MaxTime
              /\ rows[r.sched].cron \in Crons
          BY RunParts DEF SchedInv
        <5>2. r.started \in (Begin - 1)..MaxTime
          BY <5>1
        <5> QED
          BY <2>8, <5>1, <5>2 DEF KeepsFiring
      <4>3. r.started < NextFire(r) /\ NextFire(r) \in Nat
        BY <4>2, NextFacts DEF NextFire
      <4> QED
        BY <2>3, <4>1, <4>2, <4>3
    <3>5. new.started \in Nat
      BY <2>1, <2>3 DEF Times
    <3>6. Apart(now_own)'
      <4> SUFFICES ASSUME NEW r \in runs', NEW q \in runs', r # q, r.sched = q.sched,
                          now_own[r.id] = now_own[q.id]
                   PROVE  ~Within(q, r)'
        BY DEF Apart
      <4>1. CASE r \in runs /\ q \in runs
        BY <3>1, <3>2, <3>3, <4>1 DEF Apart, Within
      <4>2. CASE r \in runs /\ q = new
        <5>1. NextFire(r) <= q.started /\ NextFire(r) \in Nat /\ q.started \in Nat
          BY <2>3, <3>2, <3>4, <3>5, <4>2
        <5> QED
          BY <3>3, <5>1 DEF Within
      <4>3. CASE r = new /\ q \in runs
        <5>1. q.started < r.started /\ q.started \in Nat /\ r.started \in Nat
          BY <2>3, <3>2, <3>4, <3>5, <4>3
        <5> QED
          BY <5>1 DEF Within
      <4> QED
        BY <1>3, <4>1, <4>2, <4>3
    <3>7. FireHasCome(now_own)'
      <4> SUFFICES ASSUME NEW e \in Dispatchers, disp'[e].pc = "record",
                          NEW r \in runs', r.sched = disp'[e].sched, now_own[r.id] = e
                   PROVE  NextFire(r)' <= disp'[e].at
        BY DEF FireHasCome, RunsOf
      <4>1. e # d /\ disp'[e] = disp[e]
        BY <2>4, OnwardIsDisp
      <4>2. r \in runs /\ own[r.id] = e
        BY <1>3, <3>2, <4>1
      <4> QED
        BY <3>1, <3>3, <4>1, <4>2 DEF FireHasCome, RunsOf
    <3> QED
      BY <3>2, <3>6, <3>7 DEF Begun
  <2> QED
    BY <2>6, <2>7, <2>8 DEF SchedInv
<1> QED
  BY <1>1, <1>2, <1>3

\* An outcome changes the status of runs and nothing else about them.
LEMMA ExecKeeps ==
  ASSUME SchedInv, NEW e \in execs, Finish(e) \/ FinishUnrecorded(e)
  PROVE  SchedInv' /\ (Begun => Begun')
<1>1. execs' = execs \ {e} /\ UNCHANGED <<now, rows, disp, deleting, up>>
  BY DEF Finish, FinishUnrecorded
<1>2. CASE UNCHANGED runs
  <2>1. SchedTypeOK'
    BY <1>1, <1>2 DEF SchedInv, SchedShape, SchedTypeOK
  <2>2. SchedShape' /\ NothingBefore'
    BY <1>1, <1>2, <2>1 DEF SchedInv, SchedShape, NothingBefore, RunsOf
  <2>3. Begun => Begun'
    BY <1>1, <1>2, BegunKept DEF SchedInv
  <2> QED
    BY <2>2, <2>3 DEF SchedInv
<1>3. CASE Finish(e)
  <2>1. PICK status \in {"completed", "failed"} :
          runs' = {IF SameRun(r, e) THEN [r EXCEPT !.status = status] ELSE r : r \in runs}
    BY <1>3 DEF Finish
  <2> DEFINE out(r) == IF SameRun(r, e) THEN [r EXCEPT !.status = status] ELSE r
  <2>2. ASSUME NEW r \in runs
        PROVE  /\ out(r) \in Run /\ out(r).id = r.id /\ out(r).sched = r.sched
               /\ out(r).started = r.started
    BY DEF SchedInv, SchedShape, Run
  <2>3. runs' = {out(r) : r \in runs}
    BY <2>1
  <2> HIDE DEF out
  <2>4. \A q \in runs' : \E r \in runs : q = out(r) /\ q \in Run /\ q.id = r.id /\ q.sched = r.sched /\ q.started = r.started
    BY <2>2, <2>3
  <2>5. SchedTypeOK'
    <3>1. \A q \in runs' : q.sched \in Scheds /\ q.started \in Times /\ q.status \in {"running", "completed", "failed"}
      BY <2>4 DEF Run
    <3>2. \A q, p \in runs' : q.id = p.id => q = p
      BY <2>4 DEF SchedInv, SchedShape, SchedTypeOK
    <3> QED
      BY <1>1, <3>1, <3>2 DEF SchedInv, SchedShape, SchedTypeOK
  <2>6. SchedShape'
    <3>1. \E n \in Nat : \A q \in runs' : q.id <= n
      BY <2>4 DEF SchedInv, SchedShape
    <3> QED
      BY <1>1, <2>4, <2>5, <3>1 DEF SchedInv, SchedShape
  <2>7. NothingBefore'
    BY <1>1, <2>4 DEF SchedInv, NothingBefore, RunsOf
  <2>8. ASSUME Begun PROVE Begun'
    <3>1. PICK own \in [Nat -> Dispatchers] : Apart(own) /\ FireHasCome(own)
      BY <2>8 DEF Begun
    <3>2. \A q \in runs' : \E r \in runs : /\ q = out(r) /\ q.id = r.id /\ q.sched = r.sched /\ q.started = r.started
                                            /\ NextFire(q)' = NextFire(r)
      BY <1>1, <2>4 DEF NextFire
    <3>3. Apart(own)'
      <4> SUFFICES ASSUME NEW p \in runs', NEW q \in runs', p # q, p.sched = q.sched, own[p.id] = own[q.id]
                   PROVE  ~Within(q, p)'
        BY DEF Apart
      <4>1. PICK r \in runs : p = out(r) /\ p.id = r.id /\ p.sched = r.sched /\ p.started = r.started
                              /\ NextFire(p)' = NextFire(r)
        BY <3>2
      <4>2. PICK t \in runs : q = out(t) /\ q.id = t.id /\ q.sched = t.sched /\ q.started = t.started
        BY <3>2
      <4>3. ~Within(t, r)
        BY <3>1, <4>1, <4>2 DEF Apart
      <4> QED
        BY <4>1, <4>2, <4>3 DEF Within
    <3>4. FireHasCome(own)'
      <4> SUFFICES ASSUME NEW d \in Dispatchers, disp[d].pc = "record",
                          NEW q \in runs', q.sched = disp[d].sched, own[q.id] = d
                   PROVE  NextFire(q)' <= disp[d].at
        BY <1>1 DEF FireHasCome, RunsOf
      <4>1. PICK r \in runs : q.id = r.id /\ q.sched = r.sched /\ NextFire(q)' = NextFire(r)
        BY <3>2
      <4> QED
        BY <3>1, <4>1 DEF FireHasCome, RunsOf
    <3> QED
      BY <3>3, <3>4 DEF Begun
  <2> QED
    BY <2>6, <2>7, <2>8 DEF SchedInv
<1> QED
  BY <1>2, <1>3 DEF Finish, FinishUnrecorded

\* At first no schedule and no run is there.
LEMMA SchedInitInv == SchedInit => SchedInv /\ Begun
<1> SUFFICES ASSUME SchedInit PROVE SchedInv /\ Begun
  OBVIOUS
<1>1. /\ now = Begin /\ rows = [s \in Scheds |-> NoRow] /\ runs = {} /\ execs = {} /\ deleting = {}
      /\ up = TRUE /\ disp = [d \in Dispatchers |-> Pending] /\ Begin \in Times
  BY DEF SchedInit, Times
<1>2. NoRow \in [st : {"none", "on", "off", "gone"}, cron : Crons, created : Times]
  <2>1. (CHOOSE c \in Crons : TRUE) \in Crons
    OBVIOUS
  <2> QED
    BY <1>1, <2>1 DEF NoRow
<1>3. /\ disp \in [Dispatchers -> Disp]
      /\ \A d \in Dispatchers : disp[d].pc = "idle" /\ disp[d].todo = {}
  BY <1>1, PendingIsDisp
<1>4. SchedTypeOK
  BY <1>1, <1>2, <1>3 DEF SchedTypeOK, Disp
<1>5. SchedInv
  <2>1. \E n \in Nat : \A r \in runs : r.id <= n
    BY <1>1
  <2> QED
    BY <1>1, <1>3, <1>4, <2>1 DEF SchedInv, SchedShape, NothingBefore, RunsOf
<1>6. Begun
  <2>1. [n \in Nat |-> "loop"] \in [Nat -> Dispatchers]
    BY DEF Dispatchers
  <2>2. \A own : Apart(own) /\ FireHasCome(own)
    BY <1>1, <1>3 DEF Apart, FireHasCome
  <2> QED
    BY <2>1, <2>2 DEF Begun
<1> QED
  BY <1>5, <1>6

\* All steps of the scheduler together; only ReadLast needs that expressions keep firing.
LEMMA SchedStepInv == SchedInv /\ [SchedNext]_svars => SchedInv' /\ (KeepsFiring /\ Begun => Begun')
BY SchedToolKeeps, ClockKeeps, ProcessKeeps, ListKeeps, ReadLastKeeps, RecordKeeps, PassesOver,
   ExecKeeps DEF SchedNext, SchedToolNext, ExecNext, DispatchNext

(* The inductive invariant of the scheduler: its tables are well typed, ids   *)
(* are keys, though they are used again, and the next id is above all         *)
(* (store.go:108-152).                                                        *)
THEOREM SchedInvCorrect == SchedSpec => []SchedInv
<1>1. SchedInit => SchedInv
  BY SchedInitInv
<1>2. SchedInv /\ [SchedNext]_svars => SchedInv'
  BY SchedStepInv
<1> QED
  BY <1>1, <1>2, PTL DEF SchedSpec

\* Of the runs between two fires no two are of the same dispatcher.
LEMMA BegunOnce ==
  ASSUME SchedInv, KeepsFiring, Begun
  PROVE  OncePerFire
<1> SUFFICES ASSUME NEW r \in runs
             PROVE  Cardinality({q \in RunsOf(r.sched) : q.started \in r.started..(NextFire(r) - 1)})
                      <= Cardinality(Dispatchers)
  BY DEF OncePerFire, NextFire
<1> DEFINE W == {q \in RunsOf(r.sched) : q.started \in r.started..(NextFire(r) - 1)}
<1>1. PICK own \in [Nat -> Dispatchers] : Apart(own) /\ FireHasCome(own)
  BY DEF Begun
<1>2. ASSUME NEW q \in runs
      PROVE  /\ q.id \in Nat /\ q.started \in Nat
             /\ Covers(q.started) /\ Next(rows[q.sched].cron, q.started) # Zero /\ NextFire(q) \in Nat
  <2>1. /\ q.id \in Nat /\ q.started \in Nat /\ q.started >= Begin /\ q.started <= MaxTime
        /\ rows[q.sched].cron \in Crons
    BY RunParts DEF SchedInv
  <2>2. q.started \in (Begin - 1)..MaxTime
    BY <2>1
  <2>3. Covers(q.started) /\ Next(rows[q.sched].cron, q.started) # Zero
    BY <2>1, <2>2 DEF KeepsFiring
  <2> QED
    BY <2>1, <2>3, NextFacts DEF NextFire
<1>3. ASSUME NEW p \in W, NEW q \in W, p # q, p.started <= q.started
      PROVE  own[p.id] # own[q.id]
  <2>1. p \in runs /\ q \in runs /\ p.sched = r.sched /\ q.sched = r.sched
        /\ r.started <= p.started /\ q.started < NextFire(r)
    BY <1>2 DEF RunsOf
  <2>2. NextFire(r) <= NextFire(p)
    BY <1>2, <2>1, NextGrows DEF NextFire
  <2>3. Within(q, p)
    BY <1>2, <1>3, <2>1, <2>2 DEF Within
  <2> QED
    BY <1>1, <1>3, <2>1, <2>3 DEF Apart
<1>4. \A p, q \in W : p # q => own[p.id] # own[q.id]
  <2>1. \A p \in W : p.started \in Nat
    BY <1>2 DEF RunsOf
  <2> HIDE DEF W
  <2> QED
    BY <1>3, <2>1
<1>5. [q \in W |-> own[q.id]] \in Injection(W, Dispatchers)
  <2>1. \A q \in W : own[q.id] \in Dispatchers
    BY <1>1, <1>2 DEF RunsOf
  <2> HIDE DEF W
  <2> QED
    BY <1>4, <2>1 DEF Injection, IsInjective
<1>6. IsFiniteSet(Dispatchers)
  <2>1. Dispatchers = {"loop"} \cup {"recovery"}
    BY DEF Dispatchers
  <2>2. IsFiniteSet({"loop"}) /\ IsFiniteSet({"recovery"})
    BY FS_Singleton
  <2> QED
    BY <2>1, <2>2, FS_Union
<1> HIDE DEF W
<1>7. Cardinality(W) <= Cardinality(Dispatchers)
  BY <1>5, <1>6, FS_Injection DEF ExistsInjection
<1> QED
  BY <1>7 DEF W

(* What was missed is made up by one run of each dispatcher, however late the *)
(* loop is and however often the process starts (schedule.go:201-227,         *)
(* reliability.go:54-80), if every expression in use keeps firing.            *)
THEOREM OncePerFireCorrect ==
  ASSUME KeepsFiring
  PROVE  SchedSpec => []OncePerFire
<1>1. SchedInit => SchedInv /\ Begun
  BY SchedInitInv
<1>2. SchedInv /\ Begun /\ [SchedNext]_svars => (SchedInv /\ Begun)'
  BY SchedStepInv
<1>3. SchedInv /\ Begun => OncePerFire
  BY BegunOnce
<1> QED
  BY <1>1, <1>2, <1>3, PTL DEF SchedSpec

(* An outcome, once recorded, is only overwritten by an execution that was    *)
(* begun for a run with the same id, and gone with its schedule's runs only   *)
(* (store.go:138-152, 201).                                                   *)
THEOREM OutcomeFinalCorrect == SchedSpec => OutcomeFinal
<1>1. [SchedNext]_svars =>
        [\A r \in runs : r.status # "running" /\ (\A e \in execs : e.id # r.id)
           => r \in runs' \/ RunsOf(r.sched)' = {}]_svars
  <2> SUFFICES ASSUME SchedNext, NEW r \in runs, \A e \in execs : e.id # r.id
               PROVE  r \in runs' \/ RunsOf(r.sched)' = {}
    BY DEF svars
  <2>1. CASE runs \subseteq runs'
    BY <2>1
  <2>2. ASSUME NEW s \in Scheds, DeleteRuns(s) PROVE r \in runs' \/ RunsOf(r.sched)' = {}
    BY <2>2 DEF DeleteRuns, RunsOf
  <2>3. ASSUME NEW e \in execs, Finish(e) PROVE r \in runs'
    BY <2>3 DEF Finish, SameRun
  <2>4. CASE Stop \/ Start \/ Clock
    BY <2>1, <2>4 DEF Stop, Start, Clock
  <2>5. ASSUME NEW d \in Dispatchers, DispatchNext(d) \/ DispatchFails(d) PROVE runs \subseteq runs'
    BY <2>5 DEF DispatchNext, DispatchFails, List, ReadLast, Record, DispatchDone
  <2>6. ASSUME NEW s \in Scheds, Create(s) \/ Disable(s) \/ DeleteRow(s) PROVE runs \subseteq runs'
    BY <2>6 DEF Create, Disable, DeleteRow
  <2>7. ASSUME NEW e \in execs, FinishUnrecorded(e) PROVE runs \subseteq runs'
    BY <2>7 DEF FinishUnrecorded
  <2> QED
    BY <2>1, <2>2, <2>3, <2>4, <2>5, <2>6, <2>7 DEF SchedNext, SchedToolNext, ExecNext
<1> QED
  BY <1>1, PTL DEF SchedSpec, OutcomeFinal

HIDE ScheduleAssumption

-----------------------------------------------------------------------------
(* GroupRun: type correctness, and that sub-steps run in their order and a    *)
(* group is completed only with all of them. A result says nothing of the     *)
(* dispatch it belongs to, so the argument is about what has been executed at *)
(* all: whatever is in a queue stands for a sub-step that was begun, whatever *)
(* claims success for one that was done.                                      *)

USE GroupAssumption DEF GroupAssumption

\* Every sub-step of g has been executed with success; so have those before s.
AllDone(g) == Size[g] > 0 /\ \A i \in 1..Size[g] : <<g, i>> \in done
BeforeDone(g, n) == \A i \in 1..(n - 1) : <<g, i>> \in done

\* A result that claims success tells the truth of its sub-step.
Truthful == {e \in Subs \X Say : e[2] = "success" => e[1] \in done}

\* The manager has come as far as its sub-steps were done; queues and results
\* claim nothing that has not happened.
ManagerInOrder ==
  /\ mgr.pc = "begin" => mgr.i = 1
  /\ mgr.pc \in {"dispatch", "wait"} => BeforeDone(mgr.group, mgr.i)
ClaimsHold ==
  /\ work \in Seq(begun) /\ events \in Seq(Truthful)
  /\ \A g \in Groups : <<g, "success">> \in results => AllDone(g)

GrInv == GrTypeOK /\ ManagerInOrder /\ ClaimsHold /\ GroupInOrder

\* An element taken out of a sequence leaves a sequence over the same set.
LEMMA RemoveAtType ==
  ASSUME NEW S, NEW s \in Seq(S), NEW k \in 1..Len(s)
  PROVE  RemoveAt(s, k) \in Seq(S)
<1>1. \A i \in 1..Len(s) : s[i] \in S
  BY ElementOfSeq
<1>2. Len(s) \in Nat
  BY LenProperties
<1>3. SubSeq(s, 1, k - 1) \in Seq(S)
  <2>1. \A i \in 1..(k - 1) : s[i] \in S
    BY <1>1, <1>2
  <2> QED
    BY <2>1, <1>2, SubSeqProperties
<1>4. SubSeq(s, k + 1, Len(s)) \in Seq(S)
  <2>1. \A i \in (k + 1)..Len(s) : s[i] \in S
    BY <1>1, <1>2
  <2> QED
    BY <2>1, <1>2, SubSeqProperties
<1> QED
  BY <1>3, <1>4, ConcatProperties DEF RemoveAt

\* What is known of done and begun stays so as they grow.
LEMMA HistoryGrows ==
  ASSUME GrInv, done \subseteq done', begun \subseteq begun'
  PROVE  /\ work \in Seq(begun')
         /\ events \in Seq(Truthful')
         /\ \A g \in Groups : AllDone(g) => AllDone(g)'
         /\ \A g \in Groups, n \in Nat : BeforeDone(g, n) => BeforeDone(g, n)'
<1>1. work \in Seq(begun')
  BY SeqMonotonic DEF GrInv, ClaimsHold
<1>2. Truthful \subseteq Truthful'
  BY DEF Truthful, Subs, Say
<1>3. events \in Seq(Truthful')
  BY <1>2, SeqMonotonic DEF GrInv, ClaimsHold
<1> QED
  BY <1>1, <1>3 DEF AllDone, BeforeDone

\* The initial state satisfies the invariant.
LEMMA GrInitInv == GrInit => GrInv
<1> SUFFICES ASSUME GrInit PROVE GrInv
  OBVIOUS
<1>1. GrTypeOK
  BY DEF GrInit, GrTypeOK, Rest, Subs, Say
<1>2. ManagerInOrder /\ GroupInOrder
  BY DEF GrInit, ManagerInOrder, GroupInOrder, Rest
<1>3. ClaimsHold
  BY EmptySeq DEF GrInit, ClaimsHold
<1> QED
  BY <1>1, <1>2, <1>3 DEF GrInv

\* The supervisor changes neither queue nor history.
LEMMA SupervisorKeeps ==
  ASSUME GrInv, NEW g \in Groups, NEW say \in Say,
         Dispatch(g) \/ Receive(g, say) \/ StepTimeout
  PROVE  GrInv'
<1> USE DEF GrInv
<1>1. CASE Dispatch(g)
  <2>1. GrTypeOK'
    <3>1. mgr' = [pc |-> "begin", group |-> g, i |-> 1]
      BY <1>1 DEF Dispatch, Rest
    <3>2. dispatched' \in 0..MaxDispatch
      BY <1>1 DEF Dispatch, GrTypeOK
    <3>3. mgr' \in [pc : {"idle", "begin", "dispatch", "wait"}, group : Groups, i : Nat \ {0}]
      BY <3>1
    <3>4. mgr'.pc = "begin" /\ waits' \in Groups \cup {None}
      BY <1>1, <3>1 DEF Dispatch
    <3> QED
      BY <1>1, <3>2, <3>3, <3>4 DEF Dispatch, GrTypeOK, Subs, Say
  <2>2. ManagerInOrder' /\ GroupInOrder'
    BY <1>1 DEF Dispatch, ManagerInOrder, GroupInOrder, Rest
  <2>3. ClaimsHold'
    BY <1>1 DEF Dispatch, ClaimsHold, Truthful, AllDone, Subs, Say
  <2> QED
    BY <2>1, <2>2, <2>3
<1>2. CASE Receive(g, say)
  <2>1. GrTypeOK'
    BY <1>2 DEF Receive, GrTypeOK, Subs, Say
  <2>2. ManagerInOrder'
    BY <1>2 DEF Receive, ManagerInOrder, BeforeDone
  <2>3. ClaimsHold'
    BY <1>2 DEF Receive, ClaimsHold, Truthful, AllDone, Subs, Say
  <2>4. GroupInOrder'
    <3>1. ASSUME NEW h \in Groups, outcome'[h] = "completed"
          PROVE  AllDone(h)
      BY <1>2, <3>1 DEF Receive, ClaimsHold, GroupInOrder, GrTypeOK, AllDone
    <3> QED
      BY <1>2, <3>1 DEF Receive, GroupInOrder, AllDone
  <2> QED
    BY <2>1, <2>2, <2>3, <2>4
<1>3. CASE StepTimeout
  BY <1>3 DEF StepTimeout, GrTypeOK, ManagerInOrder, ClaimsHold, GroupInOrder,
              Truthful, AllDone, BeforeDone, Subs, Say
<1> QED
  BY <1>1, <1>2, <1>3

\* The manager answers: what it says is true, and it rests.
LEMMA PublishKeeps ==
  ASSUME GrInv, NEW say \in Say, Publish(say), say = "success" => AllDone(mgr.group)
  PROVE  /\ mgr' \in [pc : {"idle"}, group : Groups, i : Nat \ {0}]
         /\ results' \subseteq Groups \X Say
         /\ \A g \in Groups : <<g, "success">> \in results' => AllDone(g)
         /\ ManagerInOrder'
  BY DEF GrInv, Publish, Rest, GrTypeOK, ClaimsHold, ManagerInOrder

\* A sub-step that is dispatched after those before it keeps the order.
LEMMA TakenKeeps ==
  ASSUME GrInv, mgr.pc = "dispatch", Taken, done' = done, events' = events, outcome' = outcome
  PROVE  /\ begun' \subseteq Subs /\ begun \subseteq begun' /\ done' \subseteq begun'
         /\ work' \in Seq(begun') /\ work' \in Seq(Subs)
         /\ events' \in Seq(Truthful')
         /\ GroupInOrder'
<1>1. Sub \in Subs
  BY DEF GrInv, GrTypeOK, Sub, Subs
<1>2. begun' \subseteq Subs /\ begun \subseteq begun' /\ done' \subseteq begun' /\ Sub \in begun'
  BY <1>1 DEF GrInv, GrTypeOK, Taken
<1>3. work \in Seq(begun') /\ events \in Seq(Truthful')
  BY <1>2, HistoryGrows
<1>4. work' \in Seq(begun')
  BY <1>2, <1>3, AppendProperties DEF Taken
<1>5. work' \in Seq(Subs)
  BY <1>2, <1>4, SeqMonotonic
<1>6. GroupInOrder'
  BY DEF GrInv, GroupInOrder, ManagerInOrder, BeforeDone, Taken, Sub
<1> QED
  BY <1>2, <1>3, <1>4, <1>5, <1>6

\* Where nothing is begun and nothing is taken out, what was known stays.
LEMMA QuietKeeps ==
  ASSUME GrInv, UNCHANGED <<work, events, done, begun, outcome>>
  PROVE  /\ work' \in Seq(begun') /\ events' \in Seq(Truthful') /\ GroupInOrder'
         /\ \A g \in Groups : AllDone(g)' = AllDone(g)
<1>1. work' \in Seq(begun') /\ GroupInOrder' /\ \A g \in Groups : AllDone(g)' = AllDone(g)
  BY DEF GrInv, ClaimsHold, GroupInOrder, AllDone
<1>2. Truthful' = Truthful
  BY DEF Truthful, Subs, Say
<1> QED
  BY <1>1, <1>2 DEF GrInv, ClaimsHold

\* The manager begins a group: only an empty list is answered, by a failure.
LEMMA BeginKeeps == GrInv /\ BeginGroup => GrInv'
<1> SUFFICES ASSUME GrInv, BeginGroup PROVE GrInv'
  OBVIOUS
<1> USE DEF GrInv
<1>1. /\ work' \in Seq(begun') /\ events' \in Seq(Truthful') /\ GroupInOrder'
      /\ \A g \in Groups : AllDone(g)' = AllDone(g)
  BY QuietKeeps DEF BeginGroup
<1>2. CASE Publish("failure")
  BY <1>1, <1>2, PublishKeeps DEF BeginGroup, GrTypeOK, ClaimsHold, Say
<1>3. CASE Size[mgr.group] # 0 /\ mgr' = [mgr EXCEPT !.pc = "dispatch"] /\ UNCHANGED results
  <2>1. mgr' = [pc |-> "dispatch", group |-> mgr.group, i |-> mgr.i]
    BY <1>3 DEF GrTypeOK
  <2>2. mgr.i = 1 /\ Size[mgr.group] \in Nat \ {0}
    BY <1>3 DEF BeginGroup, GrTypeOK, ManagerInOrder
  <2>3. GrTypeOK'
    <3>1. mgr' \in [pc : {"idle", "begin", "dispatch", "wait"}, group : Groups, i : Nat \ {0}]
      BY <2>1 DEF GrTypeOK
    <3>2. mgr'.i = 1 /\ mgr'.group = mgr.group /\ 1 <= Size[mgr.group]
      BY <2>1, <2>2
    <3> QED
      BY <1>3, <3>1, <3>2 DEF BeginGroup, GrTypeOK, Subs, Say
  <2>4. ManagerInOrder'
    BY <2>1, <2>2 DEF ManagerInOrder, BeforeDone
  <2>5. ClaimsHold'
    BY <1>1, <1>3 DEF BeginGroup, ClaimsHold
  <2> QED
    BY <1>1, <2>3, <2>4, <2>5
<1> QED
  BY <1>2, <1>3 DEF BeginGroup

\* The manager takes a sub-step to the workers, or fails to.
LEMMA DispatchSubKeeps == GrInv /\ (DispatchSub \/ DispatchSubFails) => GrInv'
<1> SUFFICES ASSUME GrInv, DispatchSub \/ DispatchSubFails PROVE GrInv'
  OBVIOUS
<1> USE DEF GrInv
<1>1. CASE DispatchSub
  <2>1. mgr.pc = "dispatch" /\ Taken
    BY <1>1 DEF DispatchSub
  <2>2. /\ begun' \subseteq Subs /\ done' \subseteq begun' /\ work' \in Seq(begun')
        /\ work' \in Seq(Subs) /\ events' \in Seq(Truthful') /\ GroupInOrder'
    BY <1>1, <2>1, TakenKeeps DEF DispatchSub
  <2>3. GrTypeOK' /\ ManagerInOrder'
    BY <1>1, <2>1, <2>2 DEF DispatchSub, GrTypeOK, ManagerInOrder, BeforeDone, Subs, Say
  <2>4. ClaimsHold'
    BY <1>1, <2>2 DEF DispatchSub, ClaimsHold, AllDone
  <2> QED
    BY <2>2, <2>3, <2>4
<1>2. CASE DispatchSubFails
  <2>1. mgr.pc = "dispatch" /\ (Taken \/ UNCHANGED <<work, begun>>)
    BY <1>2 DEF DispatchSubFails
  <2>2. /\ begun' \subseteq Subs /\ done' \subseteq begun' /\ work' \in Seq(begun')
        /\ work' \in Seq(Subs) /\ events' \in Seq(Truthful') /\ GroupInOrder'
    <3>1. CASE Taken
      BY <1>2, <2>1, <3>1, TakenKeeps DEF DispatchSubFails
    <3>2. CASE UNCHANGED <<work, begun>>
      BY <1>2, <3>2, QuietKeeps DEF DispatchSubFails, GrTypeOK
    <3> QED
      BY <2>1, <3>1, <3>2
  <2>3. /\ mgr' \in [pc : {"idle"}, group : Groups, i : Nat \ {0}]
        /\ results' \subseteq Groups \X Say /\ ManagerInOrder'
        /\ \A g \in Groups : <<g, "success">> \in results' => AllDone(g)
    BY <1>2, PublishKeeps DEF DispatchSubFails, Say
  <2>4. GrTypeOK'
    BY <1>2, <2>2, <2>3 DEF DispatchSubFails, GrTypeOK, Subs, Say
  <2>5. ClaimsHold'
    BY <1>2, <2>2, <2>3 DEF DispatchSubFails, ClaimsHold, AllDone
  <2> QED
    BY <2>2, <2>3, <2>4, <2>5
<1> QED
  BY <1>1, <1>2

\* The manager reads a result: it goes on only with what is true.
LEMMA TakeEventKeeps == GrInv /\ TakeEvent => GrInv'
<1> SUFFICES ASSUME GrInv, TakeEvent PROVE GrInv'
  OBVIOUS
<1> USE DEF GrInv
<1> DEFINE sub == Head(events)[1]
           say == Head(events)[2]
<1>1. /\ Head(events) \in Truthful /\ events' \in Seq(Truthful)
      /\ Head(events) \in Subs \X Say /\ events' \in Seq(Subs \X Say) /\ Len(events') <= Buffer
  <2>1. events \in Seq(Truthful) /\ events \in Seq(Subs \X Say) /\ Len(events) <= Buffer
    BY DEF ClaimsHold, GrTypeOK
  <2>2. events # <<>> /\ events' = Tail(events)
    BY DEF TakeEvent
  <2>3. Len(events') = Len(events) - 1 /\ Len(events) \in Nat
    BY <2>1, <2>2, HeadTailProperties, LenProperties
  <2> QED
    BY <2>1, <2>2, <2>3, HeadTailProperties
<1>2. say = "success" => sub \in done
  BY <1>1 DEF Truthful
<1>3. /\ UNCHANGED <<waits, outcome, work, dispatched, repeats, done, begun>>
      /\ Truthful' = Truthful /\ mgr.pc = "wait" /\ mgr.i \in 1..Size[mgr.group]
      /\ mgr.group \in Groups /\ BeforeDone(mgr.group, mgr.i)
  BY DEF TakeEvent, Truthful, Subs, Say, GrTypeOK, ManagerInOrder
<1>4. GroupInOrder' /\ work' \in Seq(begun') /\ events' \in Seq(Truthful')
  BY <1>1, <1>3 DEF GroupInOrder, ClaimsHold
<1>5. CASE UNCHANGED <<mgr, results>>
  BY <1>1, <1>3, <1>4, <1>5 DEF GrTypeOK, ManagerInOrder, BeforeDone, ClaimsHold, AllDone, Subs, Say
<1>6. ASSUME NEW s \in {"success", "failure"}, Publish(s), s = "success" => AllDone(mgr.group)
      PROVE  GrInv'
  <2>1. /\ mgr' \in [pc : {"idle"}, group : Groups, i : Nat \ {0}]
        /\ results' \subseteq Groups \X Say /\ ManagerInOrder'
        /\ \A g \in Groups : <<g, "success">> \in results' => AllDone(g)
    BY <1>6, PublishKeeps DEF Say
  <2>2. GrTypeOK'
    BY <1>1, <1>3, <2>1 DEF GrTypeOK, Subs, Say
  <2>3. ClaimsHold'
    BY <1>3, <1>4, <2>1 DEF ClaimsHold, AllDone
  <2> QED
    BY <1>4, <2>1, <2>2, <2>3
<1>7. CASE /\ Awaited(sub) /\ say = "success" /\ mgr.i < Size[mgr.group]
           /\ mgr' = [mgr EXCEPT !.pc = "dispatch", !.i = @ + 1] /\ UNCHANGED results
  <2>1. <<mgr.group, mgr.i>> \in done
    BY <1>2, <1>7 DEF Awaited, Sub
  <2>2. /\ mgr' \in [pc : {"dispatch"}, group : Groups, i : Nat \ {0}]
        /\ mgr'.group = mgr.group /\ mgr'.i = mgr.i + 1 /\ mgr'.i <= Size[mgr.group]
    <3>1. mgr' = [pc |-> "dispatch", group |-> mgr.group, i |-> mgr.i + 1]
      BY <1>7 DEF GrTypeOK
    <3>2. Size[mgr.group] \in Nat /\ mgr.i \in Nat \ {0} /\ mgr.i + 1 <= Size[mgr.group]
      BY <1>3, <1>7 DEF GrTypeOK
    <3> QED
      BY <1>3, <3>1, <3>2
  <2>3. ManagerInOrder'
    <3>1. ASSUME NEW j \in 1..mgr.i PROVE <<mgr.group, j>> \in done
      BY <1>3, <2>1, <3>1 DEF BeforeDone
    <3> QED
      BY <1>3, <2>2, <3>1 DEF ManagerInOrder, BeforeDone
  <2>4. GrTypeOK'
    BY <1>1, <1>3, <1>7, <2>2 DEF GrTypeOK, Subs, Say
  <2>5. ClaimsHold'
    BY <1>3, <1>4, <1>7 DEF ClaimsHold, AllDone
  <2> QED
    BY <1>4, <2>3, <2>4, <2>5
<1>8. CASE Awaited(sub) /\ say = "success" /\ mgr.i = Size[mgr.group] /\ Publish("success")
  <2>1. <<mgr.group, mgr.i>> \in done
    BY <1>2, <1>8 DEF Awaited, Sub
  <2>2. AllDone(mgr.group)
    BY <1>3, <1>8, <2>1 DEF AllDone, BeforeDone
  <2> QED
    BY <1>6, <1>8, <2>2
<1> QED
  BY <1>5, <1>6, <1>7, <1>8 DEF TakeEvent

\* A sub-step's timeout is a failure of its group.
LEMMA SubStepTimeoutKeeps == GrInv /\ SubStepTimeout => GrInv'
<1> SUFFICES ASSUME GrInv, SubStepTimeout PROVE GrInv'
  OBVIOUS
<1> USE DEF GrInv
<1>1. /\ work' \in Seq(begun') /\ events' \in Seq(Truthful') /\ GroupInOrder'
      /\ \A g \in Groups : AllDone(g)' = AllDone(g)
  BY QuietKeeps DEF SubStepTimeout
<1>2. /\ mgr' \in [pc : {"idle"}, group : Groups, i : Nat \ {0}]
      /\ results' \subseteq Groups \X Say /\ ManagerInOrder'
      /\ \A g \in Groups : <<g, "success">> \in results' => AllDone(g)
  BY PublishKeeps DEF SubStepTimeout, Say
<1>3. GrTypeOK'
  BY <1>2 DEF SubStepTimeout, GrTypeOK, Subs, Say
<1>4. ClaimsHold'
  BY <1>1, <1>2 DEF ClaimsHold
<1> QED
  BY <1>1, <1>2, <1>3, <1>4

\* A worker executes a sub-step of its queue, and says what happened.
LEMMA ExecuteKeeps == ASSUME GrInv, NEW k \in Int, Execute(k) PROVE GrInv'
<1> USE DEF GrInv
<1>1. /\ k \in 1..Len(work) /\ work[k] \in begun /\ work[k] \in Subs
      /\ work' \in Seq(begun) /\ work' \in Seq(Subs)
  <2>1. work \in Seq(begun) /\ work \in Seq(Subs)
    BY DEF ClaimsHold, GrTypeOK
  <2>2. k \in 1..Len(work) /\ work' = RemoveAt(work, k)
    BY <2>1, LenProperties DEF Execute
  <2> QED
    BY <2>1, <2>2, ElementOfSeq, RemoveAtType
<1>2. PICK say \in Say :
        /\ done' = IF say = "success" THEN done \cup {work[k]} ELSE done
        /\ events' = IF Len(events) < Buffer THEN Append(events, <<work[k], say>>) ELSE events
  BY DEF Execute
<1>3. UNCHANGED <<waits, outcome, mgr, results, dispatched, repeats, begun>>
  BY DEF Execute
<1>4. done \subseteq done' /\ done' \subseteq begun'
  BY <1>1, <1>2, <1>3 DEF GrTypeOK
<1>5. /\ work \in Seq(begun') /\ events \in Seq(Truthful')
      /\ \A g \in Groups : AllDone(g) => AllDone(g)'
      /\ \A g \in Groups, n \in Nat : BeforeDone(g, n) => BeforeDone(g, n)'
  BY <1>3, <1>4, HistoryGrows
<1>6. <<work[k], say>> \in Truthful' /\ <<work[k], say>> \in Subs \X Say
  BY <1>1, <1>2 DEF Truthful, Subs
<1>7. events' \in Seq(Truthful')
  BY <1>2, <1>5, <1>6, AppendProperties
<1>8. events' \in Seq(Subs \X Say) /\ Len(events') <= Buffer
  <2>1. events \in Seq(Subs \X Say) /\ Len(events) <= Buffer /\ Len(events) \in Nat
    BY LenProperties DEF GrTypeOK
  <2> QED
    BY <1>2, <1>6, <2>1, AppendProperties
<1>9. GrTypeOK'
  BY <1>1, <1>3, <1>4, <1>8 DEF GrTypeOK, Subs, Say
<1>10. ManagerInOrder'
  BY <1>3, <1>5 DEF ManagerInOrder, GrTypeOK
<1>11. ClaimsHold'
  BY <1>1, <1>3, <1>5, <1>7 DEF ClaimsHold
<1>12. GroupInOrder'
  BY <1>3, <1>4 DEF GroupInOrder
<1> QED
  BY <1>9, <1>10, <1>11, <1>12

\* A result that comes twice claims no more than it did the first time.
LEMMA EventAgainKeeps == GrInv /\ EventAgain => GrInv'
<1> SUFFICES ASSUME GrInv, EventAgain PROVE GrInv'
  OBVIOUS
<1> USE DEF GrInv
<1>1. /\ UNCHANGED <<waits, outcome, mgr, work, results, dispatched, done, begun>>
      /\ repeats' \in 0..MaxRepeats /\ Truthful' = Truthful
  BY DEF EventAgain, GrTypeOK, Truthful, Subs, Say
<1>2. events' \in Seq(Truthful) /\ events' \in Seq(Subs \X Say) /\ Len(events') <= Buffer
  <2>1. events \in Seq(Truthful) /\ events \in Seq(Subs \X Say) /\ Len(events) \in Nat
    BY LenProperties DEF ClaimsHold, GrTypeOK
  <2>2. Len(events) \in 1..Len(events)
    BY <2>1, EmptySeq DEF EventAgain
  <2>3. Last(events) \in Truthful /\ Last(events) \in Subs \X Say
    BY <2>1, <2>2, ElementOfSeq DEF Last
  <2> QED
    BY <2>1, <2>3, AppendProperties DEF EventAgain
<1>3. GrTypeOK'
  BY <1>1, <1>2 DEF GrTypeOK, Subs, Say
<1>4. ManagerInOrder' /\ ClaimsHold' /\ GroupInOrder'
  BY <1>1, <1>2 DEF ManagerInOrder, BeforeDone, ClaimsHold, AllDone, GroupInOrder
<1> QED
  BY <1>3, <1>4

\* Every step keeps the invariant.
LEMMA GrStepInv == GrInv /\ [GrNext]_gvars => GrInv'
<1> SUFFICES ASSUME GrInv, [GrNext]_gvars PROVE GrInv'
  OBVIOUS
<1>1. ASSUME NEW g \in Groups, Dispatch(g) \/ \E say \in Say : Receive(g, say) PROVE GrInv'
  BY <1>1, SupervisorKeeps DEF Say
<1>2. CASE StepTimeout
  BY <1>2, SupervisorKeeps DEF Say
<1>3. CASE Manage
  BY <1>3, BeginKeeps, DispatchSubKeeps, TakeEventKeeps DEF Manage
<1>4. CASE SubStepTimeout
  BY <1>4, SubStepTimeoutKeeps
<1>5. CASE EventAgain
  BY <1>5, EventAgainKeeps
<1>6. ASSUME NEW k \in 1..MaxDispatch, Execute(k) PROVE GrInv'
  BY <1>6, ExecuteKeeps
<1>7. CASE UNCHANGED gvars
  <2> USE <1>7 DEF gvars, GrInv
  <2>1. GrTypeOK' /\ ManagerInOrder' /\ GroupInOrder'
    BY DEF GrTypeOK, ManagerInOrder, BeforeDone, GroupInOrder, Subs, Say
  <2>2. ClaimsHold'
    BY QuietKeeps DEF ClaimsHold, AllDone
  <2> QED
    BY <2>1, <2>2
<1> QED
  BY <1>1, <1>2, <1>3, <1>4, <1>5, <1>6, <1>7 DEF GrNext

\* The type invariant of the supervisor, the manager tier and the workers on
\* one grouped step, manager.go:125-260.
THEOREM GrTypeCorrect == GrSpec => []GrTypeOK
<1>1. GrInv => GrTypeOK
  BY DEF GrInv
<1> QED
  BY <1>1, GrInitInv, GrStepInv, PTL DEF GrSpec

\* A group is completed only with all its sub-steps, and they run in order,
\* manager.go:166-197.
THEOREM GroupsInOrder == GrSpec => []GroupInOrder
<1>1. GrInv => GroupInOrder
  BY DEF GrInv
<1> QED
  BY <1>1, GrInitInv, GrStepInv, PTL DEF GrSpec

-----------------------------------------------------------------------------
(* Schedules, a group and the look at Cron: one of them runs                  *)

\* A step of the instance is one of each component or leaves it alone.
LEMMA OneRuns ==
  [Schedules(SchedNext) \/ GroupRuns(GrNext) \/ LookAt]_sides =>
    /\ [SchedNext]_svars /\ [GrNext]_gvars
    /\ from' = from \/ (from' \in Reference..71 /\ UNCHANGED expr)
BY DEF Schedules, GroupRuns, LookAt, sides

(* The whole is well typed, whichever of the three runs (store.go:108-152,    *)
(* manager_tier.go:216-299).                                                  *)
THEOREM BackgroundTypeCorrect == Spec => []BackgroundTypeOK
<1>1. Init => SchedInv /\ GrInv
  BY SchedInitInv, GrInitInv DEF Init
<1>2. (SchedInv /\ GrInv) /\ [Schedules(SchedNext) \/ GroupRuns(GrNext) \/ LookAt]_sides
        => (SchedInv /\ GrInv)'
  BY OneRuns, SchedStepInv, GrStepInv
<1>3. SchedInv /\ GrInv => BackgroundTypeOK
  BY DEF SchedInv, SchedShape, GrInv, BackgroundTypeOK
<1> QED
  BY <1>1, <1>2, <1>3, PTL DEF Spec

(* Whatever expression and time are looked at, Next is the earliest fire      *)
(* (cron.go:110-140), as far as the calendar covers the search.               *)
THEOREM CronNextCorrect ==
  ASSUME \A t \in Reference..71 : Covers(t)
  PROVE  Spec => []CronNextIsEarliest
<1> DEFINE Looked == from = 0 \/ from \in Reference..71
<1>1. Init => Looked
  BY DEF Init
<1>2. Looked /\ [Schedules(SchedNext) \/ GroupRuns(GrNext) \/ LookAt]_sides => Looked'
  BY OneRuns
<1>3. Looked => CronNextIsEarliest
  <2> SUFFICES ASSUME from \in Reference..71 PROVE NextIsEarliest(expr, from)
    BY DEF CronNextIsEarliest
  <2>1. from \in Nat
    BY CronAssumption DEF CronAssumption
  <2> QED
    BY <2>1, NextIsEarliestCorrect
<1> QED
  BY <1>1, <1>2, <1>3, PTL DEF Spec
=============================================================================
