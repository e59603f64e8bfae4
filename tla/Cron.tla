-------------------------------- MODULE Cron --------------------------------
(* Cron expressions: what a field means, when an expression fires next, and   *)
(* which expressions are accepted. A time is a number of minutes, 1 the       *)
(* first; Zero is the zero time of package time, before every other one. The  *)
(* calendar (package time, UTC) is a constant.                                *)
EXTENDS Integers, FiniteSets, FiniteSetsExt

CONSTANTS PerHour, PerDay,  \* minutes of an hour, hours of a day
          Month, Dom, Dow,  \* calendar: day number -> month, day of the month, weekday
          Horizon,          \* Next searches this many minutes (code: 4 * 365 days)
          MinInterval,      \* MinCronIntervalMinutes
          Reference         \* the time from which enforceMinInterval looks ahead

ASSUME CronAssumption ==
  /\ PerHour \in Nat \ {0} /\ PerDay \in Nat \ {0}
  /\ DOMAIN Dom = DOMAIN Month /\ DOMAIN Dow = DOMAIN Month
  /\ DOMAIN Dom \subseteq Nat   \* days without a gap; another month begins with its first day
  /\ \A d, e \in DOMAIN Dom : d < e => d + 1 \in DOMAIN Dom
  /\ \A d \in DOMAIN Dom : d + 1 \in DOMAIN Dom /\ Month[d + 1] # Month[d] => Dom[d + 1] = 1
  /\ {Horizon, MinInterval, Reference} \subseteq Nat

Zero == 0
DayOf(t) == t \div (PerHour * PerDay)
HourOf(t) == (t \div PerHour) % PerDay
MinuteOf(t) == t % PerHour
Midnight(d) == d * PerHour * PerDay

\* one element of a list: "*", a value, a range, each with a step
FieldPart(lo, hi, step) == {v \in lo..hi : (v - lo) % step = 0}
\* an expression: the sets of values of its five fields
Expr(minute, hour, dom, month, dow) ==
  [minute |-> minute, hour |-> hour, dom |-> dom, month |-> month, dow |-> dow]

MonthMatches(c, t) == Month[DayOf(t)] \in c.month
DayMatches(c, t) == Dom[DayOf(t)] \in c.dom /\ Dow[DayOf(t)] \in c.dow
HourMatches(c, t) == HourOf(t) \in c.hour
MinuteMatches(c, t) == MinuteOf(t) \in c.minute
Matches(c, t) ==
  MonthMatches(c, t) /\ DayMatches(c, t) /\ HourMatches(c, t) /\ MinuteMatches(c, t)

FirstOfNextMonth(t) == Midnight(Min({d \in DOMAIN Dom : d > DayOf(t) /\ Dom[d] = 1}))
NextMidnight(t) == Midnight(DayOf(t) + 1)
\* Mutant: an hour later instead of the full hour.
HourLater(t) == t + PerHour
NextFullHour(t) == (t \div PerHour + 1) * PerHour

\* where the search goes on from a time that does not match
Jump(c, t) ==
  IF ~MonthMatches(c, t) THEN FirstOfNextMonth(t)
  ELSE IF ~DayMatches(c, t) THEN NextMidnight(t)
  ELSE IF ~HourMatches(c, t) THEN NextFullHour(t)
  ELSE t + 1

\* the first fire after a time, Zero if the search finds none
Next(c, from) ==
  LET limit == from + 1 + Horizon
      search[t \in {u \in Nat : u > from}] ==
        IF t >= limit THEN Zero
        ELSE IF Matches(c, t) THEN t
        ELSE search[Jump(c, t)]
  IN search[from + 1]

\* ParseCron: the first two fires after the reference must be far enough apart
Accepted(c) ==
  LET first == Next(c, Reference)
      second == Next(c, first)
  IN first = Zero \/ second = Zero \/ second - first >= MinInterval

-----------------------------------------------------------------------------
(* Next jumps over months, days and hours: it must still find the earliest    *)
(* match, and find it whenever there is one within the horizon                *)
(* (cron.go:110-140).                                                         *)
NextIsEarliest(c, from) ==
  LET fires == {t \in (from + 1)..(from + Horizon) : Matches(c, t)}
  IN Next(c, from) = IF fires = {} THEN Zero ELSE Min(fires)
=============================================================================
