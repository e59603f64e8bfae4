---------------------------- MODULE ToolDispatch ----------------------------
(* The dispatcher every tool call goes through: the capability check with its *)
(* rate limit, expiry and total, the hooks, the response cache, the breaker   *)
(* for repeated calls, the snapshot, the tool itself. Calls of one turn run   *)
(* in parallel; the counters are under a mutex, the way between them is not.  *)
(* A call (tool and input) is an ask; the tools act on one thing, the device. *)
EXTENDS Integers, FiniteSets, FiniteSetsExt, Functions

CONSTANTS Workers,    \* goroutines that execute tool calls
          Asks,       \* tool calls: each names a tool and an input
          Kind,       \* ask -> "read", "listed" (never cached) or "open" (acts, but is cached)
          Effect,     \* ask -> the state an acting ask leaves the device in
          Device,     \* the states of the device
          RateMax, RateWindow, TotalMax, GrantTTL, \* the grant; TotalMax = 0: no total
          RepeatLimit, RepeatWindow, CacheTTL,
          MaxAsks,    \* bound: calls ever made
          MaxTime     \* bound: ticks of the clock

ASSUME DispatchAssumption ==
  /\ Asks # {} /\ \A a \in Asks : Kind[a] \in {"read", "listed", "open"} /\ Effect[a] \in Device
  /\ {RateMax, RateWindow, TotalMax, GrantTTL, RepeatLimit, RepeatWindow, CacheTTL,
      MaxAsks, MaxTime} \subseteq Nat

VARIABLES device, now, made,
          slots,    \* CapabilitySet.calls: times of the calls counted, per resource
          totals,   \* CapabilitySet.totalCalls, per resource
          cached,   \* table response_cache: value and expiry of an ask
          repeat,   \* repeatSeen: count and time of the first, per ask
          job,      \* per goroutine: the call it executes
          granted,  \* history: calls allowed, per resource
          admitted  \* history: when the breaker let an ask through

tdvars == <<device, now, made, slots, totals, cached, repeat, job, granted, admitted>>

Times == 0..MaxTime
Resources == {"act", "see"}
Res(a) == IF Kind[a] = "read" THEN "see" ELSE "act"
Tally == [Times -> 0..MaxAsks]
None == [ v |-> CHOOSE d \in Device : TRUE, until |-> -1 ]
Unseen == [ count |-> 0, first |-> 0 ]
Job == [pc : {"idle", "rate", "grant", "cache", "repeat", "run", "store"},
        ask : Asks, probe : BOOLEAN, v : Device]
NoJob == [ pc |-> "idle", ask |-> CHOOSE a \in Asks : TRUE, probe |-> FALSE,
           v |-> CHOOSE d \in Device : TRUE ]

TdInit == /\ device \in Device /\ now = 0 /\ made = 0
          /\ slots = [r \in Resources |-> [t \in Times |-> 0]]
          /\ totals = [r \in Resources |-> 0]
          /\ cached = [a \in Asks |-> None] /\ repeat = [a \in Asks |-> Unseen]
          /\ job = [w \in Workers |-> NoJob]
          /\ granted = [r \in Resources |-> 0]
          /\ admitted = [a \in Asks |-> [t \in Times |-> 0]]

Doing(w, pc) == job[w].pc = pc
Onto(w, pc) == job' = [job EXCEPT ![w].pc = pc]
Answer(w) == job' = [job EXCEPT ![w] = NoJob]
InWindow(f, from, to) == MapThenSumSet(LAMBDA t : f[t], Times \cap from..to)

\* an execution, or a probe that only asks whether a tool should be offered
Ask(w) ==
  /\ Doing(w, "idle") /\ made < MaxAsks /\ made' = made + 1
  /\ \E a \in Asks, p \in BOOLEAN :
       job' = [job EXCEPT ![w] = [NoJob EXCEPT !.pc = "rate", !.ask = a, !.probe = p]]
  /\ UNCHANGED <<device, now, slots, totals, cached, repeat, granted, admitted>>

\* Mutant: one call more.
WindowOverfull(r) == InWindow(slots[r], now - RateWindow + 1, now) > RateMax

WindowFull(r) == InWindow(slots[r], now - RateWindow + 1, now) >= RateMax

\* the rate limit, under the lock; only a real call takes a slot
CheckRate(w) ==
  LET r == Res(job[w].ask)
  IN /\ Doing(w, "rate")
     /\ IF WindowFull(r)
        THEN Answer(w) /\ UNCHANGED slots
        ELSE /\ Onto(w, "grant")
             /\ slots' = IF job[w].probe THEN slots ELSE [slots EXCEPT ![r][now] = @ + 1]
     /\ UNCHANGED <<device, now, made, totals, cached, repeat, granted, admitted>>

\* the expiry of the grant, then its total, under the lock again; a probe counts too.
\* An allowed call may yet be denied by a hook, or have to be confirmed first
CheckGrant(w) ==
  LET r == Res(job[w].ask) IN
  /\ Doing(w, "grant")
  /\ IF now > GrantTTL \/ (TotalMax > 0 /\ totals[r] >= TotalMax)
     THEN Answer(w) /\ UNCHANGED <<totals, granted>>
     ELSE /\ totals' = IF TotalMax > 0 THEN [totals EXCEPT ![r] = @ + 1] ELSE totals
          /\ IF job[w].probe
             THEN Answer(w) /\ UNCHANGED granted
             ELSE (Onto(w, "cache") \/ Answer(w)) /\ granted' = [granted EXCEPT ![r] = @ + 1]
  /\ UNCHANGED <<device, now, made, slots, cached, repeat, admitted>>

Cacheable(a) == CacheTTL > 0 /\ Kind[a] # "listed"

\* answered from the cache: the tool is not executed
Cached(w) ==
  /\ Doing(w, "cache") /\ Cacheable(job[w].ask) /\ cached[job[w].ask].until > now
  /\ Answer(w)
  /\ UNCHANGED <<device, now, made, slots, totals, cached, repeat, granted, admitted>>

NotCached(w) ==
  /\ Doing(w, "cache") /\ ~(Cacheable(job[w].ask) /\ cached[job[w].ask].until > now)
  /\ Onto(w, "repeat")
  /\ UNCHANGED <<device, now, made, slots, totals, cached, repeat, granted, admitted>>

Expired(e) == now - e.first > RepeatWindow

\* Mutant: the call that reaches the limit is let through.
BelowOrAt(count) == count <= RepeatLimit

Below(count) == count = 1 \/ count < RepeatLimit

\* the breaker, under its lock: the window starts with the first of the calls
Repeat(w) ==
  LET a == job[w].ask
      kept == [b \in Asks |-> IF Expired(repeat[b]) THEN Unseen ELSE repeat[b]]
      count == kept[a].count + 1
      on == RepeatLimit > 0 /\ Kind[a] # "read"
      let == ~on \/ Below(count)
  IN /\ Doing(w, "repeat")
     /\ repeat' = IF on
                  THEN [kept EXCEPT ![a] =
                          [ count |-> count, first |-> IF count = 1 THEN now ELSE @.first ]]
                  ELSE repeat
     /\ IF let THEN Onto(w, "run") ELSE Answer(w)
     /\ admitted' = IF let THEN [admitted EXCEPT ![a][now] = @ + 1] ELSE admitted
     /\ UNCHANGED <<device, now, made, slots, totals, cached, granted>>

\* the tool: a success goes to the cache, unless it may not
Run(w) ==
  LET a == job[w].ask IN
  /\ Doing(w, "run")
  /\ device' = IF Kind[a] = "read" THEN device ELSE Effect[a]
  /\ job' = IF Cacheable(a) THEN [job EXCEPT ![w].pc = "store", ![w].v = device']
            ELSE [job EXCEPT ![w] = NoJob]
  /\ UNCHANGED <<now, made, slots, totals, cached, repeat, granted, admitted>>

\* the snapshot of what the tool is to change fails, or the tool does
RunFails(w) ==
  /\ Doing(w, "run") /\ Answer(w)
  /\ UNCHANGED <<device, now, made, slots, totals, cached, repeat, granted, admitted>>

Store(w) ==
  /\ Doing(w, "store")
  /\ cached' = [cached EXCEPT ![job[w].ask] = [ v |-> job[w].v, until |-> now + CacheTTL ]]
  /\ Answer(w)
  /\ UNCHANGED <<device, now, made, slots, totals, repeat, granted, admitted>>

Clock ==
  /\ now < MaxTime /\ now' = now + 1
  /\ UNCHANGED <<device, made, slots, totals, cached, repeat, job, granted, admitted>>

DispatchNext(w) ==
  \/ Ask(w) \/ CheckRate(w) \/ CheckGrant(w) \/ Cached(w) \/ NotCached(w)
  \/ Repeat(w) \/ Run(w) \/ RunFails(w) \/ Store(w)

TdNext == Clock \/ \E w \in Workers : DispatchNext(w)
TdSpec == TdInit /\ [][TdNext]_tdvars

-----------------------------------------------------------------------------
(* The type invariant.                                                        *)
TdTypeOK ==
  /\ device \in Device /\ now \in Times /\ made \in 0..MaxAsks
  /\ slots \in [Resources -> Tally] /\ granted \in [Resources -> 0..MaxAsks]
  /\ totals \in [Resources -> 0..MaxAsks] /\ admitted \in [Asks -> Tally]
  /\ cached \in [Asks -> [v : Device, until : -1..(MaxTime + CacheTTL)]]
  /\ repeat \in [Asks -> [count : 0..MaxAsks, first : Times]]
  /\ job \in [Workers -> Job]

(* The budget of a grant holds whatever runs at once: no window of its rate   *)
(* limit, wherever it starts, holds more allowed calls than the limit, and    *)
(* the allowed calls never exceed the total (engine.go:165-204). A call that  *)
(* passes the rate limit may be allowed one tick later, if the clock moves    *)
(* between the two sections under the lock: it is counted where it took its   *)
(* slot.                                                                      *)
BudgetKept ==
  \A r \in Resources :
    /\ \A t \in Times : InWindow(slots[r], t, t + RateWindow - 1) <= RateMax
    /\ granted[r] <= InWindow(slots[r], 0, MaxTime)
    /\ TotalMax > 0 => granted[r] <= totals[r] /\ totals[r] <= TotalMax

(* The breaker: no window, wherever it starts, sees a repeated acting call    *)
(* let through more than twice the limit less three times, although its own   *)
(* windows start anew with the first call after one (tool.go:224-253).        *)
RepeatsBounded ==
  \A a \in Asks, t \in Times :
    RepeatLimit > 1 /\ Kind[a] # "read"
      => InWindow(admitted[a], t, t + RepeatWindow) <= 2 * RepeatLimit - 3

(* A tool that changes something is never answered with a cached success      *)
(* (tool.go:315-320): if an acting call is answered from the cache while it   *)
(* is the only one, the device is as the call asked.                          *)
ReportedIsDone ==
  [][\A w \in Workers :
       Cached(w) /\ Kind[job[w].ask] # "read"
         /\ (\A u \in Workers \ {w} : job[u].pc = "idle")
         => device' = Effect[job[w].ask]]_tdvars
=============================================================================
