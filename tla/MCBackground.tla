---------------------------- MODULE MCBackground ----------------------------
(* TLC instance of Schedule and GroupRun, which share nothing, and of Cron    *)
(* for every expression and time of a small calendar; one of the three runs   *)
(* in each behaviour.                                                         *)
EXTENDS Schedule, GroupRun, TLC

CONSTANT s1
VARIABLES part, expr, from   \* what runs; the expression and the time looked at
sides == <<part, svars, gvars, expr, from>>

(* Years of two months, of two days each; in every fourth year the second     *)
(* month has a third day. Days of two hours of two minutes.                   *)
MCMonth == <<1,1,2,2,2, 1,1,2,2, 1,1,2,2, 1,1,2,2, 1,1,2,2,2, 1,1,2,2, 1,1,2,2, 1,1,2,2, 1,1,2,2,2, 1,1,2,2>>
MCDom == <<1,2,1,2,3, 1,2,1,2, 1,2,1,2, 1,2,1,2, 1,2,1,2,3, 1,2,1,2, 1,2,1,2, 1,2,1,2, 1,2,1,2,3, 1,2,1,2>>
MCDow == <<1,0,1,0,1,0,1,0,1,0,1,0,1,0,1,0,1,0,1,0,1,0,1,0,1,0,1,0,1,0,1,0,1,0,1,0,1,0,1,0,1,0,1>>
Hourly == Expr({0}, 0..1, 1..3, 1..2, 0..1)
Daily == Expr({0}, {0}, 1..3, 1..2, 0..1)
MCCrons == {Hourly, Daily}
MCNever == {Expr({0}, {0}, {3}, {1}, 0..1)}   \* a day its month does not have
Some(n, m) == SUBSET (n..m) \ {{}}
AllExprs == {Expr(m, h, d, mo, w) : m \in Some(0, 1), h \in Some(0, 1), d \in Some(1, 3),
                                    mo \in Some(1, 2), w \in Some(0, 1)}

MCSize == [g \in {"empty", "one", "two"} |-> CASE g = "empty" -> 0 [] g = "one" -> 1 [] g = "two" -> 2]

Init ==
  /\ part \in {"schedules", "group", "cron"} /\ SchedInit /\ GrInit /\ from = 0
  /\ expr \in IF part = "cron" THEN AllExprs ELSE {Daily}
Schedules(A) == part = "schedules" /\ A /\ UNCHANGED <<part, gvars, expr, from>>
GroupRuns(A) == part = "group" /\ A /\ UNCHANGED <<part, svars, expr, from>>
LookAt == /\ part = "cron" /\ from = 0 /\ from' \in Reference..71
          /\ UNCHANGED <<part, svars, gvars, expr>>
Fairness == /\ WF_sides(Schedules(DispatchNext("loop"))) /\ WF_sides(Schedules(Clock))
            /\ WF_sides(GroupRuns(Manage)) /\ WF_sides(GroupRuns(SubStepTimeout))
Spec == Init /\ [][Schedules(SchedNext) \/ GroupRuns(GrNext) \/ LookAt]_sides /\ Fairness

(* The type invariants of Schedule and GroupRun.                              *)
BackgroundTypeOK == SchedTypeOK /\ GrTypeOK

(* Cron.NextIsEarliest, for the expression and time looked at (cron.go:       *)
(* 110-140).                                                                  *)
CronNextIsEarliest == from > 0 => NextIsEarliest(expr, from)
=============================================================================
