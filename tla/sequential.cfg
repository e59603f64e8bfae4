SPECIFICATION SeqSpec
CONSTANTS
  sup = sup
  user = user
  Sup <- sup
  Callers <- MCCallers
  Plans <- MCPlans
  MaxStep = 3
  MaxReplans = 1
  MaxLate = 1
  Capacity = 1
  MaxResults = 1
  MaxDisturb = 2
INVARIANT InPlanOrder
INVARIANT CompletedMeansSettled
PROPERTY SettledStepsFinal
PROPERTY ComesToRest
CHECK_DEADLOCK FALSE
