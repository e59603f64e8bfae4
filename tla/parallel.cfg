SPECIFICATION ParSpec
CONSTANTS
  sup = sup
  user = user
  Sup <- sup
  Callers <- MCCallers
  Plans <- MCPlans
  Graphs <- MCGraphs
  MaxStep = 3
  MaxReplans = 1
  MaxLate = 1
  Capacity = 2
  MaxResults = 1
  MaxDisturb = 1
INVARIANT DepsCompleted
INVARIANT ReplanIsSettled
INVARIANT CompletedMeansSettled
PROPERTY RunEnds
CHECK_DEADLOCK FALSE
