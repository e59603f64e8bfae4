SPECIFICATION ParSpec
CONSTANTS
  sup = sup
  user = user
  Sup <- sup
  Callers <- MCCallers
  Plans <- MCPlans
  Graphs <- MCIndependent
  MaxStep = 2
  MaxReplans = 1
  MaxLate = 0
  Capacity = 1
  MaxResults = 1
  MaxDisturb = 0
CHECK_DEADLOCK FALSE
PROPERTY ConfirmationNeverFails
