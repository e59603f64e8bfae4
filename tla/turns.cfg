SPECIFICATION Spec
CONSTANTS
  main = main
  Agents = {1, 2}
  Nobody = main
  UserLimits = {1, 2}
  MaxRunning = 1
  CurrentDepth = 0
  MaxDepth = 1
  MaxFaults = 1
  Free = Free
  Callers = {1, 2}
  MaxGen = 3
  MaxMishaps = 1
INVARIANT TurnsTypeOK
INVARIANT SlotsAccounted
INVARIANT TablesAgree
INVARIANT NothingLeaks
INVARIANT ToolsComeBack
PROPERTY WorkingConnectionStays
PROPERTY EveryCallReturns
CHECK_DEADLOCK FALSE
