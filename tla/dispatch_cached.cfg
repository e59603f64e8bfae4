SPECIFICATION Spec
CONSTANTS
  c1 = c1
  c2 = c2
  file1 = file1
  file2 = file2
  large = large
  Callers = {c1, c2}
  Amounts <- MCAmounts
  Limits <- MCLimits
  MaxTx = 3
  MaxDay = 2
  Editors = {c1, c2}
  Paths = {file1, file2}
  Contents = {large}
  Large = {large}
  Huge = {}
  Absent = Absent
  MaxCalls = 3
  MaxEpoch = 1
  Workers = {c1, c2}
  Asks <- MCSwitch
  Kind <- MCKind
  Effect <- MCEffect
  Device = {"lit", "dark"}
  RateMax = 2
  RateWindow = 1
  TotalMax = 3
  GrantTTL = 1
  RepeatLimit = 2
  RepeatWindow = 1
  CacheTTL = 1
  MaxAsks = 4
  MaxTime = 2
SYMMETRY Symmetry
CHECK_DEADLOCK FALSE
PROPERTY ReportedIsDone
