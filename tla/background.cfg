SPECIFICATION Spec
CONSTANTS
  s1 = s1
  Scheds = {s1}
  Crons <- MCCrons
  Begin = 4
  MaxTime = 6
  MaxMishaps = 2
  PerHour = 2
  PerDay = 2
  Horizon = 64
  MinInterval = 2
  Reference = 4
  Month <- MCMonth
  Dom <- MCDom
  Dow <- MCDow
  Groups = {"empty", "one", "two"}
  Size <- MCSize
  Buffer = 2
  MaxDispatch = 2
  MaxRepeats = 1
INVARIANT BackgroundTypeOK
INVARIANT GroupInOrder
INVARIANT OncePerFire
INVARIANT CronNextIsEarliest
PROPERTY OutcomeFinal
PROPERTY DueIsServed
PROPERTY GroupAnswered
CHECK_DEADLOCK FALSE
