SPECIFICATION MCSpec
CONSTANTS
  c1 = c1
  c2 = c2
  m1 = m1
  m2 = m2
  t1 = t1
  t2 = t2
  Callers = {c1, c2}
  MaxStep = 2
  Inbox = {m1, m2}
  Threads = {t1, t2}
  None = None
  MaxAge = 0
  MaxTime = 1
  MaxMishaps = 1
SYMMETRY Symmetry
INVARIANT CompletedAtIffTerminal
INVARIANT OneSession
INVARIANT TurnRecorded
INVARIANT RunRecorded
PROPERTY IllegalMoveIsLostUpdate
PROPERTY QuietTerminalIsFinal
PROPERTY SoloLifecycle
