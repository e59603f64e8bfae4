SPECIFICATION CvSpec
CONSTANTS
  Inbox = {m1}
  Threads = {t1}
  None = None
  MaxAge = 1
  MaxTime = 2
  MaxMishaps = 0
CHECK_DEADLOCK FALSE
PROPERTY SweptIsGone
