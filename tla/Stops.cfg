SPECIFICATION FairSpec
CONSTANTS
  Threads = {t1, t2}
  MaxSteps = 3
  None = None
INVARIANTS StopsAtNextStep StopIsTold
PROPERTY StopLands
CHECK_DEADLOCK FALSE
