SPECIFICATION FairSpec
CONSTANTS
  Threads = {t1,t2}
  Helpers = {h1, h2}
  None = None
  MaxPauses = 2
  MaxOps = 4
  MaxFaults = 1
INVARIANTS ClaimedOnce PauseWhole CloseWaits
PROPERTIES LocksComeBack
CHECK_DEADLOCK FALSE
