SPECIFICATION Spec
CONSTANTS
  Callers = {c1}
  Last = 3
  Out <- Fork
  Conditions = {1}
  Gates = {}
  Pauses = {}
  Charges = {}
  Strict = FALSE
  HasHandler = FALSE
  Overlap = FALSE
  MaxCalls = 2
  MaxAnswers = 0
  MaxFaults = 1
INVARIANTS OnlyRoutedNodesRun
CHECK_DEADLOCK FALSE
