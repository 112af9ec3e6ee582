SPECIFICATION Spec
CONSTANTS
  Callers = {c1}
  Last = 8
  Out <- Branches
  Conditions = {3}
  Gates = {4}
  Pauses = {}
  Charges = {1, 5}
  Strict = TRUE
  HasHandler = TRUE
  Overlap = FALSE
  MaxCalls = 1
  MaxAnswers = 0
  MaxFaults = 1
INVARIANTS NoRoutedNodeSkipped BranchesExclusive
CHECK_DEADLOCK FALSE
