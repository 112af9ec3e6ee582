SPECIFICATION FairSpec
CONSTANTS
  Callers = {c1}
  Last = 3
  Out <- Line
  Conditions = {}
  Gates = {}
  Pauses = {}
  Charges = {1, 2}
  Strict = FALSE
  HasHandler = FALSE
  Overlap = FALSE
  MaxCalls = 4
  MaxAnswers = 1
  MaxFaults = 3
INVARIANTS NoRoutedNodeSkipped NoOutputLost RerunOnlyAfterLastNode
PROPERTIES Recovers
CHECK_DEADLOCK FALSE
