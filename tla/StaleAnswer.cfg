SPECIFICATION Spec
CONSTANTS
  Callers = {c1, c2}
  Last = 3
  Out <- Line
  Conditions = {}
  Gates = {}
  Pauses = {1, 2}
  Charges = {}
  Strict = FALSE
  HasHandler = FALSE
  Overlap = TRUE
  MaxCalls = 1
  MaxAnswers = 2
  MaxFaults = 0
INVARIANTS AnswerResumesItsPause
CHECK_DEADLOCK FALSE
