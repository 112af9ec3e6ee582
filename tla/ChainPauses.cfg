SPECIFICATION Spec
CONSTANTS
  Callers = {c1, c2}
  Last = 3
  Out <- Line
  Conditions = {}
  Gates = {1}
  Pauses = {2, 3}
  Charges = {2}
  Strict = FALSE
  HasHandler = TRUE
  Overlap = TRUE
  MaxCalls = 3
  MaxAnswers = 3
  MaxFaults = 2
INVARIANTS TypeOK EveryGatedStepApproved ApprovalInOneHand AnswersTakeTurns IdempotentBodyOnce StaysResumable
PROPERTIES FinishedIsFinal ImplementsApproval
CHECK_DEADLOCK FALSE
