SPECIFICATION Spec
CONSTANTS
  Callers = {c1, c2}
  MaxIter = 2
  Width = 2
  Kinds = {"plain", "ask", "policy"}
  Stops = TRUE
  MaxTools = 3
  MaxCalls = 3
  MaxAnswers = 3
  MaxFaults = 2
INVARIANTS TypeOK HistoryBalanced ToolRunsOnce AnswerResumesItsPause StaysResumable
PROPERTIES FinishedIsFinal ApprovedRunsOnly ImplementsApproval
SYMMETRY Alike
CHECK_DEADLOCK FALSE
