SPECIFICATION Spec
CONSTANTS
  Length = 4
  From = 3
  To = 2
  Limits = {1, 3}
  MaxDepth = 4
  MaxPauses = 2
INVARIANTS SeesLatestOutputs
PROPERTIES HaltStopsEveryFrame
CHECK_DEADLOCK FALSE
