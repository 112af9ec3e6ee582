SPECIFICATION Spec
CONSTANTS
  Length = 3
  From = 2
  To = 1
  Limits = {2}
  MaxDepth = 5
  MaxPauses = 0
INVARIANT CycleBounded
CHECK_DEADLOCK FALSE
