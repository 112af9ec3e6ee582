SPECIFICATION FairSpec
CONSTANTS
  Commands = {a, b}
  Slots = 2
  MaxFaults = 1
INVARIANTS TypeOK OneAtATime OneVerdict
PROPERTIES GivenIsSettled StopEnds
CHECK_DEADLOCK FALSE
