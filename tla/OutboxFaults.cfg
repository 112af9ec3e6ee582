SPECIFICATION FairSpec
CONSTANTS
  Stores = {s1, s2}
  Last = 3
  Limit = 2
  Poison = {2}
  MaxFaults = 1
INVARIANTS TypeOK SettledRightly
PROPERTIES DrainEnds PoisonStrandsNobody
CHECK_DEADLOCK FALSE
