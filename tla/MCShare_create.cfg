CONSTANTS
  Creators = {c1, c2, c3}
  Keys = {k1, k2}
  None = None
  Attempts = 4
  MaxFaults = 1
SPECIFICATION FairSpec
CHECK_DEADLOCK FALSE
INVARIANTS
  TypeOK
  LostOnlyToRival
PROPERTIES
  CreateEnds
