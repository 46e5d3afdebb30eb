CONSTANTS
  Requests = {r1, r2}
  WorkerIds = {w1, w2, w3}
  None = None
  Boot = Boot
  WorkerCount = 1
  MaxFaults = 1
  MaxEpochs = 1
SPECIFICATION FairSpec
CHECK_DEADLOCK FALSE
PROPERTIES
  EveryRequestAnswered
  PoolRefills
  StopEnds
