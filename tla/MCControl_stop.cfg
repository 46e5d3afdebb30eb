CONSTANTS
  Requests = {r1}
  WorkerIds = {w1, w2}
  None = None
  Boot = Boot
  WorkerCount = 1
  MaxFaults = 0
  MaxEpochs = 1
SPECIFICATION Spec
CHECK_DEADLOCK FALSE
INVARIANTS
  StopNeverPanics
