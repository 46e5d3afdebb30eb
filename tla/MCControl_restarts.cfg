CONSTANTS
  Requests = {r1, r2}
  WorkerIds = {w1, w2, w3, w4}
  None = None
  Boot = Boot
  WorkerCount = 1
  MaxFaults = 2
  MaxEpochs = 2
SPECIFICATION Spec
SYMMETRY Symmetry
CHECK_DEADLOCK FALSE
INVARIANTS
  TypeOK
  PodBound
  NothingForgotten
  PlacesAddUp
  PooledWorkerReachable
  IInv
  SingleUse
  OwnResult
  ConsumerNeverBlocks
  SubscribeFindsChannel
  StopLeavesNothing
PROPERTIES
  KeepsContract
