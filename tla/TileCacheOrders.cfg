CONSTANTS
  w1 = w1
  w2 = w2
  w3 = w3
  t1 = t1
  t2 = t2
  NoTile = NoTile
  Workers <- TwoWorkers
  Threads <- TwoThreads
  ThreadOf <- OwnThread
  Keys <- Grid
  Requests <- MixedOrders
  Bytes <- HeavyFirst
  Weight <- WeightOf
  MaxBytes = 5
  Wasm = FALSE
  MaxCalls = 1
SPECIFICATION FairSpec
PROPERTY CallsReturn
CHECK_DEADLOCK FALSE
