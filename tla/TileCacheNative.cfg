CONSTANTS
  w1 = w1
  w2 = w2
  w3 = w3
  t1 = t1
  t2 = t2
  NoTile = NoTile
  Workers <- TwoWorkers
  Threads <- TwoThreads
  ThreadOf <- OwnThread
  Keys <- Row
  Requests <- RowWindows
  Bytes <- HeavyFirst
  Weight <- WeightOf
  MaxBytes = 3
  Wasm = FALSE
  MaxCalls = 2
SPECIFICATION FairSpec
INVARIANTS TypeOK BudgetHeld SingleFlight NoLostWakeup ResultsAligned
PROPERTIES EvictionIsLRU FreshTileStays CallsReturn ImplementsStore
