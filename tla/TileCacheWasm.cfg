CONSTANTS
  w1 = w1
  w2 = w2
  w3 = w3
  t1 = t1
  t2 = t2
  NoTile = NoTile
  Workers <- ThreeWorkers
  Threads <- OneThread
  ThreadOf <- SharedThread
  Keys <- Pair
  Requests <- TwoTiles
  Bytes <- LightFirst
  Weight <- WeightOf
  MaxBytes = 1
  Wasm = TRUE
  MaxCalls = 1
SPECIFICATION FairSpec
INVARIANT BudgetHeld
PROPERTIES EvictionIsLRU CallsReturn
