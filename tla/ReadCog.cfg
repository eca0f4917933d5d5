CONSTANTS
  None = None
  NonFinite = NonFinite
  RowCounts <- Counts
  CHUNK = 3
  NaN = NaN
  Widest = 99
  IndexBits = 2
  MaxLevels = 2
  Files <- SomeFiles
  Filters <- SomeFilters
  Opens = {TRUE, FALSE}
SPECIFICATION CogSpec
INVARIANTS ScanComplete PruningExact
