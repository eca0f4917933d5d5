CONSTANTS
  None = None
  NonFinite = NonFinite
  NaN = NaN
  Widest = 7
  IndexBits = 4
  MaxLevels = 4
  Files <- SomeFiles
  Requests <- SomeRequests
  Pixel <- PowerOfTwo
  Padding <- Garbage
SPECIFICATION Spec
INVARIANTS TilesOnce  ZonalExact WindowsExact ZonesAgree LevelFits
