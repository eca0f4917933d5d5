CONSTANTS
  p1 = p1
  p2 = p2
  a = a
  b = b
  c = c
  None = None
  Promises <- TwoPromises
  Urls <- ThreeUrls
  Calls <- SomeCalls
  MAX_READERS = 2
  MaxCalls = 2
  MaxConfigures = 1
SPECIFICATION Spec
INVARIANTS RegistryCurrent BatchExact
PROPERTY PromisesSettle
