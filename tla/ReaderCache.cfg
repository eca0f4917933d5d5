CONSTANTS
  c1 = c1
  c2 = c2
  r1 = r1
  r2 = r2
  r3 = r3
  local1 = local1
  t1 = t1
  None = None
  Callers <- TwoCallers
  Paths <- WithLocal
  Remote <- ThreeRemote
  Tiles <- OneTile
  Ttl = 2
  Cap = 2
  MaxTime = 2
  MaxVersion = 1
  MaxCalls = 3
SPECIFICATION Spec
CHECK_DEADLOCK FALSE
SYMMETRY Symmetry
INVARIANTS TypeOK NoForeignData ReopenInvalidates CapHeld
PROPERTY OldestOut
