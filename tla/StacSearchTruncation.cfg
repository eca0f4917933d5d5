CONSTANTS
  f1 = f1
  f2 = f2
  None = None
  Fields <- TwoFields
  Servers <- FiniteServers
  Caps <- SmallCaps
SPECIFICATION Spec
SYMMETRY Symmetry
INVARIANT NoSilentTruncation
