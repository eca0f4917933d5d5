CONSTANTS
  f1 = f1
  f2 = f2
  None = None
  Fields <- TwoFields
  Servers <- AllServers
  Caps <- SmallCaps
SPECIFICATION Spec
SYMMETRY Symmetry
INVARIANTS TypeOK RowsInOrder DropsAreExplicit RequestBound SearchContinues
