CONSTANTS
  p1 = p1
  p2 = p2
  a = a
  b = b
  Null = Null
  Absent = Absent
  Unparsable = Unparsable
  Unknown = Unknown
  Short = Short
  Holed = Holed
  Outside = Outside
  Opposite = Opposite
  NumBands = 2
  Lacking <- OneLacks
  Pending = Pending
  Paths <- TwoPaths
  Chunks <- UpToThree
  Fails <- SomeFail
  Cap = 2
SPECIFICATION Spec
INVARIANTS TypeOK OpensOnce
PROPERTY Implements
