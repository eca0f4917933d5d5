CONSTANT Sizes <- Boundaries
SPECIFICATION FairSpec
INVARIANTS WholeDocument SmallAccepted RequestsBounded
PROPERTY FetchEnds
