--------------------------- MODULE MCWasmRegistry ---------------------------
EXTENDS WasmRegistry

CONSTANTS p1, p2, a, b, c

TwoPromises == {p1, p2}
ThreeUrls == {a, b, c}

Batch(us) == [urls |-> us, reads |-> TRUE, parses |-> TRUE]
Metadata(u) == [urls |-> <<u>>, reads |-> FALSE, parses |-> TRUE]

\* A batch with a repeated URL, one that shares a URL with it and fills the
\* registry, an empty one, metadata, a call that does not parse.
SomeCalls ==
  {Batch(<<a, a, b>>), Batch(<<b, c>>), Batch(<<>>),
   Metadata(a), [Metadata(a) EXCEPT !.parses = FALSE]}

=============================================================================
