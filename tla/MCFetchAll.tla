------------------------------ MODULE MCFetchAll ------------------------------
EXTENDS FetchAll

\* Every request length, the limit and the largest request, each with the
\* lengths just below and just above it; the empty document.
Around(n) == {n - 1, n, n + 1}
Boundaries ==
  {0, 1} \cup UNION {Around(c) : c \in {64 * KiB, 256 * KiB, MiB, 4 * MiB, 16 * MiB, 64 * MiB, 256 * MiB}}

=============================================================================
