----------------------------- MODULE MCStacSearch -----------------------------
EXTENDS StacSearch, TLC

CONSTANTS f1, f2

TwoFields == {f1, f2}

\* Up to three pages of up to two rows each.
PageCounts == UNION {[1..n -> 0..2] : n \in 1..3}

AllServers == [counts : PageCounts, endless : BOOLEAN]

FiniteServers == [counts : PageCounts, endless : {FALSE}]

SmallCaps == 1..4

\* The fields of a body are alike.
Symmetry == Permutations(Fields)

===============================================================================
