---------------------------- MODULE MCReaderCache ----------------------------
EXTENDS ReaderCache, TLC

CONSTANTS c1, c2, r1, r2, r3, local1, t1

TwoCallers == {c1, c2}

ThreeRemote == {r1, r2, r3}
WithLocal == ThreeRemote \cup {local1}

OneTile == {t1}

\* Callers are alike, and so are remote paths.
Symmetry == Permutations(Callers) \cup Permutations(Remote)

=============================================================================
