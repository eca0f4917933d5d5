------------------------------ MODULE TileLists ------------------------------
(***************************************************************************)
(* The order in which the pixel functions of crates/engine/src/pixel.rs list *)
(* the tiles they pass to fetch_decoded.  A tile is a pair <<tx, ty>>.       *)
(***************************************************************************)
EXTENDS Integers, Sequences, FiniteSets

\* Tuple order of (tx, ty): what sort_unstable and BTreeSet produce.
XMajor(a, b) == a[1] < b[1] \/ (a[1] = b[1] /\ a[2] < b[2])

\* Outer loop over ty, inner loop over tx.
YMajor(a, b) == a[2] < b[2] \/ (a[2] = b[2] /\ a[1] < b[1])

\* The elements of S in a strict order.
Sorted(S, before(_, _)) ==
  [k \in 1..Cardinality(S) |->
     CHOOSE a \in S : Cardinality({b \in S : before(b, a)}) = k - 1]

\* read_pixels: the tiles under a set of points, sorted and deduplicated.
ReadPixelsTiles(tiles) == Sorted(tiles, XMajor)

\* zonal_stats_polygon_batch_at: the BTreeSet union of the zones' windows.
BatchTiles(windows) ==
  Sorted(UNION {(w[1]..w[2]) \X (w[3]..w[4]) : w \in windows}, XMajor)

\* accumulate_window and band_window: the tiles of one window, row by row.
WindowTiles(tx0, tx1, ty0, ty1) ==
  Sorted((tx0..tx1) \X (ty0..ty1), YMajor)

=============================================================================
