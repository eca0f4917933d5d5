----------------------------- MODULE MCTileCache -----------------------------
(***************************************************************************)
(* Instances of TileCache for TLC.  Keys are the tiles <<tx, ty>> of one     *)
(* level of one reader; the requests are the lists the code builds.          *)
(***************************************************************************)
EXTENDS TileCache, TileLists, Functions, TLC

CONSTANTS w1, w2, w3, t1, t2

TwoWorkers == {w1, w2}
ThreeWorkers == {w1, w2, w3}
OneThread == {t1}
TwoThreads == {t1, t2}

\* One call per DuckDB thread.
OwnThread == (w1 :> t1) @@ (w2 :> t2)
\* The rows of one chunk, or wasm: all calls on one thread.
SharedThread == [w \in Workers |-> t1]

\* Two tiles; two rows of two; one row of three.
Pair == (0..1) \X {0}
Grid == (0..1) \X (0..1)
Row == (0..2) \X {0}

\* Two sizes, so that what is evicted depends on what was used last.
HeavyFirst == [k \in Keys |-> IF k[1] = 0 THEN 2 ELSE 1]
LightFirst == [k \in Keys |-> IF k[1] = 0 THEN 1 ELSE 2]

WeightOf == [S \in SUBSET Keys |-> SumFunctionOnSet(Bytes, S)]

\* Windows over a row of two tiles.
TwoTiles == {WindowTiles(0, 0, 0, 0), WindowTiles(1, 1, 0, 0),
             WindowTiles(0, 1, 0, 0)}

\* Overlapping windows over a row of three.
RowWindows == {WindowTiles(0, 1, 0, 0), WindowTiles(1, 2, 0, 0),
               WindowTiles(2, 2, 0, 0)}

\* Point reads of two diagonal tiles against a window over the grid.
MixedOrders == {ReadPixelsTiles({<<0, 1>>, <<1, 0>>}), WindowTiles(0, 1, 0, 1)}

\* A single shared tile.
OneTile == {WindowTiles(0, 0, 0, 0)}

=============================================================================
