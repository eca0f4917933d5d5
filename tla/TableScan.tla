------------------------------ MODULE TableScan ------------------------------
(***************************************************************************)
(* The scan phase of the table functions read_cog, read_stac and             *)
(* read_stac_search: bind fixed the rows, init made a cursor, and each call  *)
(* of func takes the next batch with cursor.fetch_add(CHUNK) and copies it.  *)
(*                                                                         *)
(* Rows are numbered from 0.  DuckDB calls func until it returns no rows; as *)
(* no init raises the number of threads from 1, the calls do not overlap.    *)
(***************************************************************************)
EXTENDS Integers

CONSTANTS
  RowCounts,   \* possible numbers of rows
  CHUNK        \* batch length (2048 in the code)

ASSUME TableScanAssumption ==
  /\ RowCounts \subseteq Nat
  /\ CHUNK \in Nat \ {0}

VARIABLES
  rows,     \* number of rows in the bind data
  cursor,   \* InitData.cursor
  ended,    \* DuckDB has seen an empty chunk
  times     \* how often each row was emitted

vars == <<rows, cursor, ended, times>>

Least(a, b) == IF a < b THEN a ELSE b

\* tiles[start..(start + CHUNK).min(tiles.len())]
Batch == cursor .. Least(cursor + CHUNK, rows) - 1

Init ==
  /\ rows \in RowCounts
  /\ cursor = 0
  /\ ended = FALSE
  /\ times = [r \in 0 .. rows - 1 |-> 0]

\* Mutant: the next batch skips a row.
SkippingNext == cursor + CHUNK + 1

\* Where the cursor stands after fetch_add(CHUNK).
NextCursor == cursor + CHUNK

\* start >= tiles.len()
PastEnd == cursor >= rows

\* func with rows left: the batch is written to the output chunk.
Emit ==
  /\ ~ended /\ ~PastEnd
  /\ times' = [r \in DOMAIN times |-> times[r] + (IF r \in Batch THEN 1 ELSE 0)]
  /\ cursor' = NextCursor
  /\ UNCHANGED <<rows, ended>>

\* func without: set_len(0) ends the scan.
Exhausted ==
  /\ ~ended /\ PastEnd
  /\ ended' = TRUE
  /\ cursor' = NextCursor
  /\ UNCHANGED <<rows, times>>

Scanned == ended /\ UNCHANGED vars

Next == Emit \/ Exhausted \/ Scanned

Spec == Init /\ [][Next]_vars

-----------------------------------------------------------------------------
\* A scan that ends has emitted every row once, also when the number of rows
\* is 0, a multiple of CHUNK or one off it.
ScanComplete == ended => \A r \in 0 .. rows - 1 : times[r] = 1

=============================================================================
