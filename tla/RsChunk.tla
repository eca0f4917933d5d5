------------------------------- MODULE RsChunk -------------------------------
(***************************************************************************)
(* How the RS_ scalar functions of src/rs_meta.rs run over one chunk.        *)
(*                                                                         *)
(*   RowFns   one loop: check the row, open its file unless this chunk has   *)
(*            it open, read, push; the first error leaves the loop.          *)
(*   MetaFns  meta_per_row opens the file of every row, then a second loop   *)
(*            takes the values from the metadata.                            *)
(*   JobFns   RS_ZonalStats: check all rows (jobs), open the distinct files  *)
(*            concurrently (open_paths), run the rows concurrently           *)
(*            (run_rows), both in stream order and at most Cap at a time.    *)
(*                                                                         *)
(* Last, the answers are written into DuckDB vectors.                        *)
(***************************************************************************)
EXTENDS RsRows, FiniteSets, FiniteSetsExt

CONSTANTS
  Paths,     \* files named by rows
  Chunks,    \* the chunks each function is called with
  Fails(_, _),  \* the [bad, lost] considered for a function and a chunk
  Cap,       \* zonal_concurrency()
  Pending

\* The rows of a call of f.  The metadata functions have no argument that can
\* be malformed, and a list that runs has its elements at 1..Len.
Admitted(f, row) ==
  /\ row # Null /\ row.path \in Paths \cup {Null}
  /\ f \in MetaFns => Judge(f, row) # "bad"
  /\ f \in ElementFns /\ Judge(f, row) = "run" =>
       LET els == Elements(f, row.arg) IN Len(els) \in Nat /\ DOMAIN els = 1..Len(els)

ASSUME RsChunkAssumption ==
  /\ Cap \in Nat \ {0} /\ Null \notin Paths
  /\ DOMAIN Chunks \subseteq RowFns \cup MetaFns \cup JobFns
  /\ \A f \in DOMAIN Chunks : \A c \in Chunks[f] :
       /\ Len(c) \in Nat /\ DOMAIN c = 1..Len(c)
       /\ \A k \in DOMAIN c : Admitted(f, c[k])

VARIABLES
  call,      \* the function and its chunk; which opens and reads will fail
  pc,        \* "open" and "row" loops, "parse", "opening", "running", "write"
  i,         \* the row the current loop is at
  opened,    \* the chunk-local map of open files
  opens,     \* how often each file was asked for
  rows,      \* the answers (for JobFns first the jobs) pushed so far
  done,      \* what completed of the current stream
  out        \* the vectors written, or the error

vars == <<call, pc, i, opened, opens, rows, done, out>>

fn == call.fn
chunk == call.chunk
N == Len(chunk)

Init ==
  /\ \E f \in DOMAIN Chunks : \E c \in Chunks[f] : \E x \in Fails(f, c) :
       call = [fn |-> f, chunk |-> c, bad |-> x.bad, lost |-> x.lost]
  /\ pc = CASE call.fn \in RowFns -> "row" [] call.fn \in MetaFns -> "open"
            [] call.fn \in JobFns -> "parse"
  /\ i = 1
  /\ opened = {}
  /\ opens = [p \in Paths |-> 0]
  /\ rows = <<>>
  /\ done = {}
  /\ out = Pending

\* The chunk fails with the error of a stage at a row.
Fail(stage, row) ==
  /\ pc' = "err"
  /\ out' = [err |-> [stage |-> stage, row |-> row]]
  /\ UNCHANGED <<call, i, rows>>

-----------------------------------------------------------------------------
\* The loops of RowFns and MetaFns.

\* The chunk-local map has the file.
IsOpen(p) == p \in opened

\* Mutant: a file that failed to open is entered as well.
AfterOpenAlways(p) == opened \cup {p}

\* The map after an open that succeeds or fails.
AfterOpen(p) == IF p \in call.bad THEN opened ELSE opened \cup {p}

\* open_cog_cached for the file of row i.
OpenFile ==
  LET p == chunk[i].path IN
    /\ ~IsOpen(p)
    /\ opens' = [opens EXCEPT ![p] = @ + 1]
    /\ opened' = AfterOpen(p)
    /\ UNCHANGED done
    /\ \/ p \in call.bad /\ Fail(2, i)
       \/ p \notin call.bad /\ UNCHANGED <<call, pc, i, rows, out>>

\* meta_per_row opens the file of every row that has one, whatever its other
\* columns hold.
MetaOpen ==
  /\ pc = "open" /\ i <= N
  /\ chunk[i].path # Null
  /\ OpenFile

\* The row has no path, or its file is open.
MetaNext ==
  /\ pc = "open" /\ i <= N
  /\ chunk[i].path = Null \/ chunk[i].path \in opened
  /\ i' = i + 1
  /\ UNCHANGED <<call, pc, opened, opens, rows, done, out>>

MetaDone ==
  /\ pc = "open" /\ i > N
  /\ pc' = "row" /\ i' = 1
  /\ UNCHANGED <<call, opened, opens, rows, done, out>>

Push(v) ==
  /\ rows' = Append(rows, v)
  /\ i' = i + 1
  /\ UNCHANGED <<call, pc, opened, opens, done, out>>

RowNull ==
  /\ pc \in {"row", "parse"} /\ i <= N
  /\ Judge(fn, chunk[i]) = "null"
  /\ Push(Null)

RowBad ==
  /\ pc \in {"row", "parse"} /\ i <= N
  /\ Judge(fn, chunk[i]) = "bad"
  /\ Fail(1, i)
  /\ UNCHANGED <<opened, opens, done>>

RowOpen ==
  /\ pc = "row" /\ i <= N
  /\ Judge(fn, chunk[i]) = "run"
  /\ OpenFile

\* The place of element k in the batch that goes to the engine: NULL elements
\* are left out of it.
Slot(els, k) == Cardinality({j \in 1..k : els[j] # Null})

\* What a row that runs yields.  The values of the batch go back to the places
\* of their elements in the list, where the NULL elements have theirs.
RowValue(row) ==
  LET els == Elements(fn, row.arg)
      batch == [s \in 1..Slot(els, Len(els)) |->
                  els[CHOOSE k \in DOMAIN els : els[k] # Null /\ Slot(els, k) = s]]
      values == [s \in DOMAIN batch |-> ElementValue(fn, row, batch[s])]
  IN IF fn \in ElementFns
     THEN [k \in DOMAIN els |-> IF els[k] = Null THEN Null ELSE values[Slot(els, k)]]
     ELSE Value(fn, row)

\* The engine call of a row fails: a read error, or a raster without the
\* georeference that the call needs.
ReadFails(k) == k \in call.lost /\ CallsEngine(fn, chunk[k])

RowRead ==
  /\ pc = "row" /\ i <= N
  /\ Judge(fn, chunk[i]) = "run"
  /\ chunk[i].path \in opened
  /\ \/ ReadFails(i) /\ Fail(3, i) /\ UNCHANGED <<opened, opens, done>>
     \/ ~ReadFails(i) /\ Push(RowValue(chunk[i]))

RowsDone ==
  /\ pc = "row" /\ i > N
  /\ pc' = "write"
  /\ UNCHANGED <<call, i, opened, opens, rows, done, out>>

-----------------------------------------------------------------------------
\* RS_ZonalStats.

\* Phase 1: the arguments of every row become a job (its row, here).
ParseJob ==
  /\ pc = "parse" /\ i <= N
  /\ Judge(fn, chunk[i]) = "run"
  /\ Push(chunk[i])

ParseDone ==
  /\ pc = "parse" /\ i > N
  /\ pc' = "opening"
  /\ UNCHANGED <<call, i, opened, opens, rows, done, out>>

\* The rows that have a job.
Jobs == {k \in DOMAIN rows : rows[k] # Null}

\* Mutant: one entry for every job.
AllPaths == Jobs

\* The distinct paths of the jobs, each named by the row where it first
\* appears.
UniqPaths == {k \in Jobs : \A j \in Jobs : j < k => rows[j].path # rows[k].path}

\* The items of a stream are named by their rows and come in that order.
\* The first one that is not complete; buffered keeps at most Cap items from
\* there on in flight or waiting for their turn.
StreamHead(items) == Min(items \ done)
Flying(items) ==
  {k \in items \ done : Cardinality({j \in items : StreamHead(items) <= j /\ j < k}) < Cap}

\* One of the opens in flight completes, one way or the other.
OpenCompletes(k) ==
  /\ pc = "opening"
  /\ k \in Flying(UniqPaths)
  /\ done' = done \cup {k}
  /\ LET p == rows[k].path IN
       /\ opens' = [opens EXCEPT ![p] = @ + 1]
       /\ opened' = AfterOpen(p)
  /\ UNCHANGED <<call, pc, i, rows, out>>

\* All opens are complete: the first path that failed decides.
OpensCollected ==
  /\ pc = "opening"
  /\ Flying(UniqPaths) = {}
  /\ LET failed == {k \in UniqPaths : rows[k].path \in call.bad} IN
       \/ /\ failed # {}
          /\ Fail(2, Min(failed))
          /\ UNCHANGED <<opened, opens, done>>
       \/ /\ failed = {}
          /\ pc' = "running" /\ done' = {}
          /\ UNCHANGED <<call, i, opened, opens, rows, out>>

\* One of the row futures in flight completes; a NULL row has nothing to do.
RowCompletes(k) ==
  /\ pc = "running"
  /\ k \in Flying(1..N)
  /\ done' = done \cup {k}
  /\ rows' = [rows EXCEPT ![k] =
                IF @ = Null THEN [ok |-> Null]
                ELSE IF ReadFails(k) THEN [err |-> k] ELSE [ok |-> RowValue(@)]]
  /\ UNCHANGED <<call, pc, i, opened, opens, out>>

\* Mutant: the last error wins.
LastOf(failed) == Max(failed)

\* first_err is set once.
FirstOf(failed) == Min(failed)

\* All rows are complete: the error of the lowest row, or the answers.
RowsCollected ==
  /\ pc = "running"
  /\ Flying(1..N) = {}
  /\ LET failed == {k \in 1..N : "err" \in DOMAIN rows[k]} IN
       \/ /\ failed # {}
          /\ Fail(3, FirstOf(failed))
          /\ UNCHANGED <<opened, opens, done>>
       \/ /\ failed = {}
          /\ pc' = "write"
          /\ rows' = [k \in 1..N |-> rows[k].ok]
          /\ UNCHANGED <<call, i, opened, opens, done, out>>

-----------------------------------------------------------------------------
\* Writing the answers.

\* write_values: a flat (or struct) vector; a NULL row leaves its slot as it
\* was and is marked in the validity mask.
FlatVector ==
  [data |-> [k \in 1..N |-> IF rows[k] = Null THEN Absent ELSE rows[k]],
   null |-> {k \in 1..N : rows[k] = Null}]

Length(k) == IF rows[k] = Null THEN 0 ELSE Len(rows[k])

\* The offset of each row's elements in the child vector, a running total, and
\* at N + 1 what it adds up to.
Offset[k \in 1..(N + 1)] == IF k = 1 THEN 0 ELSE Offset[k - 1] + Length(k - 1)

\* write_list_rows: entries of offset and length over one child vector.
ListVector ==
  LET total == Offset[N + 1]
      at(c) == CHOOSE kj \in (1..N) \X (1..total) :
                 kj[2] <= Length(kj[1]) /\ Offset[kj[1]] + kj[2] = c
      elem(c) == rows[at(c)[1]][at(c)[2]]
  IN [entry |-> [k \in 1..N |-> [offset |-> Offset[k], length |-> Length(k)]],
      null |-> {k \in 1..N : rows[k] = Null},
      child |-> [c \in 1..total |-> IF elem(c) = Null THEN Absent ELSE elem(c)],
      child_null |-> {c \in 1..total : elem(c) = Null}]

Write ==
  /\ pc = "write"
  /\ out' = IF fn \in ListFns THEN ListVector ELSE FlatVector
  /\ pc' = "ok"
  /\ UNCHANGED <<call, i, opened, opens, rows, done>>

\* What DuckDB reads back from the vectors.
ReadBack(v) ==
  IF "data" \in DOMAIN v
  THEN [k \in DOMAIN v.data |-> IF k \in v.null THEN Null ELSE v.data[k]]
  ELSE [k \in DOMAIN v.entry |->
          IF k \in v.null THEN Null
          ELSE [j \in 1..v.entry[k].length |->
                  LET c == v.entry[k].offset + j IN
                    IF c \in v.child_null THEN Null ELSE v.child[c]]]

Returned == pc \in {"ok", "err"} /\ UNCHANGED vars

Step ==
  \/ MetaOpen \/ MetaNext \/ MetaDone
  \/ RowNull \/ RowBad \/ RowOpen \/ RowRead \/ RowsDone
  \/ ParseJob \/ ParseDone
  \/ \E k \in 1..N : OpenCompletes(k)
  \/ OpensCollected
  \/ \E k \in 1..N : RowCompletes(k)
  \/ RowsCollected \/ Write

Next == Step \/ Returned

\* The calling thread runs, and every open and read ends, well or badly.
Spec == Init /\ [][Next]_vars /\ WF_vars(Step)

-----------------------------------------------------------------------------
\* Every variable keeps its type.
TypeOK ==
  /\ pc \in {"open", "row", "parse", "opening", "running", "write", "ok", "err"}
  /\ i \in 1..(N + 1)
  /\ opened \subseteq Paths \ call.bad
  /\ opens \in [Paths -> Nat]
  /\ Len(rows) <= N
  /\ done \subseteq 1..N

\* A file is opened at most once per chunk and only for a row that needs it:
\* meta_per_row for every path, the others never for a row that is NULL, and
\* RS_ZonalStats for none when any row of the chunk has bad arguments.
OpensOnce ==
  \A p \in Paths :
    /\ opens[p] <= 1
    /\ opens[p] = 1 =>
         /\ \E k \in 1..N : /\ chunk[k].path = p
                            /\ fn \in MetaFns \/ Judge(fn, chunk[k]) = "run"
         /\ fn \in JobFns => \A k \in 1..N : Judge(fn, chunk[k]) # "bad"

\* The result as a query sees it.
Visible ==
  CASE pc = "ok" -> [rows |-> ReadBack(out)]
    [] pc = "err" -> out
    [] OTHER -> Pending

Abstract == INSTANCE ScalarCall WITH result <- Visible

\* However opens and reads interleave, the chunk ends, and with exactly what
\* ScalarCall promises: every row's own answer at its place, or the first
\* error, which does not depend on the schedule.
Implements == Abstract!Spec

=============================================================================
