------------------------------ MODULE ScalarCall ------------------------------
(***************************************************************************)
(* What a query is promised of an RS_ scalar function on one chunk: after a  *)
(* while it returns, in one step, either the answers of all rows, each in    *)
(* its place, or the one error that comes first.  Nothing depends on the     *)
(* order in which files were opened or reads completed.                      *)
(***************************************************************************)
EXTENDS RsRows, FiniteSets

CONSTANT Pending    \* no result yet

VARIABLES
  call,      \* [fn, chunk, bad, lost]: what is asked, and what will fail
  result

\* The answer of row i: its elements are answered one by one.
Answer(c, i) ==
  LET row == c.chunk[i]
      els == Elements(c.fn, row.arg)
  IN IF Judge(c.fn, row) # "run" THEN Null
     ELSE IF c.fn \in ElementFns
          THEN [k \in DOMAIN els |->
                  IF els[k] = Null THEN Null ELSE ElementValue(c.fn, row, els[k])]
          ELSE Value(c.fn, row)

\* Everything that is wrong with a call, by stage: arguments, files, pixels.
\* c.bad are the paths that do not open, c.lost the rows whose engine call
\* fails.
Faults(c) ==
  LET rows == DOMAIN c.chunk
      verdict(i) == Judge(c.fn, c.chunk[i])
      opens(i) == IF c.fn \in MetaFns THEN c.chunk[i].path # Null ELSE verdict(i) = "run"
      faulty(s, i) ==
        CASE s = 1 -> verdict(i) = "bad"
          [] s = 2 -> opens(i) /\ c.chunk[i].path \in c.bad
          [] s = 3 -> verdict(i) = "run" /\ i \in c.lost /\ CallsEngine(c.fn, c.chunk[i])
  IN {f \in [stage : 1..3, row : rows] : faulty(f.stage, f.row)}

\* Functions that go row by row meet the fault of the first row; the others
\* finish each stage (arguments, files, pixels) for all rows before the next.
Precedes(c, f, g) ==
  IF c.fn \in RowFns
  THEN f.row < g.row \/ (f.row = g.row /\ f.stage <= g.stage)
  ELSE f.stage < g.stage \/ (f.stage = g.stage /\ f.row <= g.row)

Result(c) ==
  IF Faults(c) = {} THEN [rows |-> [i \in DOMAIN c.chunk |-> Answer(c, i)]]
  ELSE [err |-> CHOOSE f \in Faults(c) : \A g \in Faults(c) : Precedes(c, f, g)]

Init == result = Pending

Return ==
  /\ result = Pending
  /\ result' = Result(call)
  /\ UNCHANGED call

\* It returns nothing but the result, and once.
SafeSpec == Init /\ [][Return]_<<call, result>>

Spec == SafeSpec /\ WF_<<call, result>>(Return)

=============================================================================
