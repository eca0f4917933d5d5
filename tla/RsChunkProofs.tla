---------------------------- MODULE RsChunkProofs ----------------------------
(***************************************************************************)
(* Theorems about RsChunk for every chunk (any number of rows and files),    *)
(* every choice of opens and reads that fail, and every bound on the rows    *)
(* in flight; last, that it implements ScalarCall, liveness aside.         *)
(***************************************************************************)
EXTENDS RsChunk, FiniteSetTheorems, NaturalsInduction, WellFoundedInduction, TLAPS

\* s is a sequence, of whatever elements.
IsSeq(s) == s \in Seq({s[k] : k \in DOMAIN s})

\* The call is one of a known function on a chunk of rows.
CallSound ==
  /\ fn \in RowFns \cup MetaFns \cup JobFns
  /\ N \in Nat /\ DOMAIN chunk = 1..N
  /\ \A k \in 1..N : Admitted(fn, chunk[k])

\* Where each way of running a function stands.
PlaceSound ==
  /\ pc = "open" => fn \in MetaFns /\ Len(rows) = 0
  /\ pc = "row" => fn \in RowFns \cup MetaFns
  /\ pc \in {"parse", "opening", "running"} => fn \in JobFns
  /\ pc \in {"row", "parse"} => Len(rows) = i - 1
  /\ pc \in {"opening", "running"} => Len(rows) = N
  /\ IsSeq(rows)

\* While jobs are parsed and opened: every row taken is no error, and one
\* that has a job runs.
JobsSound ==
  pc \in {"parse", "opening"} =>
    \A k \in 1..Len(rows) :
      /\ Judge(fn, chunk[k]) # "bad"
      /\ rows[k] # Null => rows[k] = chunk[k] /\ Judge(fn, chunk[k]) = "run"

\* Some row of the chunk needs file p opened.
Needed(p) ==
  /\ \E k \in 1..N : /\ chunk[k].path = p
                     /\ fn \in MetaFns \/ Judge(fn, chunk[k]) = "run"
  /\ fn \in JobFns => \A k \in 1..N : Judge(fn, chunk[k]) # "bad"

\* Which opens were asked for so far: in the loops those of the open files,
\* in open_paths those of the items that are complete.
OpensSound ==
  /\ \A p \in Paths : opens[p] = 0 \/ (opens[p] = 1 /\ Needed(p))
  /\ pc \in {"open", "row"} => \A p \in Paths : p \notin opened => opens[p] = 0
  /\ pc = "parse" => \A p \in Paths : opens[p] = 0
  /\ pc \in {"open", "row", "parse"} => done = {}
  /\ pc = "opening" =>
       /\ done \subseteq UniqPaths
       /\ \A p \in Paths : opens[p] = 1 => \E k \in done : rows[k].path = p

ChunkInv == TypeOK /\ CallSound /\ PlaceSound /\ JobsSound /\ OpensSound

-----------------------------------------------------------------------------
\* A row that runs has a path.
LEMMA RunsHavePath ==
  ASSUME NEW f, NEW row, Judge(f, row) = "run"
  PROVE  row.path # Null
BY DEF Judge

\* A row names one of the files or none.
LEMMA RowPath ==
  ASSUME CallSound, NEW k \in 1..N
  PROVE  chunk[k].path \in Paths \cup {Null}
BY DEF CallSound, Admitted

\* What pushing an answer does to the rows.
LEMMA AppendProps ==
  ASSUME NEW s, IsSeq(s), NEW v
  PROVE  /\ IsSeq(Append(s, v)) /\ Len(s) \in Nat
         /\ Len(Append(s, v)) = Len(s) + 1
         /\ \A k \in 1..Len(s) : Append(s, v)[k] = s[k]
         /\ Append(s, v)[Len(s) + 1] = v
<1> DEFINE S == {s[k] : k \in DOMAIN s}
           t == Append(s, v)
<1>1. s \in Seq(S \cup {v})
  BY DEF IsSeq
<1>2. /\ t \in Seq(S \cup {v}) /\ Len(s) \in Nat /\ Len(t) = Len(s) + 1
      /\ \A k \in 1..Len(s) : t[k] = s[k]
      /\ t[Len(s) + 1] = v
  <2> HIDE DEF S
  <2>1. QED
    BY <1>1
<1> HIDE DEF t
<1>3. t \in Seq({t[k] : k \in DOMAIN t})
  BY <1>2
<1>4. QED
  BY <1>2, <1>3 DEF IsSeq, t

\* What replacing an answer does to the rows.
LEMMA ReplaceProps ==
  ASSUME NEW s, IsSeq(s), NEW k \in 1..Len(s), NEW v
  PROVE  IsSeq([s EXCEPT ![k] = v]) /\ Len([s EXCEPT ![k] = v]) = Len(s)
<1> DEFINE S == {s[j] : j \in DOMAIN s}
           t == [s EXCEPT ![k] = v]
<1>1. s \in Seq(S \cup {v})
  BY DEF IsSeq
<1>2. t \in Seq(S \cup {v}) /\ Len(t) = Len(s)
  <2> HIDE DEF S
  <2>1. QED
    BY <1>1
<1> HIDE DEF t
<1>3. t \in Seq({t[j] : j \in DOMAIN t})
  BY <1>2
<1>4. QED
  BY <1>2, <1>3 DEF IsSeq, t

\* A table of n answers is a sequence of them.
LEMMA TableProps ==
  ASSUME NEW n \in Nat, NEW s, DOMAIN s = 1..n, s = [k \in 1..n |-> s[k]]
  PROVE  IsSeq(s) /\ Len(s) = n
<1>1. s \in [1..n -> {s[k] : k \in 1..n}]
  OBVIOUS
<1>2. QED
  BY <1>1 DEF IsSeq

-----------------------------------------------------------------------------
\* The ways of running are apart.
LEMMA WaysApart == \A f \in RowFns \cup MetaFns : f \notin JobFns
BY DEF RowFns, MetaFns, CoordFns, JobFns

\* What is asked does not change.
LEMMA SameCall ==
  ASSUME call' = call
  PROVE  /\ N' = N /\ fn' = fn /\ chunk' = chunk
         /\ CallSound => CallSound'
         /\ \A p : Needed(p)' <=> Needed(p)
BY DEF N, fn, chunk, CallSound, Needed

\* A file that this chunk has not opened is opened for the row at hand.
LEMMA OpenFileSound ==
  ASSUME ChunkInv, pc \in {"open", "row"}, i \in 1..N, chunk[i].path # Null,
         fn \in MetaFns \/ Judge(fn, chunk[i]) = "run", OpenFile
  PROVE  ChunkInv'
<1> DEFINE p == chunk[i].path
<1>1. /\ p \notin opened /\ opens' = [opens EXCEPT ![p] = opens[p] + 1]
      /\ opened' = (IF p \in call.bad THEN opened ELSE opened \cup {p})
      /\ done' = done /\ call' = call /\ i' = i /\ rows' = rows
      /\ \/ p \in call.bad /\ pc' = "err"
         \/ p \notin call.bad /\ pc' = pc
  BY DEF OpenFile, IsOpen, AfterOpen, Fail
<1>2. /\ N' = N /\ fn' = fn /\ chunk' = chunk /\ CallSound' /\ p \in Paths
      /\ \A q : Needed(q)' <=> Needed(q)
  BY <1>1, SameCall, RowPath DEF ChunkInv
<1>3. Needed(p)
  <2>1. fn \notin JobFns
    BY WaysApart DEF ChunkInv, PlaceSound
  <2>2. QED
    BY <2>1 DEF Needed
<1> HIDE DEF p
<1>4. opens[p] = 0
  BY <1>1, <1>2 DEF ChunkInv, OpensSound
<1>5. /\ opens'[p] = 1 /\ \A q \in Paths \ {p} : opens'[q] = opens[q]
      /\ opens' \in [Paths -> Nat]
  BY <1>1, <1>2, <1>4 DEF ChunkInv, TypeOK
<1>6. TypeOK'
  BY <1>1, <1>2, <1>5 DEF ChunkInv, TypeOK
<1>7. PlaceSound' /\ JobsSound'
  BY <1>1, <1>2 DEF ChunkInv, PlaceSound, JobsSound
<1>8. OpensSound'
  <2>1. \A q \in Paths : opens'[q] = 0 \/ (opens'[q] = 1 /\ Needed(q)')
    BY <1>2, <1>3, <1>5 DEF ChunkInv, OpensSound
  <2>2. pc' \in {"open", "row"} => \A q \in Paths : q \notin opened' => opens'[q] = 0
    BY <1>1, <1>5 DEF ChunkInv, OpensSound
  <2>3. pc' \notin {"parse", "opening"} /\ done' = {}
    BY <1>1 DEF ChunkInv, OpensSound
  <2>4. QED
    BY <2>1, <2>2, <2>3 DEF OpensSound
<1>9. QED
  BY <1>2, <1>6, <1>7, <1>8 DEF ChunkInv

\* A step that moves neither files nor answers.
LEMMA MoveSound ==
  ASSUME ChunkInv, UNCHANGED <<call, opened, opens, rows>>,
         \/ pc = "open" /\ i <= N /\ pc' = pc /\ i' = i + 1 /\ done' = done
         \/ pc = "open" /\ i > N /\ pc' = "row" /\ i' = 1 /\ done' = done
         \/ pc = "row" /\ pc' = "write" /\ i' = i /\ done' = done
         \/ pc = "parse" /\ i > N /\ pc' = "opening" /\ i' = i /\ done' = done
         \/ pc = "opening" /\ pc' = "running" /\ i' = i /\ done' = {}
         \/ pc' \in {"ok", "err"} /\ i' = i /\ done' = done
  PROVE  ChunkInv'
<1>1. /\ N' = N /\ fn' = fn /\ chunk' = chunk /\ CallSound' /\ N \in Nat
      /\ \A q : Needed(q)' <=> Needed(q)
  BY SameCall DEF ChunkInv, CallSound
<1>2. TypeOK'
  <2>1. i \in 1..(N + 1) /\ N \in Nat
    BY <1>1 DEF ChunkInv, TypeOK
  <2>2. i' \in 1..(N + 1)
    BY <2>1
  <2>3. pc' \in {"open", "row", "parse", "opening", "running", "write", "ok", "err"}
    OBVIOUS
  <2>4. done' \subseteq 1..N
    BY DEF ChunkInv, TypeOK
  <2>5. QED
    BY <1>1, <2>2, <2>3, <2>4 DEF ChunkInv, TypeOK
<1>3. PlaceSound'
  BY <1>1 DEF ChunkInv, PlaceSound, TypeOK
<1>4. JobsSound'
  BY <1>1 DEF ChunkInv, JobsSound
<1>5. OpensSound'
  <2>1. UniqPaths' = UniqPaths
    BY DEF UniqPaths, Jobs
  <2>2. \A q \in Paths : opens'[q] = 0 \/ (opens'[q] = 1 /\ Needed(q)')
    BY <1>1 DEF ChunkInv, OpensSound
  <2>3. QED
    BY <2>1, <2>2 DEF ChunkInv, OpensSound
<1>6. QED
  BY <1>1, <1>2, <1>3, <1>4, <1>5 DEF ChunkInv

\* An answer or a job is pushed.
LEMMA PushSound ==
  ASSUME ChunkInv, pc \in {"row", "parse"}, i <= N, NEW v, Push(v),
         pc = "parse" => \/ v = Null /\ Judge(fn, chunk[i]) = "null"
                         \/ v = chunk[i] /\ Judge(fn, chunk[i]) = "run"
  PROVE  ChunkInv'
<1>1. /\ rows' = Append(rows, v) /\ i' = i + 1
      /\ UNCHANGED <<call, pc, opened, opens, done, out>>
  BY DEF Push
<1>2. /\ N' = N /\ fn' = fn /\ chunk' = chunk /\ CallSound' /\ N \in Nat
      /\ \A q : Needed(q)' <=> Needed(q)
  BY <1>1, SameCall DEF ChunkInv, CallSound
<1>3. /\ IsSeq(rows') /\ Len(rows) \in Nat /\ Len(rows') = Len(rows) + 1
      /\ \A k \in 1..Len(rows) : rows'[k] = rows[k]
      /\ rows'[Len(rows) + 1] = v
  BY <1>1, AppendProps DEF ChunkInv, PlaceSound
<1>4. Len(rows) = i - 1 /\ i \in 1..N
  BY <1>2 DEF ChunkInv, PlaceSound, TypeOK
<1>5. TypeOK'
  BY <1>1, <1>2, <1>3, <1>4 DEF ChunkInv, TypeOK
<1>6. PlaceSound'
  BY <1>1, <1>2, <1>3, <1>4 DEF ChunkInv, PlaceSound
<1>7. JobsSound'
  <2> SUFFICES ASSUME pc = "parse", NEW k \in 1..Len(rows')
               PROVE  /\ Judge(fn, chunk[k]) # "bad"
                      /\ rows'[k] # Null => rows'[k] = chunk[k] /\ Judge(fn, chunk[k]) = "run"
    BY <1>1, <1>2 DEF JobsSound
  <2>1. CASE k \in 1..Len(rows)
    BY <1>3, <2>1 DEF ChunkInv, JobsSound
  <2>2. CASE k = Len(rows) + 1
    <3>1. k = i /\ rows'[k] = v
      BY <1>3, <1>4, <2>2
    <3>2. QED
      BY <3>1
  <2>3. QED
    BY <1>3, <2>1, <2>2
<1>8. OpensSound'
  BY <1>1, <1>2 DEF ChunkInv, OpensSound
<1>9. QED
  BY <1>2, <1>5, <1>6, <1>7, <1>8 DEF ChunkInv

\* One of the opens of open_paths completes: its path was not asked for by
\* another item.
LEMMA OpenCompletesSound ==
  ASSUME ChunkInv, NEW k \in 1..N, OpenCompletes(k)
  PROVE  ChunkInv'
<1> DEFINE p == rows[k].path
<1>1. /\ pc = "opening" /\ k \in UniqPaths /\ k \notin done /\ done' = done \cup {k}
      /\ opens' = [opens EXCEPT ![p] = opens[p] + 1]
      /\ opened' = (IF p \in call.bad THEN opened ELSE opened \cup {p})
      /\ UNCHANGED <<call, pc, i, rows, out>>
  BY DEF OpenCompletes, Flying, AfterOpen
<1>2. /\ N' = N /\ fn' = fn /\ chunk' = chunk /\ CallSound' /\ N \in Nat
      /\ \A q : Needed(q)' <=> Needed(q)
  BY <1>1, SameCall DEF ChunkInv, CallSound
<1>3. Len(rows) = N /\ fn \in JobFns
  BY <1>1 DEF ChunkInv, PlaceSound
<1>4. rows[k] = chunk[k] /\ Judge(fn, chunk[k]) = "run"
  BY <1>1, <1>3 DEF ChunkInv, JobsSound, UniqPaths, Jobs
<1>5. p \in Paths
  BY <1>4, RunsHavePath, RowPath DEF ChunkInv
<1>6. Needed(p)
  BY <1>1, <1>3, <1>4 DEF Needed, ChunkInv, JobsSound
<1>7. DOMAIN rows = 1..N
  BY <1>3 DEF ChunkInv, PlaceSound, IsSeq
<1>8. opens[p] = 0
  <2> SUFFICES ASSUME opens[p] # 0 PROVE FALSE
    OBVIOUS
  <2>1. PICK j \in done : rows[j].path = p
    BY <1>1, <1>5 DEF ChunkInv, OpensSound
  <2>2. j \in UniqPaths /\ j # k
    BY <1>1, <2>1 DEF ChunkInv, OpensSound
  <2>3. j \in 1..N /\ j \in Jobs /\ k \in Jobs
    BY <1>1, <1>7, <2>2 DEF UniqPaths, Jobs
  <2>4. j < k \/ k < j
    BY <1>2, <2>2, <2>3
  <2>5. QED
    BY <1>1, <2>1, <2>2, <2>3, <2>4 DEF UniqPaths
<1>9. UniqPaths' = UniqPaths
  BY <1>1 DEF UniqPaths, Jobs
<1>10. rows'[k].path = p /\ \A j \in done : rows'[j] = rows[j]
  BY <1>1
<1> HIDE DEF p
<1>11. /\ opens'[p] = 1 /\ \A q \in Paths \ {p} : opens'[q] = opens[q]
       /\ opens' \in [Paths -> Nat]
  BY <1>1, <1>5, <1>8 DEF ChunkInv, TypeOK
<1>12. TypeOK'
  <2>1. opened' \subseteq Paths \ call.bad /\ done' \subseteq 1..N
    BY <1>1, <1>5 DEF ChunkInv, TypeOK
  <2>2. QED
    BY <1>1, <1>2, <1>11, <2>1 DEF ChunkInv, TypeOK
<1>13. PlaceSound' /\ JobsSound'
  BY <1>1, <1>2 DEF ChunkInv, PlaceSound, JobsSound
<1>14. OpensSound'
  <2>1. \A q \in Paths : opens'[q] = 0 \/ (opens'[q] = 1 /\ Needed(q)')
    BY <1>2, <1>6, <1>11 DEF ChunkInv, OpensSound
  <2>2. done' \subseteq UniqPaths'
    BY <1>1, <1>9 DEF ChunkInv, OpensSound
  <2>3. \A q \in Paths : opens'[q] = 1 => \E j \in done' : rows'[j].path = q
    BY <1>1, <1>10, <1>11 DEF ChunkInv, OpensSound
  <2>4. QED
    BY <1>1, <2>1, <2>2, <2>3 DEF OpensSound
<1>15. QED
  BY <1>2, <1>12, <1>13, <1>14 DEF ChunkInv

\* Answers are replaced or collected once no file is opened any more.
LEMMA AnswersSound ==
  ASSUME ChunkInv, UNCHANGED <<call, i, opened, opens>>, pc = "running",
         pc' \in {"running", "write"}, IsSeq(rows'), Len(rows') = N,
         done' \subseteq 1..N
  PROVE  ChunkInv'
<1>1. /\ N' = N /\ fn' = fn /\ chunk' = chunk /\ CallSound' /\ N \in Nat
      /\ \A q : Needed(q)' <=> Needed(q)
  BY SameCall DEF ChunkInv, CallSound
<1>2. TypeOK'
  BY <1>1 DEF ChunkInv, TypeOK
<1>3. PlaceSound' /\ JobsSound'
  BY <1>1 DEF ChunkInv, PlaceSound, JobsSound
<1>4. OpensSound'
  BY <1>1 DEF ChunkInv, OpensSound
<1>5. QED
  BY <1>1, <1>2, <1>3, <1>4 DEF ChunkInv

\* A call starts with nothing opened.
LEMMA InitChunk == Init => ChunkInv
<1> SUFFICES ASSUME Init PROVE ChunkInv
  OBVIOUS
<1>1. PICK f \in DOMAIN Chunks : \E c \in Chunks[f] : \E x \in Fails(f, c) :
        call = [fn |-> f, chunk |-> c, bad |-> x.bad, lost |-> x.lost]
  BY DEF Init
<1>2. PICK c \in Chunks[f] : fn = f /\ chunk = c
  BY <1>1 DEF fn, chunk
<1>3. CallSound
  BY <1>2, RsChunkAssumption DEF CallSound, N
<1>4. /\ pc \in {"row", "open", "parse"}
      /\ pc = "row" => fn \in RowFns
      /\ pc = "open" => fn \in MetaFns
      /\ pc = "parse" => fn \in JobFns
  BY <1>3 DEF Init, CallSound, fn
<1>5. /\ Len(rows) = 0 /\ IsSeq(rows)
      /\ i = 1 /\ opened = {} /\ done = {} /\ opens = [p \in Paths |-> 0]
  BY DEF Init, IsSeq
<1>6. TypeOK
  BY <1>3, <1>4, <1>5 DEF TypeOK, CallSound
<1>7. PlaceSound /\ JobsSound
  BY <1>4, <1>5 DEF PlaceSound, JobsSound
<1>8. OpensSound
  BY <1>4, <1>5 DEF OpensSound
<1>9. QED
  BY <1>3, <1>6, <1>7, <1>8 DEF ChunkInv

\* Every step keeps the invariant.
LEMMA NextChunk == ChunkInv /\ [Next]_vars => ChunkInv'
<1> SUFFICES ASSUME ChunkInv, [Next]_vars PROVE ChunkInv'
  OBVIOUS
<1>0. i \in 1..(N + 1) /\ N \in Nat
  BY DEF ChunkInv, TypeOK, CallSound
<1>1. CASE MetaOpen
  <2>1. i \in 1..N /\ fn \in MetaFns
    BY <1>0, <1>1 DEF MetaOpen, ChunkInv, PlaceSound
  <2>2. QED
    BY <1>1, <2>1, OpenFileSound DEF MetaOpen
<1>2. CASE MetaNext
  BY <1>2, MoveSound DEF MetaNext
<1>3. CASE MetaDone
  BY <1>3, MoveSound DEF MetaDone
<1>4. CASE RowNull
  BY <1>4, PushSound DEF RowNull
<1>5. CASE RowBad
  BY <1>5, MoveSound DEF RowBad, Fail
<1>6. CASE RowOpen
  <2>1. i \in 1..N /\ chunk[i].path # Null
    BY <1>0, <1>6, RunsHavePath DEF RowOpen
  <2>2. QED
    BY <1>6, <2>1, OpenFileSound DEF RowOpen
<1>7. CASE RowRead
  <2>1. CASE Fail(3, i) /\ UNCHANGED <<opened, opens, done>>
    BY <1>7, <2>1, MoveSound DEF RowRead, Fail
  <2>2. CASE Push(RowValue(chunk[i]))
    BY <1>7, <2>2, PushSound DEF RowRead
  <2>3. QED
    BY <1>7, <2>1, <2>2 DEF RowRead
<1>8. CASE RowsDone
  BY <1>8, MoveSound DEF RowsDone
<1>9. CASE ParseJob
  BY <1>9, PushSound DEF ParseJob
<1>10. CASE ParseDone
  BY <1>10, MoveSound DEF ParseDone
<1>11. ASSUME NEW k \in 1..N, OpenCompletes(k) PROVE ChunkInv'
  BY <1>11, OpenCompletesSound
<1>12. CASE OpensCollected
  BY <1>12, MoveSound DEF OpensCollected, Fail
<1>13. ASSUME NEW k \in 1..N, RowCompletes(k) PROVE ChunkInv'
  <2>1. /\ pc = "running" /\ pc' = pc /\ done' = done \cup {k}
        /\ UNCHANGED <<call, i, opened, opens>>
    BY <1>13 DEF RowCompletes
  <2>2. PICK v : rows' = [rows EXCEPT ![k] = v]
    BY <1>13 DEF RowCompletes
  <2>3. Len(rows) = N /\ IsSeq(rows)
    BY <2>1 DEF ChunkInv, PlaceSound
  <2>4. IsSeq(rows') /\ Len(rows') = N
    BY <2>2, <2>3, ReplaceProps
  <2>5. done' \subseteq 1..N
    BY <2>1 DEF ChunkInv, TypeOK
  <2>6. QED
    BY <2>1, <2>4, <2>5, AnswersSound
<1>14. CASE RowsCollected
  <2>1. CASE UNCHANGED <<call, i, opened, opens, rows, done>> /\ pc' = "err"
    BY <2>1, MoveSound
  <2>2. CASE /\ pc' = "write" /\ UNCHANGED <<call, i, opened, opens, done>>
             /\ rows' = [k \in 1..N |-> rows[k].ok]
    <3>1. DOMAIN rows' = 1..N /\ rows' = [k \in 1..N |-> rows'[k]]
      BY <2>2
    <3>2. IsSeq(rows') /\ Len(rows') = N
      BY <1>0, <3>1, TableProps
    <3>3. pc = "running" /\ done' \subseteq 1..N
      BY <1>14, <2>2 DEF RowsCollected, ChunkInv, TypeOK
    <3>4. QED
      BY <2>2, <3>2, <3>3, AnswersSound
  <2>3. QED
    BY <1>14, <2>1, <2>2 DEF RowsCollected, Fail
<1>15. CASE Write
  BY <1>15, MoveSound DEF Write
<1>16. CASE UNCHANGED vars
  BY <1>16, SameCall DEF vars, ChunkInv, TypeOK, PlaceSound, JobsSound, OpensSound,
                         UniqPaths, Jobs
<1>17. QED
  BY <1>1, <1>2, <1>3, <1>4, <1>5, <1>6, <1>7, <1>8, <1>9, <1>10, <1>11, <1>12,
     <1>13, <1>14, <1>15, <1>16 DEF Next, Step, Returned

\* Types, and where each way of running a function stands.
THEOREM ChunkCorrect == Spec => [](TypeOK /\ ChunkInv)
<1>1. ChunkInv => TypeOK
  BY DEF ChunkInv
<1>2. QED
  BY <1>1, InitChunk, NextChunk, PTL DEF Spec

\* A chunk asks for each file at most once, and only for one that a row of
\* it needs; RS_ZonalStats asks for none when a row has bad arguments.
THEOREM OpensSafe == Spec => []OpensOnce
<1>1. ChunkInv => OpensOnce
  BY DEF ChunkInv, OpensSound, OpensOnce, Needed
<1>2. QED
  BY <1>1, ChunkCorrect, PTL

-----------------------------------------------------------------------------
(***************************************************************************)
(* The chunk as one step of ScalarCall.                                      *)
(***************************************************************************)

\* The answer promised to row k, and the outcome promised to the call.
Answer(k) == Abstract!Answer(call, k)
Promised == Abstract!Result(call)

\* A fault of stage s at row k.
Faulty(s, k) ==
  CASE s = 1 -> Judge(fn, chunk[k]) = "bad"
    [] s = 2 -> /\ IF fn \in MetaFns THEN chunk[k].path # Null
                   ELSE Judge(fn, chunk[k]) = "run"
                /\ chunk[k].path \in call.bad
    [] OTHER -> Judge(fn, chunk[k]) = "run" /\ ReadFails(k)

\* The rows before row n have no fault of stage s.
Clear(s, n) == \A k \in 1..N : k < n => ~Faulty(s, k)

\* What phase 1 makes of a row of RS_ZonalStats: its job.
Job(k) == IF Judge(fn, chunk[k]) = "run" THEN chunk[k] ELSE Null

\* What the future of a row completes with.
Outcome(k) ==
  IF Judge(fn, chunk[k]) # "run" THEN [ok |-> Null]
  ELSE IF ReadFails(k) THEN [err |-> k] ELSE [ok |-> Answer(k)]

\* Nothing that precedes the work at hand is at fault.
Progress ==
  /\ pc = "open" => Clear(2, i)
  /\ pc = "row" => /\ Clear(3, i)
                   /\ fn \in RowFns => Clear(1, i) /\ Clear(2, i)
                   /\ fn \in MetaFns => Clear(2, N + 1)
  /\ pc = "parse" => Clear(1, i)
  /\ pc \in {"opening", "running", "write"} => Clear(1, N + 1)
  /\ pc \in {"running", "write"} => Clear(2, N + 1)
  /\ pc = "write" => Clear(3, N + 1)

\* The rows hold answers that are promised, jobs, or what futures completed with.
Answers ==
  /\ pc \in {"row", "write"} => \A k \in 1..Len(rows) : rows[k] = Answer(k)
  /\ pc \in {"parse", "opening"} => \A k \in 1..Len(rows) : rows[k] = Job(k)
  /\ pc = "running" => \A k \in 1..N : rows[k] = IF k \in done THEN Outcome(k) ELSE Job(k)
  /\ pc = "write" => Len(rows) = N

PromiseInv == Progress /\ Answers

\* A step of ScalarCall, or none.
Simulated == [Abstract!Return]_<<call, Visible>>

\* The functions run in one way each.
LEMMA OneWay ==
  ASSUME NEW f
  PROVE  /\ f \in RowFns => f \notin MetaFns /\ f \notin JobFns
         /\ f \in MetaFns => f \notin JobFns
BY DEF RowFns, MetaFns, CoordFns, JobFns

\* ScalarCall and RsChunk mean the same rows.
LEMMA SameRows ==
  /\ Abstract!RowFns = RowFns /\ Abstract!MetaFns = MetaFns /\ Abstract!ElementFns = ElementFns
  /\ \A f, row : /\ Abstract!Judge(f, row) = Judge(f, row)
                 /\ Abstract!CallsEngine(f, row) = CallsEngine(f, row)
                 /\ Abstract!Value(f, row) = Value(f, row)
  /\ \A f, arg : Abstract!Elements(f, arg) = Elements(f, arg)
  /\ \A f, row, e : Abstract!ElementValue(f, row, e) = ElementValue(f, row, e)
<1>1. Abstract!RowFns = RowFns /\ Abstract!MetaFns = MetaFns /\ Abstract!ElementFns = ElementFns
  BY DEF Abstract!RowFns, RowFns, Abstract!MetaFns, MetaFns, Abstract!CoordFns, CoordFns,
         Abstract!ElementFns, ElementFns
<1>2. \A f, row : Abstract!Judge(f, row) = Judge(f, row)
  BY Zenon DEF Abstract!Judge, Judge, Abstract!Malformed, Malformed
<1>3. \A f, row : Abstract!CallsEngine(f, row) = CallsEngine(f, row)
  BY Zenon DEF Abstract!CallsEngine, CallsEngine
<1>4. \A f, row : Abstract!Value(f, row) = Value(f, row)
  BY Zenon DEF Abstract!Value, Value, Abstract!RsMeta, RsMeta, Abstract!RsMetaData, RsMetaData,
     Abstract!RsBandNoDataValue, RsBandNoDataValue, Abstract!RsBandStats, RsBandStats,
     Abstract!RsWorldToRasterCoord, RsWorldToRasterCoord, Abstract!RsRasterToWorldCoord,
     RsRasterToWorldCoord, Abstract!RsValue, RsValue, Abstract!RsNormalizedDifference,
     RsNormalizedDifference, Abstract!RsBandAsArray, RsBandAsArray, Abstract!RsBandAsArrayWkt,
     RsBandAsArrayWkt, Abstract!RsZonalStats, RsZonalStats, Abstract!BandField, BandField,
     Abstract!Engine, Engine, Abstract!PointValue, PointValue, Abstract!Window, Window,
     Abstract!Band, Band, Abstract!NormalizedDifference, NormalizedDifference
<1>5. \A f, arg : Abstract!Elements(f, arg) = Elements(f, arg)
  BY Zenon DEF Abstract!Elements, Elements
<1>6. \A f, row, e : Abstract!ElementValue(f, row, e) = ElementValue(f, row, e)
  BY Zenon DEF Abstract!ElementValue, ElementValue, Abstract!PointValue, PointValue,
     Abstract!Engine, Engine, Abstract!Band, Band
<1>7. QED
  BY <1>1, <1>2, <1>3, <1>4, <1>5, <1>6, Zenon

\* What is promised does not change.
LEMMA SamePromise ==
  ASSUME call' = call
  PROVE  /\ Promised' = Promised
         /\ \A k : Answer(k)' = Answer(k) /\ Job(k)' = Job(k) /\ Outcome(k)' = Outcome(k)
         /\ \A s, k : Faulty(s, k)' <=> Faulty(s, k)
BY DEF Promised, Answer, Job, Outcome, Faulty, ReadFails, fn, chunk, Abstract!Answer,
       Abstract!Result, Abstract!Faults, Abstract!Precedes

\* Metadata functions have no malformed rows.
LEMMA MetaSound ==
  ASSUME CallSound, fn \in MetaFns
  PROVE  \A n : Clear(1, n)
BY DEF CallSound, Admitted, Clear, Faulty

\* The faults, stage by stage and row by row.
LEMMA FaultsAre ==
  ASSUME CallSound
  PROVE  /\ \A f \in Abstract!Faults(call) :
               /\ f.stage \in 1..3 /\ f.row \in 1..N /\ Faulty(f.stage, f.row)
               /\ f = [stage |-> f.stage, row |-> f.row]
         /\ \A s \in 1..3, k \in 1..N :
               Faulty(s, k) => [stage |-> s, row |-> k] \in Abstract!Faults(call)
<1>1. DOMAIN call.chunk = 1..N
  BY DEF CallSound, chunk
<1>2. \A s \in 1..3, k \in 1..N :
        [stage |-> s, row |-> k] \in Abstract!Faults(call) <=> Faulty(s, k)
  <2> SUFFICES ASSUME NEW s \in 1..3, NEW k \in 1..N
               PROVE  [stage |-> s, row |-> k] \in Abstract!Faults(call) <=> Faulty(s, k)
    OBVIOUS
  <2> DEFINE f == [stage |-> s, row |-> k]
             R == [stage : 1..3, row : DOMAIN call.chunk]
  <2>1. f \in R /\ f.stage = s /\ f.row = k
    BY <1>1
  <2> HIDE DEF f, R
  <2>2. f \in Abstract!Faults(call) <=>
          CASE s = 1 -> Judge(call.fn, call.chunk[k]) = "bad"
            [] s = 2 -> /\ IF call.fn \in MetaFns THEN call.chunk[k].path # Null
                           ELSE Judge(call.fn, call.chunk[k]) = "run"
                        /\ call.chunk[k].path \in call.bad
            [] s = 3 -> /\ Judge(call.fn, call.chunk[k]) = "run" /\ k \in call.lost
                        /\ CallsEngine(call.fn, call.chunk[k])
    BY <2>1, SameRows DEF Abstract!Faults, R
  <2>3. f \in Abstract!Faults(call) <=> Faulty(s, k)
    <3> HIDE DEF f, R
    <3>1. CASE s = 1
      BY <2>2, <3>1 DEF Faulty, fn, chunk
    <3>2. CASE s = 2
      BY <2>2, <3>2 DEF Faulty, fn, chunk
    <3>3. CASE s = 3
      BY <2>2, <3>3 DEF Faulty, ReadFails, fn, chunk
    <3>4. QED
      BY <3>1, <3>2, <3>3
  <2>4. QED
    BY <2>3 DEF f
<1>3. Abstract!Faults(call) \subseteq [stage : 1..3, row : 1..N]
  BY <1>1 DEF Abstract!Faults
<1>4. QED
  BY <1>2, <1>3

\* The fault that precedes every other one is the error that is promised.
LEMMA FirstFault ==
  ASSUME CallSound, NEW s \in 1..3, NEW k \in 1..N, Faulty(s, k),
         \A t \in 1..3, j \in 1..N :
           Faulty(t, j) => IF fn \in RowFns THEN k < j \/ (k = j /\ s <= t)
                           ELSE s < t \/ (s = t /\ k <= j)
  PROVE  Promised = [err |-> [stage |-> s, row |-> k]]
<1> DEFINE F == Abstract!Faults(call)
           e == [stage |-> s, row |-> k]
           first(f) == \A g \in F : Abstract!Precedes(call, f, g)
<1>1. /\ \A f \in F : /\ f.stage \in 1..3 /\ f.row \in 1..N /\ Faulty(f.stage, f.row)
                      /\ f = [stage |-> f.stage, row |-> f.row]
      /\ e \in F /\ e.stage = s /\ e.row = k
  BY FaultsAre
<1>2. N \in Nat
  BY DEF CallSound
<1>3. \A f, g : Abstract!Precedes(call, f, g) <=>
        IF fn \in RowFns THEN f.row < g.row \/ (f.row = g.row /\ f.stage <= g.stage)
        ELSE f.stage < g.stage \/ (f.stage = g.stage /\ f.row <= g.row)
  BY SameRows DEF Abstract!Precedes, fn
<1> HIDE DEF e, F
<1>4. first(e)
  BY <1>1, <1>3
<1>5. ASSUME NEW f \in F, first(f) PROVE f = e
  <2>1. Abstract!Precedes(call, f, e) /\ Abstract!Precedes(call, e, f)
    BY <1>1, <1>4, <1>5
  <2>2. f.stage = s /\ f.row = k
    BY <1>1, <1>2, <1>3, <2>1
  <2>3. QED
    BY <1>1, <2>2 DEF e
<1> HIDE DEF first
<1>6. (CHOOSE f \in F : first(f)) = e
  BY <1>1, <1>4, <1>5
<1>7. Promised = [err |-> CHOOSE f \in F : first(f)]
  BY <1>1 DEF Promised, Abstract!Result, F, first
<1>8. QED
  BY <1>6, <1>7 DEF e

\* Without faults the answers are promised.
LEMMA NoFault ==
  ASSUME CallSound, Clear(1, N + 1), Clear(2, N + 1), Clear(3, N + 1)
  PROVE  Promised = [rows |-> [k \in 1..N |-> Answer(k)]]
<1>1. \A s \in 1..3, k \in 1..N : ~Faulty(s, k)
  <2> SUFFICES ASSUME NEW s \in 1..3, NEW k \in 1..N PROVE ~Faulty(s, k)
    OBVIOUS
  <2>1. k < N + 1
    BY DEF CallSound
  <2>2. s = 1 \/ s = 2 \/ s = 3
    OBVIOUS
  <2>3. QED
    BY <2>1, <2>2 DEF Clear
<1>2. Abstract!Faults(call) = {}
  BY <1>1, FaultsAre
<1>3. DOMAIN call.chunk = 1..N
  BY DEF CallSound, chunk
<1>4. QED
  BY <1>2, <1>3 DEF Promised, Abstract!Result, Answer

-----------------------------------------------------------------------------
\* A set of numbers has a least one.
LEMMA LeastExists ==
  ASSUME NEW T, T \subseteq Nat, T # {}
  PROVE  \E m \in T : \A n \in T : m <= n
<1>1. PICK m \in T : \A n \in T : ~(<<n, m>> \in OpToRel(<, Nat))
  BY NatLessThanWellFounded, WFMin, Zenon
<1>2. \A n \in T : ~(n < m)
  BY <1>1 DEF OpToRel
<1>3. QED
  BY <1>2

\* That one is Min.
LEMMA MinProps ==
  ASSUME NEW T, T \subseteq Nat, T # {}
  PROVE  Min(T) \in T /\ \A n \in T : Min(T) <= n
<1>1. \E m \in T : \A n \in T : m <= n
  BY LeastExists
<1>2. QED
  BY <1>1, Zenon DEF Min

\* A stream with nothing in flight is complete.
LEMMA StreamDone ==
  ASSUME NEW items, items \subseteq Nat, Flying(items) = {}
  PROVE  items \subseteq done
<1> SUFFICES ASSUME items \ done # {} PROVE FALSE
  OBVIOUS
<1> DEFINE h == StreamHead(items)
<1>1. h \in items \ done /\ h \in Nat
  BY MinProps DEF StreamHead
<1> DEFINE ahead == {j \in items : h <= j /\ j < h}
<1>2. Cardinality(ahead) < Cap
  <2> HIDE DEF h
  <2>1. ahead = {}
    <3>1. \A j \in items : ~(h <= j /\ j < h)
      BY <1>1
    <3>2. QED
      BY <3>1, Zenon
  <2> HIDE DEF ahead
  <2>2. Cardinality(ahead) = 0
    BY <2>1, FS_EmptySet
  <2>3. QED
    BY <2>2, RsChunkAssumption
<1>4. h \in Flying(items)
  BY <1>1, <1>2, Zenon DEF Flying
<1>5. QED
  BY <1>4

\* The elements of a list that are not NULL have places of their own in the batch.
LEMMA SlotProps ==
  ASSUME NEW els, NEW n \in Nat
  PROVE  /\ \A k \in 1..n : els[k] # Null => Slot(els, k) \in 1..Slot(els, n)
         /\ \A j, k \in 1..n : els[j] # Null /\ els[k] # Null /\ Slot(els, j) = Slot(els, k)
                                 => j = k
<1> DEFINE P(k) == {j \in 1..k : els[j] # Null}
<1>1. \A k \in 0..n : IsFiniteSet(P(k)) /\ Slot(els, k) \in Nat /\ Slot(els, k) = Cardinality(P(k))
  <2> SUFFICES ASSUME NEW k \in 0..n
               PROVE  IsFiniteSet(P(k)) /\ Cardinality(P(k)) \in Nat
    BY DEF Slot
  <2>1. IsFiniteSet(1..k) /\ P(k) \subseteq 1..k
    BY FS_Interval
  <2>2. QED
    BY <2>1, FS_Subset, FS_CardinalityType
<1>2. ASSUME NEW j \in 0..n, NEW k \in 0..n, j <= k
      PROVE  Slot(els, j) <= Slot(els, k)
  <2>1. P(j) \subseteq P(k)
    BY <1>2
  <2>2. QED
    <3> HIDE DEF P
    <3>1. QED
      BY <1>1, <2>1, FS_Subset
<1>3. ASSUME NEW j \in 0..n, NEW k \in 1..n, j < k, els[k] # Null
      PROVE  Slot(els, j) + 1 <= Slot(els, k)
  <2>1. k \notin P(j) /\ P(j) \cup {k} \subseteq P(k)
    <3>1. k \notin 1..j /\ 1..j \subseteq 1..k /\ k \in 1..k
      BY <1>3
    <3>2. QED
      BY <1>3, <3>1, Zenon
  <2>2. IsFiniteSet(P(j)) /\ IsFiniteSet(P(k)) /\ Slot(els, j) \in Nat
    <3>1. k \in 0..n
      OBVIOUS
    <3>2. QED
      BY <1>1, <3>1, Zenon
  <2> HIDE DEF P
  <2>3. Cardinality(P(j) \cup {k}) = Cardinality(P(j)) + 1
    BY <2>1, <2>2, FS_AddElement
  <2>4. Cardinality(P(j) \cup {k}) <= Cardinality(P(k))
    BY <2>1, <2>2, FS_Subset
  <2>5. Slot(els, j) = Cardinality(P(j)) /\ Slot(els, k) = Cardinality(P(k))
    BY <1>1
  <2>6. QED
    BY <2>3, <2>4, <2>5
<1> HIDE DEF P
<1>4. ASSUME NEW k \in 1..n, els[k] # Null PROVE Slot(els, k) \in 1..Slot(els, n)
  <2>1. k - 1 \in 0..n /\ k \in 0..n /\ n \in 0..n
    OBVIOUS
  <2>2. Slot(els, k - 1) + 1 <= Slot(els, k) /\ Slot(els, k) <= Slot(els, n)
    BY <1>2, <1>3, <1>4, <2>1
  <2>3. QED
    BY <1>1, <2>1, <2>2
<1>5. ASSUME NEW j \in 1..n, NEW k \in 1..n, els[j] # Null, els[k] # Null,
             Slot(els, j) = Slot(els, k)
      PROVE  j = k
  <2>1. j \in 0..n /\ k \in 0..n
    OBVIOUS
  <2>2. ~(j < k) /\ ~(k < j)
    BY <1>1, <1>3, <1>5, <2>1
  <2>3. QED
    BY <2>2
<1>6. QED
  BY <1>4, <1>5

\* A row that runs yields the answer that is promised: the values of a batch
\* come back to the places of their elements.
LEMMA RowValueIsAnswer ==
  ASSUME CallSound, NEW k \in 1..N, Judge(fn, chunk[k]) = "run"
  PROVE  RowValue(chunk[k]) = Answer(k)
<1> DEFINE row == chunk[k]
           els == Elements(fn, row.arg)
           given(e) == els[e] # Null
           at(s) == CHOOSE e \in DOMAIN els : given(e) /\ Slot(els, e) = s
           batch == [s \in 1..Slot(els, Len(els)) |-> els[at(s)]]
           values == [s \in DOMAIN batch |-> ElementValue(fn, row, batch[s])]
           list == [e \in DOMAIN els |-> IF els[e] = Null THEN Null
                                         ELSE ElementValue(fn, row, els[e])]
<1>1. Answer(k) = IF fn \in ElementFns THEN list ELSE Value(fn, row)
  <2>1. ~(Judge(fn, row) # "run")
    OBVIOUS
  <2>2. CASE fn \in ElementFns
    BY <2>1, <2>2, SameRows DEF Answer, Abstract!Answer, fn, chunk
  <2>3. CASE fn \notin ElementFns
    BY <2>1, <2>3, SameRows DEF Answer, Abstract!Answer, fn, chunk
  <2>4. QED
    BY <2>2, <2>3
<1>2. RowValue(row) =
        IF fn \in ElementFns
        THEN [e \in DOMAIN els |-> IF els[e] = Null THEN Null ELSE values[Slot(els, e)]]
        ELSE Value(fn, row)
  BY Zenon DEF RowValue
<1>3. CASE fn \in ElementFns
  <2>1. Len(els) \in Nat /\ DOMAIN els = 1..Len(els)
    BY <1>3 DEF CallSound, Admitted
  <2> DEFINE n == Len(els)
  <2> HIDE DEF row, els
  <2>2. ASSUME NEW e \in DOMAIN els, els[e] # Null
        PROVE  values[Slot(els, e)] = ElementValue(fn, row, els[e])
    <3>1. Slot(els, e) \in 1..Slot(els, n)
      BY <2>1, <2>2, SlotProps
    <3>2. \A j \in DOMAIN els : given(j) /\ Slot(els, j) = Slot(els, e) => j = e
      BY <2>1, <2>2, SlotProps
    <3>3. at(Slot(els, e)) = e
      <4> DEFINE P(j) == given(j) /\ Slot(els, j) = Slot(els, e)
      <4>1. P(e) /\ \A j \in DOMAIN els : P(j) => j = e
        BY <2>2, <3>2
      <4> HIDE DEF P
      <4>2. (CHOOSE j \in DOMAIN els : P(j)) = e
        BY <2>2, <4>1
      <4>3. QED
        BY <4>2 DEF P
    <3>4. batch[Slot(els, e)] = els[at(Slot(els, e))] /\ DOMAIN batch = 1..Slot(els, n)
      BY <3>1
    <3> HIDE DEF batch, at
    <3>5. values[Slot(els, e)] = ElementValue(fn, row, batch[Slot(els, e)])
      BY <3>1, <3>4
    <3>6. QED
      BY <3>3, <3>4, <3>5
  <2> HIDE DEF values
  <2>3. [e \in DOMAIN els |-> IF els[e] = Null THEN Null ELSE values[Slot(els, e)]] = list
    BY <2>2
  <2>4. QED
    BY <1>1, <1>2, <1>3, <2>3 DEF row
<1>4. CASE fn \notin ElementFns
  BY <1>1, <1>2, <1>4
<1>5. QED
  BY <1>3, <1>4

\* A row that does not run is answered by NULL.
LEMMA NullAnswer ==
  ASSUME NEW k, Judge(fn, chunk[k]) # "run"
  PROVE  Answer(k) = Null
<1>1. Abstract!Judge(call.fn, call.chunk[k]) # "run"
  <2>1. Abstract!Judge(call.fn, call.chunk[k]) = Judge(fn, chunk[k])
    BY SameRows, Zenon DEF fn, chunk
  <2>2. QED
    BY <2>1
<1>2. QED
  BY <1>1 DEF Answer, Abstract!Answer

-----------------------------------------------------------------------------
\* Vectors of answers.

\* The function Offset is, over rows up to n.
Offsets(f, n) == f = [k \in 1..n |-> IF k = 1 THEN 0 ELSE f[k - 1] + Length(k - 1)]

\* A running total is defined.
LEMMA OffsetsExist ==
  ASSUME NEW n \in Nat
  PROVE  \E f : Offsets(f, n)
<1> DEFINE Total(f, k) == IF k = 1 THEN 0 ELSE f[k - 1] + Length(k - 1)
           Defined(m) == \E f : f = [k \in 1..m |-> Total(f, k)]
           bad == {m \in Nat : ~Defined(m)}
<1>1. Defined(0)
  <2> DEFINE f == [k \in 1..0 |-> 0]
  <2> HIDE DEF Total
  <2>1. f = [k \in 1..0 |-> Total(f, k)]
    OBVIOUS
  <2> HIDE DEF f
  <2>2. QED
    BY <2>1
<1>2. ASSUME NEW m \in Nat, m # 0, Defined(m - 1) PROVE Defined(m)
  <2> HIDE DEF Total
  <2>1. PICK f : f = [k \in 1..(m - 1) |-> Total(f, k)]
    BY <1>2
  <2> DEFINE g == [k \in 1..m |-> Total(f, k)]
  <2>2. \A k \in 1..(m - 1) : k \in 1..m /\ g[k] = f[k]
    <3>1. \A k \in 1..(m - 1) : f[k] = Total(f, k)
      BY <2>1
    <3>2. \A k \in 1..(m - 1) : k \in 1..m
      OBVIOUS
    <3>3. QED
      BY <3>1, <3>2
  <2>3. ASSUME NEW k \in 1..m PROVE Total(f, k) = Total(g, k)
    <3>1. CASE k = 1
      BY <3>1 DEF Total
    <3>2. CASE k # 1
      <4>1. k - 1 \in 1..(m - 1)
        BY <3>2
      <4>2. g[k - 1] = f[k - 1]
        BY <2>2, <4>1
      <4> HIDE DEF g
      <4>3. QED
        BY <3>2, <4>2 DEF Total
    <3>3. QED
      BY <3>1, <3>2
  <2>4. g = [k \in 1..m |-> Total(g, k)]
    <3>1. g = [k \in 1..m |-> Total(f, k)]
      OBVIOUS
    <3> HIDE DEF g
    <3>2. QED
      BY <2>3, <3>1
  <2> HIDE DEF g
  <2>5. QED
    BY <2>4
<1> HIDE DEF Defined
<1>3. bad = {}
  <2> SUFFICES ASSUME bad # {} PROVE FALSE
    OBVIOUS
  <2>1. PICK m \in bad : \A k \in bad : m <= k
    BY LeastExists
  <2>2. m \in Nat /\ ~Defined(m) /\ m # 0
    BY <1>1, <2>1
  <2>3. m - 1 \in Nat /\ ~(m - 1 \in bad)
    BY <2>1, <2>2
  <2>4. QED
    BY <1>2, <2>2, <2>3
<1>4. Defined(n)
  BY <1>3
<1>5. QED
  BY <1>4, Zenon DEF Defined, Offsets, Total

\* Offsets start at 0 and grow by the lengths of the rows.
LEMMA OffsetStep ==
  ASSUME N \in Nat
  PROVE  /\ Offset[1] = 0
         /\ \A k \in 2..(N + 1) : Offset[k] = Offset[k - 1] + Length(k - 1)
<1> DEFINE D == 1..(N + 1)
           S(f, k) == IF k = 1 THEN 0 ELSE f[k - 1] + Length(k - 1)
<1>1. \E f : f = [k \in D |-> S(f, k)]
  <2>1. N + 1 \in Nat
    OBVIOUS
  <2>2. QED
    BY <2>1, OffsetsExist, Zenon DEF Offsets
<1>2. Offset = CHOOSE f : f = [k \in D |-> S(f, k)]
  BY Zenon DEF Offset
<1>3. Offset = [k \in D |-> S(Offset, k)]
  BY <1>1, <1>2, Zenon
<1> HIDE DEF S
<1>4. \A k \in D : Offset[k] = S(Offset, k)
  BY <1>3, Zenon
<1>5. 1 \in D /\ \A k \in 2..(N + 1) : k \in D /\ k # 1
  OBVIOUS
<1>6. QED
  BY <1>4, <1>5, Zenon DEF S

\* Later rows have later offsets.
LEMMA OffsetProps ==
  ASSUME N \in Nat, \A k \in 1..N : Length(k) \in Nat
  PROVE  /\ \A k \in 1..(N + 1) : Offset[k] \in Nat
         /\ \A j, k \in 1..(N + 1) : j < k => Offset[j] + Length(j) <= Offset[k]
<1> DEFINE Good(k) == /\ Offset[k] \in Nat
                      /\ \A j \in 1..(k - 1) : Offset[j] + Length(j) <= Offset[k]
           bad == {k \in 1..(N + 1) : ~Good(k)}
<1>1. /\ Offset[1] = 0
      /\ \A k \in 2..(N + 1) : Offset[k] = Offset[k - 1] + Length(k - 1)
  BY OffsetStep
<1>2. Good(1)
  BY <1>1
<1>3. ASSUME NEW k \in 2..(N + 1), \A j \in 1..(k - 1) : Good(j) PROVE Good(k)
  <2>1. k - 1 \in 1..(k - 1) /\ k - 1 \in 1..N /\ 1..(k - 1) \subseteq 1..N
    OBVIOUS
  <2>2. Offset[k - 1] \in Nat /\ Length(k - 1) \in Nat /\ Good(k - 1)
    BY <1>3, <2>1
  <2>3. Offset[k] = Offset[k - 1] + Length(k - 1)
    BY <1>1
  <2>4. ASSUME NEW j \in 1..(k - 1) PROVE Offset[j] + Length(j) <= Offset[k]
    <3>1. Offset[j] \in Nat /\ Length(j) \in Nat
      BY <1>3, <2>1
    <3>2. CASE j = k - 1
      BY <2>2, <2>3, <3>2
    <3>3. CASE j # k - 1
      <4>1. j \in 1..((k - 1) - 1)
        BY <3>3
      <4>2. Offset[j] + Length(j) <= Offset[k - 1]
        BY <2>2, <4>1
      <4>3. QED
        BY <2>2, <2>3, <3>1, <4>2
    <3>4. QED
      BY <3>2, <3>3
  <2>5. QED
    BY <2>2, <2>3, <2>4
<1> HIDE DEF Good
<1>4. bad = {}
  <2> SUFFICES ASSUME bad # {} PROVE FALSE
    OBVIOUS
  <2>1. PICK k \in bad : \A j \in bad : k <= j
    <3>1. bad \subseteq Nat
      OBVIOUS
    <3> HIDE DEF bad
    <3>2. QED
      BY <3>1, LeastExists
  <2>2. k \in 1..(N + 1) /\ ~Good(k)
    OBVIOUS
  <2>3. k \in 2..(N + 1)
    BY <1>2, <2>2
  <2>4. \A j \in 1..(k - 1) : Good(j)
    BY <2>1, <2>2
  <2>5. QED
    BY <1>3, <2>2, <2>3, <2>4
<1>5. \A k \in 1..(N + 1) : Good(k)
  BY <1>4
<1>6. ASSUME NEW j \in 1..(N + 1), NEW k \in 1..(N + 1), j < k
      PROVE  Offset[j] + Length(j) <= Offset[k]
  <2>1. j \in 1..(k - 1)
    BY <1>6
  <2>2. QED
    BY <1>5, <2>1 DEF Good
<1>7. QED
  BY <1>5, <1>6 DEF Good

\* NULL or a list.
ListOrNull(v) == v = Null \/ (Len(v) \in Nat /\ v = [e \in 1..Len(v) |-> v[e]])

\* Every element of a list has a place of its own in the child vector.
LEMMA ChildPlace ==
  ASSUME N \in Nat, \A k \in 1..N : Length(k) \in Nat,
         NEW k \in 1..N, NEW e \in 1..Length(k)
  PROVE  /\ Offset[k] + e \in 1..Offset[N + 1]
         /\ e \in 1..Offset[N + 1]
         /\ \A m \in 1..N, d \in Nat \ {0} :
              d <= Length(m) /\ Offset[m] + d = Offset[k] + e => m = k /\ d = e
<1>1. /\ \A j \in 1..(N + 1) : Offset[j] \in Nat
      /\ \A j, m \in 1..(N + 1) : j < m => Offset[j] + Length(j) <= Offset[m]
  BY OffsetProps
<1>2. /\ k \in 1..(N + 1) /\ N + 1 \in 1..(N + 1) /\ k < N + 1
      /\ \A m \in 1..N : m \in 1..(N + 1)
  OBVIOUS
<1>3. /\ Offset[k] \in Nat /\ Offset[N + 1] \in Nat /\ Length(k) \in Nat
      /\ Offset[k] + Length(k) <= Offset[N + 1]
  BY <1>1, <1>2
<1>4. ASSUME NEW m \in 1..N, NEW d \in Nat \ {0}, d <= Length(m),
             Offset[m] + d = Offset[k] + e
      PROVE  m = k /\ d = e
  <2>1. Offset[m] \in Nat /\ Length(m) \in Nat
    BY <1>1, <1>2
  <2>2. ~(m < k)
    <3>1. m < k => Offset[m] + Length(m) <= Offset[k]
      BY <1>1, <1>2
    <3>2. QED
      BY <1>3, <1>4, <2>1, <3>1
  <2>3. ~(k < m)
    <3>1. k < m => Offset[k] + Length(k) <= Offset[m]
      BY <1>1, <1>2
    <3>2. QED
      BY <1>3, <1>4, <2>1, <3>1
  <2>4. m = k
    BY <2>2, <2>3
  <2>5. QED
    BY <1>3, <1>4, <2>4
<1>5. QED
  BY <1>3, <1>4

\* DuckDB reads the lists that were written.
LEMMA ListReadBack ==
  ASSUME N \in Nat, \A k \in 1..N : ListOrNull(rows[k])
  PROVE  ReadBack(ListVector) = [k \in 1..N |-> rows[k]]
<1> DEFINE total == Offset[N + 1]
           is(c, kj) == kj[2] <= Length(kj[1]) /\ Offset[kj[1]] + kj[2] = c
           at(c) == CHOOSE kj \in (1..N) \X (1..total) : is(c, kj)
           elem(c) == rows[at(c)[1]][at(c)[2]]
           v == [entry |-> [k \in 1..N |-> [offset |-> Offset[k], length |-> Length(k)]],
                 null |-> {k \in 1..N : rows[k] = Null},
                 child |-> [c \in 1..total |-> IF elem(c) = Null THEN Absent ELSE elem(c)],
                 child_null |-> {c \in 1..total : elem(c) = Null}]
           read(k) == [e \in 1..v.entry[k].length |->
                         LET c == v.entry[k].offset + e IN
                           IF c \in v.child_null THEN Null ELSE v.child[c]]
<1>1. \A k \in 1..N : Length(k) \in Nat /\ (rows[k] # Null => Length(k) = Len(rows[k]))
  BY DEF Length, ListOrNull
<1>2. ListVector = v
  BY Zenon DEF ListVector
<1>3. ReadBack(v) = [k \in DOMAIN v.entry |-> IF k \in v.null THEN Null ELSE read(k)]
  <2>1. "data" \notin DOMAIN v
    BY Zenon
  <2> HIDE DEF v
  <2>2. QED
    BY <2>1, Zenon DEF ReadBack
<1>4. ASSUME NEW k \in 1..N, NEW e \in 1..Length(k) PROVE elem(Offset[k] + e) = rows[k][e]
  <2> DEFINE c == Offset[k] + e
             S == (1..N) \X (1..total)
  <2>1. <<k, e>> \in S /\ is(c, <<k, e>>)
    BY <1>1, <1>4, ChildPlace
  <2>2. ASSUME NEW kj \in S, is(c, kj) PROVE kj = <<k, e>>
    <3>1. kj = <<kj[1], kj[2]>> /\ kj[1] \in 1..N /\ kj[2] \in 1..total
      BY <2>2
    <3>2. kj[2] \in Nat \ {0}
      BY <3>1
    <3>3. kj[1] = k /\ kj[2] = e
      BY <1>1, <2>2, <3>1, <3>2, ChildPlace
    <3>4. QED
      BY <3>1, <3>3
  <2> HIDE DEF S, is, c
  <2>3. (CHOOSE kj \in S : is(c, kj)) = <<k, e>>
    BY <2>1, <2>2
  <2>4. at(c) = <<k, e>>
    BY <2>3 DEF S
  <2> HIDE DEF at
  <2>5. QED
    BY <2>4 DEF c
<1>5. /\ DOMAIN v.entry = 1..N /\ v.null = {k \in 1..N : rows[k] = Null}
      /\ \A k \in 1..N : v.entry[k].offset = Offset[k] /\ v.entry[k].length = Length(k)
  OBVIOUS
<1>6. \A c \in 1..total : (IF c \in v.child_null THEN Null ELSE v.child[c]) = elem(c)
  <2> HIDE DEF elem
  <2>1. QED
    OBVIOUS
<1> HIDE DEF v, elem, total
<1>7. ASSUME NEW k \in 1..N, rows[k] # Null PROVE read(k) = rows[k]
  <2>1. rows[k] = [e \in 1..Length(k) |-> rows[k][e]]
    BY <1>1, <1>7 DEF ListOrNull
  <2>2. ASSUME NEW e \in 1..Length(k)
        PROVE  (LET c == v.entry[k].offset + e IN
                  IF c \in v.child_null THEN Null ELSE v.child[c]) = rows[k][e]
    <3>1. Offset[k] + e \in 1..total
      BY <1>1, ChildPlace DEF total
    <3>2. QED
      BY <1>4, <1>5, <1>6, <3>1
  <2>3. read(k) = [e \in 1..Length(k) |->
                     LET c == v.entry[k].offset + e IN
                       IF c \in v.child_null THEN Null ELSE v.child[c]]
    BY <1>5
  <2>4. QED
    BY <2>1, <2>2, <2>3
<1> HIDE DEF read
<1>8. \A k \in 1..N : (IF k \in v.null THEN Null ELSE read(k)) = rows[k]
  BY <1>5, <1>7
<1>9. QED
  BY <1>2, <1>3, <1>5, <1>8

\* DuckDB reads the values that were written.
LEMMA FlatReadBack == ReadBack(FlatVector) = [k \in 1..N |-> rows[k]]
<1> DEFINE data == [k \in 1..N |-> IF rows[k] = Null THEN Absent ELSE rows[k]]
           null == {k \in 1..N : rows[k] = Null}
           v == [data |-> data, null |-> null]
<1>1. FlatVector = v
  BY Zenon DEF FlatVector
<1>2. "data" \in DOMAIN v /\ v.data = data /\ v.null = null
  <2> HIDE DEF data, null
  <2>1. QED
    OBVIOUS
<1>3. ReadBack(v) = [k \in DOMAIN v.data |-> IF k \in v.null THEN Null ELSE v.data[k]]
  <2> HIDE DEF v
  <2>1. QED
    BY <1>2, Zenon DEF ReadBack
<1>4. /\ DOMAIN data = 1..N
      /\ \A k \in 1..N : (IF k \in null THEN Null ELSE data[k]) = rows[k]
  OBVIOUS
<1> HIDE DEF data, null, v
<1>5. QED
  BY <1>1, <1>2, <1>3, <1>4

\* A function that returns lists is promised to return them.
LEMMA ListAnswers ==
  ASSUME CallSound, fn \in ListFns, NEW k \in 1..N
  PROVE  ListOrNull(Answer(k))
<1> DEFINE row == chunk[k]
           els == Elements(fn, row.arg)
<1>1. CASE Judge(fn, row) # "run"
  BY <1>1, NullAnswer DEF ListOrNull
<1>2. CASE Judge(fn, row) = "run" /\ fn \in ElementFns
  <2>1. Len(els) \in Nat /\ DOMAIN els = 1..Len(els)
    BY <1>2 DEF CallSound, Admitted
  <2> DEFINE F(e) == IF els[e] = Null THEN Null ELSE ElementValue(fn, row, els[e])
             list == [e \in 1..Len(els) |-> F(e)]
  <2>2. Answer(k) = [e \in DOMAIN els |-> F(e)]
    BY <1>2, SameRows DEF Answer, Abstract!Answer, fn, chunk
  <2> HIDE DEF F, els, row
  <2>3. list \in [1..Len(els) -> {F(e) : e \in 1..Len(els)}]
    OBVIOUS
  <2>4. Len(list) = Len(els)
    BY <2>1, <2>3
  <2> HIDE DEF list
  <2>5. list = [e \in 1..Len(list) |-> list[e]]
    BY <2>3, <2>4
  <2>6. QED
    BY <2>1, <2>2, <2>4, <2>5 DEF ListOrNull, list
<1>3. CASE Judge(fn, row) = "run" /\ fn \notin ElementFns
  <2>1. fn \in {"RS_BandAsArray", "RS_BandAsArray_wkt"}
    BY <1>3 DEF ListFns, ElementFns
  <2>2. Answer(k) = Value(fn, row)
    BY <1>3, SameRows DEF Answer, Abstract!Answer, fn, chunk
  <2>3. Value(fn, row) = Window(row.path, row.arg, Band(row.band))
    BY <2>1 DEF Value, RsBandAsArray, RsBandAsArrayWkt
  <2>4. ASSUME NEW a, NEW b PROVE ListOrNull(<<a, b>>)
    <3> DEFINE s == <<a, b>>
    <3>1. s \in Seq({a, b}) /\ Len(s) = 2
      OBVIOUS
    <3> HIDE DEF s
    <3>2. Len(s) \in Nat /\ s = [e \in 1..Len(s) |-> s[e]]
      BY <3>1
    <3>3. QED
      BY <3>2, Zenon DEF ListOrNull, s
  <2>5. ListOrNull(<<>>) /\ ListOrNull(Null)
    BY DEF ListOrNull
  <2>6. Window(row.path, row.arg, Band(row.band)) \in
          {Null, <<>>, <<Engine(row.path, row.arg, Band(row.band)), Null>>}
    BY Zenon DEF Window
  <2>7. QED
    BY <2>2, <2>3, <2>4, <2>5, <2>6, Zenon
<1>4. QED
  BY <1>1, <1>2, <1>3

-----------------------------------------------------------------------------
\* The call runs.
Running == pc \notin {"ok", "err"}

\* A step within the call is none of ScalarCall.
LEMMA QuietStep ==
  ASSUME call' = call, Running, Running'
  PROVE  Simulated
BY DEF Running, Simulated, Visible

\* A step that fails with the promised error is that of ScalarCall.
LEMMA FailStep ==
  ASSUME Running, NEW s, NEW k, Fail(s, k),
         Promised = [err |-> [stage |-> s, row |-> k]]
  PROVE  PromiseInv' /\ Simulated
<1>1. pc' = "err" /\ out' = Promised /\ call' = call
  BY DEF Fail
<1>2. PromiseInv'
  BY <1>1 DEF PromiseInv, Progress, Answers
<1>3. Visible = Pending /\ Visible' = Promised
  BY <1>1 DEF Visible, Running
<1>4. QED
  BY <1>1, <1>2, <1>3 DEF Simulated, Abstract!Return, Promised

\* A step that moves neither loops nor answers.
LEMMA StillStep ==
  ASSUME PromiseInv, UNCHANGED <<call, pc, i, rows>>, pc = "running" => done' = done
  PROVE  PromiseInv'
<1>1. /\ N' = N /\ fn' = fn /\ \A s, k : Faulty(s, k)' <=> Faulty(s, k)
      /\ \A k : Answer(k)' = Answer(k) /\ Job(k)' = Job(k) /\ Outcome(k)' = Outcome(k)
  BY SamePromise, SameCall
<1>2. \A s, n : Clear(s, n)' <=> Clear(s, n)
  BY <1>1 DEF Clear
<1>3. Progress'
  BY <1>1, <1>2 DEF PromiseInv, Progress
<1>4. Answers'
  BY <1>1 DEF PromiseInv, Answers
<1>5. QED
  BY <1>3, <1>4 DEF PromiseInv

\* One more row without fault.
LEMMA ClearNext ==
  ASSUME NEW s, NEW n \in Nat, Clear(s, n), n \in 1..N => ~Faulty(s, n)
  PROVE  Clear(s, n + 1)
<1> SUFFICES ASSUME NEW k \in 1..N, k < n + 1 PROVE ~Faulty(s, k)
  BY DEF Clear
<1>1. k < n \/ k = n
  OBVIOUS
<1>2. QED
  BY <1>1 DEF Clear

\* Before the first row there is none.
LEMMA ClearFirst == \A s : Clear(s, 1)
BY DEF Clear

\* The rows before row n are without fault: one at fault comes no earlier.
LEMMA FaultsLater ==
  ASSUME NEW n \in Nat, Clear(1, n), Clear(2, n), Clear(3, n),
         NEW t \in 1..3, NEW j \in 1..N, Faulty(t, j)
  PROVE  n <= j
<1>1. t = 1 \/ t = 2 \/ t = 3
  OBVIOUS
<1>2. ~(j < n)
  BY <1>1 DEF Clear
<1>3. QED
  BY <1>2

\* A stage without a fault.
LEMMA StageClear ==
  ASSUME N \in Nat, NEW s, Clear(s, N + 1), NEW j \in 1..N
  PROVE  ~Faulty(s, j)
BY DEF Clear

-----------------------------------------------------------------------------
\* The step of a row function fails at the row at hand: nothing precedes it.
LEMMA RowFault ==
  ASSUME CallSound, fn \in RowFns, i \in 1..N, Clear(1, i), Clear(2, i), Clear(3, i),
         NEW s \in 1..3, Faulty(s, i), \A t \in 1..3 : t < s => ~Faulty(t, i)
  PROVE  Promised = [err |-> [stage |-> s, row |-> i]]
<1>1. ASSUME NEW t \in 1..3, NEW j \in 1..N, Faulty(t, j)
      PROVE  i < j \/ (i = j /\ s <= t)
  <2>1. i <= j
    BY <1>1, FaultsLater
  <2>2. i = j => ~(t < s)
    BY <1>1
  <2>3. QED
    BY <2>1, <2>2
<1>2. QED
  BY <1>1, FirstFault

\* A stage of the other functions fails at its first row at fault, and no earlier
\* stage has a fault.
LEMMA StageFault ==
  ASSUME CallSound, fn \notin RowFns, NEW s \in 1..3, NEW k \in 1..N, Faulty(s, k),
         \A t \in 1..3 : t < s => Clear(t, N + 1), \A j \in 1..N : Faulty(s, j) => k <= j
  PROVE  Promised = [err |-> [stage |-> s, row |-> k]]
<1>1. ASSUME NEW t \in 1..3, NEW j \in 1..N, Faulty(t, j)
      PROVE  s < t \/ (s = t /\ k <= j)
  <2>1. ~(t < s)
    BY <1>1, StageClear DEF CallSound
  <2>2. s = t => k <= j
    BY <1>1
  <2>3. QED
    BY <2>1, <2>2
<1>2. QED
  BY <1>1, FirstFault

\* A file is opened for the row at hand, or fails to open.
LEMMA OpenFileStep ==
  ASSUME ChunkInv, PromiseInv, pc \in {"open", "row"}, i \in 1..N, OpenFile,
         chunk[i].path # Null, pc = "row" => Judge(fn, chunk[i]) = "run"
  PROVE  PromiseInv' /\ Simulated
<1>1. CallSound /\ Running /\ N \in Nat /\ i \in Nat
  BY DEF ChunkInv, Running, CallSound
<1>2. CASE chunk[i].path \notin call.bad /\ UNCHANGED <<call, pc, i, rows, out>>
  <2>1. PromiseInv'
    BY <1>2, StillStep
  <2>2. Simulated
    BY <1>1, <1>2, QuietStep DEF Running
  <2>3. QED
    BY <2>1, <2>2
<1>3. CASE chunk[i].path \in call.bad /\ Fail(2, i)
  <2>1. fn \in MetaFns \/ Judge(fn, chunk[i]) = "run"
    BY DEF ChunkInv, PlaceSound
  <2>2. Faulty(2, i)
    BY <1>3, <2>1 DEF Faulty
  <2>3. fn \in MetaFns \/ fn \in RowFns
    BY DEF ChunkInv, PlaceSound
  <2>4. CASE fn \in MetaFns
    <3>1. pc = "open" /\ Clear(2, i)
      BY <1>1, <2>2, <2>4, StageClear DEF PromiseInv, Progress
    <3>2. Clear(1, N + 1) /\ \A t \in 1..3 : t < 2 => t = 1
      BY <1>1, <2>4, MetaSound
    <3>3. \A j \in 1..N : Faulty(2, j) => i <= j
      BY <1>1, <3>1 DEF Clear
    <3>4. Promised = [err |-> [stage |-> 2, row |-> i]]
      BY <1>1, <2>2, <2>4, <3>2, <3>3, StageFault, OneWay
    <3>5. QED
      BY <1>1, <1>3, <3>4, FailStep
  <2>5. CASE fn \in RowFns
    <3>1. pc = "row" /\ Judge(fn, chunk[i]) = "run"
      BY <2>5, OneWay DEF ChunkInv, PlaceSound
    <3>2. Clear(1, i) /\ Clear(2, i) /\ Clear(3, i)
      BY <2>5, <3>1 DEF PromiseInv, Progress
    <3>3. ~Faulty(1, i) /\ \A t \in 1..3 : t < 2 => t = 1
      BY <3>1 DEF Faulty
    <3>4. Promised = [err |-> [stage |-> 2, row |-> i]]
      BY <1>1, <2>2, <2>5, <3>2, <3>3, RowFault
    <3>5. QED
      BY <1>1, <1>3, <3>4, FailStep
  <2>6. QED
    BY <2>3, <2>4, <2>5
<1>4. QED
  BY <1>2, <1>3 DEF OpenFile

\* An answer or a job is pushed.
LEMMA PushStep ==
  ASSUME ChunkInv, PromiseInv, pc \in {"row", "parse"}, i <= N, NEW v, Push(v),
         pc = "row" => v = Answer(i), pc = "parse" => v = Job(i),
         Judge(fn, chunk[i]) # "bad",
         pc = "row" => ~Faulty(3, i) /\ (fn \in RowFns => ~Faulty(2, i))
  PROVE  PromiseInv' /\ Simulated
<1>1. /\ rows' = Append(rows, v) /\ i' = i + 1
      /\ UNCHANGED <<call, pc, opened, opens, done, out>>
  BY DEF Push
<1>2. /\ N' = N /\ fn' = fn /\ \A s, k : Faulty(s, k)' <=> Faulty(s, k)
      /\ \A k : Answer(k)' = Answer(k) /\ Job(k)' = Job(k)
  BY <1>1, SamePromise, SameCall
<1>3. \A s, n : Clear(s, n)' <=> Clear(s, n)
  BY <1>2 DEF Clear
<1>4. Len(rows) = i - 1 /\ i \in Nat /\ IsSeq(rows)
  BY DEF ChunkInv, PlaceSound, TypeOK
<1>5. /\ Len(rows') = Len(rows) + 1 /\ rows'[Len(rows) + 1] = v
      /\ \A k \in 1..Len(rows) : rows'[k] = rows[k]
  BY <1>1, <1>4, AppendProps
<1>6. ~Faulty(1, i)
  BY DEF Faulty
<1>7. Progress'
  <2>1. \A s : Clear(s, i) /\ ~Faulty(s, i) => Clear(s, i + 1)
    BY <1>4, ClearNext
  <2>2. CASE pc = "row"
    BY <1>1, <1>2, <1>3, <1>6, <2>1, <2>2 DEF PromiseInv, Progress
  <2>3. CASE pc = "parse"
    BY <1>1, <1>2, <1>3, <1>6, <2>1, <2>3 DEF PromiseInv, Progress
  <2>4. QED
    BY <2>2, <2>3
<1>8. Answers'
  <2>1. ASSUME NEW k \in 1..Len(rows')
        PROVE  IF pc = "row" THEN rows'[k] = Answer(k) ELSE rows'[k] = Job(k)
    <3>1. CASE k \in 1..Len(rows)
      BY <1>5, <3>1 DEF PromiseInv, Answers
    <3>2. CASE k = i
      BY <1>4, <1>5, <3>2
    <3>3. QED
      BY <1>4, <1>5, <3>1, <3>2
  <2>2. QED
    BY <1>1, <1>2, <2>1 DEF Answers
<1>9. Simulated
  BY <1>1, QuietStep DEF Running
<1>10. QED
  BY <1>7, <1>8, <1>9 DEF PromiseInv

\* The loops over the rows without a file move on.
LEMMA LoopStep ==
  ASSUME ChunkInv, PromiseInv, MetaNext \/ MetaDone \/ RowsDone \/ ParseDone
  PROVE  PromiseInv' /\ Simulated
<1>1. UNCHANGED <<call, rows, done, out>> /\ i \in 1..(N + 1) /\ N \in Nat
  BY DEF MetaNext, MetaDone, RowsDone, ParseDone, ChunkInv, TypeOK, CallSound
<1>2. /\ N' = N /\ fn' = fn /\ \A s, k : Faulty(s, k)' <=> Faulty(s, k)
      /\ \A k : Answer(k)' = Answer(k) /\ Job(k)' = Job(k) /\ Outcome(k)' = Outcome(k)
  BY <1>1, SamePromise, SameCall
<1>3. \A s, n : Clear(s, n)' <=> Clear(s, n)
  BY <1>2 DEF Clear
<1>4. Running /\ Running'
  BY DEF Running, MetaNext, MetaDone, RowsDone, ParseDone
<1>5. Simulated
  BY <1>1, <1>4, QuietStep
<1>6. CASE MetaNext
  <2>1. ~Faulty(2, i)
    BY <1>6 DEF MetaNext, Faulty, ChunkInv, TypeOK, PlaceSound
  <2>2. Clear(2, i + 1)
    BY <1>1, <1>6, <2>1, ClearNext DEF MetaNext, PromiseInv, Progress
  <2>3. Progress' /\ Answers'
    BY <1>3, <1>6, <2>2 DEF MetaNext, Progress, Answers
  <2>4. QED
    BY <1>5, <2>3 DEF PromiseInv
<1>7. CASE MetaDone
  <2>1. fn \in MetaFns /\ Len(rows) = 0 /\ i = N + 1
    BY <1>1, <1>7 DEF MetaDone, ChunkInv, PlaceSound
  <2>2. Clear(2, N + 1) /\ Clear(3, 1) /\ fn \notin RowFns
    BY <1>7, <2>1, ClearFirst, OneWay DEF MetaDone, PromiseInv, Progress
  <2>3. Progress' /\ Answers'
    BY <1>1, <1>2, <1>3, <1>7, <2>1, <2>2 DEF MetaDone, Progress, Answers
  <2>4. QED
    BY <1>5, <2>3 DEF PromiseInv
<1>8. CASE RowsDone
  <2>1. i = N + 1 /\ Len(rows) = N /\ fn \in RowFns \cup MetaFns /\ CallSound
    BY <1>1, <1>8 DEF RowsDone, ChunkInv, PlaceSound
  <2>2. Clear(2, N + 1) /\ Clear(3, N + 1)
    BY <1>8, <2>1 DEF RowsDone, PromiseInv, Progress
  <2>3. Clear(1, N + 1)
    BY <1>8, <2>1, MetaSound DEF RowsDone, PromiseInv, Progress
  <2>4. Progress' /\ Answers'
    BY <1>1, <1>2, <1>3, <1>8, <2>1, <2>2, <2>3
       DEF RowsDone, PromiseInv, Progress, Answers
  <2>5. QED
    BY <1>5, <2>4 DEF PromiseInv
<1>9. CASE ParseDone
  <2>1. Clear(1, N + 1)
    <3>1. i = N + 1
      BY <1>1, <1>9 DEF ParseDone
    <3>2. QED
      BY <1>9, <3>1 DEF ParseDone, PromiseInv, Progress
  <2>2. Progress' /\ Answers'
    BY <1>1, <1>2, <1>3, <1>9, <2>1 DEF ParseDone, PromiseInv, Progress, Answers
  <2>3. QED
    BY <1>5, <2>2 DEF PromiseInv
<1>10. QED
  BY <1>6, <1>7, <1>8, <1>9

\* A row with a bad argument fails the chunk.
LEMMA BadStep ==
  ASSUME ChunkInv, PromiseInv, RowBad
  PROVE  PromiseInv' /\ Simulated
<1>1. /\ pc \in {"row", "parse"} /\ i \in 1..N /\ Judge(fn, chunk[i]) = "bad" /\ Fail(1, i)
      /\ CallSound /\ N \in Nat
  BY DEF RowBad, ChunkInv, TypeOK, CallSound
<1>2. Faulty(1, i) /\ \A t \in 1..3 : ~(t < 1)
  BY <1>1 DEF Faulty
<1>3. fn \notin MetaFns
  BY <1>1, <1>2, MetaSound, StageClear
<1>4. CASE pc = "row"
  <2>1. fn \in RowFns
    BY <1>3, <1>4 DEF ChunkInv, PlaceSound
  <2>2. Clear(1, i) /\ Clear(2, i) /\ Clear(3, i)
    BY <1>4, <2>1 DEF PromiseInv, Progress
  <2>3. QED
    BY <1>1, <1>2, <1>4, <2>1, <2>2, RowFault, FailStep DEF Running
<1>5. CASE pc = "parse"
  <2>1. fn \notin RowFns
    BY <1>5, OneWay DEF ChunkInv, PlaceSound
  <2>2. \A j \in 1..N : Faulty(1, j) => i <= j
    BY <1>1, <1>5 DEF PromiseInv, Progress, Clear
  <2>3. Promised = [err |-> [stage |-> 1, row |-> i]]
    BY <1>1, <1>2, <2>1, <2>2, StageFault
  <2>4. QED
    BY <1>1, <1>5, <2>3, FailStep DEF Running
<1>6. QED
  BY <1>1, <1>4, <1>5

\* A row is read, or its read fails.
LEMMA ReadStep ==
  ASSUME ChunkInv, PromiseInv, RowRead
  PROVE  PromiseInv' /\ Simulated
<1>1. /\ pc = "row" /\ i \in 1..N /\ Judge(fn, chunk[i]) = "run" /\ chunk[i].path \in opened
      /\ CallSound /\ N \in Nat /\ i \in Nat
  BY DEF RowRead, ChunkInv, TypeOK, CallSound
<1>2. ~Faulty(1, i) /\ ~Faulty(2, i) /\ (Faulty(3, i) <=> ReadFails(i))
  BY <1>1 DEF Faulty, ChunkInv, TypeOK
<1>3. CASE ~ReadFails(i) /\ Push(RowValue(chunk[i]))
  BY <1>1, <1>2, <1>3, RowValueIsAnswer, PushStep
<1>4. CASE ReadFails(i) /\ Fail(3, i)
  <2>1. Promised = [err |-> [stage |-> 3, row |-> i]]
    <3>1. CASE fn \in RowFns
      <4>1. Clear(1, i) /\ Clear(2, i) /\ Clear(3, i)
        BY <1>1, <3>1 DEF PromiseInv, Progress
      <4>2. \A t \in 1..3 : t < 3 => ~Faulty(t, i)
        <5>1. \A t \in 1..3 : t < 3 => t = 1 \/ t = 2
          OBVIOUS
        <5>2. QED
          BY <1>2, <5>1
      <4>3. QED
        BY <1>1, <1>2, <1>4, <3>1, <4>1, <4>2, RowFault
    <3>2. CASE fn \in MetaFns
      <4>1. Clear(1, N + 1) /\ Clear(2, N + 1) /\ Clear(3, i)
        BY <1>1, <3>2, MetaSound DEF PromiseInv, Progress
      <4>2. \A t \in 1..3 : t < 3 => Clear(t, N + 1)
        <5>1. \A t \in 1..3 : t < 3 => t = 1 \/ t = 2
          OBVIOUS
        <5>2. QED
          BY <4>1, <5>1
      <4>3. \A j \in 1..N : Faulty(3, j) => i <= j
        BY <1>1, <4>1 DEF Clear
      <4>4. QED
        BY <1>1, <1>2, <1>4, <3>2, <4>2, <4>3, StageFault, OneWay
    <3>3. QED
      BY <1>1, <3>1, <3>2 DEF ChunkInv, PlaceSound
  <2>2. QED
    BY <1>1, <1>4, <2>1, FailStep DEF Running
<1>5. QED
  BY <1>3, <1>4 DEF RowRead

-----------------------------------------------------------------------------
\* The items of open_paths are the jobs where a path first appears: each is a row
\* that runs, and a row at fault has such an item no later than itself.
LEMMA ItemsProps ==
  ASSUME ChunkInv, PromiseInv, pc = "opening"
  PROVE  /\ UniqPaths \subseteq 1..N
         /\ \A k \in UniqPaths : rows[k].path \in call.bad => Faulty(2, k)
         /\ \A j \in 1..N : Faulty(2, j) =>
              \E k \in UniqPaths : k <= j /\ rows[k].path \in call.bad
<1>1. /\ CallSound /\ N \in Nat /\ fn \notin MetaFns /\ Len(rows) = N
      /\ DOMAIN rows = 1..N
  BY OneWay DEF ChunkInv, CallSound, PlaceSound, IsSeq
<1>2. \A k \in 1..N : rows[k] = Job(k)
  BY <1>1 DEF PromiseInv, Answers
<1>3. \A k \in 1..N : k \in Jobs <=> Judge(fn, chunk[k]) = "run"
  BY <1>1, <1>2 DEF Jobs, Job, CallSound, Admitted
<1>4. Jobs \subseteq 1..N /\ UniqPaths \subseteq Jobs
  BY <1>1 DEF Jobs, UniqPaths
<1>5. \A k \in Jobs : rows[k] = chunk[k] /\ Judge(fn, chunk[k]) = "run"
  BY <1>2, <1>3, <1>4 DEF Job
<1>6. \A k \in UniqPaths : rows[k].path \in call.bad => Faulty(2, k)
  BY <1>1, <1>4, <1>5 DEF Faulty
<1>7. ASSUME NEW j \in 1..N, Faulty(2, j)
      PROVE  \E k \in UniqPaths : k <= j /\ rows[k].path \in call.bad
  <2>1. Judge(fn, chunk[j]) = "run" /\ chunk[j].path \in call.bad
    BY <1>1, <1>7 DEF Faulty
  <2>2. j \in Jobs /\ rows[j].path \in call.bad
    BY <1>3, <1>5, <2>1
  <2> DEFINE same == {k \in Jobs : rows[k].path = rows[j].path}
  <2>3. same \subseteq Nat /\ j \in same
    <3>1. same \subseteq Jobs /\ Jobs \subseteq Nat
      BY <1>4
    <3>2. QED
      BY <2>2, <3>1, Zenon
  <2>4. PICK k \in same : \A m \in same : k <= m
    BY <2>3, LeastExists, Zenon
  <2>5. k \in Jobs /\ rows[k].path = rows[j].path /\ k <= j
    BY <2>3, <2>4
  <2>6. \A m \in Jobs : m < k => rows[m].path # rows[k].path
    BY <1>4, <2>4, <2>5
  <2>7. k \in UniqPaths
    BY <2>5, <2>6 DEF UniqPaths
  <2>8. QED
    BY <2>2, <2>5, <2>7
<1>8. QED
  BY <1>4, <1>6, <1>7

\* All files are open, or the first that failed decides.
LEMMA OpensStep ==
  ASSUME ChunkInv, PromiseInv, OpensCollected
  PROVE  PromiseInv' /\ Simulated
<1> DEFINE failed == {k \in UniqPaths : rows[k].path \in call.bad}
<1>1. /\ pc = "opening" /\ CallSound /\ N \in Nat /\ fn \notin RowFns /\ Len(rows) = N
      /\ Clear(1, N + 1)
  BY OneWay DEF OpensCollected, ChunkInv, CallSound, PlaceSound, PromiseInv, Progress
<1>2. /\ failed \subseteq 1..N /\ \A k \in failed : Faulty(2, k)
      /\ \A j \in 1..N : Faulty(2, j) => \E k \in failed : k <= j
  BY <1>1, ItemsProps
<1>3. \/ failed # {} /\ Fail(2, Min(failed))
      \/ failed = {} /\ pc' = "running" /\ done' = {} /\ UNCHANGED <<call, i, rows, out>>
  BY DEF OpensCollected
<1> HIDE DEF failed
<1>4. CASE failed # {} /\ Fail(2, Min(failed))
  <2> DEFINE k == Min(failed)
  <2>1. k \in failed /\ \A j \in failed : k <= j
    <3>1. failed \subseteq Nat
      BY <1>2
    <3>2. QED
      BY <3>1, <1>4, MinProps, Zenon
  <2> HIDE DEF k
  <2>2. k \in 1..N /\ Faulty(2, k)
    BY <1>2, <2>1
  <2>3. \A j \in 1..N : Faulty(2, j) => k <= j
    <3> SUFFICES ASSUME NEW j \in 1..N, Faulty(2, j) PROVE k <= j
      OBVIOUS
    <3>1. PICK m \in failed : m <= j
      BY <1>2
    <3>2. m \in Nat /\ k <= m
      BY <1>2, <2>1
    <3>3. QED
      BY <2>2, <3>1, <3>2
  <2>4. \A t \in 1..3 : t < 2 => Clear(t, N + 1)
    <3>1. \A t \in 1..3 : t < 2 => t = 1
      OBVIOUS
    <3>2. QED
      BY <1>1, <3>1
  <2>5. Promised = [err |-> [stage |-> 2, row |-> k]]
    BY <1>1, <2>2, <2>3, <2>4, StageFault
  <2>6. QED
    BY <1>1, <1>4, <2>5, FailStep DEF Running, k
<1>5. CASE failed = {} /\ pc' = "running" /\ done' = {} /\ UNCHANGED <<call, i, rows, out>>
  <2>1. Clear(2, N + 1)
    BY <1>2, <1>5 DEF Clear
  <2>2. /\ N' = N /\ \A s, k : Faulty(s, k)' <=> Faulty(s, k)
        /\ \A k : Job(k)' = Job(k)
    BY <1>5, SamePromise, SameCall
  <2>3. \A s, n : Clear(s, n)' <=> Clear(s, n)
    BY <2>2 DEF Clear
  <2>4. \A k \in 1..N : rows[k] = Job(k)
    BY <1>1 DEF PromiseInv, Answers
  <2>5. Progress' /\ Answers'
    BY <1>1, <1>5, <2>1, <2>2, <2>3, <2>4 DEF Progress, Answers
  <2>6. QED
    BY <1>1, <1>5, <2>5, QuietStep DEF PromiseInv, Running
<1>6. QED
  BY <1>3, <1>4, <1>5

\* The future of a row completes.
LEMMA RowCompletesStep ==
  ASSUME ChunkInv, PromiseInv, NEW k \in 1..N, RowCompletes(k)
  PROVE  PromiseInv' /\ Simulated
<1> DEFINE result == IF rows[k] = Null THEN [ok |-> Null]
                     ELSE IF ReadFails(k) THEN [err |-> k] ELSE [ok |-> RowValue(rows[k])]
<1>1. /\ pc = "running" /\ pc' = pc /\ done' = done \cup {k} /\ k \notin done
      /\ call' = call /\ rows' = [rows EXCEPT ![k] = result]
  BY DEF RowCompletes, Flying
<1>2. CallSound /\ Len(rows) = N /\ DOMAIN rows = 1..N
  BY <1>1 DEF ChunkInv, PlaceSound, IsSeq
<1>3. /\ N' = N /\ \A s, j : Faulty(s, j)' <=> Faulty(s, j)
      /\ \A j : Job(j)' = Job(j) /\ Outcome(j)' = Outcome(j)
  BY <1>1, SamePromise, SameCall
<1>4. rows[k] = Job(k)
  BY <1>1 DEF PromiseInv, Answers
<1>5. result = Outcome(k)
  <2>1. CASE Judge(fn, chunk[k]) # "run"
    BY <1>4, <2>1 DEF Job, Outcome
  <2>2. CASE Judge(fn, chunk[k]) = "run"
    <3>1. rows[k] = chunk[k] /\ chunk[k] # Null
      BY <1>2, <1>4, <2>2 DEF Job, CallSound, Admitted
    <3>2. RowValue(chunk[k]) = Answer(k)
      BY <1>2, <2>2, RowValueIsAnswer
    <3>3. QED
      BY <2>2, <3>1, <3>2 DEF Outcome
  <2>3. QED
    BY <2>1, <2>2
<1> HIDE DEF result
<1>6. \A j \in 1..N : rows'[j] = IF j = k THEN Outcome(k) ELSE rows[j]
  BY <1>1, <1>2, <1>5
<1>7. \A j \in 1..N : rows'[j] = IF j \in done' THEN Outcome(j) ELSE Job(j)
  BY <1>1, <1>6 DEF PromiseInv, Answers
<1>8. \A s, n : Clear(s, n)' <=> Clear(s, n)
  BY <1>3 DEF Clear
<1>9. Progress' /\ Answers'
  BY <1>1, <1>3, <1>7, <1>8 DEF PromiseInv, Progress, Answers
<1>10. QED
  BY <1>1, <1>9, QuietStep DEF PromiseInv, Running

\* All rows are complete: the first error, or the answers.
LEMMA RowsStep ==
  ASSUME ChunkInv, PromiseInv, RowsCollected
  PROVE  PromiseInv' /\ Simulated
<1> DEFINE failed == {k \in 1..N : "err" \in DOMAIN rows[k]}
<1>1. /\ pc = "running" /\ CallSound /\ N \in Nat /\ fn \notin RowFns
      /\ Clear(1, N + 1) /\ Clear(2, N + 1) /\ Flying(1..N) = {}
  BY OneWay DEF RowsCollected, ChunkInv, CallSound, PlaceSound, PromiseInv, Progress
<1>2. 1..N \subseteq done
  BY <1>1, StreamDone
<1>3. \A k \in 1..N : rows[k] = Outcome(k)
  BY <1>1, <1>2 DEF PromiseInv, Answers
<1>4. \A k \in 1..N : "err" \in DOMAIN rows[k] <=> Faulty(3, k)
  <2> SUFFICES ASSUME NEW k \in 1..N PROVE "err" \in DOMAIN rows[k] <=> Faulty(3, k)
    OBVIOUS
  <2>1. Faulty(3, k) <=> Judge(fn, chunk[k]) = "run" /\ ReadFails(k)
    BY DEF Faulty
  <2>2. rows[k] = Outcome(k)
    BY <1>3
  <2>3. CASE Faulty(3, k)
    <3>1. rows[k] = [err |-> k]
      BY <2>1, <2>2, <2>3 DEF Outcome
    <3>2. QED
      BY <2>3, <3>1
  <2>4. CASE ~Faulty(3, k)
    <3>1. PICK v : rows[k] = [ok |-> v]
      BY <2>1, <2>2, <2>4, Zenon DEF Outcome
    <3>2. QED
      BY <2>4, <3>1
  <2>5. QED
    BY <2>3, <2>4
<1>5. \/ failed # {} /\ Fail(3, Min(failed))
      \/ /\ failed = {} /\ pc' = "write" /\ rows' = [k \in 1..N |-> rows[k].ok]
         /\ UNCHANGED <<call, i, opened, opens, done, out>>
  BY DEF RowsCollected, FirstOf
<1>6. failed \subseteq 1..N /\ \A k \in 1..N : k \in failed <=> Faulty(3, k)
  BY <1>4
<1> HIDE DEF failed
<1>7. CASE failed # {} /\ Fail(3, Min(failed))
  <2> DEFINE k == Min(failed)
  <2>1. k \in failed /\ \A j \in failed : k <= j
    <3>1. failed \subseteq Nat
      BY <1>6
    <3>2. QED
      BY <3>1, <1>7, MinProps, Zenon
  <2> HIDE DEF k
  <2>2. \A t \in 1..3 : t < 3 => Clear(t, N + 1)
    <3>1. \A t \in 1..3 : t < 3 => t = 1 \/ t = 2
      OBVIOUS
    <3>2. QED
      BY <1>1, <3>1
  <2>3. Promised = [err |-> [stage |-> 3, row |-> k]]
    BY <1>1, <1>6, <2>1, <2>2, StageFault
  <2>4. QED
    BY <1>1, <1>7, <2>3, FailStep DEF Running, k
<1>8. CASE /\ failed = {} /\ pc' = "write" /\ rows' = [k \in 1..N |-> rows[k].ok]
           /\ UNCHANGED <<call, i, opened, opens, done, out>>
  <2>1. Clear(3, N + 1)
    BY <1>6, <1>8 DEF Clear
  <2>2. ASSUME NEW k \in 1..N PROVE rows[k].ok = Answer(k)
    <3>1. rows[k] = Outcome(k)
      BY <1>3
    <3>2. CASE Judge(fn, chunk[k]) # "run"
      <4>1. rows[k] = [ok |-> Null]
        BY <3>1, <3>2 DEF Outcome
      <4>2. QED
        BY <3>2, <4>1, NullAnswer
    <3>3. CASE Judge(fn, chunk[k]) = "run"
      <4>1. ~ReadFails(k)
        BY <1>6, <1>8, <3>3 DEF Faulty
      <4>2. rows[k] = [ok |-> Answer(k)]
        BY <3>1, <3>3, <4>1 DEF Outcome
      <4>3. QED
        BY <4>2
    <3>4. QED
      BY <3>2, <3>3
  <2>3. DOMAIN rows' = 1..N /\ rows' = [k \in 1..N |-> rows'[k]]
    BY <1>8
  <2>4. Len(rows') = N /\ \A k \in 1..N : rows'[k] = Answer(k)
    <3>1. Len(rows') = N
      BY <1>1, <2>3, TableProps
    <3>2. QED
      BY <1>8, <2>2, <3>1
  <2>5. /\ N' = N /\ \A s, k : Faulty(s, k)' <=> Faulty(s, k)
        /\ \A k : Answer(k)' = Answer(k)
    BY <1>8, SamePromise, SameCall
  <2>6. \A s, n : Clear(s, n)' <=> Clear(s, n)
    BY <2>5 DEF Clear
  <2>7. Progress' /\ Answers'
    BY <1>1, <1>8, <2>1, <2>4, <2>5, <2>6 DEF Progress, Answers
  <2>8. QED
    BY <1>1, <1>8, <2>7, QuietStep DEF PromiseInv, Running
<1>9. QED
  BY <1>5, <1>7, <1>8

\* The answers are written and read back.
LEMMA WriteStep ==
  ASSUME ChunkInv, PromiseInv, Write
  PROVE  PromiseInv' /\ Simulated
<1>1. /\ pc = "write" /\ pc' = "ok" /\ call' = call /\ CallSound /\ N \in Nat
      /\ out' = IF fn \in ListFns THEN ListVector ELSE FlatVector
      /\ Clear(1, N + 1) /\ Clear(2, N + 1) /\ Clear(3, N + 1)
      /\ \A k \in 1..N : rows[k] = Answer(k)
  BY DEF Write, ChunkInv, CallSound, PromiseInv, Progress, Answers
<1>2. ReadBack(out') = [k \in 1..N |-> rows[k]]
  <2>1. CASE fn \in ListFns
    <3>1. \A k \in 1..N : ListOrNull(rows[k])
      BY <1>1, <2>1, ListAnswers
    <3>2. QED
      BY <1>1, <2>1, <3>1, ListReadBack
  <2>2. CASE fn \notin ListFns
    BY <1>1, <2>2, FlatReadBack
  <2>3. QED
    BY <2>1, <2>2
<1>3. [k \in 1..N |-> rows[k]] = [k \in 1..N |-> Answer(k)]
  BY <1>1
<1>4. Promised = [rows |-> ReadBack(out')]
  BY <1>1, <1>2, <1>3, NoFault
<1>5. PromiseInv'
  BY <1>1 DEF PromiseInv, Progress, Answers
<1>6. Visible = Pending
  BY <1>1 DEF Visible
<1>7. Visible' = Promised
  <2>1. Visible' = [rows |-> ReadBack(out')]
    BY <1>1 DEF Visible, ReadBack
  <2>2. QED
    BY <1>4, <2>1
<1>8. QED
  BY <1>1, <1>5, <1>6, <1>7 DEF Simulated, Abstract!Return, Promised

\* A call starts with nothing answered.
LEMMA InitPromise == Init => PromiseInv /\ Abstract!Init
<1> SUFFICES ASSUME Init PROVE PromiseInv /\ Abstract!Init
  OBVIOUS
<1>1. ChunkInv
  BY InitChunk
<1>2. pc \in {"row", "open", "parse"} /\ i = 1 /\ Len(rows) = 0
  <2>1. fn \in RowFns \cup MetaFns \cup JobFns
    BY <1>1 DEF ChunkInv, CallSound
  <2>2. QED
    BY <2>1 DEF Init, fn
<1>3. PromiseInv
  <2>1. pc = "row" => fn \notin MetaFns
    BY OneWay DEF Init, fn
  <2>2. QED
    BY <1>2, <2>1, ClearFirst DEF PromiseInv, Progress, Answers
<1>4. Visible = Pending
  BY <1>2 DEF Visible
<1>5. QED
  BY <1>3, <1>4 DEF Abstract!Init

\* Every step keeps the invariant and is one of ScalarCall, or none.
LEMMA NextPromise == ChunkInv /\ PromiseInv /\ [Next]_vars => PromiseInv' /\ Simulated
<1> SUFFICES ASSUME ChunkInv, PromiseInv, [Next]_vars PROVE PromiseInv' /\ Simulated
  OBVIOUS
<1>0. CallSound /\ i \in 1..(N + 1) /\ N \in Nat
  BY DEF ChunkInv, TypeOK, CallSound
<1>1. CASE MetaOpen
  <2>1. i \in 1..N
    BY <1>0, <1>1 DEF MetaOpen
  <2>2. QED
    BY <1>1, <2>1, OpenFileStep DEF MetaOpen
<1>2. CASE MetaNext \/ MetaDone \/ RowsDone \/ ParseDone
  BY <1>2, LoopStep
<1>3. CASE RowNull
  <2>1. Answer(i) = Null /\ Job(i) = Null
    BY <1>3, NullAnswer DEF RowNull, Job
  <2>2. ~Faulty(3, i) /\ (fn \in RowFns => ~Faulty(2, i))
    BY <1>3, OneWay DEF RowNull, Faulty
  <2>3. QED
    BY <1>3, <2>1, <2>2, PushStep DEF RowNull
<1>4. CASE RowBad
  BY <1>4, BadStep
<1>5. CASE RowOpen
  <2>1. i \in 1..N /\ chunk[i].path # Null
    BY <1>0, <1>5, RunsHavePath DEF RowOpen
  <2>2. QED
    BY <1>5, <2>1, OpenFileStep DEF RowOpen
<1>6. CASE RowRead
  BY <1>6, ReadStep
<1>7. CASE ParseJob
  BY <1>7, PushStep DEF ParseJob, Job
<1>8. ASSUME NEW k \in 1..N, OpenCompletes(k) PROVE PromiseInv' /\ Simulated
  BY <1>8, StillStep, QuietStep DEF OpenCompletes, Running
<1>9. CASE OpensCollected
  BY <1>9, OpensStep
<1>10. ASSUME NEW k \in 1..N, RowCompletes(k) PROVE PromiseInv' /\ Simulated
  BY <1>10, RowCompletesStep
<1>11. CASE RowsCollected
  BY <1>11, RowsStep
<1>12. CASE Write
  BY <1>12, WriteStep
<1>13. CASE UNCHANGED vars
  <2>1. UNCHANGED <<call, pc, i, rows, done, out>>
    BY <1>13 DEF vars
  <2>2. Visible' = Visible
    BY <2>1 DEF Visible, ReadBack
  <2>3. QED
    BY <2>1, <2>2, StillStep DEF Simulated
<1>14. QED
  BY <1>1, <1>2, <1>3, <1>4, <1>5, <1>6, <1>7, <1>8, <1>9, <1>10, <1>11, <1>12, <1>13
     DEF Next, Step, Returned

\* A chunk returns, in one step that a query sees, what ScalarCall promises: the
\* answer of every row at its place, or the first error, in every order in which
\* opens and reads end.  That it returns is checked by TLC (Implements).
THEOREM ChunkImplementsCall == Spec => Abstract!SafeSpec
<1>1. ChunkInv /\ PromiseInv /\ [Next]_vars => ChunkInv' /\ PromiseInv' /\ Simulated
  BY NextChunk, NextPromise
<1>2. Init => ChunkInv /\ PromiseInv /\ Abstract!Init
  BY InitChunk, InitPromise
<1>3. QED
  BY <1>1, <1>2, PTL DEF Spec, Simulated, Abstract!SafeSpec

=============================================================================
