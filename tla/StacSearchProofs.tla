--------------------------- MODULE StacSearchProofs ---------------------------
(***************************************************************************)
(* Theorems about StacSearch for every set of servers (any number of pages,  *)
(* any number of rows on each, finite or endless), every next link of every  *)
(* page, every search body and every max_rows.                             *)
(***************************************************************************)
EXTENDS StacSearch, TLAPS

\* Where the loop stands: page is the next page to read, or the last one
\* that was read when bind ended; the server has it; every page that was
\* followed brought a row, the cap is not reached while the loop runs, and the
\* request is made from the link it follows.
Paging ==
  /\ pc \in {"fetch", "failed"} => fetches = page - 1
  /\ pc \in {"ok", "capped"} => fetches = page
  /\ server.endless \/ page <= Len(server.counts)
  /\ pc \in {"fetch", "failed"} => fetches <= Len(rows) /\ Len(rows) < max_rows
  /\ fetches <= max_rows
  /\ page > 1 => link \in Links /\ body = ApplyNext(link, page - 1)

\* The page an endless server repeats: a remainder is below its divisor.
LEMMA ModBound ==
  ASSUME NEW a \in Nat, NEW n \in Nat \ {0}
  PROVE  a % n \in 0..n - 1
OBVIOUS

\* What appending one sequence to another gives.
LEMMA ConcatProps ==
  ASSUME NEW S, NEW s \in Seq(S), NEW t \in Seq(S)
  PROVE  /\ s \o t \in Seq(S)
         /\ Len(s) \in Nat
         /\ Len(s \o t) = Len(s) + Len(t)
         /\ \A i \in 1..Len(s) : (s \o t)[i] = s[i]
         /\ \A i \in 1..Len(t) : (s \o t)[Len(s) + i] = t[i]
OBVIOUS

\* What Vec::truncate leaves of a sequence that is long enough.
LEMMA PrefixProps ==
  ASSUME NEW S, NEW s \in Seq(S), NEW m \in Nat, m <= Len(s)
  PROVE  /\ SubSeq(s, 1, m) \in Seq(S)
         /\ Len(SubSeq(s, 1, m)) = m
         /\ \A i \in 1..m : SubSeq(s, 1, m)[i] = s[i]
OBVIOUS

\* A page the server has holds a number of rows.
LEMMA CountType ==
  ASSUME server \in Servers, NEW p \in Nat \ {0},
         server.endless \/ p <= Len(server.counts)
  PROVE  Count(p) \in Nat
<1> DEFINE n == Len(server.counts)
<1>1. server.counts \in Seq(Nat) /\ n \in Nat \ {0}
  BY StacAssumption
<1>2. (p - 1) % n \in 0..n - 1
  <2>1. p - 1 \in Nat
    OBVIOUS
  <2> HIDE DEF n
  <2>2. QED
    BY <1>1, <2>1, ModBound
<1>3. QED
  BY <1>1, <1>2 DEF Count

\* The rows of a page, in the server's order.
LEMMA PageRowsSeq ==
  ASSUME NEW p \in Nat \ {0}, Count(p) \in Nat
  PROVE  /\ PageRows(p) \in Seq((Nat \ {0}) \X (Nat \ {0}))
         /\ Len(PageRows(p)) = Count(p)
         /\ \A i \in 1..Count(p) : PageRows(p)[i] = <<p, i>>
<1>1. PageRows(p) = [i \in 1..Count(p) |-> <<p, i>>]
  BY DEF PageRows
<1>2. \A i \in 1..Count(p) : <<p, i>> \in (Nat \ {0}) \X (Nat \ {0})
  OBVIOUS
<1>3. QED
  BY <1>1, <1>2

\* What is at hand when the page has arrived.
LEMMA Arrived ==
  ASSUME TypeOK, Paging
  PROVE  LET all == rows \o PageRows(page) IN
           /\ Count(page) \in Nat
           /\ all \in Seq((Nat \ {0}) \X (Nat \ {0}))
           /\ Len(all) = Len(rows) + Count(page) /\ Len(rows) \in Nat
           /\ \A i \in 1..Len(rows) : all[i] = rows[i]
           /\ \A i \in 1..Count(page) : all[Len(rows) + i] = <<page, i>>
<1>1. Count(page) \in Nat
  BY CountType DEF TypeOK, Paging
<1>2. /\ PageRows(page) \in Seq((Nat \ {0}) \X (Nat \ {0}))
      /\ Len(PageRows(page)) = Count(page)
      /\ \A i \in 1..Count(page) : PageRows(page)[i] = <<page, i>>
  BY <1>1, PageRowsSeq DEF TypeOK
<1>3. rows \in Seq((Nat \ {0}) \X (Nat \ {0}))
  BY DEF TypeOK
<1> DEFINE t == PageRows(page)
           S == (Nat \ {0}) \X (Nat \ {0})
<1> HIDE DEF t, S
<1>4. t \in Seq(S) /\ rows \in Seq(S)
  BY <1>2, <1>3 DEF t, S
<1>5. /\ rows \o t \in Seq(S)
      /\ Len(rows) \in Nat
      /\ Len(rows \o t) = Len(rows) + Len(t)
      /\ \A i \in 1..Len(rows) : (rows \o t)[i] = rows[i]
      /\ \A i \in 1..Len(t) : (rows \o t)[Len(rows) + i] = t[i]
  BY <1>4, ConcatProps
<1>6. QED
  BY <1>1, <1>2, <1>5 DEF t, S

\* A search starts with the right types, before its first page.
LEMMA InitPaging == Init => TypeOK /\ Paging
<1> SUFFICES ASSUME Init PROVE TypeOK /\ Paging
  OBVIOUS
<1>1. Len(server.counts) \in Nat \ {0}
  BY StacAssumption DEF Init
<1>2. max_rows \in Nat \ {0}
  BY StacAssumption DEF Init
<1>3. original \in SUBSET Fields /\ body \in [original -> Nat]
  BY DEF Init
<1>4. TypeOK
  <2>1. IsBody(body)
    BY <1>3 DEF IsBody
  <2>2. rows \in Seq((Nat \ {0}) \X (Nat \ {0}))
    BY DEF Init
  <2>3. QED
    BY <1>3, <2>1, <2>2 DEF Init, TypeOK
<1>5. Paging
  BY <1>1, <1>2 DEF Init, Paging
<1>6. QED
  BY <1>4, <1>5

\* What apply_next makes is a body, or none.
LEMMA NextBody ==
  ASSUME original \in SUBSET Fields, NEW l \in Links, NEW p \in Nat
  PROVE  ApplyNext(l, p) = None \/ IsBody(ApplyNext(l, p))
<1>1. l.fields = None \/ l.fields \in SUBSET Fields
  BY DEF Links
<1>2. CASE l.fields = None
  BY <1>2 DEF ApplyNext
<1>3. CASE l.fields # None /\ l.merge
  <2>1. ApplyNext(l, p) \in [original \cup l.fields -> Nat]
    BY <1>3 DEF ApplyNext
  <2>2. QED
    BY <1>1, <1>3, <2>1 DEF IsBody
<1>4. CASE l.fields # None /\ ~l.merge
  <2>1. ApplyNext(l, p) \in [l.fields -> Nat]
    BY <1>4 DEF ApplyNext
  <2>2. QED
    BY <1>1, <1>4, <2>1 DEF IsBody
<1>5. QED
  BY <1>2, <1>3, <1>4

\* Every step keeps the types and the loop's place.
LEMMA NextPaging == TypeOK /\ Paging /\ [Next]_vars => TypeOK' /\ Paging'
<1> SUFFICES ASSUME TypeOK, Paging, [Next]_vars
             PROVE  TypeOK' /\ Paging'
  OBVIOUS
<1> DEFINE all == rows \o PageRows(page)
<1>0. /\ Count(page) \in Nat /\ all \in Seq((Nat \ {0}) \X (Nat \ {0}))
      /\ Len(all) = Len(rows) + Count(page) /\ Len(rows) \in Nat
  BY Arrived
<1>1. /\ max_rows \in Nat \ {0} /\ Len(server.counts) \in Nat
      /\ page \in Nat \ {0} /\ fetches \in Nat
  BY StacAssumption DEF TypeOK
<1> HIDE DEF all
<1>2. CASE PageFails
  <2>1. /\ pc = "fetch" /\ pc' = "failed"
        /\ UNCHANGED <<query, request, rows, fetches>>
    BY <1>2 DEF PageFails
  <2>2. TypeOK'
    BY <2>1 DEF TypeOK, query, request, IsBody
  <2>3. Paging'
    BY <2>1 DEF Paging, query, request, ApplyNext
  <2>4. QED
    BY <2>2, <2>3
<1>3. CASE PageAtCap
  <2>1. /\ pc = "fetch" /\ Len(all) >= max_rows
        /\ \/ pc' = "capped" /\ rows' = all
           \/ pc' = "ok" /\ rows' = SubSeq(all, 1, max_rows)
        /\ fetches' = fetches + 1
        /\ UNCHANGED <<query, request>>
    BY <1>3 DEF PageAtCap, CapReached, Kept, all
  <2>2. SubSeq(all, 1, max_rows) \in Seq((Nat \ {0}) \X (Nat \ {0}))
    BY <1>0, <1>1, <2>1, PrefixProps
  <2>3. TypeOK'
    <3>1. rows' \in Seq((Nat \ {0}) \X (Nat \ {0}))
      BY <1>0, <2>1, <2>2
    <3>2. pc' \in {"fetch", "ok", "capped", "failed"} /\ fetches' \in Nat
      BY <1>1, <2>1
    <3>3. UNCHANGED <<server, original, explicit, max_rows, page, link, method, body>>
      BY <2>1 DEF query, request
    <3>4. QED
      BY <3>1, <3>2, <3>3 DEF TypeOK, IsBody
  <2>4. Paging'
    BY <1>1, <2>1 DEF Paging, query, request, ApplyNext
  <2>5. QED
    BY <2>3, <2>4
<1>4. CASE PageEnds
  <2>1. /\ pc = "fetch" /\ pc' = "ok" /\ rows' = all /\ fetches' = fetches + 1
        /\ UNCHANGED <<query, request>>
    BY <1>4 DEF PageEnds, all
  <2>2. TypeOK'
    BY <1>0, <1>1, <2>1 DEF TypeOK, query, request, IsBody
  <2>3. Paging'
    BY <1>0, <1>1, <2>1 DEF Paging, query, request, ApplyNext
  <2>4. QED
    BY <2>2, <2>3
<1>5. ASSUME NEW l \in Links, PageFollows(l)
      PROVE  TypeOK' /\ Paging'
  <2>1. /\ pc = "fetch" /\ pc' = "fetch" /\ rows' = all /\ fetches' = fetches + 1
        /\ page' = page + 1 /\ UNCHANGED <<server, original, explicit, max_rows>>
        /\ ~(Len(rows) + Count(page) >= max_rows)
        /\ HasNext(page) /\ Count(page) # 0
        /\ link' = l /\ method' = MethodOf(l) /\ body' = ApplyNext(l, page)
    BY <1>5 DEF PageFollows, CapReached, LastPage, all, query
  <2>2. method' \in {"GET", "POST"}
    BY <1>5, <2>1 DEF MethodOf, Links
  <2>3. body' = None \/ IsBody(body')
    BY <1>1, <1>5, <2>1, NextBody DEF TypeOK
  <2>4. TypeOK'
    BY <1>0, <1>1, <1>5, <2>1, <2>2, <2>3 DEF TypeOK, IsBody
  <2>5. server.endless \/ page + 1 <= Len(server.counts)
    BY <1>1, <2>1 DEF HasNext
  <2>6. Paging'
    <3>1. server.endless' \/ page' <= Len(server.counts)'
      BY <2>1, <2>5
    <3>2. (link \in Links /\ body = ApplyNext(link, page - 1))'
      <4>1. page' - 1 = page
        BY <1>1, <2>1
      <4>2. QED
        BY <1>5, <2>1, <4>1 DEF ApplyNext
    <3>3. fetches' = page' - 1 /\ fetches' <= Len(rows') /\ Len(rows') < max_rows'
          /\ fetches' <= max_rows'
      BY <1>0, <1>1, <2>1 DEF Paging
    <3>4. QED
      BY <2>1, <3>1, <3>2, <3>3 DEF Paging
  <2>7. QED
    BY <2>4, <2>6
<1>6. CASE UNCHANGED vars
  BY <1>6 DEF vars, TypeOK, IsBody, Paging, ApplyNext
<1>7. QED
  BY <1>2, <1>3, <1>4, <1>5, <1>6 DEF Next, Ended

\* Types, and the place of the loop: page is the next page to read, the
\* server has it, and each page that was followed brought a row.
THEOREM TypeCorrect == Spec => [](TypeOK /\ Paging)
<1>1. QED
  BY InitPaging, NextPaging, PTL DEF Spec

\* bind sends at most max_rows requests, also to a server that offers next
\* pages for ever or whose pages are empty: every page that is followed has
\* brought a row, and an empty one ends the loop.
THEOREM RequestsAreBounded == Spec => []RequestBound
<1>1. Paging => RequestBound
  BY DEF Paging, RequestBound
<1>2. QED
  BY <1>1, TypeCorrect, PTL

\* Whatever links were followed before, the body of a request is made of the
\* original search and the link it follows: nothing stale is in it, the link's
\* own fields are, and after a merge the whole search is.
THEOREM BodyContinues == Spec => []SearchContinues
<1>1. TypeOK /\ Paging => SearchContinues
  <2> SUFFICES ASSUME TypeOK, Paging, page > 1, method = "POST", link.fields # None
               PROVE  /\ \A f \in DOMAIN Sent :
                           Sent[f] = page - 1 \/ (Sent[f] = 0 /\ link.merge)
                      /\ \A f \in link.fields : f \in DOMAIN Sent /\ Sent[f] = page - 1
                      /\ link.merge => original \subseteq DOMAIN Sent
    BY DEF SearchContinues
  <2>1. link \in Links /\ body = ApplyNext(link, page - 1)
    BY DEF Paging
  <2>a. link.fields \in SUBSET Fields
    <3>1. link.fields \in (SUBSET Fields) \cup {None}
      BY <2>1 DEF Links
    <3>2. QED
      BY <3>1
  <2>b. original \in SUBSET Fields /\ page - 1 \in Nat
    BY DEF TypeOK
  <2>2. CASE link.merge
    <3>1. ApplyNext(link, page - 1) =
            [f \in original \cup link.fields |-> IF f \in link.fields THEN page - 1 ELSE 0]
      BY <2>2 DEF ApplyNext
    <3>2. body # None
      <4>1. body \in [original \cup link.fields -> Nat]
        <5>1. \A f \in original \cup link.fields :
                (IF f \in link.fields THEN page - 1 ELSE 0) \in Nat
          BY <2>b
        <5>2. QED
          BY <2>1, <3>1, <5>1
      <4>2. original \cup link.fields \in SUBSET Fields
        BY <2>a, <2>b
      <4>3. QED
        BY <4>1, <4>2, NoneAssumption
    <3>3. Sent = body
      BY <3>2 DEF Sent
    <3>4. QED
      BY <2>1, <2>2, <3>1, <3>3
  <2>3. CASE ~link.merge
    <3>1. ApplyNext(link, page - 1) = [f \in link.fields |-> page - 1]
      BY <2>3 DEF ApplyNext
    <3>2. body # None
      <4>1. body \in [link.fields -> Nat]
        BY <2>1, <2>b, <3>1
      <4>2. QED
        BY <2>a, <4>1, NoneAssumption
    <3>3. Sent = body
      BY <3>2 DEF Sent
    <3>4. QED
      BY <2>1, <2>3, <3>1, <3>3
  <2>4. QED
    BY <2>2, <2>3
<1>2. QED
  BY <1>1, TypeCorrect, PTL

\* Every step keeps DropsAreExplicit.
LEMMA NextDrops ==
  TypeOK /\ Paging /\ DropsAreExplicit /\ [Next]_vars => DropsAreExplicit'
<1> SUFFICES ASSUME TypeOK, Paging, DropsAreExplicit, [Next]_vars
             PROVE  DropsAreExplicit'
  OBVIOUS
<1> DEFINE all == rows \o PageRows(page)
<1>0. /\ Len(all) \in Nat /\ max_rows \in Nat /\ page \in Nat /\ fetches \in Nat
  BY Arrived, StacAssumption DEF TypeOK
<1> HIDE DEF all
<1>1. pc = "fetch" => fetches + 1 = page
  BY <1>0 DEF Paging
<1>2. CASE PageFails
  BY <1>2 DEF PageFails, DropsAreExplicit
<1>3. CASE PageAtCap
  <2>1. /\ pc = "fetch" /\ server' = server /\ explicit' = explicit
        /\ fetches' = page
        /\ pc' = "ok" /\ ~explicit => ~Truncates(Len(all))
    BY <1>1, <1>3 DEF PageAtCap, all, query
  <2>2. pc' = "ok" /\ ~explicit => ~HasNext(page)
    BY <2>1 DEF Truncates
  <2>3. QED
    BY <2>1, <2>2 DEF DropsAreExplicit, HasNext
<1>4. CASE PageEnds
  <2>1. /\ server' = server /\ fetches' = page
        /\ ~HasNext(page) \/ Count(page) = 0
    BY <1>1, <1>4 DEF PageEnds, LastPage, query
  <2>2. QED
    BY <2>1 DEF DropsAreExplicit, HasNext, Count
<1>5. ASSUME NEW l \in Links, PageFollows(l)
      PROVE  DropsAreExplicit'
  BY <1>5 DEF PageFollows, DropsAreExplicit
<1>6. CASE UNCHANGED vars
  BY <1>6 DEF vars, DropsAreExplicit, HasNext, Count
<1>7. QED
  BY <1>2, <1>3, <1>4, <1>5, <1>6 DEF Next, Ended

\* Without max_rows, read_stac_search returns Ok before the last page only
\* when it stopped at an empty page that offered a next one: the cap never
\* drops rows, or pages, silently.
THEOREM DropsExplicit == Spec => []DropsAreExplicit
<1>1. Init => DropsAreExplicit
  BY DEF Init, DropsAreExplicit
<1>2. QED
  BY <1>1, NextDrops, TypeCorrect, PTL DEF Spec

-----------------------------------------------------------------------------
\* What a sequence of rows holds, and that it is in the server's order.
Elems(s) == {s[i] : i \in 1..Len(s)}
Ordered(s) == \A i, j \in 1..Len(s) : i < j => Before(s[i], s[j])

\* The rows of page p.
RowsOf(p) == {p} \X (1..Count(p))

\* One more page has been read.
LEMMA ReceivedMore ==
  ASSUME fetches \in Nat, fetches' = fetches + 1, server' = server
  PROVE  Received' = Received \cup RowsOf(fetches + 1)
<1>1. \A p : Count(p)' = Count(p)
  BY DEF Count
<1>2. Received' = UNION {RowsOf(p) : p \in 1..fetches + 1}
  BY <1>1 DEF Received, RowsOf
<1>3. Received = UNION {RowsOf(p) : p \in 1..fetches}
  BY DEF Received, RowsOf
<1>4. 1..fetches + 1 = (1..fetches) \cup {fetches + 1}
  OBVIOUS
<1> HIDE DEF Received, RowsOf
<1>5. ASSUME NEW r PROVE r \in Received' <=> r \in Received \cup RowsOf(fetches + 1)
  <2>1. r \in Received' <=> \E p \in 1..fetches + 1 : r \in RowsOf(p)
    BY <1>2
  <2>2. r \in Received <=> \E p \in 1..fetches : r \in RowsOf(p)
    BY <1>3
  <2>3. QED
    BY <1>4, <2>1, <2>2
<1>6. QED
  BY <1>5

\* Received depends on the server and the number of pages read alone.
LEMMA ReceivedSame ==
  ASSUME UNCHANGED <<fetches, server>>
  PROVE  Received' = Received
BY DEF Received, Count

\* While the loop runs the rows of the pages read are all there; the page
\* that arrives goes behind them, in order.
LEMMA AppendInOrder ==
  ASSUME TypeOK, Paging, RowsInOrder, pc = "fetch"
  PROVE  LET all == rows \o PageRows(page) IN
           /\ Ordered(all)
           /\ Elems(all) = Received \cup RowsOf(page)
<1> DEFINE all == rows \o PageRows(page)
           n == Len(rows)
           m == Count(page)
<1>1. /\ m \in Nat /\ n \in Nat /\ page \in Nat \ {0}
      /\ Len(all) = n + m
  BY Arrived DEF TypeOK
<1>a. \A i \in 1..n : all[i] = rows[i]
  BY Arrived
<1>b. \A i \in 1..m : all[n + i] = <<page, i>>
  BY Arrived
<1>2. /\ Elems(rows) = Received
      /\ Ordered(rows)
  BY DEF RowsInOrder, Elems, Ordered
<1>3. \A i \in 1..n : rows[i][1] \in Nat /\ rows[i][1] < page
  <2> TAKE i \in 1..n
  <2>1. rows[i] \in Received
    BY <1>2 DEF Elems
  <2>2. PICK p \in 1..fetches : rows[i] \in {p} \X (1..Count(p))
    BY <2>1 DEF Received
  <2>3. fetches = page - 1
    BY DEF Paging
  <2>4. rows[i][1] = p
    BY <2>2
  <2>5. QED
    BY <1>1, <2>3, <2>4
<1> HIDE DEF all, n, m
<1>4. \A i \in 1..n + m : \/ i \in 1..n /\ all[i] = rows[i]
                          \/ i > n /\ i - n \in 1..m /\ all[i] = <<page, i - n>>
  <2> TAKE i \in 1..n + m
  <2>1. CASE i <= n
    <3>1. i \in 1..n
      BY <1>1, <2>1
    <3>2. QED
      BY <1>a, <3>1
  <2>2. CASE i > n
    <3>1. i - n \in 1..m /\ n + (i - n) = i
      BY <1>1, <2>2
    <3>2. all[i] = <<page, i - n>>
      BY <1>b, <3>1
    <3>3. QED
      BY <2>2, <3>1, <3>2
  <2>3. QED
    BY <1>1, <2>1, <2>2
<1>5. Ordered(all)
  <2> SUFFICES ASSUME NEW i \in 1..n + m, NEW j \in 1..n + m, i < j
               PROVE  Before(all[i], all[j])
    BY <1>1 DEF Ordered
  <2>1. CASE j \in 1..n
    <3>1. i \in 1..n
      BY <1>1, <2>1
    <3>2. Before(rows[i], rows[j])
      BY <1>2, <2>1, <3>1 DEF Ordered, n
    <3>3. QED
      BY <1>a, <2>1, <3>1, <3>2
  <2>2. CASE j > n /\ all[j] = <<page, j - n>>
    <3>1. CASE i \in 1..n /\ all[i] = rows[i]
      BY <1>1, <1>3, <2>2, <3>1 DEF Before
    <3>2. CASE i > n /\ all[i] = <<page, i - n>>
      BY <1>1, <2>2, <3>2 DEF Before
    <3>3. QED
      BY <1>4, <3>1, <3>2
  <2>3. QED
    BY <1>4, <2>1, <2>2
<1>6. Elems(all) = Received \cup RowsOf(page)
  <2>1. ASSUME NEW r \in Elems(all) PROVE r \in Received \cup RowsOf(page)
    <3>1. PICK i \in 1..n + m : r = all[i]
      BY <1>1, <2>1 DEF Elems
    <3>2. CASE i \in 1..n /\ all[i] = rows[i]
      BY <1>2, <3>1, <3>2 DEF Elems, n
    <3>3. CASE i - n \in 1..m /\ all[i] = <<page, i - n>>
      BY <3>1, <3>3 DEF RowsOf, m
    <3>4. QED
      BY <1>4, <3>2, <3>3
  <2>2. ASSUME NEW r \in Received PROVE r \in Elems(all)
    <3>1. PICK i \in 1..n : r = rows[i]
      BY <1>2, <2>2 DEF Elems, n
    <3>2. i \in 1..n + m
      BY <1>1
    <3>3. QED
      BY <1>1, <1>a, <3>1, <3>2 DEF Elems
  <2>3. ASSUME NEW r \in RowsOf(page) PROVE r \in Elems(all)
    <3>1. PICK i \in 1..m : r = <<page, i>>
      BY <2>3 DEF RowsOf, m
    <3>2. n + i \in 1..n + m
      BY <1>1
    <3>3. QED
      BY <1>1, <1>b, <3>1, <3>2 DEF Elems
  <2>4. QED
    BY <2>1, <2>2, <2>3
<1>7. QED
  BY <1>5, <1>6 DEF all

\* Every step keeps RowsInOrder.
LEMMA NextInOrder ==
  TypeOK /\ Paging /\ RowsInOrder /\ [Next]_vars => RowsInOrder'
<1> SUFFICES ASSUME TypeOK, Paging, RowsInOrder, [Next]_vars
             PROVE  RowsInOrder'
  OBVIOUS
<1> DEFINE all == rows \o PageRows(page)
<1>0. /\ all \in Seq((Nat \ {0}) \X (Nat \ {0})) /\ Len(all) \in Nat
      /\ max_rows \in Nat /\ page \in Nat /\ fetches \in Nat
  BY Arrived, StacAssumption DEF TypeOK
<1>1. pc = "fetch" => /\ Ordered(all)
                      /\ Elems(all) = Received \cup RowsOf(page)
  BY AppendInOrder
<1>2. pc = "fetch" => fetches + 1 = page
  BY <1>0 DEF Paging
<1> HIDE DEF all
<1>3. ASSUME pc = "fetch", fetches' = fetches + 1, server' = server
      PROVE  Elems(all) = Received'
  BY <1>0, <1>1, <1>2, <1>3, ReceivedMore
<1>4. ASSUME pc = "fetch", fetches' = fetches + 1, server' = server, rows' = all
      PROVE  RowsInOrder'
  BY <1>1, <1>3, <1>4 DEF RowsInOrder, Elems, Ordered
<1>5. CASE PageFails
  <2>1. Received' = Received /\ rows' = rows /\ pc # "ok"
    BY <1>5, ReceivedSame DEF PageFails, query
  <2>2. QED
    BY <2>1 DEF RowsInOrder
<1>6. CASE PageAtCap
  <2>1. /\ pc = "fetch" /\ fetches' = fetches + 1
        /\ UNCHANGED <<server, explicit, max_rows>>
        /\ Len(all) >= max_rows
        /\ \/ rows' = all
           \/ /\ pc' = "ok" /\ rows' = SubSeq(all, 1, max_rows)
              /\ ~Truncates(Len(all)) \/ explicit
    BY <1>6 DEF PageAtCap, CapReached, Kept, all, query
  <2>2. CASE rows' = all
    BY <1>4, <2>1, <2>2
  <2>3. CASE /\ pc' = "ok" /\ rows' = SubSeq(all, 1, max_rows)
             /\ ~Truncates(Len(all)) \/ explicit
    <3>1. /\ Len(rows') = max_rows
          /\ \A i \in 1..max_rows : rows'[i] = all[i]
      BY <1>0, <2>1, <2>3, PrefixProps
    <3>2. /\ Ordered(all) /\ Elems(all) = Received'
      BY <1>1, <1>3, <2>1
    <3>3. Ordered(rows') /\ Elems(rows') \subseteq Elems(all)
      <4>1. \A i \in 1..max_rows : i \in 1..Len(all)
        BY <1>0, <2>1
      <4>2. \A i, j \in 1..max_rows : i < j => Before(rows'[i], rows'[j])
        BY <3>1, <3>2, <4>1 DEF Ordered
      <4>3. \A i \in 1..max_rows : rows'[i] \in Elems(all)
        BY <3>1, <4>1 DEF Elems
      <4>4. QED
        BY <3>1, <4>2, <4>3 DEF Ordered, Elems
    <3>4. CASE Len(all) = max_rows
      <4>1. Elems(rows') = Elems(all)
        BY <3>1, <3>4 DEF Elems
      <4>2. QED
        BY <3>2, <3>3, <4>1 DEF RowsInOrder, Elems, Ordered
    <3>5. CASE Len(all) > max_rows
      <4>1. explicit'
        BY <2>1, <2>3, <3>5 DEF Truncates
      <4>2. ASSUME NEW k \in Elems(rows'), NEW r \in Elems(all) \ Elems(rows')
            PROVE  Before(k, r)
        <5>1. PICK i \in 1..max_rows : k = all[i]
          BY <3>1, <4>2 DEF Elems
        <5>2. PICK j \in 1..Len(all) : r = all[j]
          BY <4>2 DEF Elems
        <5>3. ~(j \in 1..max_rows)
          BY <3>1, <4>2, <5>2 DEF Elems
        <5>4. i \in 1..Len(all) /\ i < j
          BY <1>0, <3>5, <5>3
        <5>5. QED
          BY <3>2, <5>1, <5>2, <5>4 DEF Ordered
      <4>3. QED
        BY <2>1, <2>3, <3>1, <3>2, <3>3, <4>1, <4>2 DEF RowsInOrder, Elems, Ordered
    <3>6. QED
      BY <1>0, <2>1, <3>4, <3>5
  <2>4. QED
    BY <2>1, <2>2, <2>3
<1>7. CASE PageEnds
  BY <1>4, <1>7 DEF PageEnds, all, query
<1>8. ASSUME NEW l \in Links, PageFollows(l)
      PROVE  RowsInOrder'
  BY <1>4, <1>8 DEF PageFollows, all, query
<1>9. CASE UNCHANGED vars
  <2>1. Received' = Received
    BY <1>9, ReceivedSame DEF vars
  <2>2. QED
    BY <1>9, <2>1 DEF vars, RowsInOrder
<1>10. QED
  BY <1>5, <1>6, <1>7, <1>8, <1>9 DEF Next, Ended

\* Paging loses, repeats and reorders nothing: the rows collected are those
\* of the pages read, each once and in the server's order, or the first
\* max_rows of them when the caller gave that cap.
THEOREM RowsCorrect == Spec => []RowsInOrder
<1>1. Init => RowsInOrder
  <2> SUFFICES ASSUME Init PROVE RowsInOrder
    OBVIOUS
  <2>1. Len(rows) = 0 /\ fetches = 0
    BY DEF Init
  <2>2. Received = {}
    <3>1. 1..fetches = {}
      BY <2>1
    <3>2. QED
      BY <3>1, Zenon DEF Received
  <2>3. QED
    BY <2>1, <2>2 DEF RowsInOrder
<1>2. QED
  BY <1>1, NextInOrder, TypeCorrect, PTL DEF Spec

=============================================================================
