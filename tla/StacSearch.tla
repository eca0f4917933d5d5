------------------------------ MODULE StacSearch ------------------------------
(***************************************************************************)
(* The paging loop of read_stac_search's bind (src/stac_search.rs) and the   *)
(* next-link rules of crates/engine/src/stac.rs, against a server that may   *)
(* fail, return empty pages, or never stop offering a next page.             *)
(***************************************************************************)
EXTENDS Integers, Sequences

CONSTANTS
  Servers,      \* [counts: rows of each page, endless: BOOLEAN]
  Caps,         \* max_rows values
  Fields,       \* fields of a request body (collections, bbox, token, ...)
  None

\* A next link: the method it names, whether it asks for a merge, and the
\* fields of its body.  A body that is no JSON object has no fields.
Links == [method : {"GET", "POST", None}, merge : BOOLEAN,
          fields : (SUBSET Fields) \cup {None}]

\* A request body gives each of its fields the page whose link the value is
\* from; values of the search itself, from build_search_body, are of page 0.
IsBody(b) == \E F \in SUBSET Fields : b \in [F -> Nat]

ASSUME StacAssumption ==
  /\ \A s \in Servers : /\ s.counts \in Seq(Nat) /\ s.counts # <<>>
                        /\ s.endless \in BOOLEAN
  /\ Caps \subseteq Nat \ {0}

ASSUME NoneAssumption ==
  /\ None \notin {"GET", "POST"}
  /\ \A F \in SUBSET Fields : None # F /\ None \notin [F -> Nat]

VARIABLES
  server,     \* the server this query talks to
  original,   \* the fields of the search body
  explicit,   \* explicit_cap: max_rows was given
  max_rows,
  pc,         \* "fetch", or how bind ended: "ok", "capped" or "failed"
  page,       \* the page the next request asks for
  link,       \* the next link that request follows
  method,     \* method and body of that request
  body,
  rows,       \* the rows collected, as <<page, index>>
  fetches     \* requests answered

vars == <<server, original, explicit, max_rows, pc, page, link, method, body,
          rows, fetches>>
query == <<server, original, explicit, max_rows>>
request == <<page, link, method, body>>

-----------------------------------------------------------------------------
\* The server.  An endless one repeats its pages for ever.

Count(p) ==
  server.counts[IF server.endless THEN ((p - 1) % Len(server.counts)) + 1 ELSE p]

HasNext(p) == server.endless \/ p < Len(server.counts)

PageRows(p) == [i \in 1..Count(p) |-> <<p, i>>]

-----------------------------------------------------------------------------
\* Mutant: a link without a method keeps none.
MethodUnset(l) == l.method

\* parse_stac_page: a link without a method is a GET.
MethodOf(l) == IF l.method = None THEN "GET" ELSE l.method

\* Mutant: a merge starts from the body of the previous request.
ApplyNextOnPrevious(l, p) ==
  IF l.fields = None THEN None
  ELSE IF l.merge /\ body # None
       THEN [f \in DOMAIN body \cup l.fields |-> IF f \in l.fields THEN p ELSE body[f]]
  ELSE [f \in l.fields |-> p]

\* apply_next for the link l of page p: a merge puts the fields of the link's
\* body over the search body; a body without merge is used alone; without a
\* body there is none.
ApplyNext(l, p) ==
  IF l.fields = None THEN None
  ELSE IF l.merge
       THEN [f \in original \cup l.fields |-> IF f \in l.fields THEN p ELSE 0]
  ELSE [f \in l.fields |-> p]

\* What fetch_page sends: a GET has no body, and a POST without one sends the
\* empty object.
Sent == IF method = "GET" \/ body = None THEN <<>> ELSE body

\* bind has checked its parameters and made the first request, or a parameter
\* was bad.
Init ==
  /\ server \in Servers
  /\ original \in SUBSET Fields
  /\ explicit \in BOOLEAN
  /\ max_rows \in Caps
  /\ pc \in {"fetch", "failed"}
  /\ page = 1
  /\ link = None
  /\ method = "POST"
  /\ body = [f \in original |-> 0]
  /\ rows = <<>>
  /\ fetches = 0

\* The request fails, or the answer is no FeatureCollection.
PageFails ==
  /\ pc = "fetch"
  /\ pc' = "failed"
  /\ UNCHANGED <<query, request, rows, fetches>>

\* rows.len() >= max_rows
CapReached(n) == n >= max_rows

\* Mutant: a next page is not counted as dropped rows.
OnlyExcess(n) == n > max_rows

\* Rows are dropped: more than max_rows are at hand or a next page exists.
Truncates(n) == n > max_rows \/ HasNext(page)

\* Mutant: one row too few is kept.
KeptShort(all) == SubSeq(all, 1, max_rows - 1)

\* rows.truncate(max_rows)
Kept(all) == SubSeq(all, 1, max_rows)

\* Mutant: empty pages are followed.
LastLink(p) == ~HasNext(p)

\* The loop ends after a page without a next link, or without rows.
LastPage(p) == ~HasNext(p) \/ Count(p) = 0

\* The page arrives and fills the cap: an error when rows would be dropped
\* and no cap was asked for, otherwise the first max_rows rows.
PageAtCap ==
  /\ pc = "fetch"
  /\ LET all == rows \o PageRows(page)
         truncated == Truncates(Len(all))
     IN /\ CapReached(Len(all))
        /\ \/ /\ truncated /\ ~explicit
              /\ pc' = "capped" /\ rows' = all
           \/ /\ ~truncated \/ explicit
              /\ pc' = "ok" /\ rows' = Kept(all)
  /\ fetches' = fetches + 1
  /\ UNCHANGED <<query, request>>

\* The page arrives below the cap and the loop ends with it.
PageEnds ==
  /\ pc = "fetch"
  /\ ~CapReached(Len(rows) + Count(page))
  /\ LastPage(page)
  /\ pc' = "ok"
  /\ rows' = rows \o PageRows(page)
  /\ fetches' = fetches + 1
  /\ UNCHANGED <<query, request>>

\* The page arrives below the cap and its next link, l, is followed.
PageFollows(l) ==
  /\ pc = "fetch"
  /\ ~CapReached(Len(rows) + Count(page))
  /\ ~LastPage(page)
  /\ rows' = rows \o PageRows(page)
  /\ page' = page + 1
  /\ link' = l
  /\ method' = MethodOf(l)
  /\ body' = ApplyNext(l, page)
  /\ fetches' = fetches + 1
  /\ UNCHANGED <<query, pc>>

Ended == pc # "fetch" /\ UNCHANGED vars

Next ==
  \/ PageFails \/ PageAtCap \/ PageEnds
  \/ \E l \in Links : PageFollows(l)
  \/ Ended

Spec == Init /\ [][Next]_vars

-----------------------------------------------------------------------------
\* Every variable keeps its type.
TypeOK ==
  /\ server \in Servers /\ original \in SUBSET Fields
  /\ explicit \in BOOLEAN /\ max_rows \in Caps
  /\ pc \in {"fetch", "ok", "capped", "failed"}
  /\ page \in Nat \ {0} /\ fetches \in Nat
  /\ method \in {"GET", "POST"}
  /\ link \in Links \cup {None} /\ (body = None \/ IsBody(body))
  /\ rows \in Seq((Nat \ {0}) \X (Nat \ {0}))

\* The rows of the pages read so far, and the order the server has them in.
Received == UNION {{p} \X (1..Count(p)) : p \in 1..fetches}
Before(a, b) == a[1] < b[1] \/ (a[1] = b[1] /\ a[2] < b[2])

\* Nothing is lost, repeated or reordered along the way: what is collected
\* is exactly the rows of the pages read so far, each once and in the
\* server's order, or the first max_rows of them when the caller gave a cap.
RowsInOrder ==
  LET kept == {rows[i] : i \in 1..Len(rows)} IN
    /\ \A i, j \in 1..Len(rows) : i < j => Before(rows[i], rows[j])
    /\ kept \subseteq Received
    /\ \/ kept = Received
       \/ /\ pc = "ok" /\ explicit /\ Len(rows) = max_rows
          /\ \A k \in kept, r \in Received \ kept : Before(k, r)

\* Without max_rows, bind returns Ok below the last page only if it stopped
\* at an empty page that offered a next one.
DropsAreExplicit ==
  pc = "ok" /\ ~explicit =>
    ~HasNext(fetches) \/ Count(fetches) = 0

\* bind ends: at most max_rows requests are sent, also when the server offers
\* next pages for ever or its pages are empty.
RequestBound == fetches <= max_rows

\* The body of a request for a later page holds nothing that links followed
\* earlier have added, everything its own link gave, and, when that asked for
\* a merge, the whole search.
SearchContinues ==
  page > 1 /\ method = "POST" /\ link.fields # None =>
    /\ \A f \in DOMAIN Sent : Sent[f] = page - 1 \/ (Sent[f] = 0 /\ link.merge)
    /\ \A f \in link.fields : f \in DOMAIN Sent /\ Sent[f] = page - 1
    /\ link.merge => original \subseteq DOMAIN Sent

\* Only an explicit max_rows lets a search return less than the server has.
NoSilentTruncation ==
  pc = "ok" /\ ~explicit => ~\E p \in fetches + 1..Len(server.counts) : Count(p) > 0

===============================================================================
