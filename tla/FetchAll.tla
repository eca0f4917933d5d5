------------------------------- MODULE FetchAll -------------------------------
(***************************************************************************)
(* Reading a whole document of unknown length: fetch_all over a ByteSource   *)
(* (crates/engine/src/source.rs), used by read_stac.  Each round asks for a  *)
(* longer prefix; a short answer means the end was reached.  The document    *)
(* may be replaced by another one between two rounds.                        *)
(***************************************************************************)
EXTENDS Integers

CONSTANT Sizes     \* lengths a document may have, in bytes

KiB == 1024
MiB == 1024 * KiB

\* Above this a document is refused, says the comment on fetch_all.
Limit == 64 * MiB

ASSUME SizesAssumption == Sizes \subseteq Nat

VARIABLES
  size,     \* length of the document on the server
  cap,      \* length of the prefix the next round asks for
  pc,       \* "fetch", "judge", or the outcome: "ok", "source_error", "too_big"
  got,      \* length of the answer
  of        \* length of the document that answer was cut from

vars == <<size, cap, pc, got, of>>

Least(a, b) == IF a < b THEN a ELSE b

\* fetch(0..end) of a file, and of an object store as the same contract demands
\* of it: an error at or after the end of the document, otherwise what there is
\* up to end.
InBounds(start) == start < size
Clamped(end) == Least(end, size)

Init ==
  /\ size \in Sizes
  /\ cap = 64 * KiB
  /\ pc = "fetch"
  /\ got = 0 /\ of = 0

\* Somebody replaces the document.
Replace ==
  /\ pc \in {"fetch", "judge"}
  /\ size' \in Sizes
  /\ UNCHANGED <<cap, pc, got, of>>

FetchOk ==
  /\ pc = "fetch"
  /\ InBounds(0)
  /\ got' = Clamped(cap) /\ of' = size
  /\ pc' = "judge"
  /\ UNCHANGED <<size, cap>>

\* The source fails, or the document is empty.
FetchErr ==
  /\ pc = "fetch"
  /\ pc' = "source_error"
  /\ UNCHANGED <<size, cap, got, of>>

\* Mutant: an answer as long as the request counts as short.
ShortOrFull(n) == n <= cap

\* The answer is shorter than the request.
Short(n) == n < cap

\* Mutants: the limit is tested on the next request, or on one too many.
NextPastLimit == cap * 4 > Limit
FarPastLimit == cap > 4 * Limit

\* The request was already longer than the limit.
PastLimit == cap > Limit

\* Mutant: the request does not grow.
SameCap == cap

\* Each round asks for four times as much.
NextCap == cap * 4

\* Accept the answer, give up, or ask for more.
Judge ==
  /\ pc = "judge"
  /\ \/ /\ Short(got)
        /\ pc' = "ok" /\ UNCHANGED cap
     \/ /\ ~Short(got) /\ PastLimit
        /\ pc' = "too_big" /\ UNCHANGED cap
     \/ /\ ~Short(got) /\ ~PastLimit
        /\ pc' = "fetch" /\ cap' = NextCap
  /\ UNCHANGED <<size, got, of>>

Ended == pc \in {"ok", "source_error", "too_big"} /\ UNCHANGED vars

Next == Replace \/ FetchOk \/ FetchErr \/ Judge \/ Ended

Spec == Init /\ [][Next]_vars

\* The source answers or fails, and the loop goes on.
FairSpec == Spec /\ WF_vars(FetchOk \/ FetchErr) /\ WF_vars(Judge)

-----------------------------------------------------------------------------
\* What fetch_all returns is one whole document: no prefix of one, and no mix
\* of two, even when the document is replaced between rounds or is exactly as
\* long as a request.
WholeDocument == pc = "ok" => got = of

\* A document of at most 64 MiB is never refused as too big.
SmallAccepted == pc = "too_big" => of > Limit

\* No request asks for more than 256 MiB.
RequestsBounded == cap <= 4 * Limit

\* fetch_all returns.
FetchEnds == <>(pc \in {"ok", "source_error", "too_big"})

=============================================================================
