---------------------------- MODULE FetchAllProofs ----------------------------
(***************************************************************************)
(* fetch_all returns whole documents and refuses no small one, for every set *)
(* of document lengths.                                                      *)
(***************************************************************************)
EXTENDS FetchAll, TLAPS

\* The request lengths the loop goes through.
CapValues == {64 * KiB, 256 * KiB, MiB, 4 * MiB, 16 * MiB, 64 * MiB, 256 * MiB}

\* The answer is the prefix of its document that the current request asked
\* for, and the last word is given only on a request past the limit.
LoopInv ==
  /\ size \in Nat /\ of \in Nat /\ got \in Nat
  /\ cap \in CapValues
  /\ pc \in {"fetch", "judge", "ok", "source_error", "too_big"}
  /\ pc \in {"judge", "ok", "too_big"} => got = Least(cap, of)
  /\ pc = "ok" => got < cap
  /\ pc = "too_big" => got >= cap /\ cap > Limit

\* Every step of the loop keeps its invariant.
LEMMA LoopStep == LoopInv /\ [Next]_vars => LoopInv'
<1> SUFFICES ASSUME LoopInv, [Next]_vars PROVE LoopInv'
  OBVIOUS
<1> USE DEF KiB, MiB, Limit, CapValues
<1>1. CASE Replace
  BY <1>1, SizesAssumption DEF Replace, LoopInv
<1>2. CASE FetchOk
  <2>1. size \in Nat /\ cap \in Nat
    BY DEF LoopInv
  <2>2. Least(cap, size) \in Nat
    BY <2>1 DEF Least
  <2>3. QED
    BY <1>2, <2>2 DEF FetchOk, Clamped, LoopInv
<1>3. CASE FetchErr
  BY <1>3 DEF FetchErr, LoopInv
<1>4. CASE Judge
  <2>1. CASE Short(got)
    BY <1>4, <2>1 DEF Judge, Short, LoopInv
  <2>2. CASE ~Short(got) /\ PastLimit
    BY <1>4, <2>2 DEF Judge, Short, PastLimit, LoopInv
  <2>3. CASE ~Short(got) /\ ~PastLimit
    <3>1. cap' \in CapValues
      BY <1>4, <2>3 DEF Judge, PastLimit, NextCap, LoopInv
    <3>2. QED
      BY <1>4, <2>3, <3>1 DEF Judge, LoopInv
  <2>4. QED
    BY <2>1, <2>2, <2>3
<1>5. CASE UNCHANGED vars
  BY <1>5 DEF LoopInv, vars
<1>6. QED
  BY <1>1, <1>2, <1>3, <1>4, <1>5 DEF Next, Ended

\* The loop invariant holds throughout.
LEMMA LoopInvariant == Spec => []LoopInv
<1>1. Init => LoopInv
  BY SizesAssumption DEF Init, LoopInv, CapValues
<1>2. QED
  BY <1>1, LoopStep, PTL DEF Spec

\* fetch_all returns one whole document, whatever its length and however it
\* is replaced while it is read.
THEOREM ReturnsWhole == Spec => []WholeDocument
<1>1. LoopInv => WholeDocument
  BY DEF LoopInv, WholeDocument, Least, CapValues, KiB, MiB
<1>2. QED
  BY <1>1, LoopInvariant, PTL

\* A document is refused as too big only above 64 MiB.
THEOREM RefusesOnlyBig == Spec => []SmallAccepted
<1>1. LoopInv => SmallAccepted
  BY DEF LoopInv, SmallAccepted, Least, CapValues, Limit, KiB, MiB
<1>2. QED
  BY <1>1, LoopInvariant, PTL

\* However often fetch_all asks again, no request is for more than 256 MiB.
THEOREM RequestsAreCapped == Spec => []RequestsBounded
<1>1. LoopInv => RequestsBounded
  BY DEF LoopInv, RequestsBounded, CapValues, Limit, KiB, MiB
<1>2. QED
  BY <1>1, LoopInvariant, PTL

=============================================================================
