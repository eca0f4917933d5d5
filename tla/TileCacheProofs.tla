--------------------------- MODULE TileCacheProofs ---------------------------
(***************************************************************************)
(* Theorems about TileCache for every set of workers, threads and keys,      *)
(* every tile size and budget, every list of requests and both builds        *)
(* (Wasm): the byte budget, what fetch_decoded returns, single flight, that  *)
(* no wakeup is lost, the order of eviction, and that the native build       *)
(* implements TileStore.                                                     *)
(***************************************************************************)
EXTENDS TileCache, FiniteSetTheorems, TLAPS

\* What the index arithmetic of fetch_decoded relies on: positions recorded
\* as misses lie inside the request, a call that is claiming has a key left
\* to claim, and a call that fetches or settles has judged all its keys.
FramesOK ==
  \A w \in Workers :
    /\ mi[w] >= 1
    /\ \A j \in 1..Len(missed[w]) : missed[w][j] \in 1..Len(req[w])
    /\ pc[w] \in {"claim", "wait"} => Len(out[w]) < Len(req[w])
    /\ pc[w] \in {"fetch", "settle", "abort"} => Len(out[w]) = Len(req[w])

\* A settled position names a key of the request.
LEMMA SettledKey ==
  ASSUME TypeOK, FramesOK, NEW w \in Workers, mi[w] <= Len(missed[w])
  PROVE  /\ missed[w][mi[w]] \in 1..Len(req[w])
         /\ req[w][missed[w][mi[w]]] \in Keys
<1>1. mi[w] \in 1..Len(missed[w])
  BY DEF TypeOK, FramesOK
<1>2. missed[w][mi[w]] \in 1..Len(req[w])
  BY <1>1 DEF FramesOK
<1>3. req[w] \in Seq(Keys)
  BY DEF TypeOK
<1>4. QED
  BY <1>2, <1>3

\* A claiming or waiting call claims a key of its request.
LEMMA ClaimingKey ==
  ASSUME TypeOK, FramesOK, NEW w \in Workers, pc[w] \in {"claim", "wait"}
  PROVE  /\ Claiming(w) \in Keys
         /\ Len(out[w]) + 1 \in 1..Len(req[w])
<1>1. req[w] \in Seq(Keys) /\ out[w] \in Seq(Keys \cup {NoTile})
  BY DEF TypeOK
<1>2. Len(out[w]) < Len(req[w]) /\ Len(out[w]) \in Nat /\ Len(req[w]) \in Nat
  BY <1>1 DEF FramesOK
<1>3. QED
  BY <1>1, <1>2 DEF Claiming

\* The slots the actions write are slots.
LEMMA SlotTypes ==
  /\ Vacant \in Slot
  /\ \A s \in Nat : Pending(s) \in Slot
  /\ \A a \in Keys, t \in Nat : Ready(a, t) \in Slot
BY DEF Slot, Vacant, Pending, Ready

\* A Pending slot carries a signal, and a Ready slot an array and a stamp.
LEMMA SlotFields ==
  ASSUME NEW s \in Slot
  PROVE  /\ s.slot \in {"None", "Pending", "Ready"}
         /\ s.slot = "Pending" => s.sig \in Nat /\ s = Pending(s.sig)
         /\ s.slot = "Ready" => /\ s.arr \in Keys /\ s.last_used \in Nat
                                /\ s = Ready(s.arr, s.last_used)
         /\ s.slot = "None" => s = Vacant
BY DEF Slot, Vacant, Pending, Ready

\* Overwriting an element of a sequence leaves a sequence of the same length.
LEMMA ExceptSeq ==
  ASSUME NEW S, NEW s \in Seq(S), NEW i \in 1..Len(s), NEW e \in S
  PROVE  /\ [s EXCEPT ![i] = e] \in Seq(S)
         /\ Len([s EXCEPT ![i] = e]) = Len(s)
         /\ \A j \in 1..Len(s) : [s EXCEPT ![i] = e][j] = IF j = i THEN e ELSE s[j]
OBVIOUS

\* SignalOf yields a signal or none.
LEMMA SignalType ==
  ASSUME NEW s \in Slot
  PROVE  SignalOf(s) \in Nat
BY SlotFields DEF SignalOf, NoSig

\* What fulfill does to the map and to used, for the set E it evicts.
Publishes(w, k, E) ==
  LET inserted == [map EXCEPT ![k] = Ready(k, tick + 1)]
  IN /\ E \in SUBSET ReadyIn(inserted)
     /\ Evicts(inserted, Charge(k), E)
     /\ map' = [j \in Keys |-> IF j \in E THEN Vacant ELSE inserted[j]]
     /\ used' = Charge(k) - Weight[E]
     /\ evictions' = evictions + Cardinality(E)

\* fulfill publishes one key of the request and evicts a set of keys.
LEMMA FulfillPublishes ==
  ASSUME TypeOK, FramesOK, NEW w \in Workers, Fulfill(w)
  PROVE  LET k == req[w][missed[w][mi[w]]] IN
           k \in Keys /\ \E E \in SUBSET Keys : Publishes(w, k, E)
<1>1. req[w][missed[w][mi[w]]] \in Keys
  BY SettledKey DEF Fulfill
<1>2. \E E \in SUBSET Keys : Publishes(w, req[w][missed[w][mi[w]]], E)
  BY <1>1 DEF Fulfill, FetchedTile, Publishes, SettlePos, ReadyIn
<1>3. QED
  BY <1>1, <1>2

\* The empty cache and the idle calls have the right types.
LEMMA InitTypes == Init => TypeOK /\ FramesOK
<1> SUFFICES ASSUME Init PROVE TypeOK /\ FramesOK
  OBVIOUS
<1>1. TypeOK
  BY BoundsAssumption, SlotTypes DEF Init, TypeOK, NoSig, Returned
<1>2. FramesOK
  BY DEF Init, FramesOK
<1>3. QED
  BY <1>1, <1>2

\* Every step keeps the types and the frames' index arithmetic.
LEMMA NextTypes == TypeOK /\ FramesOK /\ [Next]_vars => TypeOK' /\ FramesOK'
<1> SUFFICES ASSUME TypeOK, FramesOK, [Next]_vars
             PROVE  TypeOK' /\ FramesOK'
  OBVIOUS
<1> USE DEF NoSig
<1>1. ASSUME NEW w \in Workers, Start(w)
      PROVE  TypeOK' /\ FramesOK'
  <2>1. PICK r \in Requests :
          /\ req' = [req EXCEPT ![w] = r]
          /\ pc' = [pc EXCEPT ![w] = AfterClaim(r, 0, <<>>)]
    BY <1>1 DEF Start
  <2>2. r \in Seq(Keys)
    BY RequestsAssumption
  <2>3. TypeOK'
    <3>1. AfterClaim(r, 0, <<>>) \in Returned \cup Running \cup {"fetch"}
      BY DEF AfterClaim, Returned, Running
    <3>2. /\ req' \in [Workers -> Seq(Keys)]
          /\ pc' \in [Workers -> Returned \cup Running \cup {"fetch"}]
      BY <2>1, <2>2, <3>1 DEF TypeOK
    <3>3. /\ out' \in [Workers -> Seq(Keys \cup {NoTile})]
          /\ missed' \in [Workers -> Seq(Nat)] /\ mi' \in [Workers -> Nat]
      BY <1>1 DEF Start, TypeOK
    <3>4. calls' \in [Workers -> 0..MaxCalls]
      BY <1>1, BoundsAssumption DEF Start, TypeOK
    <3>5. UNCHANGED <<map, used, tick, hits, misses, evictions, sig, notify>>
      BY <1>1 DEF Start, cache
    <3>6. QED
      BY <3>2, <3>3, <3>4, <3>5 DEF TypeOK
  <2>4. FramesOK'
    BY <1>1, <2>1, <2>2 DEF Start, TypeOK, FramesOK, AfterClaim
  <2>5. QED
    BY <2>3, <2>4
<1>2. ASSUME NEW w \in Workers, ClaimHit(w)
      PROVE  TypeOK' /\ FramesOK'
  <2>1. Claiming(w) \in Keys /\ Len(out[w]) + 1 \in 1..Len(req[w])
    BY <1>2, ClaimingKey DEF ClaimHit
  <2>2. map[Claiming(w)].arr \in Keys
    BY <1>2, <2>1, SlotFields DEF ClaimHit, TypeOK
  <2>3. Ready(map[Claiming(w)].arr, tick + 1) \in Slot
    BY <2>2, SlotTypes DEF TypeOK
  <2>4. map' \in [Keys -> Slot]
    BY <1>2, <2>1, <2>3 DEF ClaimHit, TypeOK
  <2>5. /\ out' \in [Workers -> Seq(Keys \cup {NoTile})]
        /\ Len(out'[w]) = Len(out[w]) + 1
        /\ \A v \in Workers \ {w} : out'[v] = out[v]
    BY <1>2, <2>2 DEF ClaimHit, TypeOK
  <2>6. /\ pc' \in [Workers -> Returned \cup Running \cup {"fetch"}]
        /\ pc'[w] = "claim" => Len(out'[w]) < Len(req[w])
        /\ pc'[w] = "fetch" => ~(Len(out'[w]) < Len(req[w]))
        /\ pc'[w] \in {"claim", "ok", "fetch"}
        /\ \A v \in Workers \ {w} : pc'[v] = pc[v]
    BY <1>2 DEF ClaimHit, TypeOK, AfterClaim, Returned, Running
  <2>7. TypeOK'
    <3>1. /\ tick' = tick + 1 /\ hits' = hits + 1
          /\ UNCHANGED <<used, misses, evictions, req, missed, mi, sig, notify, calls>>
      BY <1>2 DEF ClaimHit
    <3>2. QED
      BY <2>4, <2>5, <2>6, <3>1 DEF TypeOK
  <2>8. FramesOK'
    BY <1>2, <2>1, <2>5, <2>6 DEF ClaimHit, FramesOK, TypeOK
  <2>9. QED
    BY <2>7, <2>8
<1>3. ASSUME NEW w \in Workers, ClaimMine(w)
      PROVE  TypeOK' /\ FramesOK'
  <2>1. Claiming(w) \in Keys /\ Len(out[w]) + 1 \in 1..Len(req[w])
    BY <1>3, ClaimingKey DEF ClaimMine
  <2>2. Pending(tick + 1) \in Slot
    BY SlotTypes DEF TypeOK
  <2>3. map' \in [Keys -> Slot]
    BY <1>3, <2>1, <2>2 DEF ClaimMine, TypeOK
  <2>4. /\ out' \in [Workers -> Seq(Keys \cup {NoTile})]
        /\ Len(out'[w]) = Len(out[w]) + 1
        /\ \A v \in Workers \ {w} : out'[v] = out[v]
    BY <1>3 DEF ClaimMine, TypeOK
  <2>5. /\ missed' \in [Workers -> Seq(Nat)]
        /\ missed'[w] = Append(missed[w], Len(out[w]) + 1)
        /\ \A v \in Workers \ {w} : missed'[v] = missed[v]
    BY <1>3 DEF ClaimMine, TypeOK
  <2>6. /\ pc' \in [Workers -> Returned \cup Running \cup {"fetch"}]
        /\ pc'[w] = "claim" => Len(out'[w]) < Len(req[w])
        /\ pc'[w] = "fetch" => ~(Len(out'[w]) < Len(req[w]))
        /\ pc'[w] \in {"claim", "ok", "fetch"}
        /\ \A v \in Workers \ {w} : pc'[v] = pc[v]
    BY <1>3 DEF ClaimMine, TypeOK, AfterClaim, Returned, Running
  <2>7. TypeOK'
    <3>1. /\ tick' = tick + 1 /\ misses' = misses + 1
          /\ UNCHANGED <<used, hits, evictions, req, mi, sig, notify, calls>>
      BY <1>3 DEF ClaimMine
    <3>2. /\ used' \in Int /\ tick' \in Nat
          /\ hits' \in Nat /\ misses' \in Nat /\ evictions' \in Nat
      BY <3>1 DEF TypeOK
    <3>3. QED
      BY <2>3, <2>4, <2>5, <2>6, <3>1, <3>2 DEF TypeOK
  <2>8. \A j \in 1..Len(missed'[w]) : missed'[w][j] \in 1..Len(req[w])
    BY <2>1, <2>5 DEF TypeOK, FramesOK
  <2>9. FramesOK'
    <3>1. UNCHANGED <<req, mi>>
      BY <1>3 DEF ClaimMine
    <3>2. pc'[w] = "fetch" => Len(out'[w]) = Len(req[w])
      BY <2>1, <2>4, <2>6 DEF TypeOK
    <3>3. QED
      BY <2>4, <2>5, <2>6, <2>8, <3>1, <3>2 DEF FramesOK
  <2>10. QED
    BY <2>7, <2>9
<1>4. ASSUME NEW w \in Workers, ClaimWait(w)
      PROVE  TypeOK' /\ FramesOK'
  <2>1. Claiming(w) \in Keys
    BY <1>4, ClaimingKey DEF ClaimWait
  <2>2. map[Claiming(w)].sig \in Nat
    BY <1>4, <2>1, SlotFields DEF ClaimWait, TypeOK
  <2>3. TypeOK'
    BY <1>4, <2>2 DEF ClaimWait, TypeOK, frame, Running
  <2>4. FramesOK'
    BY <1>4 DEF ClaimWait, TypeOK, FramesOK, frame
  <2>5. QED
    BY <2>3, <2>4
<1>5. ASSUME NEW w \in Workers, Wake(w)
      PROVE  TypeOK' /\ FramesOK'
  BY <1>5 DEF Wake, TypeOK, FramesOK, cache, frame, Running
<1>6. ASSUME NEW w \in Workers, FetchOk(w) \/ FetchErr(w) \/ DecodeErr(w)
      PROVE  TypeOK' /\ FramesOK'
  BY <1>6 DEF FetchOk, FetchErr, DecodeErr, TypeOK, FramesOK, cache, frame, Running
<1>7. ASSUME NEW w \in Workers, Fulfill(w)
      PROVE  TypeOK' /\ FramesOK'
  <2> DEFINE i == missed[w][mi[w]]
             k == req[w][i]
  <2>1. i \in 1..Len(req[w]) /\ k \in Keys
    BY <1>7, SettledKey DEF Fulfill
  <2>2. PICK E \in SUBSET Keys : Publishes(w, k, E)
    BY <1>7, FulfillPublishes
  <2>3. out' = [out EXCEPT ![w] = [out[w] EXCEPT ![i] = k]]
    BY <1>7 DEF Fulfill, FetchedTile, SettlePos
  <2>4. /\ notify' = [notify EXCEPT ![w] = SignalOf(map[k])]
        /\ tick' = tick + 1
        /\ mi' = [mi EXCEPT ![w] = mi[w] + 1]
        /\ UNCHANGED <<hits, misses, pc, req, missed, sig, calls>>
    BY <1>7 DEF Fulfill, SettlePos
  <2> HIDE DEF i, k
  <2>5. map' \in [Keys -> Slot]
    <3>1. Ready(k, tick + 1) \in Slot /\ Vacant \in Slot
      BY <2>1, SlotTypes DEF TypeOK
    <3>2. [map EXCEPT ![k] = Ready(k, tick + 1)] \in [Keys -> Slot]
      BY <3>1 DEF TypeOK
    <3>3. QED
      BY <2>2, <3>1, <3>2 DEF Publishes
  <2>6. used' \in Int
    <3>1. Bytes[k] \in Nat /\ Weight[E] \in Nat
      BY <2>1, WeightAssumption
    <3>2. Charge(k) \in Int
      BY <3>1 DEF TypeOK, Charge
    <3>3. QED
      BY <2>2, <3>1, <3>2 DEF Publishes
  <2>7. evictions' \in Nat
    <3>1. Cardinality(E) \in Nat
      BY KeysAssumption, FS_Subset, FS_CardinalityType
    <3>2. QED
      BY <2>2, <3>1 DEF Publishes, TypeOK
  <2>8. out' \in [Workers -> Seq(Keys \cup {NoTile})]
    <3>1. out[w] \in Seq(Keys \cup {NoTile})
      BY DEF TypeOK
    <3>2. i \in 1..Len(out[w])
      BY <1>7, <2>1 DEF Fulfill, FramesOK
    <3>3. [out[w] EXCEPT ![i] = k] \in Seq(Keys \cup {NoTile})
      BY <2>1, <3>1, <3>2, ExceptSeq
    <3>4. QED
      BY <2>3, <3>3 DEF TypeOK
  <2>9. SignalOf(map[k]) \in Nat
    BY <2>1, SignalType DEF TypeOK
  <2>10. notify' \in [Workers -> Nat] /\ mi' \in [Workers -> Nat]
    BY <2>9, <2>4 DEF TypeOK
  <2>11. TypeOK'
    <3>1. UNCHANGED <<hits, misses, pc, req, missed, sig, calls>>
      BY <2>4
    <3>2. tick' \in Nat
      BY <2>4 DEF TypeOK
    <3>3. QED
      BY <2>5, <2>6, <2>7, <2>8, <2>10, <3>1, <3>2, Zenon DEF TypeOK
  <2>12. pc[w] = "settle"
    BY <1>7 DEF Fulfill
  <2>13. \A v \in Workers \ {w} : out'[v] = out[v]
    BY <2>3 DEF TypeOK
  <2>14. Len(out'[w]) = Len(out[w])
    <3>1. i \in 1..Len(out[w])
      BY <1>7, <2>1 DEF Fulfill, FramesOK
    <3>2. Len([out[w] EXCEPT ![i] = k]) = Len(out[w])
      BY <2>1, <3>1, ExceptSeq DEF TypeOK
    <3>3. QED
      BY <2>3, <3>2 DEF TypeOK
  <2>15. FramesOK'
    BY <2>4, <2>12, <2>13, <2>14 DEF TypeOK, FramesOK
  <2>16. QED
    BY <2>11, <2>15
<1>8. ASSUME NEW w \in Workers, Abort(w)
      PROVE  TypeOK' /\ FramesOK'
  <2>1. req[w][SettlePos(w)] \in Keys
    BY <1>8, SettledKey DEF Abort, SettlePos
  <2>2. SignalOf(map[req[w][SettlePos(w)]]) \in Nat
    BY <2>1, SignalType DEF TypeOK
  <2>3. map' \in [Keys -> Slot]
    BY <1>8, <2>1, SlotTypes DEF Abort, TakenBack, TypeOK
  <2>4. TypeOK'
    <3>1. notify' \in [Workers -> Nat]
      BY <1>8, <2>2 DEF Abort, TypeOK
    <3>2. mi' \in [Workers -> Nat]
      BY <1>8 DEF Abort, TypeOK
    <3>3. UNCHANGED <<used, tick, hits, misses, evictions, pc, req, out, missed, sig, calls>>
      BY <1>8 DEF Abort
    <3>4. QED
      BY <2>3, <3>1, <3>2, <3>3 DEF TypeOK
  <2>5. FramesOK'
    BY <1>8 DEF Abort, TypeOK, FramesOK
  <2>6. QED
    BY <2>5, <2>4
<1>9. ASSUME NEW w \in Workers, Notify(w)
      PROVE  TypeOK' /\ FramesOK'
  BY <1>9 DEF Notify, TypeOK, FramesOK, cache, frame
<1>10. ASSUME NEW w \in Workers, Return(w)
       PROVE  TypeOK' /\ FramesOK'
  BY <1>10 DEF Return, TypeOK, FramesOK, cache, frame, Returned
<1>11. CASE UNCHANGED vars
  BY <1>11 DEF TypeOK, FramesOK, vars
<1>12. QED
  BY <1>1, <1>2, <1>3, <1>4, <1>5, <1>6, <1>7, <1>8, <1>9, <1>10, <1>11
  DEF Next, Step, Finished

\* Types: every variable keeps its type in every reachable state, and the
\* index arithmetic of fetch_decoded never leaves the request.
THEOREM TypeCorrect == Spec => [](TypeOK /\ FramesOK)
<1>1. Init => TypeOK /\ FramesOK
  BY InitTypes
<1>2. TypeOK /\ FramesOK /\ [Next]_vars => TypeOK' /\ FramesOK'
  BY NextTypes
<1>3. QED
  BY <1>1, <1>2, PTL DEF Spec

-----------------------------------------------------------------------------
\* The budget.

\* A vacant slot is not Ready.
LEMMA VacantSlot == Vacant.slot = "None"
BY DEF Vacant

\* A slot that becomes or stays Ready is counted; the others are not.
LEMMA ReadyAfterInsert ==
  ASSUME map \in [Keys -> Slot], NEW k \in Keys, NEW t
  PROVE  ReadyIn([map EXCEPT ![k] = Ready(k, t)]) = ReadyIn(map) \cup {k}
BY DEF ReadyIn, Ready

\* The bytes after an insertion are the weight of the entries: a new entry
\* adds its bytes, an overwritten Ready entry gives them back.
LEMMA ChargeIsWeight ==
  ASSUME BudgetHeld, NEW k \in Keys
  PROVE  Charge(k) = Weight[ReadyIn(map) \cup {k}]
<1> DEFINE R == ReadyIn(map)
<1>1. R \in SUBSET Keys /\ {k} \in SUBSET Keys
  BY DEF ReadyIn
<1>2. Weight[R] \in Nat /\ Bytes[k] \in Nat
  BY <1>1, WeightAssumption
<1>3. CASE map[k].slot = "Ready"
  <2>1. R \cup {k} = R
    BY <1>3 DEF ReadyIn
  <2>2. Charge(k) = used
    BY <1>2, <1>3 DEF Charge, BudgetHeld
  <2>3. QED
    BY <2>1, <2>2 DEF BudgetHeld
<1>4. CASE map[k].slot # "Ready"
  <2>1. R \cap {k} = {}
    BY <1>4 DEF ReadyIn
  <2>2. Weight[R \cup {k}] = Weight[R] + Weight[{k}]
    BY <1>1, <2>1, WeightAssumption
  <2>3. Weight[{k}] = Bytes[k]
    BY WeightAssumption
  <2>4. Charge(k) = used + Bytes[k]
    BY <1>2, <1>4 DEF Charge, BudgetHeld
  <2>5. QED
    BY <2>2, <2>3, <2>4 DEF BudgetHeld
<1>5. QED
  BY <1>3, <1>4

\* Splitting a set of entries splits its weight.
LEMMA WeightSplit ==
  ASSUME NEW R \in SUBSET Keys, NEW E \in SUBSET R
  PROVE  /\ Weight[R] = Weight[R \ E] + Weight[E]
         /\ Weight[R] \in Nat /\ Weight[R \ E] \in Nat /\ Weight[E] \in Nat
<1>1. /\ R \ E \in SUBSET Keys /\ E \in SUBSET Keys
      /\ (R \ E) \cap E = {} /\ (R \ E) \cup E = R
  OBVIOUS
<1>2. QED
  BY <1>1, WeightAssumption

\* fulfill keeps the budget: after the eviction loop used is the weight of
\* what is left, and the loop stops within the budget or with nothing left.
LEMMA FulfillBudget ==
  ASSUME TypeOK, BudgetHeld, NEW w \in Workers, NEW k \in Keys,
         NEW E \in SUBSET Keys, Publishes(w, k, E)
  PROVE  BudgetHeld'
<1> DEFINE inserted == [map EXCEPT ![k] = Ready(k, tick + 1)]
           R == ReadyIn(map) \cup {k}
<1>1. ReadyIn(inserted) = R
  BY ReadyAfterInsert DEF TypeOK
<1>2. R \in SUBSET Keys /\ E \in SUBSET R
  BY <1>1 DEF Publishes, ReadyIn
<1>3. ReadyIn(map') = R \ E
  <2>1. map' = [j \in Keys |-> IF j \in E THEN Vacant ELSE inserted[j]]
    BY DEF Publishes
  <2>2. ReadyIn(map') = ReadyIn(inserted) \ E
    BY <2>1 DEF ReadyIn, Vacant
  <2>3. QED
    BY <1>1, <2>2
<1>4. Charge(k) = Weight[R]
  BY ChargeIsWeight
<1>5. used' = Weight[R] - Weight[E]
  BY <1>4 DEF Publishes
<1>6. ~(Weight[R] - Weight[E] > MaxBytes) \/ E = R
  BY <1>1, <1>4 DEF Publishes, Evicts, OverBudget
<1>7. /\ Weight[R] = Weight[R \ E] + Weight[E]
      /\ Weight[R] \in Nat /\ Weight[R \ E] \in Nat /\ Weight[E] \in Nat
  BY <1>2, WeightSplit
<1>8. used' = Weight[R \ E]
  BY <1>5, <1>7
<1>9. used' <= MaxBytes
  <2>1. CASE E = R
    <3>1. Weight[R \ E] = 0
      BY <2>1, WeightAssumption
    <3>2. QED
      BY <1>8, <3>1, BoundsAssumption
  <2>2. CASE ~(Weight[R] - Weight[E] > MaxBytes)
    BY <1>5, <1>7, <2>2, BoundsAssumption
  <2>3. QED
    BY <1>6, <2>1, <2>2
<1>10. QED
  BY <1>3, <1>8, <1>9 DEF BudgetHeld

\* Steps that leave used and the set of Ready keys alone keep the budget.
LEMMA SameReady ==
  ASSUME BudgetHeld, used' = used, ReadyIn(map') = ReadyIn(map)
  PROVE  BudgetHeld'
BY DEF BudgetHeld

\* Every step keeps the budget: only fulfill changes the Ready keys.
LEMMA NextBudget ==
  TypeOK /\ FramesOK /\ BudgetHeld /\ [Next]_vars => BudgetHeld'
<1> SUFFICES ASSUME TypeOK, FramesOK, BudgetHeld, [Next]_vars
             PROVE  BudgetHeld'
  OBVIOUS
<1>1. ASSUME NEW w \in Workers, ClaimHit(w)
      PROVE  BudgetHeld'
  <2>1. Claiming(w) \in Keys
    BY <1>1, ClaimingKey DEF ClaimHit
  <2>2. ReadyIn(map') = ReadyIn(map)
    BY <1>1, <2>1 DEF ClaimHit, TypeOK, ReadyIn, Ready
  <2>3. QED
    BY <1>1, <2>2, SameReady DEF ClaimHit
<1>2. ASSUME NEW w \in Workers, ClaimMine(w)
      PROVE  BudgetHeld'
  <2>1. Claiming(w) \in Keys
    BY <1>2, ClaimingKey DEF ClaimMine
  <2>2. ReadyIn(map') = ReadyIn(map)
    <3>1. /\ map[Claiming(w)].slot # "Ready"
          /\ map' = [map EXCEPT ![Claiming(w)] = Pending(tick + 1)] \/ map' = map
      BY <1>2, VacantSlot DEF ClaimMine, TakesPending
    <3>2. Pending(tick + 1).slot # "Ready"
      BY DEF Pending
    <3>3. QED
      BY <2>1, <3>1, <3>2 DEF TypeOK, ReadyIn
  <2>3. QED
    BY <1>2, <2>2, SameReady DEF ClaimMine
<1>3. ASSUME NEW w \in Workers, Abort(w)
      PROVE  BudgetHeld'
  <2>1. req[w][SettlePos(w)] \in Keys
    BY <1>3, SettledKey DEF Abort, SettlePos
  <2>2. ReadyIn(map') = ReadyIn(map)
    BY <1>3, <2>1 DEF Abort, TakenBack, TypeOK, ReadyIn, Vacant
  <2>3. QED
    BY <1>3, <2>2, SameReady DEF Abort
<1>4. ASSUME NEW w \in Workers, Fulfill(w)
      PROVE  BudgetHeld'
  BY <1>4, FulfillPublishes, FulfillBudget
<1>5. CASE UNCHANGED <<map, used>>
  BY <1>5 DEF BudgetHeld, ReadyIn
<1>6. QED
  BY <1>1, <1>2, <1>3, <1>4, <1>5
  DEF Next, Step, Finished, vars, cache, Start, ClaimWait, Wake, FetchOk, FetchErr,
      DecodeErr, Notify, Return

\* The resident bytes that stats() reports are exactly those of the decoded
\* tiles and never exceed max_bytes, in both builds, for any overlap of
\* calls, failures and duplicate fulfillments.
THEOREM BudgetSafe == Spec => []BudgetHeld
<1>1. Init => BudgetHeld
  <2> SUFFICES ASSUME Init PROVE BudgetHeld
    OBVIOUS
  <2>1. ReadyIn(map) = {}
    <3>1. \A k \in Keys : map[k].slot = "None"
      BY VacantSlot DEF Init
    <3>2. QED
      BY <3>1 DEF ReadyIn
  <2>2. used = 0 /\ Weight[{}] = 0 /\ 0 <= MaxBytes
    BY WeightAssumption, BoundsAssumption DEF Init
  <2>3. QED
    BY <2>1, <2>2 DEF BudgetHeld
<1>2. QED
  BY <1>1, NextBudget, TypeCorrect, PTL DEF Spec

-----------------------------------------------------------------------------
(***************************************************************************)
(* The calls that share the cache.                                           *)
(***************************************************************************)

\* The frame of a running call: its misses are positions of its output in
\* strictly increasing order; unless the call fails, an output slot holds the
\* tile of its own key or is a miss still to be settled; the settling starts
\* at the first miss, and a call that has returned has settled every one.
FrameAligned(w) ==
  /\ req[w] \in Requests \cup {<<>>}
  /\ Len(out[w]) <= Len(req[w])
  /\ \A j \in 1..Len(missed[w]) : missed[w][j] \in 1..Len(out[w])
  /\ \A i, j \in 1..Len(missed[w]) : i < j => missed[w][i] < missed[w][j]
  /\ pc[w] \notin {"abort", "err"} => \A i \in 1..Len(out[w]) :
       out[w][i] = req[w][i] \/ \E j \in mi[w]..Len(missed[w]) : missed[w][j] = i
  /\ pc[w] \in {"claim", "wait", "fetch"} => mi[w] = 1
  /\ pc[w] \in Returned => mi[w] > Len(missed[w])
  /\ pc[w] \in {"idle", "ok"} => Len(out[w]) = Len(req[w])

\* A decoded tile is stored under its own key.
OwnArrays == \A k \in Keys : map[k].slot = "Ready" => map[k].arr = k

Aligned == OwnArrays /\ \A w \in Workers : FrameAligned(w)

\* A step of one call leaves the frame of another as it is.
LEMMA OtherFrame ==
  ASSUME NEW v \in Workers, FrameAligned(v),
         req'[v] = req[v], out'[v] = out[v], missed'[v] = missed[v],
         mi'[v] = mi[v], pc'[v] = pc[v]
  PROVE  FrameAligned(v)'
BY DEF FrameAligned

\* No list of keys names a key twice.
LEMMA DistinctKeys ==
  ASSUME NEW w \in Workers, FrameAligned(w),
         NEW i \in 1..Len(req[w]), NEW j \in 1..Len(req[w]), req[w][i] = req[w][j]
  PROVE  i = j
BY RequestsAssumption DEF FrameAligned

\* A new last element that exceeds all others keeps a sequence increasing.
LEMMA AppendIncreasing ==
  ASSUME NEW s \in Seq(Nat), NEW n \in Nat \ {0},
         \A j \in 1..Len(s) : s[j] \in 1..n - 1,
         \A i, j \in 1..Len(s) : i < j => s[i] < s[j]
  PROVE  LET t == Append(s, n) IN
           /\ t \in Seq(Nat) /\ Len(t) = Len(s) + 1 /\ t[Len(t)] = n
           /\ Len(t) \in Nat \ {0} /\ Len(s) <= Len(t)
           /\ \A j \in 1..Len(s) : t[j] = s[j]
           /\ \A j \in 1..Len(t) : t[j] \in 1..n
           /\ \A i, j \in 1..Len(t) : i < j => t[i] < t[j]
<1> DEFINE t == Append(s, n)
<1>1. /\ t \in Seq(Nat) /\ Len(t) = Len(s) + 1 /\ Len(s) \in Nat
      /\ t[Len(s) + 1] = n
  OBVIOUS
<1>2. \A j \in 1..Len(s) : t[j] = s[j]
  OBVIOUS
<1> HIDE DEF t
<1>3. \A j \in 1..Len(t) : j \in 1..Len(s) \/ (j = Len(t) /\ t[j] = n)
  BY <1>1
<1>4. \A j \in 1..Len(t) : t[j] \in 1..n
  <2> SUFFICES ASSUME NEW j \in 1..Len(t) PROVE t[j] \in 1..n
    OBVIOUS
  <2>1. CASE j \in 1..Len(s)
    <3>1. t[j] = s[j] /\ s[j] \in 1..n - 1
      BY <1>2, <2>1
    <3>2. QED
      BY <3>1
  <2>2. CASE t[j] = n
    BY <2>2
  <2>3. QED
    BY <1>3, <2>1, <2>2
<1>5. \A i, j \in 1..Len(t) : i < j => t[i] < t[j]
  <2> SUFFICES ASSUME NEW i \in 1..Len(t), NEW j \in 1..Len(t), i < j
               PROVE  t[i] < t[j]
    OBVIOUS
  <2>1. i \in 1..Len(s)
    BY <1>1
  <2>2. CASE j \in 1..Len(s)
    BY <1>2, <2>1, <2>2
  <2>3. CASE j = Len(t) /\ t[j] = n
    BY <1>2, <2>1, <2>3
  <2>4. QED
    BY <1>3, <2>2, <2>3
<1>6. QED
  BY <1>1, <1>2, <1>4, <1>5 DEF t

\* The idle calls are aligned and the cache holds no tile.
LEMMA InitAligned == Init => Aligned
<1> SUFFICES ASSUME Init PROVE Aligned
  OBVIOUS
<1>1. OwnArrays
  BY VacantSlot DEF Init, OwnArrays
<1>2. ASSUME NEW w \in Workers PROVE FrameAligned(w)
  BY DEF Init, FrameAligned, Returned
<1>3. QED
  BY <1>1, <1>2 DEF Aligned

\* A call that judged one more key: the new output slot is the tile of the
\* key, or is recorded as a miss.
LEMMA ClaimedFrame ==
  ASSUME TypeOK, FramesOK, NEW w \in Workers, FrameAligned(w), pc[w] = "claim",
         NEW tile \in Keys \cup {NoTile}, NEW ms,
         out' = [out EXCEPT ![w] = Append(@, tile)],
         missed' = [missed EXCEPT ![w] = ms],
         \/ tile = Claiming(w) /\ ms = missed[w]
         \/ ms = Append(missed[w], Len(out[w]) + 1),
         pc' = [pc EXCEPT ![w] = AfterClaim(req[w], Len(out[w]) + 1, ms)],
         UNCHANGED <<req, mi>>
  PROVE  \A v \in Workers : (\A u \in Workers : FrameAligned(u)) => FrameAligned(v)'
<1> DEFINE n == Len(out[w]) + 1
           o == Append(out[w], tile)
<1>1. /\ req[w] \in Seq(Keys) /\ out[w] \in Seq(Keys \cup {NoTile})
      /\ missed[w] \in Seq(Nat) /\ mi[w] = 1
  BY DEF TypeOK, FrameAligned
<1>2. n \in 1..Len(req[w]) /\ Len(out[w]) \in Nat
  BY ClaimingKey, <1>1
<1>3. /\ out'[w] = o /\ missed'[w] = ms /\ pc'[w] = AfterClaim(req[w], n, ms)
      /\ req'[w] = req[w] /\ mi'[w] = 1
      /\ \A v \in Workers \ {w} : /\ out'[v] = out[v] /\ missed'[v] = missed[v]
                                  /\ pc'[v] = pc[v]
  BY <1>1 DEF TypeOK
<1>4. Len(o) = n /\ o[n] = tile /\ \A i \in 1..Len(out[w]) : o[i] = out[w][i]
  BY <1>1, <1>2
<1>5. /\ ms \in Seq(Nat) /\ Len(ms) \in Nat
      /\ \A j \in 1..Len(ms) : ms[j] \in 1..n
      /\ \A i, j \in 1..Len(ms) : i < j => ms[i] < ms[j]
      /\ Len(missed[w]) <= Len(ms)
      /\ \A j \in 1..Len(missed[w]) : ms[j] = missed[w][j]
      /\ tile = req[w][n] \/ (Len(ms) \in Nat \ {0} /\ ms[Len(ms)] = n)
  <2>1. CASE tile = Claiming(w) /\ ms = missed[w]
    BY <1>1, <1>2, <2>1 DEF FrameAligned, Claiming
  <2>2. CASE ms = Append(missed[w], n)
    <3>1. /\ \A j \in 1..Len(missed[w]) : missed[w][j] \in 1..n - 1
          /\ \A i, j \in 1..Len(missed[w]) : i < j => missed[w][i] < missed[w][j]
      BY DEF FrameAligned
    <3>2. n \in Nat \ {0} /\ missed[w] \in Seq(Nat)
      BY <1>1, <1>2
    <3> HIDE DEF n, o
    <3>3. LET t == Append(missed[w], n) IN
            /\ t \in Seq(Nat) /\ Len(t) = Len(missed[w]) + 1 /\ t[Len(t)] = n
            /\ Len(t) \in Nat \ {0} /\ Len(missed[w]) <= Len(t)
            /\ \A j \in 1..Len(missed[w]) : t[j] = missed[w][j]
            /\ \A j \in 1..Len(t) : t[j] \in 1..n
            /\ \A i, j \in 1..Len(t) : i < j => t[i] < t[j]
      BY <3>1, <3>2, AppendIncreasing, Zenon
    <3>4. QED
      BY <2>2, <3>3
  <2>3. QED
    BY <2>1, <2>2
<1>6. \A i \in 1..n : o[i] = req[w][i] \/ \E j \in 1..Len(ms) : ms[j] = i
  <2> SUFFICES ASSUME NEW i \in 1..n
               PROVE  o[i] = req[w][i] \/ \E j \in 1..Len(ms) : ms[j] = i
    OBVIOUS
  <2>1. CASE i = n
    BY <1>4, <1>5, <2>1
  <2>2. CASE i \in 1..Len(out[w])
    <3>1. out[w][i] = req[w][i] \/ \E j \in 1..Len(missed[w]) : missed[w][j] = i
      BY <1>1, <2>2 DEF FrameAligned
    <3>2. o[i] = out[w][i]
      BY <1>4, <2>2
    <3>3. \A j \in 1..Len(missed[w]) : j \in 1..Len(ms) /\ ms[j] = missed[w][j]
      BY <1>1, <1>5
    <3> HIDE DEF n, o
    <3>4. QED
      BY <3>1, <3>2, <3>3, Zenon
  <2>3. QED
    BY <1>2, <2>1, <2>2
<1>7. FrameAligned(w)'
  <2>1. /\ pc'[w] \in {"claim", "ok", "fetch"}
        /\ pc'[w] = "ok" => n = Len(req[w]) /\ ms = <<>>
    BY <1>1, <1>2, <1>3 DEF AfterClaim
  <2>2. req'[w] \in Requests \cup {<<>>} /\ Len(out'[w]) <= Len(req'[w])
    BY <1>2, <1>3, <1>4 DEF FrameAligned
  <2>3. pc'[w] \in Returned => mi'[w] > Len(missed'[w])
    BY <1>3, <2>1 DEF Returned
  <2>4. pc'[w] \in {"idle", "ok"} => Len(out'[w]) = Len(req'[w])
    BY <1>3, <1>4, <2>1
  <2> HIDE DEF n, o
  <2>5. /\ \A j \in 1..Len(missed'[w]) : missed'[w][j] \in 1..Len(out'[w])
        /\ \A i, j \in 1..Len(missed'[w]) : i < j => missed'[w][i] < missed'[w][j]
    BY <1>3, <1>4, <1>5
  <2>6. \A i \in 1..Len(out'[w]) :
          \/ out'[w][i] = req'[w][i]
          \/ \E j \in mi'[w]..Len(missed'[w]) : missed'[w][j] = i
    BY <1>3, <1>4, <1>6
  <2>7. QED
    BY <1>3, <2>2, <2>3, <2>4, <2>5, <2>6 DEF FrameAligned
<1>8. QED
  BY <1>3, <1>7, OtherFrame DEF TypeOK

\* A call that settled one more miss: fulfill wrote the tile of the key into
\* the key's own output slot, abort wrote nothing and the call fails.
LEMMA SettledFrame ==
  ASSUME TypeOK, FramesOK, NEW w \in Workers, FrameAligned(w),
         pc[w] \in {"settle", "abort"}, mi[w] <= Len(missed[w]),
         LET i == missed[w][mi[w]] IN
           \/ out' = [out EXCEPT ![w] = [out[w] EXCEPT ![i] = req[w][i]]]
           \/ pc[w] = "abort" /\ out' = out,
         mi' = [mi EXCEPT ![w] = @ + 1],
         UNCHANGED <<req, missed, pc>>
  PROVE  \A v \in Workers : (\A u \in Workers : FrameAligned(u)) => FrameAligned(v)'
<1> DEFINE i == missed[w][mi[w]]
<1>1. /\ i \in 1..Len(req[w]) /\ req[w][i] \in Keys
      /\ out[w] \in Seq(Keys \cup {NoTile}) /\ Len(out[w]) = Len(req[w])
      /\ missed[w] \in Seq(Nat) /\ mi[w] \in 1..Len(missed[w])
  <2>1. i \in 1..Len(req[w]) /\ req[w][i] \in Keys
    BY SettledKey
  <2>2. /\ out[w] \in Seq(Keys \cup {NoTile}) /\ missed[w] \in Seq(Nat) /\ mi[w] \in Nat
    BY DEF TypeOK
  <2>3. mi[w] >= 1 /\ Len(out[w]) = Len(req[w])
    BY DEF FramesOK
  <2>4. QED
    BY <2>1, <2>2, <2>3
<1>2. /\ mi'[w] = mi[w] + 1 /\ req'[w] = req[w] /\ missed'[w] = missed[w]
      /\ pc'[w] = pc[w]
      /\ \A v \in Workers \ {w} : /\ out'[v] = out[v] /\ mi'[v] = mi[v]
                                  /\ req'[v] = req[v] /\ missed'[v] = missed[v]
                                  /\ pc'[v] = pc[v]
  BY DEF TypeOK
<1>3. /\ Len(out'[w]) = Len(out[w])
      /\ \/ pc[w] = "abort"
         \/ \A j \in 1..Len(out[w]) :
              out'[w][j] = IF j = i THEN req[w][i] ELSE out[w][j]
  <2>1. CASE pc[w] = "abort" /\ out' = out
    BY <2>1
  <2>2. CASE out' = [out EXCEPT ![w] = [out[w] EXCEPT ![i] = req[w][i]]]
    <3>1. out'[w] = [out[w] EXCEPT ![i] = req[w][i]]
      BY <2>2 DEF TypeOK
    <3>2. QED
      BY <1>1, <3>1, ExceptSeq
  <2>3. QED
    BY <2>1, <2>2
<1>4. pc'[w] \notin {"abort", "err"} => \A p \in 1..Len(out'[w]) :
        \/ out'[w][p] = req'[w][p]
        \/ \E j \in mi'[w]..Len(missed'[w]) : missed'[w][j] = p
  <2> SUFFICES ASSUME pc[w] \notin {"abort", "err"}, NEW p \in 1..Len(out[w])
               PROVE  \/ out'[w][p] = req[w][p]
                      \/ \E j \in mi[w] + 1..Len(missed[w]) : missed[w][j] = p
    BY <1>2, <1>3
  <2>1. \/ out[w][p] = req[w][p]
        \/ \E j \in mi[w]..Len(missed[w]) : missed[w][j] = p
    BY DEF FrameAligned
  <2>2. CASE p = i
    BY <1>3, <2>2
  <2>3. CASE p # i /\ \E j \in mi[w]..Len(missed[w]) : missed[w][j] = p
    BY <1>1, <2>3
  <2>4. CASE p # i /\ out[w][p] = req[w][p]
    BY <1>3, <2>4
  <2>5. QED
    BY <2>1, <2>2, <2>3, <2>4
<1>5. FrameAligned(w)'
  BY <1>2, <1>3, <1>4 DEF FrameAligned, Returned
<1>6. QED
  BY <1>2, <1>5, OtherFrame

\* Every step keeps the frames and the cached tiles aligned.
LEMMA NextAligned == TypeOK /\ FramesOK /\ Aligned /\ [Next]_vars => Aligned'
<1> SUFFICES ASSUME TypeOK, FramesOK, Aligned, [Next]_vars
             PROVE  Aligned'
  OBVIOUS
<1>0. OwnArrays /\ \A v \in Workers : FrameAligned(v)
  BY DEF Aligned
<1>1. ASSUME NEW w \in Workers, Start(w)
      PROVE  Aligned'
  <2>1. PICK r \in Requests :
          /\ req' = [req EXCEPT ![w] = r]
          /\ pc' = [pc EXCEPT ![w] = AfterClaim(r, 0, <<>>)]
    BY <1>1 DEF Start
  <2>2. r \in Seq(Keys)
    BY RequestsAssumption
  <2>3. /\ req'[w] = r /\ pc'[w] = AfterClaim(r, 0, <<>>)
        /\ out'[w] = <<>> /\ missed'[w] = <<>> /\ mi'[w] = 1
        /\ \A v \in Workers \ {w} : /\ out'[v] = out[v] /\ mi'[v] = mi[v]
                                    /\ req'[v] = req[v] /\ missed'[v] = missed[v]
                                    /\ pc'[v] = pc[v]
    BY <1>1, <2>1 DEF Start, TypeOK
  <2>4. FrameAligned(w)'
    BY <2>2, <2>3 DEF FrameAligned, AfterClaim, Returned
  <2>5. \A v \in Workers : FrameAligned(v)'
    BY <1>0, <2>3, <2>4, OtherFrame
  <2>6. map' = map
    BY <1>1 DEF Start, cache
  <2>7. QED
    BY <1>0, <2>5, <2>6 DEF Aligned, OwnArrays
<1>2. ASSUME NEW w \in Workers, ClaimHit(w)
      PROVE  Aligned'
  <2>1. Claiming(w) \in Keys
    BY <1>2, ClaimingKey DEF ClaimHit
  <2>2. map[Claiming(w)].arr = Claiming(w)
    BY <1>0, <1>2, <2>1 DEF ClaimHit, OwnArrays
  <2>3. \A v \in Workers : FrameAligned(v)'
    <3>1. /\ pc[w] = "claim" /\ out' = [out EXCEPT ![w] = Append(@, Claiming(w))]
          /\ missed' = [missed EXCEPT ![w] = missed[w]] /\ UNCHANGED <<req, mi>>
      BY <1>2, <2>2 DEF ClaimHit, TypeOK
    <3>2. Len(out'[w]) = Len(out[w]) + 1
      BY <2>1, <3>1 DEF TypeOK
    <3>3. pc' = [pc EXCEPT ![w] = AfterClaim(req[w], Len(out[w]) + 1, missed[w])]
      BY <1>2, <3>2 DEF ClaimHit
    <3>4. QED
      BY <1>0, <2>1, <3>1, <3>3, ClaimedFrame
  <2>4. OwnArrays'
    BY <1>0, <1>2, <2>1, <2>2 DEF ClaimHit, OwnArrays, Ready, TypeOK
  <2>5. QED
    BY <2>3, <2>4 DEF Aligned
<1>3. ASSUME NEW w \in Workers, ClaimMine(w)
      PROVE  Aligned'
  <2>1. Claiming(w) \in Keys
    BY <1>3, ClaimingKey DEF ClaimMine
  <2>2. \A v \in Workers : FrameAligned(v)'
    <3> DEFINE ms == Append(missed[w], Len(out[w]) + 1)
    <3>1. /\ pc[w] = "claim" /\ out' = [out EXCEPT ![w] = Append(@, NoTile)]
          /\ missed' = [missed EXCEPT ![w] = ms] /\ UNCHANGED <<req, mi>>
      BY <1>3 DEF ClaimMine
    <3>2. Len(out'[w]) = Len(out[w]) + 1 /\ missed'[w] = ms
      BY <3>1 DEF TypeOK
    <3>3. pc' = [pc EXCEPT ![w] = AfterClaim(req[w], Len(out[w]) + 1, ms)]
      BY <1>3, <3>2 DEF ClaimMine
    <3>4. QED
      BY <1>0, <3>1, <3>3, ClaimedFrame
  <2>3. OwnArrays'
    <3>1. map' = [map EXCEPT ![Claiming(w)] = Pending(tick + 1)] \/ map' = map
      BY <1>3 DEF ClaimMine
    <3>2. Pending(tick + 1).slot # "Ready"
      BY DEF Pending
    <3>3. QED
      BY <1>0, <2>1, <3>1, <3>2 DEF OwnArrays, TypeOK
  <2>4. QED
    BY <2>2, <2>3 DEF Aligned
<1>4. ASSUME NEW w \in Workers, Fulfill(w)
      PROVE  Aligned'
  <2> DEFINE i == missed[w][mi[w]]
             k == req[w][i]
  <2>1. PICK E \in SUBSET Keys : Publishes(w, k, E)
    BY <1>4, FulfillPublishes
  <2>2. \A v \in Workers : FrameAligned(v)'
    <3>1. /\ pc[w] = "settle" /\ mi[w] <= Len(missed[w])
          /\ out' = [out EXCEPT ![w] = [out[w] EXCEPT ![i] = k]]
          /\ mi' = [mi EXCEPT ![w] = @ + 1]
          /\ UNCHANGED <<req, missed, pc>>
      BY <1>4 DEF Fulfill, FetchedTile, SettlePos
    <3>2. QED
      BY <1>0, <3>1, SettledFrame
  <2>3. k \in Keys
    BY <1>4, FulfillPublishes
  <2>4. OwnArrays'
    BY <1>0, <2>1, <2>3 DEF Publishes, OwnArrays, Ready, Vacant, TypeOK
  <2>5. QED
    BY <2>2, <2>4 DEF Aligned
<1>5. ASSUME NEW w \in Workers, Abort(w)
      PROVE  Aligned'
  <2>1. \A v \in Workers : FrameAligned(v)'
    BY <1>0, <1>5, SettledFrame DEF Abort
  <2>2. req[w][SettlePos(w)] \in Keys
    BY <1>5, SettledKey DEF Abort, SettlePos
  <2>3. OwnArrays'
    BY <1>0, <1>5, <2>2, VacantSlot DEF Abort, TakenBack, OwnArrays, TypeOK
  <2>4. QED
    BY <2>1, <2>3 DEF Aligned
<1>6. ASSUME NEW w \in Workers, UNCHANGED <<map, frame>>,
             pc' = [pc EXCEPT ![w] = pc'[w]],
             \/ pc'[w] = pc[w]
             \/ pc[w] \in {"claim", "wait"} /\ pc'[w] \in {"claim", "wait"}
             \/ pc[w] = "fetch" /\ pc'[w] = "settle"
             \/ pc[w] \in {"fetch", "settle"} /\ pc'[w] = "abort"
             \/ /\ <<pc[w], pc'[w]>> \in {<<"settle", "ok">>, <<"abort", "err">>}
                /\ mi[w] > Len(missed[w])
      PROVE  Aligned'
  <2>1. OwnArrays'
    BY <1>0, <1>6 DEF OwnArrays
  <2>2. /\ req' = req /\ out' = out /\ missed' = missed /\ mi' = mi
        /\ \A v \in Workers \ {w} : pc'[v] = pc[v]
    BY <1>6 DEF frame, TypeOK
  <2>3. FrameAligned(w) /\ (pc[w] \in {"settle", "abort"} => Len(out[w]) = Len(req[w]))
    BY <1>0 DEF FramesOK
  <2>4. FrameAligned(w)'
    BY <1>6, <2>2, <2>3 DEF FrameAligned, Returned
  <2>5. QED
    BY <1>0, <2>1, <2>2, <2>4, OtherFrame DEF Aligned
<1>7. ASSUME NEW w \in Workers,
             \/ ClaimWait(w) \/ Wake(w) \/ FetchOk(w) \/ FetchErr(w)
             \/ DecodeErr(w) \/ Notify(w) \/ Return(w)
      PROVE  Aligned'
  <2>1. UNCHANGED <<map, frame>>
    BY <1>7
    DEF ClaimWait, Wake, FetchOk, FetchErr, DecodeErr, Notify, Return, cache
  <2>2. pc' = [pc EXCEPT ![w] = pc'[w]]
    BY <1>7
    DEF ClaimWait, Wake, FetchOk, FetchErr, DecodeErr, Notify, Return, TypeOK
  <2>3. \/ pc'[w] = pc[w]
        \/ pc[w] \in {"claim", "wait"} /\ pc'[w] \in {"claim", "wait"}
        \/ pc[w] = "fetch" /\ pc'[w] = "settle"
        \/ pc[w] \in {"fetch", "settle"} /\ pc'[w] = "abort"
        \/ /\ <<pc[w], pc'[w]>> \in {<<"settle", "ok">>, <<"abort", "err">>}
           /\ mi[w] > Len(missed[w])
    <3>1. w \in DOMAIN pc
      BY DEF TypeOK
    <3>2. CASE Return(w)
      BY <3>1, <3>2 DEF Return
    <3>3. CASE ClaimWait(w) \/ Wake(w) \/ Notify(w)
      BY <3>1, <3>3 DEF ClaimWait, Wake, Notify
    <3>4. CASE FetchOk(w) \/ FetchErr(w) \/ DecodeErr(w)
      BY <3>1, <3>4 DEF FetchOk, FetchErr, DecodeErr
    <3>5. QED
      BY <1>7, <3>2, <3>3, <3>4
  <2>4. QED
    BY <1>6, <2>1, <2>2, <2>3
<1>8. CASE UNCHANGED vars
  BY <1>8 DEF Aligned, OwnArrays, FrameAligned, vars
<1>9. QED
  BY <1>1, <1>2, <1>3, <1>4, <1>5, <1>7, <1>8 DEF Next, Step, Finished

\* What fetch_decoded returns Ok is, in both builds and for any overlap of
\* calls, failures, evictions and duplicate fetches, the tile of each key at
\* the key's own position, and no key ever serves another key's tile.
THEOREM AlignmentSafe == Spec => []ResultsAligned
<1>1. TypeOK /\ Aligned => ResultsAligned
  <2> SUFFICES ASSUME TypeOK, Aligned PROVE ResultsAligned
    OBVIOUS
  <2>1. ASSUME NEW w \in Workers, pc[w] = "ok"
        PROVE  out[w] = req[w]
    <3>1. /\ req[w] \in Seq(Keys) /\ out[w] \in Seq(Keys \cup {NoTile})
          /\ Len(missed[w]) \in Nat /\ mi[w] \in Nat
      BY DEF TypeOK
    <3>2. FrameAligned(w)
      BY DEF Aligned
    <3>3. Len(out[w]) = Len(req[w]) /\ mi[w] > Len(missed[w])
      BY <2>1, <3>2 DEF FrameAligned, Returned
    <3>4. \A i \in 1..Len(out[w]) : out[w][i] = req[w][i]
      BY <2>1, <3>1, <3>2, <3>3 DEF FrameAligned
    <3>5. QED
      BY <3>1, <3>3, <3>4
  <2>2. QED
    BY <2>1 DEF Aligned, OwnArrays, ResultsAligned, ReadyIn
<1>2. QED
  BY <1>1, InitAligned, NextAligned, TypeCorrect, PTL DEF Spec

-----------------------------------------------------------------------------
\* Single flight.

\* The duties of a call depend on its own frame only.
LEMMA SameDuties ==
  ASSUME NEW v \in Workers,
         req'[v] = req[v], missed'[v] = missed[v], mi'[v] = mi[v]
  PROVE  Duties(v)' = Duties(v)
BY DEF Duties

\* A call that has returned owes nothing.
LEMMA NothingOwed ==
  ASSUME TypeOK, NEW w \in Workers, FrameAligned(w), pc[w] \in Returned
  PROVE  Duties(w) = {}
<1>1. mi[w] > Len(missed[w]) /\ mi[w] \in Nat /\ Len(missed[w]) \in Nat
  BY DEF FrameAligned, TypeOK
<1>2. QED
  BY <1>1 DEF Duties

\* The key a call claims is not one that it owes already.
LEMMA ClaimingFresh ==
  ASSUME TypeOK, FramesOK, NEW w \in Workers, FrameAligned(w),
         pc[w] \in {"claim", "wait"}
  PROVE  Claiming(w) \notin Duties(w)
<1>1. /\ Len(out[w]) + 1 \in 1..Len(req[w]) /\ Len(out[w]) \in Nat
      /\ mi[w] = 1 /\ Len(missed[w]) \in Nat
  <2>1. Len(out[w]) + 1 \in 1..Len(req[w])
    BY ClaimingKey
  <2>2. out[w] \in Seq(Keys \cup {NoTile}) /\ missed[w] \in Seq(Nat)
    BY DEF TypeOK
  <2>3. Len(out[w]) \in Nat /\ Len(missed[w]) \in Nat
    BY <2>2
  <2>4. mi[w] = 1
    BY DEF FrameAligned
  <2>5. QED
    BY <2>1, <2>3, <2>4
<1>2. SUFFICES ASSUME NEW j \in 1..Len(missed[w]),
                      req[w][Len(out[w]) + 1] = req[w][missed[w][j]]
               PROVE  FALSE
  BY <1>1 DEF Duties, Claiming
<1>3. missed[w][j] \in 1..Len(out[w]) /\ missed[w][j] \in 1..Len(req[w])
  BY DEF FrameAligned, FramesOK
<1>4. Len(out[w]) + 1 = missed[w][j]
  BY <1>1, <1>2, <1>3, DistinctKeys
<1>5. QED
  BY <1>1, <1>3, <1>4

\* A claim that misses makes its key a duty of the call.
LEMMA ClaimDuties ==
  ASSUME TypeOK, FramesOK, NEW w \in Workers, FrameAligned(w), ClaimMine(w)
  PROVE  /\ Duties(w)' = Duties(w) \cup {Claiming(w)}
         /\ \A v \in Workers \ {w} : Duties(v)' = Duties(v)
<1> DEFINE n == Len(out[w]) + 1
<1>1. /\ missed[w] \in Seq(Nat) /\ Len(missed[w]) \in Nat /\ mi[w] = 1
      /\ n \in Nat
  BY DEF TypeOK, FrameAligned, ClaimMine
<1>2. /\ missed'[w] = Append(missed[w], n) /\ mi'[w] = 1 /\ req'[w] = req[w]
      /\ \A v \in Workers \ {w} : /\ missed'[v] = missed[v] /\ mi'[v] = mi[v]
                                  /\ req'[v] = req[v]
  BY <1>1 DEF ClaimMine, TypeOK
<1>3. /\ Len(missed'[w]) = Len(missed[w]) + 1 /\ missed'[w][Len(missed[w]) + 1] = n
      /\ \A j \in 1..Len(missed[w]) : missed'[w][j] = missed[w][j]
  BY <1>1, <1>2
<1>4. 1..Len(missed[w]) + 1 = (1..Len(missed[w])) \cup {Len(missed[w]) + 1}
  BY <1>1
<1>5. Duties(w)' = {req[w][missed'[w][j]] : j \in 1..Len(missed[w]) + 1}
  BY <1>2, <1>3 DEF Duties
<1>6. Duties(w)' = {req[w][missed[w][j]] : j \in 1..Len(missed[w])} \cup {req[w][n]}
  BY <1>3, <1>4, <1>5
<1>7. QED
  BY <1>1, <1>2, <1>6, SameDuties DEF Duties, Claiming

\* Settling a miss, by fulfill or by abort, discharges exactly that duty.
LEMMA SettleDuties ==
  ASSUME TypeOK, FramesOK, NEW w \in Workers, FrameAligned(w),
         mi[w] <= Len(missed[w]),
         mi' = [mi EXCEPT ![w] = @ + 1], UNCHANGED <<req, missed>>
  PROVE  LET k == req[w][missed[w][mi[w]]] IN
           /\ k \in Duties(w)
           /\ Duties(w)' = Duties(w) \ {k}
           /\ \A v \in Workers \ {w} : Duties(v)' = Duties(v)
<1> DEFINE m == missed[w]
           r == req[w]
           b == mi[w]
           k == r[m[b]]
<1>1. m \in Seq(Nat) /\ Len(m) \in Nat /\ b \in 1..Len(m)
  BY DEF TypeOK, FramesOK
<1>2. /\ mi'[w] = b + 1 /\ missed'[w] = m /\ req'[w] = r
      /\ \A v \in Workers \ {w} : /\ missed'[v] = missed[v] /\ mi'[v] = mi[v]
                                  /\ req'[v] = req[v]
  BY DEF TypeOK
<1>3. \A j \in b + 1..Len(m) : r[m[j]] # k
  <2> SUFFICES ASSUME NEW j \in b + 1..Len(m), r[m[j]] = k
               PROVE  FALSE
    OBVIOUS
  <2>1. j \in 1..Len(m) /\ b < j
    BY <1>1
  <2>2. m[b] < m[j] /\ m[j] \in 1..Len(r) /\ m[b] \in 1..Len(r)
    BY <1>1, <2>1 DEF FrameAligned, FramesOK
  <2>3. m[b] = m[j]
    BY <2>2, DistinctKeys
  <2>4. QED
    BY <2>2, <2>3
<1>4. b..Len(m) = {b} \cup (b + 1..Len(m))
  BY <1>1
<1>5. Duties(w) = {r[m[j]] : j \in b..Len(m)}
  BY DEF Duties
<1>6. Duties(w)' = {r[m[j]] : j \in b + 1..Len(m)}
  BY <1>2 DEF Duties
<1>7. k \in Duties(w) /\ Duties(w)' = Duties(w) \ {k}
  BY <1>3, <1>4, <1>5, <1>6
<1>8. QED
  BY <1>2, <1>7, SameDuties

\* Discharging a duty together with its Pending slot keeps single flight.
LEMMA SettleFlight ==
  ASSUME SingleFlight, NEW w \in Workers, NEW k \in Duties(w),
         Duties(w)' = Duties(w) \ {k},
         \A v \in Workers \ {w} : Duties(v)' = Duties(v),
         \A j \in Keys : map'[j].slot = "Pending" <=> map[j].slot = "Pending" /\ j # k
  PROVE  SingleFlight'
<1> SUFFICES ASSUME ~Wasm, NEW j \in Keys
             PROVE  /\ map'[j].slot = "Pending" <=> \E v \in Workers : j \in Duties(v)'
                    /\ \A u, v \in Workers : j \in Duties(u)' \cap Duties(v)' => u = v
  BY DEF SingleFlight
<1>1. /\ map[j].slot = "Pending" <=> \E v \in Workers : j \in Duties(v)
      /\ \A u, v \in Workers : j \in Duties(u) \cap Duties(v) => u = v
  BY DEF SingleFlight
<1>2. \A v \in Workers : Duties(v)' \subseteq Duties(v)
  OBVIOUS
<1>3. CASE j = k
  <2>1. \A v \in Workers : k \notin Duties(v)'
    BY <1>1, <1>3
  <2>2. QED
    BY <1>3, <2>1
<1>4. CASE j # k
  <2>1. \A v \in Workers : j \in Duties(v)' <=> j \in Duties(v)
    BY <1>4
  <2>2. QED
    BY <1>1, <1>4, <2>1
<1>5. QED
  BY <1>3, <1>4

\* fulfill replaces its own Pending slot and evicts Ready ones only.
LEMMA FulfillPending ==
  ASSUME TypeOK, NEW w \in Workers, NEW k \in Keys, NEW E \in SUBSET Keys,
         Publishes(w, k, E)
  PROVE  \A j \in Keys : /\ map'[j].slot = "Pending" <=> map[j].slot = "Pending" /\ j # k
                         /\ map'[j].slot = "Pending" => map'[j] = map[j]
<1> DEFINE inserted == [map EXCEPT ![k] = Ready(k, tick + 1)]
<1>1. \A j \in Keys : inserted[j] = IF j = k THEN Ready(k, tick + 1) ELSE map[j]
  BY DEF TypeOK
<1>2. \A j \in Keys : map'[j] = IF j \in E THEN Vacant ELSE inserted[j]
  BY DEF Publishes
<1>3. \A j \in E : inserted[j].slot = "Ready"
  BY DEF Publishes, ReadyIn
<1>4. Ready(k, tick + 1).slot = "Ready" /\ Vacant.slot = "None"
  BY DEF Ready, Vacant
<1> HIDE DEF inserted
<1>5. QED
  BY <1>1, <1>2, <1>3, <1>4

\* Steps that change neither a Pending slot nor a duty keep single flight.
LEMMA SameFlight ==
  ASSUME SingleFlight,
         \A v \in Workers : Duties(v)' = Duties(v),
         \A j \in Keys : map'[j].slot = "Pending" <=> map[j].slot = "Pending"
  PROVE  SingleFlight'
BY DEF SingleFlight

\* Every step keeps single flight.
LEMMA NextFlight ==
  TypeOK /\ FramesOK /\ Aligned /\ SingleFlight /\ [Next]_vars => SingleFlight'
<1> SUFFICES ASSUME TypeOK, FramesOK, Aligned, SingleFlight, [Next]_vars
             PROVE  SingleFlight'
  OBVIOUS
<1>0. \A v \in Workers : FrameAligned(v)
  BY DEF Aligned
<1>1. ASSUME NEW w \in Workers, Start(w)
      PROVE  SingleFlight'
  <2>1. Duties(w) = {}
    BY <1>0, <1>1, NothingOwed DEF Start
  <2>2. missed'[w] = <<>> /\ mi'[w] = 1
    BY <1>1 DEF Start, TypeOK
  <2>3. Duties(w)' = {}
    BY <2>2 DEF Duties
  <2>4. \A v \in Workers \ {w} : Duties(v)' = Duties(v)
    BY <1>1, SameDuties DEF Start, TypeOK
  <2>5. map' = map
    BY <1>1 DEF Start, cache
  <2>6. QED
    BY <2>1, <2>3, <2>4, <2>5, SameFlight
<1>2. ASSUME NEW w \in Workers, ClaimHit(w)
      PROVE  SingleFlight'
  <2>1. Claiming(w) \in Keys
    BY <1>2, ClaimingKey DEF ClaimHit
  <2>2. \A j \in Keys : map'[j].slot = "Pending" <=> map[j].slot = "Pending"
    BY <1>2, <2>1 DEF ClaimHit, Ready, TypeOK
  <2>3. \A v \in Workers : Duties(v)' = Duties(v)
    BY <1>2, SameDuties DEF ClaimHit
  <2>4. QED
    BY <2>2, <2>3, SameFlight
<1>3. ASSUME NEW w \in Workers, ClaimMine(w)
      PROVE  SingleFlight'
  <2> SUFFICES ASSUME ~Wasm
               PROVE  SingleFlight'
    BY DEF SingleFlight
  <2> DEFINE k == Claiming(w)
  <2>1. k \in Keys
    BY <1>3, ClaimingKey DEF ClaimMine
  <2>2. map[k] = Vacant /\ map' = [map EXCEPT ![k] = Pending(tick + 1)]
    BY <1>3 DEF ClaimMine, TakesPending
  <2>3. /\ Duties(w)' = Duties(w) \cup {k}
        /\ \A v \in Workers \ {w} : Duties(v)' = Duties(v)
    BY <1>0, <1>3, ClaimDuties
  <2>4. \A v \in Workers : k \notin Duties(v)
    BY <2>1, <2>2, VacantSlot DEF SingleFlight
  <2>5. /\ map'[k].slot = "Pending"
        /\ \A j \in Keys \ {k} : map'[j] = map[j]
    BY <2>1, <2>2 DEF TypeOK, Pending
  <2> HIDE DEF k
  <2>6. QED
    BY <2>1, <2>3, <2>4, <2>5 DEF SingleFlight
<1>4. ASSUME NEW w \in Workers, Fulfill(w)
      PROVE  SingleFlight'
  <2> DEFINE k == req[w][missed[w][mi[w]]]
  <2>1. /\ k \in Duties(w) /\ Duties(w)' = Duties(w) \ {k}
        /\ \A v \in Workers \ {w} : Duties(v)' = Duties(v)
    BY <1>0, <1>4, SettleDuties DEF Fulfill
  <2>2. k \in Keys /\ \E E \in SUBSET Keys : Publishes(w, k, E)
    BY <1>4, FulfillPublishes
  <2>3. \A j \in Keys : map'[j].slot = "Pending" <=> map[j].slot = "Pending" /\ j # k
    BY <2>2, FulfillPending
  <2>4. QED
    BY <2>1, <2>3, SettleFlight
<1>5. ASSUME NEW w \in Workers, Abort(w)
      PROVE  SingleFlight'
  <2> DEFINE k == req[w][missed[w][mi[w]]]
  <2>1. /\ k \in Duties(w) /\ Duties(w)' = Duties(w) \ {k}
        /\ \A v \in Workers \ {w} : Duties(v)' = Duties(v)
    BY <1>0, <1>5, SettleDuties DEF Abort
  <2>2. k \in Keys
    BY <1>5, SettledKey DEF Abort
  <2>3. map' = [map EXCEPT ![k] = TakenBack(@)]
    BY <1>5 DEF Abort, SettlePos
  <2>4. \A j \in Keys : map'[j].slot = "Pending" <=> map[j].slot = "Pending" /\ j # k
    BY <2>2, <2>3, VacantSlot DEF TakenBack, TypeOK
  <2>5. QED
    BY <2>1, <2>4, SettleFlight
<1>6. CASE UNCHANGED <<map, frame>>
  BY <1>6, SameDuties, SameFlight DEF frame
<1>7. QED
  BY <1>1, <1>2, <1>3, <1>4, <1>5, <1>6
  DEF Next, Step, Finished, vars, cache, frame, ClaimWait, Wake, FetchOk, FetchErr,
      DecodeErr, Notify, Return

\* Single flight in the native build, for any number of calls and keys: a
\* Pending key has exactly one call that owes its settlement, two calls never
\* fetch the same key at once, and a key that is not Pending is owed by
\* nobody.
THEOREM FlightSafe == Spec => []SingleFlight
<1>1. Init => SingleFlight
  <2> SUFFICES ASSUME Init PROVE SingleFlight
    OBVIOUS
  <2>1. \A w \in Workers : Duties(w) = {}
    BY DEF Init, Duties
  <2>2. \A k \in Keys : map[k].slot = "None"
    BY VacantSlot DEF Init
  <2>3. QED
    BY <2>1, <2>2 DEF SingleFlight
<1>2. QED
  BY <1>1, InitAligned, NextAligned, NextFlight, TypeCorrect, PTL DEF Spec

-----------------------------------------------------------------------------
\* No lost wakeup.

\* The wasm build never blocks.
NeverBlocks == Wasm => \A w \in Workers : pc[w] # "wait"

\* The signal a blocked call waits for is set, about to be set, or still to
\* come from the call that owes the key.
Awaited(w) ==
  \/ sig[w] = NoSig
  \/ \E v \in Workers \ {w} : notify[v] = sig[w]
  \/ /\ map[Claiming(w)] = Pending(sig[w])
     /\ \E v \in Workers \ {w} : Claiming(w) \in Duties(v)

\* A step that moves neither the blocked call nor a signal, and that leaves
\* the Pending slots and the duties of others in place, keeps the call awaited.
LEMMA SameAwaited ==
  ASSUME NEW w \in Workers, Awaited(w),
         sig'[w] = sig[w], req'[w] = req[w], out'[w] = out[w],
         \A v \in Workers : notify[v] # NoSig => notify'[v] = notify[v],
         map[Claiming(w)].slot = "Pending" => map'[Claiming(w)] = map[Claiming(w)],
         \A v \in Workers \ {w} :
           Claiming(w) \in Duties(v) => Claiming(w) \in Duties(v)'
  PROVE  Awaited(w)'
<1>1. Claiming(w)' = Claiming(w)
  BY DEF Claiming
<1>2. CASE sig[w] = NoSig
  BY <1>2 DEF Awaited
<1>3. CASE sig[w] # NoSig /\ \E v \in Workers \ {w} : notify[v] = sig[w]
  BY <1>3 DEF Awaited
<1>4. CASE /\ map[Claiming(w)] = Pending(sig[w])
           /\ \E v \in Workers \ {w} : Claiming(w) \in Duties(v)
  <2>1. map[Claiming(w)].slot = "Pending"
    BY <1>4 DEF Pending
  <2>2. map'[Claiming(w)] = Pending(sig'[w])
    BY <1>4, <2>1
  <2>3. QED
    BY <1>1, <1>4, <2>2 DEF Awaited
<1>5. QED
  BY <1>2, <1>3, <1>4 DEF Awaited

\* A settlement of another call's key either is of another key, or hands its
\* caller the very signal that the blocked call waits for.
LEMMA SettleAwaited ==
  ASSUME TypeOK, NEW w \in Workers, NEW x \in Workers \ {w}, NEW k \in Keys,
         Awaited(w), Claiming(w) \in Keys, notify[x] = NoSig,
         notify' = [notify EXCEPT ![x] = SignalOf(map[k])],
         UNCHANGED <<sig, req>>, out'[w] = out[w],
         \A j \in Keys \ {k} : map[j].slot = "Pending" => map'[j] = map[j],
         Duties(x)' = Duties(x) \ {k},
         \A v \in Workers \ {x} : Duties(v)' = Duties(v)
  PROVE  Awaited(w)'
<1>1. /\ \A v \in Workers \ {x} : notify'[v] = notify[v]
      /\ notify'[x] = SignalOf(map[k])
  BY DEF TypeOK
<1>2. CASE Claiming(w) # k
  <2>1. \A v \in Workers : notify[v] # NoSig => notify'[v] = notify[v]
    BY <1>1
  <2>2. map[Claiming(w)].slot = "Pending" => map'[Claiming(w)] = map[Claiming(w)]
    BY <1>2
  <2>3. \A v \in Workers \ {w} :
          Claiming(w) \in Duties(v) => Claiming(w) \in Duties(v)'
    BY <1>2
  <2>4. QED
    BY <2>1, <2>2, <2>3, SameAwaited
<1>3. CASE Claiming(w) = k
  <2>1. CASE sig[w] = NoSig
    BY <2>1 DEF Awaited
  <2>2. CASE sig[w] # NoSig /\ \E v \in Workers \ {w} : notify[v] = sig[w]
    BY <1>1, <2>2 DEF Awaited
  <2>3. CASE map[Claiming(w)] = Pending(sig[w])
    <3>1. SignalOf(map[k]) = sig[w]
      BY <1>3, <2>3 DEF SignalOf, Pending
    <3>2. QED
      BY <1>1, <3>1 DEF Awaited
  <2>4. QED
    BY <2>1, <2>2, <2>3 DEF Awaited
<1>4. QED
  BY <1>2, <1>3

\* Every step keeps the wasm build from blocking.
LEMMA NextNeverBlocks == TypeOK /\ NeverBlocks /\ [Next]_vars => NeverBlocks'
<1> SUFFICES ASSUME TypeOK, NeverBlocks, [Next]_vars, Wasm, NEW w \in Workers
             PROVE  pc'[w] # "wait"
  BY DEF NeverBlocks
<1>1. pc[w] # "wait"
  BY DEF NeverBlocks
<1>2. ASSUME NEW v \in Workers, Start(v)
      PROVE  pc'[w] # "wait"
  BY <1>1, <1>2 DEF Start, AfterClaim, TypeOK
<1>3. ASSUME NEW v \in Workers, Step(v)
      PROVE  pc'[w] # "wait"
  <2>1. pc' = pc \/ \E p : pc' = [pc EXCEPT ![v] = p] /\ p # "wait"
    BY <1>3 DEF Step, ClaimHit, ClaimMine, ClaimWait, Wake, FetchOk, FetchErr,
                Fulfill, DecodeErr, Abort, Notify, Return, AfterClaim
  <2>2. QED
    BY <1>1, <2>1 DEF TypeOK
<1>4. CASE UNCHANGED vars
  BY <1>1, <1>4 DEF vars
<1>5. QED
  BY <1>2, <1>3, <1>4 DEF Next, Finished

\* Every step keeps every blocked call awaited.
LEMMA NextWakeup ==
  /\ TypeOK /\ FramesOK /\ Aligned /\ SingleFlight /\ NeverBlocks
  /\ NoLostWakeup /\ [Next]_vars
  => NoLostWakeup'
<1> SUFFICES ASSUME TypeOK, FramesOK, Aligned, SingleFlight, NeverBlocks,
                    NoLostWakeup, [Next]_vars, NEW w \in Workers, pc'[w] = "wait"
             PROVE  Awaited(w)'
  BY DEF NoLostWakeup, Awaited
<1>0. \A v \in Workers : FrameAligned(v)
  BY DEF Aligned
<1>1. ~Wasm
  BY NextNeverBlocks DEF NeverBlocks
<1>2. pc[w] = "wait" => Awaited(w) /\ Claiming(w) \in Keys
  BY ClaimingKey DEF NoLostWakeup, Awaited
<1>3. ASSUME NEW x \in Workers, Start(x)
      PROVE  Awaited(w)'
  <2>1. x # w /\ pc[w] = "wait"
    BY <1>3 DEF Start, AfterClaim, TypeOK
  <2>2. Duties(x) = {}
    BY <1>0, <1>3, NothingOwed DEF Start
  <2>3. \A v \in Workers \ {x} : Duties(v)' = Duties(v)
    BY <1>3, SameDuties DEF Start, TypeOK
  <2>4. QED
    BY <1>2, <1>3, <2>1, <2>2, <2>3, SameAwaited DEF Start, cache, TypeOK
<1>4. ASSUME NEW x \in Workers, ClaimHit(x)
      PROVE  Awaited(w)'
  <2>1. x # w /\ pc[w] = "wait"
    BY <1>4 DEF ClaimHit, AfterClaim, TypeOK
  <2>2. map[Claiming(w)].slot = "Pending" => map'[Claiming(w)] = map[Claiming(w)]
    BY <1>4 DEF ClaimHit, TypeOK
  <2>3. \A v \in Workers : Duties(v)' = Duties(v)
    BY <1>4, SameDuties DEF ClaimHit
  <2>4. QED
    BY <1>2, <1>4, <2>1, <2>2, <2>3, SameAwaited DEF ClaimHit, TypeOK
<1>5. ASSUME NEW x \in Workers, ClaimMine(x)
      PROVE  Awaited(w)'
  <2>1. x # w /\ pc[w] = "wait"
    BY <1>5 DEF ClaimMine, AfterClaim, TypeOK
  <2>2. map[Claiming(w)].slot = "Pending" => map'[Claiming(w)] = map[Claiming(w)]
    <3>1. \/ /\ map[Claiming(x)] = Vacant
             /\ map' = [map EXCEPT ![Claiming(x)] = Pending(tick + 1)]
          \/ map' = map
      BY <1>5 DEF ClaimMine
    <3>2. Vacant.slot # "Pending"
      BY VacantSlot
    <3>3. CASE map' = map
      BY <3>3
    <3>4. CASE /\ map[Claiming(x)] = Vacant
               /\ map' = [map EXCEPT ![Claiming(x)] = Pending(tick + 1)]
      <4>1. Claiming(w) \in DOMAIN map
        BY <1>2, <2>1 DEF TypeOK
      <4>2. CASE Claiming(w) = Claiming(x)
        BY <3>2, <3>4, <4>2
      <4>3. CASE Claiming(w) # Claiming(x)
        BY <3>4, <4>1, <4>3
      <4>4. QED
        BY <4>2, <4>3
    <3>5. QED
      BY <3>1, <3>3, <3>4
  <2>3. \A v \in Workers : Duties(v) \subseteq Duties(v)'
    BY <1>0, <1>5, ClaimDuties
  <2>4. QED
    BY <1>2, <1>5, <2>1, <2>2, <2>3, SameAwaited DEF ClaimMine, TypeOK
<1>6. ASSUME NEW x \in Workers, ClaimWait(x)
      PROVE  Awaited(w)'
  <2>1. \A v \in Workers : Duties(v)' = Duties(v)
    BY <1>6, SameDuties DEF ClaimWait, frame
  <2>2. CASE x = w
    <3> DEFINE k == Claiming(w)
    <3>1. k \in Keys /\ k \notin Duties(w)
      BY <1>0, <1>6, <2>2, ClaimingKey, ClaimingFresh DEF ClaimWait
    <3>2. map[k].slot = "Pending" /\ sig'[w] = map[k].sig /\ map' = map
      BY <1>6, <2>2 DEF ClaimWait, TypeOK
    <3>3. map[k] = Pending(map[k].sig)
      BY <3>1, <3>2, SlotFields DEF TypeOK
    <3>4. \E v \in Workers \ {w} : k \in Duties(v)
      BY <1>1, <3>1, <3>2 DEF SingleFlight
    <3>5. Claiming(w)' = k
      BY <1>6 DEF ClaimWait, frame, Claiming
    <3> HIDE DEF k
    <3>6. QED
      BY <2>1, <3>2, <3>3, <3>4, <3>5 DEF Awaited
  <2>3. CASE x # w
    <3>1. pc[w] = "wait" /\ sig'[w] = sig[w]
      BY <1>6, <2>3 DEF ClaimWait, TypeOK
    <3>2. QED
      BY <1>2, <1>6, <2>1, <3>1, SameAwaited DEF ClaimWait, frame
  <2>4. QED
    BY <2>2, <2>3
<1>7. ASSUME NEW x \in Workers, Fulfill(x)
      PROVE  Awaited(w)'
  <2> DEFINE k == req[x][missed[x][mi[x]]]
  <2>1. x # w /\ pc[w] = "wait"
    BY <1>7 DEF Fulfill
  <2>2. k \in Keys /\ \E E \in SUBSET Keys : Publishes(x, k, E)
    BY <1>7, FulfillPublishes
  <2>3. \A j \in Keys \ {k} : map[j].slot = "Pending" => map'[j] = map[j]
    BY <2>2, FulfillPending
  <2>4. /\ Duties(x)' = Duties(x) \ {k}
        /\ \A v \in Workers \ {x} : Duties(v)' = Duties(v)
    BY <1>0, <1>7, SettleDuties DEF Fulfill
  <2>5. /\ notify[x] = NoSig /\ notify' = [notify EXCEPT ![x] = SignalOf(map[k])]
        /\ UNCHANGED <<sig, req>> /\ out'[w] = out[w]
    BY <1>7, <2>1 DEF Fulfill, SettlePos, TypeOK
  <2>6. QED
    BY <1>2, <2>1, <2>2, <2>3, <2>4, <2>5, SettleAwaited
<1>8. ASSUME NEW x \in Workers, Abort(x)
      PROVE  Awaited(w)'
  <2> DEFINE k == req[x][missed[x][mi[x]]]
  <2>1. x # w /\ pc[w] = "wait"
    BY <1>8 DEF Abort
  <2>2. k \in Keys
    BY <1>8, SettledKey DEF Abort
  <2>3. \A j \in Keys \ {k} : map[j].slot = "Pending" => map'[j] = map[j]
    BY <1>8, <2>2 DEF Abort, SettlePos, TypeOK
  <2>4. /\ Duties(x)' = Duties(x) \ {k}
        /\ \A v \in Workers \ {x} : Duties(v)' = Duties(v)
    BY <1>0, <1>8, SettleDuties DEF Abort
  <2>5. /\ notify[x] = NoSig /\ notify' = [notify EXCEPT ![x] = SignalOf(map[k])]
        /\ UNCHANGED <<sig, req>> /\ out'[w] = out[w]
    BY <1>8 DEF Abort, SettlePos
  <2>6. QED
    BY <1>2, <2>1, <2>2, <2>3, <2>4, <2>5, SettleAwaited
<1>9. ASSUME NEW x \in Workers, Notify(x)
      PROVE  Awaited(w)'
  <2>1. pc[w] = "wait" /\ UNCHANGED <<map, req, out>>
    BY <1>9 DEF Notify, cache, frame
  <2>2. \A v \in Workers : Duties(v)' = Duties(v)
    BY <1>9, SameDuties DEF Notify, frame
  <2>3. CASE sig[w] = NoSig \/ sig[w] = notify[x]
    BY <1>9, <2>3 DEF Notify, Awaited
  <2>4. CASE sig[w] # NoSig /\ sig[w] # notify[x]
    <3>1. sig'[w] = sig[w] /\ \A v \in Workers \ {x} : notify'[v] = notify[v]
      BY <1>9, <2>4 DEF Notify, TypeOK
    <3>2. Claiming(w)' = Claiming(w)
      BY <2>1 DEF Claiming
    <3>3. QED
      BY <1>2, <2>1, <2>2, <2>4, <3>1, <3>2 DEF Awaited
  <2>5. QED
    BY <2>3, <2>4
<1>10. CASE UNCHANGED <<map, frame, sig, notify>> /\ pc[w] = "wait"
  BY <1>2, <1>10, SameDuties, SameAwaited DEF frame
<1>11. ASSUME NEW x \in Workers,
              \/ Wake(x) \/ FetchOk(x) \/ FetchErr(x) \/ DecodeErr(x) \/ Return(x)
       PROVE  Awaited(w)'
  <2>1. UNCHANGED <<map, frame, sig, notify>>
    BY <1>11 DEF Wake, FetchOk, FetchErr, DecodeErr, Return, cache
  <2>2. pc[w] = "wait"
    BY <1>11 DEF Wake, FetchOk, FetchErr, DecodeErr, Return, TypeOK
  <2>3. QED
    BY <1>10, <2>1, <2>2
<1>12. CASE UNCHANGED vars
  BY <1>10, <1>12 DEF vars, frame
<1>13. QED
  BY <1>3, <1>4, <1>5, <1>6, <1>7, <1>8, <1>9, <1>11, <1>12
  DEF Next, Step, Finished

\* No wakeup is lost, whatever the number of calls, keys and signals: a call
\* blocked in wait() has had its flag set, or some other call is about to set
\* it, or the slot it waits for is still Pending and another call owes it.
THEOREM WakeupSafe == Spec => []NoLostWakeup
<1>1. Init => NoLostWakeup /\ NeverBlocks
  BY DEF Init, NoLostWakeup, NeverBlocks
<1>2. QED
  BY <1>1, InitAligned, NextAligned, FlightSafe, NextNeverBlocks, NextWakeup,
     TypeCorrect, PTL DEF Spec

-----------------------------------------------------------------------------
(***************************************************************************)
(* What callers see: the order of eviction, that a fresh tile stays, and     *)
(* that the native build implements TileStore.                               *)
(***************************************************************************)

\* No entry was used after the current tick.
StampsPast == \A k \in Keys : map[k].slot = "Ready" => map[k].last_used <= tick

\* The empty cache has no stamps.
LEMMA InitStamps == Init => StampsPast
BY VacantSlot DEF Init, StampsPast

\* Every step that stamps an entry stamps it with the new tick.
LEMMA NextStamps == TypeOK /\ FramesOK /\ StampsPast /\ [Next]_vars => StampsPast'
<1> SUFFICES ASSUME TypeOK, FramesOK, StampsPast, [Next]_vars, NEW k \in Keys,
                    map'[k].slot = "Ready"
             PROVE  map'[k].last_used <= tick'
  BY DEF StampsPast
<1>0. tick \in Nat /\ (map[k].slot = "Ready" => map[k].last_used \in Nat /\ map[k].last_used <= tick)
  BY SlotFields DEF TypeOK, StampsPast
<1>1. ASSUME NEW w \in Workers, ClaimHit(w)
      PROVE  map'[k].last_used <= tick'
  BY <1>0, <1>1 DEF ClaimHit, Ready, TypeOK
<1>2. ASSUME NEW w \in Workers, ClaimMine(w)
      PROVE  map'[k].last_used <= tick'
  <2>1. map' = [map EXCEPT ![Claiming(w)] = Pending(tick + 1)] \/ map' = map
    BY <1>2 DEF ClaimMine
  <2>2. map'[k] = map[k]
    BY <2>1 DEF Pending, TypeOK
  <2>3. QED
    BY <1>0, <1>2, <2>2 DEF ClaimMine
<1>3. ASSUME NEW w \in Workers, Fulfill(w)
      PROVE  map'[k].last_used <= tick'
  <2> DEFINE f == req[w][missed[w][mi[w]]]
  <2>1. PICK E \in SUBSET Keys : Publishes(w, f, E)
    BY <1>3, FulfillPublishes
  <2>2. map'[k] = Ready(f, tick + 1) \/ map'[k] = map[k]
    BY <2>1 DEF Publishes, Vacant, TypeOK
  <2>3. tick' = tick + 1
    BY <1>3 DEF Fulfill
  <2>4. CASE map'[k] = map[k]
    BY <1>0, <2>3, <2>4
  <2>5. CASE map'[k] = Ready(f, tick + 1)
    BY <1>0, <2>3, <2>5 DEF Ready
  <2>6. QED
    BY <2>2, <2>4, <2>5
<1>4. ASSUME NEW w \in Workers, Abort(w)
      PROVE  map'[k].last_used <= tick'
  <2>1. map'[k] = map[k]
    BY <1>4, VacantSlot DEF Abort, TakenBack, TypeOK
  <2>2. QED
    BY <1>0, <1>4, <2>1 DEF Abort
<1>5. CASE map' = map /\ (tick' = tick \/ tick' = tick + 1)
  BY <1>0, <1>5
<1>6. QED
  BY <1>1, <1>2, <1>3, <1>4, <1>5
  DEF Next, Step, Finished, vars, cache, Start, ClaimWait, Wake, FetchOk, FetchErr,
      DecodeErr, Notify, Return

-----------------------------------------------------------------------------
\* The eviction.

\* What an insertion leaves of the stamps: the new tile's is the newest.
LEMMA InsertedStamps ==
  ASSUME TypeOK, StampsPast, NEW k \in Keys
  PROVE  LET m == [map EXCEPT ![k] = Ready(k, tick + 1)] IN
           /\ ReadyIn(m) = ReadyIn(map) \cup {k}
           /\ m[k].last_used = tick + 1
           /\ \A j \in ReadyIn(m) \ {k} :
                m[j] = map[j] /\ m[j].last_used \in Nat /\ m[j].last_used < tick + 1
<1> DEFINE m == [map EXCEPT ![k] = Ready(k, tick + 1)]
<1>1. ReadyIn(m) = ReadyIn(map) \cup {k}
  BY ReadyAfterInsert DEF TypeOK
<1>2. m[k].last_used = tick + 1
  BY DEF Ready, TypeOK
<1>3. ASSUME NEW j \in ReadyIn(m) \ {k}
      PROVE  m[j] = map[j] /\ m[j].last_used \in Nat /\ m[j].last_used < tick + 1
  <2>1. j \in Keys /\ j # k /\ map[j].slot = "Ready"
    BY <1>1, <1>3 DEF ReadyIn
  <2>2. m[j] = map[j]
    BY <2>1 DEF TypeOK
  <2>3. map[j].last_used \in Nat /\ map[j].last_used <= tick /\ tick \in Nat
    BY <2>1, SlotFields DEF TypeOK, StampsPast
  <2>4. QED
    BY <2>2, <2>3
<1>4. QED
  BY <1>1, <1>2, <1>3

\* A loop that evicts the tile just inserted has evicted everything.
LEMMA FreshIsLast ==
  ASSUME TypeOK, StampsPast, NEW w \in Workers, NEW k \in Keys,
         NEW E \in SUBSET Keys, Publishes(w, k, E), k \in E
  PROVE  E = ReadyIn(map) \cup {k}
<1> DEFINE m == [map EXCEPT ![k] = Ready(k, tick + 1)]
<1>1. /\ ReadyIn(m) = ReadyIn(map) \cup {k} /\ m[k].last_used = tick + 1
      /\ \A j \in ReadyIn(m) \ {k} :
           m[j].last_used \in Nat /\ m[j].last_used < tick + 1
  BY InsertedStamps
<1>2. E \in SUBSET ReadyIn(m) /\ Oldest(m, E)
  BY DEF Publishes, Evicts
<1>3. \A j \in ReadyIn(m) \ E : m[k].last_used < m[j].last_used
  BY <1>2 DEF Oldest
<1>4. tick \in Nat
  BY DEF TypeOK
<1> HIDE DEF m
<1>5. ReadyIn(m) \ E = {}
  BY <1>1, <1>3, <1>4
<1>6. QED
  BY <1>1, <1>2, <1>5

\* What fulfill leaves of the map.
LEMMA AfterPublish ==
  ASSUME TypeOK, NEW w \in Workers, NEW k \in Keys, NEW E \in SUBSET Keys,
         Publishes(w, k, E)
  PROVE  /\ ReadyIn(map') = (ReadyIn(map) \cup {k}) \ E
         /\ E \subseteq ReadyIn(map) \cup {k}
<1> DEFINE m == [map EXCEPT ![k] = Ready(k, tick + 1)]
<1>1. ReadyIn(m) = ReadyIn(map) \cup {k}
  BY ReadyAfterInsert DEF TypeOK
<1>2. map' = [j \in Keys |-> IF j \in E THEN Vacant ELSE m[j]]
  BY DEF Publishes
<1>3. ReadyIn(map') = ReadyIn(m) \ E
  BY <1>2 DEF ReadyIn, Vacant
<1>4. E \subseteq ReadyIn(m)
  BY DEF Publishes
<1>5. QED
  BY <1>1, <1>3, <1>4

\* A tile leaves the map only by eviction and only before every tile that
\* was used later.
LEMMA FulfillIsLRU ==
  ASSUME TypeOK, StampsPast, NEW w \in Workers, NEW f \in Keys,
         NEW E \in SUBSET Keys, Publishes(w, f, E),
         NEW k \in ReadyIn(map) \ ReadyIn(map')
  PROVE  /\ evictions' > evictions
         /\ \A j \in ReadyIn(map') : map[k].last_used < map'[j].last_used
<1> DEFINE m == [map EXCEPT ![f] = Ready(f, tick + 1)]
<1>1. /\ ReadyIn(map') = (ReadyIn(map) \cup {f}) \ E
      /\ k \in E
  BY AfterPublish
<1>2. evictions' > evictions
  <2>1. IsFiniteSet(E)
    BY KeysAssumption, FS_Subset
  <2>2. Cardinality(E) \in Nat /\ Cardinality(E) # 0
    BY <1>1, <2>1, FS_CardinalityType, FS_EmptySet
  <2>3. evictions \in Nat /\ evictions' = evictions + Cardinality(E)
    BY DEF TypeOK, Publishes
  <2>4. QED
    BY <2>2, <2>3
<1>3. ASSUME NEW j \in ReadyIn(map')
      PROVE  map[k].last_used < map'[j].last_used
  <2>1. f \notin E
    BY <1>1, FreshIsLast
  <2>2. Oldest(m, E) /\ ReadyIn(m) = ReadyIn(map) \cup {f}
    BY ReadyAfterInsert DEF Publishes, Evicts, TypeOK
  <2>3. m[k].last_used < m[j].last_used
    BY <1>1, <2>2 DEF Oldest
  <2>4. m[k] = map[k]
    BY <1>1, <2>1 DEF TypeOK
  <2>5. map'[j] = m[j]
    BY <1>1 DEF Publishes, ReadyIn
  <2>6. QED
    BY <2>3, <2>4, <2>5
<1>4. QED
  BY <1>2, <1>3

\* A decoded tile leaves the cache only through the eviction loop of fulfill,
\* and every tile that stays was used more recently: in both builds, for any
\* overlap of hits, publications and aborts.
THEOREM EvictionOrder == Spec => EvictionIsLRU
<1>1. TypeOK /\ FramesOK /\ StampsPast /\ [Next]_vars =>
        [\A k \in ReadyIn(map) \ ReadyIn(map') :
           /\ evictions' > evictions
           /\ \A j \in ReadyIn(map') : map[k].last_used < map'[j].last_used]_vars
  <2> SUFFICES ASSUME TypeOK, FramesOK, StampsPast, Next,
                      NEW k \in ReadyIn(map) \ ReadyIn(map')
               PROVE  /\ evictions' > evictions
                      /\ \A j \in ReadyIn(map') : map[k].last_used < map'[j].last_used
    OBVIOUS
  <2>1. ASSUME NEW w \in Workers, Fulfill(w)
        PROVE  /\ evictions' > evictions
               /\ \A j \in ReadyIn(map') : map[k].last_used < map'[j].last_used
    <3>1. PICK f \in Keys, E \in SUBSET Keys : Publishes(w, f, E)
      BY <2>1, FulfillPublishes
    <3>2. QED
      BY <3>1, FulfillIsLRU
  <2>2. ASSUME NEW w \in Workers, Start(w) \/ Step(w), ~Fulfill(w)
        PROVE  FALSE
    <3>1. k \in Keys /\ map[k].slot = "Ready" /\ map'[k].slot # "Ready"
      BY DEF ReadyIn
    <3>2. CASE ClaimHit(w)
      BY <3>1, <3>2 DEF ClaimHit, Ready, TypeOK
    <3>3. CASE ClaimMine(w)
      <4>1. \/ /\ map[Claiming(w)] = Vacant
               /\ map' = [map EXCEPT ![Claiming(w)] = Pending(tick + 1)]
            \/ map' = map
        BY <3>3 DEF ClaimMine
      <4>2. map'[k] = map[k]
        BY <3>1, <4>1, VacantSlot DEF TypeOK
      <4>3. QED
        BY <3>1, <4>2
    <3>4. CASE Abort(w)
      BY <3>1, <3>4 DEF Abort, TakenBack, TypeOK
    <3>5. CASE map' = map
      BY <3>1, <3>5
    <3>6. QED
      BY <2>2, <3>2, <3>3, <3>4, <3>5
      DEF Step, cache, Start, ClaimWait, Wake, FetchOk, FetchErr, DecodeErr, Notify,
          Return
  <2>3. CASE UNCHANGED map
    BY <2>3 DEF ReadyIn
  <2>4. QED
    BY <2>1, <2>2, <2>3 DEF Next, Step, Finished, vars
<1>2. QED
  BY <1>1, InitStamps, NextStamps, TypeCorrect, PTL DEF Spec, EvictionIsLRU

\* A tile weighs no more than a set it belongs to.
LEMMA TileInSet ==
  ASSUME NEW R \in SUBSET Keys, NEW k \in R
  PROVE  Bytes[k] <= Weight[R] /\ Bytes[k] = Weight[R] - Weight[R \ {k}]
<1>1. /\ Weight[R] = Weight[R \ {k}] + Weight[{k}]
      /\ Weight[R \ {k}] \in Nat /\ Weight[{k}] \in Nat
  BY WeightSplit
<1>2. Weight[{k}] = Bytes[k]
  BY WeightAssumption
<1>3. QED
  BY <1>1, <1>2

\* The tile that fulfill inserts survives the eviction exactly if it fits.
LEMMA FulfillKeepsFresh ==
  ASSUME TypeOK, StampsPast, BudgetHeld, NEW w \in Workers, NEW k \in Keys,
         NEW E \in SUBSET Keys, Publishes(w, k, E)
  PROVE  k \in ReadyIn(map') <=> Bytes[k] <= MaxBytes
<1> DEFINE m == [map EXCEPT ![k] = Ready(k, tick + 1)]
           R == ReadyIn(map) \cup {k}
<1>1. R \in SUBSET Keys /\ ReadyIn(map') = R \ E
  BY AfterPublish DEF ReadyIn
<1>2. Bytes[k] \in Nat /\ Weight[R] \in Nat /\ MaxBytes \in Nat
  BY <1>1, WeightAssumption, BoundsAssumption
<1>3. CASE k \notin E
  <2>1. BudgetHeld'
    BY FulfillBudget
  <2>2. Weight[ReadyIn(map')] <= MaxBytes
    BY <2>1, BoundsAssumption DEF BudgetHeld
  <2>3. k \in ReadyIn(map') /\ ReadyIn(map') \in SUBSET Keys
    BY <1>1, <1>3
  <2>4. Bytes[k] <= Weight[ReadyIn(map')] /\ Weight[ReadyIn(map')] \in Nat
    BY <2>3, TileInSet, WeightAssumption
  <2>5. QED
    BY <1>2, <2>2, <2>3, <2>4
<1>4. CASE k \in E
  <2>1. E = R
    BY <1>4, FreshIsLast
  <2>2. /\ ReadyIn(m) = R /\ m[k].last_used = tick + 1
        /\ \A j \in R \ {k} : m[j].last_used < tick + 1
    BY InsertedStamps
  <2>3. Oldest(m, E \ {k})
    BY <2>1, <2>2 DEF Oldest
  <2>4. OverBudget(Charge(k) - Weight[E \ {k}])
    BY <1>4, <2>3 DEF Publishes, Evicts
  <2>5. Charge(k) - Weight[E \ {k}] = Bytes[k]
    BY <1>1, <2>1, ChargeIsWeight, TileInSet
  <2>6. ~(Bytes[k] <= MaxBytes)
    BY <1>2, <2>4, <2>5 DEF OverBudget
  <2>7. QED
    BY <1>1, <1>4, <2>6
<1>5. QED
  BY <1>3, <1>4

\* The index of a call moves while it settles only when it publishes.
LEMMA SettlesByFulfill ==
  ASSUME TypeOK, Next, NEW w \in Workers, mi'[w] > mi[w], pc[w] = "settle"
  PROVE  Fulfill(w)
<1>1. mi'[w] # mi[w]
  BY DEF TypeOK
<1>2. ASSUME NEW v \in Workers, Start(v)
      PROVE  FALSE
  BY <1>1, <1>2 DEF Start, Returned, TypeOK
<1>3. ASSUME NEW v \in Workers, Step(v), ~Fulfill(v)
      PROVE  FALSE
  <2>1. CASE Abort(v)
    BY <1>1, <2>1 DEF Abort, TypeOK
  <2>2. CASE UNCHANGED mi
    BY <1>1, <2>2
  <2>3. QED
    BY <1>3, <2>1, <2>2
    DEF Step, frame, ClaimHit, ClaimMine, ClaimWait, Wake, FetchOk, FetchErr, DecodeErr,
        Notify, Return
<1>4. ASSUME NEW v \in Workers, Fulfill(v)
      PROVE  v = w
  BY <1>1, <1>4 DEF Fulfill, TypeOK
<1>5. QED
  BY <1>1, <1>2, <1>3, <1>4 DEF Next, Finished, vars

\* A tile just published stays resident unless it alone exceeds the budget:
\* the loop never throws out the tile that it makes room for, in both builds.
THEOREM FreshTilesStay == Spec => FreshTileStays
<1>1. TypeOK /\ FramesOK /\ StampsPast /\ BudgetHeld /\ [Next]_vars =>
        [\A w \in Workers :
           mi'[w] > mi[w] /\ pc[w] = "settle" =>
             LET k == req[w][missed[w][mi[w]]] IN
               k \in ReadyIn(map') <=> Bytes[k] <= MaxBytes]_vars
  <2> SUFFICES ASSUME TypeOK, FramesOK, StampsPast, BudgetHeld, Next,
                      NEW w \in Workers, mi'[w] > mi[w], pc[w] = "settle"
               PROVE  LET k == req[w][missed[w][mi[w]]] IN
                        k \in ReadyIn(map') <=> Bytes[k] <= MaxBytes
    OBVIOUS
  <2>1. Fulfill(w)
    BY SettlesByFulfill
  <2>2. QED
    BY <2>1, FulfillPublishes, FulfillKeepsFresh
<1>2. QED
  BY <1>1, InitStamps, NextStamps, BudgetSafe, TypeCorrect, PTL
  DEF Spec, FreshTileStays


-----------------------------------------------------------------------------
\* The native build implements TileStore.

\* The owner of a tile is the call that owes it.
LEMMA OwnerOwes ==
  ASSUME ~Wasm, SingleFlight, NEW k \in Keys
  PROVE  /\ \A w \in Workers : Owner(k) = w <=> k \in Duties(w)
         /\ Owner(k) = NoTile <=> \A w \in Workers : k \notin Duties(w)
<1>1. NoTile \notin Workers
  BY KeysAssumption
<1>2. CASE \E w \in Workers : k \in Duties(w)
  <2>1. PICK w \in Workers : k \in Duties(w)
    BY <1>2
  <2>2. \A v \in Workers : k \in Duties(v) => v = w
    BY <2>1 DEF SingleFlight
  <2>3. Owner(k) = w
    BY <2>1, <2>2 DEF Owner
  <2>4. QED
    BY <1>1, <2>1, <2>2, <2>3
<1>3. CASE ~\E w \in Workers : k \in Duties(w)
  BY <1>1, <1>3 DEF Owner
<1>4. QED
  BY <1>2, <1>3

\* The owners change only with the duties.
LEMMA SameOwners ==
  ASSUME \A v \in Workers : Duties(v)' = Duties(v)
  PROVE  \A k \in Keys : Owner(k)' = Owner(k)
BY DEF Owner

\* Discharging the duty to a tile leaves it without an owner.
LEMMA SettledOwner ==
  ASSUME ~Wasm, SingleFlight, SingleFlight', NEW w \in Workers, NEW k \in Keys,
         k \in Duties(w), Duties(w)' = Duties(w) \ {k},
         \A v \in Workers \ {w} : Duties(v)' = Duties(v)
  PROVE  /\ Owner(k) = w /\ Owner(k)' = NoTile
         /\ \A j \in Keys \ {k} : Owner(j)' = Owner(j)
<1>1. Owner(k) = w
  BY OwnerOwes
<1>2. \A v \in Workers : k \notin Duties(v)'
  BY DEF SingleFlight
<1>3. Owner(k)' = NoTile
  BY <1>2 DEF Owner
<1>4. ASSUME NEW j \in Keys \ {k}
      PROVE  Owner(j)' = Owner(j)
  <2>1. \A v \in Workers : j \in Duties(v)' <=> j \in Duties(v)
    BY <1>4
  <2>2. QED
    BY <2>1 DEF Owner
<1>5. QED
  BY <1>1, <1>3, <1>4

\* What a caller sees of the steps in which nobody asks or is answered.
LEMMA SameReplies ==
  ASSUME TypeOK, NEW w \in Workers,
         \A v \in Workers \ {w} : pc'[v] = pc[v] /\ out'[v] = out[v],
         pc[w] \notin Returned, pc'[w] \notin Returned
  PROVE  \A v \in Workers : Replied(v)' = Replied(v)
<1>1. ASSUME NEW v \in Workers \ {w} PROVE Replied(v)' = Replied(v)
  BY <1>1 DEF Replied
<1>2. Replied(w) = <<"none">> /\ Replied(w)' = <<"none">>
  BY DEF Replied, Returned
<1>3. QED
  BY <1>1, <1>2

\* The steps between a claim and a settlement are invisible.
LEMMA InnerSteps ==
  ASSUME TypeOK, NEW w \in Workers, UNCHANGED <<map, frame>>,
         pc' = [pc EXCEPT ![w] = pc'[w]],
         pc'[w] = pc[w] \/ (pc[w] \notin Returned /\ pc'[w] \notin Returned)
  PROVE  UNCHANGED Store!store
<1>1. ReadyIn(map)' = ReadyIn(map) /\ req' = req /\ out' = out
  BY DEF ReadyIn, frame
<1>2. \A v \in Workers : Duties(v)' = Duties(v)
  BY SameDuties DEF frame
<1>3. \A k \in Keys : Owner(k)' = Owner(k)
  BY <1>2, SameOwners
<1>4. \A v \in Workers : Replied(v)' = Replied(v)
  <2>1. \A v \in Workers \ {w} : pc'[v] = pc[v]
    BY DEF TypeOK
  <2>2. CASE pc'[w] = pc[w]
    BY <1>1, <2>1, <2>2 DEF Replied
  <2>3. CASE pc[w] \notin Returned /\ pc'[w] \notin Returned
    BY <1>1, <2>1, <2>3, SameReplies
  <2>4. QED
    BY <2>2, <2>3
<1>5. QED
  BY <1>1, <1>3, <1>4 DEF Store!store

\* A call that returns is answered with its tiles or an error, owing nothing.
LEMMA AnswerIsReply ==
  ASSUME TypeOK, TypeOK', ~Wasm, SingleFlight, NEW w \in Workers,
         FrameAligned(w)', ResultsAligned',
         pc[w] \notin Returned, pc'[w] \in {"ok", "err"},
         \A v \in Workers \ {w} : pc'[v] = pc[v] /\ out'[v] = out[v],
         ReadyIn(map)' = ReadyIn(map), req' = req,
         \A v \in Workers : Duties(v)' = Duties(v)
  PROVE  Store!Reply(w)
<1>1. Duties(w)' = {}
  <2>1. mi'[w] > Len(missed'[w]) /\ mi'[w] \in Nat /\ Len(missed'[w]) \in Nat
    BY DEF FrameAligned, TypeOK, Returned
  <2>2. QED
    BY <2>1 DEF Duties
<1>2. \A k \in Keys : Owner(k) # w
  BY <1>1, OwnerOwes
<1>3. \A k \in Keys : Owner(k)' = Owner(k)
  BY SameOwners
<1>4. Replied(w) = <<"none">>
  BY DEF Replied, Returned
<1>5. Replied(w)' = <<"ok", req[w]>> \/ Replied(w)' = <<"err">>
  BY DEF Replied, ResultsAligned
<1>6. \A v \in Workers \ {w} : Replied(v)' = Replied(v)
  BY DEF Replied
<1>7. \E r \in {<<"ok", req[w]>>, <<"err">>} :
        [v \in Workers |-> Replied(v)]' = [[v \in Workers |-> Replied(v)] EXCEPT ![w] = r]
  BY <1>5, <1>6
<1>8. QED
  BY <1>2, <1>3, <1>4, <1>7 DEF Store!Reply

\* A call of fetch_decoded asks.
LEMMA StartAsks ==
  ASSUME TypeOK, NEW w \in Workers, FrameAligned(w), Start(w)
  PROVE  Store!Ask(w)
<1>1. PICK r \in Requests :
        /\ req' = [req EXCEPT ![w] = r]
        /\ pc' = [pc EXCEPT ![w] = AfterClaim(r, 0, <<>>)]
  BY DEF Start
<1>2. r \in Seq(Keys)
  BY RequestsAssumption
<1>3. /\ pc[w] \in Returned /\ map' = map
      /\ pc'[w] = AfterClaim(r, 0, <<>>) /\ out'[w] = <<>>
      /\ missed'[w] = <<>> /\ mi'[w] = 1
      /\ \A v \in Workers \ {w} : /\ pc'[v] = pc[v] /\ out'[v] = out[v]
                                  /\ req'[v] = req[v] /\ missed'[v] = missed[v]
                                  /\ mi'[v] = mi[v]
  BY <1>1 DEF Start, cache, TypeOK
<1>4. Replied(w) # <<"none">>
  BY <1>3 DEF Replied, Returned
<1>5. Replied(w)' = IF r = <<>> THEN <<"ok", r>> ELSE <<"none">>
  <2>1. CASE r = <<>>
    BY <1>3, <2>1 DEF Replied, AfterClaim
  <2>2. CASE r # <<>>
    BY <1>2, <1>3, <2>2 DEF Replied, AfterClaim
  <2>3. QED
    BY <2>1, <2>2
<1>6. \A v \in Workers \ {w} : Replied(v)' = Replied(v)
  BY <1>3 DEF Replied
<1>7. \A v \in Workers : Duties(v)' = Duties(v)
  <2>1. Duties(w) = {}
    BY <1>3, NothingOwed
  <2>2. Duties(w)' = {}
    BY <1>3 DEF Duties
  <2>3. QED
    BY <1>3, <2>1, <2>2, SameDuties
<1>8. \A k \in Keys : Owner(k)' = Owner(k)
  BY <1>7, SameOwners
<1>9. [v \in Workers |-> Replied(v)]' =
        [[v \in Workers |-> Replied(v)] EXCEPT
           ![w] = IF r = <<>> THEN <<"ok", r>> ELSE <<"none">>]
  BY <1>5, <1>6
<1>10. QED
  BY <1>1, <1>3, <1>4, <1>8, <1>9 DEF Store!Ask, ReadyIn

\* A claim that misses takes its tile.
LEMMA ClaimTakes ==
  ASSUME TypeOK, FramesOK, ~Wasm, SingleFlight, SingleFlight',
         NEW w \in Workers, FrameAligned(w), ClaimMine(w)
  PROVE  \E k \in Keys : Store!Take(w, k)
<1> DEFINE n == Len(out[w]) + 1
<1>0. PICK k \in Keys : k = Claiming(w)
  BY ClaimingKey DEF ClaimMine
<1>1. n \in 1..Len(req[w]) /\ k = req[w][n]
  BY <1>0, ClaimingKey DEF ClaimMine, Claiming
<1>2. map[k] = Vacant /\ map' = [map EXCEPT ![k] = Pending(tick + 1)]
  BY <1>0 DEF ClaimMine, TakesPending
<1>3. k \notin ReadyIn(map) /\ ReadyIn(map)' = ReadyIn(map)
  <2>1. map[k].slot # "Ready" /\ Pending(tick + 1).slot # "Ready"
    BY <1>2, VacantSlot DEF Pending
  <2>2. QED
    BY <1>1, <1>2, <2>1 DEF ReadyIn, TypeOK
<1>4. /\ Duties(w)' = Duties(w) \cup {k}
      /\ \A v \in Workers \ {w} : Duties(v)' = Duties(v)
  BY <1>0, ClaimDuties
<1>5. \A v \in Workers : k \notin Duties(v)
  BY <1>1, <1>2, VacantSlot DEF SingleFlight
<1>6. Owner(k) = NoTile
  BY <1>1, <1>5 DEF Owner
<1>7. Owner(k)' = w
  <2>1. \A v \in Workers : k \in Duties(v)' => v = w
    BY <1>4, <1>5
  <2>2. k \in Duties(w)'
    BY <1>4
  <2>3. QED
    BY <2>1, <2>2 DEF Owner
<1>8. \A j \in Keys \ {k} : Owner(j)' = Owner(j)
  <2> SUFFICES ASSUME NEW j \in Keys \ {k}
               PROVE  Owner(j)' = Owner(j)
    OBVIOUS
  <2>1. \A v \in Workers : j \in Duties(v)' <=> j \in Duties(v)
    BY <1>4
  <2>2. QED
    BY <2>1 DEF Owner
<1>9. /\ pc[w] \notin Returned /\ pc'[w] \notin Returned
      /\ \A v \in Workers \ {w} : pc'[v] = pc[v] /\ out'[v] = out[v]
  <2>1. missed'[w] = Append(missed[w], n) /\ missed[w] \in Seq(Nat) /\ n \in Nat
    BY DEF ClaimMine, TypeOK
  <2>2. missed'[w] # <<>>
    BY <2>1
  <2>3. QED
    BY <2>2 DEF ClaimMine, AfterClaim, Returned, TypeOK
<1>10. \A v \in Workers : Replied(v)' = Replied(v)
  BY <1>9, SameReplies
<1>11. Replied(w) = <<"none">>
  BY <1>9 DEF Replied, Returned
<1>12. [j \in Keys |-> Owner(j)]' = [[j \in Keys |-> Owner(j)] EXCEPT ![k] = w]
  BY <1>7, <1>8
<1>13. req' = req
  BY DEF ClaimMine
<1>14. k \in {req[w][i] : i \in 1..Len(req[w])}
  BY <1>1
<1> HIDE DEF n
<1>15. Store!Take(w, k)
  BY <1>1, <1>3, <1>6, <1>10, <1>11, <1>12, <1>13, <1>14 DEF Store!Take
<1>16. QED
  BY <1>15

\* fulfill publishes the tile that the call owns.
LEMMA FulfillPublishesTile ==
  ASSUME TypeOK, FramesOK, ~Wasm, SingleFlight, SingleFlight', BudgetHeld',
         NEW w \in Workers, FrameAligned(w), Fulfill(w)
  PROVE  \E k \in Keys : Store!Publish(w, k)
<1>0. PICK k \in Keys : k = req[w][missed[w][mi[w]]]
  BY SettledKey DEF Fulfill
<1>1. PICK E \in SUBSET Keys : Publishes(w, k, E)
  BY <1>0, FulfillPublishes
<1>2. /\ k \in Duties(w) /\ Duties(w)' = Duties(w) \ {k}
      /\ \A v \in Workers \ {w} : Duties(v)' = Duties(v)
  BY <1>0, SettleDuties DEF Fulfill
<1>3. /\ Owner(k) = w /\ Owner(k)' = NoTile
      /\ \A j \in Keys \ {k} : Owner(j)' = Owner(j)
  BY <1>2, SettledOwner
<1>4. [j \in Keys |-> Owner(j)]' = [[j \in Keys |-> Owner(j)] EXCEPT ![k] = NoTile]
  BY <1>3
<1>5. ReadyIn(map)' \in SUBSET (ReadyIn(map) \cup {k})
  BY <1>1, AfterPublish
<1>6. Weight[ReadyIn(map)'] <= MaxBytes
  BY DEF BudgetHeld
<1>7. /\ pc[w] = "settle" /\ UNCHANGED <<pc, req>>
      /\ \A v \in Workers \ {w} : out'[v] = out[v]
  BY DEF Fulfill, TypeOK
<1>8. \A v \in Workers : Replied(v)' = Replied(v)
  BY <1>7, SameReplies DEF Returned
<1>9. Store!Publish(w, k)
  BY <1>3, <1>4, <1>5, <1>6, <1>7, <1>8 DEF Store!Publish
<1>10. QED
  BY <1>9

\* abort gives up the tile that the call owns; its slot was Pending, so no
\* decoded tile goes with it.
LEMMA AbortGivesUp ==
  ASSUME TypeOK, FramesOK, ~Wasm, SingleFlight, SingleFlight',
         NEW w \in Workers, FrameAligned(w), Abort(w)
  PROVE  \E k \in Keys : Store!GiveUp(w, k)
<1>0. PICK k \in Keys : k = req[w][missed[w][mi[w]]]
  BY SettledKey DEF Abort
<1>1. map' = [map EXCEPT ![k] = TakenBack(@)]
  BY <1>0 DEF Abort, SettlePos
<1>2. /\ k \in Duties(w) /\ Duties(w)' = Duties(w) \ {k}
      /\ \A v \in Workers \ {w} : Duties(v)' = Duties(v)
  BY <1>0, SettleDuties DEF Abort
<1>3. /\ Owner(k) = w /\ Owner(k)' = NoTile
      /\ \A j \in Keys \ {k} : Owner(j)' = Owner(j)
  BY <1>2, SettledOwner
<1>4. [j \in Keys |-> Owner(j)]' = [[j \in Keys |-> Owner(j)] EXCEPT ![k] = NoTile]
  BY <1>3
<1>5. ReadyIn(map)' = ReadyIn(map)
  BY <1>1, VacantSlot DEF ReadyIn, TakenBack, TypeOK
<1>6. pc[w] = "abort" /\ UNCHANGED <<pc, req, out>>
  BY DEF Abort
<1>7. \A v \in Workers : Replied(v)' = Replied(v)
  BY <1>6, SameReplies DEF Returned
<1>8. Store!GiveUp(w, k)
  BY <1>3, <1>4, <1>5, <1>6, <1>7 DEF Store!GiveUp
<1>9. QED
  BY <1>8

\* A hit is invisible, or it is the last one and answers the call.
LEMMA HitAnswers ==
  ASSUME TypeOK, TypeOK', FramesOK, ~Wasm, SingleFlight, NEW w \in Workers,
         FrameAligned(w)', ResultsAligned', ClaimHit(w)
  PROVE  Store!Reply(w) \/ UNCHANGED Store!store
<1>1. ReadyIn(map)' = ReadyIn(map)
  <2>1. Claiming(w) \in Keys
    BY ClaimingKey DEF ClaimHit
  <2>2. QED
    BY <2>1 DEF ClaimHit, ReadyIn, Ready, TypeOK
<1>2. req' = req /\ \A v \in Workers : Duties(v)' = Duties(v)
  BY SameDuties DEF ClaimHit
<1>3. /\ pc[w] \notin Returned
      /\ pc'[w] \in {"claim", "ok", "fetch"}
      /\ \A v \in Workers \ {w} : pc'[v] = pc[v] /\ out'[v] = out[v]
  BY DEF ClaimHit, AfterClaim, Returned, TypeOK
<1>4. CASE pc'[w] = "ok"
  BY <1>1, <1>2, <1>3, <1>4, AnswerIsReply
<1>5. CASE pc'[w] \in {"claim", "fetch"}
  <2>1. \A v \in Workers : Replied(v)' = Replied(v)
    BY <1>3, <1>5, SameReplies DEF Returned
  <2>2. \A k \in Keys : Owner(k)' = Owner(k)
    BY <1>2, SameOwners
  <2>3. QED
    BY <1>1, <1>2, <2>1, <2>2 DEF Store!store
<1>6. QED
  BY <1>3, <1>4, <1>5

\* Every step of the native cache is a step of TileStore or invisible.
LEMMA NextStore ==
  ASSUME ~Wasm, TypeOK, TypeOK', FramesOK, Aligned, Aligned', SingleFlight,
         SingleFlight', BudgetHeld', ResultsAligned', [Next]_vars
  PROVE  [Store!StoreNext]_Store!store
<1>0. \A v \in Workers : FrameAligned(v) /\ FrameAligned(v)'
  BY DEF Aligned
<1>1. ASSUME NEW w \in Workers, Start(w)
      PROVE  Store!StoreNext
  BY <1>0, <1>1, StartAsks DEF Store!StoreNext
<1>2. ASSUME NEW w \in Workers, ClaimHit(w)
      PROVE  [Store!StoreNext]_Store!store
  BY <1>0, <1>2, HitAnswers DEF Store!StoreNext
<1>3. ASSUME NEW w \in Workers, ClaimMine(w)
      PROVE  Store!StoreNext
  BY <1>0, <1>3, ClaimTakes DEF Store!StoreNext
<1>4. ASSUME NEW w \in Workers, Fulfill(w)
      PROVE  Store!StoreNext
  BY <1>0, <1>4, FulfillPublishesTile DEF Store!StoreNext
<1>5. ASSUME NEW w \in Workers, Abort(w)
      PROVE  Store!StoreNext
  BY <1>0, <1>5, AbortGivesUp DEF Store!StoreNext
<1>6. ASSUME NEW w \in Workers, Return(w)
      PROVE  Store!StoreNext
  <2>1. /\ pc[w] \notin Returned /\ pc'[w] \in {"ok", "err"}
        /\ \A v \in Workers \ {w} : pc'[v] = pc[v] /\ out'[v] = out[v]
        /\ map' = map /\ req' = req
    BY <1>6 DEF Return, Returned, cache, frame, TypeOK
  <2>2. \A v \in Workers : Duties(v)' = Duties(v)
    BY <1>6, SameDuties DEF Return, frame
  <2>3. QED
    BY <1>0, <2>1, <2>2, AnswerIsReply DEF Store!StoreNext, ReadyIn
<1>7. ASSUME NEW w \in Workers,
             \/ ClaimWait(w) \/ Wake(w) \/ FetchOk(w) \/ FetchErr(w)
             \/ DecodeErr(w) \/ Notify(w)
      PROVE  UNCHANGED Store!store
  <2>1. UNCHANGED <<map, frame>>
    BY <1>7 DEF ClaimWait, Wake, FetchOk, FetchErr, DecodeErr, Notify, cache
  <2>2. pc' = [pc EXCEPT ![w] = pc'[w]]
    BY <1>7 DEF ClaimWait, Wake, FetchOk, FetchErr, DecodeErr, Notify, TypeOK
  <2>3. pc'[w] = pc[w] \/ (pc[w] \notin Returned /\ pc'[w] \notin Returned)
    BY <1>7
    DEF ClaimWait, Wake, FetchOk, FetchErr, DecodeErr, Notify, Returned, TypeOK
  <2>4. QED
    BY <2>1, <2>2, <2>3, InnerSteps
<1>8. CASE UNCHANGED vars
  BY <1>8 DEF vars, Store!store, ReadyIn, Owner, Duties, Replied
<1>9. QED
  BY <1>1, <1>2, <1>3, <1>4, <1>5, <1>6, <1>7, <1>8 DEF Next, Step, Finished

\* The native build of the tile cache implements TileStore for any calls,
\* keys, sizes and budget: overlapping calls, waits, failures, evictions and
\* re-claims never show a caller more than one owner per tile, a budget that
\* is exceeded, a tile nobody published or an answer to another question.
THEOREM NativeImplementsStore == ASSUME ~Wasm PROVE Spec => ImplementsStore
<1>1. Init => Store!StoreInit
  <2> SUFFICES ASSUME Init PROVE Store!StoreInit
    OBVIOUS
  <2>1. ReadyIn(map) = {}
    BY VacantSlot DEF Init, ReadyIn
  <2>2. \A w \in Workers : Duties(w) = {} /\ Replied(w) = <<"ok", <<>>>>
    BY DEF Init, Duties, Replied
  <2>3. \A k \in Keys : Owner(k) = NoTile
    BY <2>2 DEF Owner
  <2>4. QED
    BY <2>1, <2>2, <2>3 DEF Store!StoreInit, Init
<1>2. /\ TypeOK /\ TypeOK' /\ FramesOK /\ Aligned /\ Aligned' /\ SingleFlight
      /\ SingleFlight' /\ BudgetHeld' /\ ResultsAligned' /\ [Next]_vars
      => [Store!StoreNext]_Store!store
  BY NextStore
<1>3. QED
  BY <1>1, <1>2, InitAligned, NextAligned, FlightSafe, BudgetSafe, AlignmentSafe,
     TypeCorrect, PTL DEF Spec, ImplementsStore, Store!StoreSpec

=============================================================================
