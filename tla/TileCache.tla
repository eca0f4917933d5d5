------------------------------ MODULE TileCache ------------------------------
(***************************************************************************)
(* The process-wide cache of decoded tiles (crates/engine/src/tile_cache.rs) *)
(* together with its only client, CogReader::fetch_decoded (pixel.rs).       *)
(*                                                                         *)
(* A worker is one running call of fetch_decoded: it claims its keys one at  *)
(* a time, awaits one merged fetch of the keys it missed, then settles each  *)
(* of them with fulfill (decoded) or abort (failed).  Every critical section *)
(* of the state mutex is one step; setting the completion flag of a slot is  *)
(* a later step, because the code does it after unlocking.                   *)
(*                                                                         *)
(* Workers are futures driven by threads.  A DuckDB thread runs one call to  *)
(* completion, except that RS_ZonalStats drives the rows of a chunk as       *)
(* futures of a single block_on (rs_meta.rs, run_rows).  A future runs from  *)
(* await to await without giving up its thread, and waiting on a Condvar     *)
(* blocks the whole thread.                                                *)
(***************************************************************************)
EXTENDS Integers, Sequences, FiniteSets

CONSTANTS
  Workers,     \* running calls of fetch_decoded
  Threads,     \* the OS threads that poll them
  ThreadOf,    \* the thread each worker is polled by
  Keys,        \* cache keys (ReaderId, level, x, y)
  NoTile,      \* the None of fetch_decoded's output slots
  Requests,    \* the key lists that calls may ask for
  Bytes,       \* array_bytes of the decoded tile of each key
  Weight,      \* total of Bytes over each set of keys
  MaxBytes,    \* Inner.max_bytes
  Wasm,        \* TRUE in the target_arch = "wasm32" build
  MaxCalls     \* bound on the calls one worker makes

ASSUME KeysAssumption == IsFiniteSet(Keys) /\ NoTile \notin Keys \cup Workers

ASSUME ThreadAssumption == ThreadOf \in [Workers -> Threads]

\* The tile lists are deduplicated by every caller of fetch_decoded.
ASSUME RequestsAssumption ==
  /\ Requests \subseteq Seq(Keys)
  /\ \A r \in Requests : \A i, j \in 1..Len(r) : r[i] = r[j] => i = j

\* Weight is the additive measure on sets of keys that Bytes induces.
ASSUME WeightAssumption ==
  /\ Bytes \in [Keys -> Nat]
  /\ Weight \in [SUBSET Keys -> Nat]
  /\ Weight[{}] = 0
  /\ \A k \in Keys : Weight[{k}] = Bytes[k]
  /\ \A S, T \in SUBSET Keys :
       S \cap T = {} => Weight[S \cup T] = Weight[S] + Weight[T]

ASSUME BoundsAssumption ==
  /\ MaxBytes \in Nat
  /\ Wasm \in BOOLEAN
  /\ MaxCalls \in Nat

VARIABLES
  map,         \* State.map: the slot of each key
  used,        \* State.used
  tick,        \* State.tick
  hits,        \* Inner.hits
  misses,      \* Inner.misses
  evictions,   \* Inner.evictions
  pc,          \* where each worker is in fetch_decoded
  req,         \* its keys
  out,         \* its output slots, one per key claimed so far
  missed,      \* its Mine positions, in claim order (misses in the code)
  mi,          \* the next of them to settle
  sig,         \* the signal it waits for, until that signal's flag is set
  notify,      \* the signal it has still to set after an unlock
  calls        \* the calls it has started

cache == <<map, used, tick, hits, misses, evictions>>
frame == <<req, out, missed, mi>>
vars == <<map, used, tick, hits, misses, evictions,
          pc, req, out, missed, mi, sig, notify, calls>>

-----------------------------------------------------------------------------
\* Slots.  A signal is named by the tick at which its Pending slot was
\* inserted, which is unique; 0 names no signal.

NoSig == 0

Vacant == [slot |-> "None"]
Pending(s) == [slot |-> "Pending", sig |-> s]
Ready(a, t) == [slot |-> "Ready", arr |-> a, last_used |-> t]

Slot == {Vacant} \cup [slot : {"Pending"}, sig : Nat]
                 \cup [slot : {"Ready"}, arr : Keys, last_used : Nat]

ReadyIn(m) == {k \in Keys : m[k].slot = "Ready"}

\* The keys a worker was told are Mine and has not settled yet.
Duties(w) == {req[w][missed[w][j]] : j \in mi[w]..Len(missed[w])}

Returned == {"idle", "ok", "err"}
Running == {"claim", "wait", "settle", "abort"}

\* No other future of w's thread holds the thread.
Free(w) ==
  \A v \in Workers \ {w} : ThreadOf[v] = ThreadOf[w] => pc[v] \notin Running

\* The key the worker claims next.
Claiming(w) == req[w][Len(out[w]) + 1]

\* Where a call goes when n of the keys r are judged with the misses ms: on
\* to the next key; then it returns the hits or awaits the merged fetch.
AfterClaim(r, n, ms) ==
  IF n < Len(r) THEN "claim" ELSE IF ms = <<>> THEN "ok" ELSE "fetch"

-----------------------------------------------------------------------------
Init ==
  /\ map = [k \in Keys |-> Vacant]
  /\ used = 0 /\ tick = 0 /\ hits = 0 /\ misses = 0 /\ evictions = 0
  /\ pc = [w \in Workers |-> "idle"]
  /\ req = [w \in Workers |-> <<>>]
  /\ out = [w \in Workers |-> <<>>]
  /\ missed = [w \in Workers |-> <<>>]
  /\ mi = [w \in Workers |-> 1]
  /\ sig = [w \in Workers |-> NoSig]
  /\ notify = [w \in Workers |-> NoSig]
  /\ calls = [w \in Workers |-> 0]

\* A call of fetch_decoded with a cache attached.
Start(w) ==
  /\ pc[w] \in Returned
  /\ calls[w] < MaxCalls
  /\ Free(w)
  /\ \E r \in Requests :
       /\ req' = [req EXCEPT ![w] = r]
       /\ pc' = [pc EXCEPT ![w] = AfterClaim(r, 0, <<>>)]
  /\ out' = [out EXCEPT ![w] = <<>>]
  /\ missed' = [missed EXCEPT ![w] = <<>>]
  /\ mi' = [mi EXCEPT ![w] = 1]
  /\ calls' = [calls EXCEPT ![w] = @ + 1]
  /\ UNCHANGED <<cache, sig, notify>>

\* claim_one finds a decoded tile: a hit, and the tile becomes the newest.
ClaimHit(w) ==
  /\ pc[w] = "claim"
  /\ LET k == Claiming(w) IN
       /\ map[k].slot = "Ready"
       /\ map' = [map EXCEPT ![k] = Ready(map[k].arr, tick + 1)]
       /\ out' = [out EXCEPT ![w] = Append(@, map[k].arr)]
  /\ pc' = [pc EXCEPT ![w] = AfterClaim(req[w], Len(out'[w]), missed[w])]
  /\ tick' = tick + 1
  /\ hits' = hits + 1
  /\ UNCHANGED <<used, misses, evictions, req, missed, mi, sig, notify, calls>>

\* Mutants: any build answers Mine for a Pending slot; no build does.
AlwaysTakesPending(slot) == slot.slot = "Pending"
NeverTakesPending(slot) == FALSE

\* The wasm build answers Mine for a Pending slot: it has one thread, and
\* waiting would block the future that owes the slot.
TakesPending(slot) == Wasm /\ slot.slot = "Pending"

\* claim_one finds nothing and inserts a Pending slot: Mine.  Where a Pending
\* slot is Mine too, it is left as it is.
ClaimMine(w) ==
  /\ pc[w] = "claim"
  /\ LET k == Claiming(w) IN
       \/ /\ map[k] = Vacant
          /\ map' = [map EXCEPT ![k] = Pending(tick + 1)]
       \/ /\ TakesPending(map[k])
          /\ UNCHANGED map
  /\ tick' = tick + 1
  /\ misses' = misses + 1
  /\ missed' = [missed EXCEPT ![w] = Append(@, Len(out[w]) + 1)]
  /\ out' = [out EXCEPT ![w] = Append(@, NoTile)]
  /\ pc' = [pc EXCEPT ![w] = AfterClaim(req[w], Len(out'[w]), missed'[w])]
  /\ UNCHANGED <<used, hits, evictions, req, mi, sig, notify, calls>>

\* claim_one finds another call's Pending slot (native build): keep its
\* signal, unlock, and block the thread on it.
ClaimWait(w) ==
  /\ pc[w] = "claim"
  /\ ~Wasm
  /\ map[Claiming(w)].slot = "Pending"
  /\ sig' = [sig EXCEPT ![w] = map[Claiming(w)].sig]
  /\ pc' = [pc EXCEPT ![w] = "wait"]
  /\ tick' = tick + 1
  /\ UNCHANGED <<map, used, hits, misses, evictions, frame, notify, calls>>

\* The flag is set: the wait ends and the key is judged again.
Wake(w) ==
  /\ pc[w] = "wait"
  /\ sig[w] = NoSig
  /\ pc' = [pc EXCEPT ![w] = "claim"]
  /\ UNCHANGED <<cache, frame, sig, notify, calls>>

\* fetch_tiles completes and the future is polled again.
FetchOk(w) ==
  /\ pc[w] = "fetch" /\ Free(w)
  /\ pc' = [pc EXCEPT ![w] = "settle"]
  /\ UNCHANGED <<cache, frame, sig, notify, calls>>

\* fetch_tiles fails: every Mine key is aborted.
FetchErr(w) ==
  /\ pc[w] = "fetch" /\ Free(w)
  /\ pc' = [pc EXCEPT ![w] = "abort"]
  /\ UNCHANGED <<cache, frame, sig, notify, calls>>

-----------------------------------------------------------------------------
\* Settling.

\* Mutant: the position in the list of misses is taken for the position in
\* the list of keys.
SettlePosInMisses(w) == mi[w]

\* The position of the key that is settled next: misses[mi].
SettlePos(w) == missed[w][mi[w]]

\* Mutant: the output slot is published instead of the decoded tile.
OutputSlot(w) == out[w][SettlePos(w)]

\* What fetch_tiles returned at index mi: the tiles come in the order of the
\* missed coordinates.
FetchedTile(w) == req[w][missed[w][mi[w]]]

\* Mutant: the bytes of an overwritten slot stay charged.
ChargeAlways(k) == used + Bytes[k]

\* used after the insertion: a Ready slot that is overwritten gives its
\* bytes back.
Charge(k) ==
  used + Bytes[k] - (IF map[k].slot = "Ready" THEN Bytes[k] ELSE 0)

\* Mutant: the budget is overrun by one byte.
OverBudgetLate(u) == u > MaxBytes + 1

\* The loop condition of the eviction.
OverBudget(u) == u > MaxBytes

\* Mutant: entries go in the order of the hash map, which is any order.
AnyOrder(m, E) == TRUE

\* The entries last used before every other one that stays.
Oldest(m, E) ==
  \A e \in E, k \in ReadyIn(m) \ E : m[e].last_used < m[k].last_used

\* E is what the eviction loop removes from the map m holding u bytes: the
\* least recently used entries, one at a time, until the budget is met or
\* no entry is left.
Evicts(m, u, E) ==
  /\ E \subseteq ReadyIn(m)
  /\ Oldest(m, E)
  /\ ~OverBudget(u - Weight[E]) \/ E = ReadyIn(m)
  /\ \A e \in E : Oldest(m, E \ {e}) => OverBudget(u - Weight[E \ {e}])

\* Mutant: the signal of the old slot is dropped with it.
SignalDropped(slot) == NoSig

\* The signal of a slot that a settlement replaced or removed.
SignalOf(slot) == IF slot.slot = "Pending" THEN slot.sig ELSE NoSig

\* The tile decodes: fulfill publishes it under its key and evicts.
Fulfill(w) ==
  /\ pc[w] = "settle" /\ notify[w] = NoSig
  /\ mi[w] <= Len(missed[w])
  /\ LET i == SettlePos(w)
         k == req[w][i]
         tile == FetchedTile(w)
         inserted == [map EXCEPT ![k] = Ready(tile, tick + 1)]
     IN /\ \E E \in SUBSET ReadyIn(inserted) :
             /\ Evicts(inserted, Charge(k), E)
             /\ map' = [j \in Keys |-> IF j \in E THEN Vacant ELSE inserted[j]]
             /\ used' = Charge(k) - Weight[E]
             /\ evictions' = evictions + Cardinality(E)
        /\ out' = [out EXCEPT ![w][i] = tile]
        /\ notify' = [notify EXCEPT ![w] = SignalOf(map[k])]
  /\ tick' = tick + 1
  /\ mi' = [mi EXCEPT ![w] = @ + 1]
  /\ UNCHANGED <<hits, misses, pc, req, missed, sig, calls>>

\* The tile does not decode: it and all later misses are aborted.
DecodeErr(w) ==
  /\ pc[w] = "settle" /\ notify[w] = NoSig
  /\ mi[w] <= Len(missed[w])
  /\ pc' = [pc EXCEPT ![w] = "abort"]
  /\ UNCHANGED <<cache, frame, sig, notify, calls>>

\* Mutant: abort forgets to put a Ready slot back.
TakesBackAll(slot) == Vacant

\* What abort leaves of a slot: Pending is removed, Ready is put back.
TakenBack(slot) == IF slot.slot = "Ready" THEN slot ELSE Vacant

\* A miss that failed is aborted.
Abort(w) ==
  /\ pc[w] = "abort" /\ notify[w] = NoSig
  /\ mi[w] <= Len(missed[w])
  /\ LET k == req[w][SettlePos(w)] IN
       /\ map' = [map EXCEPT ![k] = TakenBack(@)]
       /\ notify' = [notify EXCEPT ![w] = SignalOf(map[k])]
  /\ mi' = [mi EXCEPT ![w] = @ + 1]
  /\ UNCHANGED <<used, tick, hits, misses, evictions, pc, req, out, missed, sig, calls>>

\* After the unlock: set the flag of the settled slot and wake its waiters.
\* Every call that holds the signal sees the flag, now or when it looks.
Notify(w) ==
  /\ notify[w] # NoSig
  /\ sig' = [v \in Workers |-> IF sig[v] = notify[w] THEN NoSig ELSE sig[v]]
  /\ notify' = [notify EXCEPT ![w] = NoSig]
  /\ UNCHANGED <<cache, pc, frame, calls>>

\* Every miss is settled: fetch_decoded returns.
Return(w) ==
  /\ pc[w] \in {"settle", "abort"} /\ notify[w] = NoSig
  /\ mi[w] > Len(missed[w])
  /\ pc' = [pc EXCEPT ![w] = IF @ = "settle" THEN "ok" ELSE "err"]
  /\ UNCHANGED <<cache, frame, sig, notify, calls>>

\* The steps a call takes by itself once it is started.
Step(w) ==
  \/ ClaimHit(w) \/ ClaimMine(w) \/ ClaimWait(w) \/ Wake(w)
  \/ FetchOk(w) \/ FetchErr(w)
  \/ Fulfill(w) \/ DecodeErr(w) \/ Abort(w) \/ Notify(w) \/ Return(w)

\* All the calls were made and have returned.
Finished ==
  /\ \A w \in Workers : pc[w] \in Returned /\ calls[w] = MaxCalls
  /\ UNCHANGED vars

Next == (\E w \in Workers : Start(w) \/ Step(w)) \/ Finished

Spec == Init /\ [][Next]_vars

\* A thread that can run does, and a fetch ends in success or failure.
FairSpec == Spec /\ \A w \in Workers : WF_vars(Step(w))

-----------------------------------------------------------------------------
\* Every variable keeps the type of its field or local in the code.
TypeOK ==
  /\ map \in [Keys -> Slot]
  /\ used \in Int /\ tick \in Nat
  /\ hits \in Nat /\ misses \in Nat /\ evictions \in Nat
  /\ pc \in [Workers -> Returned \cup Running \cup {"fetch"}]
  /\ req \in [Workers -> Seq(Keys)]
  /\ out \in [Workers -> Seq(Keys \cup {NoTile})]
  /\ missed \in [Workers -> Seq(Nat)]
  /\ mi \in [Workers -> Nat]
  /\ sig \in [Workers -> Nat]
  /\ notify \in [Workers -> Nat]
  /\ calls \in [Workers -> 0..MaxCalls]

\* used, which stats() reports as the resident bytes, is exactly the weight
\* of the decoded tiles in the map and never exceeds max_bytes outside the
\* critical section, whatever calls overlap, fail or fulfill a key twice.
BudgetHeld == used = Weight[ReadyIn(map)] /\ used <= MaxBytes

\* Single-flight: in the native build a Pending key has exactly one call
\* that owes its settlement and no two calls fetch the same key; a key that
\* is not Pending is owed by nobody.
SingleFlight ==
  ~Wasm => \A k \in Keys :
    /\ map[k].slot = "Pending" <=> \E w \in Workers : k \in Duties(w)
    /\ \A v, w \in Workers : k \in Duties(v) \cap Duties(w) => v = w

\* No lost wakeup: the signal a blocked call waits for is set, or some call
\* is about to set it, or it belongs to the Pending slot of the very key the
\* call waits for and another call owes that key.
NoLostWakeup ==
  \A w \in Workers : pc[w] = "wait" =>
    \/ sig[w] = NoSig
    \/ \E v \in Workers \ {w} : notify[v] = sig[w]
    \/ /\ map[Claiming(w)] = Pending(sig[w])
       /\ \E v \in Workers \ {w} : Claiming(w) \in Duties(v)

\* A call that returns Ok has the tile of each key at that key's position,
\* and no key ever serves the tile of another key.
ResultsAligned ==
  /\ \A w \in Workers : pc[w] = "ok" => out[w] = req[w]
  /\ \A k \in ReadyIn(map) : map[k].arr = k

\* A decoded tile leaves the map only through eviction, and only when every
\* tile that stays was used more recently; an abort never drops one.
EvictionIsLRU ==
  [][\A k \in ReadyIn(map) \ ReadyIn(map') :
       /\ evictions' > evictions
       /\ \A j \in ReadyIn(map') : map[k].last_used < map'[j].last_used]_vars

\* A tile just published stays resident unless it alone exceeds the budget.
FreshTileStays ==
  [][\A w \in Workers :
       mi'[w] > mi[w] /\ pc[w] = "settle" =>
         LET k == req[w][missed[w][mi[w]]] IN
           k \in ReadyIn(map') <=> Bytes[k] <= MaxBytes]_vars

\* Every call of fetch_decoded returns.
CallsReturn ==
  \A w \in Workers : pc[w] = "claim" ~> pc[w] \in {"ok", "err"}

-----------------------------------------------------------------------------
\* The cache seen as a TileStore: a tile belongs to the call that owes it.
Owner(k) ==
  IF \E w \in Workers : k \in Duties(w) THEN CHOOSE w \in Workers : k \in Duties(w)
  ELSE NoTile

Replied(w) ==
  CASE pc[w] = "err" -> <<"err">>
    [] pc[w] \in {"idle", "ok"} -> <<"ok", out[w]>>
    [] OTHER -> <<"none">>

Store == INSTANCE TileStore WITH
  Nobody <- NoTile,
  resident <- ReadyIn(map),
  owner <- [k \in Keys |-> Owner(k)],
  asked <- req,
  reply <- [w \in Workers |-> Replied(w)]

\* The native cache implements TileStore: overlapping calls, waits, failures,
\* evictions and re-claims never show a caller more than one owner per tile,
\* a budget that is exceeded, a tile that nobody published or an answer that
\* is not the one to its own question.
ImplementsStore == Store!StoreSpec

=============================================================================
