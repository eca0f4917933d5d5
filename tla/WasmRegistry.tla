---------------------------- MODULE WasmRegistry ----------------------------
(***************************************************************************)
(* The browser sidecar: the registry of open readers and the current tile    *)
(* cache (crates/engine-wasm/src/registry.rs), and the promises of           *)
(* bindings.rs that use them.                                                *)
(*                                                                         *)
(* There is one thread.  A promise runs from await to await without          *)
(* interruption; between awaits other promises and configureTileCache may    *)
(* run.  A promise reads one or more URLs (zonalStatsBatch; the others are   *)
(* lists of one): it opens the distinct URLs together, then runs one read    *)
(* per URL of the list together.  cogMeta has no reads.                      *)
(***************************************************************************)
EXTENDS Integers, Sequences, FiniteSets, SequencesExt

CONSTANTS
  Promises,      \* promises that may be under way together
  Urls,          \* URLs
  Calls,         \* the calls: [urls, reads, parses]
  None,          \* no reader, no tile cache
  MAX_READERS,   \* registry capacity (64)
  MaxCalls,      \* bound on the calls made
  MaxConfigures  \* bound on the calls of configureTileCache

ASSUME RegistryAssumption ==
  /\ MAX_READERS \in Nat \ {0} /\ MaxCalls \in Nat /\ MaxConfigures \in Nat
  /\ \A c \in Calls : /\ c.urls \in Seq(Urls)
                       /\ c.reads \in BOOLEAN /\ c.parses \in BOOLEAN

\* None is no reader.
ASSUME NoneAssumption ==
  None \notin [url : Urls, cache : Nat \cup {None}, id : Nat]

VARIABLES
  readers,     \* READERS: the reader registered for each URL
  cache,       \* TILE_CACHE: the number of the current cache, or None
  configures,  \* caches configured so far
  opened,      \* readers opened so far
  calls,       \* calls made so far
  pc,          \* of each promise: "idle", "open", "read", "ok", "err"
  call,        \* its call
  opens,       \* its open_cached futures, by URL
  reads,       \* its zonal_on futures, by position
  result       \* what it settled with

vars == <<readers, cache, configures, opened, calls, pc, call, opens, reads, result>>

Settled == {"idle", "ok", "err"}

\* A future: waiting, or its outcome.
Waiting == [at |-> "await"]
Ok(v) == [at |-> "done", ok |-> v]
Err(e) == [at |-> "done", err |-> e]
IsErr(f) == "err" \in DOMAIN f

\* Mutant: join_all waits for successes.
AllSucceeded(fs) == \A k \in DOMAIN fs : fs[k].at = "done" /\ ~IsErr(fs[k])

\* join_all: every future has its outcome.
JoinAll(fs) == \A k \in DOMAIN fs : fs[k].at = "done"

\* The distinct URLs of a list, in the order of their first places.
Uniq(us) ==
  LET first == {i \in DOMAIN us : \A j \in 1..(i - 1) : us[j] # us[i]} IN
    [k \in 1..Cardinality(first) |->
       us[CHOOSE i \in first : Cardinality({j \in first : j < i}) = k - 1]]

-----------------------------------------------------------------------------
Init ==
  /\ readers = [u \in Urls |-> None]
  /\ cache = 0
  /\ configures = 0 /\ opened = 0 /\ calls = 0
  /\ pc = [p \in Promises |-> "idle"]
  /\ call = [p \in Promises |-> None]
  /\ opens = [p \in Promises |-> <<>>]
  /\ reads = [p \in Promises |-> <<>>]
  /\ result = [p \in Promises |-> None]

\* Mutant: the registry keeps its readers.
KeptReaders == readers

\* READERS.clear(): readers of the old cache are not kept.
ClearedReaders == [u \in Urls |-> None]

\* configure_tile_cache: a new cache, or none for 0 MB, and a cold registry.
Configure ==
  /\ configures < MaxConfigures
  /\ cache' \in {configures + 1, None}
  /\ configures' = configures + 1
  /\ readers' = ClearedReaders
  /\ UNCHANGED <<opened, calls, pc, call, opens, reads, result>>

\* by_url[urls[i]].
ReaderAt(us, os, i) == os[us[i]].ok

\* The opens of promise p are done: the first error in the order of the
\* distinct URLs rejects it; else its reads begin.
AfterOpens(p, c, os) ==
  LET uniq == Uniq(c.urls)
      bad == {k \in DOMAIN uniq : IsErr(os[uniq[k]])}
      first == CHOOSE k \in bad : \A j \in bad : k <= j
  IN \/ /\ ~JoinAll(os)
        /\ pc' = [pc EXCEPT ![p] = "open"]
        /\ UNCHANGED <<reads, result>>
     \/ /\ JoinAll(os) /\ bad # {}
        /\ pc' = [pc EXCEPT ![p] = "err"]
        /\ result' = [result EXCEPT ![p] = os[uniq[first]].err]
        /\ UNCHANGED reads
     \/ /\ JoinAll(os) /\ bad = {}
        /\ LET n == IF c.reads THEN Len(c.urls) ELSE 0 IN
             /\ pc' = [pc EXCEPT ![p] = IF n = 0 THEN "ok" ELSE "read"]
             /\ reads' = [reads EXCEPT ![p] = [i \in 1..n |-> Waiting]]
             /\ result' = [result EXCEPT ![p] = IF n = 0 THEN <<>> ELSE None]

\* A promise starts: its arguments parse or reject it, and the registry is
\* asked for every distinct URL before the first await.
Begin(p) ==
  /\ pc[p] \in Settled /\ calls < MaxCalls
  /\ \E c \in Calls :
       /\ call' = [call EXCEPT ![p] = c]
       /\ \/ /\ ~c.parses
             /\ pc' = [pc EXCEPT ![p] = "err"]
             /\ result' = [result EXCEPT ![p] = <<"parse">>]
             /\ UNCHANGED <<opens, reads>>
          \/ /\ c.parses
             /\ LET os == [u \in ToSet(c.urls) |->
                             IF readers[u] = None THEN Waiting ELSE Ok(readers[u])]
                IN opens' = [opens EXCEPT ![p] = os] /\ AfterOpens(p, c, os)
  /\ calls' = calls + 1
  /\ UNCHANGED <<readers, cache, configures, opened>>

IsFull(m) == Cardinality({u \in Urls : m[u] # None}) >= MAX_READERS

\* The registry with a reader inserted; a full one is cleared first.
Inserted(r) ==
  [(IF IsFull(readers) THEN [u \in Urls |-> None] ELSE readers) EXCEPT ![r.url] = r]

\* The metadata of a URL arrives: open_cached attaches the current cache,
\* registers the reader and returns it, without an await in between.
OpenOk(p, u) ==
  /\ pc[p] = "open" /\ opens[p][u] = Waiting
  /\ LET r == [url |-> u, cache |-> cache, id |-> opened + 1]
         os == [opens[p] EXCEPT ![u] = Ok(r)]
     IN /\ readers' = Inserted(r)
        /\ opens' = [opens EXCEPT ![p] = os]
        /\ AfterOpens(p, call[p], os)
  /\ opened' = opened + 1
  /\ UNCHANGED <<cache, configures, calls, call>>

\* It fails: a fetch error, or a file that is not a COG.
OpenErr(p, u) ==
  /\ pc[p] = "open" /\ opens[p][u] = Waiting
  /\ LET os == [opens[p] EXCEPT ![u] = Err(<<"open", u>>)] IN
       opens' = [opens EXCEPT ![p] = os] /\ AfterOpens(p, call[p], os)
  /\ UNCHANGED <<readers, cache, configures, opened, calls, call>>

\* Mutant: an error leaves a null in the array.
CollectNulls(fs) ==
  <<"ok", [i \in DOMAIN fs |-> IF IsErr(fs[i]) THEN None ELSE fs[i].ok]>>

\* The outcomes in order, or the first error.
Collect(fs) ==
  LET bad == {i \in DOMAIN fs : IsErr(fs[i])} IN
    IF bad = {} THEN <<"ok", [i \in DOMAIN fs |-> fs[i].ok]>>
    ELSE <<"err", fs[CHOOSE i \in bad : \A j \in bad : i <= j].err>>

\* A read ends with the value of its reader or an error; the last one
\* settles the promise.
ReadEnds(p, i, outcome) ==
  /\ pc[p] = "read" /\ reads[p][i] = Waiting
  /\ LET fs == [reads[p] EXCEPT ![i] = outcome] IN
       /\ reads' = [reads EXCEPT ![p] = fs]
       /\ \/ ~JoinAll(fs) /\ UNCHANGED <<pc, result>>
          \/ /\ JoinAll(fs)
             /\ pc' = [pc EXCEPT ![p] = Collect(fs)[1]]
             /\ result' = [result EXCEPT ![p] = Collect(fs)[2]]
  /\ UNCHANGED <<readers, cache, configures, opened, calls, call, opens>>

ReadOk(p, i) == ReadEnds(p, i, Ok(ReaderAt(call[p].urls, opens[p], i)))
ReadErr(p, i) == ReadEnds(p, i, Err(<<"read", i>>))

\* The steps of a promise that is under way.
Progress(p) ==
  \/ \E u \in DOMAIN opens[p] : OpenOk(p, u) \/ OpenErr(p, u)
  \/ \E i \in DOMAIN reads[p] : ReadOk(p, i) \/ ReadErr(p, i)

Rest ==
  /\ \A p \in Promises : pc[p] \in Settled
  /\ calls = MaxCalls /\ configures = MaxConfigures
  /\ UNCHANGED vars

Next == Configure \/ (\E p \in Promises : Begin(p) \/ Progress(p)) \/ Rest

\* The browser answers every request, with a response or an error.
Spec == Init /\ [][Next]_vars /\ \A p \in Promises : WF_vars(Progress(p))

-----------------------------------------------------------------------------
\* A reader that can be handed out is one of its URL, attached to the tile
\* cache that is current (to none if there is none), and there are at most
\* MAX_READERS of them: also when configureTileCache runs while files are
\* being opened, or two promises open the same URL.
RegistryCurrent ==
  /\ \A u \in Urls : readers[u] # None => readers[u].url = u /\ readers[u].cache = cache
  /\ Cardinality({u \in Urls : readers[u] # None}) <= MAX_READERS

\* A promise that resolves has a value for every URL at its place, computed
\* by a reader of that URL, the same one for equal URLs, whatever order opens
\* and reads end in.  One that rejects names its first failure, and no
\* failure resolves: null never stands for an error.
BatchExact ==
  \A p \in Promises :
    LET us == call[p].urls
        failed == {u \in DOMAIN opens[p] : IsErr(opens[p][u])}
        place(u) == CHOOSE i \in DOMAIN us : us[i] = u /\ \A j \in 1..(i - 1) : us[j] # u
    IN /\ (pc[p] = "ok" /\ call[p].reads) =>
            /\ Len(result[p]) = Len(us)
            /\ \A i \in DOMAIN us : result[p][i] # None /\ result[p][i].url = us[i]
            /\ \A i, j \in DOMAIN us : us[i] = us[j] => result[p][i] = result[p][j]
       /\ (pc[p] = "ok") => \A fs \in {opens[p], reads[p]} : \A k \in DOMAIN fs : ~IsErr(fs[k])
       /\ (pc[p] = "err" /\ call[p].parses) =>
            \/ \E u \in failed : /\ result[p] = <<"open", u>>
                                 /\ \A v \in failed : place(u) <= place(v)
            \/ /\ failed = {}
               /\ \E i \in DOMAIN reads[p] : /\ result[p] = <<"read", i>> /\ IsErr(reads[p][i])
                                             /\ \A j \in 1..(i - 1) : ~IsErr(reads[p][j])

\* Every promise settles.
PromisesSettle == \A p \in Promises : pc[p] \in {"open", "read"} ~> pc[p] \in {"ok", "err"}

=============================================================================
