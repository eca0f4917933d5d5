----------------------------- MODULE ReaderCache -----------------------------
(***************************************************************************)
(* Opening COGs: open_cog_cached_async (src/lib.rs) over the process-wide    *)
(* ReaderCache (crates/engine/src/cache.rs), and what the readers it hands   *)
(* out later read from the remote object.                                    *)
(*                                                                         *)
(* The cache lock is held for the lookup and for the insertion only; while   *)
(* the opener runs, time passes, other callers open the same key, and the    *)
(* object on the server may be replaced.  Every reader gets a fresh id that  *)
(* scopes its tiles in the tile cache, which is seen here from outside: a    *)
(* tile is read from the server once and then served until it is evicted.    *)
(***************************************************************************)
EXTENDS Integers, FiniteSets

CONSTANTS
  Callers,      \* concurrent calls that open a path
  Paths,        \* paths given by queries
  Remote,       \* the paths that contain "://"
  Tiles,        \* tile coordinates of a COG
  Ttl,          \* COG_REMOTE_CACHE_TTL_S; 0 disables the cache
  Cap,          \* capacity of the reader cache (8 in the extension)
  None,
  MaxTime,      \* bound on the clock
  MaxVersion,   \* bound on replacements of an object
  MaxCalls      \* bound on the calls made in all

ASSUME ReaderCacheAssumption ==
  /\ Remote \subseteq Paths
  /\ Ttl \in Nat /\ Cap \in Nat \ {0}
  /\ MaxTime \in Nat /\ MaxVersion \in Nat /\ MaxCalls \in Nat

VARIABLES
  caching,   \* tile_cache() is Some: COG_TILE_CACHE_MB is not 0
  now,       \* the monotonic clock
  version,   \* which replacement of the object each path names now
  map,       \* ReaderCache.map: the entry of each path or None
  next_id,   \* TileCache.next_id
  tiles,     \* resident tiles: <<reader id, tile>> |-> whose bytes it holds
  pc,        \* "idle", "open" (awaiting the opener), "insert", "use", "err"
  path,      \* the path each caller opens
  reader,    \* the reader it holds
  served,    \* whose bytes the last tile it was served holds
  calls

vars ==
  <<caching, now, version, map, next_id, tiles, pc, path, reader, served, calls>>
server == <<caching, now, version>>

Reader == [path : Paths, id : Nat \cup {None}, ver : Nat]
Entry == [cog : Reader, inserted : Nat]
\* The bytes of a tile: the path and the version of the object they are of.
Data == [path : Paths, ver : Nat]

ASSUME NoneAssumption ==
  /\ None \notin Nat \cup Paths
  /\ None \notin Reader /\ None \notin Entry /\ None \notin Data

Init ==
  /\ caching \in BOOLEAN
  /\ now = 0
  /\ version = [p \in Paths |-> 0]
  /\ map = [p \in Paths |-> None]
  /\ next_id = 0
  /\ tiles = [k \in {} |-> 0]
  /\ pc = [c \in Callers |-> "idle"]
  /\ path = [c \in Callers |-> None]
  /\ reader = [c \in Callers |-> None]
  /\ served = [c \in Callers |-> None]
  /\ calls = 0

-----------------------------------------------------------------------------
\* The world.

Tick ==
  /\ now < MaxTime
  /\ now' = now + 1
  /\ UNCHANGED <<caching, version, map, next_id, tiles, pc, path, reader, served, calls>>

\* Somebody replaces the object behind a path.
Replace(p) ==
  /\ version[p] < MaxVersion
  /\ version' = [version EXCEPT ![p] = @ + 1]
  /\ UNCHANGED <<caching, now, map, next_id, tiles, pc, path, reader, served, calls>>

-----------------------------------------------------------------------------
\* get_or_open.

\* inserted.elapsed() < ttl
Fresh(e) == e # None /\ now - e.inserted < Ttl

\* A call begins: a fresh entry is a hit, anything else runs the opener.
Lookup(c, p) ==
  /\ pc[c] \in {"idle", "use", "err"}
  /\ calls < MaxCalls
  /\ path' = [path EXCEPT ![c] = p]
  /\ calls' = calls + 1
  /\ served' = [served EXCEPT ![c] = None]
  /\ LET hit == p \in Remote /\ Ttl > 0 /\ Fresh(map[p]) IN
       /\ pc' = [pc EXCEPT ![c] = IF hit THEN "use" ELSE "open"]
       /\ reader' = [reader EXCEPT ![c] = IF hit THEN map[p].cog ELSE None]
  /\ UNCHANGED <<server, map, next_id, tiles>>

\* Mutant: the id counter never moves.
RegisterSame == UNCHANGED next_id

\* TileCache::register: next_id.fetch_add(1).
Register == next_id' = next_id + 1

\* The opener has read the metadata of the object as it is now; a remote
\* reader is attached to the tile cache, if there is one, under a new id.  A
\* local reader never is.
OpenOk(c) ==
  /\ pc[c] = "open"
  /\ LET p == path[c]
         opened(id) == [path |-> p, id |-> id, ver |-> version[p]]
     IN \/ /\ p \in Remote /\ caching
           /\ Register
           /\ reader' = [reader EXCEPT ![c] = opened(next_id)]
        \/ /\ ~(p \in Remote /\ caching)
           /\ reader' = [reader EXCEPT ![c] = opened(None)]
           /\ UNCHANGED next_id
  /\ pc' = [pc EXCEPT ![c] = "insert"]
  /\ UNCHANGED <<server, map, tiles, path, served, calls>>

\* The opener fails: nothing is inserted.
OpenErr(c) ==
  /\ pc[c] = "open"
  /\ pc' = [pc EXCEPT ![c] = "err"]
  /\ UNCHANGED <<server, map, next_id, tiles, path, reader, served, calls>>

\* The map after retain: only fresh entries.
Retained == [p \in Paths |-> IF Fresh(map[p]) THEN map[p] ELSE None]
Live(m) == {p \in Paths : m[p] # None}

\* Mutants: one entry too many; a key that is replaced makes room as well.
MakesRoomLate(m, p) == Cardinality(Live(m)) > Cap /\ m[p] = None
MakesRoomAlways(m, p) == Cardinality(Live(m)) >= Cap

\* A new key at capacity pushes out the entry inserted first.
MakesRoom(m, p) == Cardinality(Live(m)) >= Cap /\ m[p] = None

Oldest(m) ==
  {q \in Live(m) : \A r \in Live(m) : m[q].inserted <= m[r].inserted}

\* The insertion, in one critical section; then the call returns the reader
\* it opened.  Local paths and Ttl = 0 skip the cache.
Insert(c) ==
  /\ pc[c] = "insert"
  /\ LET p == path[c]
         e == [cog |-> reader[c], inserted |-> now]
     IN \/ /\ p \in Remote /\ Ttl > 0
           /\ \/ /\ MakesRoom(Retained, p)
                 /\ \E q \in Oldest(Retained) :
                      map' = [Retained EXCEPT ![q] = None, ![p] = e]
              \/ /\ ~MakesRoom(Retained, p)
                 /\ map' = [Retained EXCEPT ![p] = e]
        \/ /\ ~(p \in Remote /\ Ttl > 0)
           /\ UNCHANGED map
  /\ pc' = [pc EXCEPT ![c] = "use"]
  /\ UNCHANGED <<server, next_id, tiles, path, reader, served, calls>>

-----------------------------------------------------------------------------
\* Reading tiles through a reader.

\* Mutant: tiles are keyed by the path of their object.
TileKeyByPath(r, t) == <<r.path, t>>

\* The tile-cache key of a tile: (ReaderId, level, x, y).
TileKey(r, t) == <<r.id, t>>

\* The reader has a tile cache attached.
Attached(r) == r.id # None

\* fetch_decoded: a resident tile is served, a missing one is read from the
\* object as it is now and becomes resident.  A reader without a tile cache
\* reads the object every time.
ReadTile(c, t) ==
  /\ pc[c] = "use"
  /\ LET k == TileKey(reader[c], t)
         current == version[path[c]]
     IN \/ /\ Attached(reader[c]) /\ k \in DOMAIN tiles
           /\ served' = [served EXCEPT ![c] = tiles[k]]
           /\ UNCHANGED tiles
        \/ /\ Attached(reader[c]) /\ k \notin DOMAIN tiles
           /\ served' = [served EXCEPT ![c] = [path |-> path[c], ver |-> current]]
           /\ tiles' = [j \in DOMAIN tiles \cup {k} |->
                          IF j = k THEN [path |-> path[c], ver |-> current]
                                   ELSE tiles[j]]
        \/ /\ ~Attached(reader[c])
           /\ served' = [served EXCEPT ![c] = [path |-> path[c], ver |-> current]]
           /\ UNCHANGED tiles
  /\ UNCHANGED <<server, map, next_id, pc, path, reader, calls>>

\* The tile cache evicts a tile of any reader, in use or not.
EvictTile(k) ==
  /\ tiles' = [j \in DOMAIN tiles \ {k} |-> tiles[j]]
  /\ UNCHANGED <<server, map, next_id, pc, path, reader, served, calls>>

Next ==
  \/ Tick
  \/ \E p \in Paths : Replace(p)
  \/ \E c \in Callers : \/ \E p \in Paths : Lookup(c, p)
                        \/ OpenOk(c) \/ OpenErr(c) \/ Insert(c)
                        \/ \E t \in Tiles : ReadTile(c, t)
  \/ \E k \in DOMAIN tiles : EvictTile(k)

Spec == Init /\ [][Next]_vars

-----------------------------------------------------------------------------
\* Every variable keeps its type.
TypeOK ==
  /\ caching \in BOOLEAN
  /\ now \in 0..MaxTime
  /\ version \in [Paths -> 0..MaxVersion]
  /\ map \in [Paths -> Entry \cup {None}]
  /\ next_id \in Nat
  /\ DOMAIN tiles \subseteq Nat \X Tiles /\ tiles \in [DOMAIN tiles -> Data]
  /\ pc \in [Callers -> {"idle", "open", "insert", "use", "err"}]
  /\ path \in [Callers -> Paths \cup {None}]
  /\ reader \in [Callers -> Reader \cup {None}]
  /\ served \in [Callers -> Data \cup {None}]
  /\ calls \in 0..MaxCalls

\* The reader cache holds at most Cap entries, however many opens were in
\* flight together.
CapHeld == Cardinality(Live(map)) <= Cap

\* No call ever gets a reader, or a tile, of another path, however readers
\* are replaced and ids are handed out.
NoForeignData ==
  \A c \in Callers : pc[c] = "use" =>
    /\ reader[c].path = path[c]
    /\ served[c] # None => served[c].path = path[c]

\* Reopening invalidates: a tile that a call is served was read from the
\* server no earlier than the metadata of the reader it is served through.
ReopenInvalidates ==
  \A c \in Callers :
    pc[c] = "use" /\ served[c] # None => served[c].ver >= reader[c].ver

\* An entry that has not expired leaves the cache only when its own key is
\* reopened, or when a new key arrives at capacity and it is the oldest.
OldestOut ==
  [][\A p \in Live(map) :
       Fresh(map[p]) /\ map'[p] = None =>
         /\ Cardinality(Live(Retained)) = Cap
         /\ \A q \in Live(Retained) : map[p].inserted <= map[q].inserted
         /\ \E q \in Live(map') : map[q] = None \/ ~Fresh(map[q])]_vars

=============================================================================
