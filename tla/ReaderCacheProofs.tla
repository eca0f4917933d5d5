-------------------------- MODULE ReaderCacheProofs --------------------------
(***************************************************************************)
(* Theorems about ReaderCache for every set of callers, paths and tiles,     *)
(* every capacity and time to live, and any interleaving of opens,           *)
(* replacements of the object, tile reads and evictions.                     *)
(***************************************************************************)
EXTENDS ReaderCache, FiniteSetTheorems, TLAPS

\* The readers in circulation: cached, or held by a call.
Held == {map[p].cog : p \in Live(map)} \cup
        {reader[c] : c \in {d \in Callers : reader[d] # None}}

\* A reader has the path it was opened for and metadata no newer than the
\* object; an id it has was handed out before.
ReaderSound(r) ==
  /\ r.ver <= version[r.path]
  /\ Attached(r) => r.id \in Nat /\ r.id < next_id

\* The cache holds remote readers under their own path.
CacheSound ==
  /\ IsFiniteSet(Live(map))
  /\ \A p \in Live(map) : /\ p \in Remote /\ map[p].cog.path = p
                          /\ map[p].inserted <= now

\* Calls hold a reader exactly after the opener has returned one, and it is
\* of their path.
CallsSound ==
  \A c \in Callers :
    /\ pc[c] \in {"idle", "open", "err"} => reader[c] = None /\ served[c] = None
    /\ pc[c] \in {"insert", "use"} => reader[c] # None /\ reader[c].path = path[c]
    /\ pc[c] = "open" => path[c] \in Paths
    /\ pc[c] # "use" => served[c] = None

\* An id belongs to one reader, and the resident tiles of an id are of the
\* object that its reader was opened on, not older than its metadata.
TilesSound ==
  /\ \A k \in DOMAIN tiles : k[1] < next_id
  /\ \A r, s \in Held : Attached(r) /\ r.id = s.id => r = s
  /\ \A r \in Held : \A t \in Tiles :
       Attached(r) /\ TileKey(r, t) \in DOMAIN tiles =>
         tiles[TileKey(r, t)].path = r.path /\ tiles[TileKey(r, t)].ver >= r.ver

ReadersSound ==
  /\ \A r \in Held : ReaderSound(r)
  /\ CacheSound /\ CallsSound /\ TilesSound

-----------------------------------------------------------------------------
\* Types.

\* The fields of a cached entry and of a reader.
LEMMA Fields ==
  /\ \A e \in Entry : e.cog \in Reader /\ e.inserted \in Nat
  /\ \A r \in Reader : r.path \in Paths /\ r.id \in Nat \cup {None} /\ r.ver \in Nat
  /\ \A d \in Data : d.path \in Paths /\ d.ver \in Nat
BY DEF Entry, Reader, Data

\* The readers in circulation are readers.
LEMMA HeldReaders ==
  ASSUME TypeOK PROVE Held \subseteq Reader
<1>1. \A p \in Live(map) : map[p].cog \in Reader
  BY Fields DEF TypeOK, Live
<1>2. \A c \in Callers : reader[c] # None => reader[c] \in Reader
  BY DEF TypeOK
<1>3. QED
  BY <1>1, <1>2 DEF Held

\* What retain leaves is what was there or nothing.
LEMMA RetainedMap ==
  ASSUME TypeOK
  PROVE  /\ Retained \in [Paths -> Entry \cup {None}]
         /\ \A p \in Paths : Retained[p] = IF Fresh(map[p]) THEN map[p] ELSE None
         /\ Live(Retained) \subseteq Live(map)
         /\ \A p \in Live(Retained) : Retained[p] = map[p]
BY DEF TypeOK, Retained, Live, Fresh

\* Inserting leaves retained entries, and under the caller's path its reader.
LEMMA InsertMap ==
  ASSUME TypeOK, CallsSound, NEW c \in Callers, Insert(c)
  PROVE  LET e == [cog |-> reader[c], inserted |-> now] IN
           /\ e \in Entry /\ path[c] \in Paths /\ reader[c] \in Reader
           /\ map' \in [Paths -> Entry \cup {None}]
           /\ \/ map' = map
              \/ /\ path[c] \in Remote /\ map'[path[c]] = e
                 /\ \A p \in Paths \ {path[c]} :
                      map'[p] = None \/ (map'[p] = map[p] /\ p \in Live(map))
<1> DEFINE e == [cog |-> reader[c], inserted |-> now]
           p == path[c]
<1>1. pc[c] = "insert" /\ reader[c] # None
  BY DEF Insert, CallsSound
<1>2. reader[c] \in Reader /\ p = reader[c].path
  BY <1>1 DEF TypeOK, CallsSound
<1>3. p \in Paths /\ now \in Nat
  BY <1>2, Fields, ReaderCacheAssumption DEF TypeOK
<1>4. e \in Entry
  BY <1>2, <1>3 DEF Entry
<1>5. CASE map' = map
  BY <1>2, <1>3, <1>4, <1>5 DEF TypeOK
<1>6. ASSUME NEW q \in Oldest(Retained), p \in Remote,
             map' = [Retained EXCEPT ![q] = None, ![p] = e]
      PROVE  /\ map' \in [Paths -> Entry \cup {None}]
             /\ p \in Remote /\ map'[p] = e
             /\ \A i \in Paths \ {p} :
                  map'[i] = None \/ (map'[i] = map[i] /\ i \in Live(map))
  <2>1. q \in Paths
    BY DEF Oldest, Live
  <2> HIDE DEF e, p
  <2>2. QED
    BY <1>3, <1>4, <1>6, <2>1, RetainedMap DEF Live
<1>7. ASSUME p \in Remote, map' = [Retained EXCEPT ![p] = e]
      PROVE  /\ map' \in [Paths -> Entry \cup {None}]
             /\ p \in Remote /\ map'[p] = e
             /\ \A i \in Paths \ {p} :
                  map'[i] = None \/ (map'[i] = map[i] /\ i \in Live(map))
  <2> HIDE DEF e, p
  <2>1. QED
    BY <1>3, <1>4, <1>7, RetainedMap DEF Live
<1>8. QED
  BY <1>2, <1>3, <1>4, <1>5, <1>6, <1>7 DEF Insert

\* The tile an attached reader asks for has a key made of its id.
LEMMA KeyType ==
  ASSUME TypeOK, ReadersSound, NEW c \in Callers, pc[c] = "use", NEW t \in Tiles
  PROVE  /\ reader[c] \in Reader /\ reader[c] \in Held /\ path[c] \in Paths
         /\ reader[c].path = path[c]
         /\ Attached(reader[c]) => TileKey(reader[c], t) \in Nat \X Tiles
<1>1. reader[c] # None /\ reader[c].path = path[c]
  BY DEF ReadersSound, CallsSound
<1>2. reader[c] \in Reader /\ reader[c] \in Held
  BY <1>1 DEF TypeOK, Held
<1>3. path[c] \in Paths
  BY <1>1, <1>2, Fields
<1>4. Attached(reader[c]) => reader[c].id \in Nat
  BY <1>1, <1>2 DEF ReadersSound, ReaderSound
<1>5. QED
  BY <1>1, <1>2, <1>3, <1>4 DEF TileKey

\* The empty caches and the idle calls have the right types.
LEMMA InitTypes == Init => TypeOK
BY ReaderCacheAssumption DEF Init, TypeOK

\* Every step keeps the types.
LEMMA NextTypes == TypeOK /\ ReadersSound /\ [Next]_vars => TypeOK'
<1> SUFFICES ASSUME TypeOK, ReadersSound, [Next]_vars
             PROVE  TypeOK'
  OBVIOUS
<1> USE ReaderCacheAssumption
<1>1. CASE Tick
  BY <1>1 DEF Tick, TypeOK
<1>2. ASSUME NEW p \in Paths, Replace(p)
      PROVE  TypeOK'
  BY <1>2 DEF Replace, TypeOK
<1>3. ASSUME NEW c \in Callers, NEW p \in Paths, Lookup(c, p)
      PROVE  TypeOK'
  <2>1. p \in Remote /\ Fresh(map[p]) => map[p].cog \in Reader
    BY Fields DEF Fresh, TypeOK
  <2>2. QED
    BY <1>3, <2>1 DEF Lookup, TypeOK, server
<1>4. ASSUME NEW c \in Callers, OpenOk(c)
      PROVE  TypeOK'
  <2>1. path[c] \in Paths
    BY <1>4 DEF OpenOk, ReadersSound, CallsSound
  <2>2. \A i \in Nat \cup {None} :
          [path |-> path[c], id |-> i, ver |-> version[path[c]]] \in Reader
    BY <2>1 DEF TypeOK, Reader
  <2>3. reader' \in [Callers -> Reader \cup {None}] /\ next_id' \in Nat
    BY <1>4, <2>2 DEF OpenOk, Register, TypeOK
  <2>4. QED
    BY <1>4, <2>3 DEF OpenOk, TypeOK, server
<1>5. ASSUME NEW c \in Callers, OpenErr(c)
      PROVE  TypeOK'
  BY <1>5 DEF OpenErr, TypeOK, server
<1>6. ASSUME NEW c \in Callers, Insert(c)
      PROVE  TypeOK'
  <2>1. map' \in [Paths -> Entry \cup {None}]
    BY <1>6, InsertMap DEF ReadersSound
  <2>2. QED
    BY <1>6, <2>1 DEF Insert, TypeOK, server
<1>7. ASSUME NEW c \in Callers, NEW t \in Tiles, ReadTile(c, t)
      PROVE  TypeOK'
  <2> DEFINE k == TileKey(reader[c], t)
             d == [path |-> path[c], ver |-> version[path[c]]]
  <2>1. pc[c] = "use" /\ path[c] \in Paths /\ (Attached(reader[c]) => k \in Nat \X Tiles)
    BY <1>7, KeyType DEF ReadTile
  <2>2. d \in Data
    BY <2>1 DEF TypeOK, Data
  <2>3. /\ DOMAIN tiles' \subseteq Nat \X Tiles /\ tiles' \in [DOMAIN tiles' -> Data]
        /\ served' \in [Callers -> Data \cup {None}]
    <3>1. CASE Attached(reader[c]) /\ k \in DOMAIN tiles
      BY <1>7, <3>1 DEF ReadTile, TypeOK
    <3>2. CASE Attached(reader[c]) /\ k \notin DOMAIN tiles
      BY <1>7, <2>1, <2>2, <3>2 DEF ReadTile, TypeOK
    <3>3. CASE ~Attached(reader[c])
      BY <1>7, <2>2, <3>3 DEF ReadTile, TypeOK
    <3>4. QED
      BY <3>1, <3>2, <3>3
  <2>4. QED
    BY <1>7, <2>3 DEF ReadTile, TypeOK, server
<1>8. ASSUME NEW k \in DOMAIN tiles, EvictTile(k)
      PROVE  TypeOK'
  BY <1>8 DEF EvictTile, TypeOK, server
<1>9. CASE UNCHANGED vars
  BY <1>9 DEF vars, TypeOK
<1>10. QED
  BY <1>1, <1>2, <1>3, <1>4, <1>5, <1>6, <1>7, <1>8, <1>9 DEF Next


-----------------------------------------------------------------------------
\* The readers in circulation.

\* The next id is one.
LEMMA NextIdSome == TypeOK => next_id # None
BY NoneAssumption DEF TypeOK

\* Only a successful open brings a new reader into circulation.
LEMMA NextHeld ==
  ASSUME TypeOK, ReadersSound, [Next]_vars, \A c \in Callers : ~OpenOk(c)
  PROVE  Held' \subseteq Held
<1>1. ASSUME UNCHANGED <<map, reader>>
      PROVE  Held' \subseteq Held
  BY <1>1 DEF Held, Live
<1>2. ASSUME NEW c \in Callers, NEW p \in Paths, Lookup(c, p)
      PROVE  Held' \subseteq Held
  <2>1. map' = map /\ Live(map)' = Live(map)
    BY <1>2 DEF Lookup, Live
  <2>2. \A d \in Callers \ {c} : reader'[d] = reader[d]
    BY <1>2 DEF Lookup, TypeOK
  <2>3. reader'[c] = None \/ (p \in Live(map) /\ reader'[c] = map[p].cog)
    BY <1>2 DEF Lookup, Fresh, Live, TypeOK
  <2>4. QED
    BY <2>1, <2>2, <2>3 DEF Held
<1>3. ASSUME NEW c \in Callers, Insert(c)
      PROVE  Held' \subseteq Held
  <2>1. reader' = reader /\ reader[c] # None
    BY <1>3 DEF Insert, ReadersSound, CallsSound
  <2>2. ASSUME NEW p \in Live(map)'
        PROVE  map'[p].cog \in Held
    <3>1. p \in Paths /\ map'[p] # None
      BY DEF Live
    <3>2. CASE map' = map
      BY <3>1, <3>2 DEF Held, Live
    <3>3. CASE p # path[c] /\ map'[p] = map[p] /\ p \in Live(map)
      BY <3>3 DEF Held
    <3>4. CASE p = path[c] /\ map'[p] = [cog |-> reader[c], inserted |-> now]
      BY <2>1, <3>4 DEF Held
    <3>5. QED
      BY <1>3, <3>1, <3>2, <3>3, <3>4, InsertMap DEF ReadersSound
  <2>3. QED
    BY <2>1, <2>2 DEF Held
<1>4. QED
  BY <1>1, <1>2, <1>3
  DEF Next, vars, Tick, Replace, OpenErr, ReadTile, EvictTile

\* A successful open brings the reader it opened, under a new id if it has one.
LEMMA OpenHeld ==
  ASSUME TypeOK, ReadersSound, NEW c \in Callers, OpenOk(c)
  PROVE  /\ path[c] \in Paths /\ reader'[c] \in Reader
         /\ reader'[c].path = path[c] /\ reader'[c].ver = version[path[c]]
         /\ Attached(reader'[c]) => reader'[c].id = next_id /\ next_id' = next_id + 1
         /\ ~Attached(reader'[c]) => next_id' = next_id
         /\ Held' \subseteq Held \cup {reader'[c]}
<1>1. path[c] \in Paths
  BY DEF OpenOk, ReadersSound, CallsSound
<1>2. \A i \in Nat \cup {None} :
        [path |-> path[c], id |-> i, ver |-> version[path[c]]] \in Reader
  BY <1>1, ReaderCacheAssumption DEF TypeOK, Reader
<1>3. CASE /\ Register
           /\ reader' = [reader EXCEPT ![c] =
                           [path |-> path[c], id |-> next_id, ver |-> version[path[c]]]]
  BY <1>1, <1>2, <1>3, NextIdSome DEF OpenOk, Register, TypeOK, Held, Live, Attached
<1>4. CASE /\ UNCHANGED next_id
           /\ reader' = [reader EXCEPT ![c] =
                           [path |-> path[c], id |-> None, ver |-> version[path[c]]]]
  BY <1>1, <1>2, <1>4 DEF OpenOk, TypeOK, Held, Live, Attached
<1>5. QED
  BY <1>3, <1>4 DEF OpenOk

\* Every step keeps the readers sound: versions and ids only grow.
LEMMA NextReaders ==
  ASSUME TypeOK, ReadersSound, [Next]_vars, NEW r \in Held'
  PROVE  ReaderSound(r)'
<1>1. /\ next_id \in Nat /\ next_id' \in Nat /\ next_id <= next_id'
  <2>1. UNCHANGED next_id \/ Register
    BY DEF Next, vars, Tick, Replace, Lookup, OpenOk, OpenErr, Insert, ReadTile, EvictTile
  <2>2. QED
    BY <2>1 DEF Register, TypeOK
<1>2. \A p \in Paths : /\ version[p] \in Nat /\ version'[p] \in Nat
                       /\ version[p] <= version'[p]
  <2>1. ASSUME NEW q \in Paths, Replace(q)
        PROVE  \A p \in Paths : version'[p] \in Nat /\ version[p] <= version'[p]
    BY <2>1, ReaderCacheAssumption DEF Replace, TypeOK
  <2>2. CASE UNCHANGED version
    BY <2>2, ReaderCacheAssumption DEF TypeOK
  <2>3. \A p \in Paths : version[p] \in Nat
    BY ReaderCacheAssumption DEF TypeOK
  <2>4. QED
    BY <2>1, <2>2, <2>3
    DEF Next, vars, server, Tick, Lookup, OpenOk, OpenErr, Insert, ReadTile, EvictTile
<1>3. CASE r \in Held
  <2>1. ReaderSound(r) /\ r.path \in Paths /\ r.ver \in Nat
    BY <1>3, HeldReaders, Fields DEF ReadersSound
  <2>2. QED
    BY <1>1, <1>2, <2>1 DEF ReaderSound
<1>4. ASSUME NEW c \in Callers, OpenOk(c), r = reader'[c]
      PROVE  ReaderSound(r)'
  <2>1. version' = version
    BY <1>4 DEF OpenOk, server
  <2>2. /\ r.path = path[c] /\ r.ver = version[path[c]] /\ path[c] \in Paths
        /\ Attached(r) => r.id = next_id /\ next_id' = next_id + 1
    BY <1>4, OpenHeld
  <2>3. QED
    BY <1>1, <1>2, <2>1, <2>2 DEF ReaderSound
<1>5. QED
  <2>1. CASE \E c \in Callers : OpenOk(c)
    BY <1>3, <1>4, <2>1, OpenHeld
  <2>2. CASE \A c \in Callers : ~OpenOk(c)
    BY <1>3, <2>2, NextHeld
  <2>3. QED
    BY <2>1, <2>2

\* Every step keeps the cached entries sound.
LEMMA NextCache == TypeOK /\ ReadersSound /\ [Next]_vars => CacheSound'
<1> SUFFICES ASSUME TypeOK, ReadersSound, [Next]_vars
             PROVE  CacheSound'
  OBVIOUS
<1>0. CacheSound /\ now \in Nat /\ now' \in Nat /\ now <= now'
  <2>1. now' = now \/ now' = now + 1
    BY DEF Next, vars, server, Tick, Replace, Lookup, OpenOk, OpenErr, Insert, ReadTile,
           EvictTile
  <2>2. QED
    BY <2>1, ReaderCacheAssumption DEF ReadersSound, TypeOK
<1>1. ASSUME NEW c \in Callers, Insert(c)
      PROVE  CacheSound'
  <2>1. /\ path[c] \in Paths /\ reader[c].path = path[c] /\ now' = now
    BY <1>1, InsertMap DEF ReadersSound, CallsSound, Insert, server
  <2>2. CASE map' = map
    BY <1>0, <2>1, <2>2 DEF CacheSound, Live
  <2>3. CASE /\ path[c] \in Remote
             /\ map'[path[c]] = [cog |-> reader[c], inserted |-> now]
             /\ \A p \in Paths \ {path[c]} :
                  map'[p] = None \/ (map'[p] = map[p] /\ p \in Live(map))
    <3>1. Live(map)' \subseteq Live(map) \cup {path[c]}
      BY <2>3 DEF Live
    <3>2. IsFiniteSet(Live(map)')
      <4>1. IsFiniteSet(Live(map) \cup {path[c]})
        BY <1>0, FS_AddElement DEF CacheSound
      <4>2. QED
        BY <3>1, <4>1, FS_Subset
    <3>3. ASSUME NEW p \in Live(map)'
          PROVE  p \in Remote /\ map'[p].cog.path = p /\ map'[p].inserted <= now'
      <4>1. CASE p = path[c]
        BY <1>0, <2>1, <2>3, <4>1
      <4>2. CASE p # path[c]
        <5>1. map'[p] = map[p] /\ p \in Live(map)
          BY <2>3, <4>2 DEF Live
        <5>2. QED
          BY <1>0, <2>1, <5>1 DEF CacheSound
      <4>3. QED
        BY <4>1, <4>2
    <3>4. QED
      BY <3>2, <3>3 DEF CacheSound
  <2>4. QED
    BY <1>1, <2>2, <2>3, InsertMap DEF ReadersSound
<1>2. CASE UNCHANGED map
  <2>1. Live(map)' = Live(map)
    BY <1>2 DEF Live
  <2>2. \A p \in Live(map) : map[p].inserted \in Nat
    BY Fields DEF Live, TypeOK
  <2>3. QED
    BY <1>0, <1>2, <2>1, <2>2 DEF CacheSound
<1>3. QED
  BY <1>1, <1>2 DEF Next, vars, Tick, Replace, Lookup, OpenOk, OpenErr, ReadTile, EvictTile

\* Every step keeps the calls sound.
LEMMA NextCalls == TypeOK /\ ReadersSound /\ [Next]_vars => CallsSound'
<1> SUFFICES ASSUME TypeOK, ReadersSound, [Next]_vars
             PROVE  CallsSound'
  OBVIOUS
<1>0. CallsSound
  BY DEF ReadersSound
<1>1. ASSUME NEW c \in Callers, NEW p \in Paths, Lookup(c, p)
      PROVE  CallsSound'
  <2>1. Fresh(map[p]) => /\ map[p].cog \in Reader /\ map[p].cog # None
                         /\ map[p].cog.path = p
    BY Fields, NoneAssumption DEF Fresh, TypeOK, ReadersSound, CacheSound, Live
  <2>2. QED
    BY <1>0, <1>1, <2>1 DEF Lookup, CallsSound, TypeOK
<1>2. ASSUME NEW c \in Callers, OpenOk(c)
      PROVE  CallsSound'
  <2>1. reader'[c] \in Reader /\ reader'[c].path = path[c]
    BY <1>2, OpenHeld
  <2>2. reader'[c] # None
    BY <2>1, NoneAssumption
  <2>3. \A d \in Callers \ {c} : reader'[d] = reader[d]
    BY <1>2 DEF OpenOk, TypeOK
  <2>4. /\ pc'[c] = "insert" /\ pc[c] = "open" /\ UNCHANGED <<path, served>>
        /\ \A d \in Callers \ {c} : pc'[d] = pc[d]
    BY <1>2 DEF OpenOk, TypeOK
  <2>5. QED
    BY <1>0, <2>1, <2>2, <2>3, <2>4 DEF CallsSound
<1>3. ASSUME NEW c \in Callers, OpenErr(c)
      PROVE  CallsSound'
  BY <1>0, <1>3 DEF OpenErr, CallsSound, TypeOK
<1>4. ASSUME NEW c \in Callers, Insert(c)
      PROVE  CallsSound'
  <2>1. /\ pc[c] = "insert" /\ pc' = [pc EXCEPT ![c] = "use"]
        /\ UNCHANGED <<path, reader, served>>
    BY <1>4 DEF Insert
  <2>2. QED
    BY <1>0, <2>1 DEF CallsSound, TypeOK
<1>5. ASSUME NEW c \in Callers, NEW t \in Tiles, ReadTile(c, t)
      PROVE  CallsSound'
  <2>1. /\ pc[c] = "use" /\ UNCHANGED <<pc, path, reader>>
        /\ \A d \in Callers \ {c} : served'[d] = served[d]
    BY <1>5 DEF ReadTile, TypeOK
  <2>2. QED
    BY <1>0, <2>1 DEF CallsSound
<1>6. CASE UNCHANGED <<pc, path, reader, served>>
  BY <1>0, <1>6 DEF CallsSound
<1>7. QED
  BY <1>1, <1>2, <1>3, <1>4, <1>5, <1>6 DEF Next, vars, Tick, Replace, EvictTile

\* Every step keeps ids unique and the tiles of an id those of its reader.
LEMMA NextTiles == TypeOK /\ ReadersSound /\ [Next]_vars => TilesSound'
<1> SUFFICES ASSUME TypeOK, ReadersSound, [Next]_vars
             PROVE  TilesSound'
  OBVIOUS
<1>0. /\ TilesSound /\ next_id \in Nat /\ Held \subseteq Reader
      /\ \A r \in Held : ReaderSound(r)
      /\ \A k \in DOMAIN tiles : k \in Nat \X Tiles
  BY HeldReaders DEF ReadersSound, TypeOK
<1>1. ASSUME NEW c \in Callers, OpenOk(c)
      PROVE  TilesSound'
  <2> DEFINE n == reader'[c]
  <2>1. /\ Attached(n) => n.id = next_id
        /\ Held' \subseteq Held \cup {n} /\ tiles' = tiles
        /\ next_id' \in Nat /\ next_id <= next_id'
    <3>1. tiles' = tiles
      BY <1>1 DEF OpenOk
    <3>2. /\ n.path = path[c] /\ Held' \subseteq Held \cup {n}
          /\ Attached(n) => n.id = next_id /\ next_id' = next_id + 1
          /\ ~Attached(n) => next_id' = next_id
      BY <1>1, OpenHeld
    <3>3. QED
      BY <1>0, <3>1, <3>2
  <2> HIDE DEF n
  <2>2. \A k \in DOMAIN tiles' : k[1] < next_id'
    BY <1>0, <2>1 DEF TilesSound
  <2>3. \A r \in Held : Attached(r) => r.id # next_id
    BY <1>0 DEF ReaderSound
  <2>4. \A r, s \in Held' : Attached(r) /\ r.id = s.id => r = s
    BY <1>0, <2>1, <2>3 DEF TilesSound, Attached
  <2>5. \A t \in Tiles : Attached(n) => TileKey(n, t) \notin DOMAIN tiles
    BY <1>0, <2>1 DEF TilesSound, TileKey
  <2>6. \A r \in Held' : \A t \in Tiles :
          Attached(r) /\ TileKey(r, t) \in DOMAIN tiles' =>
            tiles'[TileKey(r, t)].path = r.path /\ tiles'[TileKey(r, t)].ver >= r.ver
    BY <1>0, <2>1, <2>5 DEF TilesSound
  <2>7. QED
    BY <2>2, <2>4, <2>6 DEF TilesSound, TileKey
<1>2. ASSUME \A c \in Callers : ~OpenOk(c), next_id' = next_id,
             DOMAIN tiles' \subseteq DOMAIN tiles,
             \A k \in DOMAIN tiles' : tiles'[k] = tiles[k]
      PROVE  TilesSound'
  <2>1. Held' \subseteq Held
    BY <1>2, NextHeld
  <2>2. QED
    BY <1>0, <1>2, <2>1 DEF TilesSound, TileKey
<1>3. ASSUME NEW c \in Callers, NEW t \in Tiles, ReadTile(c, t), tiles' # tiles
      PROVE  TilesSound'
  <2>1. PICK k : k = TileKey(reader[c], t)
    OBVIOUS
  <2>2. /\ reader[c] \in Held /\ Attached(reader[c]) /\ path[c] \in Paths
        /\ reader[c].path = path[c] /\ k \in Nat \X Tiles
    BY <1>3, <2>1, KeyType DEF ReadTile
  <2>3. /\ next_id' = next_id
        /\ tiles' = [j \in DOMAIN tiles \cup {k} |->
                       IF j = k THEN [path |-> path[c], ver |-> version[path[c]]]
                                ELSE tiles[j]]
    BY <1>3, <2>1 DEF ReadTile
  <2>4. Held' = Held
    BY <1>3 DEF ReadTile, Held, Live
  <2>5. k[1] = reader[c].id /\ k[1] < next_id /\ reader[c].ver <= version[path[c]]
    BY <1>0, <2>1, <2>2 DEF TileKey, ReaderSound
  <2>6. \A j \in DOMAIN tiles' : j[1] < next_id'
    BY <1>0, <2>3, <2>5 DEF TilesSound
  <2>7. ASSUME NEW r \in Held, NEW u \in Tiles, Attached(r),
               TileKey(r, u) \in DOMAIN tiles'
        PROVE  tiles'[TileKey(r, u)].path = r.path /\ tiles'[TileKey(r, u)].ver >= r.ver
    <3>1. CASE TileKey(r, u) = k
      <4>1. r.id = reader[c].id
        BY <2>1, <3>1 DEF TileKey
      <4>2. r = reader[c]
        BY <1>0, <2>2, <2>7, <4>1 DEF TilesSound
      <4>3. tiles'[k] = [path |-> path[c], ver |-> version[path[c]]]
        BY <2>3
      <4>4. r.ver \in Nat /\ version[path[c]] \in Nat
        BY <1>0, <2>2, Fields, ReaderCacheAssumption DEF TypeOK
      <4>5. QED
        BY <2>2, <2>5, <3>1, <4>2, <4>3, <4>4
    <3>2. CASE TileKey(r, u) # k
      BY <1>0, <2>3, <2>7, <3>2 DEF TilesSound
    <3>3. QED
      BY <3>1, <3>2
  <2>8. QED
    BY <1>0, <2>4, <2>6, <2>7 DEF TilesSound, TileKey
<1>4. ASSUME NEW k \in DOMAIN tiles, EvictTile(k)
      PROVE  /\ DOMAIN tiles' \subseteq DOMAIN tiles
             /\ \A j \in DOMAIN tiles' : tiles'[j] = tiles[j]
             /\ next_id' = next_id
  BY <1>4 DEF EvictTile
<1>5. QED
  <2>1. CASE \E c \in Callers : OpenOk(c)
    BY <1>1, <2>1
  <2>2. CASE \E c \in Callers, t \in Tiles : ReadTile(c, t) /\ tiles' # tiles
    BY <1>3, <2>2
  <2>3. CASE \E k \in DOMAIN tiles : EvictTile(k) /\ \A c \in Callers : ~OpenOk(c)
    BY <1>2, <1>4, <2>3
  <2>4. CASE (\A c \in Callers : ~OpenOk(c)) /\ UNCHANGED <<next_id, tiles>>
    BY <1>2, <2>4
  <2>5. QED
    BY <2>1, <2>2, <2>3, <2>4
    DEF Next, vars, Tick, Replace, Lookup, OpenErr, Insert, ReadTile

\* The idle calls and the empty caches are sound.
LEMMA InitSound == Init => ReadersSound
<1> SUFFICES ASSUME Init PROVE ReadersSound
  OBVIOUS
<1>1. Live(map) = {} /\ Held = {}
  BY DEF Init, Live, Held
<1>2. CacheSound
  BY <1>1, FS_EmptySet DEF CacheSound
<1>3. QED
  BY <1>1, <1>2 DEF Init, ReadersSound, CallsSound, TilesSound

\* Every step keeps the readers in circulation sound.
LEMMA NextSound == TypeOK /\ ReadersSound /\ [Next]_vars => ReadersSound'
<1> SUFFICES ASSUME TypeOK, ReadersSound, [Next]_vars
             PROVE  ReadersSound'
  OBVIOUS
<1>1. \A r \in Held' : ReaderSound(r)'
  BY NextReaders
<1>2. QED
  BY <1>1, NextCache, NextCalls, NextTiles DEF ReadersSound

\* Types, and the readers in circulation: every cached reader is stored under
\* its own path, an id belongs to one reader only, and what the tile cache
\* holds under an id is of that reader's object and no older than its
\* metadata.
THEOREM ReadersCorrect == Spec => [](TypeOK /\ ReadersSound)
<1>1. Init => TypeOK /\ ReadersSound
  BY InitTypes, InitSound
<1>2. TypeOK /\ ReadersSound /\ [Next]_vars => TypeOK' /\ ReadersSound'
  BY NextTypes, NextSound
<1>3. QED
  BY <1>1, <1>2, PTL DEF Spec

-----------------------------------------------------------------------------
\* What calls are served.

\* What a call was served is of its own path, and no older than the metadata
\* of its reader.
ServedSound ==
  \A c \in Callers :
    pc[c] = "use" /\ served[c] # None =>
      served[c].path = path[c] /\ served[c].ver >= reader[c].ver

\* Every step keeps what was served sound.
LEMMA NextServed ==
  TypeOK /\ ReadersSound /\ ServedSound /\ [Next]_vars => ServedSound'
<1> SUFFICES ASSUME TypeOK, ReadersSound, ServedSound, [Next]_vars
             PROVE  ServedSound'
  OBVIOUS
<1>1. ASSUME NEW c \in Callers, NEW t \in Tiles, ReadTile(c, t)
      PROVE  ServedSound'
  <2>1. /\ pc[c] = "use" /\ UNCHANGED <<pc, path, reader>>
        /\ \A d \in Callers \ {c} : served'[d] = served[d]
    BY <1>1 DEF ReadTile, TypeOK
  <2>2. /\ reader[c] \in Reader /\ reader[c] \in Held /\ path[c] \in Paths
        /\ reader[c].path = path[c]
    BY <2>1, KeyType
  <2>3. reader[c].ver <= version[path[c]] /\ reader[c].ver \in Nat
        /\ version[path[c]] \in Nat
    BY <2>2, Fields, ReaderCacheAssumption DEF ReadersSound, ReaderSound, TypeOK
  <2>4. served'[c].path = path[c] /\ served'[c].ver >= reader[c].ver
    <3>1. CASE /\ Attached(reader[c]) /\ TileKey(reader[c], t) \in DOMAIN tiles
               /\ served' = [served EXCEPT ![c] = tiles[TileKey(reader[c], t)]]
      <4>1. served'[c] = tiles[TileKey(reader[c], t)]
        BY <3>1 DEF TypeOK
      <4>2. QED
        BY <2>2, <3>1, <4>1 DEF ReadersSound, TilesSound
    <3>2. CASE served' =
                 [served EXCEPT ![c] = [path |-> path[c], ver |-> version[path[c]]]]
      <4>1. served'[c] = [path |-> path[c], ver |-> version[path[c]]]
        BY <3>2 DEF TypeOK
      <4>2. QED
        BY <2>3, <4>1
    <3>3. QED
      BY <1>1, <3>1, <3>2 DEF ReadTile
  <2>5. QED
    BY <2>1, <2>4 DEF ServedSound
<1>2. ASSUME NEW c \in Callers, pc'[c] = "use" => served'[c] = None,
             \A d \in Callers \ {c} :
               /\ pc'[d] = pc[d] /\ served'[d] = served[d]
               /\ path'[d] = path[d] /\ reader'[d] = reader[d]
      PROVE  ServedSound'
  BY <1>2 DEF ServedSound
<1>3. ASSUME NEW c \in Callers, NEW p \in Paths, Lookup(c, p)
      PROVE  ServedSound'
  BY <1>2, <1>3 DEF Lookup, TypeOK
<1>4. ASSUME NEW c \in Callers, OpenOk(c)
      PROVE  ServedSound'
  BY <1>2, <1>4 DEF OpenOk, TypeOK
<1>5. ASSUME NEW c \in Callers, OpenErr(c)
      PROVE  ServedSound'
  BY <1>2, <1>5 DEF OpenErr, TypeOK
<1>6. ASSUME NEW c \in Callers, Insert(c)
      PROVE  ServedSound'
  <2>1. /\ pc[c] = "insert" /\ pc' = [pc EXCEPT ![c] = "use"]
        /\ UNCHANGED <<path, reader, served>>
    BY <1>6 DEF Insert
  <2>2. served[c] = None
    BY <2>1 DEF ReadersSound, CallsSound
  <2>3. QED
    BY <1>2, <2>1, <2>2 DEF TypeOK
<1>7. CASE UNCHANGED <<pc, path, reader, served>>
  BY <1>7 DEF ServedSound
<1>8. QED
  BY <1>1, <1>3, <1>4, <1>5, <1>6, <1>7 DEF Next, vars, Tick, Replace, EvictTile

\* However readers are replaced, ids handed out and tiles evicted, a call only
\* ever holds a reader of its own path and is only ever served tiles of it.
THEOREM ForeignDataSafe == Spec => []NoForeignData
<1>1. Init => ServedSound
  BY DEF Init, ServedSound
<1>2. ReadersSound /\ ServedSound => NoForeignData
  BY DEF ReadersSound, CallsSound, ServedSound, NoForeignData
<1>3. QED
  BY <1>1, <1>2, NextServed, ReadersCorrect, PTL DEF Spec

\* A reopened reader never serves a tile read before its metadata, although
\* tiles of the earlier readers of the path may still be resident.
THEOREM ReopenSafe == Spec => []ReopenInvalidates
<1>1. Init => ServedSound
  BY DEF Init, ServedSound
<1>2. ServedSound => ReopenInvalidates
  BY DEF ServedSound, ReopenInvalidates
<1>3. QED
  BY <1>1, <1>2, NextServed, ReadersCorrect, PTL DEF Spec


-----------------------------------------------------------------------------
\* The capacity.

\* What retain leaves is finite and within the capacity.
LEMMA RetainedCap ==
  ASSUME TypeOK, ReadersSound, CapHeld
  PROVE  /\ IsFiniteSet(Live(Retained))
         /\ Cardinality(Live(Retained)) \in Nat
         /\ Cardinality(Live(Retained)) <= Cap
<1>1. IsFiniteSet(Live(map)) /\ Live(Retained) \subseteq Live(map)
  BY RetainedMap DEF ReadersSound, CacheSound
<1>2. /\ IsFiniteSet(Live(Retained))
      /\ Cardinality(Live(Retained)) <= Cardinality(Live(map))
  BY <1>1, FS_Subset
<1>3. Cardinality(Live(Retained)) \in Nat /\ Cardinality(Live(map)) \in Nat
  BY <1>1, <1>2, FS_CardinalityType
<1>4. QED
  BY <1>2, <1>3, ReaderCacheAssumption DEF CapHeld

\* An insertion leaves at most Cap entries: a new key at capacity pushes one
\* out, a key that is there is replaced.
LEMMA InsertCap ==
  ASSUME TypeOK, ReadersSound, CapHeld, NEW c \in Callers, Insert(c)
  PROVE  CapHeld'
<1> DEFINE p == path[c]
           e == [cog |-> reader[c], inserted |-> now]
           R == Live(Retained)
<1>1. e \in Entry /\ p \in Paths /\ e # None
  BY InsertMap, NoneAssumption DEF ReadersSound
<1>2. /\ IsFiniteSet(R) /\ Cardinality(R) \in Nat /\ Cardinality(R) <= Cap
      /\ Cap \in Nat
  BY RetainedCap, ReaderCacheAssumption
<1>3. Retained \in [Paths -> Entry \cup {None}]
  BY RetainedMap
<1>4. ASSUME MakesRoom(Retained, p), NEW q \in Oldest(Retained),
             map' = [Retained EXCEPT ![q] = None, ![p] = e]
      PROVE  CapHeld'
  <2>1. q \in R /\ p \notin R /\ Cardinality(R) = Cap
    BY <1>2, <1>4 DEF MakesRoom, Oldest, Live
  <2>2. Live(map)' = (R \ {q}) \cup {p}
    <3>1. q \in Paths /\ q # p
      BY <2>1 DEF Live
    <3> HIDE DEF p, e
    <3>2. QED
      BY <1>1, <1>3, <1>4, <3>1 DEF Live
  <2>3. IsFiniteSet(R \ {q}) /\ Cardinality(R \ {q}) = Cap - 1
    BY <1>2, <2>1, FS_RemoveElement
  <2>4. Cardinality((R \ {q}) \cup {p}) = Cap - 1 + 1
    BY <2>1, <2>3, FS_AddElement
  <2>5. QED
    BY <1>2, <2>2, <2>4 DEF CapHeld
<1>5. ASSUME ~MakesRoom(Retained, p), map' = [Retained EXCEPT ![p] = e]
      PROVE  CapHeld'
  <2>1. Live(map)' = R \cup {p}
    <3> HIDE DEF p, e
    <3>1. QED
      BY <1>1, <1>3, <1>5 DEF Live
  <2>2. CASE p \in R
    <3>1. R \cup {p} = R
      BY <2>2
    <3>2. QED
      BY <1>2, <2>1, <3>1 DEF CapHeld
  <2>3. CASE p \notin R
    <3>1. Cardinality(R) < Cap
      BY <1>1, <1>2, <1>5, <2>3 DEF MakesRoom, Live
    <3>2. Cardinality(R \cup {p}) = Cardinality(R) + 1
      BY <1>2, <2>3, FS_AddElement
    <3>3. QED
      BY <1>2, <2>1, <3>1, <3>2 DEF CapHeld
  <2>4. QED
    BY <2>2, <2>3
<1>6. CASE UNCHANGED map
  BY <1>6 DEF CapHeld, Live
<1>7. QED
  BY <1>4, <1>5, <1>6 DEF Insert

\* The reader cache never holds more than Cap entries, however many opens of
\* whichever paths complete in whatever order.
THEOREM CapSafe == Spec => []CapHeld
<1>1. Init => CapHeld
  <2> SUFFICES ASSUME Init PROVE CapHeld
    OBVIOUS
  <2>1. Live(map) = {}
    BY DEF Init, Live
  <2>2. QED
    BY <2>1, FS_EmptySet, ReaderCacheAssumption DEF CapHeld
<1>2. TypeOK /\ ReadersSound /\ CapHeld /\ [Next]_vars => CapHeld'
  <2> SUFFICES ASSUME TypeOK, ReadersSound, CapHeld, [Next]_vars
               PROVE  CapHeld'
    OBVIOUS
  <2>1. CASE UNCHANGED map
    BY <2>1 DEF CapHeld, Live
  <2>2. QED
    BY <2>1, InsertCap
    DEF Next, vars, Tick, Replace, Lookup, OpenOk, OpenErr, ReadTile, EvictTile
<1>3. QED
  BY <1>1, <1>2, ReadersCorrect, PTL DEF Spec

\* An entry that an insertion drops although it is fresh is the oldest of a
\* full cache, and it makes room for a key that was not there.
LEMMA InsertDrops ==
  ASSUME TypeOK, ReadersSound, CapHeld, NEW c \in Callers, Insert(c),
         NEW p \in Live(map), Fresh(map[p]), map'[p] = None
  PROVE  /\ Cardinality(Live(Retained)) = Cap
         /\ \A q \in Live(Retained) : map[p].inserted <= map[q].inserted
         /\ \E q \in Live(map') : map[q] = None \/ ~Fresh(map[q])
<1> DEFINE k == path[c]
           e == [cog |-> reader[c], inserted |-> now]
<1>1. e \in Entry /\ k \in Paths /\ e # None
  BY InsertMap, NoneAssumption DEF ReadersSound
<1>2. p \in Paths /\ map[p] # None /\ Retained[p] = map[p]
  BY RetainedMap DEF Live
<1>3. Retained \in [Paths -> Entry \cup {None}]
  BY RetainedMap
<1>4. map' # map /\ map' # [Retained EXCEPT ![k] = e]
  <2> HIDE DEF k, e
  <2>1. QED
    BY <1>1, <1>2, <1>3
<1>5. PICK q \in Oldest(Retained) : /\ MakesRoom(Retained, k)
                                   /\ map' = [Retained EXCEPT ![q] = None, ![k] = e]
  BY <1>4 DEF Insert
<1>6. p = q
  <2> HIDE DEF k, e
  <2>1. QED
    BY <1>1, <1>2, <1>3, <1>5
<1>7. Cardinality(Live(Retained)) = Cap
  BY <1>5, RetainedCap, ReaderCacheAssumption DEF MakesRoom
<1>8. ASSUME NEW r \in Live(Retained)
      PROVE  map[p].inserted <= map[r].inserted
  <2>1. Retained[p].inserted <= Retained[r].inserted
    BY <1>5, <1>6 DEF Oldest
  <2>2. Retained[r] = map[r]
    BY RetainedMap
  <2>3. QED
    BY <1>2, <2>1, <2>2
<1>9. k \in Live(map') /\ (map[k] = None \/ ~Fresh(map[k]))
  <2>1. Retained[k] = None
    BY <1>5 DEF MakesRoom
  <2>2. map[k] = None \/ ~Fresh(map[k])
    BY <1>1, <2>1, RetainedMap
  <2>3. map'[k] = e
    <3> HIDE DEF k, e
    <3>1. QED
      BY <1>1, <1>3, <1>5
  <2>4. QED
    BY <1>1, <2>2, <2>3 DEF Live
<1>10. QED
  BY <1>7, <1>8, <1>9

\* An entry that has not expired leaves the cache only when a new key arrives
\* at capacity and only if it is the one inserted first.
THEOREM OldestOutSafe == Spec => OldestOut
<1>1. TypeOK /\ ReadersSound /\ CapHeld /\ [Next]_vars =>
        [\A p \in Live(map) :
           Fresh(map[p]) /\ map'[p] = None =>
             /\ Cardinality(Live(Retained)) = Cap
             /\ \A q \in Live(Retained) : map[p].inserted <= map[q].inserted
             /\ \E q \in Live(map') : map[q] = None \/ ~Fresh(map[q])]_vars
  <2> SUFFICES ASSUME TypeOK, ReadersSound, CapHeld, Next,
                      NEW p \in Live(map), Fresh(map[p]), map'[p] = None
               PROVE  /\ Cardinality(Live(Retained)) = Cap
                      /\ \A q \in Live(Retained) : map[p].inserted <= map[q].inserted
                      /\ \E q \in Live(map') : map[q] = None \/ ~Fresh(map[q])
    OBVIOUS
  <2>1. map' # map
    BY DEF Fresh
  <2>2. \E c \in Callers : Insert(c)
    BY <2>1 DEF Next, Tick, Replace, Lookup, OpenOk, OpenErr, ReadTile, EvictTile
  <2>3. QED
    BY <2>2, InsertDrops
<1>2. QED
  BY <1>1, CapSafe, ReadersCorrect, PTL DEF Spec, OldestOut

=============================================================================
