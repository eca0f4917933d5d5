------------------------------- MODULE ReadCog -------------------------------
(***************************************************************************)
(* The table function read_cog (src/lib.rs): bind checks the bbox parameter, *)
(* opens the COG and fixes the tile rows, and the scan of TableScan then     *)
(* hands them out in batches.                                               *)
(***************************************************************************)
EXTENDS TableScan, CogMeta, FiniteSets

CONSTANTS
  Files,     \* the IFDs of the COGs considered
  Filters,   \* values of the bbox parameter: None (absent or NULL) or a list
  Opens      \* whether open_cog_cached succeeds, the outcomes considered

\* An IFD as the TIFF library reads it: images and tiles are not empty, and
\* pixel sizes are not negative.
Ifds ==
  [image_width : Nat \ {0}, image_height : Nat \ {0},
   tile_width : (Nat \ {0}) \cup {None}, tile_height : (Nat \ {0}) \cup {None},
   scale : Seq(Nat) \cup {None}, tie : Seq(Int) \cup {None},
   samples_per_pixel : Nat, nodata : Int \cup {None}]

ASSUME ReadCogAssumption ==
  /\ Files \subseteq Seq(Ifds)
  /\ Filters \subseteq Seq(Int \cup {NonFinite}) \cup {None}
  /\ NonFinite \notin Int

VARIABLES
  ifds,      \* the IFDs of the file
  filter,    \* the bbox parameter
  phase,     \* "bind", "scan" or "err"
  tiles,     \* ReadCogBindData.tiles
  emitted    \* the tile rows written to output chunks

bound == <<ifds, filter, phase, tiles>>

\* No batch is taken before bind has fixed the rows.
CogInit ==
  /\ ifds \in Files /\ filter \in Filters
  /\ phase = "bind"
  /\ tiles = <<>> /\ emitted = {}
  /\ rows = 0 /\ cursor = 0
  /\ ended = FALSE
  /\ times = [r \in {} |-> 0]

BindFails ==
  /\ phase' = "err"
  /\ UNCHANGED <<ifds, filter, tiles, emitted, vars>>

\* The rows are fixed; init sets the cursor to the first of them.
BindRows(ts) ==
  /\ phase' = "scan"
  /\ tiles' = ts
  /\ rows' = Len(ts)
  /\ times' = [r \in 0..(Len(ts) - 1) |-> 0]
  /\ UNCHANGED <<ifds, filter, emitted, cursor, ended>>

\* bind: the length of the list, then the file, then the metadata, then the
\* filter.
Bind ==
  /\ phase = "bind"
  /\ \E opens \in Opens :
       LET meta == BuildMeta(ifds)
           result == EnumerateTilesFiltered(meta, filter)
       IN \/ filter # None /\ Len(filter) # 4 /\ BindFails
          \/ /\ filter # None => Len(filter) = 4
             /\ \/ (~opens \/ "err" \in DOMAIN meta) /\ BindFails
                \/ /\ opens /\ "err" \notin DOMAIN meta
                   /\ \/ "err" \in DOMAIN result /\ BindFails
                      \/ "err" \notin DOMAIN result /\ BindRows(result.tiles)

\* A call of func; a batch that is emitted carries the tiles at its positions.
Scan ==
  /\ phase = "scan"
  /\ \/ Emit /\ emitted' = emitted \cup {tiles[r + 1] : r \in Batch}
     \/ Exhausted /\ UNCHANGED emitted
  /\ UNCHANGED bound

CogEnds ==
  /\ phase = "err" \/ ended
  /\ UNCHANGED <<bound, emitted, vars>>

CogNext == Bind \/ Scan \/ CogEnds

CogSpec == CogInit /\ [][CogNext]_<<bound, emitted, vars>>

-----------------------------------------------------------------------------
\* Pixel (c, r) of a level, as the closed cell it covers in the world.
Cell(g, c, r) ==
  <<RasterToWorld(g, c + 1, r + 2)[1], RasterToWorld(g, c + 1, r + 2)[2],
    RasterToWorld(g, c + 2, r + 1)[1], RasterToWorld(g, c + 2, r + 1)[2]>>

\* The tiles, by their place, that hold a pixel whose cell meets the filter.
Wanted(meta) ==
  UNION {LET lv == meta.levels[i]
             g == LevelGeoref(meta.georef, meta.levels[1], lv) IN
           {<<lv.level, cr[1] \div lv.tile_width, cr[2] \div lv.tile_height>> :
              cr \in {cr \in (0..(lv.image_width - 1)) \X (0..(lv.image_height - 1)) :
                        \/ filter = None
                        \/ BBoxIntersects(Cell(g, cr[1], cr[2]), filter)}} :
         i \in DOMAIN meta.levels}

\* The place that the columns of a row name.
Place(t) == <<t.level, t.tile_x, t.tile_y>>

\* Pruning loses nothing and keeps nothing for nothing: a scan that ends has
\* emitted, once each and under distinct ids that unpack to their position,
\* exactly the tiles that hold a pixel whose cell meets the filter (all tiles
\* without one), at every level, clipped edge tiles included.
PruningExact ==
  ended =>
    /\ {Place(t) : t \in emitted} = Wanted(BuildMeta(ifds))
    /\ \A t \in emitted : UnpackTileKey(t.id) = Place(t)
    /\ Len(tiles) = Cardinality(emitted)

=============================================================================
