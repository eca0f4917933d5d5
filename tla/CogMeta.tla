------------------------------- MODULE CogMeta -------------------------------
(***************************************************************************)
(* COG metadata (crates/engine/src/meta.rs, lib.rs): from the IFDs of a TIFF *)
(* to levels, georeference and tile rows.                                    *)
(*                                                                         *)
(* World coordinates are integers in a unit small enough for the instance;   *)
(* a derived coordinate, such as the corner of an overview pixel, is an      *)
(* exact fraction <<n, d>> with d > 0.  The code computes both in f64; its   *)
(* rounding is not modelled.                                                 *)
(***************************************************************************)
EXTENDS TileLists, SequencesExt, FiniteSetsExt

CONSTANTS
  None,        \* Option::None
  NonFinite,   \* a NaN or infinite coordinate of a box or a zone
  NaN,         \* the value that is not a number
  Widest,      \* the largest i64 (2^63 - 1)
  IndexBits,   \* bits of a tile index in a tile key (24)
  MaxLevels    \* levels a tile key can name (256)

\* What the proofs need of exponentiation is stated here, for lack of a
\* definition that the provers know.
ASSUME CogMetaAssumption ==
  /\ IndexBits \in Nat \ {0} /\ MaxLevels \in Nat \ {0} /\ Widest \in Nat
  /\ 2 ^ IndexBits \in Nat \ {0}
  /\ 2 ^ (2 * IndexBits) = 2 ^ IndexBits * 2 ^ IndexBits

\* Fractions, and extents <<xmin, ymin, xmax, ymax>>.
Fractions == Int \X Int
Extents == Fractions \X Fractions \X Fractions \X Fractions

\* None is neither an error nor an extent.
ASSUME NoneAssumption ==
  /\ None \notin {"KeyOverflow", "NotTiled"}
  /\ None \notin Extents

\* A whole number as a fraction, and comparisons.
Frac(n) == <<n, 1>>
Leq(a, b) == a[1] * b[2] <= b[1] * a[2]
Less(a, b) == a[1] * b[2] < b[1] * a[2]

\* Integer division rounding up; \div rounds down.
CeilDiv(a, b) == -((-a) \div b)

-----------------------------------------------------------------------------
\* Tile keys.

MaxTileIndex == 2 ^ IndexBits - 1

\* pack_tile_key: level | x | y.
PackTileKey(level, x, y) ==
  IF x > MaxTileIndex \/ y > MaxTileIndex THEN None
  ELSE level * 2 ^ (2 * IndexBits) + x * 2 ^ IndexBits + y

\* unpack_tile_key.
UnpackTileKey(key) ==
  <<key \div 2 ^ (2 * IndexBits), (key \div 2 ^ IndexBits) % 2 ^ IndexBits,
    key % 2 ^ IndexBits>>

-----------------------------------------------------------------------------
\* build_meta.

\* The georeference of IFD 0: ModelPixelScale and ModelTiepoint, the latter
\* [i, j, k, x, y, z] tying raster position (i, j) to world position (x, y).
\* Pixel sizes are fractions because levels share this record.
GeorefOf(ifd) ==
  IF None \in {ifd.scale, ifd.tie} THEN None
  ELSE IF Len(ifd.scale) < 2 \/ Len(ifd.tie) < 6 THEN None
  ELSE [origin_x |-> ifd.tie[4] - ifd.tie[1] * ifd.scale[1],
        origin_y |-> ifd.tie[5] + ifd.tie[2] * ifd.scale[2],
        pixel_x |-> Frac(ifd.scale[1]),
        pixel_y |-> Frac(ifd.scale[2])]

\* An IFD that is a level of tiles; the TIFF library counts its tiles.
Tiled(ifd) == None \notin {ifd.tile_width, ifd.tile_height}
TilesX(ifd) == CeilDiv(ifd.image_width, ifd.tile_width)
TilesY(ifd) == CeilDiv(ifd.image_height, ifd.tile_height)

\* The first IFD that is not acceptable decides the error.
LevelError(ifds, i) ==
  CASE i > MaxLevels -> "KeyOverflow"
    [] i <= MaxLevels /\ ~Tiled(ifds[i]) -> "NotTiled"
    [] i <= MaxLevels /\ Tiled(ifds[i])
         /\ (TilesX(ifds[i]) > MaxTileIndex + 1 \/ TilesY(ifds[i]) > MaxTileIndex + 1)
         -> "KeyOverflow"
    [] OTHER -> None

BuildMeta(ifds) ==
  LET wrong == {i \in DOMAIN ifds : LevelError(ifds, i) # None}
      level(i) == [level |-> i - 1,
                   image_width |-> ifds[i].image_width,
                   image_height |-> ifds[i].image_height,
                   tile_width |-> ifds[i].tile_width,
                   tile_height |-> ifds[i].tile_height,
                   tiles_x |-> TilesX(ifds[i]), tiles_y |-> TilesY(ifds[i])]
  IN IF wrong # {} THEN [err |-> LevelError(ifds, Min(wrong))]
     ELSE [levels |-> [i \in DOMAIN ifds |-> level(i)],
           georef |-> IF ifds = <<>> THEN None ELSE GeorefOf(ifds[1]),
           num_bands |-> IF ifds = <<>> THEN 0 ELSE ifds[1].samples_per_pixel,
           nodata |-> IF ifds = <<>> THEN None ELSE ifds[1].nodata]

-----------------------------------------------------------------------------
\* Coordinates.

\* The georeference of a level: the origin is shared, the pixel size follows
\* from the ratio of the image sizes.
LevelGeoref(g, l0, lv) ==
  [g EXCEPT !.pixel_x = <<@[1] * l0.image_width, @[2] * lv.image_width>>,
            !.pixel_y = <<@[1] * l0.image_height, @[2] * lv.image_height>>]

\* A number as an i64: what does not fit becomes the nearest one that does.
Saturated(n) ==
  IF n > Widest THEN Widest ELSE IF n < -Widest - 1 THEN -Widest - 1 ELSE n

\* World position to 1-based grid position, rounding down: the upper left
\* corner of a pixel belongs to it.  An infinite coordinate is one that is far
\* away; a NaN becomes 0 as an i64, the place of the origin.
WorldToRaster(g, x, y) ==
  LET column == IF x = NaN THEN 0 ELSE ((x - g.origin_x) * g.pixel_x[2]) \div g.pixel_x[1]
      row == IF y = NaN THEN 0 ELSE ((g.origin_y - y) * g.pixel_y[2]) \div g.pixel_y[1]
  IN <<Saturated(Saturated(column) + 1), Saturated(Saturated(row) + 1)>>

\* The world position of the upper left corner of a 1-based pixel.
RasterToWorld(g, col, row) ==
  <<<<g.origin_x * g.pixel_x[2] + (col - 1) * g.pixel_x[1], g.pixel_x[2]>>,
    <<g.origin_y * g.pixel_y[2] - (row - 1) * g.pixel_y[1], g.pixel_y[2]>>>>

\* A bbox filter or zone must be finite and not inverted.
ValidBox(b) ==
  /\ \A k \in 1..4 : b[k] # NonFinite
  /\ b[1] <= b[3] /\ b[2] <= b[4]

-----------------------------------------------------------------------------
\* Tile rows.

\* Mutant: the right and lower tiles keep their full size.
TileEndFull(t, tile, image) == (t + 1) * tile

\* The first pixel after tile t of a row or column of tiles: clipped to the
\* image.
TileEnd(t, tile, image) == Min({(t + 1) * tile, image})

\* The extent <<xmin, ymin, xmax, ymax>> of the data of a tile.
TileBBox(g0, l0, lv, tx, ty) ==
  LET g == LevelGeoref(g0, l0, lv)
      upper_left == RasterToWorld(g, tx * lv.tile_width + 1, ty * lv.tile_height + 1)
      lower_right == RasterToWorld(g, TileEnd(tx, lv.tile_width, lv.image_width) + 1,
                                      TileEnd(ty, lv.tile_height, lv.image_height) + 1)
  IN <<upper_left[1], lower_right[2], lower_right[1], upper_left[2]>>

\* Closed boxes intersect, touching included; b is a filter of integers.
BBoxIntersects(a, b) ==
  /\ Leq(a[1], Frac(b[3])) /\ Leq(Frac(b[1]), a[3])
  /\ Leq(a[2], Frac(b[4])) /\ Leq(Frac(b[2]), a[4])

\* The tiles of all levels, by their place <<level, x, y>>.
Places(meta) ==
  UNION {{meta.levels[i].level} \X (0..(meta.levels[i].tiles_x - 1))
           \X (0..(meta.levels[i].tiles_y - 1)) : i \in DOMAIN meta.levels}

\* The loops go over the levels, then the rows y, then the columns x.
Visits(p, q) ==
  p[1] < q[1] \/ (p[1] = q[1] /\ (p[3] < q[3] \/ (p[3] = q[3] /\ p[2] < q[2])))

\* A set of places in the order of the loops.
InLoopOrder(P) == Sorted(P, Visits)

\* The row of the tile at a place.
TileRow(meta, p) ==
  LET lv == meta.levels[p[1] + 1] IN
    [id |-> PackTileKey(p[1], p[2], p[3]),
     level |-> p[1], tile_x |-> p[2], tile_y |-> p[3],
     cols |-> lv.tile_width, rows |-> lv.tile_height,
     bbox |-> IF meta.georef = None THEN None
              ELSE TileBBox(meta.georef, meta.levels[1], lv, p[2], p[3])]

\* enumerate_tiles, of the tiles at some of the places.
EnumerateTiles(meta, P) ==
  LET order == InLoopOrder(P) IN
    [k \in 1..Cardinality(P) |-> TileRow(meta, order[k])]

\* The tiles whose bbox meets the filter.
Meeting(meta, filter) ==
  {p \in Places(meta) : LET b == TileRow(meta, p).bbox IN
                          b # None /\ BBoxIntersects(b, filter)}

\* enumerate_tiles_filtered: an error, or the tiles that meet the filter.
EnumerateTilesFiltered(meta, filter) ==
  CASE filter = None -> [tiles |-> EnumerateTiles(meta, Places(meta))]
    [] filter # None /\ ~ValidBox(filter) -> [err |-> "InvalidFilter"]
    [] filter # None /\ ValidBox(filter) /\ meta.georef = None ->
         [err |-> "FilterWithoutGeoref"]
    [] OTHER -> [tiles |-> EnumerateTiles(meta, Meeting(meta, filter))]

=============================================================================
