----------------------------- MODULE PixelReader -----------------------------
(***************************************************************************)
(* Pixel functions of CogReader (crates/engine/src/pixel.rs) with the steps  *)
(* their callers add (zone parsing, choice of a level, scaling): from a      *)
(* request to the list of tiles handed to fetch_decoded, and from the        *)
(* decoded arrays to the answer.                                             *)
(*                                                                         *)
(* A file is [ifds, planar, holes, short]: its IFDs, the planar              *)
(* configuration, the pixels that hold nodata and the tiles whose decoded    *)
(* array is one row short.  NaN is one value, equal to itself, as a nodata   *)
(* value that is NaN stands for every NaN pixel.                             *)
(***************************************************************************)
EXTENDS CogMeta, Zone, TileLists

CONSTANTS
  Files,             \* the COGs considered
  Requests,          \* the calls considered
  Pixel(_, _, _, _), \* the value at level, column, row, band of a raster
  Padding            \* what a decoded tile holds outside the image

\* The calls.  A point may hold a NaN; a corner of a box and a coordinate of a
\* WKT text need not be finite.
PointArgs == (Int \cup {NaN}) \X (Int \cup {NaN})
Coordinates == Int \cup {NonFinite}
Corners == Coordinates \X Coordinates \X Coordinates \X Coordinates
Lines == Seq(Coordinates \X Coordinates)
WktTexts == [kind : STRING, polys : Seq([exterior : Lines, interiors : Seq(Lines)])]
Calls ==
  [op : {"read_pixels"}, points : Seq(PointArgs), band : Nat]
    \cup [op : {"zonal_bbox"}, bbox : Corners, band : Nat, max_pixels : Nat]
    \cup [op : {"zonal"}, text : WktTexts, band : Nat, max_pixels : Nat]
    \cup [op : {"zonal_zones"}, texts : Seq(WktTexts), band : Nat, max_pixels : Nat]
    \cup [op : {"band_window"}, bbox : Corners \cup {None}, band : Nat]
    \cup [op : {"band_window_polygon"}, text : WktTexts, band : Nat]

\* A file that open_cog accepts: images may be empty, but no overview is larger
\* than nothing; tiles are not empty and pixel sizes, if given, are positive.
Readable(f) ==
  /\ f.ifds \in Seq(ToSet(f.ifds))
  /\ "levels" \in DOMAIN BuildMeta(f.ifds)
  /\ \A i \in DOMAIN f.ifds :
       LET ifd == f.ifds[i] IN
         /\ {ifd.image_width, ifd.image_height, ifd.samples_per_pixel} \subseteq Nat
         /\ ifd.image_width < Widest /\ ifd.image_height < Widest
         /\ {ifd.tile_width, ifd.tile_height} \subseteq Nat \ {0}
         /\ ifd.scale = None \/ (ifd.scale \in Seq(Int)
                                  /\ \A k \in {1, 2} \cap DOMAIN ifd.scale : ifd.scale[k] > 0)
         /\ ifd.tie = None \/ ifd.tie \in Seq(Int)
         /\ f.ifds[1].image_width = 0 => ifd.image_width = 0
         /\ f.ifds[1].image_height = 0 => ifd.image_height = 0
         /\ \A c \in 0..(ifd.image_width - 1), r \in 0..(ifd.image_height - 1),
               b \in 1..f.ifds[1].samples_per_pixel : Pixel(i - 1, c, r, b) \in Int \cup {NaN}

ASSUME PixelReaderAssumption ==
  /\ \A f \in Files : Readable(f)
  /\ Requests \subseteq Calls
  /\ NonFinite \notin Int
  /\ None \notin Seq([exterior : Lines, interiors : Seq(Lines)])
  /\ None # NaN /\ None \notin Int /\ None \notin Int \X Int
  /\ None \notin Int \X Int \X Int \X Int

VARIABLES
  file, req,  \* the file and the call
  meta,       \* the metadata open_cog returned with the reader
  zones,      \* the zones of the call, parsed: [ok] or [err]
  pc,         \* "begin", "fetch" or "done"
  level,      \* the level that is read
  tiles,      \* the argument of fetch_decoded
  answer      \* [ok] or [err] once pc is "done"

opened == <<file, req, meta, zones>>
vars == <<opened, pc, level, tiles, answer>>

Stats == {"count", "sum", "mean", "min", "max"}
ZonalOps == {"zonal_bbox", "zonal", "zonal_zones"}
WindowOps == {"band_window", "band_window_polygon"}

Lv(l) == meta.levels[l + 1]
G(l) == LevelGeoref(meta.georef, meta.levels[1], Lv(l))
BadBand(band) == band = 0 \/ band > meta.num_bands

-----------------------------------------------------------------------------
\* Windows and levels.

\* Mutant: the lower bound is rounded like the upper one.
FirstCenterDown(lo, origin, pixel) == (2 * (lo - origin) * pixel[2] - pixel[1]) \div (2 * pixel[1])

\* The first and the last pixel of an axis whose centre is not before lo, not
\* after hi: ceil and floor of (v - origin) / pixel - 1/2.
FirstCenter(lo, origin, pixel) == CeilDiv(2 * (lo - origin) * pixel[2] - pixel[1], 2 * pixel[1])
LastCenter(hi, origin, pixel) == (2 * (hi - origin) * pixel[2] - pixel[1]) \div (2 * pixel[1])

\* center_window: <<col_min, col_max, row_min, row_max>> or None.  An empty
\* image has no window: its last column or row is -1.
CenterWindow(g, lv, b) ==
  IF 0 \in {lv.image_width, lv.image_height} THEN None
  ELSE LET w == <<Max({FirstCenter(b[1], g.origin_x, g.pixel_x), 0}),
                  Min({LastCenter(b[3], g.origin_x, g.pixel_x), lv.image_width - 1}),
                  Max({FirstCenter(-b[4], -g.origin_y, g.pixel_y), 0}),
                  Min({LastCenter(-b[2], -g.origin_y, g.pixel_y), lv.image_height - 1})>>
       IN IF w[1] > w[2] \/ w[3] > w[4] THEN None ELSE w

\* envelope_window.
EnvelopeWindow(b) ==
  IF meta.georef = None \/ meta.levels = <<>> THEN None ELSE CenterWindow(meta.georef, Lv(0), b)

\* Mutant: the budget must be undercut.
WithinBudgetStrict(area, max_pixels) == area < max_pixels

WithinBudget(area, max_pixels) == area <= max_pixels

\* select_level: the first level, from fine to coarse, whose window fits.
SelectLevel(b, max_pixels) ==
  IF max_pixels = 0 \/ Len(meta.levels) <= 1 \/ meta.georef = None THEN 0
  ELSE LET area(l) == LET w == CenterWindow(G(l), Lv(l), b) IN
                        IF w = None THEN 0 ELSE (w[2] - w[1] + 1) * (w[4] - w[3] + 1)
           fits == {l \in 0..(Len(meta.levels) - 1) : WithinBudget(area(l), max_pixels)}
       IN IF fits = {} THEN Len(meta.levels) - 1 ELSE Min(fits)

\* The union of the envelopes of the zones of a batch.
UnionEnvelope(zs) ==
  LET envs == {Envelope(z) : z \in ToSet(zs)} \ {None} IN
    IF envs = {} THEN None
    ELSE <<Min({e[1] : e \in envs}), Min({e[2] : e \in envs}),
           Max({e[3] : e \in envs}), Max({e[4] : e \in envs})>>

\* The level the callers read for an envelope; None is read at level 0.
LevelFor(env) == IF env = None THEN 0 ELSE SelectLevel(env, req.max_pixels)

\* level_scale and value_scaled: count and sum estimate those of level 0.
LevelScale(l) ==
  <<Lv(0).image_width * Lv(0).image_height, Lv(l).image_width * Lv(l).image_height>>

\* n / d, for n that may be NaN.
Quotient(n, d) == IF n = NaN THEN NaN ELSE <<n, d>>

ValueScaled(z, stat, scale) ==
  CASE stat = "count" -> <<z.count * scale[1], scale[2]>>
    [] stat # "count" /\ z.count = 0 -> None
    [] stat = "sum" /\ z.count > 0 ->
         Quotient(IF z.sum = NaN THEN NaN ELSE z.sum * scale[1], scale[2])
    [] stat = "mean" /\ z.count > 0 -> Quotient(z.sum, z.count)
    [] stat \in {"min", "max"} /\ z.count > 0 -> z[stat]

-----------------------------------------------------------------------------
\* Decoded tiles.

\* The raster: what the file holds at a pixel.
PixelOf(l, c, r, band) ==
  IF meta.nodata # None /\ <<c, r>> \in file.holes THEN meta.nodata ELSE Pixel(l, c, r, band)

\* The array the TIFF library decodes a tile to: (height, width, bands) or
\* (bands, height, width), row-major, padded to whole tiles.
Decoded(l, t) ==
  LET h == Lv(l).tile_height - (IF t \in file.short THEN 1 ELSE 0)
      w == Lv(l).tile_width
      n == meta.num_bands
      at(r, c, b) ==
        LET col == t[1] * w + c
            row == t[2] * Lv(l).tile_height + r
        IN IF col < Lv(l).image_width /\ row < Lv(l).image_height
           THEN PixelOf(l, col, row, b + 1) ELSE Padding
  IN IF file.planar = "planar"
     THEN [shape |-> <<n, h, w>>,
           data |-> [i \in 0..(n * h * w - 1) |-> at((i \div w) % h, i % w, i \div (h * w))]]
     ELSE [shape |-> <<h, w, n>>,
           data |-> [i \in 0..(n * h * w - 1) |-> at(i \div (w * n), (i \div n) % w, i % n)]]

\* Mutant: a chunky array is read with the strides of a planar one.
SampleArrayPlanar(array, row, col, band0) ==
  LET d == array.shape IN
    IF row >= d[1] \/ col >= d[2] \/ band0 >= d[3] THEN None
    ELSE array.data[(band0 * d[1] + row) * d[2] + col]

\* sample_array: None outside the array and for an unknown configuration.
SampleArray(array, row, col, band0) ==
  LET d == array.shape IN
    CASE file.planar = "chunky" ->
           IF row >= d[1] \/ col >= d[2] \/ band0 >= d[3] THEN None
           ELSE array.data[(row * d[2] + col) * d[3] + band0]
      [] file.planar = "planar" ->
           IF band0 >= d[1] \/ row >= d[2] \/ col >= d[3] THEN None
           ELSE array.data[(band0 * d[2] + row) * d[3] + col]
      [] OTHER -> None

\* apply_nodata.
ApplyNodata(v) == IF meta.nodata # None /\ v = meta.nodata THEN None ELSE v

-----------------------------------------------------------------------------
\* From arrays to answers.

\* The pixels of window w in tile t, as <<t, column, row>> with offsets in t.
TileCells(lv, w, t) ==
  LET x0 == t[1] * lv.tile_width
      y0 == t[2] * lv.tile_height
  IN {t} \X ((Max({w[1], x0}) - x0)..(Min({w[2], x0 + lv.tile_width - 1}) - x0))
         \X ((Max({w[3], y0}) - y0)..(Min({w[4], y0 + lv.tile_height - 1}) - y0))

\* The tiles of a window, row by row.
TilesOf(lv, w) ==
  WindowTiles(w[1] \div lv.tile_width, w[2] \div lv.tile_width,
              w[3] \div lv.tile_height, w[4] \div lv.tile_height)

\* The places in a tile list that hold the tiles of a window.
InList(list, lv, w) == {i \in DOMAIN list : list[i] \in ToSet(TilesOf(lv, w))}

\* Where a function of values has a number.
Numbers(v) == {s \in DOMAIN v : v[s] # NaN}

\* Count, sum, min and max of the values of function v.  A NaN counts and
\* makes the sum NaN, but f64::min and max pass over it.
Aggregate(v) ==
  LET S == DOMAIN v
      N == Numbers(v)
  IN [count |-> Cardinality(S),
      sum |-> IF N = S THEN MapThenSumSet(LAMBDA s : v[s], S) ELSE NaN,
      min |-> IF S = {} THEN None ELSE IF N = {} THEN NaN ELSE Min({v[s] : s \in N}),
      max |-> IF S = {} THEN None ELSE IF N = {} THEN NaN ELSE Max({v[s] : s \in N})]

EMPTY == Aggregate(<<>>)

\* The centre of a pixel.
Center(g, c, r) ==
  <<<<2 * g.origin_x * g.pixel_x[2] + (2 * c + 1) * g.pixel_x[1], 2 * g.pixel_x[2]>>,
    <<2 * g.origin_y * g.pixel_y[2] - (2 * r + 1) * g.pixel_y[1], 2 * g.pixel_y[2]>>>>

KeepIn(zone, g, c, r) == LET p == Center(g, c, r) IN ZoneContains(zone, p[1], p[2])

\* accumulate_tile over the tiles of a window: the pixels with their
\* centre in the zone (all without one) that are not nodata.
Accumulate(l, w, band, arrays, zone) ==
  LET lv == Lv(l)
      list == tiles
      cells == UNION {{<<i, cell>> : cell \in TileCells(lv, w, list[i])} : i \in InList(list, lv, w)}
      kept == {s \in cells :
                 zone = None \/ KeepIn(zone, G(l), s[2][1][1] * lv.tile_width + s[2][2],
                                                   s[2][1][2] * lv.tile_height + s[2][3])}
      sample(s) == SampleArray(arrays[s[1]], s[2][3], s[2][2], band - 1)
  IN IF \E s \in kept : sample(s) = None THEN [err |-> "Tiff"]
     ELSE [ok |-> Aggregate([s \in {x \in kept : ApplyNodata(sample(x)) # None} |-> sample(s)])]

\* The zones of a call, or the error of the first text that does not parse.
ZonesOf(r) ==
  LET texts == CASE r.op = "zonal_zones" -> r.texts
                 [] r.op \in {"zonal", "band_window_polygon"} -> <<r.text>>
                 [] OTHER -> <<>>
      bad == {k \in DOMAIN texts : "err" \in DOMAIN ParseZone(texts[k])}
  IN IF bad # {} THEN [err |-> ParseZone(texts[Min(bad)]).err]
     ELSE [ok |-> [k \in DOMAIN texts |-> ParseZone(texts[k]).zone]]

\* The window of a zone at a level; none for an EMPTY zone.
ZoneWindow(z, l) ==
  IF Envelope(z) = None THEN None ELSE CenterWindow(G(l), Lv(l), Envelope(z))

\* The pixel under a world position, or None outside the image.
Coord(p) ==
  LET cr == WorldToRaster(meta.georef, p[1], p[2]) IN
    IF cr[1] \in 1..Lv(0).image_width /\ cr[2] \in 1..Lv(0).image_height
    THEN <<cr[1] - 1, cr[2] - 1>> ELSE None

TileAt(c) == <<c[1] \div Lv(0).tile_width, c[2] \div Lv(0).tile_height>>

\* The estimates a caller takes from raw statistics of level l.
Estimates(z, l) == [s \in Stats |-> ValueScaled(z, s, LevelScale(l))]

\* window_result: size and extent of a window for the caller.
WindowRect(env, win) ==
  LET w == IF env = None THEN None ELSE EnvelopeWindow(env)
      g == meta.georef
  IN IF w = None \/ win = <<>> THEN [width |-> 0, height |-> 0, bbox |-> None]
     ELSE [width |-> w[2] - w[1] + 1, height |-> w[4] - w[3] + 1,
           bbox |-> <<RasterToWorld(g, w[1] + 1, w[4] + 2)[1], RasterToWorld(g, w[1] + 1, w[4] + 2)[2],
                      RasterToWorld(g, w[2] + 2, w[3] + 1)[1], RasterToWorld(g, w[2] + 2, w[3] + 1)[2]>>]

NoWindow(env) == [win |-> <<>>, rect |-> WindowRect(env, <<>>)]

-----------------------------------------------------------------------------
\* Each call up to its fetch: [err], [ok] or the [level, tiles] to fetch.

ReadPixels ==
  IF meta.georef = None THEN [err |-> "NotGeoreferenced"]
  ELSE IF meta.levels = <<>> \/ BadBand(req.band) THEN [ok |-> [k \in DOMAIN req.points |-> None]]
  ELSE [level |-> 0,
        tiles |-> ReadPixelsTiles({TileAt(c) : c \in {Coord(p) : p \in ToSet(req.points)} \ {None}})]

ZonalStatsAt ==
  IF ~ValidBox(req.bbox) THEN [err |-> "InvalidFilter"]
  ELSE IF meta.georef = None THEN [err |-> "NotGeoreferenced"]
  ELSE LET l == LevelFor(req.bbox)
           w == CenterWindow(G(l), Lv(l), req.bbox)
       IN IF BadBand(req.band) \/ w = None THEN [ok |-> Estimates(EMPTY, l)]
          ELSE [level |-> l, tiles |-> TilesOf(Lv(l), w)]

ZonalStatsPolygonAt ==
  IF "err" \in DOMAIN zones THEN zones
  ELSE IF meta.georef = None THEN [err |-> "NotGeoreferenced"]
  ELSE LET l == LevelFor(Envelope(zones.ok[1]))
           w == ZoneWindow(zones.ok[1], l)
       IN IF BadBand(req.band) \/ w = None THEN [ok |-> Estimates(EMPTY, l)]
          ELSE [level |-> l, tiles |-> TilesOf(Lv(l), w)]

ZonalStatsPolygonBatchAt ==
  IF "err" \in DOMAIN zones THEN zones
  ELSE IF meta.georef = None THEN [err |-> "NotGeoreferenced"]
  ELSE LET l == LevelFor(UnionEnvelope(zones.ok))
           lv == Lv(l)
           windows == {ZoneWindow(z, l) : z \in ToSet(zones.ok)} \ {None}
       IN IF BadBand(req.band) THEN [ok |-> [k \in DOMAIN zones.ok |-> Estimates(EMPTY, l)]]
          ELSE [level |-> l,
                tiles |-> BatchTiles({<<w[1] \div lv.tile_width, w[2] \div lv.tile_width,
                                        w[3] \div lv.tile_height, w[4] \div lv.tile_height>>
                                       : w \in windows})]

\* band_window over a box, or over the whole band without one.
BandWindowOver(b) ==
  IF meta.levels = <<>> \/ BadBand(req.band) THEN [ok |-> None]
  ELSE IF 0 \in {Lv(0).image_width, Lv(0).image_height} THEN [ok |-> NoWindow(b)]
  ELSE IF b = None
       THEN [level |-> 0,
             tiles |-> TilesOf(Lv(0), <<0, Lv(0).image_width - 1, 0, Lv(0).image_height - 1>>)]
  ELSE IF ~ValidBox(b) THEN [err |-> "InvalidFilter"]
  ELSE IF meta.georef = None THEN [err |-> "NotGeoreferenced"]
  ELSE LET w == CenterWindow(meta.georef, Lv(0), b) IN
         IF w = None THEN [ok |-> NoWindow(b)] ELSE [level |-> 0, tiles |-> TilesOf(Lv(0), w)]

BandWindowPolygon ==
  IF "err" \in DOMAIN zones THEN zones
  ELSE LET env == Envelope(zones.ok[1]) IN
         IF env # None THEN BandWindowOver(env)
         ELSE IF BadBand(req.band) THEN [ok |-> None]
         ELSE [ok |-> NoWindow(None)]

Plan ==
  CASE req.op = "read_pixels" -> ReadPixels
    [] req.op = "zonal_bbox" -> ZonalStatsAt
    [] req.op = "zonal" -> ZonalStatsPolygonAt
    [] req.op = "zonal_zones" -> ZonalStatsPolygonBatchAt
    [] req.op = "band_window" -> BandWindowOver(req.bbox)
    [] req.op = "band_window_polygon" -> BandWindowPolygon

-----------------------------------------------------------------------------
\* Each call after its fetch.

SamplePoints(arrays) ==
  LET cs == [k \in DOMAIN req.points |-> Coord(req.points[k])]
      value(c) == SampleArray(arrays[CHOOSE i \in DOMAIN tiles : tiles[i] = TileAt(c)],
                              c[2] % Lv(0).tile_height, c[1] % Lv(0).tile_width, req.band - 1)
  IN IF \E k \in DOMAIN cs : cs[k] # None /\ value(cs[k]) = None THEN [err |-> "Tiff"]
     ELSE [ok |-> [k \in DOMAIN cs |-> IF cs[k] = None THEN None ELSE ApplyNodata(value(cs[k]))]]

Scaled(raw) == IF "err" \in DOMAIN raw THEN raw ELSE [ok |-> Estimates(raw.ok, level)]

\* Mutant: the window of a zone is that of level 0.
ZoneStatsFine(z, arrays) ==
  IF ZoneWindow(z, 0) = None THEN [ok |-> EMPTY]
  ELSE Accumulate(level, ZoneWindow(z, 0), req.band, arrays, z)

ZoneStats(z, arrays) ==
  IF ZoneWindow(z, level) = None THEN [ok |-> EMPTY]
  ELSE Accumulate(level, ZoneWindow(z, level), req.band, arrays, z)

BatchStats(arrays) ==
  LET raw == [k \in DOMAIN zones.ok |-> ZoneStats(zones.ok[k], arrays)] IN
    IF \E k \in DOMAIN raw : "err" \in DOMAIN raw[k] THEN [err |-> "Tiff"]
    ELSE [ok |-> [k \in DOMAIN raw |-> Estimates(raw[k].ok, level)]]

\* band_window: the values of all tiles, each at its place in the window.
FillWindow(b, arrays) ==
  LET lv == Lv(0)
      w == IF b = None THEN <<0, lv.image_width - 1, 0, lv.image_height - 1>>
           ELSE CenterWindow(meta.georef, lv, b)
      width == w[2] - w[1] + 1
      cells == UNION {{<<i, cell>> : cell \in TileCells(lv, w, tiles[i])} : i \in DOMAIN tiles}
      sample(s) == SampleArray(arrays[s[1]], s[2][3], s[2][2], req.band - 1)
      slot(s) == (s[2][1][2] * lv.tile_height + s[2][3] - w[3]) * width
                   + (s[2][1][1] * lv.tile_width + s[2][2] - w[1]) + 1
      value(k) == LET here == {s \in cells : slot(s) = k} IN
                    IF here = {} THEN None ELSE ApplyNodata(sample(CHOOSE s \in here : TRUE))
  IN IF \E s \in cells : sample(s) = None THEN [err |-> "Tiff"]
     ELSE [ok |-> [k \in 1..(width * (w[4] - w[3] + 1)) |-> value(k)]]

\* Mutant: the mask takes columns for rows.
MaskTransposed(z, w, win) ==
  LET width == w[2] - w[1] + 1 IN
    [k \in DOMAIN win |->
       IF KeepIn(z, meta.georef, w[1] + ((k - 1) \div width), w[3] + ((k - 1) % width))
       THEN win[k] ELSE None]

\* band_window_polygon: the pixels with their centre outside become None.
Mask(z, w, win) ==
  LET width == w[2] - w[1] + 1 IN
    [k \in DOMAIN win |->
       IF KeepIn(z, meta.georef, w[1] + ((k - 1) % width), w[3] + ((k - 1) \div width))
       THEN win[k] ELSE None]

\* The window of a box, or of a zone and its envelope, with its rectangle.
WindowAnswer(env, filled, zone) ==
  IF "err" \in DOMAIN filled THEN filled
  ELSE [ok |-> [win |-> IF zone = None THEN filled.ok
                        ELSE Mask(zone, EnvelopeWindow(env), filled.ok),
                rect |-> WindowRect(env, filled.ok)]]

Finish(arrays) ==
  CASE req.op = "read_pixels" -> SamplePoints(arrays)
    [] req.op = "zonal_bbox" ->
         Scaled(Accumulate(level, CenterWindow(G(level), Lv(level), req.bbox), req.band,
                           arrays, None))
    [] req.op = "zonal" -> Scaled(ZoneStats(zones.ok[1], arrays))
    [] req.op = "zonal_zones" -> BatchStats(arrays)
    [] req.op = "band_window" ->
         WindowAnswer(req.bbox, FillWindow(req.bbox, arrays), None)
    [] req.op = "band_window_polygon" ->
         LET z == zones.ok[1] IN
           WindowAnswer(Envelope(z), FillWindow(Envelope(z), arrays), z)

-----------------------------------------------------------------------------
Init ==
  /\ file \in Files /\ req \in Requests
  /\ meta = BuildMeta(file.ifds) /\ zones = ZonesOf(req)
  /\ pc = "begin" /\ level = 0
  /\ tiles = <<>> /\ answer = None

\* The checks that answer at once.
Early ==
  /\ pc = "begin"
  /\ \E plan \in {Plan} : "tiles" \notin DOMAIN plan /\ answer' = plan
  /\ pc' = "done"
  /\ UNCHANGED <<opened, level, tiles>>

\* fetch_decoded is called.
Fetch ==
  /\ pc = "begin"
  /\ \E plan \in {Plan} :
       "tiles" \in DOMAIN plan /\ level' = plan.level /\ tiles' = plan.tiles
  /\ pc' = "fetch"
  /\ UNCHANGED <<opened, answer>>

\* It returns the arrays in the order of the list, or fails.
FetchOk ==
  /\ pc = "fetch"
  /\ pc' = "done"
  /\ answer' = Finish([i \in DOMAIN tiles |-> Decoded(level, tiles[i])])
  /\ UNCHANGED <<opened, level, tiles>>

FetchErr ==
  /\ pc = "fetch" /\ tiles # <<>>
  /\ pc' = "done" /\ answer' = [err |-> "Tiff"]
  /\ UNCHANGED <<opened, level, tiles>>

Done == pc = "done" /\ UNCHANGED vars

Next == Early \/ Fetch \/ FetchOk \/ FetchErr \/ Done

Spec == Init /\ [][Next]_vars

-----------------------------------------------------------------------------
\* What the answers are about, without windows, tiles or arrays.

Raster(l) == (0..(Lv(l).image_width - 1)) \X (0..(Lv(l).image_height - 1))

\* The pixels with their centre in a closed box.
Centred(l, b) ==
  {cr \in Raster(l) :
     LET p == Center(G(l), cr[1], cr[2]) IN
       /\ Leq(Frac(b[1]), p[1]) /\ Leq(p[1], Frac(b[3]))
       /\ Leq(Frac(b[2]), p[2]) /\ Leq(p[2], Frac(b[4]))}

\* A point on an edge of a zone, where the even-odd rule promises nothing.
OnEdge(z, p) ==
  \E e \in {Edges(z)[k] : k \in DOMAIN Edges(z)} :
    /\ (p[1][1] - e[2][1] * p[1][2]) * p[2][2] * (e[1][2] - e[2][2])
         = (p[2][1] - e[2][2] * p[2][2]) * p[1][2] * (e[1][1] - e[2][1])
    /\ \A x \in 1..2 : /\ Leq(Frac(Min({e[1][x], e[2][x]})), p[x])
                       /\ Leq(p[x], Frac(Max({e[1][x], e[2][x]})))

\* Inside by the parity of a ray in direction +y.
InsideUpwards(z, p) ==
  LET swap(q) == <<q[2], q[1]>>
      edges == Edges(z)
  IN Cardinality({k \in DOMAIN edges :
                    Crosses(swap(edges[k][1]), swap(edges[k][2]), p[2], p[1])}) % 2 = 1

\* The sets of pixels a zone may stand for: those with the centre inside, and
\* any of those with the centre on an edge.
ZonePixels(z, l) ==
  LET center(cr) == Center(G(l), cr[1], cr[2])
      edge == {cr \in Raster(l) : OnEdge(z, center(cr))}
      inside == {cr \in Raster(l) \ edge : InsideUpwards(z, center(cr))}
  IN {inside \cup e : e \in SUBSET edge}

\* The pixels of a zone to the code: those with their centre in the envelope
\* that the even-odd test keeps.
Kept(z, l) ==
  IF Envelope(z) = None THEN {}
  ELSE {cr \in Centred(l, Envelope(z)) : KeepIn(z, G(l), cr[1], cr[2])}

\* No ring leaves the envelope, which is taken of the exteriors only: true of
\* every zone whose holes are holes of its polygons.
RingsWithin(z) ==
  \A ring \in ToSet(Rings(z)) : \A p \in ToSet(ring) :
    LET e == Envelope(z) IN e # None /\ p[1] \in e[1]..e[3] /\ p[2] \in e[2]..e[4]

\* The statistics of a set of pixels in the requested band.
StatsOf(l, S) ==
  LET value(cr) == PixelOf(l, cr[1], cr[2], req.band)
      valid == IF BadBand(req.band) THEN {} ELSE {cr \in S : value(cr) # meta.nodata}
  IN Estimates(Aggregate([cr \in valid |-> value(cr)]), l)

\* The box a call is about.
Box ==
  CASE req.op \in {"zonal_bbox", "band_window"} -> req.bbox
    [] req.op \in {"zonal", "band_window_polygon"} -> Envelope(zones.ok[1])
    [] req.op = "zonal_zones" -> UnionEnvelope(zones.ok)

\* The position that is read for a point: a NaN is taken for the origin.
Placed(p) ==
  <<IF p[1] = NaN THEN meta.georef.origin_x ELSE p[1],
    IF p[2] = NaN THEN meta.georef.origin_y ELSE p[2]>>

\* The pixel whose cell holds the position of a point; its upper and left edge
\* belong to it, the lower and right one do not.
Under(p) ==
  {cr \in Raster(0) :
     LET q == Placed(p)
         ul == RasterToWorld(meta.georef, cr[1] + 1, cr[2] + 1)
         lr == RasterToWorld(meta.georef, cr[1] + 2, cr[2] + 2)
     IN /\ Leq(ul[1], Frac(q[1])) /\ Less(Frac(q[1]), lr[1])
        /\ Less(lr[2], Frac(q[2])) /\ Leq(Frac(q[2]), ul[2])}

Answered(ops) == pc = "done" /\ req.op \in ops /\ "ok" \in DOMAIN answer

\* What fetch_decoded is asked for: no tile twice (claiming a key twice would
\* wait for oneself), no tile without a wanted pixel, none missing, and for a
\* batch every tile of any zone.
TilesOnce ==
  pc = "fetch" =>
    LET at(cr) == <<cr[1] \div Lv(level).tile_width, cr[2] \div Lv(level).tile_height>>
        boxes == CASE req.op = "zonal_zones" -> {Envelope(z) : z \in ToSet(zones.ok)} \ {None}
                   [] req.op = "read_pixels" -> {}
                   [] OTHER -> {Box}
        pixels == IF req.op = "read_pixels" THEN UNION {Under(p) : p \in ToSet(req.points)}
                  ELSE UNION {IF b = None THEN Raster(0) ELSE Centred(level, b) : b \in boxes}
    IN ToSet(tiles) = {at(cr) : cr \in pixels} /\ Len(tiles) = Cardinality(ToSet(tiles))

\* read_pixels answers every point, at its place in the list, with the value
\* of the pixel whose cell holds it: also on the edges of pixels and tiles,
\* with the tiles in another order than the points; NULL outside the image,
\* on nodata and for a band that is not there.
PointsExact ==
  Answered({"read_pixels"}) =>
    answer.ok = [k \in DOMAIN req.points |->
                   LET u == Under(req.points[k]) IN
                     IF u = {} \/ BadBand(req.band) THEN None
                     ELSE LET cr == CHOOSE cr \in u : TRUE IN
                            ApplyNodata(PixelOf(0, cr[1], cr[2], req.band))]

\* Zonal statistics are those of the pixels of the level whose centre lies in
\* the box or zone, each counted once whatever tiles it falls in, without
\* padding and nodata; a zone of a batch answers as it would alone.  Where a
\* hole leaves its polygon the code looks no further than the envelope.
ZonalExact ==
  Answered(ZonalOps) =>
    LET l == LevelFor(Box)
        exact(z, a) == RingsWithin(z) => \E S \in ZonePixels(z, l) : a = StatsOf(l, S)
    IN CASE req.op = "zonal_bbox" -> answer.ok = StatsOf(l, Centred(l, Box))
         [] req.op = "zonal" -> exact(zones.ok[1], answer.ok)
         [] OTHER -> \A k \in DOMAIN zones.ok : exact(zones.ok[k], answer.ok[k])

\* A window lists its pixels row by row, in the shape and extent reported
\* with it; for a polygon it shows the pixels that zonal statistics see, and
\* NULL elsewhere.
WindowsExact ==
  (Answered(WindowOps) /\ answer.ok # None) =>
    LET pixels == IF req.op = "band_window" /\ Box = None THEN Raster(0)
                  ELSE IF Box = None THEN {} ELSE Centred(0, Box)
        order == Sorted(pixels, YMajor)
        shows(S) == [k \in DOMAIN order |->
                       IF order[k] \in S
                       THEN ApplyNodata(PixelOf(0, order[k][1], order[k][2], req.band)) ELSE None]
        rect == answer.ok.rect
    IN /\ \E S \in IF req.op = "band_window" THEN {pixels} ELSE ZonePixels(zones.ok[1], 0) :
            answer.ok.win = shows(S)
       /\ Box # None => rect.width * rect.height = Cardinality(pixels)
       /\ rect.bbox # None =>
            \A cr \in Raster(0) :
              LET p == Center(meta.georef, cr[1], cr[2]) IN
                cr \in pixels <=> /\ Leq(rect.bbox[1], p[1]) /\ Leq(p[1], rect.bbox[3])
                                  /\ Leq(rect.bbox[2], p[2]) /\ Leq(p[2], rect.bbox[4])

\* A zone has the same pixels in every call: its statistics alone and in a
\* batch, where other zones decide the level and the tile list, are those of
\* the pixels it keeps at the level, and its window shows these at level 0.
ZonesAgree ==
  LET l == LevelFor(Box)
      alone == Kept(zones.ok[1], 0)
      order == Sorted(Centred(0, Box), YMajor)
  IN /\ Answered({"zonal"}) => answer.ok = StatsOf(l, Kept(zones.ok[1], l))
     /\ Answered({"zonal_zones"}) =>
          answer.ok = [k \in DOMAIN zones.ok |-> StatsOf(l, Kept(zones.ok[k], l))]
     /\ (Answered({"band_window_polygon"}) /\ answer.ok # None /\ Box # None) =>
          answer.ok.win =
            [k \in DOMAIN order |->
               IF order[k] \in alone
               THEN ApplyNodata(PixelOf(0, order[k][1], order[k][2], req.band)) ELSE None]

\* A budget of pixels is kept by the finest level that keeps it, else the
\* coarsest is read; without a budget level 0 is, and a scaled count of
\* a whole raster without nodata is its number of pixels at every level.
LevelFits ==
  (pc # "begin" /\ tiles # <<>> /\ req.op \in ZonalOps) =>
    LET n(l) == Cardinality(Centred(l, Box))
        all == 0..(Len(meta.levels) - 1)
    IN /\ req.max_pixels = 0 => level = 0
       /\ req.max_pixels > 0 =>
            /\ n(level) <= req.max_pixels \/ level = Max(all)
            /\ \A l \in 0..(level - 1) : n(l) > req.max_pixels
       /\ (Answered({"zonal_bbox"}) /\ meta.nodata = None /\ Centred(level, Box) = Raster(level)) =>
            answer.ok["count"][1] = Cardinality(Raster(0)) * answer.ok["count"][2]

=============================================================================
