---------------------------- MODULE ReadCogProofs ----------------------------
(***************************************************************************)
(* The table functions: the scan emits every row exactly once, for every     *)
(* number of rows and batch length, and read_cog lists exactly the tiles     *)
(* that touch its filter, for every file and filter.                         *)
(***************************************************************************)
EXTENDS ReadCog, FiniteSetTheorems, NaturalsInduction, WellFoundedInduction, TLAPS

\* Types; the rows before the cursor were emitted once, the others not; the
\* scan ends when the cursor has passed the last row.
ScanInv ==
  /\ rows \in Nat /\ cursor \in Nat
  /\ ended \in BOOLEAN
  /\ times \in [0 .. rows - 1 -> Nat]
  /\ \A r \in 0 .. rows - 1 : times[r] = IF r < cursor THEN 1 ELSE 0
  /\ ended => cursor >= rows

\* Emitting a batch counts each of its rows once.
LEMMA EmitKeeps ==
  ASSUME ScanInv, Emit
  PROVE  ScanInv'
<1>1. /\ rows \in Nat /\ cursor \in Nat /\ CHUNK \in Nat
      /\ cursor' = cursor + CHUNK /\ rows' = rows /\ ended' = ended /\ ended = FALSE
      /\ times' = [r \in 0 .. rows - 1 |-> times[r] + (IF r \in Batch THEN 1 ELSE 0)]
  BY TableScanAssumption DEF Emit, NextCursor, ScanInv
<1>2. ASSUME NEW r \in 0 .. rows - 1 PROVE times'[r] = IF r < cursor' THEN 1 ELSE 0
  <2>1. r \in Batch <=> cursor <= r /\ r < cursor + CHUNK
    BY <1>1 DEF Batch, Least
  <2>2. times'[r] = times[r] + (IF r \in Batch THEN 1 ELSE 0)
    BY <1>1
  <2>3. times[r] = IF r < cursor THEN 1 ELSE 0
    BY DEF ScanInv
  <2>4. QED
    BY <1>1, <2>1, <2>2, <2>3
<1>3. times' \in [0 .. rows' - 1 -> Nat]
  BY <1>1 DEF ScanInv
<1>4. QED
  BY <1>1, <1>2, <1>3 DEF ScanInv

\* Every step keeps the count of each row.
LEMMA ScanStep == ScanInv /\ [Next]_vars => ScanInv'
<1> SUFFICES ASSUME ScanInv, [Next]_vars PROVE ScanInv'
  OBVIOUS
<1>1. CASE Exhausted
  BY <1>1, TableScanAssumption DEF Exhausted, PastEnd, NextCursor, ScanInv
<1>2. CASE UNCHANGED vars
  BY <1>2 DEF ScanInv, vars
<1>3. QED
  BY <1>1, <1>2, EmitKeeps DEF Next, Scanned

\* bind fixed the rows.
LEMMA RowsFixed == [Next]_vars => rows' = rows
BY DEF Next, Emit, Exhausted, Scanned, vars

\* The counts hold throughout.
LEMMA ScanInvariant == Spec => []ScanInv
<1>1. Init => ScanInv
  <2> SUFFICES ASSUME Init PROVE ScanInv
    OBVIOUS
  <2>1. rows \in Nat /\ cursor = 0 /\ ended = FALSE /\ times = [r \in 0 .. rows - 1 |-> 0]
    BY TableScanAssumption DEF Init
  <2>2. times \in [0 .. rows - 1 -> Nat] /\ \A r \in 0 .. rows - 1 : times[r] = 0
    BY <2>1
  <2>3. \A r \in 0 .. rows - 1 : ~(r < 0)
    OBVIOUS
  <2>4. QED
    BY <2>1, <2>2, <2>3 DEF ScanInv
<1>2. QED
  BY <1>1, ScanStep, PTL DEF Spec

\* A scan ends only when the cursor has passed the last row.
LEMMA ScanEnds == ScanInv => ScanComplete
BY DEF ScanInv, ScanComplete

\* When DuckDB has seen the empty chunk, every row was emitted once.
THEOREM ScanReturnsAll == Spec => []ScanComplete
BY ScanInvariant, ScanEnds, PTL

-----------------------------------------------------------------------------
(***************************************************************************)
(* Whole numbers.                                                            *)
(***************************************************************************)

\* Division rounds down.
LEMMA DivProps ==
  ASSUME NEW a \in Int, NEW w \in Nat \ {0}
  PROVE  a \div w \in Int /\ w * (a \div w) <= a /\ a < w * (a \div w) + w
OBVIOUS

\* A quotient is determined by its bounds.
LEMMA DivUnique ==
  ASSUME NEW a \in Int, NEW w \in Nat \ {0}, NEW q \in Int, q * w <= a, a < q * w + w
  PROVE  a \div w = q
<1> DEFINE d == a \div w
<1>1. d \in Int /\ w * d <= a /\ a < w * d + w
  BY DivProps
<1> HIDE DEF d
<1>2. (d - q) * w < w /\ (q - d) * w < w
  BY <1>1
<1>3. d - q < 1 /\ q - d < 1
  BY <1>1, <1>2
<1>4. QED
  BY <1>1, <1>3 DEF d

\* The remainder is what division leaves.
LEMMA ModProps ==
  ASSUME NEW a \in Int, NEW w \in Nat \ {0}
  PROVE  a % w = a - w * (a \div w)
OBVIOUS

\* Division that rounds up counts the multiples of w below n.
LEMMA CeilProps ==
  ASSUME NEW n \in Nat \ {0}, NEW w \in Nat \ {0}, NEW t \in Nat
  PROVE  /\ CeilDiv(n, w) \in Nat
         /\ t \in 0..(CeilDiv(n, w) - 1) <=> t * w < n
<1> DEFINE q == CeilDiv(n, w)
<1>1. q \in Int /\ n <= w * q /\ w * q - w < n
  BY DivProps DEF CeilDiv
<1> HIDE DEF q
<1>2. q \in Nat
  BY <1>1
<1>3. t <= q - 1 => t * w <= (q - 1) * w
  BY <1>1
<1>4. t >= q => t * w >= q * w
  BY <1>1
<1>5. QED
  BY <1>1, <1>2, <1>3, <1>4 DEF q

\* A set of numbers has a least one.
LEMMA LeastExists ==
  ASSUME NEW T, T \subseteq Nat, T # {}
  PROVE  \E m \in T : \A n \in T : m <= n
<1>1. PICK m \in T : \A n \in T : ~(<<n, m>> \in OpToRel(<, Nat))
  BY NatLessThanWellFounded, WFMin, Zenon
<1>2. \A n \in T : ~(n < m)
  BY <1>1 DEF OpToRel
<1>3. QED
  BY <1>2

\* [A + a * N, A + b * N] meets [L, H].
Overlaps(A, N, L, H, a, b) == A + a * N <= H /\ L <= A + b * N

\* Adjoining cells of length N cover the interval from the first to the last of
\* them: it meets [L, H] exactly when one of the cells does.
LEMMA CellsCover ==
  ASSUME NEW A \in Int, NEW N \in Nat, NEW L \in Int, NEW H \in Int, L <= H,
         NEW a \in Nat, NEW b \in Nat, a < b
  PROVE  Overlaps(A, N, L, H, a, b) <=> \E c \in a..(b - 1) : Overlaps(A, N, L, H, c, c + 1)
<1> USE DEF Overlaps
<1>1. ASSUME NEW c \in a..(b - 1), A + c * N <= H, L <= A + (c + 1) * N
      PROVE  A + a * N <= H /\ L <= A + b * N
  <2>1. a * N <= c * N /\ (c + 1) * N <= b * N
    OBVIOUS
  <2>2. a * N \in Int /\ c * N \in Int /\ (c + 1) * N \in Int /\ b * N \in Int
    OBVIOUS
  <2>3. QED
    BY <1>1, <2>1, <2>2
<1>2. ASSUME A + a * N <= H, L <= A + b * N
      PROVE  \E c \in a..(b - 1) : A + c * N <= H /\ L <= A + (c + 1) * N
  <2> DEFINE T == {c \in a..(b - 1) : L <= A + (c + 1) * N}
  <2>1. b - 1 \in T
    BY <1>2
  <2>2. PICK c \in T : \A d \in T : c <= d
    <3>1. T \subseteq Nat
      OBVIOUS
    <3> HIDE DEF T
    <3>2. QED
      BY <2>1, <3>1, LeastExists
  <2>3. CASE c = a
    BY <1>2, <2>2, <2>3
  <2>4. CASE c # a
    <3>1. c - 1 \in a..(b - 1) /\ c - 1 \notin T
      BY <2>2, <2>4
    <3>2. ~(L <= A + c * N)
      BY <3>1
    <3>3. A + c * N \in Int
      BY <2>2
    <3>4. A + c * N <= H
      BY <3>2, <3>3
    <3>5. QED
      BY <2>2, <3>4
  <2>5. QED
    BY <2>3, <2>4
<1>3. QED
  BY <1>1, <1>2

\* key has the digits l, x and y to the base B, and gives them back.
Packs(key, B, l, x, y) == key = l * (B * B) + x * B + y
GivesBack(key, B, l, x, y) ==
  key \div (B * B) = l /\ (key \div B) % B = x /\ key % B = y

\* A key of digits to the base B gives its digits back.
LEMMA Unpacked ==
  ASSUME NEW B \in Nat \ {0}, NEW l \in Nat, NEW x \in 0..(B - 1), NEW y \in 0..(B - 1),
         NEW key, Packs(key, B, l, x, y)
  PROVE  GivesBack(key, B, l, x, y)
<1> USE DEF Packs
<1>1. key \in Nat /\ B * B \in Nat \ {0}
  OBVIOUS
<1>2. x * B + y \in 0..(B * B - 1)
  <2>1. x * B <= (B - 1) * B
    OBVIOUS
  <2>2. QED
    BY <2>1
<1>3. key \div (B * B) = l
  <2>1. l * (B * B) <= key /\ key < l * (B * B) + B * B
    BY <1>2
  <2>2. QED
    BY <1>1, <2>1, DivUnique
<1>4. key \div B = l * B + x
  <2>1. (l * B + x) * B <= key /\ key < (l * B + x) * B + B
    OBVIOUS
  <2>2. l * B + x \in Int
    OBVIOUS
  <2>3. QED
    BY <1>1, <2>1, <2>2, DivUnique
<1>5. (l * B + x) % B = x
  <2>1. (l * B + x) \div B = l
    BY DivUnique
  <2>2. QED
    BY <2>1, ModProps
<1>6. key % B = y
  <2>1. key - B * (l * B + x) = y
    OBVIOUS
  <2>2. key % B = key - B * (key \div B)
    BY <1>1, ModProps
  <2>3. QED
    BY <1>4, <2>1, <2>2
<1>7. QED
  BY <1>3, <1>4, <1>5, <1>6 DEF GivesBack

-----------------------------------------------------------------------------
(***************************************************************************)
(* One level: tiles, pixels and boxes.                                       *)
(***************************************************************************)

\* The pixels of tile t in one direction: those whose quotient it is.
LEMMA TilePixels ==
  ASSUME NEW w \in Nat \ {0}, NEW n \in Nat \ {0}, NEW t \in 0..(CeilDiv(n, w) - 1)
  PROVE  /\ t * w \in Nat /\ TileEnd(t, w, n) \in Nat /\ t * w < TileEnd(t, w, n)
         /\ \A c \in (t * w)..(TileEnd(t, w, n) - 1) : c \in 0..(n - 1) /\ c \div w = t
         /\ \A c \in 0..(n - 1) : c \div w = t => c \in (t * w)..(TileEnd(t, w, n) - 1)
<1>1. t \in Nat /\ t * w \in Nat /\ t * w < n
  BY CeilProps
<1>2. (t + 1) * w \in Nat /\ (t + 1) * w = t * w + w
  BY <1>1
<1>3. TileEnd(t, w, n) = IF t * w + w <= n THEN t * w + w ELSE n
  BY <1>1, <1>2 DEF TileEnd, Min
<1>4. \A c \in (t * w)..(TileEnd(t, w, n) - 1) : c \in 0..(n - 1) /\ c \div w = t
  BY <1>1, <1>3, DivUnique
<1>5. \A c \in 0..(n - 1) : c \div w = t => c \in (t * w)..(TileEnd(t, w, n) - 1)
  BY <1>1, <1>3, DivProps
<1>6. QED
  BY <1>1, <1>3, <1>4, <1>5

\* Every pixel lies in a tile.
LEMMA PixelTile ==
  ASSUME NEW w \in Nat \ {0}, NEW n \in Nat \ {0}, NEW c \in 0..(n - 1)
  PROVE  c \div w \in 0..(CeilDiv(n, w) - 1)
<1>1. c \div w \in Int /\ w * (c \div w) <= c /\ c < w * (c \div w) + w
  BY DivProps
<1>2. c \div w \in Nat
  BY <1>1
<1>3. (c \div w) * w < n
  BY <1>1
<1>4. QED
  BY <1>2, <1>3, CeilProps

\* What build_meta accepts as a level, as a georeference and as metadata.
Level(lv) ==
  /\ {lv.image_width, lv.image_height, lv.tile_width, lv.tile_height} \subseteq Nat \ {0}
  /\ lv.tiles_x = CeilDiv(lv.image_width, lv.tile_width)
  /\ lv.tiles_y = CeilDiv(lv.image_height, lv.tile_height)
  /\ lv.tiles_x <= 2 ^ IndexBits /\ lv.tiles_y <= 2 ^ IndexBits

NorthUp(g) ==
  /\ g = [origin_x |-> g.origin_x, origin_y |-> g.origin_y,
          pixel_x |-> g.pixel_x, pixel_y |-> g.pixel_y]
  /\ g.origin_x \in Int /\ g.origin_y \in Int
  /\ \E n \in Nat : g.pixel_x = <<n, 1>>
  /\ \E n \in Nat : g.pixel_y = <<n, 1>>

Metadata(m) ==
  /\ \E n \in Nat : DOMAIN m.levels = 1..n
  /\ \A i \in DOMAIN m.levels : m.levels[i].level = i - 1 /\ Level(m.levels[i])
  /\ m.georef # None => 1 \in DOMAIN m.levels /\ NorthUp(m.georef)

\* The georeference that the tags of an IFD give.
LEMMA GeorefProps ==
  ASSUME NEW ifd \in Ifds, GeorefOf(ifd) # None
  PROVE  NorthUp(GeorefOf(ifd))
<1>1. ifd.scale # None /\ ifd.tie # None
  BY DEF GeorefOf
<1>2. ifd.scale \in Seq(Nat) /\ ifd.tie \in Seq(Int)
  BY <1>1 DEF Ifds
<1>3. /\ Len(ifd.scale) \in Nat /\ Len(ifd.scale) >= 2
      /\ Len(ifd.tie) \in Nat /\ Len(ifd.tie) >= 6
  BY <1>1, <1>2 DEF GeorefOf
<1>4. /\ ifd.scale[1] \in Nat /\ ifd.scale[2] \in Nat
      /\ ifd.tie[1] \in Int /\ ifd.tie[2] \in Int /\ ifd.tie[4] \in Int /\ ifd.tie[5] \in Int
  <2>1. \A k \in 1..Len(ifd.scale) : ifd.scale[k] \in Nat
    BY <1>2
  <2>2. \A k \in 1..Len(ifd.tie) : ifd.tie[k] \in Int
    BY <1>2
  <2>3. /\ 1 \in 1..Len(ifd.scale) /\ 2 \in 1..Len(ifd.scale)
        /\ \A k \in {1, 2, 4, 5} : k \in 1..Len(ifd.tie)
    BY <1>3
  <2>4. QED
    BY <2>1, <2>2, <2>3
<1>5. GeorefOf(ifd) =
        [origin_x |-> ifd.tie[4] - ifd.tie[1] * ifd.scale[1],
         origin_y |-> ifd.tie[5] + ifd.tie[2] * ifd.scale[2],
         pixel_x |-> <<ifd.scale[1], 1>>,
         pixel_y |-> <<ifd.scale[2], 1>>]
  BY <1>1, <1>2, <1>3 DEF GeorefOf, Frac
<1>6. /\ ifd.tie[4] - ifd.tie[1] * ifd.scale[1] \in Int
      /\ ifd.tie[5] + ifd.tie[2] * ifd.scale[2] \in Int
  BY <1>4
<1>7. QED
  BY <1>4, <1>5, <1>6 DEF NorthUp

\* build_meta refuses what is not tiled and what a key cannot name.
LEMMA MetadataProps ==
  ASSUME NEW f \in Seq(Ifds), "err" \notin DOMAIN BuildMeta(f)
  PROVE  Metadata(BuildMeta(f))
<1> DEFINE m == BuildMeta(f)
           level(i) == [level |-> i - 1,
                        image_width |-> f[i].image_width,
                        image_height |-> f[i].image_height,
                        tile_width |-> f[i].tile_width,
                        tile_height |-> f[i].tile_height,
                        tiles_x |-> TilesX(f[i]), tiles_y |-> TilesY(f[i])]
<1>1. \A i \in DOMAIN f : LevelError(f, i) = None
  BY DEF BuildMeta
<1>2. m = [levels |-> [i \in DOMAIN f |-> level(i)],
           georef |-> IF f = <<>> THEN None ELSE GeorefOf(f[1]),
           num_bands |-> IF f = <<>> THEN 0 ELSE f[1].samples_per_pixel,
           nodata |-> IF f = <<>> THEN None ELSE f[1].nodata]
  BY <1>1 DEF BuildMeta
<1>3. Len(f) \in Nat /\ DOMAIN f = 1..Len(f) /\ \A i \in 1..Len(f) : f[i] \in Ifds
  OBVIOUS
<1>4. m.levels = [i \in 1..Len(f) |-> level(i)]
  BY <1>2, <1>3
<1>5. m.georef = IF f = <<>> THEN None ELSE GeorefOf(f[1])
  BY <1>2
<1> HIDE DEF m
<1>6. ASSUME NEW i \in 1..Len(f)
      PROVE  level(i).level = i - 1 /\ Level(level(i))
  <2>1. f[i] \in Ifds /\ LevelError(f, i) = None
    BY <1>1, <1>3
  <2>2. /\ Tiled(f[i])
        /\ ~(TilesX(f[i]) > MaxTileIndex + 1 \/ TilesY(f[i]) > MaxTileIndex + 1)
    BY <2>1, <1>3, NoneAssumption, CogMetaAssumption DEF LevelError
  <2>3. {f[i].image_width, f[i].image_height, f[i].tile_width, f[i].tile_height}
          \subseteq Nat \ {0}
    BY <2>1, <2>2 DEF Tiled, Ifds
  <2>4. TilesX(f[i]) \in Nat /\ TilesY(f[i]) \in Nat
    BY <2>3, CeilProps DEF TilesX, TilesY
  <2>5. TilesX(f[i]) <= 2 ^ IndexBits /\ TilesY(f[i]) <= 2 ^ IndexBits
    BY <2>2, <2>4, CogMetaAssumption DEF MaxTileIndex
  <2>6. QED
    BY <2>3, <2>5 DEF Level, TilesX, TilesY
<1>7. ASSUME m.georef # None
      PROVE  1 \in 1..Len(f) /\ NorthUp(m.georef)
  <2>1. f # <<>> /\ m.georef = GeorefOf(f[1])
    BY <1>5, <1>7
  <2>2. 1 \in 1..Len(f)
    BY <1>3, <2>1
  <2>3. QED
    BY <1>3, <1>7, <2>1, <2>2, GeorefProps
<1>8. QED
  <2>1. DOMAIN m.levels = 1..Len(f)
    BY <1>4
  <2>2. \A i \in DOMAIN m.levels : m.levels[i].level = i - 1 /\ Level(m.levels[i])
    BY <1>4, <1>6
  <2>3. QED
    BY <1>3, <1>7, <2>1, <2>2 DEF Metadata, m

\* A georeference in the pixels of a level: pixels of nx / w by ny / h units.
Pixels(g, nx, ny, w, h) ==
  /\ g.origin_x \in Int /\ g.origin_y \in Int
  /\ nx \in Nat /\ ny \in Nat /\ w \in Nat \ {0} /\ h \in Nat \ {0}
  /\ g.pixel_x = <<nx, w>> /\ g.pixel_y = <<ny, h>>

\* level_georef scales the pixels of the full image.
LEMMA LevelPixels ==
  ASSUME NEW g, NorthUp(g), NEW l0, Level(l0), NEW lv, Level(lv)
  PROVE  \E nx, ny \in Nat :
           Pixels(LevelGeoref(g, l0, lv), nx, ny, lv.image_width, lv.image_height)
<1>1. PICK px \in Nat, py \in Nat : g.pixel_x = <<px, 1>> /\ g.pixel_y = <<py, 1>>
  BY DEF NorthUp
<1>2. /\ l0.image_width \in Nat /\ l0.image_height \in Nat
      /\ lv.image_width \in Nat \ {0} /\ lv.image_height \in Nat \ {0}
  BY DEF Level
<1>3. /\ px * l0.image_width \in Nat /\ py * l0.image_height \in Nat
      /\ 1 * lv.image_width = lv.image_width /\ 1 * lv.image_height = lv.image_height
  BY <1>1, <1>2
<1> DEFINE h == LevelGeoref(g, l0, lv)
<1>4. /\ h.origin_x = g.origin_x /\ h.origin_y = g.origin_y
      /\ h.pixel_x = <<g.pixel_x[1] * l0.image_width, g.pixel_x[2] * lv.image_width>>
      /\ h.pixel_y = <<g.pixel_y[1] * l0.image_height, g.pixel_y[2] * lv.image_height>>
  BY DEF LevelGeoref, NorthUp
<1> HIDE DEF h
<1>5. /\ h.pixel_x = <<px * l0.image_width, lv.image_width>>
      /\ h.pixel_y = <<py * l0.image_height, lv.image_height>>
  BY <1>1, <1>3, <1>4
<1>6. g.origin_x \in Int /\ g.origin_y \in Int
  BY DEF NorthUp
<1>7. Pixels(h, px * l0.image_width, py * l0.image_height, lv.image_width, lv.image_height)
  BY <1>2, <1>3, <1>4, <1>5, <1>6 DEF Pixels
<1>8. QED
  BY <1>3, <1>7 DEF h

\* A filter that is a proper box.
Box(b) ==
  /\ b[1] \in Int /\ b[2] \in Int /\ b[3] \in Int /\ b[4] \in Int
  /\ b[1] <= b[3] /\ b[2] <= b[4]

\* The box of columns a..b - 1 and rows p..q - 1, and when it meets a filter.
WorldBox(g, nx, ny, w, h, a, b, p, q) ==
  <<<<g.origin_x * w + a * nx, w>>, <<g.origin_y * h - q * ny, h>>,
    <<g.origin_x * w + b * nx, w>>, <<g.origin_y * h - p * ny, h>>>>

Meets(g, nx, ny, w, h, a, b, p, q, f) ==
  /\ Overlaps(g.origin_x * w, nx, f[1] * w, f[3] * w, a, b)
  /\ Overlaps(-(g.origin_y * h), ny, -(f[4] * h), -(f[2] * h), p, q)

\* The coordinates of pixel boundaries.
LEMMA Boundaries ==
  ASSUME NEW g, NEW nx, NEW ny, NEW w, NEW h, Pixels(g, nx, ny, w, h),
         NEW a \in Int, NEW z
  PROVE  /\ RasterToWorld(g, a + 1, z)[1] = <<g.origin_x * w + a * nx, w>>
         /\ RasterToWorld(g, z, a + 1)[2] = <<g.origin_y * h - a * ny, h>>
<1>1. (a + 1) - 1 = a
  OBVIOUS
<1>2. QED
  BY <1>1 DEF RasterToWorld, Pixels

\* bbox_intersects on such a box.
LEMMA BoxMeets ==
  ASSUME NEW g, NEW nx, NEW ny, NEW w, NEW h, Pixels(g, nx, ny, w, h),
         NEW f, Box(f), NEW a \in Int, NEW b \in Int, NEW p \in Int, NEW q \in Int
  PROVE  BBoxIntersects(WorldBox(g, nx, ny, w, h, a, b, p, q), f)
           <=> Meets(g, nx, ny, w, h, a, b, p, q, f)
<1> DEFINE X == g.origin_x * w
           Y == g.origin_y * h
           F1 == f[1] * w
           F2 == f[2] * h
           F3 == f[3] * w
           F4 == f[4] * h
           A == a * nx
           B == b * nx
           P == p * ny
           Q == q * ny
<1>1. /\ X \in Int /\ Y \in Int /\ F1 \in Int /\ F2 \in Int /\ F3 \in Int /\ F4 \in Int
      /\ A \in Int /\ B \in Int /\ P \in Int /\ Q \in Int
  BY DEF Pixels, Box
<1>2. BBoxIntersects(<<<<X + A, w>>, <<Y - Q, h>>, <<X + B, w>>, <<Y - P, h>>>>, f) <=>
        /\ (X + A) * 1 <= F3 /\ F1 <= (X + B) * 1
        /\ (Y - Q) * 1 <= F4 /\ F2 <= (Y - P) * 1
  BY DEF BBoxIntersects, Leq, Frac
<1> HIDE DEF X, Y, F1, F2, F3, F4, A, B, P, Q
<1>3. (/\ (X + A) * 1 <= F3 /\ F1 <= (X + B) * 1
       /\ (Y - Q) * 1 <= F4 /\ F2 <= (Y - P) * 1) <=>
        (/\ X + A <= F3 /\ F1 <= X + B
         /\ -Y + P <= -F2 /\ -F4 <= -Y + Q)
  BY <1>1
<1>4. QED
  BY <1>2, <1>3 DEF Meets, Overlaps, WorldBox, X, Y, F1, F2, F3, F4, A, B, P, Q

\* The columns and rows of a tile: bounds that only its own pixels keep.
LEMMA TileRange ==
  ASSUME NEW lv, Level(lv), NEW x \in 0..(lv.tiles_x - 1), NEW y \in 0..(lv.tiles_y - 1)
  PROVE  /\ x * lv.tile_width \in Nat /\ TileEnd(x, lv.tile_width, lv.image_width) \in Nat
         /\ x * lv.tile_width < TileEnd(x, lv.tile_width, lv.image_width)
         /\ \A c \in (x * lv.tile_width)..(TileEnd(x, lv.tile_width, lv.image_width) - 1) :
              c \in 0..(lv.image_width - 1) /\ c \div lv.tile_width = x
         /\ \A c \in 0..(lv.image_width - 1) : c \div lv.tile_width = x =>
              c \in (x * lv.tile_width)..(TileEnd(x, lv.tile_width, lv.image_width) - 1)
         /\ y * lv.tile_height \in Nat /\ TileEnd(y, lv.tile_height, lv.image_height) \in Nat
         /\ y * lv.tile_height < TileEnd(y, lv.tile_height, lv.image_height)
         /\ \A r \in (y * lv.tile_height)..(TileEnd(y, lv.tile_height, lv.image_height) - 1) :
              r \in 0..(lv.image_height - 1) /\ r \div lv.tile_height = y
         /\ \A r \in 0..(lv.image_height - 1) : r \div lv.tile_height = y =>
              r \in (y * lv.tile_height)..(TileEnd(y, lv.tile_height, lv.image_height) - 1)
<1>1. /\ lv.image_width \in Nat \ {0} /\ lv.image_height \in Nat \ {0}
      /\ lv.tile_width \in Nat \ {0} /\ lv.tile_height \in Nat \ {0}
      /\ x \in 0..(CeilDiv(lv.image_width, lv.tile_width) - 1)
      /\ y \in 0..(CeilDiv(lv.image_height, lv.tile_height) - 1)
  BY DEF Level
<1>2. QED
  BY <1>1, TilePixels, Zenon

\* tile_bbox is the box of the tile's columns and rows.
LEMMA TileBox ==
  ASSUME NEW g0, NEW l0, NEW lv, Level(lv),
         NEW nx, NEW ny,
         Pixels(LevelGeoref(g0, l0, lv), nx, ny, lv.image_width, lv.image_height),
         NEW x \in 0..(lv.tiles_x - 1), NEW y \in 0..(lv.tiles_y - 1)
  PROVE  TileBBox(g0, l0, lv, x, y) =
           WorldBox(LevelGeoref(g0, l0, lv), nx, ny, lv.image_width, lv.image_height,
                    x * lv.tile_width, TileEnd(x, lv.tile_width, lv.image_width),
                    y * lv.tile_height, TileEnd(y, lv.tile_height, lv.image_height))
<1> DEFINE g == LevelGeoref(g0, l0, lv)
           w == lv.image_width
           h == lv.image_height
           a == x * lv.tile_width
           b == TileEnd(x, lv.tile_width, w)
           p == y * lv.tile_height
           q == TileEnd(y, lv.tile_height, h)
<1>1. a \in Int /\ b \in Int /\ p \in Int /\ q \in Int
  <2>1. a \in Nat /\ b \in Nat /\ p \in Nat /\ q \in Nat
    BY TileRange, Zenon
  <2> HIDE DEF a, b, p, q
  <2>2. QED
    BY <2>1
<1>2. TileBBox(g0, l0, lv, x, y) =
        <<RasterToWorld(g, a + 1, p + 1)[1], RasterToWorld(g, b + 1, q + 1)[2],
          RasterToWorld(g, b + 1, q + 1)[1], RasterToWorld(g, a + 1, p + 1)[2]>>
  BY DEF TileBBox
<1> HIDE DEF g, w, h, a, b, p, q
<1>3. Pixels(g, nx, ny, w, h)
  BY DEF g, w, h
<1>4. ASSUME NEW e \in Int, NEW z
      PROVE  /\ RasterToWorld(g, e + 1, z)[1] = <<g.origin_x * w + e * nx, w>>
             /\ RasterToWorld(g, z, e + 1)[2] = <<g.origin_y * h - e * ny, h>>
  BY <1>3, Boundaries
<1>5. /\ RasterToWorld(g, a + 1, p + 1)[1] = <<g.origin_x * w + a * nx, w>>
      /\ RasterToWorld(g, b + 1, q + 1)[1] = <<g.origin_x * w + b * nx, w>>
      /\ RasterToWorld(g, b + 1, q + 1)[2] = <<g.origin_y * h - q * ny, h>>
      /\ RasterToWorld(g, a + 1, p + 1)[2] = <<g.origin_y * h - p * ny, h>>
  BY <1>1, <1>4
<1>6. TileBBox(g0, l0, lv, x, y) = WorldBox(g, nx, ny, w, h, a, b, p, q)
  BY <1>2, <1>5, Zenon DEF WorldBox
<1>7. QED
  BY <1>6 DEF g, w, h, a, b, p, q

\* The cell of one pixel is a box of one column and one row.
LEMMA CellMeets ==
  ASSUME NEW g, NEW nx, NEW ny, NEW w, NEW h, Pixels(g, nx, ny, w, h),
         NEW f, Box(f), NEW c \in Nat, NEW r \in Nat
  PROVE  BBoxIntersects(Cell(g, c, r), f)
           <=> Meets(g, nx, ny, w, h, c, c + 1, r, r + 1, f)
<1>1. ASSUME NEW e \in Int, NEW z
      PROVE  /\ RasterToWorld(g, e + 1, z)[1] = <<g.origin_x * w + e * nx, w>>
             /\ RasterToWorld(g, z, e + 1)[2] = <<g.origin_y * h - e * ny, h>>
  BY Boundaries
<1>2. /\ c + 2 = (c + 1) + 1 /\ r + 2 = (r + 1) + 1
      /\ c \in Int /\ r \in Int /\ c + 1 \in Int /\ r + 1 \in Int
  OBVIOUS
<1>3. /\ RasterToWorld(g, c + 1, r + 2)[1] = <<g.origin_x * w + c * nx, w>>
      /\ RasterToWorld(g, c + 2, r + 1)[1] = <<g.origin_x * w + (c + 1) * nx, w>>
      /\ RasterToWorld(g, c + 1, r + 2)[2] = <<g.origin_y * h - (r + 1) * ny, h>>
      /\ RasterToWorld(g, c + 2, r + 1)[2] = <<g.origin_y * h - r * ny, h>>
  BY <1>1, <1>2, Zenon
<1>4. Cell(g, c, r) = WorldBox(g, nx, ny, w, h, c, c + 1, r, r + 1)
  BY <1>3, Zenon DEF Cell, WorldBox
<1>5. QED
  BY <1>2, <1>4, BoxMeets, Zenon

\* A tile with a georeference has a bbox.
LEMMA TileBoxSome ==
  ASSUME NEW m, Metadata(m), m.georef # None, NEW i \in DOMAIN m.levels,
         NEW x \in 0..(m.levels[i].tiles_x - 1), NEW y \in 0..(m.levels[i].tiles_y - 1)
  PROVE  TileBBox(m.georef, m.levels[1], m.levels[i], x, y) # None
<1> DEFINE lv == m.levels[i]
           g == LevelGeoref(m.georef, m.levels[1], lv)
<1>1. Level(lv) /\ Level(m.levels[1]) /\ NorthUp(m.georef)
  BY DEF Metadata
<1>2. PICK nx \in Nat, ny \in Nat : Pixels(g, nx, ny, lv.image_width, lv.image_height)
  BY <1>1, LevelPixels
<1> DEFINE a == x * lv.tile_width
           b == TileEnd(x, lv.tile_width, lv.image_width)
           p == y * lv.tile_height
           q == TileEnd(y, lv.tile_height, lv.image_height)
<1>3. /\ TileBBox(m.georef, m.levels[1], lv, x, y) =
           WorldBox(g, nx, ny, lv.image_width, lv.image_height, a, b, p, q)
      /\ a \in Nat /\ b \in Nat /\ p \in Nat /\ q \in Nat
  <2>1. a \in Nat /\ b \in Nat /\ p \in Nat /\ q \in Nat
    BY <1>1, TileRange, Zenon
  <2>2. QED
    BY <1>1, <1>2, <2>1, TileBox, Zenon
<1> HIDE DEF lv, g, a, b, p, q
<1>4. ASSUME NEW w \in Nat, NEW h \in Nat, g.origin_x \in Int, g.origin_y \in Int
      PROVE  WorldBox(g, nx, ny, w, h, a, b, p, q)
               \in Extents
  <2>1. /\ g.origin_x * w + a * nx \in Int /\ g.origin_x * w + b * nx \in Int
        /\ g.origin_y * h - p * ny \in Int /\ g.origin_y * h - q * ny \in Int
    BY <1>3, <1>4
  <2>2. QED
    BY <2>1, <1>4 DEF WorldBox, Extents, Fractions
<1>5. /\ lv.image_width \in Nat /\ lv.image_height \in Nat
      /\ g.origin_x \in Int /\ g.origin_y \in Int
  BY <1>2 DEF Pixels
<1>6. TileBBox(m.georef, m.levels[1], lv, x, y)
        \in Extents
  BY <1>3, <1>4, <1>5, Zenon
<1>7. QED
  BY <1>6, NoneAssumption, Zenon DEF lv

\* A tile meets the filter exactly when the cell of one of its pixels does.
LEMMA TileMeets ==
  ASSUME NEW m, Metadata(m), m.georef # None, NEW i \in DOMAIN m.levels,
         NEW f, Box(f),
         NEW x \in 0..(m.levels[i].tiles_x - 1), NEW y \in 0..(m.levels[i].tiles_y - 1)
  PROVE  BBoxIntersects(TileBBox(m.georef, m.levels[1], m.levels[i], x, y), f) <=>
           \E c \in 0..(m.levels[i].image_width - 1), r \in 0..(m.levels[i].image_height - 1) :
             /\ c \div m.levels[i].tile_width = x
             /\ r \div m.levels[i].tile_height = y
             /\ BBoxIntersects(Cell(LevelGeoref(m.georef, m.levels[1], m.levels[i]), c, r), f)
<1> DEFINE lv == m.levels[i]
           g == LevelGeoref(m.georef, m.levels[1], lv)
           w == lv.image_width
           h == lv.image_height
           a == x * lv.tile_width
           b == TileEnd(x, lv.tile_width, w)
           p == y * lv.tile_height
           q == TileEnd(y, lv.tile_height, h)
<1>1. Level(lv) /\ Level(m.levels[1]) /\ NorthUp(m.georef)
  BY DEF Metadata
<1>2. PICK nx \in Nat, ny \in Nat : Pixels(g, nx, ny, w, h)
  BY <1>1, LevelPixels
<1>3. /\ a \in Nat /\ b \in Nat /\ a < b /\ p \in Nat /\ q \in Nat /\ p < q
      /\ \A c \in a..(b - 1) : c \in 0..(w - 1) /\ c \div lv.tile_width = x
      /\ \A c \in 0..(w - 1) : c \div lv.tile_width = x => c \in a..(b - 1)
      /\ \A r \in p..(q - 1) : r \in 0..(h - 1) /\ r \div lv.tile_height = y
      /\ \A r \in 0..(h - 1) : r \div lv.tile_height = y => r \in p..(q - 1)
  BY <1>1, TileRange
<1>4. TileBBox(m.georef, m.levels[1], lv, x, y) = WorldBox(g, nx, ny, w, h, a, b, p, q)
  BY <1>1, <1>2, TileBox, Zenon
<1> HIDE DEF lv, g, w, h, a, b, p, q
<1>5. /\ a \in Int /\ b \in Int /\ p \in Int /\ q \in Int
      /\ a..(b - 1) \subseteq Nat /\ p..(q - 1) \subseteq Nat
  BY <1>3
<1>6. BBoxIntersects(TileBBox(m.georef, m.levels[1], lv, x, y), f) <=>
        Meets(g, nx, ny, w, h, a, b, p, q, f)
  BY <1>2, <1>4, <1>5, BoxMeets, Zenon
<1>7. ASSUME NEW c \in Nat, NEW r \in Nat
      PROVE  BBoxIntersects(Cell(g, c, r), f) <=>
               Meets(g, nx, ny, w, h, c, c + 1, r, r + 1, f)
  BY <1>2, CellMeets, Zenon
<1>8. Meets(g, nx, ny, w, h, a, b, p, q, f) <=>
        \E c \in a..(b - 1), r \in p..(q - 1) :
          Meets(g, nx, ny, w, h, c, c + 1, r, r + 1, f)
  <2> DEFINE X == g.origin_x * w
             Y == -(g.origin_y * h)
             L == f[1] * w
             R == f[3] * w
             S == -(f[4] * h)
             T == -(f[2] * h)
  <2>1. /\ X \in Int /\ Y \in Int /\ L \in Int /\ R \in Int /\ S \in Int /\ T \in Int
        /\ L <= R /\ S <= T
    BY <1>2 DEF Pixels, Box
  <2>2. \A c, d, r, t : Meets(g, nx, ny, w, h, c, d, r, t, f) <=>
          Overlaps(X, nx, L, R, c, d) /\ Overlaps(Y, ny, S, T, r, t)
    BY DEF Meets
  <2> HIDE DEF X, Y, L, R, S, T
  <2>3. /\ nx \in Nat /\ ny \in Nat
        /\ a \in Nat /\ b \in Nat /\ a < b /\ p \in Nat /\ q \in Nat /\ p < q
    BY <1>2, <1>3
  <2>4. Overlaps(X, nx, L, R, a, b) <=> \E c \in a..(b - 1) : Overlaps(X, nx, L, R, c, c + 1)
    BY <2>1, <2>3, CellsCover
  <2>5. Overlaps(Y, ny, S, T, p, q) <=> \E r \in p..(q - 1) : Overlaps(Y, ny, S, T, r, r + 1)
    BY <2>1, <2>3, CellsCover
  <2>6. QED
    BY <2>2, <2>4, <2>5
<1>9. BBoxIntersects(TileBBox(m.georef, m.levels[1], lv, x, y), f) <=>
         \E c \in 0..(w - 1), r \in 0..(h - 1) :
           /\ c \div lv.tile_width = x
           /\ r \div lv.tile_height = y
           /\ BBoxIntersects(Cell(g, c, r), f)
  BY <1>3, <1>5, <1>6, <1>7, <1>8
<1>10. QED
  BY <1>9 DEF lv, g, w, h

-----------------------------------------------------------------------------
(***************************************************************************)
(* The tiles of all levels, and the order of the loops.                      *)
(***************************************************************************)

\* What lies at a place.
LEMMA PlacesOf ==
  ASSUME NEW m, Metadata(m), NEW p
  PROVE  p \in Places(m) <=>
           \E i \in DOMAIN m.levels :
             \E x \in 0..(m.levels[i].tiles_x - 1), y \in 0..(m.levels[i].tiles_y - 1) :
               p = <<i - 1, x, y>>
<1>1. \A i \in DOMAIN m.levels : m.levels[i].level = i - 1
  BY DEF Metadata
<1>2. p \in Places(m) <=> \E i \in DOMAIN m.levels :
        p \in {i - 1} \X (0..(m.levels[i].tiles_x - 1)) \X (0..(m.levels[i].tiles_y - 1))
  BY <1>1 DEF Places
<1>3. QED
  BY <1>2

\* There are finitely many places, and keys have room for them.
LEMMA PlacesFinite ==
  ASSUME NEW m, Metadata(m)
  PROVE  /\ IsFiniteSet(Places(m))
         /\ Places(m) \subseteq Nat \X (0..MaxTileIndex) \X (0..MaxTileIndex)
<1>1. PICK n \in Nat : DOMAIN m.levels = 1..n
  BY DEF Metadata
<1> DEFINE B == MaxTileIndex
<1>2. B \in Nat /\ B + 1 = 2 ^ IndexBits
  BY CogMetaAssumption DEF MaxTileIndex
<1> HIDE DEF B
<1>3. ASSUME NEW p \in Places(m)
      PROVE  p \in (0..n) \X (0..B) \X (0..B)
  <2>1. PICK i \in DOMAIN m.levels :
          \E x \in 0..(m.levels[i].tiles_x - 1), y \in 0..(m.levels[i].tiles_y - 1) :
            p = <<i - 1, x, y>>
    BY <1>3, PlacesOf
  <2>2. PICK x \in 0..(m.levels[i].tiles_x - 1), y \in 0..(m.levels[i].tiles_y - 1) :
          p = <<i - 1, x, y>>
    BY <2>1
  <2>3. Level(m.levels[i])
    BY DEF Metadata
  <2>4. m.levels[i].tiles_x \in Nat /\ m.levels[i].tiles_y \in Nat
    BY <2>3, CeilProps DEF Level
  <2>5. x \in 0..B /\ y \in 0..B
    BY <1>2, <2>2, <2>3, <2>4 DEF Level
  <2>6. i - 1 \in 0..n
    BY <1>1
  <2>7. QED
    BY <2>2, <2>5, <2>6
<1>4. IsFiniteSet(Places(m))
  <2> DEFINE P == Places(m)
             T == ((0..n) \X (0..B)) \X (0..B)
             e == [p \in P |-> <<<<p[1], p[2]>>, p[3]>>]
  <2>1. IsFiniteSet(T)
    <3>1. IsFiniteSet(0..n) /\ IsFiniteSet(0..B)
      BY <1>2, FS_Interval
    <3>2. IsFiniteSet((0..n) \X (0..B))
      BY <3>1, FS_Product, Zenon
    <3>3. QED
      BY <3>1, <3>2, FS_Product, Zenon
  <2>2. \A p \in P : p = <<p[1], p[2], p[3]>> /\ p[1] \in 0..n /\ p[2] \in 0..B /\ p[3] \in 0..B
    BY <1>3
  <2> HIDE DEF P
  <2>3. e \in [P -> T]
    BY <2>2
  <2>4. \A p, q \in P : e[p] = e[q] => p = q
    <3> SUFFICES ASSUME NEW p \in P, NEW q \in P, e[p] = e[q] PROVE p = q
      OBVIOUS
    <3>1. p[1] = q[1] /\ p[2] = q[2] /\ p[3] = q[3]
      OBVIOUS
    <3>2. QED
      BY <2>2, <3>1
  <2> HIDE DEF e, T
  <2>5. e \in Injection(P, T)
    BY <2>3, <2>4 DEF Injection, IsInjective
  <2>6. QED
    BY <2>1, <2>5, FS_Injection DEF P
<1>5. QED
  BY <1>3, <1>4 DEF B

\* How many places of P the loops visit before p.
Rank(P, p) == Cardinality({q \in P : Visits(q, p)})

\* The order of the loops is a strict order of all places.
LEMMA VisitsOrder ==
  ASSUME NEW P, P \subseteq Nat \X Nat \X Nat
  PROVE  /\ \A p \in P : ~Visits(p, p)
         /\ \A p, q, r \in P : Visits(p, q) /\ Visits(q, r) => Visits(p, r)
         /\ \A p, q \in P : p = q \/ Visits(p, q) \/ Visits(q, p)
<1>1. \A p \in P : /\ p = <<p[1], p[2], p[3]>>
                   /\ p[1] \in Nat /\ p[2] \in Nat /\ p[3] \in Nat
  OBVIOUS
<1>2. \A p \in P : ~Visits(p, p)
  BY <1>1 DEF Visits
<1>3. \A p, q, r \in P : Visits(p, q) /\ Visits(q, r) => Visits(p, r)
  BY <1>1 DEF Visits
<1>4. ASSUME NEW p \in P, NEW q \in P, ~Visits(p, q), ~Visits(q, p)
      PROVE  p = q
  <2>1. p[1] = q[1] /\ p[2] = q[2] /\ p[3] = q[3]
    BY <1>1, <1>4 DEF Visits
  <2>2. QED
    BY <1>1, <2>1
<1>5. QED
  BY <1>2, <1>3, <1>4

\* Ranks count the places from 0 and tell them apart.
LEMMA RankProps ==
  ASSUME NEW P, P \subseteq Nat \X Nat \X Nat, IsFiniteSet(P)
  PROVE  /\ Cardinality(P) \in Nat
         /\ \A p \in P : Rank(P, p) \in 0..(Cardinality(P) - 1)
         /\ \A p, q \in P : Rank(P, p) = Rank(P, q) => p = q
<1> DEFINE below(p) == {q \in P : Visits(q, p)}
<1>1. /\ \A p \in P : ~Visits(p, p)
      /\ \A p, q, r \in P : Visits(p, q) /\ Visits(q, r) => Visits(p, r)
      /\ \A p, q \in P : p = q \/ Visits(p, q) \/ Visits(q, p)
  BY VisitsOrder
<1>2. Cardinality(P) \in Nat
  BY FS_CardinalityType
<1>3. \A p \in P : IsFiniteSet(below(p)) /\ Cardinality(below(p)) \in Nat
  BY FS_Subset, FS_CardinalityType
<1>4. ASSUME NEW p \in P, NEW T, IsFiniteSet(T), below(p) \cup {p} \subseteq T
      PROVE  Cardinality(below(p)) + 1 <= Cardinality(T)
  <2>1. p \notin below(p)
    BY <1>1
  <2>2. /\ IsFiniteSet(below(p) \cup {p})
        /\ Cardinality(below(p) \cup {p}) = Cardinality(below(p)) + 1
    BY <1>3, <2>1, FS_AddElement
  <2>3. below(p) \cup {p} \in SUBSET T
    BY <1>4
  <2>4. Cardinality(below(p) \cup {p}) <= Cardinality(T)
    BY <1>4, <2>3, FS_Subset
  <2>5. QED
    BY <2>2, <2>4, Zenon
<1>5. \A p \in P : Cardinality(below(p)) + 1 <= Cardinality(P)
  BY <1>4
<1>6. ASSUME NEW p \in P, NEW q \in P, Visits(p, q)
      PROVE  Cardinality(below(p)) + 1 <= Cardinality(below(q))
  <2>1. below(p) \cup {p} \subseteq below(q)
    BY <1>1, <1>6
  <2>2. QED
    BY <1>3, <1>4, <2>1
<1>7. \A p : Rank(P, p) = Cardinality(below(p))
  BY DEF Rank
<1> HIDE DEF below
<1>8. \A p \in P : Rank(P, p) \in 0..(Cardinality(P) - 1)
  BY <1>2, <1>3, <1>5, <1>7
<1>9. ASSUME NEW p \in P, NEW q \in P, Rank(P, p) = Rank(P, q)
      PROVE  p = q
  <2>1. ~Visits(p, q) /\ ~Visits(q, p)
    BY <1>3, <1>6, <1>7, <1>9
  <2>2. QED
    BY <1>1, <2>1
<1>10. QED
  BY <1>2, <1>8, <1>9

\* The list in the order of the loops has every place of P.
LEMMA LoopOrderProps ==
  ASSUME NEW P, P \subseteq Nat \X Nat \X Nat, IsFiniteSet(P)
  PROVE  /\ Cardinality(P) \in Nat
         /\ \A k \in 1..Cardinality(P) : InLoopOrder(P)[k] \in P
         /\ \A p \in P : \E k \in 1..Cardinality(P) : InLoopOrder(P)[k] = p
<1> DEFINE C == Cardinality(P)
           f == [p \in P |-> Rank(P, p) + 1]
           nth(k) == CHOOSE p \in P : Rank(P, p) = k - 1
<1>1. /\ C \in Nat
      /\ \A p \in P : Rank(P, p) \in 0..(C - 1)
      /\ \A p, q \in P : Rank(P, p) = Rank(P, q) => p = q
  BY RankProps
<1>2. f \in [P -> 1..C]
  BY <1>1
<1>3. \A p, q \in P : f[p] = f[q] => p = q
  <2> SUFFICES ASSUME NEW p \in P, NEW q \in P, f[p] = f[q] PROVE p = q
    OBVIOUS
  <2>1. Rank(P, p) = Rank(P, q)
    BY <1>1
  <2>2. QED
    BY <1>1, <2>1
<1>4. InLoopOrder(P) = [k \in 1..C |-> nth(k)]
  BY DEF InLoopOrder, Sorted, Rank
<1> HIDE DEF C, f
<1>5. f \in Injection(P, 1..C)
  BY <1>2, <1>3 DEF Injection, IsInjective
<1>6. IsFiniteSet(1..C) /\ Cardinality(1..C) = C
  BY <1>1, FS_Interval
<1>7. f \in Surjection(P, 1..C)
  BY <1>5, <1>6, FS_Injection DEF C
<1>8. \A k \in 1..C : nth(k) \in P /\ Rank(P, nth(k)) = k - 1
  <2> SUFFICES ASSUME NEW k \in 1..C PROVE nth(k) \in P /\ Rank(P, nth(k)) = k - 1
    OBVIOUS
  <2>1. \E p \in P : f[p] = k
    BY <1>7 DEF Surjection
  <2>2. \E p \in P : Rank(P, p) = k - 1
    BY <1>1, <2>1 DEF f
  <2>3. QED
    BY <2>2
<1> HIDE DEF nth
<1>9. ASSUME NEW p \in P
      PROVE  \E k \in 1..C : nth(k) = p
  <2>1. Rank(P, p) + 1 \in 1..C /\ (Rank(P, p) + 1) - 1 = Rank(P, p)
    BY <1>1
  <2>2. nth(Rank(P, p) + 1) = p
    BY <1>1, <1>8, <2>1
  <2>3. QED
    BY <2>1, <2>2
<1>10. QED
  BY <1>1, <1>4, <1>8, <1>9 DEF C

-----------------------------------------------------------------------------
(***************************************************************************)
(* The rows that bind fixes.                                                 *)
(***************************************************************************)

\* The places of the tiles that bind keeps.
Kept(m) == IF filter = None THEN Places(m) ELSE Meeting(m, filter)

\* unpack_tile_key undoes pack_tile_key.
LEMMA KeyRoundTrip ==
  ASSUME NEW l \in Nat, NEW x \in 0..MaxTileIndex, NEW y \in 0..MaxTileIndex
  PROVE  UnpackTileKey(PackTileKey(l, x, y)) = <<l, x, y>>
<1> DEFINE B == 2 ^ IndexBits
           key == l * (B * B) + x * B + y
<1>1. MaxTileIndex = B - 1 /\ B \in Nat \ {0} /\ 2 ^ (2 * IndexBits) = B * B
  BY CogMetaAssumption DEF MaxTileIndex
<1> HIDE DEF B
<1>2. x \in 0..(B - 1) /\ y \in 0..(B - 1) /\ ~(x > MaxTileIndex \/ y > MaxTileIndex)
  BY <1>1
<1>3. PackTileKey(l, x, y) = key
  BY <1>1, <1>2 DEF PackTileKey, B
<1>4. B \in Nat \ {0}
  BY <1>1
<1>5. Packs(key, B, l, x, y)
  BY DEF Packs
<1> HIDE DEF key
<1>6. GivesBack(key, B, l, x, y)
  BY <1>2, <1>4, <1>5, Unpacked, Zenon
<1>7. UnpackTileKey(key) = <<key \div (B * B), (key \div B) % B, key % B>>
  BY <1>1 DEF UnpackTileKey, B
<1>8. QED
  BY <1>3, <1>6, <1>7 DEF GivesBack

\* What a row says of its place.
LEMMA RowProps ==
  ASSUME NEW m, Metadata(m), NEW p \in Places(m)
  PROVE  /\ Place(TileRow(m, p)) = p
         /\ UnpackTileKey(TileRow(m, p).id) = p
<1>1. p \in Nat \X (0..MaxTileIndex) \X (0..MaxTileIndex)
  BY PlacesFinite
<1>2. /\ p = <<p[1], p[2], p[3]>>
      /\ p[1] \in Nat /\ p[2] \in 0..MaxTileIndex /\ p[3] \in 0..MaxTileIndex
  BY <1>1
<1>3. /\ TileRow(m, p).id = PackTileKey(p[1], p[2], p[3])
      /\ TileRow(m, p).level = p[1] /\ TileRow(m, p).tile_x = p[2] /\ TileRow(m, p).tile_y = p[3]
  BY DEF TileRow
<1>4. Place(TileRow(m, p)) = p
  BY <1>2, <1>3 DEF Place
<1>5. UnpackTileKey(PackTileKey(p[1], p[2], p[3])) = <<p[1], p[2], p[3]>>
  BY <1>2, KeyRoundTrip
<1>6. QED
  BY <1>2, <1>3, <1>4, <1>5

\* The bbox of the row of a tile.
LEMMA RowBox ==
  ASSUME NEW m, m.georef # None, NEW i \in Int, NEW x, NEW y
  PROVE  TileRow(m, <<i - 1, x, y>>).bbox =
           TileBBox(m.georef, m.levels[1], m.levels[i], x, y)
<1>1. (i - 1) + 1 = i
  OBVIOUS
<1>2. QED
  BY <1>1 DEF TileRow

\* What lies at a wanted place.
LEMMA WantedOf ==
  ASSUME NEW m, Metadata(m), NEW p
  PROVE  p \in Wanted(m) <=>
           \E i \in DOMAIN m.levels :
             \E c \in 0..(m.levels[i].image_width - 1), r \in 0..(m.levels[i].image_height - 1) :
               /\ p = <<i - 1, c \div m.levels[i].tile_width, r \div m.levels[i].tile_height>>
               /\ \/ filter = None
                  \/ BBoxIntersects(Cell(LevelGeoref(m.georef, m.levels[1], m.levels[i]), c, r),
                                    filter)
<1> DEFINE cols(i) == 0..(m.levels[i].image_width - 1)
           lines(i) == 0..(m.levels[i].image_height - 1)
           place(i, c, r) == <<i - 1, c \div m.levels[i].tile_width, r \div m.levels[i].tile_height>>
           touches(i, c, r) ==
             \/ filter = None
             \/ BBoxIntersects(Cell(LevelGeoref(m.georef, m.levels[1], m.levels[i]), c, r), filter)
           places(i) == {place(i, cr[1], cr[2]) :
                           cr \in {cr \in cols(i) \X lines(i) : touches(i, cr[1], cr[2])}}
<1>1. \A i \in DOMAIN m.levels : m.levels[i].level = i - 1
  BY DEF Metadata
<1>2. p \in Wanted(m) <=> \E i \in DOMAIN m.levels : p \in places(i)
  BY <1>1 DEF Wanted
<1> HIDE DEF cols, lines, place, touches
<1>3. ASSUME NEW i \in DOMAIN m.levels
      PROVE  p \in places(i) <=>
               \E c \in cols(i), r \in lines(i) : p = place(i, c, r) /\ touches(i, c, r)
  <2>1. ASSUME NEW cr \in cols(i) \X lines(i)
        PROVE  cr[1] \in cols(i) /\ cr[2] \in lines(i)
    OBVIOUS
  <2>2. ASSUME NEW c \in cols(i), NEW r \in lines(i)
        PROVE  <<c, r>> \in cols(i) \X lines(i) /\ <<c, r>>[1] = c /\ <<c, r>>[2] = r
    OBVIOUS
  <2>3. ASSUME p \in places(i)
        PROVE  \E c \in cols(i), r \in lines(i) : p = place(i, c, r) /\ touches(i, c, r)
    <3>1. PICK cr \in cols(i) \X lines(i) :
            p = place(i, cr[1], cr[2]) /\ touches(i, cr[1], cr[2])
      BY <2>3
    <3>2. QED
      BY <2>1, <3>1
  <2>4. ASSUME NEW c \in cols(i), NEW r \in lines(i), p = place(i, c, r), touches(i, c, r)
        PROVE  p \in places(i)
    <3>1. <<c, r>> \in {cr \in cols(i) \X lines(i) : touches(i, cr[1], cr[2])}
      BY <2>2, <2>4
    <3>2. place(i, <<c, r>>[1], <<c, r>>[2]) = p
      BY <2>2, <2>4
    <3>3. QED
      BY <3>1, <3>2
  <2>5. QED
    BY <2>3, <2>4
<1> HIDE DEF places
<1>4. p \in Wanted(m) <=> \E i \in DOMAIN m.levels :
        \E c \in cols(i), r \in lines(i) : p = place(i, c, r) /\ touches(i, c, r)
  BY <1>2, <1>3
<1>5. QED
  BY <1>4 DEF cols, lines, place, touches

\* bind keeps exactly the tiles that hold a wanted pixel.
LEMMA KeptWanted ==
  ASSUME NEW m, Metadata(m), filter # None => m.georef # None /\ Box(filter)
  PROVE  Kept(m) = Wanted(m)
<1>1. PICK n \in Nat : DOMAIN m.levels = 1..n
  BY DEF Metadata
<1>2. ASSUME NEW i \in DOMAIN m.levels
      PROVE  i \in Int /\ Level(m.levels[i])
  BY <1>1 DEF Metadata
<1> DEFINE quotients(i, c, r, x, y) == /\ c \div m.levels[i].tile_width = x
                                       /\ r \div m.levels[i].tile_height = y
           cols(i) == 0..(m.levels[i].image_width - 1)
           lines(i) == 0..(m.levels[i].image_height - 1)
           xs(i) == 0..(m.levels[i].tiles_x - 1)
           ys(i) == 0..(m.levels[i].tiles_y - 1)
           touches(i, c, r) ==
             BBoxIntersects(Cell(LevelGeoref(m.georef, m.levels[1], m.levels[i]), c, r), filter)
<1>3. \A p : p \in Wanted(m) <=>
        \E i \in DOMAIN m.levels : \E c \in cols(i), r \in lines(i) :
          /\ p = <<i - 1, c \div m.levels[i].tile_width, r \div m.levels[i].tile_height>>
          /\ filter = None \/ touches(i, c, r)
  BY WantedOf
<1>4. \A p : p \in Places(m) <=>
        \E i \in DOMAIN m.levels : \E x \in xs(i), y \in ys(i) : p = <<i - 1, x, y>>
  BY PlacesOf
<1>5. ASSUME NEW i \in DOMAIN m.levels, NEW c \in cols(i), NEW r \in lines(i)
      PROVE  \E x \in xs(i), y \in ys(i) : quotients(i, c, r, x, y)
  <2>1. /\ m.levels[i].tile_width \in Nat \ {0} /\ m.levels[i].image_width \in Nat \ {0}
        /\ m.levels[i].tile_height \in Nat \ {0} /\ m.levels[i].image_height \in Nat \ {0}
        /\ m.levels[i].tiles_x = CeilDiv(m.levels[i].image_width, m.levels[i].tile_width)
        /\ m.levels[i].tiles_y = CeilDiv(m.levels[i].image_height, m.levels[i].tile_height)
    BY <1>2 DEF Level
  <2>2. /\ c \div m.levels[i].tile_width \in xs(i)
        /\ r \div m.levels[i].tile_height \in ys(i)
    BY <2>1, PixelTile
  <2>3. QED
    BY <2>2
<1>6. ASSUME NEW i \in DOMAIN m.levels, NEW x \in xs(i), NEW y \in ys(i)
      PROVE  \E c \in cols(i), r \in lines(i) : quotients(i, c, r, x, y)
  <2> DEFINE lv == m.levels[i]
             a == x * lv.tile_width
             b == TileEnd(x, lv.tile_width, lv.image_width)
             p == y * lv.tile_height
             q == TileEnd(y, lv.tile_height, lv.image_height)
  <2>1. /\ a \in Nat /\ b \in Nat /\ a < b /\ p \in Nat /\ q \in Nat /\ p < q
        /\ \A c \in a..(b - 1) : c \in cols(i) /\ c \div lv.tile_width = x
        /\ \A r \in p..(q - 1) : r \in lines(i) /\ r \div lv.tile_height = y
    BY <1>2, TileRange
  <2> HIDE DEF a, b, p, q, cols, lines
  <2>2. a \in a..(b - 1) /\ p \in p..(q - 1)
    BY <2>1
  <2>3. QED
    BY <2>1, <2>2
<1>7. ASSUME NEW i \in DOMAIN m.levels, NEW x \in xs(i), NEW y \in ys(i), filter # None
      PROVE  <<i - 1, x, y>> \in Meeting(m, filter) <=>
               \E c \in cols(i), r \in lines(i) : quotients(i, c, r, x, y) /\ touches(i, c, r)
  <2> DEFINE box == TileBBox(m.georef, m.levels[1], m.levels[i], x, y)
  <2>1. m.georef # None /\ Box(filter) /\ i \in Int
    BY <1>2, <1>7
  <2>2. TileRow(m, <<i - 1, x, y>>).bbox = box
    BY <2>1, RowBox
  <2>3. box # None
    BY <2>1, TileBoxSome
  <2>4. <<i - 1, x, y>> \in Places(m)
    BY <1>4
  <2>5. BBoxIntersects(box, filter) <=>
          \E c \in cols(i), r \in lines(i) : quotients(i, c, r, x, y) /\ touches(i, c, r)
    BY <2>1, TileMeets
  <2> HIDE DEF box, quotients, touches
  <2>6. <<i - 1, x, y>> \in Meeting(m, filter) <=> BBoxIntersects(box, filter)
    BY <2>2, <2>3, <2>4 DEF Meeting
  <2>7. QED
    BY <2>5, <2>6
<1> HIDE DEF cols, lines, xs, ys, touches
<1>8. CASE filter = None
  <2>1. Kept(m) = Places(m)
    BY <1>8 DEF Kept
  <2>2. ASSUME NEW p \in Places(m) PROVE p \in Wanted(m)
    <3>1. PICK i \in DOMAIN m.levels : \E x \in xs(i), y \in ys(i) : p = <<i - 1, x, y>>
      BY <1>4, <2>2
    <3>2. PICK x \in xs(i), y \in ys(i) : p = <<i - 1, x, y>>
      BY <3>1
    <3>3. PICK c \in cols(i), r \in lines(i) : quotients(i, c, r, x, y)
      BY <1>6
    <3>4. QED
      BY <1>3, <1>8, <3>2, <3>3
  <2>3. ASSUME NEW p \in Wanted(m) PROVE p \in Places(m)
    <3>1. PICK i \in DOMAIN m.levels : \E c \in cols(i), r \in lines(i) :
            p = <<i - 1, c \div m.levels[i].tile_width, r \div m.levels[i].tile_height>>
      BY <1>3, <2>3
    <3>2. PICK c \in cols(i), r \in lines(i) :
            p = <<i - 1, c \div m.levels[i].tile_width, r \div m.levels[i].tile_height>>
      BY <3>1
    <3>3. PICK x \in xs(i), y \in ys(i) : quotients(i, c, r, x, y)
      BY <1>5
    <3>4. QED
      BY <1>4, <3>2, <3>3
  <2>4. QED
    BY <2>1, <2>2, <2>3
<1>9. CASE filter # None
  <2>1. Kept(m) = Meeting(m, filter) /\ Kept(m) \subseteq Places(m)
    BY <1>9 DEF Kept, Meeting
  <2>2. ASSUME NEW p \in Kept(m) PROVE p \in Wanted(m)
    <3>1. PICK i \in DOMAIN m.levels : \E x \in xs(i), y \in ys(i) : p = <<i - 1, x, y>>
      BY <1>4, <2>1, <2>2
    <3>2. PICK x \in xs(i), y \in ys(i) : p = <<i - 1, x, y>>
      BY <3>1
    <3>3. PICK c \in cols(i), r \in lines(i) : quotients(i, c, r, x, y) /\ touches(i, c, r)
      BY <1>7, <1>9, <2>1, <2>2, <3>2
    <3>4. QED
      BY <1>3, <3>2, <3>3
  <2>3. ASSUME NEW p \in Wanted(m) PROVE p \in Kept(m)
    <3>1. PICK i \in DOMAIN m.levels : \E c \in cols(i), r \in lines(i) :
            /\ p = <<i - 1, c \div m.levels[i].tile_width, r \div m.levels[i].tile_height>>
            /\ filter = None \/ touches(i, c, r)
      BY <1>3, <2>3
    <3>2. PICK c \in cols(i), r \in lines(i) :
            /\ p = <<i - 1, c \div m.levels[i].tile_width, r \div m.levels[i].tile_height>>
            /\ filter = None \/ touches(i, c, r)
      BY <3>1
    <3>3. PICK x \in xs(i), y \in ys(i) : quotients(i, c, r, x, y)
      BY <1>5
    <3>4. p = <<i - 1, x, y>>
      BY <3>2, <3>3
    <3>5. QED
      BY <1>7, <1>9, <2>1, <3>2, <3>3, <3>4
  <2>4. QED
    BY <2>2, <2>3
<1>10. QED
  BY <1>8, <1>9

\* The rows of a set of places: one for each of them.
LEMMA RowsOf ==
  ASSUME NEW m, Metadata(m), NEW P, P \subseteq Places(m)
  PROVE  /\ IsFiniteSet(P) /\ Cardinality(P) \in Nat
         /\ EnumerateTiles(m, P) \in Seq({TileRow(m, p) : p \in P})
         /\ Len(EnumerateTiles(m, P)) = Cardinality(P)
         /\ \A p \in P : \E k \in 1..Cardinality(P) : EnumerateTiles(m, P)[k] = TileRow(m, p)
<1>1. IsFiniteSet(Places(m)) /\ Places(m) \subseteq Nat \X Nat \X Nat
  <2>1. MaxTileIndex \in Nat
    BY CogMetaAssumption DEF MaxTileIndex
  <2>2. QED
    BY <2>1, PlacesFinite
<1>2. IsFiniteSet(P) /\ P \subseteq Nat \X Nat \X Nat
  BY <1>1, FS_Subset
<1>3. /\ Cardinality(P) \in Nat
      /\ \A k \in 1..Cardinality(P) : InLoopOrder(P)[k] \in P
      /\ \A p \in P : \E k \in 1..Cardinality(P) : InLoopOrder(P)[k] = p
  BY <1>2, LoopOrderProps
<1> DEFINE C == Cardinality(P)
           s == EnumerateTiles(m, P)
<1>4. s = [k \in 1..C |-> TileRow(m, InLoopOrder(P)[k])]
  BY DEF EnumerateTiles
<1> HIDE DEF C, s
<1>5. C \in Nat /\ \A k \in 1..C : InLoopOrder(P)[k] \in P
  BY <1>3 DEF C
<1>6. s \in [1..C -> {TileRow(m, p) : p \in P}]
  BY <1>4, <1>5
<1>7. s \in Seq({TileRow(m, p) : p \in P}) /\ Len(s) = C
  BY <1>5, <1>6
<1>8. \A p \in P : \E k \in 1..C : s[k] = TileRow(m, p)
  BY <1>3, <1>4 DEF C
<1>9. QED
  BY <1>2, <1>3, <1>7, <1>8 DEF C, s

\* What bind has fixed once the scan may begin.
BoundOK ==
  LET meta == BuildMeta(ifds) IN
    /\ Metadata(meta)
    /\ filter # None => meta.georef # None /\ Box(filter)
    /\ tiles = EnumerateTiles(meta, Kept(meta))
    /\ rows = Len(tiles)

\* A filter that bind accepts is a proper box.
LEMMA FilterBox ==
  ASSUME NEW f \in Filters, f # None, Len(f) = 4, ValidBox(f)
  PROVE  Box(f)
<1>1. f \in Seq(Int \cup {NonFinite})
  BY ReadCogAssumption
<1>2. \A k \in 1..4 : f[k] \in Int \cup {NonFinite} /\ f[k] # NonFinite
  BY <1>1 DEF ValidBox
<1>3. f[1] \in Int /\ f[2] \in Int /\ f[3] \in Int /\ f[4] \in Int
  BY <1>2
<1>4. QED
  BY <1>3 DEF ValidBox, Box

\* bind fails, or fixes the rows of the tiles that it keeps.
LEMMA BindBinds ==
  ASSUME ifds \in Files, filter \in Filters, Bind
  PROVE  \/ BindFails
         \/ LET meta == BuildMeta(ifds) IN
              /\ Metadata(meta)
              /\ filter # None => meta.georef # None /\ Box(filter)
              /\ BindRows(EnumerateTiles(meta, Kept(meta)))
<1> DEFINE meta == BuildMeta(ifds)
           result == EnumerateTilesFiltered(meta, filter)
<1>1. \/ BindFails
      \/ /\ filter # None => Len(filter) = 4
         /\ "err" \notin DOMAIN meta /\ "err" \notin DOMAIN result
         /\ BindRows(result.tiles)
  BY DEF Bind
<1> SUFFICES ASSUME filter # None => Len(filter) = 4,
                    "err" \notin DOMAIN meta, "err" \notin DOMAIN result,
                    BindRows(result.tiles)
             PROVE  /\ Metadata(meta)
                    /\ filter # None => meta.georef # None /\ Box(filter)
                    /\ BindRows(EnumerateTiles(meta, Kept(meta)))
  BY <1>1
<1>2. Metadata(meta)
  BY ReadCogAssumption, MetadataProps
<1> HIDE DEF meta
<1>3. CASE filter = None
  <2>1. result = [tiles |-> EnumerateTiles(meta, Places(meta))]
    BY <1>3 DEF EnumerateTilesFiltered
  <2>2. result.tiles = EnumerateTiles(meta, Kept(meta))
    BY <1>3, <2>1 DEF Kept
  <2> HIDE DEF result
  <2>3. QED
    BY <1>2, <1>3, <2>2
<1>4. CASE filter # None
  <2>1. ValidBox(filter) /\ meta.georef # None
    BY <1>4 DEF EnumerateTilesFiltered
  <2>2. result = [tiles |-> EnumerateTiles(meta, Meeting(meta, filter))]
    BY <1>4, <2>1 DEF EnumerateTilesFiltered
  <2>3. result.tiles = EnumerateTiles(meta, Kept(meta))
    BY <1>4, <2>2 DEF Kept
  <2>4. Box(filter)
    BY <1>4, <2>1, FilterBox
  <2> HIDE DEF result
  <2>5. QED
    BY <1>2, <2>1, <2>3, <2>4
<1>5. QED
  BY <1>3, <1>4

-----------------------------------------------------------------------------
(***************************************************************************)
(* read_cog from bind to the end of the scan.                                *)
(***************************************************************************)

\* The tiles at the positions that some batch has carried.
Carried == {tiles[r + 1] : r \in {r \in 0 .. rows - 1 : times[r] >= 1}}

\* The scan has not started.
Idle ==
  /\ rows = 0 /\ cursor = 0
  /\ ended = FALSE
  /\ times = [r \in {} |-> 0]

\* Before bind has succeeded no scan runs; afterwards the rows are those of
\* the kept tiles, the scan accounts for them, and what was emitted is what the
\* counted positions name.
CogInv ==
  /\ ifds \in Files /\ filter \in Filters
  /\ phase \in {"bind", "scan", "err"}
  /\ phase = "scan" => BoundOK
  /\ phase # "scan" => Idle
  /\ ScanInv
  /\ emitted = Carried

\* An idle scan with some number of rows satisfies the invariant of the scan.
LEMMA IdleScan ==
  ASSUME rows \in Nat, cursor = 0, ended = FALSE,
         times = [r \in 0 .. rows - 1 |-> 0]
  PROVE  ScanInv /\ Carried = {}
<1>1. times \in [0 .. rows - 1 -> Nat] /\ \A r \in 0 .. rows - 1 : times[r] = 0
  OBVIOUS
<1>2. \A r \in 0 .. rows - 1 : ~(r < 0)
  OBVIOUS
<1>3. ScanInv
  BY <1>1, <1>2 DEF ScanInv
<1>4. QED
  BY <1>1, <1>3 DEF Carried

\* It holds when the table function is called.
LEMMA CogStarts == CogInit => CogInv
<1> SUFFICES ASSUME CogInit PROVE CogInv
  OBVIOUS
<1>1. Idle /\ rows \in Nat /\ 0 .. rows - 1 = {}
  BY DEF CogInit, Idle
<1>2. ScanInv /\ Carried = {}
  BY <1>1, IdleScan DEF Idle
<1>3. QED
  BY <1>1, <1>2 DEF CogInit, CogInv

\* bind keeps it: the rows are fixed and the scan may begin.
LEMMA BindKeeps ==
  ASSUME CogInv, Bind
  PROVE  CogInv'
<1>1. phase = "bind" /\ Idle /\ ifds \in Files /\ filter \in Filters /\ emitted = Carried
  BY DEF Bind, CogInv
<1>2. CASE BindFails
  <2>1. UNCHANGED <<ifds, filter, tiles, emitted, rows, cursor, ended, times>>
        /\ phase' = "err"
    BY <1>2 DEF BindFails, vars
  <2>2. ScanInv' /\ Idle' /\ Carried' = Carried
    BY <2>1, <1>1 DEF CogInv, ScanInv, Idle, Carried
  <2>3. QED
    BY <1>1, <2>1, <2>2 DEF CogInv
<1> DEFINE m == BuildMeta(ifds)
           ts == EnumerateTiles(m, Kept(m))
<1>3. ASSUME Metadata(m), filter # None => m.georef # None /\ Box(filter), BindRows(ts)
      PROVE  CogInv'
  <2>1. /\ phase' = "scan" /\ tiles' = ts /\ rows' = Len(ts)
        /\ times' = [r \in 0 .. rows' - 1 |-> 0]
        /\ UNCHANGED <<ifds, filter, emitted, cursor, ended>>
    BY <1>3 DEF BindRows
  <2>2. Kept(m) \subseteq Places(m)
    BY DEF Kept, Meeting
  <2>3. Len(ts) \in Nat
    <3> HIDE DEF m
    <3>1. Cardinality(Kept(m)) \in Nat /\ Len(ts) = Cardinality(Kept(m))
      BY <1>3, <2>2, RowsOf
    <3>2. QED
      BY <3>1
  <2>4. emitted = {}
    BY <1>1 DEF Idle, Carried
  <2>5. ScanInv' /\ Carried' = {}
    <3>1. rows' \in Nat /\ cursor' = 0 /\ ended' = FALSE
      BY <1>1, <2>1, <2>3 DEF Idle
    <3>2. times' \in [0 .. rows' - 1 -> Nat] /\ \A r \in 0 .. rows' - 1 : times'[r] = 0
      BY <2>1
    <3>3. \A r \in 0 .. rows' - 1 : ~(r < 0)
      BY <3>1
    <3>4. ScanInv'
      BY <3>1, <3>2, <3>3 DEF ScanInv
    <3>5. QED
      BY <3>2, <3>4 DEF Carried
  <2>6. BoundOK'
    <3>1. m' = m
      BY <2>1
    <3>2. Kept(m)' = Kept(m)
      BY <2>1 DEF Kept
    <3>3. QED
      BY <1>3, <2>1, <3>1, <3>2 DEF BoundOK
  <2>7. QED
    BY <1>1, <2>1, <2>4, <2>5, <2>6 DEF CogInv
<1>4. QED
  BY <1>1, <1>2, <1>3, BindBinds

\* Every step of the scan keeps it.
LEMMA ScanKeeps ==
  ASSUME CogInv, Scan
  PROVE  CogInv'
<1>1. /\ phase = "scan" /\ BoundOK /\ ScanInv /\ emitted = Carried
      /\ UNCHANGED <<ifds, filter, phase, tiles>>
  BY DEF Scan, CogInv, bound
<1>2. ScanInv' /\ rows' = rows
  BY <1>1, ScanStep, RowsFixed DEF Scan, Next
<1>3. BoundOK'
  BY <1>1, <1>2 DEF BoundOK, Kept
<1>4. emitted' = Carried'
  <2>1. CASE Exhausted
    <3>1. times' = times /\ emitted' = emitted
      BY <2>1 DEF Scan, Exhausted, Emit
    <3>2. QED
      BY <1>1, <1>2, <3>1 DEF Carried
  <2>2. CASE Emit
    <3>1. /\ emitted' = emitted \cup {tiles[r + 1] : r \in Batch}
          /\ times' = [r \in DOMAIN times |-> times[r] + (IF r \in Batch THEN 1 ELSE 0)]
      BY <2>2 DEF Scan, Exhausted, Emit
    <3>2. DOMAIN times = 0 .. rows - 1 /\ \A r \in 0 .. rows - 1 : times[r] \in Nat
      BY <1>1 DEF ScanInv
    <3>3. Batch \subseteq 0 .. rows - 1
      BY <1>1, TableScanAssumption DEF ScanInv, Batch, Least
    <3>4. {r \in 0 .. rows - 1 : times'[r] >= 1} =
            {r \in 0 .. rows - 1 : times[r] >= 1} \cup Batch
      <4>1. \A r \in 0 .. rows - 1 : times'[r] = times[r] + (IF r \in Batch THEN 1 ELSE 0)
        BY <3>1, <3>2
      <4>2. \A r \in 0 .. rows - 1 : times'[r] >= 1 <=> times[r] >= 1 \/ r \in Batch
        BY <3>2, <4>1
      <4>3. QED
        BY <3>3, <4>2
    <3>5. QED
      BY <1>1, <1>2, <3>1, <3>4 DEF Carried
  <2>3. QED
    BY <2>1, <2>2 DEF Scan
<1>5. QED
  BY <1>1, <1>2, <1>3, <1>4 DEF CogInv

\* The invariant holds throughout.
LEMMA CogInvariant == CogSpec => []CogInv
<1>1. CogInv /\ [CogNext]_<<bound, emitted, vars>> => CogInv'
  <2> SUFFICES ASSUME CogInv, [CogNext]_<<bound, emitted, vars>> PROVE CogInv'
    OBVIOUS
  <2>1. CASE UNCHANGED <<bound, emitted, vars>>
    <3>1. UNCHANGED <<ifds, filter, phase, tiles, emitted, rows, cursor, ended, times>>
      BY <2>1 DEF bound, vars
    <3>2. ScanInv'
      BY <3>1 DEF CogInv, ScanInv
    <3>3. BoundOK' <=> BoundOK
      BY <3>1 DEF BoundOK, Kept
    <3>4. (Idle' <=> Idle) /\ Carried' = Carried
      BY <3>1 DEF Idle, Carried
    <3>5. QED
      BY <3>1, <3>2, <3>3, <3>4 DEF CogInv
  <2>2. QED
    BY <2>1, BindKeeps, ScanKeeps DEF CogNext, CogEnds
<1>2. QED
  BY <1>1, CogStarts, PTL DEF CogSpec

\* A finished scan has emitted the rows of the kept tiles.
LEMMA AllCarried ==
  ASSUME CogInv, ended
  PROVE  LET m == BuildMeta(ifds) IN
           /\ emitted = {TileRow(m, p) : p \in Kept(m)}
           /\ Len(tiles) = Cardinality(Kept(m))
<1> DEFINE m == BuildMeta(ifds)
           P == Kept(m)
           T == {TileRow(m, p) : p \in P}
<1>1. Metadata(m) /\ tiles = EnumerateTiles(m, P) /\ rows = Len(tiles)
  BY DEF CogInv, BoundOK, Idle
<1>2. P \subseteq Places(m)
  BY DEF Kept, Meeting
<1> HIDE DEF m, P
<1>3. /\ Cardinality(P) \in Nat
      /\ tiles \in Seq(T) /\ Len(tiles) = Cardinality(P)
      /\ \A p \in P : \E k \in 1..Cardinality(P) : tiles[k] = TileRow(m, p)
  BY <1>1, <1>2, RowsOf
<1>4. \A r \in 0 .. rows - 1 : times[r] = 1
  BY ScanEnds DEF CogInv, ScanComplete
<1>5. emitted = {tiles[r + 1] : r \in 0 .. rows - 1}
  <2>1. {r \in 0 .. rows - 1 : times[r] >= 1} = 0 .. rows - 1
    BY <1>4
  <2>2. QED
    BY <2>1 DEF CogInv, Carried
<1> DEFINE C == Cardinality(P)
<1>6. C \in Nat /\ rows = C /\ Len(tiles) = C /\ tiles \in [1..C -> T]
  <2>1. rows = C /\ Len(tiles) = C /\ C \in Nat
    BY <1>1, <1>3
  <2> HIDE DEF C, T
  <2>2. QED
    BY <2>1, <1>3
<1>7. ASSUME NEW t \in emitted PROVE t \in T
  <2>1. PICK r \in 0 .. rows - 1 : t = tiles[r + 1]
    BY <1>5, <1>7
  <2> HIDE DEF C, T
  <2>2. r + 1 \in 1..C
    BY <1>6
  <2>3. QED
    BY <1>6, <2>1, <2>2
<1>8. ASSUME NEW p \in P PROVE TileRow(m, p) \in emitted
  <2>1. PICK k \in 1..C : tiles[k] = TileRow(m, p)
    BY <1>3
  <2> HIDE DEF C
  <2>2. k - 1 \in 0 .. rows - 1 /\ (k - 1) + 1 = k
    BY <1>6
  <2>3. QED
    BY <1>5, <2>1, <2>2
<1>9. QED
  BY <1>6, <1>7, <1>8 DEF m, P

\* Rows of distinct tiles are distinct.
LEMMA RowsDistinct ==
  ASSUME NEW m, Metadata(m), NEW P, P \subseteq Places(m)
  PROVE  Cardinality({TileRow(m, p) : p \in P}) = Cardinality(P)
<1> DEFINE T == {TileRow(m, p) : p \in P}
           f == [p \in P |-> TileRow(m, p)]
<1>1. IsFiniteSet(P)
  BY RowsOf
<1>2. \A p \in P : Place(TileRow(m, p)) = p
  BY RowProps
<1>3. f \in [P -> T] /\ \A t \in T : \E p \in P : f[p] = t
  OBVIOUS
<1>4. \A p, q \in P : f[p] = f[q] => p = q
  BY <1>2
<1> HIDE DEF T, f
<1>5. f \in Surjection(P, T)
  BY <1>3 DEF Surjection
<1>6. f \in Injection(P, T)
  BY <1>3, <1>4 DEF Injection, IsInjective
<1>7. f \in Bijection(P, T)
  BY <1>5, <1>6 DEF Bijection
<1>8. QED
  BY <1>1, <1>5, <1>6, <1>7, FS_Bijection DEF T, ExistsBijection

\* read_cog lists no row twice and loses none, whatever bind decided.
THEOREM CogRowsOnce == CogSpec => []ScanComplete
<1>1. CogInv => ScanComplete
  BY ScanEnds DEF CogInv
<1>2. QED
  BY <1>1, CogInvariant, PTL

\* For every file and filter: a scan of read_cog that ends has emitted exactly
\* the tiles with a pixel whose cell meets the filter, each once and under an
\* id that unpacks to its place.
THEOREM PruningSafe == CogSpec => []PruningExact
<1>1. CogInv => PruningExact
  <2> SUFFICES ASSUME CogInv, ended
               PROVE  /\ {Place(t) : t \in emitted} = Wanted(BuildMeta(ifds))
                      /\ \A t \in emitted : UnpackTileKey(t.id) = Place(t)
                      /\ Len(tiles) = Cardinality(emitted)
    BY DEF PruningExact
  <2> DEFINE m == BuildMeta(ifds)
             P == Kept(m)
  <2>1. Metadata(m) /\ (filter # None => m.georef # None /\ Box(filter))
    BY DEF CogInv, BoundOK, Idle
  <2>2. P \subseteq Places(m)
    BY DEF Kept, Meeting
  <2>3. emitted = {TileRow(m, p) : p \in P} /\ Len(tiles) = Cardinality(P)
    BY AllCarried
  <2> HIDE DEF m
  <2>4. P = Wanted(m)
    BY <2>1, KeptWanted
  <2> HIDE DEF P
  <2>5. \A p \in P : Place(TileRow(m, p)) = p /\ UnpackTileKey(TileRow(m, p).id) = p
    BY <2>1, <2>2, RowProps
  <2>6. {Place(t) : t \in emitted} = P
    BY <2>3, <2>5
  <2>7. \A t \in emitted : UnpackTileKey(t.id) = Place(t)
    BY <2>3, <2>5
  <2>8. Cardinality(emitted) = Cardinality(P)
    BY <2>1, <2>2, <2>3, RowsDistinct
  <2>9. QED
    BY <2>3, <2>4, <2>6, <2>7, <2>8 DEF m
<1>2. QED
  BY <1>1, CogInvariant, PTL

=============================================================================
