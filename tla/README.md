# duckdb-cog: TLA+ models and proofs

duckdb-cog is a DuckDB extension (and a browser module) that reads Cloud
Optimized GeoTIFFs by HTTP range requests: tile listings, pixel values, zonal
statistics, and STAC catalogues. Source paths below are relative to the
repository root.

## Inventory

| Part | State | Operations | Hard behaviour |
| -- | -- | -- | -- |
| Tile cache (`crates/engine/src/tile_cache.rs`) | one process-wide map key -> Ready/Pending slot, bytes used, LRU tick, counters | `claim`, `fulfill`, `abort`, `stats`, `register` | threads wait on other calls' fetches; flags are set after unlocking; failures in the middle of a batch; eviction while others wait; wasm build fetches twice instead of waiting |
| Tile fetching (`pixel.rs`, `fetch_decoded` and its callers) | per call: keys, output slots, missed positions | claim all, await one merged fetch, decode and settle each | holds claimed keys while it waits for others; positions of misses against positions of keys; different callers list tiles in different orders |
| Chunk executor (`src/rs_meta.rs`, `run_rows`, `open_paths`) | futures of the rows of one chunk, driven by one `block_on` | poll, collect in order, first error wins | a future that blocks its thread stops its siblings |
| Reader cache (`cache.rs`, `open_cog_cached_async` in `src/lib.rs`) | map path -> (reader, insertion time), TTL, capacity | `get_or_open` | lock not held while opening: duplicate opens, overtaking; remote objects change under cached readers |
| STAC search (`src/stac_search.rs`, `stac.rs`) | rows collected, next request | request a page, apply the row cap, follow the next link | servers that never stop, empty pages, link bodies and merges, boundary of the cap |
| Byte sources (`source.rs`, `FileSource` and `ObjectStoreSource` in `src/lib.rs`) | none (the clamp contract) | `fetch(range)`, `fetch_all` | unknown length, boundary lengths, replacement between requests |
| Table-function scan (`read_cog`, `read_stac`, `read_stac_search`) | rows fixed by `bind`, cursor | `bind` checks, opens, enumerates; `func` takes and copies a batch | last batch |
| Pixel algorithms (`pixel.rs`) | per call: level, tile list | windows, levels, sampling, nodata, zonal accumulation, masks | off-by-one at pixel centres and tile edges, level selection, strides and padding of decoded arrays, batches that share tiles |
| COG metadata (`meta.rs`, `engine/src/lib.rs`) | none | levels and georeference, tile enumeration, filter, tile keys | clipped edge tiles, overviews of uneven size, id packing at the bit limits |
| Zones (`zone.rs`) | none | WKT polygons, envelope, contains | holes, notches, points on edges, empty zones |
| RS_ functions (`src/rs_meta.rs`) | chunk-local map of open files, rows answered so far | row checks, opens, reads, vectors written | row and element alignment when some are NULL or fail, which error is reported, list offsets |
| WASM (`crates/engine-wasm`) | registry url -> reader, current tile cache; per promise: its opens and reads | open, configure, batch calls | the registry is read before and written after an await; several opens and reads of one promise end in any order |
| Store sharing (`shared_store` in `src/lib.rs`) | origin -> connection pool | get or insert, clear at 32 | none that a query sees |
| `io_bench.rs`, `wasm_lib.rs` | - | measuring; declarations | not modelled |

How they interact: an RS_ function opens a path through the reader cache, which
attaches a new remote reader to the tile cache under a fresh id; pixel functions
turn points or windows into a tile list and call `fetch_decoded`, which goes
through the tile cache to a byte source. The zonal functions do that for many
rows of a chunk at once, as futures on one DuckDB thread. Table functions do
their I/O in `bind` and only copy rows in `func`.

## Modules

- **TileCache** - the tile cache and `fetch_decoded`. A *worker* is one running
  call. `map`, `used`, `tick`, `hits`, `misses`, `evictions` are the fields of
  `State` and `Inner`; `req`, `out`, `missed`, `mi` are the locals `keys`,
  `out`, `misses`, `mi` of `fetch_decoded`; `pc` is where the call stands.
  Every critical section of the state mutex is one action: `ClaimHit`,
  `ClaimMine` and `ClaimWait` are the three arms of `claim_one`, `Fulfill` the
  locked part of `fulfill` with its whole eviction loop, `Abort` that of
  `abort`. `Notify` is what both do after unlocking. A Condvar with its flag is
  a signal, named by the tick of its Pending slot; `sig` is the signal a
  blocked call still waits for. The await of the merged fetch separates the
  claims from `FetchOk` and `FetchErr`. `ThreadOf` says which thread polls a
  worker and `Free` that a thread runs one future from await to await: with a
  thread per worker this is DuckDB calling scalar functions, with a shared
  thread it is `run_rows` or the browser. `Wasm` selects the `target_arch =
  "wasm32"` branch of `claim_one`. A decoded tile is represented by its key.
- **TileStore** - what the cache promises, without slots, signals or an order
  of eviction: resident tiles within the budget, one owner per tile in flight,
  calls answered with the tiles they asked for. TileCache implements it under
  the mapping `Store`: the owner of a tile is the call that still owes it.
- **TileLists** - the orders in which the pixel functions list tiles: by
  `(tx, ty)` for point reads and batches, row by row for windows. Requests of
  the TileCache instances are built with it.
- **ReaderCache** - `open_cog_cached_async` and `ReaderCache::get_or_open`,
  with lookup, opener and insertion as separate steps, a clock, and remote
  objects that are replaced (`version`). `ReadTile` is `fetch_decoded` seen
  from outside: what is resident under the reader's id is served, everything
  else is read from the object as it is now. `caching` says whether the process
  has a tile cache at all (`tile_cache()`); without one no reader gets an id.
- **StacSearch** - the loop of `read_stac_search`'s `bind`. The server (page
  sizes, whether it ever ends) and the fields of the search are chosen in
  `Init`, each next link (method, merge flag, body) when it is followed. A
  parameter that `bind` rejects ends it in `Init`. A body is a function: each of
  its fields has the page whose link the value is from, or 0 for a value of the
  search itself (`original`, of `build_search_body`). The default cap of
  1,000 is scaled down like the explicit ones; `explicit` tells them apart.
- **FetchAll** - `fetch_all` with its real numbers, over the clamp contract of
  `ByteSource` as `FileSource` implements it and `ObjectStoreSource` takes it from
  its store; the document may be replaced between two requests.
- **TableScan** - `func` of the table functions, a batch at a time. These
  functions leave DuckDB's thread limit at its default of one, so calls of
  `func` do not overlap and the fetch and the use of the cursor are one step.
- **CogMeta** - from IFDs to levels, georeference and tile rows: `build_meta`,
  `pack_tile_key`, `world_to_raster` and its inverse, `tile_bbox`,
  `enumerate_tiles_filtered`. A tile is named by its place, level and indices;
  `Visits` is the order in which the three nested loops of `enumerate_tiles` come
  by the places, and the rows are the kept places in that order. Coordinates are
  integers or exact fractions where the code has f64. `IndexBits` and `MaxLevels` stand for 24 bits and 256,
  `Widest` for the largest i64: `Saturated` is the conversion of a grid position, and a NaN becomes 0.
- **ReadCog** - composes TableScan and CogMeta into the table function
  `read_cog`: `Bind` with its checks in their order, then the scan, which emits
  tiles.
- **Zone** - `parse_zone_wkt` on what the wkt crate has parsed, `envelope`, and
  `contains` with its division multiplied out.
- **PixelReader** - every read of `CogReader` (`read_pixels`, the three zonal
  forms, `band_window`, `band_window_polygon`), split where the code awaits
  `fetch_decoded`: `Plan` computes the level and the list of tiles or an early
  answer, `Finish` turns the decoded arrays into the answer. The callers' steps
  that belong to an answer are included: parsing of zones, choice of the level
  by the pixel budget, scaling of count and sum, and the rectangle of a window.
  `Decoded` is what the TIFF library returns: a padded chunky or planar array,
  which may be short. A pixel may be NaN: without a NaN as nodata it is a value
  like any other, which counts, makes sum and mean NaN and is passed over by min
  and max (`Aggregate`). It uses TileLists, so the lists it hands over are those
  the TileCache instances claim.
- **RsRows** - the row of a chunk, the checks of the RS_ functions on it in
  their order (`Judge`), and the value each function makes of a row. Answers of
  the engine are opaque here: they are named by the call they answer.
- **RsChunk** - how the functions run over a chunk: row by row
  (`RowFns`), all metadata first (`MetaFns`, `meta_per_row`), or concurrently
  (`JobFns`: `open_paths` and `run_rows`, each a `buffered` stream of at most
  `Cap`), and the vectors that are written. `Fail` leaves the loop with the
  stage and row of the error.
- **ScalarCall** - what a query is promised of such a call: one step returns the
  answers of all rows in place or the one error that comes first (`SafeSpec`),
  and it does return. RsChunk implements it (`Implements`) under the mapping
  that reads the written vectors back as DuckDB does.
- **WasmRegistry** - `registry.rs` and the promises of `bindings.rs`. A promise
  asks the registry for its distinct URLs before the first await; an open that
  ends attaches the cache that is current then and inserts the reader, without
  an await in between; `Configure` may run between any two awaits.
- **TileCacheProofs** (which also has the refinement of TileStore),
  **ReaderCacheProofs**, **StacSearchProofs**, **FetchAllProofs**,
  **ReadCogProofs** (which also has the theorems of TableScan),
  **PixelReaderProofs**, **RsChunkProofs**, **WasmRegistryProofs** - theorems.
- **MC...** - the instances that TLC checks. Operators introduced by a comment
  "Mutant" are not used by the specifications: each is a plausible wrong
  version of the definition below it, and a property that is worth checking
  fails when it is put in its place.

## Runs

| Run | Question | Result |
| -- | -- | -- |
| `tile_cache_native` | Does the cache keep its budget, fetch each tile once, wake its waiters, return the right tiles at the right places, evict in LRU order, let every call return, and implement TileStore (whose `Publish` states the budget), when DuckDB threads read windows of one row of tiles? | yes |
| `tile_cache_wasm` | Is the double fetch of the wasm build harmless to the accounts, and does every call return on one thread? | yes |
| `tile_cache_chunk` | Do the rows of one chunk return when they share a cold tile? | **no**: the thread blocks on itself |
| `tile_cache_orders` | Do calls that list the same tiles in different orders return? | **no**: they can wait for each other |
| `reader_cache` | Can a call get a reader or a tile of another path, or a tile older than the metadata it is read with? Is capacity kept, and does only the oldest live entry make room for a new key? | no; yes |
| `stac_search` | Are rows complete and in order, truncation explicit, the number of requests bounded, the body of each request that of its own link, over the whole original search if the link asks for a merge? | yes |
| `stac_search_truncation` | Is nothing ever cut without `max_rows`? | **no**: an empty page ends the search |
| `fetch_all` | Is a whole document returned, none up to 64 MiB refused, the loop finite? | yes |
| `read_cog` | Is every row emitted once, and do the rows name exactly the tiles that hold a pixel touching the filter, at every level and under distinct ids? | yes |
| `rs_chunk` | Does every RS_ function answer each row and element at its place, or report the first error, whatever the schedule, opening each file once? | yes |
| `pixel_reader` | Are the tiles fetched exactly those needed, each once, and are points, statistics, windows and masks those of the pixels by their centres, whatever tiles, padding, bands and levels they come from? Do the two tests for a pixel in a zone, that of the statistics and that of the masks, pick the same pixels? | yes |
| `wasm_registry` | Is a registered reader always one of its URL and of the current cache, does a batch answer every position or its first error, and does every promise settle? | yes |

The runs answered "no" are findings: each quotes, in PROJECT.json, the comment
or README line that says otherwise.

The two deadlocks are those of `CallsReturn` on instances that the passing run
leaves out: `tile_cache_native` has one call per thread and one order of tiles,
and there every call returns.

Four smaller observations are not runs; the models do what the code does there.
A point with a NaN coordinate is not outside the image: the conversion of NaN to
i64 gives 0, not a saturated number, so `world_to_raster` (`meta.rs:127`) returns 1
and RS_Value and RS_Values answer with a pixel of the first column or row, while the
comment at `meta.rs:125` expects every extreme coordinate out of range and
`docs/sedona-semantics.md:44` a NULL; `PointsExact` therefore places a NaN at the
origin (`Placed`). `apply_next` (`stac.rs:135`) answers no body for a next link that
asks for a merge but has no body of its own, and `fetch_page` then posts `{}`, a
search for everything, while the comment at `stac_search.rs:165` says that a merge
always starts from the original body; `SearchContinues` therefore speaks of links
with a body. `fetch_all` tests its limit only after a
full answer to a request longer than 64 MiB, which is the one of 256 MiB, so
documents of 64 MiB + 1 to 256 MiB - 1 bytes are accepted (the comment at
`source.rs:71` says more than 64 MiB is an error). And a cached reader whose
object was replaced reads new bytes with the offsets of the old metadata, while
README.md:168-170 speaks of the old metadata and the old pixels; what holds,
and is checked, is that a tile cached before a reopen is never served after it.

### Bounds

- TileCache: three tiles of sizes 2, 1 and 1 with a budget of 3 leave two tiles
  resident and make the third choose which one to evict; two calls per worker
  let a call hit, wait for and re-fetch what another one left. The wasm run
  gives each of three futures one call, enough for fulfill after fulfill and
  abort after fulfill on the same key, and its budget of 1 is less than the
  larger tile. The orders run uses a 2 x 2 grid, the least on which the two
  orders disagree.
- ReaderCache: two entries and three remote paths make "oldest" a choice.
  `MaxTime` reaches `Ttl`, so entries expire; `MaxVersion = 1` allows one
  replacement of each object.
- StacSearch: up to three pages reach a second follow, caps 1..4 lie below, at
  and above the sums of page sizes; `endless` repeats the pages for ever. Two
  fields let a link's body overlap with the search, add to it or miss it, and a
  second follow meets what the first one left.
- FetchAll: all request lengths and the limit with their neighbours.
- ReadCog: a batch of three instead of 2048, 0 to 8 tiles after the filter, so several batches
  and a short last one; `IndexBits = 2` and `MaxLevels = 2` put a file with too
  many tiles and one with too many levels within reach. Filters take all corners
  on, beside and off the point where four tiles meet.
- PixelReader: tiles of 2 x 2 pixels on rasters of 5 x 3 and 4 x 3 give inner,
  clipped and corner tiles; overviews of 3 x 2 and 2 x 2 have pixel sizes that
  are not whole. The value of a pixel is a power of two, so a sum names the
  pixels in it; two pixels of band 2 are NaN, which is nodata in one file and not
  in another. `Widest = 7` exceeds every width, and points
  far outside saturate. Points lie on pixel and tile edges, boxes on, before and behind
  pixel centres. One zone has a hole that leaves its polygon: the code cuts
  such a hole at the envelope of the exteriors, which is all that
  `docs/sedona-semantics.md:49` (one set of pixels for both) needs, so
  `ZonesAgree` covers it, while `ZonalExact` speaks of zones whose rings lie
  within the envelope (`RingsWithin`), as OGC polygons do.
- RsChunk: three rows with `Cap = 2` make a row wait for its turn behind a slow
  first one; two files, one of them lacking metadata. Every function sees rows
  that run, that are NULL and that are in error for each reason in its code.
- WasmRegistry: three URLs and `MAX_READERS = 2` clear a full registry; two
  promises with two calls in all and one `configureTileCache` at any point.

No model has symmetry except `reader_cache`, over callers and remote paths, and
the runs of StacSearch, over the fields of a body.

`CHECK_DEADLOCK FALSE` is set where the instance really stops: the reader-cache
runs, whose clock, versions and calls are bounded, and the two tile-cache runs
that exhibit a deadlock, which are judged by `CallsReturn`.

### Fairness

`TileCache!FairSpec` is weak fairness of each worker's own steps: the operating
system schedules threads that can run, and a fetch ends, in success or failure
(object_store and the browser time out). Starting calls is not fair. Success of
a fetch is never assumed. `FetchAll!FairSpec` says that requests are answered
or fail and that the loop continues. `RsChunk!Spec` has weak fairness of its
steps: the DuckDB thread runs, and every open and read ends, well or badly
(the blocking of tile claims is the subject of TileCache, not of RsChunk).
`WasmRegistry!Spec` has weak fairness of each promise's steps, not of `Begin` or
`Configure`: the browser answers every request with a response or an error.

## Proofs

`tlapm` checks the following for every value of the constants: any number of
calls, threads, keys, paths, pages, rows, URLs or IFDs, any sizes and capacities.
The bounds of the runs (`MaxCalls`, `MaxTime`, `MaxVersion`, `MaxConfigures`) are
constants too, so each theorem holds for behaviours of every length.

Tile cache (both builds unless said otherwise):

- `TypeCorrect` - `TypeOK` is not inductive: that `misses[mi]` is a position of
  the request and that a claiming call has a key left is needed to know that
  the actions index inside sequences. `FramesOK` adds this.
- `BudgetSafe` - `BudgetHeld` is inductive relative to `TypeOK /\ FramesOK`.
  Only `Fulfill` changes the Ready keys: `ChargeIsWeight` shows that `used`
  after the insertion is the weight of the entries, duplicate or not, and the
  loop's exit condition gives the bound. Sums over sets are not available to the
  provers, so the total size of a set of tiles is the constant `Weight`,
  constrained by `WeightAssumption` to be the additive measure that `Bytes`
  induces; TLC computes it as a sum and evaluates the assumption.
- `AlignmentSafe` - `ResultsAligned` follows from `Aligned`: an entry holds its
  own key's tile, the misses of a call are increasing positions, and an output
  slot holds its own key's tile or is a miss still to be settled. Every action
  that writes an output slot is shown to keep this frame by frame.
- `FlightSafe`, `WakeupSafe` - `SingleFlight` is inductive over types and
  frames; `NoLostWakeup` needs it, and `NeverBlocks` for the wasm build. The
  critical steps are `Fulfill` and `Abort`, which take the signal out of the slot
  and leave it to `Notify`: between the two the key may be claimed anew, and
  `Awaited` has a disjunct for each stage.
- `EvictionOrder`, `FreshTilesStay` - action properties, from `StampsPast` (no
  entry was used after the current tick): the fresh tile has the latest stamp,
  so the loop, which takes the oldest first, reaches it only when nothing else
  is left.
- `NativeImplementsStore` - under `~Wasm`, `Spec => ImplementsStore`: the initial
  state maps to one of TileStore and each action to the TileStore step its
  comment names, or a stutter. Single flight makes the mapped owner of a tile
  unique, alignment makes the answers right, and the budget theorem bounds the
  resident tiles. The wasm build does not implement TileStore: it fetches a
  pending tile twice by design.

Readers, documents, searches:

- `ReadersCorrect`, `ForeignDataSafe`, `ReopenSafe` - from `ReadersSound`: cached
  readers lie under their own path, an id that was handed out belongs to one
  reader, and the tiles resident under an id are of that reader's object and no
  older than its metadata; `ServedSound` carries this to what calls were served.
- `CapSafe`, `OldestOutSafe` - `Insert` is split into the retained entries, the
  room made and the new entry, with the cardinality of each.
- `ReturnsWhole`, `RefusesOnlyBig`, `RequestsAreCapped` - from the loop invariant
  `LoopInv`: an answer is the prefix of its document that the current request
  asked for, and requests take seven lengths.
- `TypeCorrect` (StacSearch), `RequestsAreBounded`, `BodyContinues` - from
  `Paging`: each page that was followed brought a row, and the body of a later
  request is what `apply_next` made of its link and the original search. `DropsExplicit` and `RowsCorrect`
  are inductive over it; the latter is stated by what the list holds and its
  order (`Received`, `Before`), since a concatenation over pages would need
  induction over data.

Table functions:

- `ScanReturnsAll` - `ScanComplete` follows from `ScanInv`: the rows before the
  cursor were emitted once and the others not yet. This is about the scan of all
  three functions; `CogRowsOnce` says it of `read_cog`.
- `PruningSafe` - `read_cog` lists exactly the tiles with a pixel whose cell meets
  the filter. The invariant `CogInv` says that no row is emitted before bind
  succeeded, that afterwards the rows are those of the kept places (`BoundOK`)
  and that `emitted` is what the counted positions name. The rest is about
  operators: division gives a pixel its tile (`PixelTile`, `TilePixels`); the
  box of a tile is the union of the cells of its pixels, so it meets a filter
  exactly when one of them does (`CellsCover`, `TileMeets`, by the least pixel
  that reaches far enough); `KeptWanted` lifts this to all levels; keys unpack
  to what was packed (`KeyRoundTrip`); and the list in loop order has each
  place once (`RankProps`, `LoopOrderProps`: the rank of a place is an
  injection into, hence onto, the positions).

RS_ chunks and the browser registry:

- `ChunkCorrect`, `OpensSafe` - from `ChunkInv`, which says for each way of running
  a function where its loop stands, which rows were judged, and which files have
  been asked for.
- `ChunkImplementsCall` - every step of RsChunk is ScalarCall's `Return` or a
  stutter: the safety part of `Implements`. `PromiseInv` says that nothing which
  precedes the work at hand is at fault (`Progress`), so the error a loop leaves
  with is the first one, which `Precedes`, an order, makes unique; and that the
  rows pushed so far are the promised answers, jobs or outcomes (`Answers`). A
  buffered stream with nothing in flight has taken all its rows (`StreamDone`, by
  its least open row), so a failed row is reported after every row before it.
  The values of a batch return to the elements they were computed for because
  `Slot` counts the elements that are not NULL (`SlotProps`), and a list vector
  reads back as written because the offsets give every element its own place in
  the child vector (`ChildPlace`, by least counterexamples over the rows).
- `RegistrySafe`, `BatchSafe` - from `RegistryInv`: the registry is current, and
  each future of a promise is of its URL or position, with the result that the
  promise settled with determined by them. That the distinct URLs are listed in
  the order of their first positions (`Uniq`) is proved by ranks, as above.

Pixel reads, for every raster, tile size, band, level and zone:

- `ReadInvariant` - a reader that has planned holds exactly what `Plan` gives for
  its call, and one that has an answer the one `Finish` gives (`ReadInv`). The other
  theorems are about these two operators, so most of their proofs are lemmas.
- `ReadTilesOnce` - the tiles listed are distinct and exactly those that hold a
  wanted pixel. The division lemmas give each pixel its tile and
  each window its range of tiles; a list sorted by `(tx, ty)` and one that goes
  row by row have each tile once by ranks (an injection into the positions is
  onto them).
- `ReadPointsExact` - every point gets the value of the pixel it lies in, at its
  own position, or NULL; a point with a NaN is placed at the origin (`Placed`), as
  the code does. Saturation moves nothing into the image (`SaturatedProps`). The flat index of a padded array, chunky or planar, is
  taken apart by division (`TwoDigits`, `PackedProps`).
- `ReadLevelFits` - the level chosen by the pixel budget is the finest that fits it,
  the coarsest when none does; a scaled count of a whole raster is its number of
  pixels at every level.
- `ReadZonalExact` - count, sum, mean, min and max are those of the pixels whose
  centres lie in the box or zone, nodata left out. A sum over a set is a `CHOOSE` of a
  recursive function; that it exists and does not depend on the order is proved
  by least counterexamples (`SumExists`, `SumStep`); pixels outside the code's rows and columns are
  excluded by `CentrePositions` and `OutsideEnvelope` (a ray from outside the
  envelope crosses no edge).
- `ReadWindowsExact` - an array holds, row by row, the pixels of the window, with
  NULL outside the polygon, and the shape and extent reported with it. This and `ReadZonesAgree` rest on
  `EvenOddAgrees`: the code casts a ray one way in one test and the reference
  another way. For one edge the two differ exactly when one of its ends lies
  beyond both, and since the predecessor on a ring is a bijection as many edges
  begin as end beyond, so the parity of the differences is even. No induction
  over the ring is needed.
- `ReadZonesAgree` - the statistics and the mask of a zone pick the same pixels,
  also when a hole leaves its polygon.

Assumptions, all evaluated by TLC on the instances: `None`, `NoTile` and the
like are not values of the sets they are distinguished from; capacities are
positive; requests for tiles name no tile twice (which `TilesOnce` checks of the
callers); a chunk is a finite sequence of rows, a list in it that runs a finite
sequence of elements, and the metadata functions have no argument that can be
malformed (`Admitted`); the images and tiles of an IFD are
not empty and pixel sizes not negative (`ReadCogAssumption`); two facts about
powers of two, for which the provers have no definition (`CogMetaAssumption`);
and for PixelReader (`PixelReaderAssumption`) that pixel sizes are positive,
tiles are not empty, an overview of an empty image is empty, and the values of a
raster are integers or NaN, and images are less wide and high than the largest i64.
`RowCounts` and `Chunks` are sets of any size.

What a recursive definition computes is out of the provers' reach. Where a
theorem needed induction over data it was replaced by the least counterexample
(well-foundedness of the naturals needs no operator parameter) or by counting.

Only model-checked: liveness (`CallsReturn`, `FetchEnds`, `PromisesSettle`, and
that the call returns in `Implements`), which is out of the prover's reach. The
invariants, action properties and refinements that the passing runs check are
theorems.

## Plan

The modules planned are written, and what they state for safety is proved. What could
still be added, in the order of what it would show:

1. The HTTP status rules of `fetch.rs` as a byte source of ReadCog, and the eviction
   of `shared_store`: both keep no data that a query sees.
2. Liveness beyond the instances, with a prover for it.

## Not modelled

- TIFF tags and image decoding (async-tiff), the grammar of WKT and JSON (the
  wkt and serde_json crates), and the GDAL metadata XML: text and bytes without
  control of this program's own. Their results are inputs of the models.
- Floating-point rounding: coordinates are exact. A comparison that f64 rounds
  to the other side of a pixel edge is outside these models.
- Infinite pixel values, and sums whose value depends on the order of additions.
- Overflow in a debug build: `band - 1` in `RS_BandStats` (`src/rs_meta.rs:882`) for the
  least i32 wraps in a release build, to a band that no file has, and RsRows answers
  NULL as for any other; a debug build would panic.
- DuckDB's FFI beyond the vectors that are written, and logical types.
- `shared_store` (connection pools per origin, no data a query sees), the HTTP
  status rules of `fetch.rs` and the `*FromBytes` bindings (no state), `io_bench`
  (clocks and network) and `wasm_lib.rs` (declarations).
