------------------------------- MODULE RsRows -------------------------------
(***************************************************************************)
(* The rows of a chunk given to an RS_ scalar function (src/rs_meta.rs) and  *)
(* what the function makes of one row: the checks on its arguments, and the  *)
(* value the engine is asked for.                                            *)
(*                                                                         *)
(* A row is [path, arg, band, band2, stat, max_pixels]; a column the         *)
(* function does not have holds Absent.  arg stands for the columns that     *)
(* name a place: x and y (or col and row), the lists xs and ys, a bbox, a    *)
(* WKT zone or a list of them.  An answer of the engine is opaque: it is     *)
(* named by the call that it answers.                                        *)
(***************************************************************************)
EXTENDS Integers, Sequences

CONSTANTS
  Null,        \* SQL NULL
  Absent,      \* a column the overload does not have
  Unparsable,  \* a WKT text that parse_zone_wkt rejects
  Unknown,     \* a stat name that is not one of the five
  Short,       \* a bbox list that does not have 4 elements
  Holed,       \* a bbox list with a NULL among its 4 elements
  Outside,     \* a place the engine has no value for
  Opposite,    \* a place where the values of any two bands add up to zero
  NumBands,    \* bands of every file
  Lacking      \* files whose metadata lack what an accessor asks for

ASSUME RsRowsAssumption == NumBands \in Nat

\* Functions by how they run: row by row, all metadata first, or concurrently.
\* RS_Accessor stands for RS_Width, RS_ScaleX, RS_GeoReference and their like.
RowFns == {"RS_Value", "RS_NormalizedDifference", "RS_Values",
           "RS_BandAsArray", "RS_BandAsArray_wkt"}
CoordFns == {"RS_WorldToRasterCoord", "RS_RasterToWorldCoord"}
MetaFns == {"RS_Accessor", "RS_MetaData", "RS_BandNoDataValue", "RS_BandStats"} \cup CoordFns
JobFns == {"RS_ZonalStats", "RS_ZonalStats_wkt", "RS_ZonalStats_batch"}

\* The functions that return a list, and those that take one of elements.
ListFns == {"RS_Values", "RS_BandAsArray", "RS_BandAsArray_wkt", "RS_ZonalStats_batch"}
ElementFns == {"RS_Values", "RS_ZonalStats_batch"}

-----------------------------------------------------------------------------
\* The elements of a list argument, with Null for an element that is NULL in
\* any of its columns.
Elements(fn, arg) ==
  IF fn = "RS_Values"
  THEN [k \in DOMAIN arg.xs |->
          LET p == {arg.xs[k], arg.ys[k]} IN
            IF Null \in p THEN Null
            ELSE IF Outside \in p THEN Outside ELSE <<arg.xs[k], arg.ys[k]>>]
  ELSE arg

\* An argument that is an error: lists of two lengths, a bbox that is not
\* four numbers, a zone that does not parse.
Malformed(fn, arg) ==
  CASE fn = "RS_Values" -> Len(arg.xs) # Len(arg.ys)
    [] fn = "RS_ZonalStats_batch" -> \E k \in DOMAIN arg : arg[k] = Unparsable
    [] OTHER -> arg \in {Short, Unparsable}

\* What the loop over the rows decides before it touches a file, in the order
\* of its checks: the row is NULL, the chunk fails, or the row runs.
Judge(fn, row) ==
  IF Null \in {row.path, row.arg, row.band, row.band2, row.stat} THEN "null"
  ELSE IF row.stat = Unknown THEN "bad"
  ELSE IF row.max_pixels = Null THEN "null"
  ELSE IF row.max_pixels # Absent /\ row.max_pixels < 0 THEN "bad"
  ELSE IF Malformed(fn, row.arg) THEN "bad"
  ELSE IF row.arg = Holed THEN "null"
  ELSE "run"

\* A negative band becomes band 0, which is out of range for every raster.
Band(b) == IF b < 0 THEN 0 ELSE b

\* The functions that do not call the engine with a negative band.
CallsEngine(fn, row) ==
  CASE fn \in {"RS_Value", "RS_Values"} -> row.band >= 0
    [] fn = "RS_NormalizedDifference" -> row.band >= 0 \/ row.band2 >= 0
    [] OTHER -> TRUE

-----------------------------------------------------------------------------
\* The engine, seen from here: the answer for one place in one band, and the
\* array of a band over a window.
Engine(path, place, band) ==
  IF place = Outside THEN Null ELSE <<path, place, band>>

Window(path, place, band) ==
  IF band \notin 1..NumBands THEN Null
  ELSE IF place = Outside THEN <<>>
  ELSE <<Engine(path, place, band), Null>>

\* normalized_difference of two point values: missing when either is, or
\* when their sum is zero.
NormalizedDifference(v1, v2) ==
  IF Null \in {v1, v2} THEN Null
  ELSE IF v1[2] = Opposite THEN Null ELSE <<v1, v2>>

\* read_pixel; a negative band does not get that far.
PointValue(path, place, band) ==
  IF band \notin 1..NumBands THEN Null ELSE Engine(path, place, band)

\* The metadata of one band, if they have it.  In a release build band - 1 of
\* the least i32 wraps to the greatest, which names no band either.
BandField(path, band) ==
  IF band \notin 1..NumBands \/ path \in Lacking THEN Null ELSE <<path, band>>

\* The value of one element of a list argument that is not NULL: a point of
\* RS_Values or a zone of RS_ZonalStats.
ElementValue(fn, row, e) ==
  IF fn = "RS_Values" THEN PointValue(row.path, e, row.band)
  ELSE Engine(row.path, e, Band(row.band))

\* The value of a row, function by function, where it has no list of elements.
RsMeta(row) == IF row.path \in Lacking THEN Null ELSE row.path
RsMetaData(row) == row.path
RsBandNoDataValue(row) == BandField(row.path, row.band)
RsBandStats(row) == BandField(row.path, row.band)
RsWorldToRasterCoord(row) == Engine(row.path, row.arg, 0)  \* NULL beyond i32
RsRasterToWorldCoord(row) == <<row.path, row.arg>>
RsValue(row) == PointValue(row.path, row.arg, row.band)
RsNormalizedDifference(row) ==
  NormalizedDifference(PointValue(row.path, row.arg, row.band),
                       PointValue(row.path, row.arg, row.band2))
RsBandAsArray(row) == Window(row.path, row.arg, Band(row.band))
RsBandAsArrayWkt(row) == Window(row.path, row.arg, Band(row.band))
RsZonalStats(row) == Engine(row.path, row.arg, Band(row.band))

Value(fn, row) ==
  CASE fn = "RS_Accessor" -> RsMeta(row)
    [] fn = "RS_MetaData" -> RsMetaData(row)
    [] fn = "RS_BandNoDataValue" -> RsBandNoDataValue(row)
    [] fn = "RS_BandStats" -> RsBandStats(row)
    [] fn = "RS_WorldToRasterCoord" -> RsWorldToRasterCoord(row)
    [] fn = "RS_RasterToWorldCoord" -> RsRasterToWorldCoord(row)
    [] fn = "RS_Value" -> RsValue(row)
    [] fn = "RS_NormalizedDifference" -> RsNormalizedDifference(row)
    [] fn = "RS_BandAsArray" -> RsBandAsArray(row)
    [] fn = "RS_BandAsArray_wkt" -> RsBandAsArrayWkt(row)
    [] OTHER -> RsZonalStats(row)

=============================================================================
