------------------------------ MODULE MCRsChunk ------------------------------
(***************************************************************************)
(* Calls for TLC: every function on chunks of up to three rows, with every   *)
(* choice of files that do not open and of rows whose read fails.            *)
(***************************************************************************)
EXTENDS RsChunk

CONSTANTS p1, p2, a, b

TwoPaths == {p1, p2}
OneLacks == {p2}

\* A row with the columns of a function that matter; the others are Absent.
Row(path, arg, band) ==
  [path |-> path, arg |-> arg, band |-> band, band2 |-> Absent,
   stat |-> Absent, max_pixels |-> Absent]

Zonal(path, arg, band, stat, max) ==
  [Row(path, arg, band) EXCEPT !.stat = stat, !.max_pixels = max]

NormDiff(path, arg, band, band2) == [Row(path, arg, band) EXCEPT !.band2 = band2]

Points(xs, ys) == [xs |-> xs, ys |-> ys]

\* For each function: rows that run on either file, rows that are NULL for
\* each reason, rows in error for each reason.
RowsOf ==
  [RS_Value |-> {Row(p1, a, 1), Row(p2, a, 1), Row(p2, Outside, 1), Row(p1, a, -1),
                 Row(Null, a, 1), Row(p1, Null, 1), Row(p2, b, Null)},
   RS_NormalizedDifference |->
      {NormDiff(p1, a, 1, 2), NormDiff(p2, a, -1, 2), NormDiff(p2, b, -1, -1),
       NormDiff(p2, Opposite, 2, 1), NormDiff(p1, b, 1, 3),
       NormDiff(p1, a, 1, Null), NormDiff(Null, a, 1, 2)},
   RS_Values |->
      {Row(p1, Points(<<a, Null, b>>, <<a, a, b>>), 1), Row(p2, Points(<<>>, <<>>), 1),
       Row(p2, Points(<<Null, Outside, a>>, <<a, b, b>>), 1),
       Row(p1, Points(<<a, Null>>, <<a, b>>), -1),
       Row(p1, Points(<<a>>, <<>>), 1), Row(p2, Null, 1)},
   RS_BandAsArray |->
      {Row(p1, a, 1), Row(p2, Outside, 1), Row(p2, Absent, -1), Row(p1, Short, 1),
       Row(p1, Holed, 1), Row(Null, Short, 1)},
   RS_BandAsArray_wkt |->
      {Row(p1, a, 1), Row(p2, b, 1), Row(p2, Outside, -1), Row(p1, Unparsable, 1),
       Row(p2, Unparsable, Null)},
   RS_MetaData |-> {Row(p1, Absent, Absent), Row(p2, Absent, Absent),
                    Row(Null, Absent, Absent)},
   RS_Accessor |-> {Row(p1, Absent, Absent), Row(p2, Absent, Absent),
                    Row(Null, Absent, Absent)},
   RS_BandNoDataValue |-> {Row(p1, Absent, 2), Row(p1, Absent, -1), Row(p2, Absent, 1),
                           Row(p1, Absent, Null), Row(Null, Absent, 1)},
   RS_BandStats |-> {Row(p1, Absent, 1), Row(p2, Absent, 0), Row(p1, Absent, 3),
                     Row(p2, Absent, Null), Row(Null, Absent, 1)},
   RS_RasterToWorldCoord |->
      {Row(p1, a, Absent), Row(p2, b, Absent), Row(p2, Null, Absent), Row(Null, b, Absent)},
   RS_WorldToRasterCoord |->
      {Row(p1, a, Absent), Row(p2, Outside, Absent), Row(p2, Null, Absent),
       Row(Null, b, Absent)},
   RS_ZonalStats |->
      {Zonal(p1, a, 1, "sum", Absent), Zonal(p2, b, -1, "sum", 0),
       Zonal(p2, a, 1, "sum", 5), Zonal(p1, Short, 1, "sum", 0),
       Zonal(p1, a, 1, Unknown, Null), Zonal(p1, Holed, 1, "sum", 0),
       Zonal(p1, Short, 1, "sum", Null)},
   RS_ZonalStats_wkt |->
      {Zonal(p1, a, 1, "sum", Absent), Zonal(p2, b, 1, "sum", 0),
       Zonal(p2, Unparsable, 1, "sum", 0), Zonal(p2, a, 1, "sum", -1),
       Zonal(Null, Unparsable, 1, Unknown, -1)},
   RS_ZonalStats_batch |->
      {Zonal(p1, <<a, Null, b>>, 1, "sum", Absent), Zonal(p2, <<>>, 1, "sum", 0),
       Zonal(p2, <<Null, b>>, -1, "sum", 5), Zonal(p2, <<Null, Unparsable>>, 1, "sum", 5),
       Zonal(p2, Null, 1, "sum", 5)}]

\* The opens and reads that matter for a chunk and may fail.  The accessors
\* of metadata do not fail, and a raster has a georeference or has none.
SomeFail(f, c) ==
  LET runs == {k \in DOMAIN c : Judge(f, c[k]) = "run"}
      lost == CASE f \in MetaFns \ CoordFns -> {{}}
                [] f \in CoordFns ->
                     {{k \in runs : c[k].path \in q} : q \in SUBSET Paths}
                [] OTHER -> SUBSET runs
  IN [bad : SUBSET ({c[k].path : k \in DOMAIN c} \ {Null}), lost : lost]

UpToThree == [f \in DOMAIN RowsOf |-> UNION {[1..n -> RowsOf[f]] : n \in 0..3}]

=============================================================================
