---------------------------- MODULE MCPixelReader ----------------------------
(***************************************************************************)
(* Rasters of at most 15 pixels per level; a pixel of band 1 holds a power   *)
(* of two, so that a sum names the pixels in it.  Band 2 has two NaN pixels. *)
(***************************************************************************)
EXTENDS PixelReader

\* Value at level l, column c, row r of a band.
PowerOfTwo(l, c, r, band) ==
  IF band = 2 /\ r = 1 /\ c \in {0, 2} THEN NaN
  ELSE (IF band = 1 THEN 1 ELSE -3) * 2 ^ (5 * r + c) + (IF band = 1 THEN 0 ELSE l)

Garbage == 999999

Ifd(w, h, nodata, scale, tie, bands) ==
  [image_width |-> w, image_height |-> h, tile_width |-> 2, tile_height |-> 2,
   scale |-> scale, tie |-> tie, samples_per_pixel |-> bands, nodata |-> nodata]

Scale == <<6, 4, 0>>
Tie == <<1, 2, 0, 10, 20, 0>>

\* Edge tiles and an overview that is not half as large, chunky, two bands;
\* planar with NaN as nodata and two overviews; no georeference; a planar
\* configuration that is not known; a decoded tile that is short; no pixels.
SomeFiles ==
  {[ifds |-> <<Ifd(5, 3, 64, Scale, Tie, 2), Ifd(3, 2, 64, None, None, 2)>>,
    planar |-> "chunky", holes |-> {<<1, 1>>}, short |-> {}],
   [ifds |-> <<Ifd(4, 3, NaN, Scale, Tie, 2), Ifd(2, 2, NaN, None, None, 2), Ifd(1, 1, NaN, None, None, 2)>>,
    planar |-> "planar", holes |-> {<<0, 0>>, <<2, 1>>}, short |-> {}],
   [ifds |-> <<Ifd(5, 3, None, Scale, Tie, 1), Ifd(3, 2, None, None, None, 1)>>,
    planar |-> "chunky", holes |-> {}, short |-> {<<1, 0>>}],
   [ifds |-> <<Ifd(3, 2, None, None, None, 1)>>, planar |-> "chunky", holes |-> {}, short |-> {}],
   [ifds |-> <<Ifd(3, 2, None, Scale, Tie, 1)>>, planar |-> "other", holes |-> {}, short |-> {}],
   [ifds |-> <<Ifd(0, 0, None, Scale, Tie, 1)>>, planar |-> "chunky", holes |-> {}, short |-> {}]}

\* Positions around pixel and tile edges (columns start at 4, 10, 16, 22, 28,
\* rows at 28, 24, 20) and outside, so far that the conversion saturates in
\* one list, and points with a NaN.
Xs == {3, 4, 16, 33, 34}
Ys == {29, 28, 20, 17, 16}
PointLists ==
  {<<>>} \cup {<<<<x, y>>>> : x \in Xs, y \in Ys}
    \cup {<<<<30, 18>>, <<x, y>>, <<5, 27>>>> : x \in Xs, y \in Ys}
    \cup {<<<<NaN, 20>>, <<100, 20>>, <<16, NaN>>, <<-90, 20>>, <<NaN, NaN>>>>}

\* Boxes on pixel centres (7, 13, 19, 25, 31 and 26, 22, 18), between them,
\* outside and inverted.
Boxes ==
  {<<x0, y0, x1, y1>> : x0 \in {0, 7, 8, 19}, x1 \in {6, 13, 25, 40},
                        y0 \in {10, 18, 19}, y1 \in {15, 22, 23, 30}}
    \cup {<<NonFinite, 0, 1, 1>>}

Poly(exterior, interiors) == [exterior |-> exterior, interiors |-> interiors]
Text(kind, polys) == [kind |-> kind, polys |-> polys]
Ring(x0, y0, x1, y1) == <<<<x0, y0>>, <<x1, y0>>, <<x1, y1>>, <<x0, y1>>, <<x0, y0>>>>

\* A notched polygon, one with a hole, two disjoint ones, slanted edges, edges
\* through centres, a hole that leaves its polygon, a sliver without a centre, empty, one point, outside, and
\* the texts that are rejected.
Texts ==
  {Text("POLYGON", <<Poly(<<<<4, 16>>, <<34, 16>>, <<34, 28>>, <<22, 28>>, <<22, 20>>,
                            <<16, 20>>, <<16, 28>>, <<4, 28>>, <<4, 16>>>>, <<>>)>>),
   Text("POLYGON", <<Poly(Ring(4, 16, 34, 28), <<Ring(10, 20, 22, 24)>>)>>),
   Text("MULTIPOLYGON", <<Poly(Ring(5, 17, 15, 24), <<>>), Poly(Ring(20, 20, 33, 29), <<>>)>>),
   Text("POLYGON", <<Poly(<<<<3, 15>>, <<36, 22>>, <<12, 29>>, <<3, 15>>>>, <<>>)>>),
   Text("POLYGON", <<Poly(Ring(7, 18, 19, 26), <<>>)>>),
   Text("POLYGON", <<Poly(Ring(9, 19, 22, 27), <<Ring(16, 21, 29, 25)>>)>>),
   Text("POLYGON", <<Poly(Ring(8, 19, 12, 21), <<>>)>>),
   Text("POLYGON", <<Poly(<<>>, <<>>)>>),
   Text("POLYGON", <<Poly(<<<<13, 22>>>>, <<>>)>>),
   Text("POLYGON", <<Poly(Ring(50, 50, 60, 60), <<>>)>>),
   Text("POLYGON", <<Poly(<<<<NonFinite, 0>>, <<1, 1>>, <<2, 2>>>>, <<>>)>>),
   Text("POINT", <<>>), Text("Garbage", <<>>)}

Lists == {<<>>} \cup {<<a>> : a \in Texts} \cup (Texts \X Texts)

Budgets == {0, 1, 4, 6}

SomeRequests ==
  {[op |-> "read_pixels", points |-> ps, band |-> b] : ps \in PointLists, b \in 0..3}
    \cup {[op |-> "zonal_bbox", bbox |-> x, band |-> b, max_pixels |-> m]
            : x \in Boxes, b \in 1..3, m \in Budgets}
    \cup {[op |-> "zonal", text |-> t, band |-> b, max_pixels |-> m]
            : t \in Texts, b \in 0..2, m \in Budgets}
    \cup {[op |-> "zonal_zones", texts |-> ts, band |-> b, max_pixels |-> m]
            : ts \in Lists, b \in {0, 2}, m \in {0, 4}}
    \cup {[op |-> "band_window", bbox |-> x, band |-> b] : x \in Boxes \cup {None}, b \in {0, 2}}
    \cup {[op |-> "band_window_polygon", text |-> t, band |-> b] : t \in Texts, b \in 0..2}

=============================================================================
