------------------------------ MODULE MCReadCog ------------------------------
EXTENDS ReadCog

\* No instance has more tiles than this.
Counts == 0..40

Ifd(w, h, tw, th, scale, tie) ==
  [image_width |-> w, image_height |-> h, tile_width |-> tw, tile_height |-> th,
   scale |-> scale, tie |-> tie, samples_per_pixel |-> 1, nodata |-> None]

Overview(w, h, tw, th) == Ifd(w, h, tw, th, None, None)

\* Pixels of 6 by 4 world units, tied at a position inside the raster.
Scale == <<6, 4, 0>>
Tie == <<1, 2, 0, 10, 20, 0>>

\* Edge tiles on both sides with an overview whose size is not a half; whole
\* tiles only; one tile that is larger than the image; no georeference; more
\* tiles than an index names; a level that is not tiled.
SomeFiles ==
  {<<Ifd(5, 3, 2, 2, Scale, Tie), Overview(3, 2, 2, 2)>>,
   <<Ifd(4, 4, 2, 2, Scale, Tie), Overview(2, 2, 2, 2), Overview(1, 1, 2, 2)>>,
   <<Ifd(3, 1, 4, 4, Scale, Tie)>>,
   <<Ifd(5, 3, 2, 2, Scale, None), Overview(3, 2, 2, 2)>>,
   <<Ifd(10, 2, 2, 2, Scale, Tie)>>,
   <<Ifd(4, 4, 2, 2, Scale, Tie), Overview(2, 2, None, None)>>}

\* Boxes and points inside, across, touching and outside the rasters, all
\* around the corner of four tiles (28, 20).
Corners == {-3, 16, 27, 28, 29, 40, 60}
Heights == {-10, 12, 19, 20, 21, 28, 40}
SomeFilters ==
  {None, <<1, 2, 3>>, <<NonFinite, 0, 1, 1>>}
    \cup {<<x0, y0, x1, y1>> : x0 \in Corners, x1 \in Corners, y0 \in Heights, y1 \in {19, 20, 28}}

=============================================================================
