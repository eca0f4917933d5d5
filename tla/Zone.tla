-------------------------------- MODULE Zone --------------------------------
(***************************************************************************)
(* Polygon zones (crates/engine/src/zone.rs): parsing, envelope and the      *)
(* even-odd test.                                                            *)
(*                                                                         *)
(* A WKT text is what the wkt crate sees in it: [kind, polys], where a       *)
(* polygon is [exterior, interiors], a ring is a sequence of points <<x, y>> *)
(* and a coordinate is an integer or NonFinite.                              *)
(***************************************************************************)
EXTENDS CogMeta, FiniteSets

\* All rings: of each polygon the exterior, then the interiors.
PolygonRings(polygon) == <<polygon.exterior>> \o polygon.interiors
Rings(z) == FlattenSeq([i \in DOMAIN z |-> PolygonRings(z[i])])

\* parse_zone_wkt: a POLYGON is kept as a MULTIPOLYGON of one.
ParseZone(text) ==
  IF text.kind = "Garbage" THEN [err |-> "Parse"]
  ELSE IF text.kind \notin {"POLYGON", "MULTIPOLYGON"} THEN [err |-> "Unsupported"]
  ELSE IF \E i \in DOMAIN text.polys : \E ring \in ToSet(PolygonRings(text.polys[i])) :
            \E p \in ToSet(ring) : NonFinite \in ToSet(p)
       THEN [err |-> "NonFinite"]
  ELSE [zone |-> text.polys]

\* Zone::envelope: of the exterior rings; None if there is no point.
Envelope(z) ==
  LET points == UNION {ToSet(z[i].exterior) : i \in DOMAIN z}
      xs == {p[1] : p \in points}
      ys == {p[2] : p \in points}
  IN IF points = {} THEN None ELSE <<Min(xs), Min(ys), Max(xs), Max(ys)>>

\* The ray from <<x, y>> in direction +x crosses the edge from pj to pi.  The
\* division in the code is multiplied out.
Crosses(pi, pj, x, y) ==
  LET dx == pi[1] - pj[1]
      dy == pi[2] - pj[2]
      left == (x[1] - pj[1] * x[2]) * y[2] * dy
      right == (y[1] - pj[2] * y[2]) * x[2] * dx
  IN /\ Less(y, Frac(pi[2])) # Less(y, Frac(pj[2]))
     /\ IF dy > 0 THEN left < right ELSE right < left

\* The edges of a zone, each as <<pi, pj>> under its place; rings of fewer
\* than two points have none.
Edges(z) ==
  LET rings == Rings(z)
      prev(k, i) == IF i = 1 THEN Len(rings[k]) ELSE i - 1
      places == {ki \in (DOMAIN rings) \X (1..Max({0} \cup {Len(r) : r \in ToSet(rings)})) :
                   Len(rings[ki[1]]) >= 2 /\ ki[2] <= Len(rings[ki[1]])}
  IN [ki \in places |-> <<rings[ki[1]][ki[2]], rings[ki[1]][prev(ki[1], ki[2])]>>]

\* Mutant: the interiors of a polygon are not looked at.
ZoneContainsFilled(z, x, y) ==
  LET edges == Edges([i \in DOMAIN z |-> [z[i] EXCEPT !.interiors = <<>>]]) IN
    Cardinality({k \in DOMAIN edges : Crosses(edges[k][1], edges[k][2], x, y)}) % 2 = 1

\* Zone::contains: the parity of the crossings over all rings.
ZoneContains(z, x, y) ==
  LET edges == Edges(z) IN
    Cardinality({k \in DOMAIN edges : Crosses(edges[k][1], edges[k][2], x, y)}) % 2 = 1

=============================================================================
