-------------------------- MODULE PixelReaderProofs --------------------------
(***************************************************************************)
(* Theorems about PixelReader for every file, call and raster.               *)
(***************************************************************************)
EXTENDS PixelReader, FiniteSetTheorems, NaturalsInduction, WellFoundedInduction, TLAPS

(***************************************************************************)
(* Whole numbers.                                                            *)
(***************************************************************************)

\* Division rounds down.
LEMMA DivProps ==
  ASSUME NEW a \in Int, NEW w \in Nat \ {0}
  PROVE  a \div w \in Int /\ w * (a \div w) <= a /\ a < w * (a \div w) + w
OBVIOUS

\* A quotient is determined by its bounds.
LEMMA DivUnique ==
  ASSUME NEW a \in Int, NEW w \in Nat \ {0}, NEW q \in Int, q * w <= a, a < q * w + w
  PROVE  a \div w = q
<1> DEFINE d == a \div w
<1>1. d \in Int /\ w * d <= a /\ a < w * d + w
  BY DivProps
<1> HIDE DEF d
<1>2. (d - q) * w < w /\ (q - d) * w < w
  BY <1>1
<1>3. d - q < 1 /\ q - d < 1
  BY <1>1, <1>2
<1>4. QED
  BY <1>1, <1>3 DEF d

\* Division keeps the order.
LEMMA DivMonotone ==
  ASSUME NEW a \in Int, NEW b \in Int, NEW w \in Nat \ {0}, a <= b
  PROVE  a \div w <= b \div w
<1> DEFINE d == a \div w
           e == b \div w
<1>1. d \in Int /\ e \in Int /\ w * d <= a /\ b < w * e + w
  BY DivProps
<1> HIDE DEF d, e
<1>2. w * (d - e) < w
  BY <1>1
<1>3. d - e < 1
  BY <1>1, <1>2
<1>4. QED
  BY <1>1, <1>3 DEF d, e

\* The remainder is what division leaves.
LEMMA ModProps ==
  ASSUME NEW a \in Int, NEW w \in Nat \ {0}
  PROVE  a % w = a - w * (a \div w) /\ a % w \in 0..(w - 1)
OBVIOUS

\* A set of numbers has a least one.
LEMMA LeastExists ==
  ASSUME NEW T, T \subseteq Nat, T # {}
  PROVE  \E m \in T : \A n \in T : m <= n
<1>1. PICK m \in T : \A n \in T : ~(<<n, m>> \in OpToRel(<, Nat))
  BY NatLessThanWellFounded, WFMin, Zenon
<1>2. \A n \in T : ~(n < m)
  BY <1>1 DEF OpToRel
<1>3. QED
  BY <1>2

-----------------------------------------------------------------------------
(***************************************************************************)
(* Ranks and lists.                                                          *)
(***************************************************************************)

\* R orders S, and the elements of S before p.
Orders(R, S) ==
  /\ \A p \in S : <<p, p>> \notin R
  /\ \A p, q, r \in S : <<p, q>> \in R /\ <<q, r>> \in R => <<p, r>> \in R
  /\ \A p, q \in S : p = q \/ <<p, q>> \in R \/ <<q, p>> \in R

Below(R, S, p) == {q \in S : <<q, p>> \in R}
Rank(R, S, p) == Cardinality(Below(R, S, p))

\* Ranks count the elements from 0, tell them apart and leave no gap.
LEMMA RankProps ==
  ASSUME NEW R, NEW S, IsFiniteSet(S), Orders(R, S)
  PROVE  /\ Cardinality(S) \in Nat
         /\ \A p \in S : Rank(R, S, p) \in 0..(Cardinality(S) - 1)
         /\ \A p, q \in S : Rank(R, S, p) = Rank(R, S, q) => p = q
         /\ \A k \in 0..(Cardinality(S) - 1) : \E p \in S : Rank(R, S, p) = k
<1>1. /\ \A p \in S : <<p, p>> \notin R
      /\ \A p, q, r \in S : <<p, q>> \in R /\ <<q, r>> \in R => <<p, r>> \in R
      /\ \A p, q \in S : p = q \/ <<p, q>> \in R \/ <<q, p>> \in R
  BY DEF Orders
<1>2. Cardinality(S) \in Nat
  BY FS_CardinalityType
<1>3. \A p \in S : IsFiniteSet(Below(R, S, p)) /\ Rank(R, S, p) \in Nat
  BY FS_Subset, FS_CardinalityType DEF Below, Rank
<1>4. ASSUME NEW p \in S, NEW T, IsFiniteSet(T), Below(R, S, p) \cup {p} \subseteq T
      PROVE  Rank(R, S, p) + 1 <= Cardinality(T)
  <2>1. p \notin Below(R, S, p)
    BY <1>1 DEF Below
  <2>2. /\ IsFiniteSet(Below(R, S, p) \cup {p})
        /\ Cardinality(Below(R, S, p) \cup {p}) = Rank(R, S, p) + 1
    BY <1>3, <2>1, FS_AddElement DEF Rank
  <2>3. Below(R, S, p) \cup {p} \in SUBSET T
    BY <1>4
  <2>4. Cardinality(Below(R, S, p) \cup {p}) <= Cardinality(T)
    BY <1>4, <2>3, FS_Subset
  <2>5. QED
    BY <2>2, <2>4, Zenon
<1>5. \A p \in S : Rank(R, S, p) + 1 <= Cardinality(S)
  BY <1>4 DEF Below
<1>6. ASSUME NEW p \in S, NEW q \in S, <<p, q>> \in R
      PROVE  Rank(R, S, p) + 1 <= Rank(R, S, q)
  <2>1. Below(R, S, p) \cup {p} \subseteq Below(R, S, q)
    BY <1>1, <1>6 DEF Below
  <2>2. QED
    BY <1>3, <1>4, <2>1 DEF Rank
<1>7. \A p \in S : Rank(R, S, p) \in 0..(Cardinality(S) - 1)
  BY <1>2, <1>3, <1>5
<1>8. ASSUME NEW p \in S, NEW q \in S, Rank(R, S, p) = Rank(R, S, q)
      PROVE  p = q
  <2>1. ~(<<p, q>> \in R) /\ ~(<<q, p>> \in R)
    BY <1>3, <1>6, <1>8
  <2>2. QED
    BY <1>1, <2>1
<1>9. ASSUME NEW k \in 0..(Cardinality(S) - 1)
      PROVE  \E p \in S : Rank(R, S, p) = k
  <2> DEFINE K == 0..(Cardinality(S) - 1)
             f == [p \in S |-> Rank(R, S, p)]
  <2>1. IsFiniteSet(K) /\ Cardinality(K) = Cardinality(S)
    BY <1>2, FS_Interval
  <2>2. f \in [S -> K] /\ \A p, q \in S : f[p] = f[q] => p = q
    BY <1>7, <1>8
  <2>3. k \in K
    OBVIOUS
  <2> HIDE DEF K, f
  <2>4. f \in Injection(S, K)
    BY <2>2 DEF Injection, IsInjective
  <2>5. f \in Surjection(S, K)
    BY <2>1, <2>4, FS_Injection, Zenon
  <2>6. PICK p \in S : f[p] = k
    BY <2>3, <2>5 DEF Surjection
  <2>7. QED
    BY <2>6 DEF f
<1>10. QED
  BY <1>2, <1>7, <1>8, <1>9

\* A list of the elements of S, each once.
Lists(s, S) ==
  /\ Len(s) \in Nat /\ DOMAIN s = 1..Len(s)
  /\ Len(s) = Cardinality(S) /\ ToSet(s) = S
  /\ \A i, j \in DOMAIN s : s[i] = s[j] => i = j

\* A list by rank.
ByRank(s, R, S) ==
  /\ s = [k \in 1..Cardinality(S) |-> s[k]]
  /\ \A k \in 1..Cardinality(S) : s[k] \in S /\ Rank(R, S, s[k]) = k - 1

\* Such a list has every element once.
LEMMA RankedLists ==
  ASSUME NEW R, NEW S, IsFiniteSet(S), Orders(R, S), NEW s, ByRank(s, R, S)
  PROVE  Lists(s, S)
<1> DEFINE C == Cardinality(S)
<1>1. /\ C \in Nat
      /\ \A p \in S : Rank(R, S, p) \in 0..(C - 1)
      /\ \A p, q \in S : Rank(R, S, p) = Rank(R, S, q) => p = q
  BY RankProps
<1>2. /\ s = [k \in 1..C |-> s[k]]
      /\ \A k \in 1..C : s[k] \in S /\ Rank(R, S, s[k]) = k - 1
  BY DEF ByRank
<1> HIDE DEF C
<1>3. s \in Seq(S) /\ Len(s) = C /\ DOMAIN s = 1..C
  BY <1>1, <1>2
<1>4. \A i, j \in 1..C : s[i] = s[j] => i = j
  <2> SUFFICES ASSUME NEW i \in 1..C, NEW j \in 1..C, s[i] = s[j] PROVE i = j
    OBVIOUS
  <2>1. i - 1 = j - 1
    BY <1>2
  <2>2. QED
    BY <2>1
<1>5. ASSUME NEW p \in S
      PROVE  p \in ToSet(s)
  <2>1. Rank(R, S, p) + 1 \in 1..C /\ (Rank(R, S, p) + 1) - 1 = Rank(R, S, p)
    BY <1>1
  <2>2. s[Rank(R, S, p) + 1] = p
    BY <1>1, <1>2, <2>1
  <2>3. QED
    BY <1>3, <2>1, <2>2 DEF ToSet
<1>6. ToSet(s) \subseteq S
  BY <1>2, <1>3 DEF ToSet
<1>7. QED
  BY <1>1, <1>3, <1>4, <1>5, <1>6 DEF Lists, C

\* The two orders of tiles.
Tiles == Int \X Int
XPairs == {pq \in Tiles \X Tiles : XMajor(pq[1], pq[2])}
YPairs == {pq \in Tiles \X Tiles : YMajor(pq[1], pq[2])}

\* Both order every set of tiles.
LEMMA TileOrders ==
  ASSUME NEW S, S \subseteq Tiles
  PROVE  Orders(XPairs, S) /\ Orders(YPairs, S)
<1>1. \A p \in S : p = <<p[1], p[2]>> /\ p[1] \in Int /\ p[2] \in Int
  BY DEF Tiles
<1>2. \A p, q \in S : (<<p, q>> \in XPairs <=> XMajor(p, q)) /\ (<<p, q>> \in YPairs <=> YMajor(p, q))
  BY DEF XPairs, YPairs
<1>3. \A p \in S : ~XMajor(p, p) /\ ~YMajor(p, p)
  BY <1>1 DEF XMajor, YMajor
<1>4. \A p, q, r \in S : XMajor(p, q) /\ XMajor(q, r) => XMajor(p, r)
  BY <1>1 DEF XMajor
<1>5. \A p, q, r \in S : YMajor(p, q) /\ YMajor(q, r) => YMajor(p, r)
  BY <1>1 DEF YMajor
<1>6. ASSUME NEW p \in S, NEW q \in S
      PROVE  /\ p = q \/ XMajor(p, q) \/ XMajor(q, p)
             /\ p = q \/ YMajor(p, q) \/ YMajor(q, p)
  <2>1. p # q => p[1] # q[1] \/ p[2] # q[2]
    BY <1>1
  <2>2. QED
    BY <1>1, <2>1 DEF XMajor, YMajor
<1>7. QED
  BY <1>2, <1>3, <1>4, <1>5, <1>6, Zenon DEF Orders

\* The sorted list of tiles is by rank.
LEMMA SortedX ==
  ASSUME NEW S, S \subseteq Tiles, IsFiniteSet(S)
  PROVE  ByRank(Sorted(S, XMajor), XPairs, S) /\ Lists(Sorted(S, XMajor), S)
<1> DEFINE C == Cardinality(S)
           nth(k) == CHOOSE a \in S : Cardinality({b \in S : XMajor(b, a)}) = k - 1
<1>1. Orders(XPairs, S)
  BY TileOrders
<1>2. \A k \in 0..(C - 1) : \E p \in S : Rank(XPairs, S, p) = k
  BY <1>1, RankProps
<1>3. \A a \in S : Rank(XPairs, S, a) = Cardinality({b \in S : XMajor(b, a)})
  <2> SUFFICES ASSUME NEW a \in S PROVE Below(XPairs, S, a) = {b \in S : XMajor(b, a)}
    BY DEF Rank
  <2>1. QED
    BY DEF Below, XPairs
<1>4. Sorted(S, XMajor) = [k \in 1..C |-> nth(k)]
  BY DEF Sorted
<1>5. C \in Nat
  BY FS_CardinalityType
<1>6. ASSUME NEW k \in 1..C
      PROVE  nth(k) \in S /\ Rank(XPairs, S, nth(k)) = k - 1
  <2>1. k - 1 \in 0..(C - 1)
    BY <1>5
  <2>2. \E a \in S : Cardinality({b \in S : XMajor(b, a)}) = k - 1
    BY <1>2, <1>3, <2>1
  <2>3. nth(k) \in S /\ Cardinality({b \in S : XMajor(b, nth(k))}) = k - 1
    BY <2>2, Zenon
  <2>4. QED
    BY <1>3, <2>3
<1> HIDE DEF nth
<1>7. ByRank(Sorted(S, XMajor), XPairs, S)
  BY <1>4, <1>6 DEF ByRank, C
<1>8. QED
  BY <1>1, <1>7, RankedLists

\* The same row by row.
LEMMA SortedY ==
  ASSUME NEW S, S \subseteq Tiles, IsFiniteSet(S)
  PROVE  ByRank(Sorted(S, YMajor), YPairs, S) /\ Lists(Sorted(S, YMajor), S)
<1> DEFINE C == Cardinality(S)
           nth(k) == CHOOSE a \in S : Cardinality({b \in S : YMajor(b, a)}) = k - 1
<1>1. Orders(YPairs, S)
  BY TileOrders
<1>2. \A k \in 0..(C - 1) : \E p \in S : Rank(YPairs, S, p) = k
  BY <1>1, RankProps
<1>3. \A a \in S : Rank(YPairs, S, a) = Cardinality({b \in S : YMajor(b, a)})
  <2> SUFFICES ASSUME NEW a \in S PROVE Below(YPairs, S, a) = {b \in S : YMajor(b, a)}
    BY DEF Rank
  <2>1. QED
    BY DEF Below, YPairs
<1>4. Sorted(S, YMajor) = [k \in 1..C |-> nth(k)]
  BY DEF Sorted
<1>5. C \in Nat
  BY FS_CardinalityType
<1>6. ASSUME NEW k \in 1..C
      PROVE  nth(k) \in S /\ Rank(YPairs, S, nth(k)) = k - 1
  <2>1. k - 1 \in 0..(C - 1)
    BY <1>5
  <2>2. \E a \in S : Cardinality({b \in S : YMajor(b, a)}) = k - 1
    BY <1>2, <1>3, <2>1
  <2>3. nth(k) \in S /\ Cardinality({b \in S : YMajor(b, nth(k))}) = k - 1
    BY <2>2, Zenon
  <2>4. QED
    BY <1>3, <2>3
<1> HIDE DEF nth
<1>7. ByRank(Sorted(S, YMajor), YPairs, S)
  BY <1>4, <1>6 DEF ByRank, C
<1>8. QED
  BY <1>1, <1>7, RankedLists

-----------------------------------------------------------------------------
(***************************************************************************)
(* The metadata of a file.                                                   *)
(***************************************************************************)

\* What build_meta makes of an IFD, of its tags and of a file.
Level(lv) ==
  /\ lv.image_width \in Nat /\ lv.image_height \in Nat
  /\ lv.image_width < Widest /\ lv.image_height < Widest
  /\ lv.tile_width \in Nat \ {0} /\ lv.tile_height \in Nat \ {0}

NorthUp(g) ==
  /\ g = [origin_x |-> g.origin_x, origin_y |-> g.origin_y,
          pixel_x |-> g.pixel_x, pixel_y |-> g.pixel_y]
  /\ g.origin_x \in Int /\ g.origin_y \in Int
  /\ \E n \in Nat \ {0} : g.pixel_x = <<n, 1>>
  /\ \E n \in Nat \ {0} : g.pixel_y = <<n, 1>>

Metadata(m) ==
  /\ Len(m.levels) \in Nat /\ DOMAIN m.levels = 1..Len(m.levels)
  /\ m.levels # <<>> => Len(m.levels) > 0
  /\ \A i \in DOMAIN m.levels :
       /\ Level(m.levels[i])
       /\ m.levels[1].image_width = 0 => m.levels[i].image_width = 0
       /\ m.levels[1].image_height = 0 => m.levels[i].image_height = 0
  /\ m.georef # None => Len(m.levels) > 0 /\ NorthUp(m.georef)
  /\ m.num_bands \in Nat

\* Products of whole numbers are whole.
LEMMA WholeProducts ==
  ASSUME NEW a \in Int, NEW b \in Int, NEW c \in Int
  PROVE  a - b * c \in Int /\ a + b * c \in Int
OBVIOUS

\* The georeference that the tags of an IFD give.
LEMMA GeorefProps ==
  ASSUME NEW ifd, GeorefOf(ifd) # None,
         ifd.scale = None \/ (ifd.scale \in Seq(Int)
                               /\ \A k \in {1, 2} \cap DOMAIN ifd.scale : ifd.scale[k] > 0),
         ifd.tie = None \/ ifd.tie \in Seq(Int)
  PROVE  NorthUp(GeorefOf(ifd))
<1>1. ifd.scale # None /\ ifd.tie # None
  BY DEF GeorefOf
<1>2. /\ Len(ifd.scale) \in Nat /\ Len(ifd.scale) >= 2
      /\ Len(ifd.tie) \in Nat /\ Len(ifd.tie) >= 6
      /\ ifd.scale \in Seq(Int) /\ ifd.tie \in Seq(Int)
  BY <1>1 DEF GeorefOf
<1>3. /\ ifd.scale[1] \in Nat \ {0} /\ ifd.scale[2] \in Nat \ {0}
      /\ ifd.tie[1] \in Int /\ ifd.tie[2] \in Int /\ ifd.tie[4] \in Int /\ ifd.tie[5] \in Int
  <2>1. \A k \in 1..Len(ifd.scale) : ifd.scale[k] \in Int
    BY <1>2
  <2>2. \A k \in 1..Len(ifd.tie) : ifd.tie[k] \in Int
    BY <1>2
  <2>3. /\ DOMAIN ifd.scale = 1..Len(ifd.scale) /\ {1, 2} \subseteq 1..Len(ifd.scale)
        /\ \A k \in {1, 2, 4, 5} : k \in 1..Len(ifd.tie)
    BY <1>2
  <2>4. ifd.scale[1] > 0 /\ ifd.scale[2] > 0
    BY <1>1, <2>3
  <2>5. QED
    BY <2>1, <2>2, <2>3, <2>4
<1>4. GeorefOf(ifd) =
        [origin_x |-> ifd.tie[4] - ifd.tie[1] * ifd.scale[1],
         origin_y |-> ifd.tie[5] + ifd.tie[2] * ifd.scale[2],
         pixel_x |-> <<ifd.scale[1], 1>>,
         pixel_y |-> <<ifd.scale[2], 1>>]
  <2>1. ~(None \in {ifd.scale, ifd.tie})
    BY <1>1
  <2>2. ~(Len(ifd.scale) < 2 \/ Len(ifd.tie) < 6)
    BY <1>2
  <2>3. QED
    BY <2>1, <2>2, Zenon DEF GeorefOf, Frac
<1>5. /\ ifd.tie[4] - ifd.tie[1] * ifd.scale[1] \in Int
      /\ ifd.tie[5] + ifd.tie[2] * ifd.scale[2] \in Int
  <2>1. ifd.scale[1] \in Int /\ ifd.scale[2] \in Int
    BY <1>3
  <2>2. ifd.tie[4] - ifd.tie[1] * ifd.scale[1] \in Int
    BY <1>3, <2>1, WholeProducts, Zenon
  <2>3. ifd.tie[5] + ifd.tie[2] * ifd.scale[2] \in Int
    BY <1>3, <2>1, WholeProducts, Zenon
  <2>4. QED
    BY <2>2, <2>3
<1>6. QED
  BY <1>3, <1>4, <1>5 DEF NorthUp

\* A file that open_cog accepts has proper metadata.
LEMMA MetadataProps ==
  ASSUME NEW f \in Files
  PROVE  /\ Metadata(BuildMeta(f.ifds))
         /\ \A i \in 1..Len(BuildMeta(f.ifds).levels) :
              LET lv == BuildMeta(f.ifds).levels[i] IN
              \A c \in 0..(lv.image_width - 1), r \in 0..(lv.image_height - 1),
                 b \in 1..BuildMeta(f.ifds).num_bands : Pixel(i - 1, c, r, b) \in Int \cup {NaN}
<1> DEFINE ifds == f.ifds
           m == BuildMeta(ifds)
           lev(i) == [level |-> i - 1,
                        image_width |-> ifds[i].image_width,
                        image_height |-> ifds[i].image_height,
                        tile_width |-> ifds[i].tile_width,
                        tile_height |-> ifds[i].tile_height,
                        tiles_x |-> TilesX(ifds[i]), tiles_y |-> TilesY(ifds[i])]
<1>1. Readable(f)
  BY PixelReaderAssumption
<1>2. Len(ifds) \in Nat /\ DOMAIN ifds = 1..Len(ifds) /\ "levels" \in DOMAIN m
  BY <1>1 DEF Readable
<1>0. ifds \in Seq(ToSet(ifds))
  BY <1>1 DEF Readable
<1>3. \A i \in 1..Len(ifds) :
        /\ {ifds[i].image_width, ifds[i].image_height, ifds[i].samples_per_pixel} \subseteq Nat
        /\ ifds[i].image_width < Widest /\ ifds[i].image_height < Widest
        /\ {ifds[i].tile_width, ifds[i].tile_height} \subseteq Nat \ {0}
        /\ ifds[i].scale = None \/ (ifds[i].scale \in Seq(Int)
             /\ \A k \in {1, 2} \cap DOMAIN ifds[i].scale : ifds[i].scale[k] > 0)
        /\ ifds[i].tie = None \/ ifds[i].tie \in Seq(Int)
        /\ ifds[1].image_width = 0 => ifds[i].image_width = 0
        /\ ifds[1].image_height = 0 => ifds[i].image_height = 0
        /\ \A c \in 0..(ifds[i].image_width - 1), r \in 0..(ifds[i].image_height - 1),
              b \in 1..ifds[1].samples_per_pixel : Pixel(i - 1, c, r, b) \in Int \cup {NaN}
  <2> SUFFICES ASSUME NEW i \in 1..Len(ifds)
               PROVE  /\ {ifds[i].image_width, ifds[i].image_height, ifds[i].samples_per_pixel} \subseteq Nat
                      /\ ifds[i].image_width < Widest /\ ifds[i].image_height < Widest
                      /\ {ifds[i].tile_width, ifds[i].tile_height} \subseteq Nat \ {0}
                      /\ ifds[i].scale = None \/ (ifds[i].scale \in Seq(Int)
                           /\ \A k \in {1, 2} \cap DOMAIN ifds[i].scale : ifds[i].scale[k] > 0)
                      /\ ifds[i].tie = None \/ ifds[i].tie \in Seq(Int)
                      /\ ifds[1].image_width = 0 => ifds[i].image_width = 0
                      /\ ifds[1].image_height = 0 => ifds[i].image_height = 0
                      /\ \A c \in 0..(ifds[i].image_width - 1), r \in 0..(ifds[i].image_height - 1),
                            b \in 1..ifds[1].samples_per_pixel : Pixel(i - 1, c, r, b) \in Int \cup {NaN}
    OBVIOUS
  <2>1. i \in DOMAIN f.ifds
    BY <1>2
  <2>2. QED
    BY <1>1, <2>1, Zenon DEF Readable
<1>4. m = [levels |-> [i \in DOMAIN ifds |-> lev(i)],
           georef |-> IF ifds = <<>> THEN None ELSE GeorefOf(ifds[1]),
           num_bands |-> IF ifds = <<>> THEN 0 ELSE ifds[1].samples_per_pixel,
           nodata |-> IF ifds = <<>> THEN None ELSE ifds[1].nodata]
  BY <1>2 DEF BuildMeta
<1>5. /\ m.levels = [i \in 1..Len(ifds) |-> lev(i)]
      /\ m.georef = (IF ifds = <<>> THEN None ELSE GeorefOf(ifds[1]))
      /\ m.num_bands = (IF ifds = <<>> THEN 0 ELSE ifds[1].samples_per_pixel)
  BY <1>2, <1>4
<1> HIDE DEF m, ifds
<1>6. /\ Len(m.levels) = Len(ifds) /\ DOMAIN m.levels = 1..Len(ifds)
      /\ m.levels # <<>> => Len(m.levels) > 0
      /\ \A i \in 1..Len(ifds) :
           /\ m.levels[i].image_width = ifds[i].image_width
           /\ m.levels[i].image_height = ifds[i].image_height
           /\ m.levels[i].tile_width = ifds[i].tile_width
           /\ m.levels[i].tile_height = ifds[i].tile_height
  <2>1. \A i \in 1..Len(ifds) : m.levels[i] = lev(i)
    BY <1>5
  <2>2. m.levels \in Seq({lev(i) : i \in 1..Len(ifds)})
    BY <1>2, <1>5
  <2>3. QED
    BY <1>2, <1>5, <2>1, <2>2
<1>7. ifds # <<>> <=> Len(ifds) > 0
  BY <1>0
<1>8. ASSUME NEW i \in DOMAIN m.levels
      PROVE  /\ Level(m.levels[i])
             /\ m.levels[1].image_width = 0 => m.levels[i].image_width = 0
             /\ m.levels[1].image_height = 0 => m.levels[i].image_height = 0
  <2>1. i \in 1..Len(ifds) /\ 1 \in 1..Len(ifds)
    BY <1>2, <1>6
  <2>2. /\ ifds[i].image_width \in Nat /\ ifds[i].image_height \in Nat
        /\ ifds[i].image_width < Widest /\ ifds[i].image_height < Widest
        /\ ifds[i].tile_width \in Nat \ {0} /\ ifds[i].tile_height \in Nat \ {0}
        /\ ifds[1].image_width = 0 => ifds[i].image_width = 0
        /\ ifds[1].image_height = 0 => ifds[i].image_height = 0
    BY <1>3, <2>1
  <2>3. QED
    BY <1>6, <2>1, <2>2 DEF Level
<1>9. m.georef # None => Len(m.levels) > 0 /\ NorthUp(m.georef)
  <2> SUFFICES ASSUME m.georef # None PROVE Len(m.levels) > 0 /\ NorthUp(m.georef)
    OBVIOUS
  <2>1. Len(ifds) > 0 /\ m.georef = GeorefOf(ifds[1])
    BY <1>5, <1>7
  <2>2. 1 \in 1..Len(ifds)
    BY <1>2, <2>1
  <2>3. /\ ifds[1].scale = None \/ (ifds[1].scale \in Seq(Int)
             /\ \A k \in {1, 2} \cap DOMAIN ifds[1].scale : ifds[1].scale[k] > 0)
        /\ ifds[1].tie = None \/ ifds[1].tie \in Seq(Int)
    BY <1>3, <2>2
  <2>4. NorthUp(GeorefOf(ifds[1]))
    BY <2>1, <2>3, GeorefProps
  <2>5. QED
    BY <1>6, <2>1, <2>4
<1>10. m.num_bands \in Nat
  BY <1>2, <1>3, <1>5, <1>7
<1>11. Metadata(m)
  BY <1>2, <1>6, <1>8, <1>9, <1>10 DEF Metadata
<1>12. ASSUME NEW i \in 1..Len(m.levels), NEW c \in 0..(m.levels[i].image_width - 1),
              NEW r \in 0..(m.levels[i].image_height - 1), NEW b \in 1..m.num_bands
       PROVE  Pixel(i - 1, c, r, b) \in Int \cup {NaN}
  <2>1. i \in 1..Len(ifds) /\ m.num_bands = ifds[1].samples_per_pixel
    BY <1>2, <1>5, <1>6, <1>7
  <2>2. QED
    BY <1>3, <1>6, <2>1
<1>13. QED
  BY <1>11, <1>12 DEF m, ifds

-----------------------------------------------------------------------------
(***************************************************************************)
(* Windows: the pixels with their centre in a box.                           *)
(***************************************************************************)

\* The centre of cell c of length n / w from o is not before lo, not after hi.
After(o, n, w, lo, c) == 2 * w * (lo - o) <= (2 * c + 1) * n
Before(o, n, w, hi, c) == (2 * c + 1) * n <= 2 * w * (hi - o)

\* FirstCenter and LastCenter round to the first and the last such cell.
LEMMA CenterProps ==
  ASSUME NEW o \in Int, NEW n \in Nat \ {0}, NEW w \in Nat \ {0}, NEW v \in Int
  PROVE  /\ FirstCenter(v, o, <<n, w>>) \in Int
         /\ LastCenter(v, o, <<n, w>>) \in Int
         /\ \A c \in Int : FirstCenter(v, o, <<n, w>>) <= c <=> After(o, n, w, v, c)
         /\ \A c \in Int : c <= LastCenter(v, o, <<n, w>>) <=> Before(o, n, w, v, c)
<1> DEFINE a == 2 * (v - o) * w - n
           k == 2 * n
           f == (-a) \div k
           h == a \div k
<1>1. a \in Int /\ -a \in Int /\ k \in Nat \ {0}
  OBVIOUS
<1>2. /\ FirstCenter(v, o, <<n, w>>) = -f /\ LastCenter(v, o, <<n, w>>) = h
  BY DEF FirstCenter, LastCenter, CeilDiv
<1> HIDE DEF a, k
<1>3. /\ f \in Int /\ k * f <= -a /\ -a < k * f + k
      /\ h \in Int /\ k * h <= a /\ a < k * h + k
  BY <1>1, DivProps
<1> HIDE DEF f, h
<1>4. ASSUME NEW c \in Int
      PROVE  (-f <= c <=> a <= k * c) /\ (c <= h <=> k * c <= a)
  <2>1. k * (-f - 1) < a /\ a <= k * (-f) /\ k * h <= a /\ a < k * (h + 1)
    BY <1>1, <1>3
  <2>2. -f <= c => k * (-f) <= k * c
    BY <1>1, <1>3
  <2>3. c <= -f - 1 => k * c <= k * (-f - 1)
    BY <1>1, <1>3
  <2>4. c <= h => k * c <= k * h
    BY <1>1, <1>3
  <2>5. c >= h + 1 => k * c >= k * (h + 1)
    BY <1>1, <1>3
  <2>6. k * c \in Int /\ k * (-f) \in Int /\ k * (-f - 1) \in Int /\ k * h \in Int /\ k * (h + 1) \in Int
    BY <1>1, <1>3
  <2>7. QED
    BY <1>1, <1>3, <2>1, <2>2, <2>3, <2>4, <2>5, <2>6
<1>5. ASSUME NEW c \in Int
      PROVE  /\ a <= k * c <=> After(o, n, w, v, c)
             /\ k * c <= a <=> Before(o, n, w, v, c)
  <2>1. k * c = (2 * c + 1) * n - n
    BY DEF k
  <2>2. a = 2 * w * (v - o) - n
    BY DEF a
  <2>3. (2 * c + 1) * n \in Int /\ 2 * w * (v - o) \in Int
    OBVIOUS
  <2>4. QED
    BY <2>1, <2>2, <2>3 DEF After, Before
<1>6. QED
  BY <1>2, <1>3, <1>4, <1>5

\* The larger and the smaller of two numbers.
LEMMA MaxOfTwo ==
  ASSUME NEW a \in Int, NEW b \in Int
  PROVE  Max({a, b}) = (IF a >= b THEN a ELSE b)
BY DEF Max

LEMMA MinOfTwo ==
  ASSUME NEW a \in Int, NEW b \in Int
  PROVE  Min({a, b}) = (IF a <= b THEN a ELSE b)
BY DEF Min

\* Boxes and windows of finite corners.
IntBoxes == Int \X Int \X Int \X Int

\* A georeference with pixels of nx / wx by ny / wy units.
Geo(g, nx, wx, ny, wy) ==
  /\ g.origin_x \in Int /\ g.origin_y \in Int
  /\ {nx, wx, ny, wy} \subseteq Nat \ {0}
  /\ g.pixel_x = <<nx, wx>> /\ g.pixel_y = <<ny, wy>>

\* The centre of a pixel against the edges of a box.
CentreIn(g, b, c, r) ==
  LET p == Center(g, c, r) IN
    /\ Leq(Frac(b[1]), p[1]) /\ Leq(p[1], Frac(b[3]))
    /\ Leq(Frac(b[2]), p[2]) /\ Leq(p[2], Frac(b[4]))

LEMMA CentreAxes ==
  ASSUME NEW g, NEW nx, NEW wx, NEW ny, NEW wy, Geo(g, nx, wx, ny, wy),
         NEW b \in IntBoxes, NEW c \in Int, NEW r \in Int
  PROVE  CentreIn(g, b, c, r) <=>
           /\ After(g.origin_x, nx, wx, b[1], c) /\ Before(g.origin_x, nx, wx, b[3], c)
           /\ After(-g.origin_y, ny, wy, -b[4], r) /\ Before(-g.origin_y, ny, wy, -b[2], r)
<1> DEFINE ox == g.origin_x
           oy == g.origin_y
           x == (2 * c + 1) * nx
           y == (2 * r + 1) * ny
<1>1. /\ ox \in Int /\ oy \in Int /\ {nx, wx, ny, wy} \subseteq Nat \ {0}
      /\ g.pixel_x = <<nx, wx>> /\ g.pixel_y = <<ny, wy>>
  BY DEF Geo
<1>2. b[1] \in Int /\ b[2] \in Int /\ b[3] \in Int /\ b[4] \in Int
  BY DEF IntBoxes
<1>3. Center(g, c, r) = <<<<2 * ox * wx + x, 2 * wx>>, <<2 * oy * wy - y, 2 * wy>>>>
  BY <1>1 DEF Center
<1>4. x \in Int /\ y \in Int
  BY <1>1
<1> HIDE DEF x, y, ox, oy
<1>5. CentreIn(g, b, c, r) <=>
        /\ b[1] * (2 * wx) <= (2 * ox * wx + x) * 1 /\ (2 * ox * wx + x) * 1 <= b[3] * (2 * wx)
        /\ b[2] * (2 * wy) <= (2 * oy * wy - y) * 1 /\ (2 * oy * wy - y) * 1 <= b[4] * (2 * wy)
  BY <1>3 DEF CentreIn, Leq, Frac
<1>6. ASSUME NEW v \in Int, NEW o \in Int, NEW w \in Nat
      PROVE  /\ v * (2 * w) = 2 * w * v /\ 2 * o * w = 2 * w * o
             /\ 2 * w * (v - o) = 2 * w * v - 2 * w * o
             /\ 2 * w * (-v - (-o)) = 2 * w * o - 2 * w * v
             /\ 2 * w * v \in Int /\ 2 * w * o \in Int
  OBVIOUS
<1>7. /\ After(ox, nx, wx, b[1], c) <=> 2 * wx * (b[1] - ox) <= x
      /\ Before(ox, nx, wx, b[3], c) <=> x <= 2 * wx * (b[3] - ox)
      /\ After(-oy, ny, wy, -b[4], r) <=> 2 * wy * (-b[4] - (-oy)) <= y
      /\ Before(-oy, ny, wy, -b[2], r) <=> y <= 2 * wy * (-b[2] - (-oy))
  BY DEF After, Before, x, y
<1>8. /\ b[1] * (2 * wx) <= (2 * ox * wx + x) * 1 <=> 2 * wx * (b[1] - ox) <= x
      /\ (2 * ox * wx + x) * 1 <= b[3] * (2 * wx) <=> x <= 2 * wx * (b[3] - ox)
  BY <1>1, <1>2, <1>4, <1>6
<1>9. /\ b[2] * (2 * wy) <= (2 * oy * wy - y) * 1 <=> y <= 2 * wy * (-b[2] - (-oy))
      /\ (2 * oy * wy - y) * 1 <= b[4] * (2 * wy) <=> 2 * wy * (-b[4] - (-oy)) <= y
  BY <1>1, <1>2, <1>4, <1>6
<1>10. QED
  BY <1>5, <1>7, <1>8, <1>9 DEF ox, oy

\* The pixels of an image, of those the ones with their centre in a box, and
\* the pixels of a window.
Image(lv) == (0..(lv.image_width - 1)) \X (0..(lv.image_height - 1))
CentredIn(g, lv, b) == {cr \in Image(lv) : CentreIn(g, b, cr[1], cr[2])}
Covered(w) == (w[1]..w[2]) \X (w[3]..w[4])

\* A window of an image.
Window(w, lv) ==
  /\ w \in IntBoxes
  /\ 0 <= w[1] /\ w[1] <= w[2] /\ w[2] < lv.image_width
  /\ 0 <= w[3] /\ w[3] <= w[4] /\ w[4] < lv.image_height

\* center_window finds the window of the pixels with their centre in the box,
\* or none if there are none.
LEMMA WindowPixels ==
  ASSUME NEW g, NEW nx, NEW wx, NEW ny, NEW wy, Geo(g, nx, wx, ny, wy),
         NEW lv, Level(lv), NEW b \in IntBoxes
  PROVE  /\ CenterWindow(g, lv, b) = None => CentredIn(g, lv, b) = {}
         /\ CenterWindow(g, lv, b) # None =>
              /\ Window(CenterWindow(g, lv, b), lv)
              /\ CentredIn(g, lv, b) = Covered(CenterWindow(g, lv, b))
<1> DEFINE W == lv.image_width
           H == lv.image_height
           f1 == FirstCenter(b[1], g.origin_x, g.pixel_x)
           l1 == LastCenter(b[3], g.origin_x, g.pixel_x)
           f2 == FirstCenter(-b[4], -g.origin_y, g.pixel_y)
           l2 == LastCenter(-b[2], -g.origin_y, g.pixel_y)
           w == <<Max({f1, 0}), Min({l1, W - 1}), Max({f2, 0}), Min({l2, H - 1})>>
<1>1. W \in Nat /\ H \in Nat
  BY DEF Level
<1>2. b[1] \in Int /\ b[2] \in Int /\ b[3] \in Int /\ b[4] \in Int
  BY DEF IntBoxes
<1>3. /\ g.origin_x \in Int /\ g.origin_y \in Int /\ -g.origin_y \in Int
      /\ -b[4] \in Int /\ -b[2] \in Int
      /\ {nx, wx, ny, wy} \subseteq Nat \ {0}
      /\ g.pixel_x = <<nx, wx>> /\ g.pixel_y = <<ny, wy>>
  BY <1>2 DEF Geo
<1>4. /\ f1 \in Int /\ l1 \in Int
      /\ \A c \in Int : f1 <= c <=> After(g.origin_x, nx, wx, b[1], c)
      /\ \A c \in Int : c <= l1 <=> Before(g.origin_x, nx, wx, b[3], c)
  BY <1>2, <1>3, CenterProps
<1>5. /\ f2 \in Int /\ l2 \in Int
      /\ \A r \in Int : f2 <= r <=> After(-g.origin_y, ny, wy, -b[4], r)
      /\ \A r \in Int : r <= l2 <=> Before(-g.origin_y, ny, wy, -b[2], r)
  BY <1>2, <1>3, CenterProps
<1>6. CenterWindow(g, lv, b) =
        IF 0 \in {W, H} THEN None ELSE IF w[1] > w[2] \/ w[3] > w[4] THEN None ELSE w
  BY DEF CenterWindow
<1> HIDE DEF f1, l1, f2, l2, W, H
<1>7. /\ w \in IntBoxes
      /\ w[1] = (IF f1 >= 0 THEN f1 ELSE 0) /\ w[2] = (IF l1 <= W - 1 THEN l1 ELSE W - 1)
      /\ w[3] = (IF f2 >= 0 THEN f2 ELSE 0) /\ w[4] = (IF l2 <= H - 1 THEN l2 ELSE H - 1)
  BY <1>1, <1>4, <1>5, MaxOfTwo, MinOfTwo DEF IntBoxes
<1> HIDE DEF w
<1>8. ASSUME NEW c \in 0..(W - 1), NEW r \in 0..(H - 1)
      PROVE  CentreIn(g, b, c, r) <=> c \in w[1]..w[2] /\ r \in w[3]..w[4]
  <2>1. CentreIn(g, b, c, r) <=> f1 <= c /\ c <= l1 /\ f2 <= r /\ r <= l2
    BY <1>1, <1>4, <1>5, CentreAxes
  <2>2. QED
    BY <1>1, <1>4, <1>5, <1>7, <2>1
<1>9. CASE 0 \in {W, H}
  <2>1. Image(lv) = {}
    BY <1>1, <1>9 DEF Image, W, H
  <2>2. QED
    BY <1>6, <1>9, <2>1 DEF CentredIn
<1>10. CASE 0 \notin {W, H} /\ (w[1] > w[2] \/ w[3] > w[4])
  <2>1. CenterWindow(g, lv, b) = None
    BY <1>6, <1>10
  <2>2. ASSUME NEW cr \in Image(lv) PROVE ~CentreIn(g, b, cr[1], cr[2])
    <3>1. cr[1] \in 0..(W - 1) /\ cr[2] \in 0..(H - 1)
      BY DEF Image, W, H
    <3>2. QED
      BY <1>7, <1>8, <1>10, <3>1 DEF IntBoxes
  <2>3. QED
    BY <2>1, <2>2 DEF CentredIn
<1>11. CASE 0 \notin {W, H} /\ ~(w[1] > w[2] \/ w[3] > w[4])
  <2>1. CenterWindow(g, lv, b) = w
    BY <1>6, <1>11
  <2>2. Window(w, lv)
    BY <1>1, <1>4, <1>5, <1>7, <1>11 DEF Window, W, H
  <2>3. w[1]..w[2] \subseteq 0..(W - 1) /\ w[3]..w[4] \subseteq 0..(H - 1)
    BY <1>1, <1>4, <1>5, <1>7
  <2>4. ASSUME NEW cr \in Covered(w)
        PROVE  cr \in CentredIn(g, lv, b)
    <3>1. /\ cr = <<cr[1], cr[2]>> /\ cr[1] \in w[1]..w[2] /\ cr[2] \in w[3]..w[4]
      BY DEF Covered
    <3>2. cr[1] \in 0..(W - 1) /\ cr[2] \in 0..(H - 1)
      BY <2>3, <3>1
    <3>3. CentreIn(g, b, cr[1], cr[2])
      BY <1>8, <3>1, <3>2
    <3>4. QED
      BY <3>1, <3>2, <3>3 DEF CentredIn, Image, W, H
  <2>5. ASSUME NEW cr \in CentredIn(g, lv, b)
        PROVE  cr \in Covered(w)
    <3>1. /\ cr = <<cr[1], cr[2]>> /\ cr[1] \in 0..(W - 1) /\ cr[2] \in 0..(H - 1)
          /\ CentreIn(g, b, cr[1], cr[2])
      BY DEF CentredIn, Image, W, H
    <3>2. cr[1] \in w[1]..w[2] /\ cr[2] \in w[3]..w[4]
      BY <1>8, <3>1
    <3>3. QED
      BY <3>1, <3>2 DEF Covered
  <2>6. CentredIn(g, lv, b) = Covered(w)
    BY <2>4, <2>5
  <2>7. w # None
    BY <1>7, PixelReaderAssumption, Zenon DEF IntBoxes
  <2>8. QED
    BY <2>1, <2>2, <2>6, <2>7
<1>12. QED
  BY <1>9, <1>10, <1>11

-----------------------------------------------------------------------------
(***************************************************************************)
(* The tiles of a window.                                                    *)
(***************************************************************************)

\* The quotients of an interval are those between the ends'.
LEMMA DivRange ==
  ASSUME NEW a \in Int, NEW b \in Int, a <= b, NEW w \in Nat \ {0}
  PROVE  /\ \A c \in a..b : c \div w \in (a \div w)..(b \div w)
         /\ \A t \in (a \div w)..(b \div w) : \E c \in a..b : c \div w = t
<1>1. a \div w \in Int /\ b \div w \in Int
  BY DivProps
<1>2. ASSUME NEW c \in a..b
      PROVE  c \div w \in (a \div w)..(b \div w)
  <2>1. c \in Int /\ a <= c /\ c <= b /\ c \div w \in Int
    BY DivProps
  <2>2. a \div w <= c \div w /\ c \div w <= b \div w
    BY <2>1, DivMonotone
  <2>3. QED
    BY <1>1, <2>1, <2>2
<1>3. ASSUME NEW t \in (a \div w)..(b \div w)
      PROVE  \E c \in a..b : c \div w = t
  <2>1. t \in Int /\ t * w \in Int
    BY <1>1
  <2>2. CASE t * w >= a
    <3>1. w * (b \div w) <= b
      BY DivProps
    <3>2. t * w <= w * (b \div w)
      BY <1>1, <2>1
    <3>3. w * (b \div w) \in Int
      BY <1>1
    <3>4. t * w \in a..b
      BY <2>1, <2>2, <3>1, <3>2, <3>3
    <3>5. (t * w) \div w = t
      BY <2>1, DivUnique
    <3>6. QED
      BY <3>4, <3>5
  <2>3. CASE t * w < a
    <3>1. w * (a \div w) <= a /\ a < w * (a \div w) + w
      BY DivProps
    <3>2. w * (a \div w) <= t * w
      BY <1>1, <2>1
    <3>3. a \div w = t
      <4>1. w * (a \div w) \in Int
        BY <1>1
      <4>2. a < t * w + w
        BY <2>1, <3>1, <3>2, <4>1
      <4>3. QED
        BY <2>1, <2>3, <4>2, DivUnique
    <3>4. QED
      BY <3>3
  <2>4. QED
    BY <2>1, <2>2, <2>3
<1>4. QED
  BY <1>2, <1>3

\* The tile of a pixel, and the tiles of a window.
TileOf(lv, cr) == <<cr[1] \div lv.tile_width, cr[2] \div lv.tile_height>>
TileRange(lv, w) ==
  ((w[1] \div lv.tile_width)..(w[2] \div lv.tile_width))
    \X ((w[3] \div lv.tile_height)..(w[4] \div lv.tile_height))

\* The tiles of a window are those of its pixels.
LEMMA RangeCovered ==
  ASSUME NEW lv, Level(lv), NEW w, Window(w, lv)
  PROVE  /\ TileRange(lv, w) = {TileOf(lv, cr) : cr \in Covered(w)}
         /\ TileRange(lv, w) \subseteq Tiles /\ IsFiniteSet(TileRange(lv, w))
<1> DEFINE tw == lv.tile_width
           th == lv.tile_height
<1>1. tw \in Nat \ {0} /\ th \in Nat \ {0}
  BY DEF Level
<1>2. /\ w[1] \in Int /\ w[2] \in Int /\ w[3] \in Int /\ w[4] \in Int
      /\ w[1] <= w[2] /\ w[3] <= w[4]
  BY DEF Window, IntBoxes
<1>3. /\ w[1] \div tw \in Int /\ w[2] \div tw \in Int
      /\ w[3] \div th \in Int /\ w[4] \div th \in Int
  BY <1>1, <1>2, DivProps
<1> DEFINE X == (w[1] \div tw)..(w[2] \div tw)
           Y == (w[3] \div th)..(w[4] \div th)
<1>4. /\ \A c \in w[1]..w[2] : c \div tw \in X
      /\ \A t \in X : \E c \in w[1]..w[2] : c \div tw = t
      /\ \A r \in w[3]..w[4] : r \div th \in Y
      /\ \A t \in Y : \E r \in w[3]..w[4] : r \div th = t
  <2>1. \A t \in Nat \ {0} : \A a, b \in Int : a <= b =>
          /\ \A c \in a..b : c \div t \in (a \div t)..(b \div t)
          /\ \A q \in (a \div t)..(b \div t) : \E c \in a..b : c \div t = q
    BY DivRange
  <2>2. /\ \A c \in w[1]..w[2] : c \div tw \in X
        /\ \A t \in X : \E c \in w[1]..w[2] : c \div tw = t
    BY <1>1, <1>2, <2>1, Zenon
  <2>3. /\ \A r \in w[3]..w[4] : r \div th \in Y
        /\ \A t \in Y : \E r \in w[3]..w[4] : r \div th = t
    BY <1>1, <1>2, <2>1, Zenon
  <2>4. QED
    BY <2>2, <2>3, Zenon
<1>5. X \subseteq Int /\ Y \subseteq Int /\ IsFiniteSet(X) /\ IsFiniteSet(Y)
  BY <1>3, FS_Interval
<1>6. TileRange(lv, w) = X \X Y
  BY DEF TileRange
<1>7. \A cr : TileOf(lv, cr) = <<cr[1] \div tw, cr[2] \div th>>
  BY DEF TileOf
<1> HIDE DEF X, Y, tw, th
<1>8. ASSUME NEW cr \in Covered(w)
      PROVE  TileOf(lv, cr) \in X \X Y
  <2>1. cr[1] \in w[1]..w[2] /\ cr[2] \in w[3]..w[4]
    BY DEF Covered
  <2>2. QED
    BY <1>4, <1>7, <2>1
<1>9. ASSUME NEW t \in X \X Y
      PROVE  \E cr \in Covered(w) : TileOf(lv, cr) = t
  <2>1. t = <<t[1], t[2]>> /\ t[1] \in X /\ t[2] \in Y
    OBVIOUS
  <2>2. PICK c \in w[1]..w[2] : c \div tw = t[1]
    BY <1>4, <2>1
  <2>3. PICK r \in w[3]..w[4] : r \div th = t[2]
    BY <1>4, <2>1
  <2>4. <<c, r>> \in Covered(w)
    BY DEF Covered
  <2>5. TileOf(lv, <<c, r>>) = t
    BY <1>7, <2>1, <2>2, <2>3
  <2>6. QED
    BY <2>4, <2>5
<1>10. X \X Y = {TileOf(lv, cr) : cr \in Covered(w)}
  <2> DEFINE R == X \X Y
  <2> HIDE DEF R
  <2>1. \A cr \in Covered(w) : TileOf(lv, cr) \in R
    BY <1>8 DEF R
  <2>2. \A t \in R : \E cr \in Covered(w) : TileOf(lv, cr) = t
    BY <1>9 DEF R
  <2>3. R = {TileOf(lv, cr) : cr \in Covered(w)}
    BY <2>1, <2>2, Zenon
  <2>4. QED
    BY <2>3 DEF R
<1>11. X \X Y \subseteq Tiles /\ IsFiniteSet(X \X Y)
  BY <1>5, FS_Product, Zenon DEF Tiles
<1>12. QED
  BY <1>6, <1>10, <1>11

\* The list of the tiles of a window.
LEMMA WindowList ==
  ASSUME NEW lv, Level(lv), NEW w, Window(w, lv)
  PROVE  Lists(TilesOf(lv, w), TileRange(lv, w))
<1>1. TilesOf(lv, w) = Sorted(TileRange(lv, w), YMajor)
  BY DEF TilesOf, WindowTiles, TileRange
<1>2. QED
  BY <1>1, RangeCovered, SortedY

-----------------------------------------------------------------------------
(***************************************************************************)
(* The levels of a reader.                                                   *)
(***************************************************************************)

\* A reader of a file, with the zones of its call.
Reading ==
  /\ file \in Files /\ req \in Requests
  /\ meta = BuildMeta(file.ifds) /\ zones = ZonesOf(req)

\* What the level functions work on.
LEMMA ReadingMeta ==
  ASSUME Reading
  PROVE  Metadata(meta) /\ req \in Calls
BY MetadataProps, PixelReaderAssumption DEF Reading

\* The levels of the reader.
LEMMA LevelProps ==
  ASSUME Metadata(meta), NEW l \in 0..(Len(meta.levels) - 1)
  PROVE  /\ Level(Lv(l)) /\ Level(Lv(0))
         /\ Lv(0).image_width = 0 => Lv(l).image_width = 0
         /\ Lv(0).image_height = 0 => Lv(l).image_height = 0
<1>1. Len(meta.levels) \in Nat /\ l + 1 \in DOMAIN meta.levels /\ 1 \in DOMAIN meta.levels
  BY DEF Metadata
<1>2. Lv(0) = meta.levels[1] /\ Lv(l) = meta.levels[l + 1]
  BY DEF Lv
<1>3. QED
  BY <1>1, <1>2 DEF Metadata

\* The pixels of a level that has any.
LEMMA LevelGeo ==
  ASSUME Metadata(meta), meta.georef # None, NEW l \in 0..(Len(meta.levels) - 1),
         Lv(l).image_width # 0, Lv(l).image_height # 0
  PROVE  \E nx, wx, ny, wy \in Nat : Geo(G(l), nx, wx, ny, wy)
<1> DEFINE g == meta.georef
           l0 == Lv(0)
           lv == Lv(l)
<1>1. /\ l0.image_width \in Nat \ {0} /\ l0.image_height \in Nat \ {0}
      /\ lv.image_width \in Nat \ {0} /\ lv.image_height \in Nat \ {0}
  BY LevelProps DEF Level
<1>2. PICK px \in Nat \ {0}, py \in Nat \ {0} : g.pixel_x = <<px, 1>> /\ g.pixel_y = <<py, 1>>
  BY DEF Metadata, NorthUp
<1>3. g = [origin_x |-> g.origin_x, origin_y |-> g.origin_y,
           pixel_x |-> g.pixel_x, pixel_y |-> g.pixel_y]
      /\ g.origin_x \in Int /\ g.origin_y \in Int
  BY DEF Metadata, NorthUp
<1>4. G(l) = LevelGeoref(g, l0, lv)
  BY DEF G, Lv
<1> HIDE DEF g, l0, lv
<1>5. /\ G(l).origin_x = g.origin_x /\ G(l).origin_y = g.origin_y
      /\ G(l).pixel_x = <<g.pixel_x[1] * l0.image_width, g.pixel_x[2] * lv.image_width>>
      /\ G(l).pixel_y = <<g.pixel_y[1] * l0.image_height, g.pixel_y[2] * lv.image_height>>
  BY <1>3, <1>4 DEF LevelGeoref
<1>6. /\ px * l0.image_width \in Nat \ {0} /\ py * l0.image_height \in Nat \ {0}
      /\ 1 * lv.image_width = lv.image_width /\ 1 * lv.image_height = lv.image_height
  BY <1>1, <1>2
<1>7. Geo(G(l), px * l0.image_width, lv.image_width, py * l0.image_height, lv.image_height)
  BY <1>1, <1>2, <1>3, <1>5, <1>6 DEF Geo
<1>8. QED
  BY <1>1, <1>6, <1>7

\* Centres against an edge do not change when length and number of the cells
\* are scaled alike.
LEMMA ScaledEdges ==
  ASSUME NEW o \in Int, NEW n \in Nat, NEW k \in Nat \ {0}, NEW v \in Int, NEW c \in Int
  PROVE  /\ After(o, n * k, k, v, c) <=> After(o, n, 1, v, c)
         /\ Before(o, n * k, k, v, c) <=> Before(o, n, 1, v, c)
<1> DEFINE x == 2 * (v - o)
           y == (2 * c + 1) * n
<1>1. x \in Int /\ y \in Int
  OBVIOUS
<1>2. /\ 2 * k * (v - o) = k * x /\ (2 * c + 1) * (n * k) = k * y
      /\ 2 * 1 * (v - o) = x
  OBVIOUS
<1> HIDE DEF x, y
<1>3. (k * x <= k * y <=> x <= y) /\ (k * y <= k * x <=> y <= x)
  <2>1. x <= y => k * x <= k * y
    BY <1>1
  <2>2. y <= x => k * y <= k * x
    BY <1>1
  <2>3. x < y => k * x < k * y
    BY <1>1
  <2>4. y < x => k * y < k * x
    BY <1>1
  <2>5. k * x \in Int /\ k * y \in Int
    BY <1>1
  <2>6. QED
    BY <1>1, <2>1, <2>2, <2>3, <2>4, <2>5
<1>4. QED
  BY <1>2, <1>3 DEF After, Before, y

\* The window of a box at a level is that of the pixels with their centre in
\* it.
LEMMA LevelWindow ==
  ASSUME Metadata(meta), meta.georef # None, NEW l \in 0..(Len(meta.levels) - 1),
         NEW b \in IntBoxes
  PROVE  /\ CenterWindow(G(l), Lv(l), b) = None => Centred(l, b) = {}
         /\ CenterWindow(G(l), Lv(l), b) # None =>
              /\ Window(CenterWindow(G(l), Lv(l), b), Lv(l))
              /\ Centred(l, b) = Covered(CenterWindow(G(l), Lv(l), b))
<1>1. Level(Lv(l))
  BY LevelProps
<1>2. Centred(l, b) = CentredIn(G(l), Lv(l), b)
  BY DEF Centred, CentredIn, CentreIn, Raster, Image
<1>3. CASE Lv(l).image_width = 0 \/ Lv(l).image_height = 0
  <2>1. Image(Lv(l)) = {}
    BY <1>1, <1>3 DEF Level, Image
  <2>2. CenterWindow(G(l), Lv(l), b) = None
    BY <1>3 DEF CenterWindow
  <2>3. QED
    BY <1>2, <2>1, <2>2 DEF CentredIn
<1>4. CASE ~(Lv(l).image_width = 0 \/ Lv(l).image_height = 0)
  <2>1. PICK nx, wx, ny, wy \in Nat : Geo(G(l), nx, wx, ny, wy)
    BY <1>4, LevelGeo
  <2>2. QED
    BY <1>1, <1>2, <2>1, WindowPixels
<1>5. QED
  BY <1>3, <1>4

\* The same at level 0 with the georeference of the file.
LEMMA BaseWindow ==
  ASSUME Metadata(meta), meta.georef # None, NEW b \in IntBoxes
  PROVE  /\ CenterWindow(meta.georef, Lv(0), b) = None => Centred(0, b) = {}
         /\ CenterWindow(meta.georef, Lv(0), b) # None =>
              /\ Window(CenterWindow(meta.georef, Lv(0), b), Lv(0))
              /\ Centred(0, b) = Covered(CenterWindow(meta.georef, Lv(0), b))
<1> DEFINE g == meta.georef
           lv == Lv(0)
<1>0. 0 \in 0..(Len(meta.levels) - 1)
  BY DEF Metadata
<1>1. Level(lv)
  BY <1>0, LevelProps
<1>2. PICK px \in Nat \ {0}, py \in Nat \ {0} : g.pixel_x = <<px, 1>> /\ g.pixel_y = <<py, 1>>
  BY DEF Metadata, NorthUp
<1>3. Geo(g, px, 1, py, 1)
  BY <1>2 DEF Metadata, NorthUp, Geo
<1>4. Centred(0, b) = CentredIn(G(0), lv, b)
  BY DEF Centred, CentredIn, CentreIn, Raster, Image
<1>5. CentredIn(G(0), lv, b) = CentredIn(g, lv, b)
  <2>1. CASE lv.image_width = 0 \/ lv.image_height = 0
    <3>1. Image(lv) = {}
      BY <1>1, <2>1 DEF Level, Image
    <3>2. QED
      BY <3>1 DEF CentredIn
  <2>2. CASE ~(lv.image_width = 0 \/ lv.image_height = 0)
    <3> DEFINE W == lv.image_width
               H == lv.image_height
    <3>1. W \in Nat \ {0} /\ H \in Nat \ {0}
      BY <1>1, <2>2 DEF Level
    <3>2. /\ G(0).origin_x = g.origin_x /\ G(0).origin_y = g.origin_y
          /\ G(0).pixel_x = <<px * W, 1 * W>> /\ G(0).pixel_y = <<py * H, 1 * H>>
      BY <1>2 DEF Metadata, NorthUp, G, Lv, LevelGeoref
    <3>3. px * W \in Nat \ {0} /\ py * H \in Nat \ {0} /\ 1 * W = W /\ 1 * H = H
      BY <3>1
    <3>4. Geo(G(0), px * W, W, py * H, H)
      BY <1>3, <3>1, <3>2, <3>3 DEF Geo
    <3>5. /\ g.origin_x \in Int /\ g.origin_y \in Int /\ -g.origin_y \in Int
          /\ b[1] \in Int /\ -b[2] \in Int /\ b[3] \in Int /\ -b[4] \in Int
      BY <1>3 DEF Geo, IntBoxes
    <3>6. ASSUME NEW c \in Int, NEW r \in Int
          PROVE  CentreIn(G(0), b, c, r) <=> CentreIn(g, b, c, r)
      <4>1. CentreIn(G(0), b, c, r) <=>
              /\ After(g.origin_x, px * W, W, b[1], c) /\ Before(g.origin_x, px * W, W, b[3], c)
              /\ After(-g.origin_y, py * H, H, -b[4], r) /\ Before(-g.origin_y, py * H, H, -b[2], r)
        BY <3>2, <3>4, CentreAxes
      <4>2. CentreIn(g, b, c, r) <=>
              /\ After(g.origin_x, px, 1, b[1], c) /\ Before(g.origin_x, px, 1, b[3], c)
              /\ After(-g.origin_y, py, 1, -b[4], r) /\ Before(-g.origin_y, py, 1, -b[2], r)
        BY <1>3, CentreAxes
      <4>3. /\ After(g.origin_x, px * W, W, b[1], c) <=> After(g.origin_x, px, 1, b[1], c)
            /\ Before(g.origin_x, px * W, W, b[3], c) <=> Before(g.origin_x, px, 1, b[3], c)
        BY <3>1, <3>5, ScaledEdges
      <4>4. /\ After(-g.origin_y, py * H, H, -b[4], r) <=> After(-g.origin_y, py, 1, -b[4], r)
            /\ Before(-g.origin_y, py * H, H, -b[2], r) <=> Before(-g.origin_y, py, 1, -b[2], r)
        BY <3>1, <3>5, ScaledEdges
      <4>5. QED
        BY <4>1, <4>2, <4>3, <4>4
    <3>7. \A cr \in Image(lv) : cr[1] \in Int /\ cr[2] \in Int
      BY DEF Image
    <3>8. QED
      BY <3>6, <3>7 DEF CentredIn
  <2>3. QED
    BY <2>1, <2>2
<1>6. QED
  BY <1>1, <1>3, <1>4, <1>5, WindowPixels

\* The numbers of an interval.
LEMMA IntervalSize ==
  \A a, b \in Int : a <= b => IsFiniteSet(a..b) /\ Cardinality(a..b) = b - a + 1
<1> SUFFICES ASSUME NEW a \in Int, NEW b \in Int, a <= b
             PROVE  IsFiniteSet(a..b) /\ Cardinality(a..b) = b - a + 1
  OBVIOUS
<1>1. IsFiniteSet(a..b) /\ Cardinality(a..b) = IF a > b THEN 0 ELSE b - a + 1
  BY FS_Interval
<1>2. QED
  BY <1>1

\* The area of the window of a box is the number of pixels with their centre in
\* it.
LEMMA AreaCount ==
  ASSUME Metadata(meta), meta.georef # None, NEW l \in 0..(Len(meta.levels) - 1),
         NEW b \in IntBoxes
  PROVE  LET w == CenterWindow(G(l), Lv(l), b) IN
           /\ Cardinality(Centred(l, b)) \in Nat
           /\ Cardinality(Centred(l, b)) =
                IF w = None THEN 0 ELSE (w[2] - w[1] + 1) * (w[4] - w[3] + 1)
<1> DEFINE w == CenterWindow(G(l), Lv(l), b)
<1>1. CASE w = None
  <2>1. Centred(l, b) = {}
    BY <1>1, LevelWindow
  <2>2. Cardinality(Centred(l, b)) = 0
    BY <2>1, FS_EmptySet
  <2>3. QED
    BY <1>1, <2>2
<1>2. CASE w # None
  <2>1. Window(w, Lv(l)) /\ Centred(l, b) = Covered(w)
    BY <1>2, LevelWindow
  <2> HIDE DEF w
  <2>2. /\ w[1] \in Int /\ w[2] \in Int /\ w[3] \in Int /\ w[4] \in Int
        /\ w[1] <= w[2] /\ w[3] <= w[4]
    BY <2>1 DEF Window, IntBoxes
  <2> DEFINE X == w[1]..w[2]
             Y == w[3]..w[4]
  <2>3. /\ IsFiniteSet(X) /\ Cardinality(X) = w[2] - w[1] + 1
        /\ IsFiniteSet(Y) /\ Cardinality(Y) = w[4] - w[3] + 1
    BY <2>2, IntervalSize
  <2> HIDE DEF X, Y
  <2>4. Cardinality(X \X Y) = Cardinality(X) * Cardinality(Y)
    BY <2>3, FS_Product, Zenon
  <2>5. Covered(w) = X \X Y
    BY DEF Covered, X, Y
  <2>6. (w[2] - w[1] + 1) * (w[4] - w[3] + 1) \in Nat
    <3>1. w[2] - w[1] + 1 \in Nat /\ w[4] - w[3] + 1 \in Nat
      BY <2>2
    <3>2. QED
      BY <3>1
  <2>7. QED
    BY <1>2, <2>1, <2>3, <2>4, <2>5, <2>6 DEF w
<1>3. QED
  BY <1>1, <1>2

\* A finite set of whole numbers has a least and a greatest one.
LEMMA MinProps ==
  ASSUME NEW S, S \subseteq Int, IsFiniteSet(S), S # {}
  PROVE  Min(S) \in S /\ \A y \in S : Min(S) <= y
<1> DEFINE R == {ab \in Int \X Int : ab[1] < ab[2]}
<1>1. \A a, b \in S : <<a, b>> \in R <=> a < b
  OBVIOUS
<1>2. Orders(R, S)
  BY <1>1 DEF Orders
<1> HIDE DEF R
<1>3. Cardinality(S) \in Nat /\ Cardinality(S) # 0
  BY FS_CardinalityType, FS_EmptySet
<1>4. 0 \in 0..(Cardinality(S) - 1)
  BY <1>3
<1>5. PICK p \in S : Rank(R, S, p) = 0
  BY <1>2, <1>4, RankProps
<1>6. Below(R, S, p) = {}
  <2>1. IsFiniteSet(Below(R, S, p))
    BY FS_Subset DEF Below
  <2>2. QED
    BY <1>5, <2>1, FS_EmptySet DEF Rank
<1>7. \A y \in S : p <= y
  <2> SUFFICES ASSUME NEW y \in S PROVE p <= y
    OBVIOUS
  <2>1. <<y, p>> \notin R
    BY <1>6 DEF Below
  <2>2. y \in Int /\ p \in Int
    OBVIOUS
  <2>3. QED
    BY <1>1, <2>1, <2>2
<1>8. QED
  BY <1>7, Zenon DEF Min

LEMMA MaxProps ==
  ASSUME NEW S, S \subseteq Int, IsFiniteSet(S), S # {}
  PROVE  Max(S) \in S /\ \A y \in S : y <= Max(S)
<1> DEFINE R == {ab \in Int \X Int : ab[2] < ab[1]}
<1>1. \A a, b \in S : <<a, b>> \in R <=> b < a
  OBVIOUS
<1>2. Orders(R, S)
  BY <1>1 DEF Orders
<1> HIDE DEF R
<1>3. Cardinality(S) \in Nat /\ Cardinality(S) # 0
  BY FS_CardinalityType, FS_EmptySet
<1>4. 0 \in 0..(Cardinality(S) - 1)
  BY <1>3
<1>5. PICK p \in S : Rank(R, S, p) = 0
  BY <1>2, <1>4, RankProps
<1>6. Below(R, S, p) = {}
  <2>1. IsFiniteSet(Below(R, S, p))
    BY FS_Subset DEF Below
  <2>2. QED
    BY <1>5, <2>1, FS_EmptySet DEF Rank
<1>7. \A y \in S : p >= y
  <2> SUFFICES ASSUME NEW y \in S PROVE p >= y
    OBVIOUS
  <2>1. <<y, p>> \notin R
    BY <1>6 DEF Below
  <2>2. y \in Int /\ p \in Int
    OBVIOUS
  <2>3. QED
    BY <1>1, <2>1, <2>2
<1>8. Max(S) \in S /\ \A y \in S : Max(S) >= y
  BY <1>7, Zenon DEF Max
<1>9. QED
  BY <1>8

\* The image of a finite set is finite.
LEMMA ImageFinite ==
  ASSUME NEW S, IsFiniteSet(S), NEW f
  PROVE  IsFiniteSet({f[x] : x \in S})
<1> DEFINE T == {f[x] : x \in S}
           g == [x \in S |-> f[x]]
<1>1. g \in [S -> T] /\ \A t \in T : \E x \in S : g[x] = t
  OBVIOUS
<1> HIDE DEF T, g
<1>2. g \in Surjection(S, T)
  BY <1>1 DEF Surjection
<1>3. QED
  BY <1>2, FS_Surjection DEF T

\* select_level returns the finest level that keeps the budget, or the last.
BudgetKept(b, m, l) ==
  /\ l \in 0..(Len(meta.levels) - 1)
  /\ m = 0 => l = 0
  /\ m > 0 => /\ Cardinality(Centred(l, b)) <= m \/ l = Len(meta.levels) - 1
              /\ \A k \in 0..(l - 1) : Cardinality(Centred(k, b)) > m

LEMMA SelectLevelProps ==
  ASSUME Metadata(meta), meta.georef # None, NEW b \in IntBoxes, NEW m \in Nat
  PROVE  BudgetKept(b, m, SelectLevel(b, m))
<1> DEFINE n == Len(meta.levels)
           L == 0..(n - 1)
           area(l) == LET w == CenterWindow(G(l), Lv(l), b) IN
                        IF w = None THEN 0 ELSE (w[2] - w[1] + 1) * (w[4] - w[3] + 1)
           size(l) == Cardinality(Centred(l, b))
           fits == {l \in L : WithinBudget(area(l), m)}
<1>1. n \in Nat /\ n > 0
  BY DEF Metadata
<1>2. \A l \in L : size(l) \in Nat /\ area(l) = size(l)
  BY AreaCount
<1>3. SelectLevel(b, m) =
        IF m = 0 \/ n <= 1 THEN 0 ELSE IF fits = {} THEN n - 1 ELSE Min(fits)
  BY DEF SelectLevel
<1>4. fits = {l \in L : size(l) <= m}
  BY <1>2 DEF WithinBudget
<1> HIDE DEF fits, area, n
<1>5. CASE m = 0 \/ n <= 1
  <2>1. SelectLevel(b, m) = 0 /\ 0 \in L /\ (m > 0 => 0 = n - 1)
    BY <1>1, <1>3, <1>5
  <2>2. QED
    BY <1>1, <2>1 DEF BudgetKept, n
<1>6. CASE m # 0 /\ n > 1 /\ fits = {}
  <2>1. SelectLevel(b, m) = n - 1 /\ n - 1 \in L
    BY <1>1, <1>3, <1>6
  <2>2. \A k \in 0..((n - 1) - 1) : size(k) > m
    <3> SUFFICES ASSUME NEW k \in 0..((n - 1) - 1) PROVE size(k) > m
      OBVIOUS
    <3>1. k \in L /\ k \notin fits
      BY <1>1, <1>6
    <3>2. ~(size(k) <= m) /\ size(k) \in Nat
      BY <1>2, <1>4, <3>1
    <3>3. QED
      BY <3>2
  <2> HIDE DEF size
  <2>3. QED
    BY <1>1, <1>6, <2>1, <2>2 DEF BudgetKept, n, size
<1>7. CASE m # 0 /\ n > 1 /\ fits # {}
  <2>1. fits \subseteq Int /\ IsFiniteSet(fits)
    <3>1. IsFiniteSet(L)
      BY <1>1, FS_Interval
    <3>2. fits \in SUBSET L
      BY <1>4
    <3>3. IsFiniteSet(fits)
      BY <3>1, <3>2, FS_Subset, Zenon
    <3>4. L \subseteq Int
      BY <1>1
    <3>5. QED
      BY <3>2, <3>3, <3>4, Zenon
  <2> DEFINE l == Min(fits)
  <2>2. SelectLevel(b, m) = l
    BY <1>1, <1>3, <1>7
  <2>3. l \in fits /\ \A y \in fits : l <= y
    BY <1>7, <2>1, MinProps
  <2> HIDE DEF l
  <2>4. l \in L /\ size(l) <= m
    BY <1>4, <2>3
  <2>5. \A k \in 0..(l - 1) : size(k) > m
    <3> SUFFICES ASSUME NEW k \in 0..(l - 1) PROVE size(k) > m
      OBVIOUS
    <3>1. k \in L /\ k < l
      BY <1>1, <2>4
    <3>2. k \notin fits
      BY <1>1, <2>3, <2>4, <3>1
    <3>3. ~(size(k) <= m) /\ size(k) \in Nat
      BY <1>2, <1>4, <3>1, <3>2
    <3>4. QED
      BY <3>3
  <2> HIDE DEF size
  <2>6. QED
    BY <1>1, <1>7, <2>2, <2>4, <2>5 DEF BudgetKept, n, size
<1>8. QED
  BY <1>1, <1>5, <1>6, <1>7

-----------------------------------------------------------------------------
(***************************************************************************)
(* Zones.                                                                    *)
(***************************************************************************)

\* A parsed zone: every coordinate is finite.
Points == Int \X Int
FiniteZones == Seq([exterior : Seq(Points), interiors : Seq(Seq(Points))])

\* What a sequence holds, and what it is a sequence of.
LEMMA SequenceElements ==
  ASSUME NEW S, NEW s \in Seq(S)
  PROVE  Len(s) \in Nat /\ DOMAIN s = 1..Len(s) /\ \A i \in 1..Len(s) : s[i] \in S
OBVIOUS

LEMMA SequenceOf ==
  ASSUME NEW S, NEW T, NEW s \in Seq(S), \A i \in 1..Len(s) : s[i] \in T
  PROVE  s \in Seq(T)
OBVIOUS

\* A line without a NonFinite coordinate is one of points.
LEMMA FiniteLine ==
  ASSUME NEW s \in Lines, \A p \in ToSet(s) : NonFinite \notin ToSet(p)
  PROVE  s \in Seq(Points)
<1>1. s \in Seq(Coordinates \X Coordinates) /\ Len(s) \in Nat /\ DOMAIN s = 1..Len(s)
  BY DEF Lines
<1>2. ASSUME NEW i \in 1..Len(s)
      PROVE  s[i] \in Points
  <2>1. s[i] \in Coordinates \X Coordinates /\ s[i] \in ToSet(s)
    BY <1>1 DEF ToSet
  <2>2. s[i] = <<s[i][1], s[i][2]>> /\ s[i][1] \in Coordinates /\ s[i][2] \in Coordinates
    BY <2>1
  <2>3. NonFinite \notin {s[i][j] : j \in DOMAIN s[i]} /\ DOMAIN s[i] = 1..2
    BY <2>1, <2>2 DEF ToSet
  <2>4. s[i][1] # NonFinite /\ s[i][2] # NonFinite
    BY <2>3
  <2>5. QED
    BY <2>2, <2>4 DEF Coordinates, Points
<1>3. QED
  BY <1>1, <1>2

\* The rings of a polygon.
LEMMA PolygonRingsProps ==
  ASSUME NEW S, NEW p \in [exterior : S, interiors : Seq(S)]
  PROVE  /\ p.exterior \in ToSet(PolygonRings(p))
         /\ \A j \in 1..Len(p.interiors) : p.interiors[j] \in ToSet(PolygonRings(p))
<1>1. p.exterior \in S /\ p.interiors \in Seq(S) /\ <<p.exterior>> \in Seq(S)
  OBVIOUS
<1>2. /\ DOMAIN PolygonRings(p) = 1..(Len(p.interiors) + 1) /\ Len(p.interiors) \in Nat
      /\ PolygonRings(p)[1] = p.exterior
      /\ \A j \in 1..Len(p.interiors) : PolygonRings(p)[j + 1] = p.interiors[j]
  BY <1>1 DEF PolygonRings
<1>3. 1 \in DOMAIN PolygonRings(p) /\ \A j \in 1..Len(p.interiors) : j + 1 \in DOMAIN PolygonRings(p)
  BY <1>2
<1>4. QED
  BY <1>2, <1>3 DEF ToSet

\* A text that parses is a zone with finite coordinates.
LEMMA ParsedZone ==
  ASSUME NEW text \in WktTexts, "err" \notin DOMAIN ParseZone(text)
  PROVE  ParseZone(text).zone = text.polys /\ text.polys \in FiniteZones
<1> DEFINE z == text.polys
<1>1. /\ ParseZone(text).zone = z
      /\ \A i \in DOMAIN z : \A ring \in ToSet(PolygonRings(z[i])) :
           \A p \in ToSet(ring) : NonFinite \notin ToSet(p)
  BY DEF ParseZone
<1>2. z \in Seq([exterior : Lines, interiors : Seq(Lines)])
  BY DEF WktTexts
<1> HIDE DEF z
<1>3. ASSUME NEW i \in 1..Len(z)
      PROVE  z[i] \in [exterior : Seq(Points), interiors : Seq(Seq(Points))]
  <2>1. i \in DOMAIN z /\ z[i] \in [exterior : Lines, interiors : Seq(Lines)]
    BY <1>2, SequenceElements, Zenon
  <2>2. z[i].exterior \in Lines /\ z[i].interiors \in Seq(Lines)
    BY <2>1
  <2>3. z[i].exterior \in Seq(Points)
    BY <1>1, <2>1, <2>2, PolygonRingsProps, FiniteLine
  <2>4. \A j \in 1..Len(z[i].interiors) : z[i].interiors[j] \in Seq(Points)
    BY <1>1, <2>1, <2>2, PolygonRingsProps, FiniteLine
  <2>5. z[i].interiors \in Seq(Seq(Points))
    BY <2>2, <2>4
  <2>6. QED
    BY <2>1, <2>3, <2>5
<1>4. z \in FiniteZones
  BY <1>2, <1>3, SequenceOf, Zenon DEF FiniteZones
<1>5. QED
  BY <1>1, <1>4 DEF z

\* The bounds of a finite set of numbers.
LEMMA BoundsProps ==
  ASSUME NEW S, S \subseteq Int, IsFiniteSet(S), S # {}
  PROVE  Min(S) \in Int /\ Max(S) \in Int
BY MinProps, MaxProps

\* The points of a sequence.
LEMMA SequencePoints ==
  ASSUME NEW S, NEW s \in Seq(S)
  PROVE  ToSet(s) \subseteq S /\ IsFiniteSet(ToSet(s))
<1>1. Len(s) \in Nat /\ DOMAIN s = 1..Len(s) /\ \A i \in 1..Len(s) : s[i] \in S
  OBVIOUS
<1>2. IsFiniteSet(1..Len(s))
  BY <1>1, FS_Interval
<1>3. IsFiniteSet({s[i] : i \in 1..Len(s)})
  BY <1>2, ImageFinite
<1>4. QED
  BY <1>1, <1>3 DEF ToSet

\* The envelope of a zone is a box, unless the zone is empty.
LEMMA EnvelopeProps ==
  ASSUME NEW z \in FiniteZones
  PROVE  Envelope(z) = None \/ Envelope(z) \in IntBoxes
<1> DEFINE I == DOMAIN z
           points == UNION {ToSet(z[i].exterior) : i \in I}
           xs == {p[1] : p \in points}
           ys == {p[2] : p \in points}
<1>1. Len(z) \in Nat /\ I = 1..Len(z) /\ \A i \in I : z[i].exterior \in Seq(Points)
  <2>1. /\ Len(z) \in Nat /\ I = 1..Len(z)
        /\ \A i \in 1..Len(z) : z[i] \in [exterior : Seq(Points), interiors : Seq(Seq(Points))]
    BY SequenceElements, Zenon DEF FiniteZones
  <2>2. QED
    BY <2>1
<1>2. \A i \in I : ToSet(z[i].exterior) \subseteq Points /\ IsFiniteSet(ToSet(z[i].exterior))
  BY <1>1, SequencePoints
<1>3. Envelope(z) = IF points = {} THEN None ELSE <<Min(xs), Min(ys), Max(xs), Max(ys)>>
  BY DEF Envelope
<1>4. IsFiniteSet(I)
  BY <1>1, FS_Interval
<1> HIDE DEF I
<1>5. points \subseteq Points /\ IsFiniteSet(points)
  <2> DEFINE f == [i \in I |-> ToSet(z[i].exterior)]
             T == {f[i] : i \in I}
  <2>1. points = UNION T
    OBVIOUS
  <2>2. \A t \in T : t \subseteq Points /\ IsFiniteSet(t)
    BY <1>2
  <2> HIDE DEF f
  <2>3. IsFiniteSet(T)
    BY <1>4, ImageFinite
  <2> HIDE DEF T, points
  <2>4. IsFiniteSet(UNION T)
    BY <2>2, <2>3, FS_UNION
  <2>5. QED
    BY <2>1, <2>2, <2>4
<1> HIDE DEF points
<1>6. \A p \in points : p[1] \in Int /\ p[2] \in Int
  BY <1>5 DEF Points
<1>7. /\ xs \subseteq Int /\ ys \subseteq Int
      /\ points # {} => xs # {} /\ ys # {}
  BY <1>6
<1>8. IsFiniteSet(xs) /\ IsFiniteSet(ys)
  <2> DEFINE fx == [p \in points |-> p[1]]
             fy == [p \in points |-> p[2]]
  <2>1. xs = {fx[p] : p \in points} /\ ys = {fy[p] : p \in points}
    OBVIOUS
  <2> HIDE DEF fx, fy
  <2>2. IsFiniteSet({fx[p] : p \in points}) /\ IsFiniteSet({fy[p] : p \in points})
    BY <1>5, ImageFinite
  <2>3. QED
    BY <2>1, <2>2, Zenon
<1> HIDE DEF xs, ys
<1>9. points # {} => {Min(xs), Min(ys), Max(xs), Max(ys)} \subseteq Int
  BY <1>7, <1>8, BoundsProps
<1>10. QED
  BY <1>3, <1>9 DEF IntBoxes

\* The union of the envelopes of zones is a box, unless all are empty.
LEMMA UnionEnvelopeProps ==
  ASSUME NEW zs, IsFiniteSet(DOMAIN zs), \A k \in DOMAIN zs : zs[k] \in FiniteZones
  PROVE  /\ UnionEnvelope(zs) = None \/ UnionEnvelope(zs) \in IntBoxes
         /\ UnionEnvelope(zs) = None => \A z \in ToSet(zs) : Envelope(z) = None
<1> DEFINE K == DOMAIN zs
           envs == {Envelope(z) : z \in ToSet(zs)} \ {None}
           f == [k \in K |-> Envelope(zs[k])]
           g(j) == [e \in envs |-> e[j]]
<1>1. envs \subseteq {f[k] : k \in K}
  BY DEF ToSet
<1>2. IsFiniteSet({f[k] : k \in K})
  <2> HIDE DEF f
  <2>1. QED
    BY ImageFinite
<1>3. IsFiniteSet(envs)
  <2> HIDE DEF f, envs
  <2>1. QED
    BY <1>1, <1>2, FS_Subset
<1>4. \A e \in envs : e \in IntBoxes
  BY EnvelopeProps DEF ToSet
<1>5. UnionEnvelope(zs) = IF envs = {} THEN None
                          ELSE <<Min({e[1] : e \in envs}), Min({e[2] : e \in envs}),
                                 Max({e[3] : e \in envs}), Max({e[4] : e \in envs})>>
  BY DEF UnionEnvelope
<1>6. envs = {} => \A z \in ToSet(zs) : Envelope(z) = None
  OBVIOUS
<1> HIDE DEF envs
<1>7. ASSUME envs # {}, NEW j \in {1, 2, 3, 4}
      PROVE  Min({e[j] : e \in envs}) \in Int /\ Max({e[j] : e \in envs}) \in Int
  <2> DEFINE h == [e \in envs |-> e[j]]
  <2>1. {e[j] : e \in envs} = {h[e] : e \in envs}
    OBVIOUS
  <2> HIDE DEF h
  <2>2. IsFiniteSet({h[e] : e \in envs})
    BY <1>3, ImageFinite
  <2>3. {e[j] : e \in envs} \subseteq Int /\ {e[j] : e \in envs} # {}
    BY <1>4, <1>7 DEF IntBoxes
  <2> DEFINE S == {e[j] : e \in envs}
  <2> HIDE DEF S
  <2>4. S \subseteq Int /\ S # {} /\ IsFiniteSet(S)
    BY <2>1, <2>2, <2>3, Zenon DEF S
  <2>5. Min(S) \in Int /\ Max(S) \in Int
    BY <2>4, BoundsProps
  <2>6. QED
    BY <2>5 DEF S
<1>8. envs # {} => UnionEnvelope(zs) \in IntBoxes
  <2> SUFFICES ASSUME envs # {} PROVE UnionEnvelope(zs) \in IntBoxes
    OBVIOUS
  <2>1. /\ Min({e[1] : e \in envs}) \in Int /\ Min({e[2] : e \in envs}) \in Int
        /\ Max({e[3] : e \in envs}) \in Int /\ Max({e[4] : e \in envs}) \in Int
    BY <1>7
  <2>2. UnionEnvelope(zs) = <<Min({e[1] : e \in envs}), Min({e[2] : e \in envs}),
                              Max({e[3] : e \in envs}), Max({e[4] : e \in envs})>>
    BY <1>5
  <2> DEFINE m1 == Min({e[1] : e \in envs})
             m2 == Min({e[2] : e \in envs})
             m3 == Max({e[3] : e \in envs})
             m4 == Max({e[4] : e \in envs})
  <2> HIDE DEF m1, m2, m3, m4
  <2>3. <<m1, m2, m3, m4>> \in Int \X Int \X Int \X Int
    BY <2>1 DEF m1, m2, m3, m4
  <2>4. QED
    BY <2>2, <2>3, Zenon DEF IntBoxes, m1, m2, m3, m4
<1>9. None \notin IntBoxes
  BY PixelReaderAssumption DEF IntBoxes
<1>10. QED
  BY <1>5, <1>6, <1>8, <1>9

-----------------------------------------------------------------------------
(***************************************************************************)
(* Calls up to their fetch.                                                  *)
(***************************************************************************)

\* What a call brings along.
LEMMA CallProps ==
  ASSUME req \in Calls
  PROVE  /\ req.op \in {"read_pixels", "zonal_bbox", "zonal", "zonal_zones",
                        "band_window", "band_window_polygon"}
         /\ req.band \in Nat
         /\ req.op = "read_pixels" => req.points \in Seq(PointArgs)
         /\ req.op \in ZonalOps => req.max_pixels \in Nat
         /\ req.op = "zonal_bbox" => req.bbox \in Corners
         /\ req.op = "band_window" => req.bbox \in Corners \cup {None}
         /\ req.op = "zonal_zones" => req.texts \in Seq(WktTexts)
         /\ req.op \in {"zonal", "band_window_polygon"} => req.text \in WktTexts
<1>1. CASE req \in [op : {"read_pixels"}, points : Seq(PointArgs), band : Nat]
  BY <1>1 DEF ZonalOps
<1>2. CASE req \in [op : {"zonal_bbox"}, bbox : Corners, band : Nat, max_pixels : Nat]
  BY <1>2 DEF ZonalOps
<1>3. CASE req \in [op : {"zonal"}, text : WktTexts, band : Nat, max_pixels : Nat]
  BY <1>3 DEF ZonalOps
<1>4. CASE req \in [op : {"zonal_zones"}, texts : Seq(WktTexts), band : Nat, max_pixels : Nat]
  BY <1>4 DEF ZonalOps
<1>5. CASE req \in [op : {"band_window"}, bbox : Corners \cup {None}, band : Nat]
  BY <1>5 DEF ZonalOps
<1>6. CASE req \in [op : {"band_window_polygon"}, text : WktTexts, band : Nat]
  BY <1>6 DEF ZonalOps
<1>7. QED
  BY <1>1, <1>2, <1>3, <1>4, <1>5, <1>6 DEF Calls

\* A box that is accepted has finite corners.
LEMMA ValidCorners ==
  ASSUME NEW b \in Corners, ValidBox(b)
  PROVE  b \in IntBoxes
<1>1. /\ b = <<b[1], b[2], b[3], b[4]>>
      /\ b[1] \in Coordinates /\ b[2] \in Coordinates
      /\ b[3] \in Coordinates /\ b[4] \in Coordinates
  BY DEF Corners
<1>2. b[1] # NonFinite /\ b[2] # NonFinite /\ b[3] # NonFinite /\ b[4] # NonFinite
  BY DEF ValidBox
<1>3. QED
  BY <1>1, <1>2 DEF Coordinates, IntBoxes

\* The zones of a call that parse.
LEMMA ZonesProps ==
  ASSUME Reading, "err" \notin DOMAIN zones
  PROVE  /\ \A k \in DOMAIN zones.ok : zones.ok[k] \in FiniteZones
         /\ IsFiniteSet(DOMAIN zones.ok)
         /\ req.op \in {"zonal", "band_window_polygon"} => 1 \in DOMAIN zones.ok
<1> DEFINE texts == CASE req.op = "zonal_zones" -> req.texts
                      [] req.op \in {"zonal", "band_window_polygon"} -> <<req.text>>
                      [] OTHER -> <<>>
           bad == {k \in DOMAIN texts : "err" \in DOMAIN ParseZone(texts[k])}
<1>1. zones = IF bad # {} THEN [err |-> ParseZone(texts[Min(bad)]).err]
              ELSE [ok |-> [k \in DOMAIN texts |-> ParseZone(texts[k]).zone]]
  BY DEF Reading, ZonesOf
<1>2. texts \in Seq(WktTexts)
  <2>0. req \in Calls
    BY ReadingMeta
  <2>1. CASE req.op = "zonal_zones"
    BY <2>0, <2>1, CallProps
  <2>2. CASE req.op \in {"zonal", "band_window_polygon"}
    BY <2>0, <2>2, CallProps
  <2>3. CASE req.op \notin {"zonal_zones", "zonal", "band_window_polygon"}
    BY <2>3
  <2>4. QED
    BY <2>1, <2>2, <2>3
<1>3. req.op \in {"zonal", "band_window_polygon"} => 1 \in DOMAIN texts
  <2> SUFFICES ASSUME req.op \in {"zonal", "band_window_polygon"} PROVE 1 \in DOMAIN texts
    OBVIOUS
  <2>1. texts = <<req.text>>
    OBVIOUS
  <2>2. QED
    BY <2>1
<1> HIDE DEF texts
<1>4. /\ Len(texts) \in Nat /\ DOMAIN texts = 1..Len(texts)
      /\ \A k \in 1..Len(texts) : texts[k] \in WktTexts
  BY <1>2, SequenceElements
<1>5. bad = {} /\ zones.ok = [k \in DOMAIN texts |-> ParseZone(texts[k]).zone]
  BY <1>1
<1>6. ASSUME NEW k \in DOMAIN texts
      PROVE  zones.ok[k] \in FiniteZones
  <2>1. "err" \notin DOMAIN ParseZone(texts[k]) /\ texts[k] \in WktTexts
    BY <1>4, <1>5
  <2>2. QED
    BY <1>5, <2>1, ParsedZone
<1>7. IsFiniteSet(DOMAIN texts)
  BY <1>4, FS_Interval
<1>8. QED
  BY <1>3, <1>5, <1>6, <1>7

\* Cells of whole size: the one that holds a position is found by division.
LEMMA CellOf ==
  ASSUME NEW d \in Int, NEW s \in Nat \ {0}, NEW c \in Int
  PROVE  d \div s = c <=> c * s <= d /\ d < (c + 1) * s
<1>1. /\ d \div s \in Int /\ s * (d \div s) <= d /\ d < s * (d \div s) + s
  BY DivProps
<1>2. (c + 1) * s = c * s + s
  OBVIOUS
<1>3. c * s <= d /\ d < (c + 1) * s => d \div s = c
  BY <1>2, DivUnique
<1>4. QED
  BY <1>1, <1>2, <1>3

\* Saturation does not move a grid position into an image.
LEMMA SaturatedProps ==
  ASSUME NEW n \in Int, NEW w \in Nat, w < Widest
  PROVE  LET m == Saturated(Saturated(n) + 1) IN
           /\ m \in 1..w <=> n \in 0..(w - 1)
           /\ m \in 1..w => m - 1 = n
BY CogMetaAssumption DEF Saturated

\* world_to_raster finds the pixel whose cell holds a position.
LEMMA CoordUnder ==
  ASSUME Metadata(meta), meta.georef # None, NEW p \in PointArgs
  PROVE  /\ Coord(p) = None => Under(p) = {}
         /\ Coord(p) # None => Coord(p) \in Raster(0) /\ Under(p) = {Coord(p)}
<1> DEFINE g == meta.georef
           W == Lv(0).image_width
           H == Lv(0).image_height
           q == Placed(p)
<1>1. PICK sx \in Nat \ {0}, sy \in Nat \ {0} : g.pixel_x = <<sx, 1>> /\ g.pixel_y = <<sy, 1>>
  BY DEF Metadata, NorthUp
<1>2. g.origin_x \in Int /\ g.origin_y \in Int
  BY DEF Metadata, NorthUp
<1>3. W \in Nat /\ H \in Nat /\ W < Widest /\ H < Widest
  <2>1. 0 \in 0..(Len(meta.levels) - 1)
    BY DEF Metadata
  <2>2. QED
    BY <2>1, LevelProps DEF Level
<1> DEFINE dx == q[1] - g.origin_x
           dy == g.origin_y - q[2]
           c0 == dx \div sx
           r0 == dy \div sy
<1>4. /\ q[1] = (IF p[1] = NaN THEN g.origin_x ELSE p[1]) /\ q[1] \in Int
      /\ q[2] = (IF p[2] = NaN THEN g.origin_y ELSE p[2]) /\ q[2] \in Int
  BY <1>2 DEF Placed, PointArgs
<1> HIDE DEF q
<1>5. dx \in Int /\ dy \in Int /\ c0 \in Int /\ r0 \in Int
  <2>1. dx \in Int /\ dy \in Int
    BY <1>2, <1>4
  <2> HIDE DEF dx, dy
  <2>2. QED
    BY <1>1, <2>1, DivProps
<1>6. WorldToRaster(g, p[1], p[2])
        = <<Saturated(Saturated(c0) + 1), Saturated(Saturated(r0) + 1)>>
  <2>1. /\ g.pixel_x[1] = sx /\ g.pixel_x[2] = 1
        /\ g.pixel_y[1] = sy /\ g.pixel_y[2] = 1
    BY <1>1
  <2>2. (IF p[1] = NaN THEN 0 ELSE ((p[1] - g.origin_x) * 1) \div sx) = c0
    <3>1. CASE p[1] = NaN
      <4>1. dx = 0
        BY <1>2, <1>4, <3>1
      <4>2. 0 \div sx = 0
        BY <1>1, DivUnique
      <4>3. QED
        BY <3>1, <4>1, <4>2
    <3>2. CASE p[1] # NaN
      <4>1. (p[1] - g.origin_x) * 1 = dx
        BY <1>4, <1>5, <3>2
      <4>2. QED
        BY <3>2, <4>1, Zenon
    <3>3. QED
      BY <3>1, <3>2
  <2>3. (IF p[2] = NaN THEN 0 ELSE ((g.origin_y - p[2]) * 1) \div sy) = r0
    <3>1. CASE p[2] = NaN
      <4>1. dy = 0
        BY <1>2, <1>4, <3>1
      <4>2. 0 \div sy = 0
        BY <1>1, DivUnique
      <4>3. QED
        BY <3>1, <4>1, <4>2
    <3>2. CASE p[2] # NaN
      <4>1. (g.origin_y - p[2]) * 1 = dy
        BY <1>4, <1>5, <3>2
      <4>2. QED
        BY <3>2, <4>1, Zenon
    <3>3. QED
      BY <3>1, <3>2
  <2> HIDE DEF dx, dy, c0, r0
  <2>4. QED
    BY <2>1, <2>2, <2>3, Zenon DEF WorldToRaster
<1>7. Coord(p) = IF c0 \in 0..(W - 1) /\ r0 \in 0..(H - 1) THEN <<c0, r0>> ELSE None
  <2> HIDE DEF c0, r0, W, H
  <2> DEFINE c1 == Saturated(Saturated(c0) + 1)
             r1 == Saturated(Saturated(r0) + 1)
  <2>1. /\ c1 \in 1..W <=> c0 \in 0..(W - 1)
        /\ r1 \in 1..H <=> r0 \in 0..(H - 1)
        /\ c1 \in 1..W => c1 - 1 = c0
        /\ r1 \in 1..H => r1 - 1 = r0
    BY <1>3, <1>5, SaturatedProps
  <2> HIDE DEF c1, r1
  <2>2. Coord(p) = IF c1 \in 1..W /\ r1 \in 1..H THEN <<c1 - 1, r1 - 1>> ELSE None
    BY <1>6 DEF Coord, W, H, c1, r1
  <2>3. QED
    BY <2>1, <2>2
<1>8. ASSUME NEW c \in Int, NEW r \in Int
      PROVE  (LET ul == RasterToWorld(g, c + 1, r + 1)
                  lr == RasterToWorld(g, c + 2, r + 2)
              IN /\ Leq(ul[1], Frac(q[1])) /\ Less(Frac(q[1]), lr[1])
                 /\ Less(lr[2], Frac(q[2])) /\ Leq(Frac(q[2]), ul[2]))
             <=> c0 = c /\ r0 = r
  <2>1. /\ (c + 1) - 1 = c /\ (c + 2) - 1 = c + 1 /\ (r + 1) - 1 = r /\ (r + 2) - 1 = r + 1
        /\ c * sx \in Int /\ (c + 1) * sx \in Int /\ r * sy \in Int /\ (r + 1) * sy \in Int
    BY <1>1
  <2>2. /\ RasterToWorld(g, c + 1, r + 1)
             = <<<<g.origin_x * 1 + c * sx, 1>>, <<g.origin_y * 1 - r * sy, 1>>>>
        /\ RasterToWorld(g, c + 2, r + 2)
             = <<<<g.origin_x * 1 + (c + 1) * sx, 1>>, <<g.origin_y * 1 - (r + 1) * sy, 1>>>>
    BY <1>1, <2>1 DEF RasterToWorld
  <2>3. /\ c0 = c <=> c * sx <= dx /\ dx < (c + 1) * sx
        /\ r0 = r <=> r * sy <= dy /\ dy < (r + 1) * sy
    <3> HIDE DEF dx, dy
    <3>1. QED
      BY <1>1, <1>5, CellOf
  <2> DEFINE a == c * sx
             b == (c + 1) * sx
             e == r * sy
             f == (r + 1) * sy
  <2> HIDE DEF a, b, e, f, c0, r0
  <2>4. /\ (g.origin_x * 1 + a) * 1 <= q[1] * 1 <=> a <= dx
        /\ q[1] * 1 < (g.origin_x * 1 + b) * 1 <=> dx < b
        /\ (g.origin_y * 1 - f) * 1 < q[2] * 1 <=> dy < f
        /\ q[2] * 1 <= (g.origin_y * 1 - e) * 1 <=> e <= dy
    BY <1>2, <1>4, <2>1 DEF a, b, e, f
  <2>5. QED
    BY <2>2, <2>3, <2>4 DEF Leq, Less, Frac, a, b, e, f
<1> HIDE DEF c0, r0, W, H
<1>9. Raster(0) = (0..(W - 1)) \X (0..(H - 1))
  BY DEF Raster, W, H
<1>10. \A cr : cr \in Under(p) <=> cr \in Raster(0) /\ cr[1] = c0 /\ cr[2] = r0
  BY <1>8, <1>9 DEF Under, q
<1>11. CASE c0 \in 0..(W - 1) /\ r0 \in 0..(H - 1)
  <2>1. Coord(p) = <<c0, r0>> /\ <<c0, r0>> \in Raster(0)
    BY <1>7, <1>9, <1>11
  <2>2. Under(p) = {<<c0, r0>>}
    <3>1. \A cr : cr \in Under(p) => cr = <<c0, r0>>
      BY <1>9, <1>10
    <3>2. <<c0, r0>> \in Under(p)
      BY <1>10, <2>1
    <3>3. QED
      BY <3>1, <3>2
  <2>3. <<c0, r0>> # None
    BY <1>5, PixelReaderAssumption
  <2>4. QED
    BY <2>1, <2>2, <2>3
<1>12. CASE ~(c0 \in 0..(W - 1) /\ r0 \in 0..(H - 1))
  <2>1. Coord(p) = None
    BY <1>7, <1>12
  <2>2. \A cr : cr \notin Under(p)
    BY <1>9, <1>10, <1>12
  <2>3. QED
    BY <2>1, <2>2
<1>13. QED
  BY <1>11, <1>12

(***************************************************************************)
(* What a call asks fetch_decoded for.                                       *)
(***************************************************************************)

\* The boxes a call is about; the pixels of a level that it wants.
Boxes ==
  CASE req.op = "zonal_zones" -> {Envelope(z) : z \in ToSet(zones.ok)} \ {None}
    [] req.op = "read_pixels" -> {}
    [] OTHER -> {Box}

Wanted(l) ==
  IF req.op = "read_pixels" THEN UNION {Under(p) : p \in ToSet(req.points)}
  ELSE UNION {IF b = None THEN Raster(0) ELSE Centred(l, b) : b \in Boxes}

\* A list without repetition of the tiles that hold some pixels of a level.
ListsTilesOf(s, l, S) == Lists(s, {TileOf(Lv(l), cr) : cr \in S})

\* The tiles of a window hold its pixels.
LEMMA WindowTilesOf ==
  ASSUME NEW l, Level(Lv(l)), NEW w, Window(w, Lv(l)), NEW S, S = Covered(w)
  PROVE  ListsTilesOf(TilesOf(Lv(l), w), l, S)
<1>1. TileRange(Lv(l), w) = {TileOf(Lv(l), cr) : cr \in S}
  BY RangeCovered, Zenon
<1>2. Lists(TilesOf(Lv(l), w), TileRange(Lv(l), w))
  BY WindowList
<1>3. QED
  BY <1>1, <1>2, Zenon DEF ListsTilesOf

\* A box selects the level of its budget.
LEMMA LevelForProps ==
  ASSUME Reading, meta.georef # None, req.op \in ZonalOps, NEW b \in IntBoxes
  PROVE  BudgetKept(b, req.max_pixels, LevelFor(b))
<1>1. b # None
  BY PixelReaderAssumption DEF IntBoxes
<1>2. req.max_pixels \in Nat /\ Metadata(meta)
  BY ReadingMeta, CallProps
<1>3. LevelFor(b) = SelectLevel(b, req.max_pixels)
  BY <1>1 DEF LevelFor
<1>4. QED
  BY <1>2, <1>3, SelectLevelProps

\* read_pixels asks for the tiles under its points.
LEMMA ReadPixelsPlan ==
  ASSUME Reading, req.op = "read_pixels", "tiles" \in DOMAIN Plan
  PROVE  /\ meta.georef # None /\ ~BadBand(req.band)
         /\ Plan.level = 0 /\ Len(meta.levels) > 0
         /\ ListsTilesOf(Plan.tiles, 0, Wanted(0))
<1> DEFINE P == ToSet(req.points)
           C == {Coord(p) : p \in P} \ {None}
           S == {TileAt(c) : c \in C}
           R == {TileOf(Lv(0), cr) : cr \in Wanted(0)}
<1>1. Metadata(meta) /\ req.points \in Seq(PointArgs)
  BY ReadingMeta, CallProps
<1>2. Plan = ReadPixels
  BY DEF Plan
<1>3. /\ meta.georef # None /\ ~(meta.levels = <<>> \/ BadBand(req.band))
      /\ Plan = [level |-> 0, tiles |-> ReadPixelsTiles(S)]
  BY <1>2 DEF ReadPixels
<1>4. Len(meta.levels) > 0
  BY <1>1, <1>3 DEF Metadata
<1>5. P \subseteq PointArgs /\ IsFiniteSet(P)
  BY <1>1, SequencePoints
<1>6. \A p \in P : /\ Coord(p) = None => Under(p) = {}
                   /\ Coord(p) # None => Coord(p) \in Raster(0) /\ Under(p) = {Coord(p)}
  BY <1>1, <1>3, <1>5, CoordUnder
<1>7. IsFiniteSet(S)
  <2> DEFINE f == [p \in P |-> Coord(p)]
             t == [c \in C |-> TileAt(c)]
  <2>1. C \in SUBSET {f[p] : p \in P}
    OBVIOUS
  <2>2. S = {t[c] : c \in C}
    OBVIOUS
  <2> HIDE DEF f, t, P, C, S
  <2>3. IsFiniteSet({f[p] : p \in P})
    BY <1>5, ImageFinite
  <2>4. IsFiniteSet(C)
    BY <2>1, <2>3, FS_Subset, Zenon
  <2>5. IsFiniteSet({t[c] : c \in C})
    BY <2>4, ImageFinite
  <2>6. QED
    BY <2>2, <2>5, Zenon
<1>8. S = R
  <2>1. \A c : TileAt(c) = TileOf(Lv(0), c)
    BY DEF TileAt, TileOf
  <2>2. Wanted(0) = UNION {Under(p) : p \in P}
    BY DEF Wanted
  <2> HIDE DEF P
  <2>3. C = Wanted(0)
    <3> HIDE DEF C
    <3>1. \A c \in C : c \in Wanted(0)
      <4>1. \A c \in C : c # None /\ \E p \in P : c = Coord(p)
        BY DEF C
      <4>2. QED
        BY <1>6, <2>2, <4>1
    <3>2. \A c \in Wanted(0) : c \in C
      <4>1. \A c \in Wanted(0) : \E p \in P : c \in Under(p)
        BY <2>2
      <4>2. \A c \in Wanted(0) : \E p \in P : Coord(p) # None /\ c = Coord(p)
        BY <1>6, <4>1
      <4>3. QED
        BY <4>2 DEF C
    <3>3. QED
      BY <3>1, <3>2
  <2> HIDE DEF C
  <2>4. QED
    BY <2>1, <2>3
<1>9. S \subseteq Tiles
  <2>1. Level(Lv(0))
    <3>1. 0 \in 0..(Len(meta.levels) - 1)
      BY <1>1, <1>4 DEF Metadata
    <3>2. QED
      BY <1>1, <3>1, LevelProps
  <2>2. \A c \in C : c \in Raster(0)
    BY <1>6
  <2> HIDE DEF C
  <2>3. \A c \in C : c[1] \in Int /\ c[2] \in Int
    BY <2>1, <2>2 DEF Raster, Level
  <2>4. \A c \in C : TileAt(c) \in Tiles
    <3> SUFFICES ASSUME NEW c \in C PROVE TileAt(c) \in Tiles
      OBVIOUS
    <3>1. c[1] \div Lv(0).tile_width \in Int /\ c[2] \div Lv(0).tile_height \in Int
      BY <2>1, <2>3, DivProps DEF Level
    <3>2. QED
      BY <3>1 DEF TileAt, Tiles
  <2>5. QED
    BY <2>4
<1> HIDE DEF S, R
<1>10. Lists(ReadPixelsTiles(S), S)
  BY <1>7, <1>9, SortedX DEF ReadPixelsTiles
<1>11. Plan.level = 0 /\ Plan.tiles = ReadPixelsTiles(S)
  BY <1>3
<1>12. ListsTilesOf(Plan.tiles, 0, Wanted(0))
  BY <1>8, <1>10, <1>11, Zenon DEF ListsTilesOf, R
<1>13. QED
  BY <1>3, <1>4, <1>11, <1>12

\* At a level, the tiles of the window of a box hold the pixels centred in it.
LEMMA BoxTiles ==
  ASSUME Metadata(meta), meta.georef # None, NEW l \in 0..(Len(meta.levels) - 1),
         NEW b \in IntBoxes, CenterWindow(G(l), Lv(l), b) # None
  PROVE  ListsTilesOf(TilesOf(Lv(l), CenterWindow(G(l), Lv(l), b)), l, Centred(l, b))
<1> DEFINE w == CenterWindow(G(l), Lv(l), b)
<1>1. Level(Lv(l)) /\ Window(w, Lv(l)) /\ Centred(l, b) = Covered(w)
  BY LevelProps, LevelWindow
<1> HIDE DEF w
<1>2. ListsTilesOf(TilesOf(Lv(l), w), l, Centred(l, b))
  BY <1>1, WindowTilesOf
<1>3. QED
  BY <1>2 DEF w

\* One box or zone: the tiles of its window at the level of its budget.
LEMMA ZonalPlan ==
  ASSUME Reading, req.op \in {"zonal_bbox", "zonal"}, "tiles" \in DOMAIN Plan
  PROVE  /\ meta.georef # None /\ ~BadBand(req.band)
         /\ Box \in IntBoxes /\ Plan.level = LevelFor(Box)
         /\ Plan.level \in 0..(Len(meta.levels) - 1)
         /\ CenterWindow(G(Plan.level), Lv(Plan.level), Box) # None
         /\ ListsTilesOf(Plan.tiles, Plan.level, Wanted(Plan.level))
<1>1. Metadata(meta) /\ req \in Calls /\ None \notin IntBoxes
  BY ReadingMeta, PixelReaderAssumption DEF IntBoxes
<1> DEFINE l == LevelFor(Box)
           w == CenterWindow(G(l), Lv(l), Box)
           planned == /\ meta.georef # None /\ ~BadBand(req.band) /\ Box \in IntBoxes
                      /\ w # None /\ Plan.level = l /\ Plan.tiles = TilesOf(Lv(l), w)
<1>2. ASSUME req.op = "zonal_bbox" PROVE planned
  <2>1. Plan = ZonalStatsAt /\ Box = req.bbox
    BY <1>2 DEF Plan, Box
  <2> HIDE DEF w, l
  <2>2. /\ ValidBox(Box) /\ meta.georef # None /\ ~BadBand(req.band) /\ w # None
        /\ Plan = [level |-> l, tiles |-> TilesOf(Lv(l), w)]
    BY <2>1 DEF ZonalStatsAt, l, w
  <2>3. Box \in IntBoxes
    BY <1>1, <1>2, <2>1, <2>2, CallProps, ValidCorners
  <2>4. QED
    BY <2>2, <2>3
<1>3. ASSUME req.op = "zonal" PROVE planned
  <2>1. Plan = ZonalStatsPolygonAt /\ Box = Envelope(zones.ok[1])
    BY <1>3 DEF Plan, Box
  <2>2. "err" \notin DOMAIN zones
    BY <2>1 DEF ZonalStatsPolygonAt, ZonesOf, Reading
  <2>3. Box = None \/ Box \in IntBoxes
    BY <1>3, <2>1, <2>2, ZonesProps, EnvelopeProps
  <2>4. ZoneWindow(zones.ok[1], l) = IF Box = None THEN None ELSE w
    BY <2>1 DEF ZoneWindow
  <2> HIDE DEF w, l
  <2>5. /\ meta.georef # None /\ ~BadBand(req.band) /\ Box # None /\ w # None
        /\ Plan = [level |-> l, tiles |-> TilesOf(Lv(l), w)]
    BY <2>1, <2>2, <2>4 DEF ZonalStatsPolygonAt, l
  <2>6. QED
    BY <2>3, <2>5
<1>4. planned
  BY <1>2, <1>3, Zenon
<1>5. l \in 0..(Len(meta.levels) - 1)
  BY <1>4, LevelForProps DEF BudgetKept, ZonalOps
<1>6. ListsTilesOf(TilesOf(Lv(l), w), l, Centred(l, Box))
  <2> HIDE DEF l
  <2>1. QED
    BY <1>1, <1>4, <1>5, BoxTiles
<1>7. Wanted(l) = Centred(l, Box)
  <2> HIDE DEF l, w
  <2>1. Boxes = {Box} /\ Box # None
    BY <1>1, <1>4 DEF Boxes
  <2>2. Wanted(l) = UNION {IF b = None THEN Raster(0) ELSE Centred(l, b) : b \in {Box}}
    BY <2>1 DEF Wanted
  <2>3. QED
    BY <2>1, <2>2
<1> HIDE DEF l, w
<1>8. CenterWindow(G(l), Lv(l), Box) # None
  BY <1>4 DEF w
<1>9. Plan.level = l /\ ListsTilesOf(Plan.tiles, l, Wanted(l))
  BY <1>4, <1>6, <1>7 DEF w
<1>10. QED
  BY <1>4, <1>5, <1>8, <1>9, Zenon DEF l

\* A batch: the tiles of all windows at the level of the union.
LEMMA BatchPlan ==
  ASSUME Reading, req.op = "zonal_zones", "tiles" \in DOMAIN Plan
  PROVE  /\ meta.georef # None /\ ~BadBand(req.band)
         /\ Plan.level = LevelFor(Box)
         /\ Plan.level \in 0..(Len(meta.levels) - 1)
         /\ Box \in IntBoxes \/ Plan.tiles = <<>>
         /\ ListsTilesOf(Plan.tiles, Plan.level, Wanted(Plan.level))
<1>1. Metadata(meta) /\ None \notin IntBoxes
  BY ReadingMeta, PixelReaderAssumption DEF IntBoxes
<1>2. Plan = ZonalStatsPolygonBatchAt /\ Box = UnionEnvelope(zones.ok)
  BY DEF Plan, Box
<1> DEFINE l == LevelFor(Box)
           lv == Lv(l)
           Z == ToSet(zones.ok)
           windows == {ZoneWindow(z, l) : z \in Z} \ {None}
           range(w) == ((w[1] \div lv.tile_width)..(w[2] \div lv.tile_width))
                         \X ((w[3] \div lv.tile_height)..(w[4] \div lv.tile_height))
           bounds == {<<w[1] \div lv.tile_width, w[2] \div lv.tile_width,
                        w[3] \div lv.tile_height, w[4] \div lv.tile_height>> : w \in windows}
           S == UNION {TileRange(lv, w) : w \in windows}
           list == Sorted(S, XMajor)
           D == {Envelope(z) : z \in Z} \ {None}
<1>3. "err" \notin DOMAIN zones
  BY <1>2 DEF ZonalStatsPolygonBatchAt, ZonesOf, Reading
<1>4. BatchTiles(bounds) = list
  <2>1. UNION {(t[1]..t[2]) \X (t[3]..t[4]) : t \in bounds} = S
    <3> DEFINE box(t) == (t[1]..t[2]) \X (t[3]..t[4])
               corners(w) == <<w[1] \div lv.tile_width, w[2] \div lv.tile_width,
                               w[3] \div lv.tile_height, w[4] \div lv.tile_height>>
    <3>1. \A w : box(corners(w)) = TileRange(lv, w)
      BY DEF TileRange
    <3> HIDE DEF box, corners, windows
    <3>2. bounds = {corners(w) : w \in windows}
      BY DEF corners
    <3>3. UNION {box(t) : t \in {corners(w) : w \in windows}}
            = UNION {box(corners(w)) : w \in windows}
      OBVIOUS
    <3>4. UNION {box(t) : t \in bounds} = S
      BY <3>1, <3>2, <3>3
    <3>5. QED
      BY <3>4 DEF box
  <2>2. QED
    BY <2>1, Zenon DEF BatchTiles
<1>5. /\ meta.georef # None /\ ~BadBand(req.band)
      /\ Plan.level = l /\ Plan.tiles = list
  <2>1. /\ meta.georef # None /\ ~BadBand(req.band)
        /\ Plan = [level |-> l, tiles |-> BatchTiles(bounds)]
    <3> HIDE DEF l
    <3>1. QED
      BY <1>2, <1>3 DEF ZonalStatsPolygonBatchAt, l
  <2> HIDE DEF l, list, bounds
  <2>2. QED
    BY <1>4, <2>1
<1>6. /\ \A k \in DOMAIN zones.ok : zones.ok[k] \in FiniteZones
      /\ IsFiniteSet(DOMAIN zones.ok)
  BY <1>3, ZonesProps
<1>7. /\ Box = None \/ Box \in IntBoxes
      /\ Box = None => \A z \in Z : Envelope(z) = None
  BY <1>2, <1>6, UnionEnvelopeProps
<1>8. \A z \in Z : Envelope(z) = None \/ Envelope(z) \in IntBoxes
  BY <1>6, EnvelopeProps DEF ToSet
<1>9. l \in 0..(Len(meta.levels) - 1)
  <2>1. CASE Box = None
    <3>1. l = 0
      BY <2>1 DEF LevelFor
    <3>2. QED
      BY <1>1, <1>5, <3>1 DEF Metadata
  <2>2. CASE Box \in IntBoxes
    BY <1>5, <2>2, LevelForProps DEF BudgetKept, ZonalOps
  <2>3. QED
    BY <1>7, <2>1, <2>2
<1> HIDE DEF l, Z
<1>10. /\ \A w \in windows : \E e \in D : w = CenterWindow(G(l), Lv(l), e) /\ w # None
       /\ \A e \in D : CenterWindow(G(l), Lv(l), e) # None
                          => CenterWindow(G(l), Lv(l), e) \in windows
  <2>1. \A z \in Z : ZoneWindow(z, l) =
          IF Envelope(z) = None THEN None ELSE CenterWindow(G(l), Lv(l), Envelope(z))
    BY DEF ZoneWindow
  <2>2. QED
    BY <2>1
<1>11. D \subseteq IntBoxes
  BY <1>8
<1>12. \A e \in D : /\ CenterWindow(G(l), Lv(l), e) = None => Centred(l, e) = {}
                    /\ CenterWindow(G(l), Lv(l), e) # None =>
                         /\ Window(CenterWindow(G(l), Lv(l), e), Lv(l))
                         /\ Centred(l, e) = Covered(CenterWindow(G(l), Lv(l), e))
  BY <1>1, <1>5, <1>9, <1>11, LevelWindow
<1>13. Level(lv)
  BY <1>1, <1>9, LevelProps
<1> HIDE DEF windows, D, lv
<1>14. \A w \in windows : /\ TileRange(lv, w) = {TileOf(lv, cr) : cr \in Covered(w)}
                          /\ TileRange(lv, w) \subseteq Tiles
                          /\ IsFiniteSet(TileRange(lv, w))
  <2>1. \A w \in windows : Window(w, lv)
    BY <1>10, <1>12 DEF lv
  <2>2. QED
    BY <1>13, <2>1, RangeCovered
<1>15. IsFiniteSet(windows)
  <2> DEFINE f == [k \in DOMAIN zones.ok |-> ZoneWindow(zones.ok[k], l)]
  <2>1. windows \in SUBSET {f[k] : k \in DOMAIN zones.ok}
    BY DEF windows, Z, ToSet
  <2> HIDE DEF f
  <2>2. IsFiniteSet({f[k] : k \in DOMAIN zones.ok})
    BY <1>6, ImageFinite
  <2>3. QED
    BY <2>1, <2>2, FS_Subset, Zenon
<1>16. S \subseteq Tiles /\ IsFiniteSet(S)
  <2> DEFINE f == [w \in windows |-> TileRange(lv, w)]
             T == {f[w] : w \in windows}
  <2>1. S = UNION T
    OBVIOUS
  <2>2. \A t \in T : t \subseteq Tiles /\ IsFiniteSet(t)
    BY <1>14
  <2> HIDE DEF f
  <2>3. IsFiniteSet(T)
    BY <1>15, ImageFinite
  <2> HIDE DEF T, S
  <2>4. IsFiniteSet(UNION T)
    BY <2>2, <2>3, FS_UNION
  <2>5. QED
    BY <2>1, <2>2, <2>4
<1>17. S = {TileOf(lv, cr) : cr \in Wanted(l)}
  <2>1. Boxes = D
    BY DEF Boxes, D, Z
  <2>2. \A cr : cr \in Wanted(l) <=> \E e \in D : cr \in Centred(l, e)
    <3>1. Wanted(l) = UNION {IF b = None THEN Raster(0) ELSE Centred(l, b) : b \in D}
      BY <2>1 DEF Wanted
    <3>2. None \notin D
      BY DEF D
    <3>3. QED
      BY <3>1, <3>2
  <2>3. \A cr : cr \in Wanted(l) <=> \E w \in windows : cr \in Covered(w)
    BY <1>10, <1>12, <2>2
  <2>4. \A t \in S : \E cr \in Wanted(l) : t = TileOf(lv, cr)
    <3>1. \A t \in S : \E w \in windows : t \in TileRange(lv, w)
      OBVIOUS
    <3> HIDE DEF S
    <3>2. \A t \in S : \E w \in windows : \E cr \in Covered(w) : t = TileOf(lv, cr)
      BY <1>14, <3>1
    <3>3. QED
      BY <2>3, <3>2
  <2>5. \A cr \in Wanted(l) : TileOf(lv, cr) \in S
    <3>1. \A cr \in Wanted(l) : \E w \in windows : TileOf(lv, cr) \in TileRange(lv, w)
      BY <1>14, <2>3
    <3>2. QED
      BY <3>1
  <2> HIDE DEF S
  <2>6. QED
    BY <2>4, <2>5, Zenon
<1>18. Lists(list, S)
  <2> HIDE DEF S
  <2>1. QED
    BY <1>16, SortedX
<1>19. ListsTilesOf(list, l, Wanted(l))
  <2> HIDE DEF S, list
  <2>1. QED
    BY <1>17, <1>18, Zenon DEF ListsTilesOf, lv
<1>20. Box = None => list = <<>>
  <2> SUFFICES ASSUME Box = None PROVE list = <<>>
    OBVIOUS
  <2>1. D = {}
    BY <1>7 DEF D
  <2>2. windows = {}
    BY <1>10, <2>1
  <2>3. S = {}
    BY <2>2
  <2>4. Cardinality(S) = 0
    BY <2>3, FS_EmptySet
  <2> HIDE DEF S
  <2>5. QED
    BY <2>4 DEF Sorted
<1>21. QED
  <2> HIDE DEF list
  <2>1. QED
    BY <1>5, <1>7, <1>9, <1>19, <1>20 DEF l

\* The window that band_window reads for a box, or without one, and its pixels.
WindowOf(b) ==
  IF b = None THEN <<0, Lv(0).image_width - 1, 0, Lv(0).image_height - 1>>
  ELSE CenterWindow(meta.georef, Lv(0), b)

PixelsOf(b) == IF b = None THEN Raster(0) ELSE Centred(0, b)

\* A read of a window: what band_window has checked before it fetches.
Windowed(b) ==
  /\ ~BadBand(req.band) /\ Len(meta.levels) > 0
  /\ b = None \/ (b \in IntBoxes /\ meta.georef # None /\ WindowOf(b) # None)
  /\ Window(WindowOf(b), Lv(0)) /\ Covered(WindowOf(b)) = PixelsOf(b)

LEMMA OverPlan ==
  ASSUME Metadata(meta), NEW b \in Corners \cup {None}, "tiles" \in DOMAIN BandWindowOver(b)
  PROVE  /\ Windowed(b)
         /\ BandWindowOver(b).level = 0
         /\ BandWindowOver(b).tiles = TilesOf(Lv(0), WindowOf(b))
<1> DEFINE W == Lv(0).image_width
           H == Lv(0).image_height
           plan == BandWindowOver(b)
<1>1. /\ ~(meta.levels = <<>> \/ BadBand(req.band)) /\ 0 \notin {W, H}
  BY DEF BandWindowOver
<1>2. Len(meta.levels) > 0
  BY <1>1 DEF Metadata
<1>3. 0 \in 0..(Len(meta.levels) - 1)
  BY <1>2 DEF Metadata
<1>4. W \in Nat \ {0} /\ H \in Nat \ {0}
  BY <1>1, <1>3, LevelProps DEF Level
<1>5. CASE b = None
  <2> DEFINE w == <<0, W - 1, 0, H - 1>>
  <2>1. plan = [level |-> 0, tiles |-> TilesOf(Lv(0), w)] /\ WindowOf(b) = w
    BY <1>1, <1>5 DEF BandWindowOver, WindowOf
  <2>2. Window(w, Lv(0))
    <3> HIDE DEF W, H
    <3>1. w \in IntBoxes /\ 0 <= w[1] /\ w[1] <= w[2] /\ w[2] < W /\ 0 <= w[3]
             /\ w[3] <= w[4] /\ w[4] < H
      BY <1>4 DEF IntBoxes
    <3> HIDE DEF w
    <3>2. QED
      BY <3>1 DEF Window, W, H
  <2>3. Covered(w) = PixelsOf(b)
    BY <1>5 DEF Covered, PixelsOf, Raster
  <2> HIDE DEF w, W, H
  <2>4. QED
    BY <1>1, <1>2, <1>5, <2>1, <2>2, <2>3 DEF Windowed
<1>6. CASE b # None
  <2> DEFINE w == CenterWindow(meta.georef, Lv(0), b)
  <2> HIDE DEF w
  <2>1. /\ ValidBox(b) /\ meta.georef # None /\ w # None
        /\ plan = [level |-> 0, tiles |-> TilesOf(Lv(0), w)]
    BY <1>1, <1>6 DEF BandWindowOver, w
  <2>2. b \in IntBoxes /\ WindowOf(b) = w /\ PixelsOf(b) = Centred(0, b)
    BY <1>6, <2>1, ValidCorners DEF WindowOf, PixelsOf, w
  <2>3. Window(w, Lv(0)) /\ Centred(0, b) = Covered(w)
    BY <2>1, <2>2, BaseWindow DEF w
  <2>4. QED
    BY <1>1, <1>2, <2>1, <2>2, <2>3 DEF Windowed
<1>7. QED
  BY <1>5, <1>6

\* band_window and band_window_polygon: the tiles of the window, at level 0.
LEMMA WindowPlan ==
  ASSUME Reading, req.op \in WindowOps, "tiles" \in DOMAIN Plan
  PROVE  /\ Windowed(Box) /\ Plan.level = 0
         /\ Box = None => req.op = "band_window"
         /\ ListsTilesOf(Plan.tiles, 0, Wanted(0))
<1> DEFINE planned == /\ "tiles" \in DOMAIN BandWindowOver(Box) /\ Plan = BandWindowOver(Box)
                      /\ Box \in Corners \cup {None}
                      /\ Box = None => req.op = "band_window"
<1>1. Metadata(meta) /\ req \in Calls
  BY ReadingMeta
<1>2. ASSUME req.op = "band_window" PROVE planned
  <2>1. Plan = BandWindowOver(Box) /\ Box = req.bbox
    BY <1>2 DEF Plan, Box
  <2>2. QED
    BY <1>1, <1>2, <2>1, CallProps
<1>3. ASSUME req.op = "band_window_polygon" PROVE planned
  <2>1. Plan = BandWindowPolygon /\ Box = Envelope(zones.ok[1])
    BY <1>3 DEF Plan, Box
  <2>2. "err" \notin DOMAIN zones
    BY <2>1 DEF BandWindowPolygon, ZonesOf, Reading
  <2>3. Box # None /\ Plan = BandWindowOver(Box)
    BY <2>1, <2>2 DEF BandWindowPolygon
  <2>4. Box \in IntBoxes
    BY <1>3, <2>1, <2>2, <2>3, ZonesProps, EnvelopeProps
  <2>5. IntBoxes \subseteq Corners
    BY DEF IntBoxes, Corners, Coordinates
  <2>6. QED
    BY <2>3, <2>4, <2>5
<1>4. planned
  <2> HIDE DEF planned
  <2>1. QED
    BY <1>2, <1>3 DEF WindowOps
<1>5. Windowed(Box) /\ Plan.level = 0 /\ Plan.tiles = TilesOf(Lv(0), WindowOf(Box))
  BY <1>1, <1>4, OverPlan
<1>6. Wanted(0) = PixelsOf(Box)
  <2>1. Boxes = {Box}
    BY DEF Boxes, WindowOps
  <2>2. Wanted(0) = UNION {IF b = None THEN Raster(0) ELSE Centred(0, b) : b \in {Box}}
    BY <2>1 DEF Wanted, WindowOps
  <2>3. QED
    BY <2>2 DEF PixelsOf
<1>7. Level(Lv(0)) /\ Window(WindowOf(Box), Lv(0)) /\ Covered(WindowOf(Box)) = PixelsOf(Box)
  <2>1. 0 \in 0..(Len(meta.levels) - 1)
    BY <1>1, <1>5 DEF Metadata, Windowed
  <2>2. QED
    BY <1>1, <1>5, <2>1, LevelProps DEF Windowed
<1>8. ListsTilesOf(TilesOf(Lv(0), WindowOf(Box)), 0, PixelsOf(Box))
  BY <1>7, WindowTilesOf
<1>9. QED
  BY <1>4, <1>5, <1>6, <1>8

\* Whatever the call, fetch_decoded is asked for the tiles of the wanted pixels,
\* each once.
LEMMA PlanLists ==
  ASSUME Reading, "tiles" \in DOMAIN Plan
  PROVE  /\ ~BadBand(req.band)
         /\ Plan.level \in 0..(Len(meta.levels) - 1)
         /\ ListsTilesOf(Plan.tiles, Plan.level, Wanted(Plan.level))
<1>1. /\ Metadata(meta)
      /\ req.op \in {"read_pixels", "zonal_bbox", "zonal", "zonal_zones",
                     "band_window", "band_window_polygon"}
  BY ReadingMeta, CallProps
<1>2. Len(meta.levels) > 0 => 0 \in 0..(Len(meta.levels) - 1)
  BY <1>1 DEF Metadata
<1> DEFINE planned == /\ ~BadBand(req.band)
                      /\ Plan.level \in 0..(Len(meta.levels) - 1)
                      /\ ListsTilesOf(Plan.tiles, Plan.level, Wanted(Plan.level))
<1>3. ASSUME req.op = "read_pixels" PROVE planned
  BY <1>2, <1>3, ReadPixelsPlan
<1>4. ASSUME req.op \in {"zonal_bbox", "zonal"} PROVE planned
  BY <1>4, ZonalPlan, Zenon
<1>5. ASSUME req.op = "zonal_zones" PROVE planned
  BY <1>5, BatchPlan, Zenon
<1>6. ASSUME req.op \in WindowOps PROVE planned
  BY <1>2, <1>6, WindowPlan DEF Windowed
<1> HIDE DEF planned
<1>7. planned
  BY <1>1, <1>3, <1>4, <1>5, <1>6 DEF WindowOps
<1>8. QED
  BY <1>7 DEF planned

(***************************************************************************)
(* The file, the call, the metadata and the zones do not change: neither     *)
(* does what is computed from them.                                          *)
(***************************************************************************)

\* The levels, the windows and the choice of a level.
LEMMA LevelsStay ==
  ASSUME opened' = opened
  PROVE  /\ \A l : Lv(l)' = Lv(l) /\ G(l)' = G(l)
         /\ \A n : BadBand(n)' <=> BadBand(n)
         /\ \A b : EnvelopeWindow(b)' = EnvelopeWindow(b) /\ LevelFor(b)' = LevelFor(b)
         /\ \A z, l : ZoneWindow(z, l)' = ZoneWindow(z, l) /\ Estimates(z, l)' = Estimates(z, l)
         /\ \A p : Coord(p)' = Coord(p) /\ TileAt(p)' = TileAt(p)
         /\ \A b, w : WindowRect(b, w)' = WindowRect(b, w)
<1>1. file' = file /\ req' = req /\ meta' = meta /\ zones' = zones
  BY DEF opened
<1>2. \A l : Lv(l)' = Lv(l)
  BY <1>1 DEF Lv
<1>3. \A l : G(l)' = G(l)
  BY <1>1, <1>2 DEF G
<1>4. \A n : BadBand(n)' <=> BadBand(n)
  BY <1>1 DEF BadBand
<1>5. \A b : EnvelopeWindow(b)' = EnvelopeWindow(b)
  BY <1>1, <1>2 DEF EnvelopeWindow
<1>6. \A b, m : SelectLevel(b, m)' = SelectLevel(b, m)
  BY <1>1, <1>2, <1>3 DEF SelectLevel
<1>7. \A b : LevelFor(b)' = LevelFor(b)
  BY <1>1, <1>6 DEF LevelFor
<1>8. \A z, l : ZoneWindow(z, l)' = ZoneWindow(z, l)
  BY <1>2, <1>3 DEF ZoneWindow
<1>9. \A l : LevelScale(l)' = LevelScale(l)
  BY <1>2 DEF LevelScale
<1>10. \A z, l : Estimates(z, l)' = Estimates(z, l)
  BY <1>9 DEF Estimates
<1>11. \A p : Coord(p)' = Coord(p) /\ TileAt(p)' = TileAt(p)
  BY <1>1, <1>2 DEF Coord, TileAt
<1>12. \A b, w : WindowRect(b, w)' = WindowRect(b, w)
  BY <1>1, <1>5 DEF WindowRect
<1>13. QED
  BY <1>2, <1>3, <1>4, <1>5, <1>7, <1>8, <1>10, <1>11, <1>12

\* What a call asks for.
LEMMA PlanStays ==
  ASSUME opened' = opened
  PROVE  Plan' = Plan
<1>1. file' = file /\ req' = req /\ meta' = meta /\ zones' = zones
  BY DEF opened
<1>2. /\ \A l : Lv(l)' = Lv(l) /\ G(l)' = G(l)
      /\ \A n : BadBand(n)' <=> BadBand(n)
      /\ \A b : LevelFor(b)' = LevelFor(b)
      /\ \A z, l : ZoneWindow(z, l)' = ZoneWindow(z, l) /\ Estimates(z, l)' = Estimates(z, l)
      /\ \A p : Coord(p)' = Coord(p) /\ TileAt(p)' = TileAt(p)
      /\ \A b, w : WindowRect(b, w)' = WindowRect(b, w)
  BY LevelsStay
<1>3. ReadPixels' = ReadPixels
  BY <1>1, <1>2 DEF ReadPixels
<1>4. ZonalStatsAt' = ZonalStatsAt
  BY <1>1, <1>2 DEF ZonalStatsAt
<1>5. ZonalStatsPolygonAt' = ZonalStatsPolygonAt
  BY <1>1, <1>2 DEF ZonalStatsPolygonAt
<1>6. ZonalStatsPolygonBatchAt' = ZonalStatsPolygonBatchAt
  BY <1>1, <1>2 DEF ZonalStatsPolygonBatchAt
<1>7. \A b : NoWindow(b)' = NoWindow(b)
  BY <1>2 DEF NoWindow
<1>8. \A b : BandWindowOver(b)' = BandWindowOver(b)
  BY <1>1, <1>2, <1>7 DEF BandWindowOver
<1>9. BandWindowPolygon' = BandWindowPolygon
  BY <1>1, <1>2, <1>7, <1>8 DEF BandWindowPolygon
<1>10. QED
  BY <1>1, <1>3, <1>4, <1>5, <1>6, <1>8, <1>9 DEF Plan

\* The arrays that fetch_decoded returns for the list, and the answer of the call.
Arrays == [i \in DOMAIN tiles |-> Decoded(level, tiles[i])]

LEMMA ArraysStay ==
  ASSUME opened' = opened, level' = level, tiles' = tiles
  PROVE  Arrays' = Arrays
<1>1. file' = file /\ req' = req /\ meta' = meta /\ zones' = zones
  BY DEF opened
<1>2. \A l : Lv(l)' = Lv(l)
  BY LevelsStay
<1>3. \A l, c, r, b : PixelOf(l, c, r, b)' = PixelOf(l, c, r, b)
  BY <1>1 DEF PixelOf
<1>4. ASSUME NEW l, NEW t PROVE Decoded(l, t)' = Decoded(l, t)
  <2> DEFINE h == Lv(l).tile_height - (IF t \in file.short THEN 1 ELSE 0)
             w == Lv(l).tile_width
             n == meta.num_bands
             at(r, c, b) ==
               LET col == t[1] * w + c
                   row == t[2] * Lv(l).tile_height + r
               IN IF col < Lv(l).image_width /\ row < Lv(l).image_height
                  THEN PixelOf(l, col, row, b + 1) ELSE Padding
             planar(i, x, y, z) == at((i \div y) % x, i % y, i \div (x * y))
             chunky(i, x, y, z) == at(i \div (y * z), (i \div z) % y, i % z)
             places(x, y, z) == 0..(z * x * y - 1)
             array(x, y, z) ==
               IF file.planar = "planar"
               THEN [shape |-> <<z, x, y>>, data |-> [i \in places(x, y, z) |-> planar(i, x, y, z)]]
               ELSE [shape |-> <<x, y, z>>, data |-> [i \in places(x, y, z) |-> chunky(i, x, y, z)]]
  <2>1. Decoded(l, t) = array(h, w, n) /\ Decoded(l, t)' = array(h, w, n)'
    BY Zenon DEF Decoded
  <2>2. h' = h /\ w' = w /\ n' = n
    BY <1>1, <1>2
  <2>3. \A r, c, b : at(r, c, b)' = at(r, c, b)
    BY <1>1, <1>2, <1>3
  <2> HIDE DEF h, w, n, at
  <2>4. \A i, x, y, z : planar(i, x, y, z)' = planar(i, x, y, z)
                         /\ chunky(i, x, y, z)' = chunky(i, x, y, z)
    BY <2>3, Zenon
  <2> HIDE DEF planar, chunky, places
  <2>5. \A x, y, z : array(x, y, z)' = array(x, y, z)
    BY <1>1, <2>4
  <2> HIDE DEF array
  <2>6. QED
    BY <2>1, <2>2, <2>5
<1>5. QED
  BY <1>4 DEF Arrays

\* The sample a point is read from; the cells of the tiles of a window, as
\* <<place in the list, <<tile, column, row>>>>, with their sample and their slot.
Place(list, t) == CHOOSE i \in DOMAIN list : list[i] = t
AnyOf(S) == CHOOSE s \in S : TRUE

PointSample(d, c) ==
  SampleArray(d[Place(tiles, TileAt(c))], c[2] % Lv(0).tile_height, c[1] % Lv(0).tile_width,
              req.band - 1)

CellSample(d, band, s) == SampleArray(d[s[1]], s[2][3], s[2][2], band - 1)

CellsIn(lv, w, list) == UNION {{<<i, cell>> : cell \in TileCells(lv, w, list[i])} : i \in DOMAIN list}

Slot(lv, w, s) ==
  (s[2][1][2] * lv.tile_height + s[2][3] - w[3]) * (w[2] - w[1] + 1)
    + (s[2][1][1] * lv.tile_width + s[2][2] - w[1]) + 1

SlotValue(d, lv, w, k) ==
  LET here == {s \in CellsIn(lv, w, tiles) : Slot(lv, w, s) = k} IN
    IF here = {} THEN None ELSE ApplyNodata(CellSample(d, req.band, AnyOf(here)))

\* SamplePoints and FillWindow in these terms.
PointsRead(d) ==
  LET cs == [k \in DOMAIN req.points |-> Coord(req.points[k])] IN
    IF \E k \in DOMAIN cs : cs[k] # None /\ PointSample(d, cs[k]) = None THEN [err |-> "Tiff"]
    ELSE [ok |-> [k \in DOMAIN cs |->
                    IF cs[k] = None THEN None ELSE ApplyNodata(PointSample(d, cs[k]))]]

WindowFilled(b, d) ==
  LET lv == Lv(0)
      w == WindowOf(b)
  IN IF \E s \in CellsIn(lv, w, tiles) : CellSample(d, req.band, s) = None THEN [err |-> "Tiff"]
     ELSE [ok |-> [k \in 1..((w[2] - w[1] + 1) * (w[4] - w[3] + 1)) |-> SlotValue(d, lv, w, k)]]

LEMMA FinishStays ==
  ASSUME opened' = opened, level' = level, tiles' = tiles, NEW a
  PROVE  Finish(a)' = Finish(a)
<1>1. file' = file /\ req' = req /\ meta' = meta /\ zones' = zones
  BY DEF opened
<1>2. /\ \A l : Lv(l)' = Lv(l) /\ G(l)' = G(l)
      /\ \A b : EnvelopeWindow(b)' = EnvelopeWindow(b)
      /\ \A z, l : ZoneWindow(z, l)' = ZoneWindow(z, l) /\ Estimates(z, l)' = Estimates(z, l)
      /\ \A p : Coord(p)' = Coord(p) /\ TileAt(p)' = TileAt(p)
      /\ \A b, w : WindowRect(b, w)' = WindowRect(b, w)
  BY LevelsStay
<1>3. /\ \A d, r, c, b : SampleArray(d, r, c, b)' = SampleArray(d, r, c, b)
      /\ \A v : ApplyNodata(v)' = ApplyNodata(v)
  BY <1>1 DEF SampleArray, ApplyNodata
<1>4. ASSUME NEW d PROVE SamplePoints(d)' = SamplePoints(d)
  <2>1. SamplePoints(d) = PointsRead(d) /\ SamplePoints(d)' = PointsRead(d)'
    BY Zenon DEF SamplePoints, PointsRead, PointSample, Place
  <2>2. \A c : PointSample(d, c)' = PointSample(d, c)
    BY <1>1, <1>2, <1>3 DEF PointSample
  <2>3. PointsRead(d)' = PointsRead(d)
    BY <1>1, <1>2, <1>3, <2>2 DEF PointsRead
  <2>4. QED
    BY <2>1, <2>3
<1>5. \A l, lv, w : InList(tiles, lv, w)' = InList(tiles, lv, w)
  BY DEF InList
<1>6. \A l, w, b, d, z : Accumulate(l, w, b, d, z)' = Accumulate(l, w, b, d, z)
  BY <1>1, <1>2, <1>3, <1>5 DEF Accumulate
<1>7. \A raw : Scaled(raw)' = Scaled(raw)
  BY <1>1, <1>2 DEF Scaled
<1>8. \A z, d : ZoneStats(z, d)' = ZoneStats(z, d)
  BY <1>1, <1>2, <1>6 DEF ZoneStats
<1>9. \A d : BatchStats(d)' = BatchStats(d)
  BY <1>1, <1>2, <1>8 DEF BatchStats
<1>10. ASSUME NEW b, NEW d PROVE FillWindow(b, d)' = FillWindow(b, d)
  <2>1. FillWindow(b, d) = WindowFilled(b, d) /\ FillWindow(b, d)' = WindowFilled(b, d)'
    BY Zenon DEF FillWindow, WindowFilled, WindowOf, CellsIn, CellSample, SlotValue, Slot, AnyOf
  <2>2. /\ WindowOf(b)' = WindowOf(b)
        /\ \A n, s : CellSample(d, n, s)' = CellSample(d, n, s)
    BY <1>1, <1>2, <1>3 DEF WindowOf, CellSample
  <2>3. \A lv, w, k : SlotValue(d, lv, w, k)' = SlotValue(d, lv, w, k)
    BY <1>1, <1>3, <2>2 DEF SlotValue
  <2>4. WindowFilled(b, d)' = WindowFilled(b, d)
    BY <1>1, <1>2, <2>2, <2>3 DEF WindowFilled
  <2>5. QED
    BY <2>1, <2>4
<1>11. \A z, w, win : Mask(z, w, win)' = Mask(z, w, win)
  BY <1>1 DEF Mask
<1>12. \A e, f, z : WindowAnswer(e, f, z)' = WindowAnswer(e, f, z)
  BY <1>1, <1>2, <1>11 DEF WindowAnswer
<1>13. QED
  BY <1>1, <1>2, <1>4, <1>6, <1>7, <1>8, <1>9, <1>10, <1>12 DEF Finish

(***************************************************************************)
(* The inductive invariant: a call fetches what Plan says and answers with   *)
(* what Finish makes of it.                                                  *)
(***************************************************************************)

Planned == "tiles" \in DOMAIN Plan /\ level = Plan.level /\ tiles = Plan.tiles

AnsweredEarly == "tiles" \notin DOMAIN Plan /\ answer = Plan /\ tiles = <<>>
AnsweredLate == Planned /\ answer \in {Finish(Arrays), [err |-> "Tiff"]}

ReadInv ==
  /\ Reading
  /\ pc \in {"begin", "fetch", "done"}
  /\ pc = "begin" => tiles = <<>>
  /\ pc = "fetch" => Planned
  /\ pc = "done" => AnsweredEarly \/ AnsweredLate

\* The invariant holds in every state.
THEOREM ReadInvariant == Spec => []ReadInv
<1>1. Init => ReadInv
  BY DEF Init, ReadInv, Reading
<1>2. ReadInv /\ [Next]_vars => ReadInv'
  <2> SUFFICES ASSUME ReadInv, [Next]_vars PROVE ReadInv'
    OBVIOUS
  <2> USE DEF ReadInv
  <2>1. opened' = opened => Reading' /\ Plan' = Plan
    BY PlanStays DEF Reading, opened
  <2>2. opened' = opened /\ level' = level /\ tiles' = tiles => Finish(Arrays)' = Finish(Arrays)
    <3> SUFFICES ASSUME opened' = opened, level' = level, tiles' = tiles
                 PROVE  Finish(Arrays)' = Finish(Arrays)
      OBVIOUS
    <3>1. Arrays' = Arrays
      BY ArraysStay
    <3>2. \A a : Finish(a)' = Finish(a)
      BY FinishStays
    <3>3. QED
      BY <3>1, <3>2
  <2>3. CASE Early
    BY <2>1, <2>3 DEF Early, AnsweredEarly
  <2>4. CASE Fetch
    BY <2>1, <2>4 DEF Fetch, Planned
  <2>5. CASE FetchOk
    <3>1. /\ pc = "fetch" /\ pc' = "done" /\ opened' = opened /\ level' = level
          /\ tiles' = tiles /\ answer' = Finish(Arrays)
      BY <2>5 DEF FetchOk, Arrays
    <3>2. QED
      BY <2>1, <2>2, <3>1 DEF AnsweredLate, Planned
  <2>6. CASE FetchErr
    BY <2>1, <2>6 DEF FetchErr, AnsweredLate, Planned
  <2>7. CASE UNCHANGED vars
    BY <2>1, <2>2, <2>7 DEF vars, AnsweredEarly, AnsweredLate, Planned
  <2>8. QED
    BY <2>3, <2>4, <2>5, <2>6, <2>7 DEF Next, Done
<1>3. QED
  BY <1>1, <1>2, PTL DEF Spec

\* fetch_decoded is asked for the tiles of the wanted pixels, none missing, none
\* in vain and none twice: claiming a key twice would wait for oneself.
THEOREM ReadTilesOnce == Spec => []TilesOnce
<1>1. ReadInv => TilesOnce
  <2> SUFFICES ASSUME ReadInv, pc = "fetch" PROVE TilesOnce
    BY DEF TilesOnce
  <2>1. ListsTilesOf(tiles, level, Wanted(level))
    BY PlanLists DEF ReadInv, Planned
  <2> DEFINE at(cr) == <<cr[1] \div Lv(level).tile_width, cr[2] \div Lv(level).tile_height>>
             S == {at(cr) : cr \in Wanted(level)}
  <2>2. Lists(tiles, S)
    BY <2>1 DEF ListsTilesOf, TileOf
  <2> HIDE DEF S
  <2>3. ToSet(tiles) = S /\ Len(tiles) = Cardinality(ToSet(tiles))
    BY <2>2 DEF Lists
  <2>4. QED
    BY <2>3, Zenon DEF TilesOnce, S, Wanted, Boxes
<1>2. QED
  BY <1>1, ReadInvariant, PTL

(***************************************************************************)
(* Samples: what an array holds at a row, a column and a band.               *)
(***************************************************************************)

\* Multiplication by a natural number keeps the order.
LEMMA TimesMonotone ==
  ASSUME NEW a \in Int, NEW b \in Int, a <= b, NEW n \in Nat
  PROVE  a * n \in Int /\ b * n \in Int /\ a * n <= b * n
<1>1. (b - a) * n >= 0
  OBVIOUS
<1>2. (b - a) * n = b * n - a * n
  OBVIOUS
<1>3. QED
  BY <1>1, <1>2

\* Two digits: the place of column z of row y in rows of length Z.
LEMMA TwoDigits ==
  ASSUME NEW Y \in Nat, NEW Z \in Nat \ {0}, NEW y \in 0..(Y - 1), NEW z \in 0..(Z - 1)
  PROVE  /\ y * Z + z \in 0..(Y * Z - 1)
         /\ (y * Z + z) \div Z = y /\ (y * Z + z) % Z = z
<1> DEFINE p == y * Z
<1>1. p \in Nat /\ p <= (Y - 1) * Z
  <2>1. y * Z <= (Y - 1) * Z /\ 0 * Z <= y * Z /\ y * Z \in Int
    BY TimesMonotone
  <2>2. QED
    BY <2>1
<1>2. (Y - 1) * Z = Y * Z - Z /\ Y * Z \in Int
  OBVIOUS
<1>3. p + z \in 0..(Y * Z - 1)
  <2> HIDE DEF p
  <2> DEFINE q == Y * Z
  <2>1. q \in Int /\ p <= q - Z
    BY <1>1, <1>2
  <2> HIDE DEF q
  <2>2. p + z \in 0..(q - 1)
    BY <1>1, <2>1
  <2>3. QED
    BY <2>2 DEF q
<1>4. (p + z) \div Z = y
  <2>1. y * Z <= p + z /\ p + z < y * Z + Z /\ p + z \in Int
    BY <1>1
  <2>2. QED
    BY <2>1, DivUnique
<1>5. (p + z) % Z = z
  <2>1. p + z \in Int
    BY <1>1
  <2>2. Z * y = p
    OBVIOUS
  <2> HIDE DEF p
  <2>3. (p + z) % Z = (p + z) - Z * ((p + z) \div Z)
    BY <2>1, ModProps
  <2>4. QED
    BY <1>1, <1>4, <2>2, <2>3
<1>6. QED
  BY <1>3, <1>4, <1>5

\* Three digits.  The place and what it says have names, which hide products of
\* variables from the provers.
Packed(Y, Z, x, y, z) == (x * Y + y) * Z + z
Unpacks(i, X, Y, Z, x, y, z) ==
  /\ i \in 0..(X * Y * Z - 1)
  /\ i \div (Y * Z) = x /\ (i \div Z) % Y = y /\ i % Z = z

LEMMA PackedProps ==
  ASSUME NEW X \in Nat, NEW Y \in Nat \ {0}, NEW Z \in Nat \ {0},
         NEW x \in 0..(X - 1), NEW y \in 0..(Y - 1), NEW z \in 0..(Z - 1)
  PROVE  Unpacks(Packed(Y, Z, x, y, z), X, Y, Z, x, y, z)
<1> DEFINE q == x * Y + y
           i == q * Z + z
           XY == X * Y
<1>1. q \in 0..(XY - 1) /\ q \div Y = x /\ q % Y = y
  BY TwoDigits
<1>2. XY \in Nat
  BY <1>1
<1> HIDE DEF XY
<1>3. i \in 0..(XY * Z - 1) /\ i \div Z = q /\ i % Z = z
  <2> HIDE DEF q
  <2>1. QED
    BY <1>1, <1>2, TwoDigits
<1>4. i \div (Y * Z) = x
  <2> DEFINE YZ == Y * Z
             w == y * Z + z
  <2>1. w \in 0..(YZ - 1)
    BY TwoDigits
  <2>2. YZ \in Nat \ {0}
    <3>1. Y * Z \in Int /\ Y * Z >= 1
      BY <2>1
    <3>2. QED
      BY <3>1
  <2>3. x * YZ + w = i
    <3>1. (x * Y + y) * Z = (x * Y) * Z + y * Z /\ (x * Y) * Z = x * (Y * Z)
      OBVIOUS
    <3>2. QED
      BY <3>1
  <2> HIDE DEF YZ, w
  <2>4. (x * YZ + w) \div YZ = x
    BY <2>1, <2>2, TwoDigits
  <2>5. i \div YZ = x
    BY <2>3, <2>4
  <2>6. QED
    BY <2>5 DEF YZ
<1> HIDE DEF i
<1>5. Unpacks(i, X, Y, Z, x, y, z)
  BY <1>1, <1>3, <1>4 DEF XY, Unpacks
<1>6. QED
  BY <1>5 DEF Packed, i, q

\* The pixel at an offset in a tile, and what sample_array finds there.
CellPixel(l, t, dc, dr) == <<t[1] * Lv(l).tile_width + dc, t[2] * Lv(l).tile_height + dr>>

\* An array that sample_array can read at a cell of the image holds the pixel's
\* value there, whatever the planar configuration and even if it is short.
LEMMA SampleExact ==
  ASSUME NEW l, Level(Lv(l)), NEW t \in Tiles, meta.num_bands \in Nat,
         NEW dc \in 0..(Lv(l).tile_width - 1), NEW dr \in 0..(Lv(l).tile_height - 1),
         NEW band \in 1..meta.num_bands,
         CellPixel(l, t, dc, dr) \in Raster(l),
         SampleArray(Decoded(l, t), dr, dc, band - 1) # None
  PROVE  SampleArray(Decoded(l, t), dr, dc, band - 1)
           = PixelOf(l, CellPixel(l, t, dc, dr)[1], CellPixel(l, t, dc, dr)[2], band)
<1> DEFINE th == Lv(l).tile_height
           h == th - (IF t \in file.short THEN 1 ELSE 0)
           w == Lv(l).tile_width
           n == meta.num_bands
           b == band - 1
           at(r, c, k) ==
             LET col == t[1] * w + c
                 row == t[2] * th + r
             IN IF col < Lv(l).image_width /\ row < Lv(l).image_height
                THEN PixelOf(l, col, row, k + 1) ELSE Padding
           a == Decoded(l, t)
<1>1. /\ th \in Nat \ {0} /\ h \in Nat /\ w \in Nat \ {0}
      /\ n \in Nat \ {0} /\ b \in 0..(n - 1) /\ b + 1 = band
  BY DEF Level
<1>2. at(dr, dc, b) = PixelOf(l, CellPixel(l, t, dc, dr)[1], CellPixel(l, t, dc, dr)[2], band)
  <2>1. /\ CellPixel(l, t, dc, dr) = <<t[1] * w + dc, t[2] * th + dr>>
        /\ t[1] * w + dc < Lv(l).image_width /\ t[2] * th + dr < Lv(l).image_height
    <3>1. CellPixel(l, t, dc, dr) = <<t[1] * w + dc, t[2] * th + dr>>
      BY DEF CellPixel
    <3> DEFINE c == t[1] * w + dc
               r == t[2] * th + dr
    <3> HIDE DEF c, r
    <3>2. <<c, r>> \in Raster(l)
      BY <3>1 DEF c, r
    <3>3. c < Lv(l).image_width /\ r < Lv(l).image_height
      BY <3>2 DEF Raster, Level
    <3>4. QED
      BY <3>1, <3>3 DEF c, r
  <2>2. QED
    BY <1>1, <2>1
<1>3. CASE file.planar = "chunky"
  <2>1. a = [shape |-> <<h, w, n>>,
             data |-> [i \in 0..(n * h * w - 1) |-> at(i \div (w * n), (i \div n) % w, i % n)]]
    <3>1. file.planar # "planar"
      BY <1>3
    <3>2. QED
      BY <3>1, Zenon DEF Decoded
  <2> HIDE DEF at, h, w, n, b, th
  <2>2. /\ a.shape = <<h, w, n>>
        /\ a.data = [i \in 0..(n * h * w - 1) |-> at(i \div (w * n), (i \div n) % w, i % n)]
    BY <2>1
  <2> HIDE DEF a
  <2>3. SampleArray(a, dr, dc, b) =
          IF dr >= h \/ dc >= w \/ b >= n THEN None ELSE a.data[(dr * w + dc) * n + b]
    BY <1>3, <2>2 DEF SampleArray
  <2>4. dr \in 0..(h - 1) /\ dc \in 0..(w - 1)
    <3>1. SampleArray(a, dr, dc, b) # None
      BY DEF a, b
    <3>2. ~(dr >= h) /\ dr \in Nat /\ dc \in 0..(w - 1)
      BY <1>1, <2>3, <3>1 DEF th, w
    <3>3. QED
      BY <1>1, <3>2
  <2> DEFINE i == (dr * w + dc) * n + b
  <2> HIDE DEF i
  <2>5. /\ i \in 0..(h * w * n - 1)
        /\ i \div (w * n) = dr /\ (i \div n) % w = dc /\ i % n = b
    <3>1. i = (dr * w + dc) * n + b
      BY DEF i
    <3>2. h \in Nat /\ w \in Nat \ {0} /\ n \in Nat \ {0}
      BY <1>1, Zenon
    <3>3. dr \in 0..(h - 1) /\ dc \in 0..(w - 1) /\ b \in 0..(n - 1)
      BY <1>1, <2>4, Zenon
    <3>4. Unpacks(Packed(w, n, dr, dc, b), h, w, n, dr, dc, b)
      BY <3>2, <3>3, PackedProps
    <3>5. QED
      BY <3>1, <3>4, Zenon DEF Packed, Unpacks
  <2>6. n * h * w = h * w * n
    BY <1>1
  <2>7. SampleArray(a, dr, dc, b) = a.data[i]
    BY <1>1, <2>3, <2>4 DEF i
  <2>8. a.data[i] = at(dr, dc, b)
    BY <2>2, <2>5, <2>6
  <2>9. QED
    BY <1>2, <2>7, <2>8 DEF a, b
<1>4. CASE file.planar = "planar"
  <2>1. a = [shape |-> <<n, h, w>>,
             data |-> [i \in 0..(n * h * w - 1) |-> at((i \div w) % h, i % w, i \div (h * w))]]
    BY <1>4, Zenon DEF Decoded
  <2> HIDE DEF at, h, w, n, b, th
  <2>2. /\ a.shape = <<n, h, w>>
        /\ a.data = [i \in 0..(n * h * w - 1) |-> at((i \div w) % h, i % w, i \div (h * w))]
    BY <2>1
  <2> HIDE DEF a
  <2>3. SampleArray(a, dr, dc, b) =
          IF b >= n \/ dr >= h \/ dc >= w THEN None ELSE a.data[(b * h + dr) * w + dc]
    BY <1>4, <2>2 DEF SampleArray
  <2>4. h \in Nat \ {0} /\ dr \in 0..(h - 1) /\ dc \in 0..(w - 1)
    <3>1. SampleArray(a, dr, dc, b) # None
      BY DEF a, b
    <3>2. ~(dr >= h) /\ dr \in Nat /\ dc \in 0..(w - 1)
      BY <1>1, <2>3, <3>1 DEF th, w
    <3>3. QED
      BY <1>1, <3>2
  <2> DEFINE i == (b * h + dr) * w + dc
  <2> HIDE DEF i
  <2>5. /\ i \in 0..(n * h * w - 1)
        /\ i \div (h * w) = b /\ (i \div w) % h = dr /\ i % w = dc
    <3>1. i = (b * h + dr) * w + dc
      BY DEF i
    <3>2. h \in Nat \ {0} /\ w \in Nat \ {0} /\ n \in Nat
      BY <1>1, <2>4, Zenon
    <3>3. b \in 0..(n - 1) /\ dr \in 0..(h - 1) /\ dc \in 0..(w - 1)
      BY <1>1, <2>4, Zenon
    <3>4. Unpacks(Packed(h, w, b, dr, dc), n, h, w, b, dr, dc)
      BY <3>2, <3>3, PackedProps
    <3>5. QED
      BY <3>1, <3>4, Zenon DEF Packed, Unpacks
  <2>6. SampleArray(a, dr, dc, b) = a.data[i]
    BY <1>1, <2>3, <2>4 DEF i
  <2>7. a.data[i] = at(dr, dc, b)
    BY <2>2, <2>5
  <2>8. QED
    BY <1>2, <2>6, <2>7 DEF a, b
<1>5. CASE file.planar \notin {"chunky", "planar"}
  BY <1>5 DEF SampleArray
<1>6. QED
  BY <1>3, <1>4, <1>5

(***************************************************************************)
(* read_pixels.                                                              *)
(***************************************************************************)

\* A tile list leads from a pixel to the array that holds it.
LEMMA PlaceProps ==
  ASSUME NEW l, NEW S, ListsTilesOf(tiles, l, S), NEW cr \in S
  PROVE  /\ Place(tiles, TileOf(Lv(l), cr)) \in DOMAIN tiles
         /\ tiles[Place(tiles, TileOf(Lv(l), cr))] = TileOf(Lv(l), cr)
<1> DEFINE T == {TileOf(Lv(l), c) : c \in S}
           t == TileOf(Lv(l), cr)
<1>1. Lists(tiles, T)
  BY DEF ListsTilesOf
<1>2. t \in T
  OBVIOUS
<1> HIDE DEF T, t
<1>3. \E i \in DOMAIN tiles : tiles[i] = t
  BY <1>1, <1>2 DEF Lists, ToSet
<1>4. QED
  BY <1>3, Zenon DEF Place, t

\* Quotient and remainder.
LEMMA QuotientProps ==
  ASSUME NEW a \in Int, NEW n \in Nat \ {0}
  PROVE  a % n \in 0..(n - 1) /\ a = (a \div n) * n + (a % n) /\ a \div n \in Int
<1> DEFINE p == n * (a \div n)
           r == a % n
<1>1. r = a - p /\ r \in 0..(n - 1) /\ a \div n \in Int
  BY DivProps, ModProps
<1>2. (a \div n) * n = p /\ p \in Int
  BY <1>1
<1> HIDE DEF p, r
<1>3. a = p + r
  BY <1>1, <1>2
<1>4. a = (a \div n) * n + r
  BY <1>2, <1>3
<1>5. a % n \in 0..(n - 1) /\ a \div n \in Int
  BY DivProps, ModProps
<1>6. a = (a \div n) * n + (a % n)
  BY <1>4, Zenon DEF r
<1>7. QED
  BY <1>5, <1>6, Zenon

\* A point inside the image is read from its pixel.
LEMMA PointExact ==
  ASSUME ReadInv, Planned, req.op = "read_pixels", NEW p \in ToSet(req.points), Coord(p) # None,
         PointSample(Arrays, Coord(p)) # None
  PROVE  /\ Under(p) = {Coord(p)}
         /\ PointSample(Arrays, Coord(p)) = PixelOf(0, Coord(p)[1], Coord(p)[2], req.band)
<1> DEFINE c == Coord(p)
           tw == Lv(0).tile_width
           th == Lv(0).tile_height
           t == TileAt(c)
           i == Place(tiles, t)
           dc == c[1] % tw
           dr == c[2] % th
<1>1. Metadata(meta) /\ req.points \in Seq(PointArgs) /\ req.band \in Nat
  BY ReadingMeta, CallProps DEF ReadInv
<1>2. /\ meta.georef # None /\ ~BadBand(req.band) /\ level = 0 /\ Len(meta.levels) > 0
      /\ ListsTilesOf(tiles, 0, Wanted(0))
  BY ReadPixelsPlan DEF ReadInv, Planned
<1>3. p \in PointArgs
  BY <1>1, SequencePoints
<1>4. c \in Raster(0) /\ Under(p) = {c}
  BY <1>1, <1>2, <1>3, CoordUnder
<1>5. Level(Lv(0))
  <2>1. 0 \in 0..(Len(meta.levels) - 1)
    BY <1>1, <1>2 DEF Metadata
  <2>2. QED
    BY <1>1, <2>1, LevelProps
<1>6. c \in Wanted(0)
  BY <1>4 DEF Wanted
<1>7. t = TileOf(Lv(0), c)
  BY DEF TileAt, TileOf
<1>8. i \in DOMAIN tiles /\ tiles[i] = t
  BY <1>2, <1>6, <1>7, PlaceProps, Zenon
<1>9. PointSample(Arrays, c) = SampleArray(Decoded(0, t), dr, dc, req.band - 1)
  <2> HIDE DEF i, t, c
  <2>1. Arrays[i] = Decoded(0, t)
    BY <1>2, <1>8 DEF Arrays
  <2>2. QED
    BY <2>1, Zenon DEF PointSample, i, t
<1>10. c[1] \in Int /\ c[2] \in Int /\ c = <<c[1], c[2]>>
  <2> HIDE DEF c
  <2>1. QED
    BY <1>4, <1>5 DEF Raster, Level
<1> HIDE DEF c
<1>11. /\ tw \in Nat \ {0} /\ th \in Nat \ {0}
       /\ dc \in 0..(tw - 1) /\ c[1] = (c[1] \div tw) * tw + dc /\ c[1] \div tw \in Int
       /\ dr \in 0..(th - 1) /\ c[2] = (c[2] \div th) * th + dr /\ c[2] \div th \in Int
  <2>1. tw \in Nat \ {0} /\ th \in Nat \ {0}
    BY <1>5 DEF Level
  <2> HIDE DEF tw, th
  <2>2. dc \in 0..(tw - 1) /\ c[1] = (c[1] \div tw) * tw + dc /\ c[1] \div tw \in Int
    BY <1>10, <2>1, QuotientProps
  <2>3. dr \in 0..(th - 1) /\ c[2] = (c[2] \div th) * th + dr /\ c[2] \div th \in Int
    BY <1>10, <2>1, QuotientProps
  <2>4. QED
    BY <2>1, <2>2, <2>3
<1>12. t = <<c[1] \div tw, c[2] \div th>> /\ t \in Tiles
  <2>1. t = <<c[1] \div tw, c[2] \div th>>
    BY DEF TileAt
  <2> HIDE DEF t, tw, th
  <2>2. QED
    BY <1>11, <2>1 DEF Tiles
<1>13. CellPixel(0, t, dc, dr) = c
  <2>1. CellPixel(0, t, dc, dr) = <<t[1] * tw + dc, t[2] * th + dr>>
    BY DEF CellPixel
  <2> HIDE DEF t, tw, th, dc, dr
  <2>2. t[1] = c[1] \div tw /\ t[2] = c[2] \div th
    BY <1>12
  <2>3. QED
    BY <1>10, <1>11, <2>1, <2>2, Zenon
<1>14. meta.num_bands \in Nat /\ req.band \in 1..meta.num_bands
  BY <1>1, <1>2 DEF Metadata, BadBand
<1> HIDE DEF t, dc, dr
<1>15. SampleArray(Decoded(0, t), dr, dc, req.band - 1) # None
  BY <1>9 DEF c
<1>16. CellPixel(0, t, dc, dr) \in Raster(0)
  BY <1>4, <1>13
<1>17. SampleArray(Decoded(0, t), dr, dc, req.band - 1)
         = PixelOf(0, CellPixel(0, t, dc, dr)[1], CellPixel(0, t, dc, dr)[2], req.band)
  BY <1>5, <1>11, <1>12, <1>14, <1>15, <1>16, SampleExact
<1>18. QED
  BY <1>4, <1>9, <1>13, <1>17 DEF c

\* Every point has the value of the pixel whose cell holds it: also on the edges
\* of pixels and tiles, with the tiles in another order than the points; NULL
\* outside the image, on nodata and for a band that is not there.
THEOREM ReadPointsExact == Spec => []PointsExact
<1>1. ReadInv => PointsExact
  <2> SUFFICES ASSUME ReadInv, pc = "done", req.op = "read_pixels", "ok" \in DOMAIN answer
               PROVE  PointsExact
    BY DEF PointsExact, Answered
  <2> DEFINE K == DOMAIN req.points
             exact(k) == LET u == Under(req.points[k]) IN
                           IF u = {} \/ BadBand(req.band) THEN None
                           ELSE LET cr == CHOOSE cr \in u : TRUE IN
                                  ApplyNodata(PixelOf(0, cr[1], cr[2], req.band))
  <2>1. Metadata(meta) /\ req.points \in Seq(PointArgs)
    BY ReadingMeta, CallProps DEF ReadInv
  <2>2. CASE AnsweredEarly
    <3>1. answer = ReadPixels /\ "tiles" \notin DOMAIN answer
      BY <2>2 DEF AnsweredEarly, Plan
    <3>2. /\ meta.georef # None /\ (meta.levels = <<>> \/ BadBand(req.band))
          /\ answer.ok = [k \in K |-> None]
      BY <3>1 DEF ReadPixels
    <3>3. BadBand(req.band)
      BY <2>1, <3>2 DEF Metadata
    <3>4. \A k \in K : exact(k) = None
      BY <3>3
    <3> HIDE DEF exact, K
    <3>5. answer.ok = [k \in K |-> exact(k)]
      BY <3>2, <3>4
    <3>6. QED
      BY <3>5, Zenon DEF PointsExact, exact, K
  <2>3. CASE AnsweredLate
    <3>1. Planned /\ answer = Finish(Arrays)
      BY <2>3 DEF AnsweredLate
    <3>2. answer = SamplePoints(Arrays)
      BY <3>1 DEF Finish
    <3>3. SamplePoints(Arrays) = PointsRead(Arrays)
      BY Zenon DEF SamplePoints, PointsRead, PointSample, Place
    <3> DEFINE value(k) == IF Coord(req.points[k]) = None THEN None
                           ELSE ApplyNodata(PointSample(Arrays, Coord(req.points[k])))
    <3>4. /\ \A k \in K : Coord(req.points[k]) # None
                            => PointSample(Arrays, Coord(req.points[k])) # None
          /\ answer.ok = [k \in K |-> value(k)]
      <4> DEFINE cs == [k \in K |-> Coord(req.points[k])]
      <4>1. /\ ~ \E k \in DOMAIN cs : cs[k] # None /\ PointSample(Arrays, cs[k]) = None
            /\ answer = [ok |-> [k \in DOMAIN cs |->
                           IF cs[k] = None THEN None ELSE ApplyNodata(PointSample(Arrays, cs[k]))]]
        BY <3>2, <3>3 DEF PointsRead
      <4>2. QED
        BY <4>1
    <3>5. ASSUME NEW k \in K PROVE value(k) = exact(k)
      <4> DEFINE p == req.points[k]
      <4>1. p \in ToSet(req.points) /\ p \in PointArgs
        BY <2>1, SequencePoints DEF ToSet
      <4>2. meta.georef # None /\ ~BadBand(req.band)
        BY <3>1, ReadPixelsPlan DEF ReadInv, Planned
      <4>3. CASE Coord(p) = None
        <5>1. Under(p) = {}
          BY <2>1, <4>1, <4>2, <4>3, CoordUnder
        <5>2. QED
          BY <4>3, <5>1
      <4>4. CASE Coord(p) # None
        <5>1. /\ Under(p) = {Coord(p)}
              /\ PointSample(Arrays, Coord(p)) = PixelOf(0, Coord(p)[1], Coord(p)[2], req.band)
          BY <3>1, <3>4, <4>1, <4>4, PointExact
        <5>2. (CHOOSE cr \in Under(p) : TRUE) = Coord(p)
          BY <5>1
        <5>3. exact(k) = ApplyNodata(PixelOf(0, Coord(p)[1], Coord(p)[2], req.band))
          BY <4>2, <5>1, <5>2
        <5>4. QED
          BY <4>4, <5>1, <5>3
      <4>5. QED
        BY <4>3, <4>4
    <3> HIDE DEF value, exact, K
    <3>6. answer.ok = [k \in K |-> exact(k)]
      BY <3>4, <3>5
    <3>7. QED
      BY <3>6, Zenon DEF PointsExact, exact, K
  <2>4. QED
    BY <2>2, <2>3 DEF ReadInv
<1>2. QED
  BY <1>1, ReadInvariant, PTL

(***************************************************************************)
(* The cells of the tiles of a window are its pixels.                        *)
(***************************************************************************)

\* The offsets in tile t of the pixels from a to b of an axis.
LEMMA AxisCells ==
  ASSUME NEW a \in Int, NEW b \in Int, NEW t \in Int, NEW n \in Nat \ {0}, NEW c
  PROVE  c \in (Max({a, t * n}) - t * n)..(Min({b, t * n + n - 1}) - t * n)
           <=> c \in 0..(n - 1) /\ t * n + c \in a..b
<1> DEFINE x == t * n
           m == x + n - 1
<1>1. x \in Int
  OBVIOUS
<1> HIDE DEF x
<1>2. m \in Int
  BY <1>1
<1>3. Max({a, x}) = (IF a >= x THEN a ELSE x) /\ Min({b, m}) = (IF b <= m THEN b ELSE m)
  BY <1>1, <1>2, MaxOfTwo, MinOfTwo
<1>4. c \in (Max({a, x}) - x)..(Min({b, m}) - x) => c \in Int
  BY <1>1, <1>2, <1>3
<1>5. c \in Int => (c \in (Max({a, x}) - x)..(Min({b, m}) - x)
                      <=> c \in 0..(n - 1) /\ x + c \in a..b)
  BY <1>1, <1>2, <1>3
<1>6. c \in (Max({a, x}) - x)..(Min({b, m}) - x) <=> c \in 0..(n - 1) /\ x + c \in a..b
  BY <1>4, <1>5
<1>7. QED
  BY <1>6 DEF x

\* The cells that accumulate_tile visits in the tiles of a window, and the pixel
\* of a cell.
WindowCells(lv, w, list) ==
  UNION {{<<i, cell>> : cell \in TileCells(lv, w, list[i])} : i \in InList(list, lv, w)}

PixelAt(lv, s) == <<s[2][1][1] * lv.tile_width + s[2][2], s[2][1][2] * lv.tile_height + s[2][3]>>

\* A cell <<i, <<t, c, r>>>> of a list: tile t is its i-th, and it has a pixel of
\* the window at column c and row r.
IsCell(lv, w, list, s) ==
  /\ s = <<s[1], <<s[2][1], s[2][2], s[2][3]>>>>
  /\ s[1] \in DOMAIN list /\ s[2][1] = list[s[1]]
  /\ s[2][2] \in 0..(lv.tile_width - 1) /\ s[2][3] \in 0..(lv.tile_height - 1)
  /\ PixelAt(lv, s) \in Covered(w)

LEMMA TileCellsProps ==
  ASSUME NEW lv, Level(lv), NEW w, Window(w, lv), NEW t \in Tiles, NEW u
  PROVE  u \in TileCells(lv, w, t) <=>
           /\ u = <<t, u[2], u[3]>>
           /\ u[2] \in 0..(lv.tile_width - 1) /\ u[3] \in 0..(lv.tile_height - 1)
           /\ t[1] * lv.tile_width + u[2] \in w[1]..w[2]
           /\ t[2] * lv.tile_height + u[3] \in w[3]..w[4]
<1> DEFINE tw == lv.tile_width
           th == lv.tile_height
           X == (Max({w[1], t[1] * tw}) - t[1] * tw)..(Min({w[2], t[1] * tw + tw - 1}) - t[1] * tw)
           Y == (Max({w[3], t[2] * th}) - t[2] * th)..(Min({w[4], t[2] * th + th - 1}) - t[2] * th)
<1>1. /\ tw \in Nat \ {0} /\ th \in Nat \ {0} /\ t[1] \in Int /\ t[2] \in Int
      /\ w[1] \in Int /\ w[2] \in Int /\ w[3] \in Int /\ w[4] \in Int
  BY DEF Level, Window, IntBoxes, Tiles
<1>2. TileCells(lv, w, t) = {t} \X X \X Y
  BY Zenon DEF TileCells
<1> HIDE DEF tw, th
<1>3. \A c : c \in X <=> c \in 0..(tw - 1) /\ t[1] * tw + c \in w[1]..w[2]
  BY <1>1, AxisCells
<1>4. \A r : r \in Y <=> r \in 0..(th - 1) /\ t[2] * th + r \in w[3]..w[4]
  BY <1>1, AxisCells
<1> HIDE DEF X, Y
<1>5. u \in {t} \X X \X Y <=> u = <<t, u[2], u[3]>> /\ u[2] \in X /\ u[3] \in Y
  OBVIOUS
<1>6. u \in TileCells(lv, w, t) <=>
        /\ u = <<t, u[2], u[3]>>
        /\ u[2] \in 0..(tw - 1) /\ t[1] * tw + u[2] \in w[1]..w[2]
        /\ u[3] \in 0..(th - 1) /\ t[2] * th + u[3] \in w[3]..w[4]
  BY <1>2, <1>3, <1>4, <1>5, Zenon
<1>7. QED
  BY <1>6, Zenon DEF tw, th

\* A pixel lies in the tile it is divided to, at the remainder.
LEMMA InTile ==
  ASSUME NEW lv, Level(lv), NEW t \in Tiles,
         NEW c \in 0..(lv.tile_width - 1), NEW r \in 0..(lv.tile_height - 1)
  PROVE  TileOf(lv, <<t[1] * lv.tile_width + c, t[2] * lv.tile_height + r>>) = t
<1> DEFINE tw == lv.tile_width
           th == lv.tile_height
<1>1. tw \in Nat \ {0} /\ th \in Nat \ {0} /\ t[1] \in Int /\ t[2] \in Int /\ t = <<t[1], t[2]>>
  BY DEF Level, Tiles
<1> HIDE DEF tw, th
<1>2. ASSUME NEW n \in Nat \ {0}, NEW q \in Int, NEW z \in 0..(n - 1)
      PROVE  (q * n + z) \div n = q
  <2> DEFINE p == q * n
  <2>1. p \in Int
    OBVIOUS
  <2>2. p + z \in Int /\ p <= p + z /\ p + z < p + n
    <3> HIDE DEF p
    <3>1. QED
      BY <2>1
  <2>3. QED
    BY <2>2, DivUnique
<1>3. c \in 0..(tw - 1) /\ r \in 0..(th - 1)
  BY DEF tw, th
<1>4. (t[1] * tw + c) \div tw = t[1] /\ (t[2] * th + r) \div th = t[2]
  BY <1>1, <1>2, <1>3
<1> DEFINE x == t[1] * tw + c
           y == t[2] * th + r
<1>5. TileOf(lv, <<x, y>>) = <<x \div tw, y \div th>>
  BY DEF TileOf, tw, th
<1>6. TileOf(lv, <<x, y>>) = t
  BY <1>1, <1>4, <1>5, Zenon
<1>7. QED
  BY <1>6 DEF tw, th

\* The cells of a list that has the tiles of the window.
LEMMA WindowCellsProps ==
  ASSUME NEW lv, Level(lv), NEW w, Window(w, lv),
         NEW list, NEW T, Lists(list, T), T \subseteq Tiles
  PROVE  /\ \A s : s \in WindowCells(lv, w, list) <=> IsCell(lv, w, list, s)
         /\ \A s : s \in CellsIn(lv, w, list) <=> IsCell(lv, w, list, s)
<1> DEFINE cells(I) == UNION {{<<i, cell>> : cell \in TileCells(lv, w, list[i])} : i \in I}
<1>1. \A i \in DOMAIN list : list[i] \in T /\ list[i] \in Tiles
  BY DEF Lists, ToSet
<1>2. ASSUME NEW i \in DOMAIN list, NEW u
      PROVE  u \in TileCells(lv, w, list[i]) <=> IsCell(lv, w, list, <<i, u>>)
  <2> DEFINE t == list[i]
             s == <<i, u>>
  <2>1. t \in Tiles
    BY <1>1
  <2>2. s[1] = i /\ s[2] = u
    OBVIOUS
  <2> HIDE DEF t, s
  <2>3. u \in TileCells(lv, w, t) <=>
           /\ u = <<t, u[2], u[3]>>
           /\ u[2] \in 0..(lv.tile_width - 1) /\ u[3] \in 0..(lv.tile_height - 1)
           /\ t[1] * lv.tile_width + u[2] \in w[1]..w[2]
           /\ t[2] * lv.tile_height + u[3] \in w[3]..w[4]
    BY <2>1, TileCellsProps, Zenon
  <2> DEFINE x == t[1] * lv.tile_width + u[2]
             y == t[2] * lv.tile_height + u[3]
  <2>4. u[1] = t => PixelAt(lv, s) = <<x, y>>
    BY <2>2, Zenon DEF PixelAt
  <2> HIDE DEF x, y
  <2>5. <<x, y>> \in Covered(w) <=> x \in w[1]..w[2] /\ y \in w[3]..w[4]
    BY DEF Covered
  <2>6. u = <<t, u[2], u[3]>> => u[1] = t
    OBVIOUS
  <2>7. s = <<s[1], <<s[2][1], s[2][2], s[2][3]>>>> <=> u = <<u[1], u[2], u[3]>>
    BY <2>2 DEF s
  <2>8. u = <<t, u[2], u[3]>> <=> u = <<u[1], u[2], u[3]>> /\ u[1] = t
    BY <2>6
  <2>9. u \in TileCells(lv, w, t) <=>
           /\ u = <<t, u[2], u[3]>>
           /\ u[2] \in 0..(lv.tile_width - 1) /\ u[3] \in 0..(lv.tile_height - 1)
           /\ x \in w[1]..w[2] /\ y \in w[3]..w[4]
    BY <2>3 DEF x, y
  <2>10. IsCell(lv, w, list, s) <=>
           /\ u = <<u[1], u[2], u[3]>> /\ u[1] = t
           /\ u[2] \in 0..(lv.tile_width - 1) /\ u[3] \in 0..(lv.tile_height - 1)
           /\ PixelAt(lv, s) \in Covered(w)
    BY <2>2, <2>7, Zenon DEF IsCell, t
  <2>11. u \in TileCells(lv, w, t) <=> IsCell(lv, w, list, s)
    BY <2>4, <2>5, <2>6, <2>8, <2>9, <2>10, Zenon
  <2>12. QED
    BY <2>11 DEF t, s
<1>3. ASSUME NEW I, I \subseteq DOMAIN list,
             \A s : IsCell(lv, w, list, s) => s[1] \in I
      PROVE  \A s : s \in cells(I) <=> IsCell(lv, w, list, s)
  <2>1. \A s : s \in cells(I) <=> \E i \in I : \E u \in TileCells(lv, w, list[i]) : s = <<i, u>>
    OBVIOUS
  <2>2. ASSUME NEW s, s \in cells(I) PROVE IsCell(lv, w, list, s)
    <3> HIDE DEF cells
    <3>1. PICK i \in I : \E u \in TileCells(lv, w, list[i]) : s = <<i, u>>
      BY <2>1, <2>2
    <3>2. QED
      BY <1>2, <1>3, <3>1
  <2>3. ASSUME NEW s, IsCell(lv, w, list, s) PROVE s \in cells(I)
    <3>1. s[1] \in I /\ s[1] \in DOMAIN list
      BY <1>3, <2>3
    <3>2. s = <<s[1], s[2]>>
      BY <2>3 DEF IsCell
    <3> HIDE DEF cells
    <3>3. s[2] \in TileCells(lv, w, list[s[1]])
      BY <1>2, <2>3, <3>1, <3>2
    <3>4. QED
      BY <2>1, <3>1, <3>2, <3>3, Zenon
  <2>4. QED
    BY <2>2, <2>3, Zenon
<1>4. ASSUME NEW s, IsCell(lv, w, list, s) PROVE s[1] \in InList(list, lv, w)
  <2> DEFINE t == list[s[1]]
             p == PixelAt(lv, s)
  <2>1. /\ s[1] \in DOMAIN list /\ s[2][1] = t /\ t \in Tiles
        /\ s[2][2] \in 0..(lv.tile_width - 1) /\ s[2][3] \in 0..(lv.tile_height - 1)
        /\ p \in Covered(w)
    BY <1>1, <1>4 DEF IsCell
  <2>2. p = <<t[1] * lv.tile_width + s[2][2], t[2] * lv.tile_height + s[2][3]>>
    BY <2>1 DEF PixelAt
  <2> HIDE DEF t, p
  <2>3. TileOf(lv, p) = t
    BY <2>1, <2>2, InTile
  <2>4. t \in TileRange(lv, w)
    BY <2>1, <2>3, RangeCovered
  <2>5. ToSet(TilesOf(lv, w)) = TileRange(lv, w)
    BY WindowList DEF Lists
  <2>6. QED
    BY <2>1, <2>4, <2>5 DEF InList, t
<1>5. \A s : s \in cells(InList(list, lv, w)) <=> IsCell(lv, w, list, s)
  <2>1. InList(list, lv, w) \subseteq DOMAIN list
    BY DEF InList
  <2> HIDE DEF cells
  <2>2. QED
    BY <1>3, <1>4, <2>1
<1>6. \A s : s \in cells(DOMAIN list) <=> IsCell(lv, w, list, s)
  <2>1. \A s : IsCell(lv, w, list, s) => s[1] \in DOMAIN list
    BY DEF IsCell
  <2> HIDE DEF cells
  <2>2. QED
    BY <1>3, <2>1
<1>7. QED
  BY <1>5, <1>6, Zenon DEF WindowCells, CellsIn

\* Every pixel of the window has one cell.
LEMMA CellBijection ==
  ASSUME NEW lv, Level(lv), NEW w, Window(w, lv),
         NEW list, NEW T, Lists(list, T), T \subseteq Tiles, TileRange(lv, w) \subseteq T
  PROVE  /\ \A s : IsCell(lv, w, list, s) => PixelAt(lv, s) \in Covered(w)
         /\ \A s1, s2 : /\ IsCell(lv, w, list, s1) /\ IsCell(lv, w, list, s2)
                        /\ PixelAt(lv, s1) = PixelAt(lv, s2)
                        => s1 = s2
         /\ \A cr \in Covered(w) : \E s : IsCell(lv, w, list, s) /\ PixelAt(lv, s) = cr
<1> DEFINE tw == lv.tile_width
           th == lv.tile_height
<1>1. tw \in Nat \ {0} /\ th \in Nat \ {0}
  BY DEF Level
<1>2. \A i \in DOMAIN list : list[i] \in T /\ list[i] \in Tiles
  BY DEF Lists, ToSet
<1>3. ASSUME NEW s, IsCell(lv, w, list, s)
      PROVE  /\ TileOf(lv, PixelAt(lv, s)) = list[s[1]]
             /\ PixelAt(lv, s) = <<list[s[1]][1] * tw + s[2][2], list[s[1]][2] * th + s[2][3]>>
             /\ list[s[1]] \in Tiles /\ s[1] \in DOMAIN list
             /\ s[2][2] \in 0..(tw - 1) /\ s[2][3] \in 0..(th - 1)
             /\ s = <<s[1], <<list[s[1]], s[2][2], s[2][3]>>>>
  <2> DEFINE t == list[s[1]]
  <2>1. /\ s[1] \in DOMAIN list /\ s[2][1] = t /\ t \in Tiles
        /\ s[2][2] \in 0..(tw - 1) /\ s[2][3] \in 0..(th - 1)
        /\ s = <<s[1], <<s[2][1], s[2][2], s[2][3]>>>>
    BY <1>2, <1>3 DEF IsCell
  <2>2. PixelAt(lv, s) = <<t[1] * tw + s[2][2], t[2] * th + s[2][3]>>
    BY <2>1 DEF PixelAt
  <2> HIDE DEF t
  <2>3. TileOf(lv, PixelAt(lv, s)) = t
    BY <2>1, <2>2, InTile
  <2>4. QED
    BY <2>1, <2>2, <2>3, Zenon DEF t
<1> HIDE DEF tw, th
<1>4. ASSUME NEW s1, NEW s2, IsCell(lv, w, list, s1), IsCell(lv, w, list, s2),
             PixelAt(lv, s1) = PixelAt(lv, s2)
      PROVE  s1 = s2
  <2>1. list[s1[1]] = list[s2[1]] /\ s1[1] \in DOMAIN list /\ s2[1] \in DOMAIN list
    BY <1>3, <1>4
  <2>2. s1[1] = s2[1]
    BY <2>1 DEF Lists
  <2> DEFINE t == list[s1[1]]
             x == t[1] * tw
             y == t[2] * th
  <2>3. t \in Tiles
    BY <1>3, <1>4
  <2>4. x \in Int /\ y \in Int
    <3> HIDE DEF t
    <3>1. t[1] \in Int /\ t[2] \in Int
      BY <2>3 DEF Tiles
    <3>2. QED
      BY <1>1, <3>1
  <2>5. /\ PixelAt(lv, s1) = <<x + s1[2][2], y + s1[2][3]>>
        /\ s1 = <<s1[1], <<t, s1[2][2], s1[2][3]>>>>
        /\ s1[2][2] \in 0..(tw - 1) /\ s1[2][3] \in 0..(th - 1)
    BY <1>3, <1>4, Zenon
  <2>6. /\ PixelAt(lv, s2) = <<x + s2[2][2], y + s2[2][3]>>
        /\ s2 = <<s2[1], <<t, s2[2][2], s2[2][3]>>>>
        /\ s2[2][2] \in 0..(tw - 1) /\ s2[2][3] \in 0..(th - 1)
    BY <1>3, <1>4, <2>2, Zenon
  <2> HIDE DEF t, x, y
  <2>7. x + s1[2][2] = x + s2[2][2] /\ y + s1[2][3] = y + s2[2][3]
    <3>1. <<x + s1[2][2], y + s1[2][3]>> = <<x + s2[2][2], y + s2[2][3]>>
      BY <1>4, <2>5, <2>6, Zenon
    <3>2. QED
      BY <3>1
  <2>8. s1[2][2] = s2[2][2] /\ s1[2][3] = s2[2][3]
    BY <1>1, <2>4, <2>5, <2>6, <2>7
  <2>9. QED
    BY <2>2, <2>5, <2>6, <2>8
<1>5. ASSUME NEW cr \in Covered(w)
      PROVE  \E s : IsCell(lv, w, list, s) /\ PixelAt(lv, s) = cr
  <2> DEFINE t == TileOf(lv, cr)
             c == cr[1] % tw
             r == cr[2] % th
  <2>1. t \in T
    BY RangeCovered
  <2>2. PICK i \in DOMAIN list : list[i] = t
    BY <2>1 DEF Lists, ToSet
  <2> DEFINE s == <<i, <<t, c, r>>>>
  <2>3. cr[1] \in Int /\ cr[2] \in Int /\ cr = <<cr[1], cr[2]>>
    <3>1. w[1] \in Int /\ w[2] \in Int /\ w[3] \in Int /\ w[4] \in Int
      BY DEF Window, IntBoxes
    <3>2. QED
      BY <3>1 DEF Covered
  <2>4. c \in 0..(tw - 1) /\ cr[1] = (cr[1] \div tw) * tw + c
    BY <1>1, <2>3, QuotientProps
  <2>5. r \in 0..(th - 1) /\ cr[2] = (cr[2] \div th) * th + r
    BY <1>1, <2>3, QuotientProps
  <2>6. t[1] = cr[1] \div tw /\ t[2] = cr[2] \div th
    BY DEF TileOf, tw, th
  <2> HIDE DEF c, r, t
  <2>7. s[1] = i /\ s[2][1] = t /\ s[2][2] = c /\ s[2][3] = r
    OBVIOUS
  <2>8. s = <<s[1], <<s[2][1], s[2][2], s[2][3]>>>>
    OBVIOUS
  <2> HIDE DEF s
  <2>9. PixelAt(lv, s) = <<t[1] * tw + c, t[2] * th + r>>
    BY <2>7, Zenon DEF PixelAt, tw, th
  <2>10. PixelAt(lv, s) = cr
    BY <2>3, <2>4, <2>5, <2>6, <2>9, Zenon
  <2>11. IsCell(lv, w, list, s)
    BY <2>2, <2>4, <2>5, <2>7, <2>8, <2>10, Zenon DEF IsCell, tw, th
  <2>12. QED
    BY <2>10, <2>11
<1>6. QED
  BY <1>4, <1>5 DEF IsCell

\* The sample of a cell is the value of its pixel.
LEMMA CellExact ==
  ASSUME Level(Lv(level)), meta.num_bands \in Nat, req.band \in Nat, ~BadBand(req.band),
         NEW T, Lists(tiles, T), T \subseteq Tiles,
         NEW w, Window(w, Lv(level)), NEW s, IsCell(Lv(level), w, tiles, s),
         CellSample(Arrays, req.band, s) # None
  PROVE  CellSample(Arrays, req.band, s)
           = PixelOf(level, PixelAt(Lv(level), s)[1], PixelAt(Lv(level), s)[2], req.band)
<1> DEFINE lv == Lv(level)
           t == tiles[s[1]]
           dc == s[2][2]
           dr == s[2][3]
           p == PixelAt(lv, s)
<1>1. /\ s[1] \in DOMAIN tiles /\ s[2][1] = t
      /\ dc \in 0..(lv.tile_width - 1) /\ dr \in 0..(lv.tile_height - 1)
      /\ p \in Covered(w)
  BY DEF IsCell
<1>2. t \in Tiles
  BY <1>1 DEF Lists, ToSet
<1>3. Arrays[s[1]] = Decoded(level, t)
  BY <1>1 DEF Arrays
<1>4. CellSample(Arrays, req.band, s) = SampleArray(Decoded(level, t), dr, dc, req.band - 1)
  BY <1>3, Zenon DEF CellSample
<1>5. CellPixel(level, t, dc, dr) = p
  BY <1>1, Zenon DEF CellPixel, PixelAt
<1>6. p \in Raster(level)
  <2>1. /\ w[1] \in Int /\ w[2] \in Int /\ w[3] \in Int /\ w[4] \in Int
        /\ 0 <= w[1] /\ w[2] < lv.image_width /\ 0 <= w[3] /\ w[4] < lv.image_height
        /\ lv.image_width \in Nat /\ lv.image_height \in Nat
    BY DEF Window, IntBoxes, Level
  <2> HIDE DEF p
  <2>2. p \in (w[1]..w[2]) \X (w[3]..w[4])
    BY <1>1 DEF Covered
  <2> HIDE DEF lv
  <2>3. p \in (0..(lv.image_width - 1)) \X (0..(lv.image_height - 1))
    BY <2>1, <2>2
  <2>4. QED
    BY <2>3 DEF Raster, lv
<1>7. req.band \in 1..meta.num_bands
  BY DEF BadBand
<1> HIDE DEF t, p
<1>8. SampleArray(Decoded(level, t), dr, dc, req.band - 1)
        = PixelOf(level, CellPixel(level, t, dc, dr)[1], CellPixel(level, t, dc, dr)[2], req.band)
  <2>1. SampleArray(Decoded(level, t), dr, dc, req.band - 1) # None
    BY <1>4
  <2>2. CellPixel(level, t, dc, dr) \in Raster(level)
    BY <1>5, <1>6
  <2>3. QED
    BY <1>1, <1>2, <1>7, <2>1, <2>2, SampleExact
<1>9. QED
  BY <1>4, <1>5, <1>8 DEF p

(***************************************************************************)
(* Correspondences of finite sets.                                           *)
(***************************************************************************)
\* A one-to-one correspondence of two finite sets.
LEMMA SameSize ==
  ASSUME NEW S, NEW T, IsFiniteSet(T), NEW f,
         \A s \in S : f[s] \in T, \A s1, s2 \in S : f[s1] = f[s2] => s1 = s2,
         \A t \in T : \E s \in S : f[s] = t
  PROVE  IsFiniteSet(S) /\ Cardinality(S) = Cardinality(T)
<1> DEFINE g == [s \in S |-> f[s]]
<1>1. g \in [S -> T]
  OBVIOUS
<1>2. \A s \in S : g[s] = f[s]
  OBVIOUS
<1> HIDE DEF g
<1>3. \A s1, s2 \in S : g[s1] = g[s2] => s1 = s2
  BY <1>2
<1>4. \A t \in T : \E s \in S : g[s] = t
  BY <1>2
<1>5. g \in Injection(S, T) /\ g \in Surjection(S, T) /\ g \in Bijection(S, T)
  <2>1. DOMAIN g = S
    BY <1>1
  <2>2. g \in Injection(S, T)
    BY <1>1, <1>3, <2>1 DEF Injection, IsInjective
  <2>3. g \in Surjection(S, T)
    BY <1>1, <1>4 DEF Surjection
  <2>4. QED
    BY <2>2, <2>3 DEF Bijection
<1>6. /\ IsFiniteSet(S)
      /\ Cardinality(S) = Cardinality(T) <=> g \in Surjection(S, T)
  BY <1>5, FS_Injection, Zenon
<1>7. QED
  BY <1>5, <1>6, Zenon

\* The number of pixels of an image.
LEMMA ImageSize ==
  ASSUME NEW lv, Level(lv)
  PROVE  /\ IsFiniteSet(Image(lv))
         /\ Cardinality(Image(lv)) = lv.image_width * lv.image_height
<1> DEFINE W == lv.image_width
           H == lv.image_height
<1>1. W \in Nat /\ H \in Nat
  BY DEF Level
<1> HIDE DEF W, H
<1>2. \A n \in Nat : IsFiniteSet(0..(n - 1)) /\ Cardinality(0..(n - 1)) = n
  <2> SUFFICES ASSUME NEW n \in Nat
               PROVE  IsFiniteSet(0..(n - 1)) /\ Cardinality(0..(n - 1)) = n
    OBVIOUS
  <2>1. CASE n = 0
    <3>1. 0..(n - 1) = {}
      BY <2>1
    <3>2. QED
      BY <2>1, <3>1, FS_EmptySet
  <2>2. CASE n > 0
    <3>1. n - 1 \in Int /\ 0 <= n - 1 /\ (n - 1) - 0 + 1 = n
      BY <2>2
    <3>2. QED
      BY <3>1, IntervalSize
  <2>3. QED
    BY <2>1, <2>2
<1>3. /\ IsFiniteSet((0..(W - 1)) \X (0..(H - 1)))
      /\ Cardinality((0..(W - 1)) \X (0..(H - 1))) = W * H
  <2> DEFINE X == 0..(W - 1)
             Y == 0..(H - 1)
  <2>1. IsFiniteSet(X) /\ Cardinality(X) = W /\ IsFiniteSet(Y) /\ Cardinality(Y) = H
    BY <1>1, <1>2
  <2> HIDE DEF X, Y
  <2>2. IsFiniteSet(X \X Y) /\ Cardinality(X \X Y) = W * H
    BY <2>1, FS_Product
  <2>3. QED
    BY <2>2 DEF X, Y
<1>4. QED
  BY <1>3 DEF Image, W, H

(***************************************************************************)
(* band_window.                                                              *)
(***************************************************************************)

\* The place of a pixel in the row-by-row order of a window, from 0.
FlatIndex(w, cr) == (cr[2] - w[3]) * (w[2] - w[1] + 1) + (cr[1] - w[1])

\* A rectangle of pixels, possibly empty, and its size.
Rect(a, b, c, d) == (a..b) \X (c..d)
Area(a, b, c, d) == (b - a + 1) * (d - c + 1)

LEMMA RectSize ==
  ASSUME NEW a \in Int, NEW b \in Int, NEW c \in Int, NEW d \in Int, a <= b + 1, c <= d + 1
  PROVE  IsFiniteSet(Rect(a, b, c, d)) /\ Cardinality(Rect(a, b, c, d)) = Area(a, b, c, d)
<1>1. ASSUME NEW x \in Int, NEW y \in Int, x <= y + 1
      PROVE  IsFiniteSet(x..y) /\ Cardinality(x..y) = y - x + 1
  <2>1. CASE x <= y
    BY <2>1, IntervalSize
  <2>2. CASE x = y + 1
    <3>1. x..y = {} /\ y - x + 1 = 0
      BY <2>2
    <3>2. QED
      BY <3>1, FS_EmptySet
  <2>3. QED
    BY <1>1, <2>1, <2>2
<1> DEFINE X == a..b
           Y == c..d
<1>2. /\ IsFiniteSet(X) /\ Cardinality(X) = b - a + 1
      /\ IsFiniteSet(Y) /\ Cardinality(Y) = d - c + 1
  BY <1>1
<1> HIDE DEF X, Y
<1>3. IsFiniteSet(X \X Y) /\ Cardinality(X \X Y) = Cardinality(X) * Cardinality(Y)
  BY <1>2, FS_Product
<1>4. QED
  BY <1>2, <1>3, Zenon DEF X, Y, Rect, Area

\* Its rank in that order, and the size of the window.
LEMMA WindowRank ==
  ASSUME NEW w \in IntBoxes, w[1] <= w[2], w[3] <= w[4]
  PROVE  /\ Covered(w) \subseteq Tiles /\ IsFiniteSet(Covered(w))
         /\ Cardinality(Covered(w)) = (w[2] - w[1] + 1) * (w[4] - w[3] + 1)
         /\ \A cr \in Covered(w) : Rank(YPairs, Covered(w), cr) = FlatIndex(w, cr)
<1> DEFINE width == w[2] - w[1] + 1
           S == Covered(w)
<1>1. w[1] \in Int /\ w[2] \in Int /\ w[3] \in Int /\ w[4] \in Int /\ width \in Nat
  BY DEF IntBoxes
<1>2. /\ S = (w[1]..w[2]) \X (w[3]..w[4]) /\ IsFiniteSet(S)
      /\ Cardinality(S) = width * (w[4] - w[3] + 1)
  <2>1. S = Rect(w[1], w[2], w[3], w[4])
    BY DEF Covered, Rect
  <2>2. w[1] <= w[2] + 1 /\ w[3] <= w[4] + 1
    BY <1>1
  <2>3. IsFiniteSet(S) /\ Cardinality(S) = Area(w[1], w[2], w[3], w[4])
    <3> HIDE DEF S
    <3>1. QED
      BY <1>1, <2>1, <2>2, RectSize
  <2>4. QED
    BY <2>3, Zenon DEF Covered, Area
<1> HIDE DEF S
<1>5. S \subseteq Tiles
  BY <1>1, <1>2 DEF Tiles
<1>6. ASSUME NEW cr \in S PROVE Rank(YPairs, S, cr) = FlatIndex(w, cr)
  <2> DEFINE c == cr[1]
             r == cr[2]
             A == (w[1]..w[2]) \X (w[3]..(r - 1))
             B == (w[1]..(c - 1)) \X (r..r)
             h == r - w[3]
             d == c - w[1]
  <2>1. c \in w[1]..w[2] /\ r \in w[3]..w[4] /\ c \in Int /\ r \in Int
    BY <1>1, <1>2
  <2> HIDE DEF c, r
  <2>2. /\ IsFiniteSet(A) /\ Cardinality(A) = width * h
        /\ IsFiniteSet(B) /\ Cardinality(B) = d
    <3>1. w[1] <= w[2] + 1 /\ w[3] <= (r - 1) + 1 /\ r - 1 \in Int /\ (r - 1) - w[3] + 1 = h
      BY <1>1, <2>1
    <3>2. w[1] <= (c - 1) + 1 /\ r <= r + 1 /\ c - 1 \in Int
      BY <1>1, <2>1
    <3>3. /\ IsFiniteSet(Rect(w[1], w[2], w[3], r - 1))
          /\ Cardinality(Rect(w[1], w[2], w[3], r - 1)) = Area(w[1], w[2], w[3], r - 1)
      BY <1>1, <2>1, <3>1, RectSize
    <3>4. /\ IsFiniteSet(Rect(w[1], c - 1, r, r))
          /\ Cardinality(Rect(w[1], c - 1, r, r)) = Area(w[1], c - 1, r, r)
      BY <1>1, <2>1, <3>2, RectSize
    <3>5. Area(w[1], w[2], w[3], r - 1) = width * h
      BY <3>1, Zenon DEF Area
    <3>6. Area(w[1], c - 1, r, r) = d
      <4>1. (c - 1) - w[1] + 1 = d /\ r - r + 1 = 1 /\ d \in Int
        BY <1>1, <2>1
      <4> HIDE DEF d
      <4>2. Area(w[1], c - 1, r, r) = d * 1
        BY <4>1, Zenon DEF Area
      <4>3. QED
        BY <4>1, <4>2
    <3>7. A = Rect(w[1], w[2], w[3], r - 1) /\ B = Rect(w[1], c - 1, r, r)
      BY Zenon DEF Rect
    <3>8. QED
      BY <3>3, <3>4, <3>5, <3>6, <3>7, Zenon
  <2>3. A \cap B = {}
    BY <1>1, <2>1
  <2>4. Below(YPairs, S, cr) = A \cup B
    <3>1. cr \in S /\ cr \in Tiles
      BY <1>5
    <3>2. \A q : q \in Below(YPairs, S, cr) <=> q \in S /\ YMajor(q, cr)
      BY <1>5, <3>1 DEF Below, YPairs
    <3>3. \A q \in S : YMajor(q, cr) <=> q[2] < r \/ (q[2] = r /\ q[1] < c)
      BY DEF YMajor, c, r
    <3>4. \A q : q \in A \cup B <=> q \in S /\ (q[2] < r \/ (q[2] = r /\ q[1] < c))
      <4> SUFFICES ASSUME NEW q
                   PROVE  q \in A \cup B <=> q \in S /\ (q[2] < r \/ (q[2] = r /\ q[1] < c))
        OBVIOUS
      <4>1. q \in S <=> q = <<q[1], q[2]>> /\ q[1] \in w[1]..w[2] /\ q[2] \in w[3]..w[4]
        BY <1>2
      <4>2. q \in A <=> q = <<q[1], q[2]>> /\ q[1] \in w[1]..w[2] /\ q[2] \in w[3]..(r - 1)
        OBVIOUS
      <4>3. q \in B <=> q = <<q[1], q[2]>> /\ q[1] \in w[1]..(c - 1) /\ q[2] \in r..r
        OBVIOUS
      <4> DEFINE x == q[1]
                 y == q[2]
                 pair == q = <<q[1], q[2]>>
      <4> HIDE DEF A, B, x, y, pair
      <4>4. q \in A <=> pair /\ x \in w[1]..w[2] /\ y \in w[3]..(r - 1)
        BY <4>2 DEF x, y, pair
      <4>5. q \in B <=> pair /\ x \in w[1]..(c - 1) /\ y \in r..r
        BY <4>3 DEF x, y, pair
      <4>6. q \in S <=> pair /\ x \in w[1]..w[2] /\ y \in w[3]..w[4]
        BY <4>1 DEF x, y, pair
      <4>7. q \in A \cup B <=> q \in S /\ (y < r \/ (y = r /\ x < c))
        BY <1>1, <2>1, <4>4, <4>5, <4>6
      <4>8. QED
        BY <4>7 DEF x, y
    <3> HIDE DEF A, B
    <3>5. \A q : q \in Below(YPairs, S, cr) <=> q \in A \cup B
      BY <3>2, <3>3, <3>4, Zenon
    <3>6. QED
      BY <3>5
  <2> HIDE DEF A, B
  <2>5. Cardinality(A \cup B) = width * h + d
    <3>1. Cardinality(A \cup B) = Cardinality(A) + Cardinality(B) - Cardinality(A \cap B)
      BY <2>2, FS_Union
    <3>2. Cardinality(A \cap B) = 0
      BY <2>3, FS_EmptySet
    <3>3. width * h \in Int /\ d \in Int
      BY <1>1, <2>1
    <3> DEFINE p == width * h
    <3> HIDE DEF p, d
    <3>4. Cardinality(A \cup B) = p + d
      BY <2>2, <3>1, <3>2, <3>3 DEF p
    <3>5. QED
      BY <3>4 DEF p
  <2>6. FlatIndex(w, cr) = h * width + d
    BY DEF FlatIndex, c, r
  <2>7. h * width = width * h
    BY <1>1, <2>1
  <2> HIDE DEF h, d, width
  <2>8. QED
    BY <2>4, <2>5, <2>6, <2>7, Zenon DEF Rank
<1>7. QED
  BY <1>2, <1>5, <1>6 DEF S

\* What FillWindow puts in a slot: the value of the pixel of that rank.
LEMMA SlotExact ==
  ASSUME ReadInv, Planned, req.op \in WindowOps,
         \A s \in CellsIn(Lv(0), WindowOf(Box), tiles) : CellSample(Arrays, req.band, s) # None,
         NEW cr \in PixelsOf(Box)
  PROVE  SlotValue(Arrays, Lv(0), WindowOf(Box), FlatIndex(WindowOf(Box), cr) + 1)
           = ApplyNodata(PixelOf(0, cr[1], cr[2], req.band))
<1> DEFINE lv == Lv(0)
           w == WindowOf(Box)
           T == TileRange(lv, w)
           k == FlatIndex(w, cr) + 1
           here == {s \in CellsIn(lv, w, tiles) : Slot(lv, w, s) = k}
<1>1. Metadata(meta) /\ req.band \in Nat /\ meta.num_bands \in Nat
  BY ReadingMeta, CallProps DEF ReadInv, Metadata
<1>2. Windowed(Box) /\ level = 0 /\ ListsTilesOf(tiles, 0, Wanted(0))
  BY WindowPlan DEF ReadInv, Planned, WindowOps
<1>3. Level(lv) /\ Window(w, lv) /\ Covered(w) = PixelsOf(Box) /\ ~BadBand(req.band)
  <2>1. 0 \in 0..(Len(meta.levels) - 1)
    BY <1>1, <1>2 DEF Metadata, Windowed
  <2>2. QED
    BY <1>1, <1>2, <2>1, LevelProps DEF Windowed
<1>4. Lists(tiles, T) /\ T \subseteq Tiles
  <2>1. Boxes = {Box}
    BY DEF Boxes, WindowOps
  <2>2. Wanted(0) = UNION {IF b = None THEN Raster(0) ELSE Centred(0, b) : b \in {Box}}
    BY <2>1 DEF Wanted, WindowOps
  <2>3. Wanted(0) = Covered(w)
    BY <1>3, <2>2 DEF PixelsOf
  <2> HIDE DEF lv, w
  <2>4. T = {TileOf(lv, p) : p \in Covered(w)} /\ T \subseteq Tiles
    BY <1>3, RangeCovered, Zenon
  <2>5. Lists(tiles, {TileOf(lv, p) : p \in Covered(w)})
    BY <1>2, <2>3 DEF ListsTilesOf, lv
  <2>6. QED
    BY <2>4, <2>5, Zenon
<1> HIDE DEF lv, w, T
<1>5. /\ \A s : s \in CellsIn(lv, w, tiles) <=> IsCell(lv, w, tiles, s)
      /\ \A s : IsCell(lv, w, tiles, s) => PixelAt(lv, s) \in Covered(w)
      /\ \A p \in Covered(w) : \E s : IsCell(lv, w, tiles, s) /\ PixelAt(lv, s) = p
  <2>1. TileRange(lv, w) \subseteq T
    BY DEF T
  <2>2. \A s : s \in CellsIn(lv, w, tiles) <=> IsCell(lv, w, tiles, s)
    BY <1>3, <1>4, WindowCellsProps
  <2>3. QED
    BY <1>3, <1>4, <2>1, <2>2, CellBijection
<1>6. \A s : IsCell(lv, w, tiles, s) => Slot(lv, w, s) = FlatIndex(w, PixelAt(lv, s)) + 1
  <2> SUFFICES ASSUME NEW s, IsCell(lv, w, tiles, s)
               PROVE  Slot(lv, w, s) = FlatIndex(w, PixelAt(lv, s)) + 1
    OBVIOUS
  <2> DEFINE a == s[2][1][1] * lv.tile_width
             b == s[2][1][2] * lv.tile_height
             dc == s[2][2]
             dr == s[2][3]
             p == PixelAt(lv, s)
             n == w[2] - w[1] + 1
  <2>1. p[1] = a + dc /\ p[2] = b + dr
    BY DEF PixelAt
  <2>2. Slot(lv, w, s) = (b + (dr - w[3])) * n + (a + (dc - w[1])) + 1
    BY Zenon DEF Slot
  <2>3. FlatIndex(w, p) = (p[2] - w[3]) * n + (p[1] - w[1])
    BY Zenon DEF FlatIndex
  <2>4. a \in Int /\ b \in Int
    <3>1. s[2][1] \in Tiles
      BY <1>4 DEF IsCell, Lists, ToSet
    <3>2. s[2][1][1] \in Int /\ s[2][1][2] \in Int
      BY <3>1 DEF Tiles
    <3>3. QED
      BY <1>3, <3>2 DEF Level
  <2>5. dc \in Int /\ dr \in Int
    <3>1. dc \in 0..(lv.tile_width - 1) /\ dr \in 0..(lv.tile_height - 1)
      BY DEF IsCell
    <3>2. QED
      BY <3>1
  <2>6. w[1] \in Int /\ w[3] \in Int
    BY <1>3 DEF Window, IntBoxes
  <2> HIDE DEF a, b, dc, dr, p
  <2>7. b + (dr - w[3]) = (b + dr) - w[3] /\ a + (dc - w[1]) = (a + dc) - w[1]
    BY <2>4, <2>5, <2>6
  <2> HIDE DEF n
  <2>8. Slot(lv, w, s) = FlatIndex(w, p) + 1
    BY <2>1, <2>2, <2>3, <2>7, Zenon
  <2>9. QED
    BY <2>8 DEF p
<1>7. w \in IntBoxes /\ w[1] <= w[2] /\ w[3] <= w[4]
  BY <1>3 DEF Window
<1>8. /\ Covered(w) \subseteq Tiles /\ IsFiniteSet(Covered(w))
      /\ \A p \in Covered(w) : Rank(YPairs, Covered(w), p) = FlatIndex(w, p)
  BY <1>7, WindowRank
<1>9. \A p, q \in Covered(w) : FlatIndex(w, p) = FlatIndex(w, q) => p = q
  <2>1. Orders(YPairs, Covered(w))
    BY <1>8, TileOrders
  <2>2. \A p, q \in Covered(w) : Rank(YPairs, Covered(w), p) = Rank(YPairs, Covered(w), q) => p = q
    BY <1>8, <2>1, RankProps
  <2>3. QED
    BY <1>8, <2>2
<1>10. here # {}
  <2>1. cr \in Covered(w)
    BY <1>3
  <2>2. PICK s : IsCell(lv, w, tiles, s) /\ PixelAt(lv, s) = cr
    BY <1>5, <2>1
  <2>3. Slot(lv, w, s) = k
    BY <1>6, <2>2
  <2> HIDE DEF k
  <2>4. QED
    BY <1>5, <2>2, <2>3
<1> DEFINE s0 == AnyOf(here)
<1>11. s0 \in here
  <2> HIDE DEF here
  <2>1. QED
    BY <1>10 DEF AnyOf
<1> HIDE DEF s0
<1>12. s0 \in CellsIn(lv, w, tiles) /\ Slot(lv, w, s0) = k
  BY <1>11
<1>13. PixelAt(lv, s0) = cr
  <2> DEFINE a == FlatIndex(w, PixelAt(lv, s0))
             b == FlatIndex(w, cr)
  <2>1. PixelAt(lv, s0) \in Covered(w) /\ cr \in Covered(w)
    BY <1>3, <1>5, <1>12
  <2>2. a + 1 = b + 1
    <3>1. IsCell(lv, w, tiles, s0)
      BY <1>5, <1>12
    <3>2. Slot(lv, w, s0) = a + 1
      BY <1>6, <3>1
    <3>3. QED
      BY <1>12, <3>2, Zenon DEF k
  <2>3. a \in Int /\ b \in Int
    <3>1. /\ IsFiniteSet(Covered(w)) /\ Orders(YPairs, Covered(w))
      BY <1>8, TileOrders
    <3>2. /\ Cardinality(Covered(w)) \in Nat
          /\ \A p \in Covered(w) : Rank(YPairs, Covered(w), p) \in 0..(Cardinality(Covered(w)) - 1)
      BY <3>1, RankProps
    <3>3. \A p \in Covered(w) : Rank(YPairs, Covered(w), p) \in Int
      BY <3>2
    <3>4. QED
      BY <1>8, <2>1, <3>3
  <2> HIDE DEF a, b
  <2>4. a = b
    BY <2>2, <2>3
  <2>5. QED
    BY <1>9, <2>1, <2>4 DEF a, b
<1>14. CellSample(Arrays, req.band, s0) = PixelOf(0, cr[1], cr[2], req.band)
  <2>1. IsCell(lv, w, tiles, s0) /\ CellSample(Arrays, req.band, s0) # None
    BY <1>5, <1>12 DEF lv, w
  <2>2. Level(Lv(level)) /\ Window(w, Lv(level)) /\ IsCell(Lv(level), w, tiles, s0)
    BY <1>2, <1>3, <2>1 DEF lv
  <2>3. CellSample(Arrays, req.band, s0)
          = PixelOf(level, PixelAt(Lv(level), s0)[1], PixelAt(Lv(level), s0)[2], req.band)
    BY <1>1, <1>3, <1>4, <2>1, <2>2, CellExact
  <2>4. PixelAt(Lv(level), s0) = cr
    BY <1>2, <1>13 DEF lv
  <2>5. QED
    BY <1>2, <2>3, <2>4
<1>15. SlotValue(Arrays, lv, w, k) = ApplyNodata(CellSample(Arrays, req.band, s0))
  <2> HIDE DEF k
  <2>1. SlotValue(Arrays, lv, w, k) =
          IF here = {} THEN None ELSE ApplyNodata(CellSample(Arrays, req.band, AnyOf(here)))
    BY Zenon DEF SlotValue
  <2>2. QED
    BY <1>10, <2>1, Zenon DEF s0
<1>16. QED
  BY <1>14, <1>15, Zenon DEF lv, w

\* The edges and the middle of a pixel, in the direction of the axis and against
\* it, as fractions.
EdgeUp(o, n, m) == <<o + m * n, 1>>
EdgeDown(o, n, m) == <<o - m * n, 1>>
MiddleUp(o, n, c) == <<2 * o + (2 * c + 1) * n, 2>>
MiddleDown(o, n, c) == <<2 * o - (2 * c + 1) * n, 2>>

LEMMA EdgeOfPixel ==
  ASSUME NEW o \in Int, NEW n \in Nat \ {0}, NEW m \in Int, NEW c \in Int
  PROVE  /\ Leq(EdgeUp(o, n, m), MiddleUp(o, n, c)) <=> m <= c
         /\ Leq(MiddleUp(o, n, c), EdgeUp(o, n, m)) <=> c < m
         /\ Leq(EdgeDown(o, n, m), MiddleDown(o, n, c)) <=> c < m
         /\ Leq(MiddleDown(o, n, c), EdgeDown(o, n, m)) <=> m <= c
<1> DEFINE p == m * n
           a == (2 * m) * n
           d == (2 * c + 1) * n
<1>1. a \in Int /\ d \in Int /\ p * 2 = a /\ p \in Int
  OBVIOUS
<1>2. m <= c => a < d
  <2> DEFINE i == 2 * m + 1
             j == 2 * c + 1
             k == i * n
  <2>1. i \in Int /\ j \in Int /\ (m <= c => i <= j) /\ k = a + n /\ k \in Int
    OBVIOUS
  <2> HIDE DEF i, j, a
  <2>2. i <= j => k <= j * n
    BY <2>1, TimesMonotone
  <2>3. m <= c => k <= d
    BY <2>1, <2>2 DEF j
  <2> HIDE DEF k, d
  <2>4. QED
    BY <1>1, <2>1, <2>3
<1>3. c < m => d < a
  <2> DEFINE i == 2 * m
             j == 2 * c + 2
             k == j * n
  <2>1. i \in Int /\ j \in Int /\ (c < m => j <= i) /\ k = d + n /\ k \in Int
    OBVIOUS
  <2> HIDE DEF i, j, d
  <2>2. j <= i => k <= i * n
    BY <2>1, TimesMonotone
  <2>3. c < m => k <= a
    BY <2>1, <2>2 DEF i
  <2> HIDE DEF k, a
  <2>4. QED
    BY <1>1, <2>1, <2>3
<1> HIDE DEF a, d, p
<1>4. (a <= d <=> m <= c) /\ (d <= a <=> c < m)
  BY <1>1, <1>2, <1>3
<1>5. /\ (o + p) * 2 <= (2 * o + d) * 1 <=> a <= d
      /\ (2 * o + d) * 1 <= (o + p) * 2 <=> d <= a
      /\ (o - p) * 2 <= (2 * o - d) * 1 <=> d <= a
      /\ (2 * o - d) * 1 <= (o - p) * 2 <=> a <= d
  BY <1>1
<1>6. /\ Leq(EdgeUp(o, n, m), MiddleUp(o, n, c)) <=> (o + p) * 2 <= (2 * o + d) * 1
      /\ Leq(MiddleUp(o, n, c), EdgeUp(o, n, m)) <=> (2 * o + d) * 1 <= (o + p) * 2
      /\ Leq(EdgeDown(o, n, m), MiddleDown(o, n, c)) <=> (o - p) * 2 <= (2 * o - d) * 1
      /\ Leq(MiddleDown(o, n, c), EdgeDown(o, n, m)) <=> (2 * o - d) * 1 <= (o - p) * 2
  <2>1. EdgeUp(o, n, m) = <<o + p, 1>> /\ EdgeDown(o, n, m) = <<o - p, 1>>
    BY DEF EdgeUp, EdgeDown, p
  <2>2. MiddleUp(o, n, c) = <<2 * o + d, 2>> /\ MiddleDown(o, n, c) = <<2 * o - d, 2>>
    BY DEF MiddleUp, MiddleDown, d
  <2> DEFINE eu == EdgeUp(o, n, m)
             ed == EdgeDown(o, n, m)
             mu == MiddleUp(o, n, c)
             md == MiddleDown(o, n, c)
  <2> HIDE DEF eu, ed, mu, md
  <2>3. /\ eu[1] = o + p /\ eu[2] = 1 /\ ed[1] = o - p /\ ed[2] = 1
        /\ mu[1] = 2 * o + d /\ mu[2] = 2 /\ md[1] = 2 * o - d /\ md[2] = 2
    BY <2>1, <2>2 DEF eu, ed, mu, md
  <2>4. /\ Leq(eu, mu) <=> (o + p) * 2 <= (2 * o + d) * 1
        /\ Leq(mu, eu) <=> (2 * o + d) * 1 <= (o + p) * 2
        /\ Leq(ed, md) <=> (o - p) * 2 <= (2 * o - d) * 1
        /\ Leq(md, ed) <=> (2 * o - d) * 1 <= (o - p) * 2
    BY <2>3, Zenon DEF Leq
  <2>5. QED
    BY <2>4 DEF eu, ed, mu, md
<1>7. QED
  BY <1>4, <1>5, <1>6

\* The extent window_result reports encloses exactly the centres of the window's
\* pixels.
InExtent(e, p) ==
  /\ Leq(e[1], p[1]) /\ Leq(p[1], e[3])
  /\ Leq(e[2], p[2]) /\ Leq(p[2], e[4])
ExtentOf(g, w) ==
  <<RasterToWorld(g, w[1] + 1, w[4] + 2)[1], RasterToWorld(g, w[1] + 1, w[4] + 2)[2],
    RasterToWorld(g, w[2] + 2, w[3] + 1)[1], RasterToWorld(g, w[2] + 2, w[3] + 1)[2]>>

LEMMA ExtentExact ==
  ASSUME NEW g, NorthUp(g), NEW w \in IntBoxes, NEW c \in Int, NEW r \in Int
  PROVE  InExtent(ExtentOf(g, w), Center(g, c, r)) <=> <<c, r>> \in Covered(w)
<1>1. PICK nx \in Nat \ {0}, ny \in Nat \ {0} : g.pixel_x = <<nx, 1>> /\ g.pixel_y = <<ny, 1>>
  BY DEF NorthUp
<1> DEFINE ox == g.origin_x
           oy == g.origin_y
           e == ExtentOf(g, w)
           p == Center(g, c, r)
<1>2. ox \in Int /\ oy \in Int
  BY DEF NorthUp
<1>3. w[1] \in Int /\ w[2] \in Int /\ w[3] \in Int /\ w[4] \in Int
  BY DEF IntBoxes
<1>4. p[1] = MiddleUp(ox, nx, c) /\ p[2] = MiddleDown(oy, ny, r)
  <2>1. 2 * ox * 1 = 2 * ox /\ 2 * oy * 1 = 2 * oy /\ 2 * 1 = 2
    BY <1>2
  <2> HIDE DEF ox, oy
  <2>2. p = <<<<2 * ox * 1 + (2 * c + 1) * nx, 2 * 1>>, <<2 * oy * 1 - (2 * r + 1) * ny, 2 * 1>>>>
    BY <1>1 DEF Center, ox, oy
  <2> HIDE DEF p
  <2>3. QED
    BY <2>1, <2>2 DEF MiddleUp, MiddleDown
<1>5. /\ e[1] = EdgeUp(ox, nx, w[1]) /\ e[2] = EdgeDown(oy, ny, w[4] + 1)
      /\ e[3] = EdgeUp(ox, nx, w[2] + 1) /\ e[4] = EdgeDown(oy, ny, w[3])
  <2>1. /\ ox * 1 = ox /\ oy * 1 = oy
        /\ (w[1] + 1) - 1 = w[1] /\ (w[4] + 2) - 1 = w[4] + 1
        /\ (w[2] + 2) - 1 = w[2] + 1 /\ (w[3] + 1) - 1 = w[3]
    BY <1>2, <1>3
  <2> HIDE DEF ox, oy
  <2>2. \A i, j : RasterToWorld(g, i, j) = <<<<ox * 1 + (i - 1) * nx, 1>>, <<oy * 1 - (j - 1) * ny, 1>>>>
    BY <1>1 DEF RasterToWorld, ox, oy
  <2>3. \A i, j : /\ RasterToWorld(g, i, j)[1] = EdgeUp(ox, nx, i - 1)
                  /\ RasterToWorld(g, i, j)[2] = EdgeDown(oy, ny, j - 1)
    BY <2>1, <2>2 DEF EdgeUp, EdgeDown
  <2>4. /\ e[1] = RasterToWorld(g, w[1] + 1, w[4] + 2)[1]
        /\ e[2] = RasterToWorld(g, w[1] + 1, w[4] + 2)[2]
        /\ e[3] = RasterToWorld(g, w[2] + 2, w[3] + 1)[1]
        /\ e[4] = RasterToWorld(g, w[2] + 2, w[3] + 1)[2]
    BY DEF ExtentOf
  <2> HIDE DEF e
  <2>5. QED
    BY <2>1, <2>3, <2>4
<1> HIDE DEF ox, oy, e, p
<1>6. /\ Leq(e[1], p[1]) <=> w[1] <= c
      /\ Leq(p[1], e[3]) <=> c < w[2] + 1
  <2>1. \A m \in Int : /\ Leq(EdgeUp(ox, nx, m), MiddleUp(ox, nx, c)) <=> m <= c
                       /\ Leq(MiddleUp(ox, nx, c), EdgeUp(ox, nx, m)) <=> c < m
    BY <1>2, EdgeOfPixel, Zenon
  <2>2. w[2] + 1 \in Int
    BY <1>3
  <2>3. QED
    BY <1>3, <1>4, <1>5, <2>1, <2>2, Zenon
<1>7. /\ Leq(p[2], e[4]) <=> w[3] <= r
      /\ Leq(e[2], p[2]) <=> r < w[4] + 1
  <2>1. \A m \in Int : /\ Leq(EdgeDown(oy, ny, m), MiddleDown(oy, ny, r)) <=> r < m
                       /\ Leq(MiddleDown(oy, ny, r), EdgeDown(oy, ny, m)) <=> m <= r
    BY <1>2, EdgeOfPixel, Zenon
  <2>2. w[4] + 1 \in Int
    BY <1>3
  <2>3. QED
    BY <1>3, <1>4, <1>5, <2>1, <2>2, Zenon
<1>8. <<c, r>> \in Covered(w) <=> /\ w[1] <= c /\ c < w[2] + 1
                                  /\ r < w[4] + 1 /\ w[3] <= r
  BY <1>3 DEF Covered
<1>9. QED
  BY <1>6, <1>7, <1>8 DEF InExtent, e, p

\* What a window should hold: its pixels row by row, with a rectangle of their
\* number and extent.
Shown(P) ==
  LET order == Sorted(P, YMajor) IN
    [k \in DOMAIN order |->
       IF order[k] \in P
       THEN ApplyNodata(PixelOf(0, order[k][1], order[k][2], req.band)) ELSE None]

Reported(a, P) ==
  /\ a.win = Shown(P)
  /\ Box # None => a.rect.width * a.rect.height = Cardinality(P)
  /\ a.rect.bbox # None =>
       \A cr \in Raster(0) :
         cr \in P <=> InExtent(a.rect.bbox, Center(meta.georef, cr[1], cr[2]))

\* A window of no pixel is empty, and reported without extent.
LEMMA NoPixels ==
  ASSUME NEW a, a = NoWindow(Box)
  PROVE  Reported(a, {})
<1>1. a.win = <<>> /\ a.rect = [width |-> 0, height |-> 0, bbox |-> None]
  BY DEF NoWindow, WindowRect
<1>2. Cardinality({}) = 0
  BY FS_EmptySet
<1>3. Shown({}) = <<>>
  <2>1. DOMAIN Sorted({}, YMajor) = 1..0
    BY <1>2, Zenon DEF Sorted
  <2>2. DOMAIN Sorted({}, YMajor) = {}
    BY <2>1
  <2>3. Shown({}) = [k \in {} |-> None]
    BY <2>2 DEF Shown
  <2>4. QED
    BY <2>3
<1>4. QED
  BY <1>1, <1>2, <1>3 DEF Reported

\* band_window without a fetch answers for no pixel.
LEMMA OverEarly ==
  ASSUME Metadata(meta), NEW b \in Corners \cup {None}, NEW a, a = BandWindowOver(b),
         "tiles" \notin DOMAIN a, "ok" \in DOMAIN a, a.ok # None
  PROVE  a.ok = NoWindow(b) /\ PixelsOf(b) = {}
<1>1. ~(meta.levels = <<>> \/ BadBand(req.band))
  BY DEF BandWindowOver
<1>2. Level(Lv(0)) /\ Raster(0) = Image(Lv(0))
  <2>1. 0 \in 0..(Len(meta.levels) - 1)
    BY <1>1 DEF Metadata
  <2>2. QED
    BY <2>1, LevelProps DEF Raster, Image
<1>3. CASE 0 \in {Lv(0).image_width, Lv(0).image_height}
  <2>1. a = [ok |-> NoWindow(b)]
    BY <1>1, <1>3, Zenon DEF BandWindowOver
  <2>2. Raster(0) = {}
    BY <1>2, <1>3 DEF Image, Level
  <2>3. PixelsOf(b) \subseteq Raster(0)
    BY DEF PixelsOf, Centred
  <2>4. QED
    BY <2>1, <2>2, <2>3
<1>4. CASE 0 \notin {Lv(0).image_width, Lv(0).image_height}
  <2> DEFINE w == CenterWindow(meta.georef, Lv(0), b)
  <2> HIDE DEF w
  <2>1. /\ b # None /\ ValidBox(b) /\ meta.georef # None /\ w = None
        /\ a = [ok |-> NoWindow(b)]
    BY <1>1, <1>4 DEF BandWindowOver, w
  <2>2. b \in IntBoxes
    BY <2>1, ValidCorners
  <2>3. Centred(0, b) = {}
    BY <2>1, <2>2, BaseWindow DEF w
  <2>4. QED
    BY <2>1, <2>3 DEF PixelsOf
<1>5. QED
  BY <1>3, <1>4

\* Then the window is empty.
LEMMA WindowEarly ==
  ASSUME ReadInv, AnsweredEarly, req.op = "band_window", "ok" \in DOMAIN answer, answer.ok # None
  PROVE  Reported(answer.ok, PixelsOf(Box))
<1>1. Metadata(meta) /\ Box = req.bbox /\ Box \in Corners \cup {None}
  BY ReadingMeta, CallProps DEF ReadInv, Box
<1>2. answer = BandWindowOver(Box) /\ "tiles" \notin DOMAIN answer
  BY <1>1 DEF AnsweredEarly, Plan
<1>3. answer.ok = NoWindow(Box) /\ PixelsOf(Box) = {}
  BY <1>1, <1>2, OverEarly
<1>4. QED
  BY <1>3, NoPixels

\* band_window after its fetch has filled every place of the window with the
\* value of its pixel.
LEMMA WindowWin ==
  ASSUME ReadInv, Planned, req.op \in WindowOps, NEW win, WindowFilled(Box, Arrays) = [ok |-> win]
  PROVE  win = Shown(PixelsOf(Box)) /\ win # <<>>
<1> DEFINE P == PixelsOf(Box)
           w == WindowOf(Box)
           n == (w[2] - w[1] + 1) * (w[4] - w[3] + 1)
           order == Sorted(P, YMajor)
<1>1. Windowed(Box)
  BY WindowPlan DEF ReadInv, Planned, WindowOps
<1>2. w \in IntBoxes /\ w[1] <= w[2] /\ w[3] <= w[4] /\ Covered(w) = P
  BY <1>1 DEF Windowed, Window
<1>3. /\ \A s \in CellsIn(Lv(0), w, tiles) : CellSample(Arrays, req.band, s) # None
      /\ win = [k \in 1..n |-> SlotValue(Arrays, Lv(0), w, k)]
  <2> DEFINE bad == \E s \in CellsIn(Lv(0), w, tiles) : CellSample(Arrays, req.band, s) = None
             all == [k \in 1..n |-> SlotValue(Arrays, Lv(0), w, k)]
  <2>1. [ok |-> win] = IF bad THEN [err |-> "Tiff"] ELSE [ok |-> all]
    BY Zenon DEF WindowFilled
  <2> HIDE DEF all
  <2>2. ~bad /\ win = all
    <3> HIDE DEF bad
    <3>1. QED
      BY <2>1
  <2>3. QED
    BY <2>2 DEF all
<1> HIDE DEF P, w
<1>4. /\ P \subseteq Tiles /\ IsFiniteSet(P) /\ Cardinality(P) = n
      /\ \A cr \in P : Rank(YPairs, P, cr) = FlatIndex(w, cr)
  BY <1>2, WindowRank
<1>5. ByRank(order, YPairs, P)
  BY <1>4, SortedY
<1> HIDE DEF n, order
<1>6. DOMAIN order = 1..n /\ \A k \in 1..n : order[k] \in P /\ Rank(YPairs, P, order[k]) = k - 1
  BY <1>4, <1>5 DEF ByRank
<1>7. ASSUME NEW k \in 1..n
      PROVE  SlotValue(Arrays, Lv(0), w, k)
               = ApplyNodata(PixelOf(0, order[k][1], order[k][2], req.band))
  <2>1. order[k] \in P /\ FlatIndex(w, order[k]) = k - 1
    BY <1>4, <1>6
  <2>2. (k - 1) + 1 = k
    OBVIOUS
  <2>3. SlotValue(Arrays, Lv(0), w, FlatIndex(w, order[k]) + 1)
          = ApplyNodata(PixelOf(0, order[k][1], order[k][2], req.band))
    BY <1>3, <2>1, SlotExact DEF w, P
  <2>4. QED
    BY <2>1, <2>2, <2>3
<1>8. Shown(P) = [k \in 1..n |-> ApplyNodata(PixelOf(0, order[k][1], order[k][2], req.band))]
  BY <1>6, Zenon DEF Shown, order
<1>9. win # <<>>
  <2>1. n >= 1
    <3> DEFINE i == w[2] - w[1]
               j == w[4] - w[3]
    <3>1. i \in Nat /\ j \in Nat
      BY <1>2 DEF IntBoxes
    <3> HIDE DEF i, j
    <3>2. (i + 1) * (j + 1) >= 1
      BY <3>1
    <3>3. QED
      BY <3>2 DEF n, i, j
  <2>2. n \in Int
    BY <1>2 DEF n, IntBoxes
  <2>3. 1 \in DOMAIN win
    BY <1>3, <2>1, <2>2
  <2>4. QED
    BY <2>3
<1>10. QED
  BY <1>3, <1>7, <1>8, <1>9 DEF P

\* The rectangle reported with a filled window has the size of the box in pixels
\* and the extent of these.
LEMMA RectExact ==
  ASSUME ReadInv, Planned, req.op \in WindowOps, Box # None, NEW win, win # <<>>
  PROVE  LET rect == WindowRect(Box, win) IN
           /\ rect.width * rect.height = Cardinality(PixelsOf(Box))
           /\ \A cr \in Raster(0) :
                cr \in PixelsOf(Box) <=> InExtent(rect.bbox, Center(meta.georef, cr[1], cr[2]))
<1> DEFINE g == meta.georef
           rect == WindowRect(Box, win)
           w == WindowOf(Box)
<1>1. Metadata(meta) /\ Windowed(Box)
  BY ReadingMeta, WindowPlan DEF ReadInv, Planned, WindowOps
<1>2. /\ w \in IntBoxes /\ w[1] <= w[2] /\ w[3] <= w[4] /\ Covered(w) = PixelsOf(Box)
      /\ g # None /\ w # None /\ NorthUp(g)
  BY <1>1 DEF Windowed, Window, Metadata
<1>3. EnvelopeWindow(Box) = w
  <2>1. meta.levels # <<>>
    BY <1>1 DEF Windowed, Metadata
  <2>2. QED
    BY <1>2, <2>1 DEF EnvelopeWindow, WindowOf
<1> HIDE DEF w, g
<1>4. rect = [width |-> w[2] - w[1] + 1, height |-> w[4] - w[3] + 1, bbox |-> ExtentOf(g, w)]
  <2> DEFINE W(v) == IF v = None \/ win = <<>>
                     THEN [width |-> 0, height |-> 0, bbox |-> None]
                     ELSE [width |-> v[2] - v[1] + 1, height |-> v[4] - v[3] + 1,
                           bbox |-> ExtentOf(g, v)]
  <2>1. rect = W(IF Box = None THEN None ELSE EnvelopeWindow(Box))
    BY Zenon DEF WindowRect, ExtentOf, g
  <2>2. (IF Box = None THEN None ELSE EnvelopeWindow(Box)) = w
    BY <1>3
  <2> HIDE DEF rect
  <2>3. rect = W(w)
    BY <2>1, <2>2
  <2>4. QED
    BY <1>2, <2>3, Zenon
<1> HIDE DEF rect
<1>5. rect.width * rect.height = Cardinality(PixelsOf(Box))
  <2>1. Cardinality(PixelsOf(Box)) = (w[2] - w[1] + 1) * (w[4] - w[3] + 1)
    BY <1>2, WindowRank
  <2>2. rect.width = w[2] - w[1] + 1 /\ rect.height = w[4] - w[3] + 1
    BY <1>4
  <2>3. QED
    BY <2>1, <2>2, Zenon
<1>6. ASSUME NEW cr \in Raster(0)
      PROVE  cr \in PixelsOf(Box) <=> InExtent(rect.bbox, Center(g, cr[1], cr[2]))
  <2>1. cr[1] \in Int /\ cr[2] \in Int /\ cr = <<cr[1], cr[2]>>
    BY DEF Raster
  <2>2. rect.bbox = ExtentOf(g, w)
    BY <1>4
  <2>3. InExtent(ExtentOf(g, w), Center(g, cr[1], cr[2])) <=> <<cr[1], cr[2]>> \in Covered(w)
    BY <1>2, <2>1, ExtentExact
  <2>4. QED
    BY <1>2, <2>1, <2>2, <2>3
<1>7. QED
  BY <1>5, <1>6, Zenon DEF rect, g

\* band_window after its fetch answers for the pixels of the box, with the size
\* and the extent of their window.
LEMMA WindowLate ==
  ASSUME ReadInv, AnsweredLate, req.op = "band_window", "ok" \in DOMAIN answer
  PROVE  Reported(answer.ok, PixelsOf(Box))
<1> DEFINE filled == FillWindow(Box, Arrays)
           rect == WindowRect(Box, filled.ok)
<1>1. Planned /\ answer = Finish(Arrays) /\ req.op \in WindowOps
  BY DEF AnsweredLate, WindowOps
<1>2. Box = req.bbox
  BY DEF Box
<1>3. filled = WindowFilled(Box, Arrays)
  BY Zenon DEF FillWindow, WindowFilled, WindowOf, CellsIn, CellSample, SlotValue, Slot, AnyOf
<1>4. answer = WindowAnswer(Box, filled, None)
  BY <1>1, <1>2, Zenon DEF Finish
<1> HIDE DEF filled
<1>5. "err" \notin DOMAIN filled /\ answer.ok.win = filled.ok /\ answer.ok.rect = rect
  <2>1. "err" \notin DOMAIN filled
    BY <1>3, <1>4 DEF WindowAnswer, WindowFilled
  <2>2. answer = [ok |-> [win |-> IF None = None THEN filled.ok
                                  ELSE Mask(None, EnvelopeWindow(Box), filled.ok),
                          rect |-> rect]]
    BY <1>4, <2>1, Zenon DEF WindowAnswer
  <2> HIDE DEF rect
  <2>3. QED
    BY <2>1, <2>2
<1>6. WindowFilled(Box, Arrays) = [ok |-> filled.ok]
  BY <1>3, <1>5 DEF WindowFilled
<1>7. filled.ok = Shown(PixelsOf(Box)) /\ filled.ok # <<>>
  BY <1>1, <1>6, WindowWin
<1>8. CASE Box = None
  <2>1. answer.ok.rect = [width |-> 0, height |-> 0, bbox |-> None]
    BY <1>5, <1>8 DEF WindowRect
  <2>2. QED
    BY <1>5, <1>7, <1>8, <2>1 DEF Reported
<1>9. CASE Box # None
  <2>1. /\ rect.width * rect.height = Cardinality(PixelsOf(Box))
        /\ \A cr \in Raster(0) :
             cr \in PixelsOf(Box) <=> InExtent(rect.bbox, Center(meta.georef, cr[1], cr[2]))
    BY <1>1, <1>7, <1>9, RectExact, Zenon
  <2> HIDE DEF rect
  <2>2. QED
    BY <1>5, <1>7, <2>1 DEF Reported
<1>10. QED
  BY <1>8, <1>9

(***************************************************************************)
(* Sums over finite sets, as MapThenSumSet computes them: an element at a    *)
(* time, in an order that CHOOSE decides.                                    *)
(***************************************************************************)
SumOver(f, S, v) ==
  f = [s \in SUBSET S |-> IF s = {} THEN 0 ELSE v[AnyOf(s)] + f[s \ {AnyOf(s)}]]

\* A smallest set among some subsets of a finite set.
LEMMA SmallestSubset ==
  ASSUME NEW S, IsFiniteSet(S), NEW B, B \subseteq SUBSET S, B # {}
  PROVE  \E s \in B : \A t \in B : Cardinality(s) <= Cardinality(t)
<1> DEFINE N == {n \in Nat : \E s \in B : Cardinality(s) = n}
<1>1. \A s \in B : Cardinality(s) \in Nat
  BY FS_Subset, FS_CardinalityType
<1>2. N \subseteq Nat /\ N # {}
  BY <1>1
<1> HIDE DEF N
<1>3. PICK m \in N : \A n \in N : m <= n
  BY <1>2, LeastExists
<1>4. QED
  BY <1>1, <1>3 DEF N

\* Removing an element from a subset leaves a smaller one.
LEMMA RemoveOne ==
  ASSUME NEW S, IsFiniteSet(S), NEW s \in SUBSET S, NEW x \in s
  PROVE  /\ s \ {x} \in SUBSET S
         /\ Cardinality(s) \in Nat /\ Cardinality(s \ {x}) \in Nat
         /\ Cardinality(s \ {x}) = Cardinality(s) - 1
<1>1. IsFiniteSet(s)
  BY FS_Subset
<1>2. IsFiniteSet(s \ {x}) /\ Cardinality(s \ {x}) = Cardinality(s) - 1
  BY <1>1, FS_RemoveElement
<1>3. QED
  BY <1>1, <1>2, FS_CardinalityType

\* The sum over a finite set is defined: by the size of its subsets.
LEMMA SumExists ==
  ASSUME NEW S, IsFiniteSet(S), NEW v
  PROVE  \E f : SumOver(f, S, v)
<1> DEFINE Small(n) == {s \in SUBSET S : Cardinality(s) <= n}
           Step(f, s) == IF s = {} THEN 0 ELSE v[AnyOf(s)] + f[s \ {AnyOf(s)}]
           Defined(n) == \E f : f = [s \in Small(n) |-> Step(f, s)]
           bad == {n \in Nat : ~Defined(n)}
<1>1. Defined(0)
  <2> DEFINE f == [s \in Small(0) |-> 0]
  <2>1. \A s \in Small(0) : s = {}
    <3>1. \A s \in SUBSET S : IsFiniteSet(s) /\ Cardinality(s) \in Nat
      BY FS_Subset, FS_CardinalityType
    <3>2. \A s \in SUBSET S : Cardinality(s) <= 0 => s = {}
      BY <3>1, FS_EmptySet
    <3>3. QED
      BY <3>2
  <2>2. \A s \in Small(0) : Step(f, s) = 0
    BY <2>1
  <2> HIDE DEF Step
  <2>3. f = [s \in Small(0) |-> Step(f, s)]
    BY <2>2
  <2> HIDE DEF f, Small
  <2>4. QED
    BY <2>3
<1>2. ASSUME NEW m \in Nat, m # 0, Defined(m - 1) PROVE Defined(m)
  <2> HIDE DEF Small, Step
  <2>1. PICK f : f = [s \in Small(m - 1) |-> Step(f, s)]
    BY <1>2
  <2> DEFINE g == [s \in Small(m) |-> Step(f, s)]
  <2>2. Small(m - 1) \subseteq Small(m)
    <3>1. \A s \in SUBSET S : Cardinality(s) \in Nat
      BY FS_Subset, FS_CardinalityType
    <3>2. QED
      BY <3>1 DEF Small
  <2>3. \A t \in Small(m - 1) : g[t] = f[t]
    <3>1. \A t \in Small(m - 1) : f[t] = Step(f, t)
      BY <2>1
    <3>2. QED
      BY <2>2, <3>1
  <2>4. ASSUME NEW s \in Small(m) PROVE Step(f, s) = Step(g, s)
    <3>1. CASE s = {}
      BY <3>1 DEF Step
    <3>2. CASE s # {}
      <4> DEFINE a == AnyOf(s)
                 t == s \ {a}
      <4>1. a \in s /\ s \in SUBSET S /\ Cardinality(s) <= m
        BY <3>2 DEF AnyOf, Small
      <4>2. t \in SUBSET S /\ Cardinality(t) <= m - 1
        BY <4>1, RemoveOne
      <4>3. t \in Small(m - 1)
        BY <4>2 DEF Small
      <4>4. g[t] = f[t]
        BY <2>3, <4>3
      <4> HIDE DEF g
      <4>5. Step(f, s) = v[a] + f[t] /\ Step(g, s) = v[a] + g[t]
        BY <3>2, Zenon DEF Step
      <4>6. QED
        BY <4>4, <4>5
    <3>3. QED
      BY <3>1, <3>2
  <2>5. g = [s \in Small(m) |-> Step(g, s)]
    <3>1. g = [s \in Small(m) |-> Step(f, s)]
      OBVIOUS
    <3> HIDE DEF g
    <3>2. QED
      BY <2>4, <3>1
  <2> HIDE DEF g
  <2>6. QED
    BY <2>5
<1> HIDE DEF Defined
<1>3. bad = {}
  <2> SUFFICES ASSUME bad # {} PROVE FALSE
    OBVIOUS
  <2>1. PICK m \in bad : \A n \in bad : m <= n
    BY LeastExists
  <2>2. m \in Nat /\ ~Defined(m) /\ m # 0
    BY <1>1, <2>1
  <2>3. m - 1 \in Nat /\ ~(m - 1 \in bad)
    BY <2>1, <2>2
  <2>4. QED
    BY <1>2, <2>2, <2>3
<1> DEFINE n == Cardinality(S)
<1>4. n \in Nat /\ Small(n) = SUBSET S
  BY FS_CardinalityType, FS_Subset
<1>5. Defined(n)
  <2> HIDE DEF n
  <2>1. QED
    BY <1>3, <1>4
<1> HIDE DEF n, Small
<1>6. PICK f : f = [s \in SUBSET S |-> Step(f, s)]
  BY <1>4, <1>5 DEF Defined
<1>7. SumOver(f, S, v)
  BY <1>6, Zenon DEF SumOver
<1>8. QED
  BY <1>7

\* Such a sum is a number, and does not depend on the order: any element may be
\* taken out first.
Summed(f, v, s) == f[s] \in Int /\ \A y \in s : f[s] = v[y] + f[s \ {y}]

LEMMA SumStep ==
  ASSUME NEW S, NEW v, NEW f, SumOver(f, S, v), NEW s \in SUBSET S
  PROVE  /\ s = {} => f[s] = 0
         /\ s # {} => AnyOf(s) \in s /\ f[s] = v[AnyOf(s)] + f[s \ {AnyOf(s)}]
<1>1. f[s] = IF s = {} THEN 0 ELSE v[AnyOf(s)] + f[s \ {AnyOf(s)}]
  <2> DEFINE F(t) == IF t = {} THEN 0 ELSE v[AnyOf(t)] + f[t \ {AnyOf(t)}]
  <2>1. f = [t \in SUBSET S |-> F(t)]
    BY Zenon DEF SumOver
  <2> HIDE DEF F
  <2>2. f[s] = F(s)
    BY <2>1
  <2>3. QED
    BY <2>2, Zenon DEF F
<1>2. s # {} => AnyOf(s) \in s
  BY DEF AnyOf
<1>3. QED
  BY <1>1, <1>2

LEMMA SumValues ==
  ASSUME NEW S, IsFiniteSet(S), NEW v, \A s \in S : v[s] \in Int, NEW f, SumOver(f, S, v)
  PROVE  \A s \in SUBSET S : Summed(f, v, s)
<1> DEFINE bad == {s \in SUBSET S : ~Summed(f, v, s)}
<1> SUFFICES ASSUME bad # {} PROVE FALSE
  OBVIOUS
<1>1. PICK s \in bad : \A t \in bad : Cardinality(s) <= Cardinality(t)
  BY SmallestSubset
<1>2. s \in SUBSET S /\ ~Summed(f, v, s)
  BY <1>1
<1>3. \A t \in SUBSET S :
        Cardinality(t) \in Nat /\ Cardinality(t) < Cardinality(s) => Summed(f, v, t)
  <2>1. Cardinality(s) \in Nat
    BY <1>2, FS_Subset, FS_CardinalityType
  <2>2. QED
    BY <1>1, <2>1
<1> HIDE DEF bad
<1>4. \A y \in s : Summed(f, v, s \ {y}) /\ s \ {y} \in SUBSET S
  <2> SUFFICES ASSUME NEW y \in s PROVE Summed(f, v, s \ {y}) /\ s \ {y} \in SUBSET S
    OBVIOUS
  <2>1. /\ s \ {y} \in SUBSET S
        /\ Cardinality(s) \in Nat /\ Cardinality(s \ {y}) \in Nat
        /\ Cardinality(s \ {y}) = Cardinality(s) - 1
    BY <1>2, RemoveOne
  <2>2. QED
    BY <1>3, <2>1
<1>5. CASE s = {}
  <2>1. f[s] = 0
    BY <1>2, <1>5, SumStep, Zenon
  <2>2. QED
    BY <1>2, <1>5, <2>1 DEF Summed
<1>6. CASE s # {}
  <2> DEFINE x == AnyOf(s)
  <2>1. x \in s /\ f[s] = v[x] + f[s \ {x}]
    BY <1>2, <1>6, SumStep
  <2> HIDE DEF x
  <2>2. \A y \in s : v[y] \in Int /\ f[s \ {y}] \in Int
    BY <1>2, <1>4 DEF Summed
  <2>3. f[s] \in Int
    BY <2>1, <2>2
  <2>4. ASSUME NEW y \in s PROVE f[s] = v[y] + f[s \ {y}]
    <3>1. CASE y = x
      BY <2>1, <3>1
    <3>2. CASE y # x
      <4>1. y \in s \ {x} /\ x \in s \ {y}
        BY <2>1, <3>2
      <4> DEFINE rest == (s \ {x}) \ {y}
      <4>2. (s \ {y}) \ {x} = rest
        OBVIOUS
      <4>3. f[s \ {x}] = v[y] + f[rest]
        BY <1>4, <2>1, <4>1 DEF Summed
      <4>4. f[s \ {y}] = v[x] + f[rest]
        BY <1>4, <4>1, <4>2 DEF Summed
      <4>5. f[rest] \in Int
        <5>1. rest \in SUBSET S
          BY <1>2
        <5>2. /\ Cardinality(s) \in Nat /\ Cardinality(s \ {x}) \in Nat
              /\ Cardinality(s \ {x}) = Cardinality(s) - 1
              /\ s \ {x} \in SUBSET S
          BY <1>2, <2>1, RemoveOne
        <5>3. /\ Cardinality(rest) \in Nat
              /\ Cardinality(rest) = Cardinality(s \ {x}) - 1
          BY <4>1, <5>2, RemoveOne
        <5> HIDE DEF rest
        <5>4. Summed(f, v, rest)
          BY <1>3, <5>1, <5>2, <5>3
        <5>5. QED
          BY <5>4 DEF Summed
      <4> DEFINE r == f[rest]
                 p == f[s \ {x}]
                 q == f[s \ {y}]
      <4>6. p = v[y] + r /\ q = v[x] + r /\ f[s] = v[x] + p /\ r \in Int
        BY <2>1, <4>3, <4>4, <4>5
      <4> HIDE DEF r, p, q
      <4> DEFINE a == v[x]
                 b == v[y]
                 z == f[s]
      <4>7. a \in Int /\ b \in Int /\ p = b + r /\ q = a + r /\ z = a + p
        BY <2>1, <2>2, <4>6
      <4> HIDE DEF a, b, z
      <4>8. z = b + q
        BY <4>6, <4>7
      <4>9. QED
        BY <4>8 DEF q, b, z
    <3>3. QED
      BY <3>1, <3>2
  <2>5. QED
    BY <1>2, <2>3, <2>4 DEF Summed
<1>7. QED
  BY <1>5, <1>6

\* The sum over no element.
LEMMA SumZero ==
  ASSUME NEW S, NEW v, NEW f, SumOver(f, S, v)
  PROVE  f[{}] = 0
<1>1. {} \in SUBSET S
  OBVIOUS
<1>2. QED
  BY <1>1, SumStep, Zenon

\* A one-to-one renaming of the elements leaves the sum as it is.
LEMMA SumImage ==
  ASSUME NEW S, IsFiniteSet(S), NEW v, \A s \in S : v[s] \in Int, NEW f, SumOver(f, S, v),
         NEW T, IsFiniteSet(T), NEW u, \A t \in T : u[t] \in Int, NEW g, SumOver(g, T, u),
         NEW h, \A s \in S : h[s] \in T /\ v[s] = u[h[s]],
         \A s1, s2 \in S : h[s1] = h[s2] => s1 = s2
  PROVE  \A s \in SUBSET S : f[s] = g[{h[x] : x \in s}]
<1> DEFINE Image1(s) == {h[x] : x \in s}
           bad == {s \in SUBSET S : f[s] # g[Image1(s)]}
<1> SUFFICES ASSUME bad # {} PROVE FALSE
  OBVIOUS
<1>1. PICK s \in bad : \A t \in bad : Cardinality(s) <= Cardinality(t)
  BY SmallestSubset
<1>2. s \in SUBSET S /\ f[s] # g[Image1(s)]
  BY <1>1
<1>3. \A y \in s : f[s \ {y}] = g[Image1(s \ {y})]
  <2> SUFFICES ASSUME NEW y \in s PROVE f[s \ {y}] = g[Image1(s \ {y})]
    OBVIOUS
  <2>1. /\ s \ {y} \in SUBSET S
        /\ Cardinality(s) \in Nat /\ Cardinality(s \ {y}) \in Nat
        /\ Cardinality(s \ {y}) = Cardinality(s) - 1
    BY <1>2, RemoveOne
  <2>2. ~(Cardinality(s) <= Cardinality(s \ {y}))
    BY <2>1
  <2> HIDE DEF Image1
  <2>3. QED
    BY <1>1, <2>1, <2>2
<1> HIDE DEF bad
<1>4. Image1(s) \in SUBSET T
  BY <1>2
<1>5. CASE s = {}
  <2>1. Image1(s) = {}
    BY <1>5
  <2> HIDE DEF Image1
  <2>2. f[{}] = 0 /\ g[{}] = 0
    BY SumZero
  <2>3. f[s] = 0 /\ g[Image1(s)] = 0
    BY <1>5, <2>1, <2>2
  <2>4. QED
    BY <1>2, <2>3
<1>6. CASE s # {}
  <2>1. PICK x : x \in s
    BY <1>6
  <2>2. x \in S /\ h[x] \in Image1(s)
    BY <1>2, <2>1
  <2>3. Image1(s) \ {h[x]} = Image1(s \ {x})
    BY <1>2, <2>1
  <2> HIDE DEF Image1
  <2>4. f[s] = v[x] + f[s \ {x}]
    BY <1>2, <2>1, SumValues DEF Summed
  <2>5. g[Image1(s)] = u[h[x]] + g[Image1(s) \ {h[x]}]
    <3>1. \A t \in SUBSET T : Summed(g, u, t)
      BY SumValues, Zenon
    <3>2. QED
      BY <1>4, <2>2, <3>1, Zenon DEF Summed
  <2>6. v[x] = u[h[x]] /\ f[s \ {x}] = g[Image1(s \ {x})]
    BY <1>3, <2>1, <2>2
  <2>7. f[s] = g[Image1(s)]
    BY <2>3, <2>4, <2>5, <2>6
  <2>8. QED
    BY <1>2, <2>7
<1>7. QED
  BY <1>5, <1>6

\* The sum in an aggregate of numbers is such a sum.
LEMMA AggregateSum ==
  ASSUME NEW v, IsFiniteSet(DOMAIN v), Numbers(v) = DOMAIN v
  PROVE  \E f : SumOver(f, DOMAIN v, v) /\ Aggregate(v).sum = f[DOMAIN v]
<1> DEFINE S == DOMAIN v
           f == CHOOSE g : SumOver(g, S, v)
<1>1. SumOver(f, S, v)
  BY SumExists
<1>2. Aggregate(v).sum = f[S]
  <2>1. Aggregate(v).sum = MapThenSumSet(LAMBDA s : v[s], S)
    BY DEF Aggregate
  <2>2. MapThenSumSet(LAMBDA s : v[s], S) = f[S]
    BY Zenon DEF MapThenSumSet, MapThenFoldSet, SumOver, AnyOf
  <2>3. QED
    BY <2>1, <2>2
<1> HIDE DEF f
<1>3. QED
  BY <1>1, <1>2

\* Values that are the same up to a one-to-one renaming aggregate to the same
\* count, sum, minimum and maximum.
LEMMA SameAggregate ==
  ASSUME NEW v, NEW u, IsFiniteSet(DOMAIN u),
         \A t \in DOMAIN u : u[t] \in Int \cup {NaN},
         NEW h, \A s \in DOMAIN v : h[s] \in DOMAIN u /\ v[s] = u[h[s]],
         \A s1, s2 \in DOMAIN v : h[s1] = h[s2] => s1 = s2,
         \A t \in DOMAIN u : \E s \in DOMAIN v : h[s] = t
  PROVE  Aggregate(v) = Aggregate(u)
<1> DEFINE S == DOMAIN v
           T == DOMAIN u
<1> HIDE DEF S, T
<1>1. /\ IsFiniteSet(T) /\ \A t \in T : u[t] \in Int \cup {NaN}
      /\ \A s \in S : h[s] \in T /\ v[s] = u[h[s]]
      /\ \A s1, s2 \in S : h[s1] = h[s2] => s1 = s2
      /\ \A t \in T : \E s \in S : h[s] = t
  BY DEF S, T
<1>2. IsFiniteSet(S) /\ Cardinality(S) = Cardinality(T)
  BY <1>1, SameSize
<1> DEFINE M == Numbers(v)
           N == Numbers(u)
<1>3. /\ M = {s \in S : v[s] # NaN} /\ N = {t \in T : u[t] # NaN}
      /\ M = S <=> N = T
      /\ M = {} <=> N = {}
      /\ {v[s] : s \in M} = {u[t] : t \in N}
  <2>1. M = {s \in S : v[s] # NaN} /\ N = {t \in T : u[t] # NaN}
    BY DEF Numbers, S, T
  <2> HIDE DEF M, N
  <2>2. QED
    BY <1>1, <2>1
<1> HIDE DEF M, N
<1>4. ASSUME M = S
      PROVE  Aggregate(v).sum = Aggregate(u).sum
  <2>1. PICK f : SumOver(f, S, v) /\ Aggregate(v).sum = f[S]
    BY <1>2, <1>4, AggregateSum DEF S, M
  <2>2. PICK g : SumOver(g, T, u) /\ Aggregate(u).sum = g[T]
    BY <1>1, <1>3, <1>4, AggregateSum DEF T, N
  <2>a. (\A s \in S : v[s] \in Int) /\ (\A t \in T : u[t] \in Int)
    BY <1>1, <1>3, <1>4
  <2>3. \A s \in SUBSET S : f[s] = g[{h[x] : x \in s}]
    BY <1>1, <1>2, <2>1, <2>2, <2>a, SumImage
  <2>4. {h[x] : x \in S} = T
    BY <1>1
  <2>5. S \in SUBSET S
    OBVIOUS
  <2>6. f[S] = g[{h[x] : x \in S}]
    BY <2>3, <2>5
  <2>7. QED
    BY <2>1, <2>2, <2>4, <2>6
<1>5. Aggregate(v).sum = Aggregate(u).sum
  <2>1. \A w : Numbers(w) # DOMAIN w => Aggregate(w).sum = NaN
    BY DEF Aggregate
  <2>2. QED
    BY <1>3, <1>4, <2>1 DEF S, T, M, N
<1>6. S = {} <=> T = {}
  BY <1>1
<1> DEFINE A(w, D, E) ==
             [count |-> Cardinality(D), sum |-> Aggregate(w).sum,
              min |-> IF D = {} THEN None ELSE IF E = {} THEN NaN ELSE Min({w[s] : s \in E}),
              max |-> IF D = {} THEN None ELSE IF E = {} THEN NaN ELSE Max({w[s] : s \in E})]
<1>7. \A w : Aggregate(w) = A(w, DOMAIN w, Numbers(w))
  BY DEF Aggregate
<1>8. A(v, S, M) = A(u, T, N)
  BY <1>2, <1>3, <1>5, <1>6
<1> HIDE DEF A
<1>9. QED
  BY <1>7, <1>8 DEF S, T, M, N

(***************************************************************************)
(* The statistics of a window: accumulate_tile over its tiles.               *)
(***************************************************************************)
Value(l, cr) == PixelOf(l, cr[1], cr[2], req.band)
Valid(l, P) == {cr \in P : Value(l, cr) # meta.nodata}
Raw(l, P) == Aggregate([cr \in Valid(l, P) |-> Value(l, cr)])
InZone(z, l, P) == {cr \in P : z = None \/ KeepIn(z, G(l), cr[1], cr[2])}

\* A value that is not nodata is one of a pixel.
LEMMA ValueInt ==
  ASSUME Reading, NEW l \in 0..(Len(meta.levels) - 1), NEW cr \in Raster(l),
         req.band \in 1..meta.num_bands, meta.nodata = None \/ Value(l, cr) # meta.nodata
  PROVE  Value(l, cr) \in Int \cup {NaN}
<1>1. Value(l, cr) = Pixel(l, cr[1], cr[2], req.band)
  BY DEF Value, PixelOf
<1>2. cr[1] \in 0..(Lv(l).image_width - 1) /\ cr[2] \in 0..(Lv(l).image_height - 1)
  BY DEF Raster
<1> DEFINE m == BuildMeta(file.ifds)
<1>3. \A i \in 1..Len(m.levels) :
        LET lv == m.levels[i] IN
        \A c \in 0..(lv.image_width - 1), r \in 0..(lv.image_height - 1),
           b \in 1..m.num_bands : Pixel(i - 1, c, r, b) \in Int \cup {NaN}
  BY MetadataProps DEF Reading
<1>4. m = meta
  BY DEF Reading
<1> HIDE DEF m
<1>5. l + 1 \in 1..Len(meta.levels) /\ (l + 1) - 1 = l
  BY ReadingMeta DEF Metadata
<1>6. QED
  BY <1>1, <1>2, <1>3, <1>4, <1>5 DEF Lv

\* The cells that are kept and hold no nodata stand for the valid pixels of the
\* window and the zone, one for one: whatever the tiles, each pixel counts once.
LEMMA AccumulateExact ==
  ASSUME Reading, level \in 0..(Len(meta.levels) - 1), ~BadBand(req.band),
         NEW T, Lists(tiles, T), T \subseteq Tiles,
         NEW w, Window(w, Lv(level)), TileRange(Lv(level), w) \subseteq T,
         NEW z, NEW a, Accumulate(level, w, req.band, Arrays, z) = [ok |-> a]
  PROVE  a = Raw(level, InZone(z, level, Covered(w)))
<1> DEFINE lv == Lv(level)
           cells == WindowCells(lv, w, tiles)
           in(c, r) == z = None \/ KeepIn(z, G(level), c, r)
           kept == {s \in cells : in(PixelAt(lv, s)[1], PixelAt(lv, s)[2])}
           sample(s) == CellSample(Arrays, req.band, s)
           v == [s \in {x \in kept : ApplyNodata(sample(x)) # None} |-> sample(s)]
           P == InZone(z, level, Covered(w))
           u == [cr \in Valid(level, P) |-> Value(level, cr)]
           h == [s \in kept |-> PixelAt(lv, s)]
<1>1. Metadata(meta) /\ req.band \in 1..meta.num_bands
  BY ReadingMeta, CallProps DEF BadBand, Metadata
<1>2. Level(lv) /\ meta.num_bands \in Nat /\ req.band \in Nat
  BY <1>1, LevelProps DEF Metadata
<1>3. /\ \A s \in kept : sample(s) # None
      /\ a = Aggregate(v)
  <2> DEFINE bag == UNION {{<<i, cell>> : cell \in TileCells(lv, w, tiles[i])} : i \in InList(tiles, lv, w)}
             some == {s \in bag :
                        z = None \/ KeepIn(z, G(level), s[2][1][1] * lv.tile_width + s[2][2],
                                                        s[2][1][2] * lv.tile_height + s[2][3])}
             stats(S) == IF \E s \in S : sample(s) = None THEN [err |-> "Tiff"]
                         ELSE [ok |-> Aggregate([s \in {x \in S : ApplyNodata(sample(x)) # None}
                                                   |-> sample(s)])]
  <2>1. Accumulate(level, w, req.band, Arrays, z) = stats(some)
    BY Zenon DEF Accumulate, CellSample
  <2>2. some = kept
    <3>1. bag = cells
      BY Zenon DEF WindowCells
    <3> HIDE DEF bag, cells
    <3>2. \A s : /\ PixelAt(lv, s)[1] = s[2][1][1] * lv.tile_width + s[2][2]
                 /\ PixelAt(lv, s)[2] = s[2][1][2] * lv.tile_height + s[2][3]
      BY DEF PixelAt
    <3>3. \A s : in(PixelAt(lv, s)[1], PixelAt(lv, s)[2])
                   <=> in(s[2][1][1] * lv.tile_width + s[2][2], s[2][1][2] * lv.tile_height + s[2][3])
      BY <3>2, Zenon
    <3>4. QED
      BY <3>1, <3>3, Zenon
  <2> HIDE DEF some, kept, sample
  <2>3. [ok |-> a] = IF \E s \in kept : sample(s) = None THEN [err |-> "Tiff"]
                     ELSE [ok |-> Aggregate(v)]
    BY <2>1, <2>2, Zenon
  <2> HIDE DEF v
  <2>4. QED
    BY <2>3
<1> HIDE DEF lv
<1>4. /\ \A s : s \in cells <=> IsCell(lv, w, tiles, s)
      /\ \A s : IsCell(lv, w, tiles, s) => PixelAt(lv, s) \in Covered(w)
      /\ \A s1, s2 : /\ IsCell(lv, w, tiles, s1) /\ IsCell(lv, w, tiles, s2)
                     /\ PixelAt(lv, s1) = PixelAt(lv, s2)
                     => s1 = s2
      /\ \A cr \in Covered(w) : \E s : IsCell(lv, w, tiles, s) /\ PixelAt(lv, s) = cr
  <2>1. Window(w, lv) /\ TileRange(lv, w) \subseteq T
    BY DEF lv
  <2>2. \A s : s \in cells <=> IsCell(lv, w, tiles, s)
    BY <1>2, <2>1, WindowCellsProps
  <2>3. QED
    BY <1>2, <2>1, <2>2, CellBijection
<1>5. ASSUME NEW s \in kept
      PROVE  sample(s) = Value(level, PixelAt(lv, s)) /\ PixelAt(lv, s) \in P
  <2>1. IsCell(lv, w, tiles, s) /\ CellSample(Arrays, req.band, s) # None
    BY <1>3, <1>4
  <2>2. CellSample(Arrays, req.band, s)
          = PixelOf(level, PixelAt(Lv(level), s)[1], PixelAt(Lv(level), s)[2], req.band)
    BY <1>2, <2>1, CellExact DEF lv
  <2>3. PixelAt(lv, s) \in Covered(w)
    BY <1>4, <2>1
  <2>4. QED
    BY <2>2, <2>3 DEF Value, InZone, lv
<1>6. ASSUME NEW cr \in P PROVE \E s \in kept : PixelAt(lv, s) = cr
  <2>1. cr \in Covered(w) /\ in(cr[1], cr[2])
    BY DEF InZone
  <2>2. PICK s : IsCell(lv, w, tiles, s) /\ PixelAt(lv, s) = cr
    BY <1>4, <2>1
  <2>3. s \in cells /\ in(PixelAt(lv, s)[1], PixelAt(lv, s)[2])
    BY <1>4, <2>1, <2>2, Zenon
  <2>4. QED
    BY <2>2, <2>3
<1>7. \A s1, s2 \in kept : PixelAt(lv, s1) = PixelAt(lv, s2) => s1 = s2
  BY <1>4
<1>8. P \subseteq Raster(level) /\ IsFiniteSet(P)
  <2>1. Covered(w) \subseteq Image(lv) /\ Image(lv) = Raster(level)
    <3>1. Image(lv) = Raster(level)
      BY DEF Image, Raster, lv
    <3>2. Window(w, lv)
      BY DEF lv
    <3>3. Covered(w) \subseteq Image(lv)
      <4> DEFINE W == lv.image_width
                 H == lv.image_height
      <4>1. W \in Nat /\ H \in Nat
        BY <1>2 DEF Level
      <4>2. /\ w[1] \in Int /\ w[2] \in Int /\ w[3] \in Int /\ w[4] \in Int
            /\ 0 <= w[1] /\ w[2] < W /\ 0 <= w[3] /\ w[4] < H
        BY <3>2 DEF Window, IntBoxes
      <4>3. Covered(w) = (w[1]..w[2]) \X (w[3]..w[4]) /\ Image(lv) = (0..(W - 1)) \X (0..(H - 1))
        BY DEF Covered, Image
      <4> HIDE DEF W, H
      <4>4. w[1]..w[2] \subseteq 0..(W - 1) /\ w[3]..w[4] \subseteq 0..(H - 1)
        <5>1. \A p, q \in Int, n \in Nat : 0 <= p /\ q < n => p..q \subseteq 0..(n - 1)
          OBVIOUS
        <5>2. QED
          BY <4>1, <4>2, <5>1, Zenon
      <4>5. \A A, B, C, D : A \subseteq C /\ B \subseteq D => A \X B \subseteq C \X D
        OBVIOUS
      <4>6. QED
        BY <4>3, <4>4, <4>5, Zenon
    <3>4. QED
      BY <3>1, <3>3
  <2>2. IsFiniteSet(Image(lv))
    BY <1>2, ImageSize
  <2>3. P \subseteq Covered(w)
    BY DEF InZone
  <2> HIDE DEF P
  <2>4. QED
    BY <2>1, <2>2, <2>3, FS_Subset
<1>9. \A x : x # None => (ApplyNodata(x) # None <=> x # meta.nodata)
  BY DEF ApplyNodata
<1> HIDE DEF kept, sample, cells, P, in
<1>10. DOMAIN u = Valid(level, P) /\ IsFiniteSet(DOMAIN u)
  <2>1. Valid(level, P) \subseteq P
    BY DEF Valid
  <2>2. QED
    BY <1>8, <2>1, FS_Subset
<1>11. \A t \in DOMAIN u : u[t] \in Int \cup {NaN}
  <2> SUFFICES ASSUME NEW t \in Valid(level, P) PROVE Value(level, t) \in Int \cup {NaN}
    BY <1>10
  <2>1. t \in Raster(level) /\ Value(level, t) # meta.nodata
    BY <1>8 DEF Valid
  <2>2. QED
    BY <1>1, <2>1, ValueInt
<1>12. \A s \in DOMAIN v : /\ s \in kept /\ h[s] = PixelAt(lv, s)
                           /\ h[s] \in DOMAIN u /\ v[s] = u[h[s]]
  <2> SUFFICES ASSUME NEW s \in DOMAIN v
               PROVE  /\ s \in kept /\ h[s] = PixelAt(lv, s)
                      /\ h[s] \in DOMAIN u /\ v[s] = u[h[s]]
    OBVIOUS
  <2>1. s \in kept /\ ApplyNodata(sample(s)) # None /\ v[s] = sample(s)
    OBVIOUS
  <2>2. h[s] = PixelAt(lv, s)
    BY <2>1
  <2>3. sample(s) = Value(level, PixelAt(lv, s)) /\ PixelAt(lv, s) \in P
    BY <1>5, <2>1
  <2>4. Value(level, PixelAt(lv, s)) # meta.nodata
    BY <1>3, <1>9, <2>1, <2>3
  <2>5. PixelAt(lv, s) \in Valid(level, P)
    BY <2>3, <2>4 DEF Valid
  <2> HIDE DEF v, h
  <2>6. u[PixelAt(lv, s)] = Value(level, PixelAt(lv, s))
    BY <2>5
  <2> HIDE DEF u
  <2>7. QED
    BY <1>10, <2>1, <2>2, <2>3, <2>5, <2>6
<1>13. \A t \in DOMAIN u : \E s \in DOMAIN v : h[s] = t
  <2> SUFFICES ASSUME NEW t \in Valid(level, P) PROVE \E s \in DOMAIN v : h[s] = t
    BY <1>10
  <2>1. t \in P /\ Value(level, t) # meta.nodata
    BY DEF Valid
  <2>2. PICK s \in kept : PixelAt(lv, s) = t
    BY <1>6, <2>1
  <2>3. ApplyNodata(sample(s)) # None
    BY <1>3, <1>5, <1>9, <2>1, <2>2
  <2>4. s \in DOMAIN v /\ h[s] = t
    BY <2>2, <2>3
  <2>5. QED
    BY <2>4
<1> HIDE DEF u, v, h
<1>14. \A s1, s2 \in DOMAIN v : h[s1] = h[s2] => s1 = s2
  BY <1>7, <1>12
<1>15. Aggregate(v) = Aggregate(u)
  BY <1>10, <1>11, <1>12, <1>13, <1>14, SameAggregate
<1>16. QED
  BY <1>3, <1>15 DEF Raw, u, P

\* The statistics of no pixel, and of pixels in a band that is there.
LEMMA StatsProps ==
  /\ \A l : Raw(l, {}) = EMPTY
  /\ \A l, P : BadBand(req.band) \/ P = {} => StatsOf(l, P) = Estimates(EMPTY, l)
  /\ \A l, P : ~BadBand(req.band) => StatsOf(l, P) = Estimates(Raw(l, P), l)
<1> DEFINE val(l, S) == [cr \in S |-> Value(l, cr)]
           valid(l, P) == IF BadBand(req.band) THEN {} ELSE Valid(l, P)
<1>1. \A l : val(l, {}) = <<>> /\ Valid(l, {}) = {}
  BY DEF Valid
<1>2. \A l, P : StatsOf(l, P) = Estimates(Aggregate(val(l, valid(l, P))), l)
  BY Zenon DEF StatsOf, Valid, Value
<1>3. \A l, P : Raw(l, P) = Aggregate(val(l, Valid(l, P)))
  BY Zenon DEF Raw
<1>4. \A l : Aggregate(val(l, {})) = EMPTY
  BY <1>1, Zenon DEF EMPTY
<1>5. \A l : Raw(l, {}) = EMPTY
  BY <1>1, <1>3, <1>4, Zenon
<1>6. \A l, P : BadBand(req.band) \/ P = {} => valid(l, P) = {}
  BY <1>1
<1>7. \A l, P : ~BadBand(req.band) => valid(l, P) = Valid(l, P)
  OBVIOUS
<1> HIDE DEF val, valid
<1>8. \A l, P : BadBand(req.band) \/ P = {} => StatsOf(l, P) = Estimates(EMPTY, l)
  BY <1>2, <1>4, <1>6, Zenon
<1>9. \A l, P : ~BadBand(req.band) => StatsOf(l, P) = Estimates(Raw(l, P), l)
  BY <1>2, <1>3, <1>7, Zenon
<1>10. QED
  BY <1>5, <1>8, <1>9

\* What zonal statistics have fetched: the tiles of every box of the call.
LEMMA ZonalTiles ==
  ASSUME Reading, Planned, req.op \in ZonalOps
  PROVE  /\ meta.georef # None /\ ~BadBand(req.band)
         /\ level = LevelFor(Box) /\ level \in 0..(Len(meta.levels) - 1)
         /\ \E T : /\ Lists(tiles, T) /\ T \subseteq Tiles
                   /\ \A b \in Boxes \cap IntBoxes :
                        LET w == CenterWindow(G(level), Lv(level), b) IN
                          w # None => /\ Window(w, Lv(level)) /\ Centred(level, b) = Covered(w)
                                      /\ TileRange(Lv(level), w) \subseteq T
<1> DEFINE lv == Lv(level)
           W == Wanted(level)
           T == {TileOf(lv, cr) : cr \in W}
<1>1. /\ meta.georef # None /\ ~BadBand(req.band)
      /\ level = LevelFor(Box) /\ level \in 0..(Len(meta.levels) - 1)
      /\ Lists(tiles, T)
  <2>1. CASE req.op \in {"zonal_bbox", "zonal"}
    BY <2>1, ZonalPlan DEF Planned, ListsTilesOf
  <2>2. CASE req.op = "zonal_zones"
    BY <2>2, BatchPlan DEF Planned, ListsTilesOf
  <2>3. QED
    BY <2>1, <2>2 DEF ZonalOps
<1>2. Metadata(meta) /\ Level(lv) /\ None \notin IntBoxes
  BY <1>1, ReadingMeta, LevelProps, PixelReaderAssumption DEF IntBoxes
<1>3. W = UNION {IF b = None THEN Raster(0) ELSE Centred(level, b) : b \in Boxes}
  BY DEF Wanted, ZonalOps
<1>4. W \subseteq Int \X Int
  <2>1. \A l : Raster(l) \subseteq Int \X Int
    BY DEF Raster
  <2>2. \A l, b : Centred(l, b) \subseteq Raster(l)
    BY DEF Centred
  <2>3. QED
    BY <1>3, <2>1, <2>2
<1> HIDE DEF W
<1>5. T \subseteq Tiles
  <2>1. lv.tile_width \in Nat \ {0} /\ lv.tile_height \in Nat \ {0}
    BY <1>2 DEF Level
  <2> HIDE DEF lv
  <2>2. \A cr \in W : cr[1] \div lv.tile_width \in Int /\ cr[2] \div lv.tile_height \in Int
    BY <1>4, <2>1, DivProps
  <2>3. QED
    BY <2>2 DEF TileOf, Tiles
<1>6. ASSUME NEW b \in Boxes, b \in IntBoxes, CenterWindow(G(level), lv, b) # None
      PROVE  LET w == CenterWindow(G(level), lv, b) IN
               /\ Window(w, lv) /\ Centred(level, b) = Covered(w)
               /\ TileRange(lv, w) \subseteq T
  <2> DEFINE w == CenterWindow(G(level), lv, b)
  <2>1. Window(w, lv) /\ Centred(level, b) = Covered(w)
    BY <1>1, <1>2, <1>6, LevelWindow
  <2>2. Centred(level, b) \subseteq W
    BY <1>2, <1>3, <1>6
  <2> HIDE DEF w, lv
  <2>3. TileRange(lv, w) = {TileOf(lv, cr) : cr \in Covered(w)}
    BY <1>2, <2>1, RangeCovered, Zenon
  <2>4. TileRange(lv, w) \subseteq T
    BY <2>1, <2>2, <2>3
  <2>5. QED
    BY <2>1, <2>4 DEF w
<1> HIDE DEF T
<1>7. QED
  BY <1>1, <1>5, <1>6

\* The statistics of a box or of a zone with a window.
LEMMA WindowStats ==
  ASSUME Reading, Planned, req.op \in ZonalOps, NEW b \in IntBoxes, b \in Boxes,
         CenterWindow(G(level), Lv(level), b) # None, NEW z, NEW a,
         Accumulate(level, CenterWindow(G(level), Lv(level), b), req.band, Arrays, z) = [ok |-> a]
  PROVE  a = Raw(level, InZone(z, level, Centred(level, b)))
<1> DEFINE w == CenterWindow(G(level), Lv(level), b)
<1>1. ~BadBand(req.band) /\ level \in 0..(Len(meta.levels) - 1)
  BY ZonalTiles
<1>2. PICK T : /\ Lists(tiles, T) /\ T \subseteq Tiles
               /\ Window(w, Lv(level)) /\ Centred(level, b) = Covered(w)
               /\ TileRange(Lv(level), w) \subseteq T
  BY ZonalTiles
<1> HIDE DEF w
<1>3. Accumulate(level, w, req.band, Arrays, z) = [ok |-> a]
  BY DEF w
<1>4. a = Raw(level, InZone(z, level, Covered(w)))
  BY <1>1, <1>2, <1>3, AccumulateExact
<1>5. QED
  BY <1>2, <1>4

\* Zonal statistics of a box are those of the pixels centred in it.
LEMMA BoxAnswer ==
  ASSUME ReadInv, req.op = "zonal_bbox", pc = "done", "ok" \in DOMAIN answer
  PROVE  answer.ok = StatsOf(LevelFor(Box), Centred(LevelFor(Box), Box))
<1> DEFINE l == LevelFor(Box)
           w == CenterWindow(G(l), Lv(l), Box)
<1>1. Metadata(meta) /\ Box = req.bbox /\ Box \in Corners
  BY ReadingMeta, CallProps DEF ReadInv, Box
<1>2. CASE AnsweredEarly
  <2>1. answer = ZonalStatsAt /\ "tiles" \notin DOMAIN answer
    BY <1>2 DEF AnsweredEarly, Plan
  <2> HIDE DEF l, w
  <2>2. /\ ValidBox(Box) /\ meta.georef # None /\ (BadBand(req.band) \/ w = None)
        /\ answer = [ok |-> Estimates(EMPTY, l)]
    BY <1>1, <2>1 DEF ZonalStatsAt, l, w
  <2>3. Box \in IntBoxes /\ l \in 0..(Len(meta.levels) - 1)
    BY <1>1, <2>2, ValidCorners, LevelForProps DEF ReadInv, BudgetKept, ZonalOps, l
  <2>4. w = None => Centred(l, Box) = {}
    BY <1>1, <2>2, <2>3, LevelWindow DEF w
  <2>5. QED
    BY <2>2, <2>4, StatsProps DEF l
<1>3. CASE AnsweredLate
  <2>1. Planned /\ answer = Finish(Arrays) /\ req.op \in ZonalOps
    BY <1>3 DEF AnsweredLate, ZonalOps
  <2>2. level = l /\ ~BadBand(req.band)
    BY <2>1, ZonalTiles DEF ReadInv
  <2>3. Box \in IntBoxes /\ Box \in Boxes /\ CenterWindow(G(level), Lv(level), Box) # None
    BY <2>1, ZonalPlan DEF ReadInv, Planned, Boxes
  <2> DEFINE raw == Accumulate(level, CenterWindow(G(level), Lv(level), Box), req.band, Arrays, None)
  <2>4. answer = Scaled(raw)
    BY <1>1, <2>1, Zenon DEF Finish
  <2>5. raw = [err |-> "Tiff"] \/ raw = [ok |-> raw.ok]
    BY DEF Accumulate
  <2> HIDE DEF raw
  <2>6. raw = [ok |-> raw.ok] /\ answer.ok = Estimates(raw.ok, level)
    BY <2>4, <2>5 DEF Scaled
  <2>7. raw.ok = Raw(level, InZone(None, level, Centred(level, Box)))
    BY <2>1, <2>3, <2>6, WindowStats DEF ReadInv, raw
  <2>8. InZone(None, level, Centred(level, Box)) = Centred(level, Box)
    BY DEF InZone
  <2>9. answer.ok = StatsOf(level, Centred(level, Box))
    BY <2>2, <2>6, <2>7, <2>8, StatsProps, Zenon
  <2>10. QED
    BY <2>2, <2>9
<1>4. QED
  BY <1>2, <1>3 DEF ReadInv

\* The count over a whole raster without nodata, scaled to level 0.
LEMMA BoxCount ==
  ASSUME ReadInv, AnsweredLate, req.op = "zonal_bbox", pc = "done", "ok" \in DOMAIN answer,
         meta.nodata = None, Centred(level, Box) = Raster(level)
  PROVE  answer.ok["count"][1] = Cardinality(Raster(0)) * answer.ok["count"][2]
<1> DEFINE lv == Lv(level)
           A == Lv(0).image_width * Lv(0).image_height
           B == lv.image_width * lv.image_height
<1>1. Planned /\ req.op \in ZonalOps
  BY DEF AnsweredLate, ZonalOps
<1>2. /\ level = LevelFor(Box) /\ ~BadBand(req.band)
      /\ Level(lv) /\ Level(Lv(0))
  BY <1>1, ReadingMeta, ZonalTiles, LevelProps DEF ReadInv
<1>3. answer.ok = Estimates(Raw(level, Raster(level)), level)
  <2>1. answer.ok = StatsOf(level, Raster(level))
    BY <1>2, BoxAnswer
  <2>2. QED
    BY <1>2, <2>1, StatsProps
<1>4. Cardinality(Raster(level)) = B /\ Cardinality(Raster(0)) = A
  BY <1>2, ImageSize DEF Raster, Image
<1> DEFINE z == Raw(level, Raster(level))
<1>5. z.count = Cardinality(Valid(level, Raster(level)))
  BY DEF Raw, Aggregate
<1>6. Valid(level, Raster(level)) = Raster(level)
  <2>1. level \in 0..(Len(meta.levels) - 1) /\ req.band \in 1..meta.num_bands
    BY <1>1, <1>2, ZonalTiles, ReadingMeta, CallProps DEF ReadInv, BadBand, Metadata
  <2>2. \A cr \in Raster(level) : Value(level, cr) \in Int \cup {NaN}
    BY <2>1, ValueInt DEF ReadInv
  <2>3. \A cr \in Raster(level) : Value(level, cr) # meta.nodata
    BY <2>2, PixelReaderAssumption
  <2>4. QED
    BY <2>3 DEF Valid
<1> HIDE DEF z, A, B
<1>7. z.count = B
  BY <1>4, <1>5, <1>6
<1>8. Estimates(z, level)["count"] = <<z.count * A, B>>
  <2>1. "count" \in Stats
    BY DEF Stats
  <2>2. Estimates(z, level)["count"] = ValueScaled(z, "count", LevelScale(level))
    BY <2>1 DEF Estimates
  <2>3. ValueScaled(z, "count", LevelScale(level)) = <<z.count * LevelScale(level)[1], LevelScale(level)[2]>>
    BY DEF ValueScaled
  <2>4. LevelScale(level)[1] = A /\ LevelScale(level)[2] = B
    BY DEF LevelScale, A, B
  <2>5. QED
    BY <2>2, <2>3, <2>4, Zenon
<1>9. answer.ok["count"] = <<B * A, B>>
  BY <1>3, <1>7, <1>8, Zenon DEF z
<1>10. A \in Int /\ B \in Int
  <2>1. \A x, y \in Nat : x * y \in Int
    OBVIOUS
  <2>2. QED
    BY <1>2, <2>1 DEF A, B, Level
<1>11. QED
  BY <1>4, <1>9, <1>10

\* The budget of pixels: the finest level that keeps it is read, else the
\* coarsest; a scaled count of a whole raster is its number of pixels.
THEOREM ReadLevelFits == Spec => []LevelFits
<1>1. ReadInv => LevelFits
  <2> SUFFICES ASSUME ReadInv, pc # "begin", tiles # <<>>, req.op \in ZonalOps
               PROVE  LevelFits
    BY DEF LevelFits
  <2> DEFINE n(l) == Cardinality(Centred(l, Box))
             all == 0..(Len(meta.levels) - 1)
  <2>1. Planned
    BY DEF ReadInv, AnsweredEarly, AnsweredLate
  <2>2. Metadata(meta) /\ req.max_pixels \in Nat
    BY ReadingMeta, CallProps DEF ReadInv
  <2>3. meta.georef # None /\ Box \in IntBoxes /\ level = LevelFor(Box)
    <3>1. CASE req.op \in {"zonal_bbox", "zonal"}
      BY <2>1, <3>1, ZonalPlan DEF ReadInv, Planned
    <3>2. CASE req.op = "zonal_zones"
      BY <2>1, <3>2, BatchPlan DEF ReadInv, Planned
    <3>3. QED
      BY <3>1, <3>2 DEF ZonalOps
  <2>4. BudgetKept(Box, req.max_pixels, level)
    BY <2>3, LevelForProps DEF ReadInv
  <2>5. Max(all) = Len(meta.levels) - 1
    <3> DEFINE m == Len(meta.levels) - 1
    <3>1. m \in Nat
      BY <2>2, <2>3 DEF Metadata
    <3> HIDE DEF m
    <3>2. 0..m \subseteq Int /\ IsFiniteSet(0..m) /\ m \in 0..m
      BY <3>1, FS_Interval
    <3>3. Max(0..m) \in 0..m /\ m <= Max(0..m)
      BY <3>2, MaxProps
    <3>4. Max(0..m) = m
      BY <3>1, <3>3
    <3>5. QED
      BY <3>4 DEF m
  <2>6. ASSUME Answered({"zonal_bbox"}), meta.nodata = None, Centred(level, Box) = Raster(level)
        PROVE  answer.ok["count"][1] = Cardinality(Raster(0)) * answer.ok["count"][2]
    <3>1. pc = "done" /\ req.op = "zonal_bbox" /\ "ok" \in DOMAIN answer
      BY <2>6 DEF Answered
    <3>2. AnsweredLate
      BY <3>1 DEF ReadInv, AnsweredEarly
    <3>3. QED
      BY <2>6, <3>1, <3>2, BoxCount
  <2>7. /\ req.max_pixels = 0 => level = 0
        /\ req.max_pixels > 0 => /\ n(level) <= req.max_pixels \/ level = Max(all)
                                 /\ \A l \in 0..(level - 1) : n(l) > req.max_pixels
    BY <2>4, <2>5, Zenon DEF BudgetKept
  <2>8. QED
    BY <2>6, <2>7, Zenon DEF LevelFits
<1>2. QED
  BY <1>1, ReadInvariant, PTL

(***************************************************************************)
(* The statistics of zones.                                                  *)
(***************************************************************************)

\* A zone is not None, and has an envelope of numbers or none.
LEMMA ZoneSome ==
  ASSUME NEW z \in FiniteZones
  PROVE  z # None /\ (Envelope(z) = None \/ Envelope(z) \in IntBoxes)
<1> DEFINE Z == [exterior : Lines, interiors : Seq(Lines)]
           F == [exterior : Seq(Points), interiors : Seq(Seq(Points))]
<1>1. \A s \in Seq(Points) : s \in Lines
  <2> DEFINE C == Coordinates \X Coordinates
  <2>1. \A p \in Points : p \in C
    BY DEF Points, Coordinates
  <2> HIDE DEF C
  <2> SUFFICES ASSUME NEW s \in Seq(Points) PROVE s \in Seq(C)
    BY DEF Lines, C
  <2>2. \A i \in 1..Len(s) : s[i] \in C
    BY <2>1, SequenceElements
  <2>3. QED
    BY <2>2, SequenceOf
<1>2. \A s \in Seq(Seq(Points)) : s \in Seq(Lines)
  <2> DEFINE L == Seq(Points)
  <2> HIDE DEF L
  <2> SUFFICES ASSUME NEW s \in Seq(L) PROVE s \in Seq(Lines)
    BY DEF L
  <2>1. \A i \in 1..Len(s) : s[i] \in Lines
    BY <1>1, SequenceElements DEF L
  <2>2. QED
    BY <2>1, SequenceOf
<1>3. \A p \in F : p \in Z
  BY <1>1, <1>2
<1>4. z \in Seq(F)
  BY DEF FiniteZones
<1> HIDE DEF F, Z
<1>5. \A i \in 1..Len(z) : z[i] \in Z
  BY <1>3, <1>4, SequenceElements
<1>6. z \in Seq(Z)
  BY <1>4, <1>5, SequenceOf
<1>7. None \notin Seq(Z)
  BY PixelReaderAssumption DEF Z
<1>8. QED
  BY <1>6, <1>7, EnvelopeProps

\* A zone without a window at a level keeps no pixel of it.
LEMMA KeptNone ==
  ASSUME Metadata(meta), meta.georef # None, NEW z \in FiniteZones, NEW l, ZoneWindow(z, l) = None,
         Envelope(z) # None => l \in 0..(Len(meta.levels) - 1)
  PROVE  Kept(z, l) = {}
<1>1. CASE Envelope(z) = None
  BY <1>1 DEF Kept
<1>2. CASE Envelope(z) # None
  <2>1. Envelope(z) \in IntBoxes
    BY <1>2, ZoneSome
  <2>2. CenterWindow(G(l), Lv(l), Envelope(z)) = None
    BY <1>2 DEF ZoneWindow
  <2>3. Centred(l, Envelope(z)) = {}
    BY <1>2, <2>1, <2>2, LevelWindow
  <2>4. QED
    BY <1>2, <2>3 DEF Kept
<1>3. QED
  BY <1>1, <1>2

\* The raw statistics of a zone, whatever the other zones of the call.
LEMMA ZoneStatsExact ==
  ASSUME Reading, Planned, req.op \in {"zonal", "zonal_zones"}, NEW z \in FiniteZones,
         Envelope(z) # None => Envelope(z) \in Boxes
  PROVE  ZoneStats(z, Arrays) \in {[err |-> "Tiff"], [ok |-> Raw(level, Kept(z, level))]}
<1> DEFINE e == Envelope(z)
           raw == ZoneStats(z, Arrays)
<1>1. /\ Metadata(meta) /\ meta.georef # None /\ level \in 0..(Len(meta.levels) - 1)
      /\ req.op \in ZonalOps
  BY ReadingMeta, ZonalTiles DEF ZonalOps
<1>2. CASE ZoneWindow(z, level) = None
  <2>1. raw = [ok |-> EMPTY]
    BY <1>2 DEF ZoneStats
  <2>2. Kept(z, level) = {}
    BY <1>1, <1>2, KeptNone
  <2>3. Raw(level, Kept(z, level)) = EMPTY
    BY <2>2, StatsProps
  <2>4. QED
    BY <2>1, <2>3
<1>3. CASE ZoneWindow(z, level) # None
  <2> DEFINE a == Accumulate(level, CenterWindow(G(level), Lv(level), e), req.band, Arrays, z)
  <2> HIDE DEF e
  <2>1. /\ e # None /\ ZoneWindow(z, level) = CenterWindow(G(level), Lv(level), e)
        /\ CenterWindow(G(level), Lv(level), e) # None
    BY <1>3 DEF ZoneWindow, e
  <2>2. e \in IntBoxes /\ e \in Boxes /\ z # None
    BY <2>1, ZoneSome DEF e
  <2>3. raw = a
    BY <1>3, <2>1 DEF ZoneStats
  <2>4. a = [err |-> "Tiff"] \/ a = [ok |-> a.ok]
    BY DEF Accumulate
  <2> HIDE DEF a, raw
  <2>5. ASSUME a = [ok |-> a.ok] PROVE a.ok = Raw(level, Kept(z, level))
    <3>1. a.ok = Raw(level, InZone(z, level, Centred(level, e)))
      BY <1>1, <2>1, <2>2, <2>5, WindowStats DEF a
    <3>2. InZone(z, level, Centred(level, e)) = Kept(z, level)
      BY <2>1, <2>2 DEF InZone, Kept, e
    <3>3. QED
      BY <3>1, <3>2
  <2>6. QED
    BY <2>3, <2>4, <2>5 DEF raw
<1>4. QED
  BY <1>2, <1>3

\* An error of the zones is no answer.
LEMMA ZonesRead ==
  ASSUME ReadInv, req.op \in {"zonal", "zonal_zones"}, pc = "done", "ok" \in DOMAIN answer
  PROVE  "err" \notin DOMAIN zones /\ meta.georef # None
<1>1. "err" \in DOMAIN zones => "ok" \notin DOMAIN zones
  BY DEF ZonesOf, ReadInv, Reading
<1>2. Plan = IF req.op = "zonal" THEN ZonalStatsPolygonAt ELSE ZonalStatsPolygonBatchAt
  BY DEF Plan
<1>3. "err" \in DOMAIN zones => Plan = zones
  BY <1>2 DEF ZonalStatsPolygonAt, ZonalStatsPolygonBatchAt
<1>4. "err" \notin DOMAIN zones /\ meta.georef = None => Plan = [err |-> "NotGeoreferenced"]
  BY <1>2, Zenon DEF ZonalStatsPolygonAt, ZonalStatsPolygonBatchAt
<1>5. "tiles" \in DOMAIN Plan => "err" \notin DOMAIN zones /\ meta.georef # None
  <2>1. "err" \in DOMAIN zones => "tiles" \notin DOMAIN zones
    BY DEF ZonesOf, ReadInv, Reading
  <2>2. QED
    BY <1>3, <1>4, <2>1
<1>6. QED
  BY <1>1, <1>3, <1>4, <1>5 DEF ReadInv, AnsweredEarly, AnsweredLate, Planned

\* The statistics of one zone.
LEMMA ZoneAnswer ==
  ASSUME ReadInv, req.op = "zonal", pc = "done", "ok" \in DOMAIN answer
  PROVE  answer.ok = StatsOf(LevelFor(Box), Kept(zones.ok[1], LevelFor(Box)))
<1> DEFINE l == LevelFor(Box)
           z == zones.ok[1]
<1>1. /\ Metadata(meta) /\ meta.georef # None /\ "err" \notin DOMAIN zones
      /\ z \in FiniteZones /\ Box = Envelope(z)
  BY ReadingMeta, ZonesRead, ZonesProps DEF ReadInv, Box
<1> HIDE DEF z
<1>2. CASE AnsweredEarly
  <2>1. answer = ZonalStatsPolygonAt /\ "tiles" \notin DOMAIN answer
    BY <1>2 DEF AnsweredEarly, Plan
  <2> HIDE DEF l
  <2>2. /\ BadBand(req.band) \/ ZoneWindow(z, l) = None
        /\ answer = [ok |-> Estimates(EMPTY, l)]
    BY <1>1, <2>1 DEF ZonalStatsPolygonAt, l, z
  <2>3. Box # None => l \in 0..(Len(meta.levels) - 1)
    BY <1>1, ZoneSome, LevelForProps DEF ReadInv, BudgetKept, ZonalOps, l
  <2>4. ZoneWindow(z, l) = None => Kept(z, l) = {}
    BY <1>1, <2>3, KeptNone
  <2>5. QED
    BY <2>2, <2>4, StatsProps DEF l, z
<1>3. CASE AnsweredLate
  <2>1. Planned /\ answer = Finish(Arrays) /\ req.op \in ZonalOps
    BY <1>3 DEF AnsweredLate, ZonalOps
  <2>2. level = l /\ ~BadBand(req.band)
    BY <2>1, ZonalTiles DEF ReadInv
  <2>3. Envelope(z) \in Boxes
    BY <1>1 DEF Boxes
  <2> DEFINE raw == ZoneStats(z, Arrays)
  <2>4. answer = Scaled(raw)
    BY <2>1 DEF Finish, z
  <2>5. raw \in {[err |-> "Tiff"], [ok |-> Raw(level, Kept(z, level))]}
    BY <1>1, <2>1, <2>3, ZoneStatsExact DEF ReadInv
  <2> HIDE DEF raw
  <2>6. answer.ok = Estimates(Raw(level, Kept(z, level)), level)
    BY <2>4, <2>5 DEF Scaled
  <2>7. QED
    BY <2>2, <2>6, StatsProps, Zenon DEF z
<1>4. QED
  BY <1>2, <1>3 DEF ReadInv

\* The statistics of the zones of a batch.
LEMMA BatchAnswer ==
  ASSUME ReadInv, req.op = "zonal_zones", pc = "done", "ok" \in DOMAIN answer
  PROVE  answer.ok = [k \in DOMAIN zones.ok |-> StatsOf(LevelFor(Box), Kept(zones.ok[k], LevelFor(Box)))]
<1> DEFINE l == LevelFor(Box)
           K == DOMAIN zones.ok
<1>1. /\ meta.georef # None /\ "err" \notin DOMAIN zones
      /\ \A k \in K : zones.ok[k] \in FiniteZones
      /\ Box = UnionEnvelope(zones.ok)
  BY ZonesRead, ZonesProps DEF ReadInv, Box
<1>2. CASE AnsweredEarly
  <2>1. answer = ZonalStatsPolygonBatchAt /\ "tiles" \notin DOMAIN answer
    BY <1>2 DEF AnsweredEarly, Plan
  <2> HIDE DEF l, K
  <2>2. BadBand(req.band) /\ answer = [ok |-> [k \in K |-> Estimates(EMPTY, l)]]
    BY <1>1, <2>1 DEF ZonalStatsPolygonBatchAt, l, K
  <2>3. \A k \in K : StatsOf(l, Kept(zones.ok[k], l)) = Estimates(EMPTY, l)
    BY <2>2, StatsProps, Zenon
  <2>4. QED
    BY <2>2, <2>3 DEF l, K
<1>3. CASE AnsweredLate
  <2>1. Planned /\ answer = Finish(Arrays) /\ req.op \in ZonalOps
    BY <1>3 DEF AnsweredLate, ZonalOps
  <2>2. level = l /\ ~BadBand(req.band)
    BY <2>1, ZonalTiles DEF ReadInv
  <2> DEFINE raw == [k \in K |-> ZoneStats(zones.ok[k], Arrays)]
  <2>3. answer = BatchStats(Arrays)
    BY <2>1 DEF Finish
  <2>4. /\ \A k \in K : "err" \notin DOMAIN raw[k]
        /\ answer.ok = [k \in K |-> Estimates(raw[k].ok, level)]
    <3>1. answer = IF \E k \in DOMAIN raw : "err" \in DOMAIN raw[k] THEN [err |-> "Tiff"]
                   ELSE [ok |-> [k \in DOMAIN raw |-> Estimates(raw[k].ok, level)]]
      BY <2>3, Zenon DEF BatchStats
    <3>2. DOMAIN raw = K
      OBVIOUS
    <3> HIDE DEF raw, K
    <3>3. QED
      BY <3>1, <3>2
  <2>5. ASSUME NEW k \in K
        PROVE  Estimates(raw[k].ok, level) = StatsOf(l, Kept(zones.ok[k], l))
    <3> DEFINE z == zones.ok[k]
    <3>1. z \in FiniteZones /\ z \in ToSet(zones.ok)
      BY <1>1 DEF ToSet
    <3>2. Envelope(z) # None => Envelope(z) \in Boxes
      BY <3>1 DEF Boxes
    <3>3. ZoneStats(z, Arrays) \in {[err |-> "Tiff"], [ok |-> Raw(level, Kept(z, level))]}
      BY <2>1, <3>1, <3>2, ZoneStatsExact DEF ReadInv
    <3>4. raw[k] = ZoneStats(z, Arrays)
      OBVIOUS
    <3> HIDE DEF raw, z
    <3>5. raw[k].ok = Raw(level, Kept(z, level))
      BY <2>4, <3>3, <3>4
    <3>6. QED
      BY <2>2, <3>5, StatsProps, Zenon DEF z
  <2> HIDE DEF raw, K, l
  <2>6. answer.ok = [k \in K |-> StatsOf(l, Kept(zones.ok[k], l))]
    BY <2>4, <2>5
  <2>7. QED
    BY <2>6 DEF K, l
<1>4. QED
  BY <1>2, <1>3 DEF ReadInv

(***************************************************************************)
(* The windows of zones.                                                     *)
(***************************************************************************)

\* A concatenation is a sequence over what its parts are sequences of.  The
\* function FlattenSeq recurs on, over the first n parts:
Flattens(f, seqs, n) == f = [i \in 1..n |-> IF i = 1 THEN seqs[i] ELSE f[i - 1] \o seqs[i]]

LEMMA FlattensExists ==
  ASSUME NEW seqs, NEW n \in Nat
  PROVE  \E f : Flattens(f, seqs, n)
<1> DEFINE Step(f, i) == IF i = 1 THEN seqs[i] ELSE f[i - 1] \o seqs[i]
           Defined(m) == \E f : f = [i \in 1..m |-> Step(f, i)]
           bad == {m \in Nat : ~Defined(m)}
<1>1. Defined(0)
  <2> DEFINE f == [i \in 1..0 |-> 0]
  <2> HIDE DEF Step
  <2>1. f = [i \in 1..0 |-> Step(f, i)]
    OBVIOUS
  <2> HIDE DEF f
  <2>2. QED
    BY <2>1
<1>2. ASSUME NEW m \in Nat, m # 0, Defined(m - 1) PROVE Defined(m)
  <2> HIDE DEF Step
  <2>1. PICK f : f = [i \in 1..(m - 1) |-> Step(f, i)]
    BY <1>2
  <2> DEFINE g == [i \in 1..m |-> Step(f, i)]
  <2>2. \A i \in 1..(m - 1) : i \in 1..m /\ g[i] = f[i]
    <3>1. \A i \in 1..(m - 1) : f[i] = Step(f, i)
      BY <2>1
    <3>2. \A i \in 1..(m - 1) : i \in 1..m
      OBVIOUS
    <3>3. QED
      BY <3>1, <3>2
  <2>3. ASSUME NEW i \in 1..m PROVE Step(f, i) = Step(g, i)
    <3>1. CASE i = 1
      BY <3>1 DEF Step
    <3>2. CASE i # 1
      <4>1. i - 1 \in 1..(m - 1)
        BY <3>2
      <4>2. g[i - 1] = f[i - 1]
        BY <2>2, <4>1
      <4> HIDE DEF g
      <4>3. QED
        BY <3>2, <4>2 DEF Step
    <3>3. QED
      BY <3>1, <3>2
  <2>4. g = [i \in 1..m |-> Step(g, i)]
    <3>1. g = [i \in 1..m |-> Step(f, i)]
      OBVIOUS
    <3> HIDE DEF g
    <3>2. QED
      BY <2>3, <3>1
  <2> HIDE DEF g
  <2>5. QED
    BY <2>4
<1> HIDE DEF Defined
<1>3. bad = {}
  <2> SUFFICES ASSUME bad # {} PROVE FALSE
    OBVIOUS
  <2>1. PICK m \in bad : \A k \in bad : m <= k
    BY LeastExists
  <2>2. m \in Nat /\ ~Defined(m) /\ m # 0
    BY <1>1, <2>1
  <2>3. m - 1 \in Nat /\ ~(m - 1 \in bad)
    BY <2>1, <2>2
  <2>4. QED
    BY <1>2, <2>2, <2>3
<1>4. Defined(n)
  BY <1>3
<1>5. QED
  BY <1>4, Zenon DEF Defined, Flattens

LEMMA FlattenElements ==
  ASSUME NEW S, NEW seqs \in Seq(Seq(S))
  PROVE  FlattenSeq(seqs) \in Seq(S)
<1> DEFINE n == Len(seqs)
           f == CHOOSE g : Flattens(g, seqs, n)
           bad == {i \in Nat : i \in 1..n /\ f[i] \notin Seq(S)}
<1>1. n \in Nat /\ DOMAIN seqs = 1..n /\ \A i \in 1..n : seqs[i] \in Seq(S)
  BY SequenceElements
<1>2. CASE n = 0
  <2>1. seqs = <<>>
    BY <1>2
  <2>2. FlattenSeq(seqs) = seqs
    BY <1>2, Zenon DEF FlattenSeq
  <2>3. <<>> \in Seq(S)
    OBVIOUS
  <2>4. QED
    BY <2>1, <2>2, <2>3, Zenon
<1>3. CASE n # 0
  <2> HIDE DEF n
  <2>1. Flattens(f, seqs, n)
    BY <1>1, FlattensExists
  <2>2. FlattenSeq(seqs) = f[n]
    BY <1>3, Zenon DEF FlattenSeq, Flattens, n
  <2> HIDE DEF f
  <2>3. \A i \in 1..n : f[i] = IF i = 1 THEN seqs[i] ELSE f[i - 1] \o seqs[i]
    <3> DEFINE Step(i) == IF i = 1 THEN seqs[i] ELSE f[i - 1] \o seqs[i]
    <3>1. f = [i \in 1..n |-> Step(i)]
      BY <2>1, Zenon DEF Flattens
    <3> HIDE DEF Step
    <3>2. \A i \in 1..n : f[i] = Step(i)
      BY <3>1
    <3>3. QED
      BY <3>2, Zenon DEF Step
  <2>4. bad = {}
    <3> SUFFICES ASSUME bad # {} PROVE FALSE
      OBVIOUS
    <3>1. PICK i \in bad : \A k \in bad : i <= k
      BY LeastExists
    <3>2. i \in 1..n /\ f[i] \notin Seq(S) /\ seqs[i] \in Seq(S)
      BY <1>1, <3>1
    <3>3. i # 1
      BY <2>3, <3>2
    <3>4. i - 1 \in 1..n /\ i - 1 \in Nat /\ i - 1 < i
      BY <1>1, <3>2, <3>3
    <3>5. f[i - 1] \in Seq(S)
      <4>1. i - 1 \notin bad
        BY <3>1, <3>2, <3>4
      <4>2. QED
        BY <3>4, <4>1
    <3>6. f[i] = f[i - 1] \o seqs[i]
      BY <2>3, <3>2, <3>3
    <3>7. QED
      BY <3>2, <3>5, <3>6
  <2>5. n \in 1..n
    BY <1>1, <1>3
  <2>6. QED
    BY <1>1, <2>2, <2>4, <2>5
<1>4. QED
  BY <1>2, <1>3

LEMMA RingsPoints ==
  ASSUME NEW z \in FiniteZones
  PROVE  Rings(z) \in Seq(Seq(Points))
<1> DEFINE P == [exterior : Seq(Points), interiors : Seq(Seq(Points))]
           R == [i \in DOMAIN z |-> PolygonRings(z[i])]
           L == Seq(Points)
<1>1. z \in Seq(P)
  BY DEF FiniteZones
<1> HIDE DEF P
<1>2. Len(z) \in Nat /\ DOMAIN z = 1..Len(z) /\ \A i \in 1..Len(z) : z[i] \in P
  BY <1>1, SequenceElements
<1>3. \A p \in P : PolygonRings(p) \in Seq(L)
  BY DEF PolygonRings, P
<1> HIDE DEF L
<1>4. R \in Seq(Seq(L))
  BY <1>2, <1>3
<1> HIDE DEF R
<1>5. FlattenSeq(R) \in Seq(L)
  BY <1>4, FlattenElements
<1>6. QED
  BY <1>5 DEF Rings, R, L

\* The places of the edges of a zone: an edge leads to the vertex of its place
\* from the one before it in the ring.
EdgePlaces(z) ==
  {k \in (DOMAIN Rings(z)) \X (Nat \ {0}) :
     Len(Rings(z)[k[1]]) >= 2 /\ k[2] <= Len(Rings(z)[k[1]])}
Vertex(z, k) == Rings(z)[k[1]][k[2]]
Previous(z, k) == <<k[1], IF k[2] = 1 THEN Len(Rings(z)[k[1]]) ELSE k[2] - 1>>

LEMMA EdgesProps ==
  ASSUME NEW z \in FiniteZones
  PROVE  /\ DOMAIN Edges(z) = EdgePlaces(z) /\ IsFiniteSet(EdgePlaces(z))
         /\ \A k \in EdgePlaces(z) :
              /\ Edges(z)[k] = <<Vertex(z, k), Vertex(z, Previous(z, k))>>
              /\ Previous(z, k) \in EdgePlaces(z)
              /\ Vertex(z, k) \in Points
              /\ \E ring \in ToSet(Rings(z)) : Vertex(z, k) \in ToSet(ring)
<1> DEFINE rings == Rings(z)
           lengths == {Len(r) : r \in ToSet(rings)}
           n == Max({0} \cup lengths)
           prev(a, i) == IF i = 1 THEN Len(rings[a]) ELSE i - 1
           places == {ki \in (DOMAIN rings) \X (1..n) :
                        Len(rings[ki[1]]) >= 2 /\ ki[2] <= Len(rings[ki[1]])}
           E == [ki \in places |-> <<rings[ki[1]][ki[2]], rings[ki[1]][prev(ki[1], ki[2])]>>]
<1>1. /\ Len(rings) \in Nat /\ DOMAIN rings = 1..Len(rings)
      /\ \A a \in DOMAIN rings : rings[a] \in Seq(Points) /\ rings[a] \in ToSet(rings)
      /\ ToSet(rings) \subseteq Seq(Points) /\ IsFiniteSet(ToSet(rings))
  <2> DEFINE L == Seq(Points)
  <2>1. rings \in Seq(L)
    BY RingsPoints
  <2> HIDE DEF L, rings
  <2>2. Len(rings) \in Nat /\ DOMAIN rings = 1..Len(rings) /\ \A a \in 1..Len(rings) : rings[a] \in L
    BY <2>1, SequenceElements
  <2>3. ToSet(rings) \subseteq L /\ IsFiniteSet(ToSet(rings))
    BY <2>1, SequencePoints
  <2>4. QED
    BY <2>2, <2>3 DEF L, ToSet
<1>2. \A a \in DOMAIN rings :
        /\ Len(rings[a]) \in Nat /\ DOMAIN rings[a] = 1..Len(rings[a])
        /\ \A i \in 1..Len(rings[a]) : rings[a][i] \in Points
  BY <1>1, SequenceElements
<1>3. Edges(z) = E
  BY Zenon DEF Edges
<1> HIDE DEF rings, n
<1>4. n \in Nat /\ \A a \in DOMAIN rings : Len(rings[a]) <= n
  <2> DEFINE S == {0} \cup lengths
  <2>1. IsFiniteSet(lengths)
    <3> DEFINE f == [r \in ToSet(rings) |-> Len(r)]
    <3>1. lengths = {f[r] : r \in ToSet(rings)}
      OBVIOUS
    <3> HIDE DEF f
    <3>2. QED
      BY <1>1, <3>1, ImageFinite
  <2>2. IsFiniteSet({0}) /\ IsFiniteSet(S)
    BY <2>1, FS_Singleton, FS_Union
  <2>3. \A r \in ToSet(rings) : Len(r) \in Nat
    BY <1>1
  <2>4. S \subseteq Nat /\ S \subseteq Int /\ S # {}
    BY <2>3
  <2>5. \A a \in DOMAIN rings : Len(rings[a]) \in S
    BY <1>1
  <2> HIDE DEF S
  <2>6. n \in S /\ \A y \in S : y <= n
    BY <2>2, <2>4, MaxProps DEF n, S
  <2>7. QED
    BY <2>4, <2>5, <2>6
<1>5. places = EdgePlaces(z)
  <2>1. ASSUME NEW k PROVE k \in places <=> k \in EdgePlaces(z)
    <3>1. k \in places <=> /\ k \in (DOMAIN rings) \X (1..n)
                           /\ Len(rings[k[1]]) >= 2 /\ k[2] <= Len(rings[k[1]])
      OBVIOUS
    <3>2. k \in EdgePlaces(z) <=> /\ k \in (DOMAIN rings) \X (Nat \ {0})
                                  /\ Len(rings[k[1]]) >= 2 /\ k[2] <= Len(rings[k[1]])
      BY DEF EdgePlaces, rings
    <3>3. (k \in (DOMAIN rings) \X (Nat \ {0}) /\ k[2] <= Len(rings[k[1]])) => k \in (DOMAIN rings) \X (1..n)
      BY <1>2, <1>4
    <3>4. k \in (DOMAIN rings) \X (1..n) => k \in (DOMAIN rings) \X (Nat \ {0})
      BY <1>4
    <3>5. QED
      BY <3>1, <3>2, <3>3, <3>4, Zenon
  <2>2. QED
    BY <2>1
<1>6. IsFiniteSet(EdgePlaces(z))
  <2>1. IsFiniteSet(DOMAIN rings) /\ IsFiniteSet(1..n)
    BY <1>1, <1>4, FS_Interval
  <2>2. IsFiniteSet((DOMAIN rings) \X (1..n))
    BY <2>1, FS_Product
  <2>3. places \subseteq (DOMAIN rings) \X (1..n)
    OBVIOUS
  <2>4. QED
    BY <1>5, <2>2, <2>3, FS_Subset
<1>7. ASSUME NEW k \in EdgePlaces(z)
      PROVE  /\ Edges(z)[k] = <<Vertex(z, k), Vertex(z, Previous(z, k))>>
             /\ Previous(z, k) \in EdgePlaces(z)
             /\ Vertex(z, k) \in Points
             /\ \E ring \in ToSet(Rings(z)) : Vertex(z, k) \in ToSet(ring)
  <2> DEFINE a == k[1]
             i == k[2]
             j == prev(a, i)
             len == Len(rings[a])
  <2>1. a \in DOMAIN rings /\ i \in Nat \ {0} /\ len >= 2 /\ i <= len /\ len \in Nat
    BY <1>2 DEF EdgePlaces, rings
  <2>2. Previous(z, k) = <<a, j>> /\ Vertex(z, k) = rings[a][i] /\ Vertex(z, Previous(z, k)) = rings[a][j]
    BY DEF Previous, Vertex, rings
  <2>3. Edges(z)[k] = <<rings[a][i], rings[a][j]>>
    <3>1. k \in places
      BY <1>5
    <3> HIDE DEF places, prev
    <3>2. E[k] = <<rings[k[1]][k[2]], rings[k[1]][prev(k[1], k[2])]>>
      BY <3>1
    <3>3. QED
      BY <1>3, <3>2, Zenon
  <2> HIDE DEF a, i, len
  <2>4. j \in Nat \ {0} /\ j <= len
    BY <2>1 DEF len
  <2>5. Previous(z, k) \in EdgePlaces(z)
    BY <2>1, <2>2, <2>4 DEF EdgePlaces, rings, len
  <2>6. rings[a][i] \in Points /\ rings[a][i] \in ToSet(rings[a]) /\ rings[a] \in ToSet(rings)
    <3>1. i \in 1..len
      BY <2>1
    <3>2. QED
      BY <1>1, <1>2, <2>1, <3>1 DEF len, ToSet
  <2> HIDE DEF j
  <2>7. QED
    BY <2>2, <2>3, <2>5, <2>6 DEF rings
<1> HIDE DEF E, places
<1>8. DOMAIN Edges(z) = EdgePlaces(z)
  <2>1. DOMAIN E = places
    BY DEF E
  <2>2. QED
    BY <1>3, <1>5, <2>1
<1>9. QED
  BY <1>6, <1>7, <1>8

\* The edges of a zone join points.
LEMMA EdgePoints ==
  ASSUME NEW z \in FiniteZones, NEW k \in DOMAIN Edges(z)
  PROVE  Edges(z)[k][1] \in Points /\ Edges(z)[k][2] \in Points
<1>1. k \in EdgePlaces(z) /\ Previous(z, k) \in EdgePlaces(z)
  BY EdgesProps
<1>2. QED
  BY <1>1, EdgesProps

\* Stretching both axes by whole factors moves no crossing.
LEMMA ScaledOrder ==
  ASSUME NEW k \in Nat \ {0}, NEW a \in Int, NEW b \in Int
  PROVE  a * k < b * k <=> a < b
<1>1. a < b => a * k < b * k
  <2>1. a < b => a + 1 <= b
    OBVIOUS
  <2>2. a + 1 <= b => (a + 1) * k <= b * k
    BY TimesMonotone
  <2>3. (a + 1) * k = a * k + k /\ a * k \in Int /\ b * k \in Int
    OBVIOUS
  <2> DEFINE p == a * k
             q == b * k
  <2> HIDE DEF p, q
  <2>4. a < b => p < q
    BY <2>1, <2>2, <2>3 DEF p, q
  <2>5. QED
    BY <2>4 DEF p, q
<1>2. b <= a => b * k <= a * k
  BY TimesMonotone
<1>3. a * k \in Int /\ b * k \in Int
  OBVIOUS
<1> DEFINE p == a * k
           q == b * k
<1> HIDE DEF p, q
<1>4. p < q <=> a < b
  BY <1>1, <1>2, <1>3 DEF p, q
<1>5. QED
  BY <1>4 DEF p, q

\* A fraction with both parts multiplied, and a side of the comparison in the
\* crossing test.
Stretched(x, k) == <<x[1] * k, x[2] * k>>
Side(x, y, p, d) == (x[1] - p * x[2]) * y[2] * d

LEMMA StretchedSide ==
  ASSUME NEW k \in Nat \ {0}, NEW h \in Nat \ {0}, NEW x \in Fractions, NEW y \in Fractions,
         NEW p \in Int, NEW d \in Int
  PROVE  /\ Side(x, y, p, d) \in Int
         /\ Side(Stretched(x, k), Stretched(y, h), p, d) = Side(x, y, p, d) * (k * h)
<1>1. x[1] \in Int /\ x[2] \in Int /\ y[2] \in Int
  BY DEF Fractions
<1>2. /\ (x[1] - p * x[2]) * y[2] * d \in Int
      /\ (x[1] * k - p * (x[2] * k)) * (y[2] * h) * d
           = ((x[1] - p * x[2]) * y[2] * d) * (k * h)
  BY <1>1
<1>3. Stretched(x, k)[1] = x[1] * k /\ Stretched(x, k)[2] = x[2] * k /\ Stretched(y, h)[2] = y[2] * h
  BY DEF Stretched
<1>4. QED
  BY <1>2, <1>3, Zenon DEF Side

LEMMA StretchedLess ==
  ASSUME NEW k \in Nat \ {0}, NEW y \in Fractions, NEW p \in Int
  PROVE  Less(Stretched(y, k), Frac(p)) = Less(y, Frac(p))
<1>1. y[1] \in Int /\ y[2] \in Int
  BY DEF Fractions
<1> DEFINE a == y[1]
           b == p * y[2]
<1>2. a \in Int /\ b \in Int
  BY <1>1
<1>3. Less(Stretched(y, k), Frac(p)) = ((y[1] * k) * 1 < p * (y[2] * k))
  BY DEF Less, Stretched, Frac
<1>4. Less(y, Frac(p)) = (y[1] * 1 < p * y[2])
  BY DEF Less, Frac
<1>5. (y[1] * k) * 1 = a * k /\ p * (y[2] * k) = b * k /\ y[1] * 1 = a
  BY <1>1
<1> HIDE DEF a, b
<1>6. (a * k < b * k) = (a < b)
  <2>1. a * k < b * k <=> a < b
    BY <1>2, ScaledOrder
  <2>2. a * k \in Int /\ b * k \in Int
    BY <1>2
  <2> DEFINE u == a * k
             v == b * k
  <2> HIDE DEF u, v
  <2>3. (u < v) = (a < b)
    BY <1>2, <2>1, <2>2 DEF u, v
  <2>4. QED
    BY <2>3 DEF u, v
<1>7. QED
  BY <1>3, <1>4, <1>5, <1>6, Zenon DEF b

LEMMA StretchedCrosses ==
  ASSUME NEW k \in Nat \ {0}, NEW h \in Nat \ {0}, NEW x \in Fractions, NEW y \in Fractions,
         NEW pi \in Points, NEW pj \in Points
  PROVE  Crosses(pi, pj, Stretched(x, k), Stretched(y, h)) <=> Crosses(pi, pj, x, y)
<1> DEFINE dx == pi[1] - pj[1]
           dy == pi[2] - pj[2]
           left(u, v) == Side(u, v, pj[1], dy)
           right(u, v) == Side(v, u, pj[2], dx)
           X == Stretched(x, k)
           Y == Stretched(y, h)
           n == k * h
<1>1. /\ pi[1] \in Int /\ pi[2] \in Int /\ pj[1] \in Int /\ pj[2] \in Int
      /\ dx \in Int /\ dy \in Int /\ n \in Nat \ {0} /\ h * k = n
  BY DEF Points
<1> HIDE DEF dx, dy
<1>2. left(x, y) \in Int /\ left(X, Y) = left(x, y) * (k * h)
  BY <1>1, StretchedSide
<1>3. right(x, y) \in Int /\ right(X, Y) = right(x, y) * (h * k)
  BY <1>1, StretchedSide
<1> HIDE DEF X, Y
<1>4. \A u, v : Crosses(pi, pj, u, v) <=>
        /\ Less(v, Frac(pi[2])) # Less(v, Frac(pj[2]))
        /\ IF dy > 0 THEN left(u, v) < right(u, v) ELSE right(u, v) < left(u, v)
  BY Zenon DEF Crosses, Side, dx, dy
<1> HIDE DEF left, right, n
<1>5. left(X, Y) = left(x, y) * n /\ right(X, Y) = right(x, y) * n
  BY <1>1, <1>2, <1>3, Zenon DEF n
<1>6. /\ left(X, Y) < right(X, Y) <=> left(x, y) < right(x, y)
      /\ right(X, Y) < left(X, Y) <=> right(x, y) < left(x, y)
  BY <1>1, <1>2, <1>3, <1>5, ScaledOrder
<1>7. /\ Less(Y, Frac(pi[2])) = Less(y, Frac(pi[2]))
      /\ Less(Y, Frac(pj[2])) = Less(y, Frac(pj[2]))
  BY <1>1, StretchedLess, Zenon DEF Y
<1>8. Crosses(pi, pj, X, Y) <=> Crosses(pi, pj, x, y)
  BY <1>4, <1>6, <1>7
<1>9. QED
  BY <1>8 DEF X, Y

LEMMA StretchedContains ==
  ASSUME NEW k \in Nat \ {0}, NEW h \in Nat \ {0}, NEW x \in Fractions, NEW y \in Fractions,
         NEW z \in FiniteZones
  PROVE  ZoneContains(z, Stretched(x, k), Stretched(y, h)) <=> ZoneContains(z, x, y)
<1> DEFINE e == Edges(z)
           crossed(u, v) == {i \in DOMAIN e : Crosses(e[i][1], e[i][2], u, v)}
           X == Stretched(x, k)
           Y == Stretched(y, h)
<1>1. ASSUME NEW i \in DOMAIN e
      PROVE  Crosses(e[i][1], e[i][2], X, Y) <=> Crosses(e[i][1], e[i][2], x, y)
  <2>1. e[i][1] \in Points /\ e[i][2] \in Points
    BY EdgePoints
  <2>2. QED
    BY <2>1, StretchedCrosses
<1> HIDE DEF e, X, Y
<1>2. crossed(X, Y) = crossed(x, y)
  BY <1>1
<1>3. \A u, v : ZoneContains(z, u, v) <=> Cardinality(crossed(u, v)) % 2 = 1
  BY Zenon DEF ZoneContains, e
<1> HIDE DEF crossed
<1>4. QED
  BY <1>2, <1>3 DEF X, Y

\* The even-odd test is the same with the georeference of the file and with
\* that of level 0.
LEMMA SameKeep ==
  ASSUME Metadata(meta), meta.georef # None, NEW z \in FiniteZones, NEW cr \in Raster(0)
  PROVE  KeepIn(z, meta.georef, cr[1], cr[2]) <=> KeepIn(z, G(0), cr[1], cr[2])
<1> DEFINE g == meta.georef
           c == cr[1]
           r == cr[2]
           W == Lv(0).image_width
           H == Lv(0).image_height
           p == Center(g, c, r)
           q == Center(G(0), c, r)
<1>0. 0 \in 0..(Len(meta.levels) - 1)
  BY DEF Metadata
<1>1. Level(Lv(0))
  BY <1>0, LevelProps
<1>2. c \in Int /\ r \in Int /\ W \in Nat \ {0} /\ H \in Nat \ {0}
  BY <1>1 DEF Level, Raster
<1>3. PICK px \in Nat \ {0}, py \in Nat \ {0} : g.pixel_x = <<px, 1>> /\ g.pixel_y = <<py, 1>>
  BY DEF Metadata, NorthUp
<1>4. /\ G(0).origin_x = g.origin_x /\ G(0).origin_y = g.origin_y
      /\ G(0).pixel_x = <<px * W, 1 * W>> /\ G(0).pixel_y = <<py * H, 1 * H>>
  BY <1>3 DEF Metadata, NorthUp, G, Lv, LevelGeoref
<1> DEFINE ox == g.origin_x
           oy == g.origin_y
<1>5. ox \in Int /\ oy \in Int
  BY DEF Metadata, NorthUp
<1> HIDE DEF ox, oy, c, r, W, H
<1>6. /\ p[1] = <<2 * ox * 1 + (2 * c + 1) * px, 2 * 1>>
      /\ p[2] = <<2 * oy * 1 - (2 * r + 1) * py, 2 * 1>>
  <2>1. p = <<<<2 * ox * 1 + (2 * c + 1) * px, 2 * 1>>, <<2 * oy * 1 - (2 * r + 1) * py, 2 * 1>>>>
    BY <1>3 DEF Center, ox, oy
  <2> HIDE DEF p
  <2>2. QED
    BY <2>1
<1>7. /\ q[1] = <<2 * ox * (1 * W) + (2 * c + 1) * (px * W), 2 * (1 * W)>>
      /\ q[2] = <<2 * oy * (1 * H) - (2 * r + 1) * (py * H), 2 * (1 * H)>>
  <2> DEFINE f == G(0)
             nx == px * W
             wx == 1 * W
             ny == py * H
             wy == 1 * H
  <2> HIDE DEF f, nx, wx, ny, wy
  <2>1. f.origin_x = ox /\ f.origin_y = oy /\ f.pixel_x = <<nx, wx>> /\ f.pixel_y = <<ny, wy>>
    BY <1>4, Zenon DEF f, ox, oy, nx, wx, ny, wy
  <2>2. f.pixel_x[1] = nx /\ f.pixel_x[2] = wx /\ f.pixel_y[1] = ny /\ f.pixel_y[2] = wy
    BY <2>1
  <2>3. q = <<<<2 * f.origin_x * f.pixel_x[2] + (2 * c + 1) * f.pixel_x[1], 2 * f.pixel_x[2]>>,
              <<2 * f.origin_y * f.pixel_y[2] - (2 * r + 1) * f.pixel_y[1], 2 * f.pixel_y[2]>>>>
    BY Zenon DEF Center, f
  <2>4. q = <<<<2 * ox * wx + (2 * c + 1) * nx, 2 * wx>>, <<2 * oy * wy - (2 * r + 1) * ny, 2 * wy>>>>
    BY <2>1, <2>2, <2>3, Zenon
  <2> HIDE DEF q
  <2>5. q[1] = <<2 * ox * wx + (2 * c + 1) * nx, 2 * wx>>
        /\ q[2] = <<2 * oy * wy - (2 * r + 1) * ny, 2 * wy>>
    BY <2>4
  <2>6. QED
    BY <2>5 DEF nx, wx, ny, wy
<1> HIDE DEF p, q
<1>8. p[1] \in Fractions /\ p[2] \in Fractions
  BY <1>2, <1>3, <1>5, <1>6 DEF Fractions
<1>9. q[1] = Stretched(p[1], W) /\ q[2] = Stretched(p[2], H)
  <2>1. /\ 2 * ox * (1 * W) + (2 * c + 1) * (px * W) = (2 * ox * 1 + (2 * c + 1) * px) * W
        /\ 2 * (1 * W) = (2 * 1) * W
    BY <1>2, <1>3, <1>5
  <2>2. /\ 2 * oy * (1 * H) - (2 * r + 1) * (py * H) = (2 * oy * 1 - (2 * r + 1) * py) * H
        /\ 2 * (1 * H) = (2 * 1) * H
    BY <1>2, <1>3, <1>5
  <2>3. QED
    BY <1>6, <1>7, <2>1, <2>2 DEF Stretched
<1>10. ZoneContains(z, q[1], q[2]) <=> ZoneContains(z, p[1], p[2])
  BY <1>2, <1>8, <1>9, StretchedContains
<1>11. /\ KeepIn(z, g, c, r) <=> ZoneContains(z, p[1], p[2])
       /\ KeepIn(z, G(0), c, r) <=> ZoneContains(z, q[1], q[2])
  BY Zenon DEF KeepIn, p, q
<1>12. QED
  BY <1>10, <1>11 DEF c, r

\* Where Mask looks for the pixel of a place.
LEMMA FlatDigits ==
  ASSUME NEW w \in IntBoxes, w[1] <= w[2], w[3] <= w[4], NEW cr \in Covered(w)
  PROVE  LET k == FlatIndex(w, cr)
             width == w[2] - w[1] + 1
         IN w[1] + (k % width) = cr[1] /\ w[3] + (k \div width) = cr[2]
<1> DEFINE k == FlatIndex(w, cr)
           width == w[2] - w[1] + 1
           height == w[4] - w[3] + 1
           y == cr[2] - w[3]
           z == cr[1] - w[1]
<1>1. w[1] \in Int /\ w[2] \in Int /\ w[3] \in Int /\ w[4] \in Int
  BY DEF IntBoxes
<1>2. cr[1] \in w[1]..w[2] /\ cr[2] \in w[3]..w[4]
  BY DEF Covered
<1>3. /\ height \in Nat /\ width \in Nat \ {0}
      /\ y \in 0..(height - 1) /\ z \in 0..(width - 1)
      /\ w[3] + y = cr[2] /\ w[1] + z = cr[1]
  BY <1>1, <1>2
<1>4. k = y * width + z
  BY Zenon DEF FlatIndex
<1> HIDE DEF k, width, height, y, z
<1>5. (y * width + z) \div width = y /\ (y * width + z) % width = z
  BY <1>3, TwoDigits
<1>6. QED
  BY <1>3, <1>4, <1>5, Zenon DEF k, width

\* The window of a zone with pixels: what band_window filled, masked.
LEMMA ZoneWindowLate ==
  ASSUME ReadInv, AnsweredLate, req.op = "band_window_polygon", "ok" \in DOMAIN answer
  PROVE  /\ LET order == Sorted(Centred(0, Box), YMajor) IN
              answer.ok.win =
                [k \in DOMAIN order |->
                   IF order[k] \in Kept(zones.ok[1], 0)
                   THEN ApplyNodata(PixelOf(0, order[k][1], order[k][2], req.band)) ELSE None]
         /\ \E win : win # <<>> /\ answer.ok.rect = WindowRect(Box, win)
<1> DEFINE w == WindowOf(Box)
           z == zones.ok[1]
           P == PixelsOf(Box)
           filled == FillWindow(Box, Arrays)
           order == Sorted(P, YMajor)
           value(cr) == ApplyNodata(PixelOf(0, cr[1], cr[2], req.band))
           width == w[2] - w[1] + 1
           place(k) == KeepIn(z, meta.georef, w[1] + ((k - 1) % width), w[3] + ((k - 1) \div width))
<1>1. Planned /\ answer = Finish(Arrays)
  BY DEF AnsweredLate
<1>2. Metadata(meta) /\ Box = Envelope(z)
  BY ReadingMeta DEF ReadInv, Box
<1>3. Windowed(Box) /\ Box # None
  BY <1>1, WindowPlan DEF ReadInv, Planned, WindowOps
<1>4. w \in IntBoxes /\ w[1] <= w[2] /\ w[3] <= w[4] /\ Covered(w) = P /\ w # None
      /\ meta.georef # None /\ P = Centred(0, Box)
  BY <1>3 DEF Windowed, Window, PixelsOf
<1>5. z \in FiniteZones /\ z # None
  <2>1. "err" \in DOMAIN zones => "tiles" \notin DOMAIN zones
    BY DEF ZonesOf, ReadInv, Reading
  <2>2. "err" \in DOMAIN zones => Plan = zones
    BY DEF Plan, BandWindowPolygon
  <2>3. "err" \notin DOMAIN zones
    BY <1>1, <2>1, <2>2 DEF Planned
  <2>4. z \in FiniteZones
    BY <2>3, ZonesProps DEF ReadInv
  <2>5. QED
    BY <2>4, ZoneSome
<1>6. filled = WindowFilled(Box, Arrays)
  BY Zenon DEF FillWindow, WindowFilled, WindowOf, CellsIn, CellSample, SlotValue, Slot, AnyOf
<1>7. answer = WindowAnswer(Box, filled, z)
  BY <1>1, <1>2, Zenon DEF Finish
<1>8. EnvelopeWindow(Box) = w
  <2>1. meta.levels # <<>>
    BY <1>2, <1>3 DEF Windowed, Metadata
  <2>2. QED
    BY <1>3, <1>4, <2>1 DEF EnvelopeWindow, WindowOf
<1> HIDE DEF filled, w, z, P
<1>9. /\ "err" \notin DOMAIN filled
      /\ answer.ok.win = Mask(z, w, filled.ok) /\ answer.ok.rect = WindowRect(Box, filled.ok)
  <2>1. "err" \notin DOMAIN filled
    BY <1>6, <1>7 DEF WindowAnswer, WindowFilled
  <2>2. answer = [ok |-> [win |-> IF z = None THEN filled.ok
                                  ELSE Mask(z, EnvelopeWindow(Box), filled.ok),
                          rect |-> WindowRect(Box, filled.ok)]]
    BY <1>7, <2>1, Zenon DEF WindowAnswer
  <2>3. QED
    BY <1>5, <1>8, <2>1, <2>2
<1>10. filled.ok = Shown(P) /\ filled.ok # <<>>
  <2>1. WindowFilled(Box, Arrays) = [ok |-> filled.ok]
    BY <1>6, <1>9 DEF WindowFilled
  <2>2. QED
    BY <1>1, <2>1, WindowWin DEF WindowOps, P
<1>11. /\ P \subseteq Tiles /\ IsFiniteSet(P)
       /\ \A cr \in P : Rank(YPairs, P, cr) = FlatIndex(w, cr)
  BY <1>4, WindowRank
<1>12. ByRank(order, YPairs, P)
  BY <1>11, SortedY
<1> HIDE DEF order
<1>13. \A k \in DOMAIN order : order[k] \in P /\ FlatIndex(w, order[k]) = k - 1
  BY <1>11, <1>12 DEF ByRank
<1>14. Shown(P) = [k \in DOMAIN order |-> IF order[k] \in P THEN value(order[k]) ELSE None]
  BY Zenon DEF Shown, order
<1>15. answer.ok.win = [k \in DOMAIN order |-> IF place(k) THEN value(order[k]) ELSE None]
  <2> DEFINE win == Shown(P)
  <2>1. DOMAIN win = DOMAIN order
    BY <1>14
  <2>2. \A k \in DOMAIN order : win[k] = value(order[k])
    <3> HIDE DEF value
    <3>1. QED
      BY <1>13, <1>14
  <2> HIDE DEF win, value, order
  <2>3. answer.ok.win = [k \in DOMAIN win |-> IF place(k) THEN win[k] ELSE None]
    BY <1>9, <1>10, Zenon DEF Mask, win
  <2> HIDE DEF place
  <2>4. QED
    BY <2>1, <2>2, <2>3
<1>16. ASSUME NEW k \in DOMAIN order PROVE place(k) <=> order[k] \in Kept(z, 0)
  <2> DEFINE cr == order[k]
  <2>1. cr \in P /\ cr \in Covered(w) /\ cr \in Raster(0)
    BY <1>4, <1>13 DEF Centred
  <2> HIDE DEF cr
  <2>2. w[1] + ((k - 1) % width) = cr[1] /\ w[3] + ((k - 1) \div width) = cr[2]
    <3>1. LET j == FlatIndex(w, cr)
              n == w[2] - w[1] + 1
          IN w[1] + (j % n) = cr[1] /\ w[3] + (j \div n) = cr[2]
      BY <1>4, <2>1, FlatDigits
    <3>2. FlatIndex(w, cr) = k - 1
      BY <1>13 DEF cr
    <3>3. QED
      BY <3>1, <3>2, Zenon
  <2>3. place(k) <=> KeepIn(z, meta.georef, cr[1], cr[2])
    BY <2>2, Zenon
  <2>4. KeepIn(z, meta.georef, cr[1], cr[2]) <=> KeepIn(z, G(0), cr[1], cr[2])
    BY <1>2, <1>4, <1>5, <2>1, SameKeep
  <2>5. cr \in Kept(z, 0) <=> KeepIn(z, G(0), cr[1], cr[2])
    <3>1. Envelope(z) # None /\ cr \in Centred(0, Envelope(z))
      BY <1>2, <1>3, <1>4, <2>1 DEF z
    <3> DEFINE in(q) == KeepIn(z, G(0), q[1], q[2])
    <3>2. Kept(z, 0) = {q \in Centred(0, Envelope(z)) : in(q)}
      BY <3>1, Zenon DEF Kept
    <3> HIDE DEF in
    <3>3. cr \in Kept(z, 0) <=> in(cr)
      BY <3>1, <3>2
    <3>4. QED
      BY <3>3 DEF in
  <2>6. QED
    BY <2>3, <2>4, <2>5 DEF cr
<1> HIDE DEF place, value
<1>17. answer.ok.win = [k \in DOMAIN order |-> IF order[k] \in Kept(z, 0) THEN value(order[k]) ELSE None]
  BY <1>15, <1>16
<1>18. QED
  BY <1>4, <1>9, <1>10, <1>17, Zenon DEF order, value, z

\* The window of a zone that answers at once.
LEMMA ZoneWindowEarly ==
  ASSUME ReadInv, AnsweredEarly, req.op = "band_window_polygon", "ok" \in DOMAIN answer,
         answer.ok # None
  PROVE  answer.ok = NoWindow(Box) /\ (Box # None => Centred(0, Box) = {})
<1>1. Metadata(meta) /\ Box = Envelope(zones.ok[1])
  BY ReadingMeta DEF ReadInv, Box
<1>2. answer = BandWindowPolygon /\ "tiles" \notin DOMAIN answer
  BY DEF AnsweredEarly, Plan
<1>3. "err" \notin DOMAIN zones
  <2>1. "err" \in DOMAIN zones => "ok" \notin DOMAIN zones
    BY DEF ZonesOf, ReadInv, Reading
  <2>2. QED
    BY <1>2, <2>1 DEF BandWindowPolygon
<1>4. CASE Box = None
  <2>1. answer \in {[ok |-> None], [ok |-> NoWindow(None)]}
    BY <1>1, <1>2, <1>3, <1>4 DEF BandWindowPolygon
  <2>2. QED
    BY <1>4, <2>1
<1>5. CASE Box # None
  <2>1. answer = BandWindowOver(Box)
    BY <1>1, <1>2, <1>3, <1>5 DEF BandWindowPolygon
  <2>2. Box \in Corners \cup {None}
    <3>1. zones.ok[1] \in FiniteZones
      BY <1>3, ZonesProps DEF ReadInv
    <3>2. Box \in IntBoxes
      BY <1>1, <1>5, <3>1, ZoneSome
    <3>3. QED
      BY <3>2 DEF IntBoxes, Corners, Coordinates
  <2>3. answer.ok = NoWindow(Box) /\ PixelsOf(Box) = {}
    BY <1>1, <1>2, <2>1, <2>2, OverEarly
  <2>4. QED
    BY <1>5, <2>3 DEF PixelsOf
<1>6. QED
  BY <1>4, <1>5

\* A zone has the same pixels in every call: alone, in a batch whatever the other
\* zones, and in a window.
THEOREM ReadZonesAgree == Spec => []ZonesAgree
<1>1. ReadInv => ZonesAgree
  <2> SUFFICES ASSUME ReadInv PROVE ZonesAgree
    OBVIOUS
  <2> DEFINE l == LevelFor(Box)
             alone == Kept(zones.ok[1], 0)
             order == Sorted(Centred(0, Box), YMajor)
             shown == [k \in DOMAIN order |->
                         IF order[k] \in alone
                         THEN ApplyNodata(PixelOf(0, order[k][1], order[k][2], req.band)) ELSE None]
  <2>1. Answered({"zonal"}) => answer.ok = StatsOf(l, Kept(zones.ok[1], l))
    BY ZoneAnswer DEF Answered
  <2>2. Answered({"zonal_zones"}) =>
          answer.ok = [k \in DOMAIN zones.ok |-> StatsOf(l, Kept(zones.ok[k], l))]
    BY BatchAnswer DEF Answered
  <2>3. ASSUME Answered({"band_window_polygon"}), answer.ok # None, Box # None
        PROVE  answer.ok.win = shown
    <3>1. pc = "done" /\ req.op = "band_window_polygon" /\ "ok" \in DOMAIN answer
      BY <2>3 DEF Answered
    <3>2. CASE AnsweredLate
      BY <3>1, <3>2, ZoneWindowLate, Zenon
    <3>3. CASE AnsweredEarly
      <4>1. answer.ok.win = <<>> /\ Centred(0, Box) = {}
        BY <2>3, <3>1, <3>3, ZoneWindowEarly DEF NoWindow
      <4>2. Cardinality({}) = 0
        BY FS_EmptySet
      <4>3. DOMAIN order = 1..0
        BY <4>1, <4>2, Zenon DEF Sorted
      <4>4. DOMAIN order = {}
        BY <4>3
      <4> HIDE DEF order, alone
      <4>5. shown = [k \in {} |-> None]
        BY <4>4
      <4>6. QED
        BY <4>1, <4>5
    <3>4. QED
      BY <3>1, <3>2, <3>3 DEF ReadInv
  <2>4. QED
    BY <2>1, <2>2, <2>3, Zenon DEF ZonesAgree
<1>2. QED
  BY <1>1, ReadInvariant, PTL DEF Spec

(***************************************************************************)
(* The even-odd rule: off the edges the parity of a ray does not depend on   *)
(* its direction.  An edge crosses one of the rays to the right and upwards  *)
(* just when one of its ends lies beyond both, and round a ring as many      *)
(* edges begin there as end there.                                           *)
(*                                                                         *)
(* For the edge from pj to pi and the position p, in units that make whole   *)
(* numbers of them: a = p.x - pj.x, e = pi.x - pj.x, b = p.y - pj.y and      *)
(* d = pi.y - pj.y.                                                          *)
(***************************************************************************)

\* One end is beyond the position on an axis and the other is not; the edge
\* passes the position on the far side of the other axis.
Turns(a, e) == ~(a < e <=> a < 0)
Passes(a, e, b, d) == IF e > 0 THEN b * e < a * d ELSE a * d < b * e

\* The edge lies beyond on one axis, or not beyond.
LEMMA OneSided ==
  ASSUME NEW a \in Int, NEW e \in Int, NEW b \in Int, NEW d \in Int, b < d <=> b < 0
  PROVE  Turns(a, e) /\ Passes(a, e, b, d) <=> Turns(a, e) /\ b < 0
<1> DEFINE p == b * e
           q == a * d
           m == a * b
<1>1. p \in Int /\ q \in Int /\ m \in Int /\ p = e * b /\ m = b * a /\ q = d * a
  OBVIOUS
<1>2. CASE a < e /\ a >= 0
  <2>1. CASE b < 0
    <3>1. b <= d /\ a \in Nat
      BY <1>2, <2>1
    <3>2. b * a <= d * a
      <4>1. CASE a = 0
        BY <4>1
      <4>2. CASE a # 0
        <5>1. a \in Nat \ {0}
          BY <3>1, <4>2
        <5>2. QED
          BY <3>1, <5>1, TimesMonotone
      <4>3. QED
        BY <4>1, <4>2
    <3>3. e * b < a * b
      <4>1. -b \in Nat \ {0}
        BY <2>1
      <4>2. a * (-b) < e * (-b)
        BY <1>2, <4>1, ScaledOrder
      <4>3. a * (-b) = -m /\ e * (-b) = -p
        OBVIOUS
      <4> HIDE DEF m, p
      <4>4. p < m
        BY <1>1, <4>2, <4>3
      <4>5. QED
        BY <1>1, <4>4 DEF m
    <3> HIDE DEF m, p, q
    <3>4. p < q
      BY <1>1, <3>2, <3>3 DEF m
    <3>5. QED
      BY <1>2, <2>1, <3>4 DEF Turns, Passes, p, q
  <2>2. CASE b >= 0
    <3>1. d <= b /\ a \in Nat
      BY <1>2, <2>2
    <3>2. d * a <= b * a
      <4>1. CASE a = 0
        BY <4>1
      <4>2. CASE a # 0
        <5>1. a \in Nat \ {0}
          BY <3>1, <4>2
        <5>2. QED
          BY <3>1, <5>1, TimesMonotone
      <4>3. QED
        BY <4>1, <4>2
    <3>3. a * b <= e * b
      <4>1. CASE b = 0
        BY <4>1
      <4>2. CASE b # 0
        <5>1. b \in Nat \ {0} /\ a <= e
          BY <1>2, <2>2, <4>2
        <5>2. QED
          BY <5>1, TimesMonotone
      <4>3. QED
        BY <4>1, <4>2
    <3> HIDE DEF m, p, q
    <3>4. q <= p
      BY <1>1, <3>2, <3>3 DEF m
    <3>5. QED
      BY <1>1, <1>2, <2>2, <3>4 DEF Turns, Passes, p, q
  <2>3. QED
    BY <2>1, <2>2
<1>3. CASE a >= e /\ a < 0
  <2> DEFINE n == -a
  <2>1. n \in Nat \ {0} /\ b * n = -m /\ d * n = -q
    BY <1>3
  <2>2. CASE b < 0
    <3>1. b * n < d * n
      BY <2>1, <2>2, ScaledOrder
    <3>2. m <= p
      <4>1. -b \in Nat \ {0} /\ e <= a
        BY <1>3, <2>2
      <4>2. e * (-b) <= a * (-b)
        BY <4>1, TimesMonotone
      <4>3. a * (-b) = -m /\ e * (-b) = -p
        OBVIOUS
      <4> HIDE DEF m, p
      <4>4. QED
        BY <1>1, <4>2, <4>3
    <3> HIDE DEF m, p, q, n
    <3>3. q < p
      BY <1>1, <2>1, <3>1, <3>2
    <3>4. ~(e > 0)
      BY <1>3
    <3>5. QED
      BY <1>3, <2>2, <3>3, <3>4 DEF Turns, Passes, p, q
  <2>3. CASE b >= 0
    <3>1. d * n <= b * n
      <4>1. d <= b
        BY <2>3
      <4>2. QED
        BY <2>1, <4>1, TimesMonotone
    <3>2. e * b <= a * b
      <4>1. CASE b = 0
        BY <4>1
      <4>2. CASE b # 0
        <5>1. b \in Nat \ {0} /\ e <= a
          BY <1>3, <2>3, <4>2
        <5>2. QED
          BY <5>1, TimesMonotone
      <4>3. QED
        BY <4>1, <4>2
    <3> HIDE DEF m, p, q, n
    <3>3. p <= q
      BY <1>1, <2>1, <3>1, <3>2 DEF m
    <3>4. ~(e > 0)
      BY <1>3
    <3>5. QED
      BY <1>1, <1>3, <2>3, <3>3, <3>4 DEF Turns, Passes, p, q
  <2>4. QED
    BY <2>2, <2>3
<1>4. CASE ~Turns(a, e)
  BY <1>4
<1>5. QED
  BY <1>2, <1>3, <1>4 DEF Turns

\* What the two rays see of an edge that does not pass through the position.
LEMMA OneEdge ==
  ASSUME NEW a \in Int, NEW e \in Int, NEW b \in Int, NEW d \in Int,
         Turns(a, e) /\ Turns(b, d) => a * d # b * e
  PROVE  LET right == Turns(b, d) /\ Passes(b, d, a, e)
             up == Turns(a, e) /\ Passes(a, e, b, d)
         IN ~(right <=> up) <=> ~(a < e /\ b < d <=> a < 0 /\ b < 0)
<1>1. CASE ~Turns(b, d)
  <2>1. b < d <=> b < 0
    BY <1>1 DEF Turns
  <2>2. Turns(a, e) /\ Passes(a, e, b, d) <=> Turns(a, e) /\ b < 0
    BY <2>1, OneSided
  <2>3. Turns(a, e) /\ b < 0 <=> ~(a < e /\ b < d <=> a < 0 /\ b < 0)
    BY <2>1 DEF Turns
  <2>4. QED
    BY <1>1, <2>2, <2>3, Zenon
<1>2. CASE ~Turns(a, e)
  <2>1. a < e <=> a < 0
    BY <1>2 DEF Turns
  <2>2. Turns(b, d) /\ Passes(b, d, a, e) <=> Turns(b, d) /\ a < 0
    BY <2>1, OneSided
  <2>3. Turns(b, d) /\ a < 0 <=> ~(a < e /\ b < d <=> a < 0 /\ b < 0)
    BY <2>1 DEF Turns
  <2>4. QED
    BY <1>2, <2>2, <2>3, Zenon
<1>3. CASE Turns(a, e) /\ Turns(b, d)
  <2> DEFINE p == b * e
             q == a * d
  <2>1. p \in Int /\ q \in Int /\ p # q
    BY <1>3
  <2>2. /\ Passes(a, e, b, d) <=> IF e > 0 THEN p < q ELSE q < p
        /\ Passes(b, d, a, e) <=> IF d > 0 THEN q < p ELSE p < q
    BY DEF Passes
  <2> HIDE DEF p, q
  <2>3. (e > 0 <=> a < e) /\ (d > 0 <=> b < d)
    BY <1>3 DEF Turns
  <2>4. (a < e <=> ~(a < 0)) /\ (b < d <=> ~(b < 0))
    BY <1>3 DEF Turns
  <2>5. Passes(b, d, a, e) <=> ~(Passes(a, e, b, d) <=> (e > 0 <=> d > 0))
    BY <2>1, <2>2
  <2>6. QED
    BY <1>3, <2>3, <2>4, <2>5, Zenon
<1>4. QED
  BY <1>1, <1>2, <1>3

\* The position against the two ends of an edge on an axis: how far it is past v
\* and how far u is.
From(x, v) == x[1] - v * x[2]
Span(x, u, v) == x[2] * (u - v)
Positions == Int \X (Nat \ {0})

LEMMA AxisTurns ==
  ASSUME NEW x \in Positions, NEW u \in Int, NEW v \in Int
  PROVE  /\ From(x, v) \in Int /\ Span(x, u, v) \in Int
         /\ Less(x, Frac(v)) = (From(x, v) < 0)
         /\ Less(x, Frac(u)) = (From(x, v) < Span(x, u, v))
         /\ Span(x, u, v) > 0 <=> u - v > 0
<1> DEFINE n == x[1]
           w == x[2]
           p == v * w
           q == u * w
<1>1. n \in Int /\ w \in Nat \ {0}
  BY DEF Positions
<1>2. p \in Int /\ q \in Int /\ w * (u - v) = q - p /\ n * 1 = n
  BY <1>1
<1>3. p < q <=> v < u
  BY <1>1, ScaledOrder
<1>4. /\ Less(x, Frac(v)) = (n * 1 < p)
      /\ Less(x, Frac(u)) = (n * 1 < q)
      /\ From(x, v) = n - p /\ Span(x, u, v) = w * (u - v)
  BY DEF Less, Frac, From, Span
<1> HIDE DEF n, w, p, q
<1>5. /\ (n < p) = (n - p < 0) /\ (n < q) = (n - p < q - p)
      /\ n - p \in Int /\ q - p \in Int /\ (q - p > 0 <=> u - v > 0)
  BY <1>1, <1>2, <1>3
<1>6. QED
  BY <1>2, <1>4, <1>5

LEMMA CrossesTurn ==
  ASSUME NEW x \in Positions, NEW y \in Positions, NEW pi \in Points, NEW pj \in Points
  PROVE  LET a == From(x, pj[1])
             e == Span(x, pi[1], pj[1])
             b == From(y, pj[2])
             d == Span(y, pi[2], pj[2])
         IN Crosses(pi, pj, x, y) <=> Turns(b, d) /\ Passes(b, d, a, e)
<1> DEFINE a == From(x, pj[1])
           e == Span(x, pi[1], pj[1])
           b == From(y, pj[2])
           d == Span(y, pi[2], pj[2])
           dx == pi[1] - pj[1]
           dy == pi[2] - pj[2]
           left == a * y[2] * dy
           right == b * x[2] * dx
<1>1. /\ pi[1] \in Int /\ pi[2] \in Int /\ pj[1] \in Int /\ pj[2] \in Int
      /\ x[2] \in Int /\ y[2] \in Int
  BY DEF Points, Positions
<1>2. /\ a \in Int /\ b \in Int /\ d \in Int /\ e \in Int
      /\ Less(y, Frac(pj[2])) = (b < 0) /\ Less(y, Frac(pi[2])) = (b < d)
      /\ d > 0 <=> dy > 0
  BY <1>1, AxisTurns
<1>3. left = a * d /\ right = b * e
  <2>1. d = y[2] * dy /\ e = x[2] * dx
    BY DEF Span
  <2> HIDE DEF a, b, d, e
  <2>2. dx \in Int /\ dy \in Int
    BY <1>1
  <2> HIDE DEF dx, dy
  <2>3. a * y[2] * dy = a * (y[2] * dy) /\ b * x[2] * dx = b * (x[2] * dx)
    BY <1>1, <1>2, <2>2
  <2>4. QED
    BY <2>1, <2>3, Zenon
<1>4. Crosses(pi, pj, x, y) <=> /\ Less(y, Frac(pi[2])) # Less(y, Frac(pj[2]))
                                /\ IF dy > 0 THEN left < right ELSE right < left
  BY Zenon DEF Crosses, From
<1> HIDE DEF a, b, d, e, dx, dy, left, right
<1>5. Less(y, Frac(pi[2])) # Less(y, Frac(pj[2])) <=> Turns(b, d)
  BY <1>2 DEF Turns
<1>6. (IF dy > 0 THEN left < right ELSE right < left) <=> Passes(b, d, a, e)
  <2>1. Passes(b, d, a, e) <=> IF d > 0 THEN a * d < b * e ELSE b * e < a * d
    BY DEF Passes
  <2>2. QED
    BY <1>2, <1>3, <2>1, Zenon
<1>7. Crosses(pi, pj, x, y) <=> Turns(b, d) /\ Passes(b, d, a, e)
  BY <1>4, <1>5, <1>6, Zenon
<1>8. QED
  BY <1>7 DEF a, b, d, e

\* An end of an edge beyond the position on both axes.
Beyond(p, v) == Less(p[1], Frac(v[1])) /\ Less(p[2], Frac(v[2]))

\* The position on an edge.
OnSegment(p, pi, pj) ==
  /\ (p[1][1] - pj[1] * p[1][2]) * p[2][2] * (pi[2] - pj[2])
       = (p[2][1] - pj[2] * p[2][2]) * p[1][2] * (pi[1] - pj[1])
  /\ \A k \in 1..2 : /\ Leq(Frac(Min({pi[k], pj[k]})), p[k])
                     /\ Leq(p[k], Frac(Max({pi[k], pj[k]})))

\* Between the ends of an edge on an axis.
LEMMA AxisBetween ==
  ASSUME NEW x \in Positions, NEW u \in Int, NEW v \in Int,
         Turns(From(x, v), Span(x, u, v))
  PROVE  Leq(Frac(Min({u, v})), x) /\ Leq(x, Frac(Max({u, v})))
<1> DEFINE n == x[1]
           w == x[2]
           p == v * w
           q == u * w
<1>1. n \in Int /\ w \in Nat \ {0} /\ p \in Int /\ q \in Int
  BY DEF Positions
<1>2. p < q <=> v < u
  BY <1>1, ScaledOrder
<1>3. /\ Less(x, Frac(v)) = (n * 1 < p) /\ Less(x, Frac(u)) = (n * 1 < q)
      /\ \A m : /\ Leq(Frac(m), x) <=> m * w <= n * 1
                /\ Leq(x, Frac(m)) <=> n * 1 <= m * w
  BY DEF Less, Leq, Frac
<1>4. ~(Less(x, Frac(u)) <=> Less(x, Frac(v)))
  BY AxisTurns, Zenon DEF Turns
<1>5. /\ Min({u, v}) = (IF u <= v THEN u ELSE v)
      /\ Max({u, v}) = (IF u >= v THEN u ELSE v)
  BY MinOfTwo, MaxOfTwo
<1>6. n * 1 = n
  BY <1>1
<1>7. CASE u <= v
  <2>1. /\ Leq(Frac(Min({u, v})), x) <=> q <= n
        /\ Leq(x, Frac(Max({u, v}))) <=> n <= p
    <3>1. Min({u, v}) = u /\ Max({u, v}) = v
      BY <1>5, <1>7
    <3>2. QED
      BY <1>3, <1>6, <3>1, Zenon
  <2> HIDE DEF n, w, p, q
  <2>2. q <= n /\ n <= p
    BY <1>1, <1>2, <1>3, <1>4, <1>6, <1>7
  <2>3. QED
    BY <2>1, <2>2
<1>8. CASE v < u
  <2>1. /\ Leq(Frac(Min({u, v})), x) <=> p <= n
        /\ Leq(x, Frac(Max({u, v}))) <=> n <= q
    <3>1. Min({u, v}) = v /\ Max({u, v}) = u
      BY <1>5, <1>8
    <3>2. QED
      BY <1>3, <1>6, <3>1, Zenon
  <2> HIDE DEF n, w, p, q
  <2>2. p <= n /\ n <= q
    BY <1>1, <1>2, <1>3, <1>4, <1>6, <1>8
  <2>3. QED
    BY <2>1, <2>2
<1>9. QED
  BY <1>7, <1>8

\* Of an edge that the position is not on, one ray sees what the other does not
\* just when one end is beyond the position and the other is not.
LEMMA EdgeRays ==
  ASSUME NEW p \in Positions \X Positions, NEW pi \in Points, NEW pj \in Points,
         ~OnSegment(p, pi, pj)
  PROVE  LET swap(q) == <<q[2], q[1]>>
             right == Crosses(pi, pj, p[1], p[2])
             up == Crosses(swap(pi), swap(pj), p[2], p[1])
         IN ~(right <=> up) <=> ~(Beyond(p, pi) <=> Beyond(p, pj))
<1> DEFINE x == p[1]
           y == p[2]
           a == From(x, pj[1])
           e == Span(x, pi[1], pj[1])
           b == From(y, pj[2])
           d == Span(y, pi[2], pj[2])
           si == <<pi[2], pi[1]>>
           sj == <<pj[2], pj[1]>>
<1>1. /\ x \in Positions /\ y \in Positions
      /\ pi[1] \in Int /\ pi[2] \in Int /\ pj[1] \in Int /\ pj[2] \in Int
      /\ si \in Points /\ sj \in Points
  BY DEF Points
<1>2. Crosses(pi, pj, x, y) <=> Turns(b, d) /\ Passes(b, d, a, e)
  BY <1>1, CrossesTurn
<1>3. Crosses(si, sj, y, x) <=> Turns(a, e) /\ Passes(a, e, b, d)
  <2> DEFINE A == From(y, sj[1])
             E == Span(y, si[1], sj[1])
             B == From(x, sj[2])
             D == Span(x, si[2], sj[2])
  <2>1. Crosses(si, sj, y, x) <=> Turns(B, D) /\ Passes(B, D, A, E)
    BY <1>1, CrossesTurn
  <2>2. A = b /\ E = d /\ B = a /\ D = e
    OBVIOUS
  <2> HIDE DEF A, B, D, E, a, b, d, e
  <2>3. QED
    BY <2>1, <2>2
<1>4. /\ a \in Int /\ b \in Int /\ d \in Int /\ e \in Int
      /\ Less(x, Frac(pj[1])) = (a < 0) /\ Less(x, Frac(pi[1])) = (a < e)
      /\ Less(y, Frac(pj[2])) = (b < 0) /\ Less(y, Frac(pi[2])) = (b < d)
  BY <1>1, AxisTurns
<1>5. Turns(a, e) /\ Turns(b, d) => a * d # b * e
  <2> SUFFICES ASSUME Turns(a, e), Turns(b, d), a * d = b * e PROVE FALSE
    OBVIOUS
  <2>1. /\ Leq(Frac(Min({pi[1], pj[1]})), x) /\ Leq(x, Frac(Max({pi[1], pj[1]})))
        /\ Leq(Frac(Min({pi[2], pj[2]})), y) /\ Leq(y, Frac(Max({pi[2], pj[2]})))
    BY <1>1, AxisBetween
  <2>2. \A k \in 1..2 : /\ Leq(Frac(Min({pi[k], pj[k]})), p[k])
                        /\ Leq(p[k], Frac(Max({pi[k], pj[k]})))
    <3>1. \A k \in 1..2 : k = 1 \/ k = 2
      OBVIOUS
    <3>2. QED
      BY <2>1, <3>1, Zenon
  <2>3. a * y[2] * (pi[2] - pj[2]) = b * x[2] * (pi[1] - pj[1])
    <3> DEFINE dx == pi[1] - pj[1]
               dy == pi[2] - pj[2]
    <3>1. dx \in Int /\ dy \in Int /\ x[2] \in Int /\ y[2] \in Int
      BY <1>1 DEF Positions
    <3>2. d = y[2] * dy /\ e = x[2] * dx
      BY DEF Span
    <3> HIDE DEF dx, dy, a, b, d, e
    <3>3. a * y[2] * dy = a * (y[2] * dy) /\ b * x[2] * dx = b * (x[2] * dx)
      BY <1>4, <3>1
    <3>4. a * y[2] * dy = b * x[2] * dx
      BY <3>2, <3>3, Zenon
    <3>5. QED
      BY <3>4 DEF dx, dy
  <2>4. OnSegment(p, pi, pj)
    BY <2>2, <2>3, Zenon DEF OnSegment, From
  <2>5. QED
    BY <2>4
<1> HIDE DEF a, b, d, e
<1>6. ~((Turns(b, d) /\ Passes(b, d, a, e)) <=> (Turns(a, e) /\ Passes(a, e, b, d)))
        <=> ~(a < e /\ b < d <=> a < 0 /\ b < 0)
  BY <1>4, <1>5, OneEdge
<1>7. (Beyond(p, pi) <=> a < e /\ b < d) /\ (Beyond(p, pj) <=> a < 0 /\ b < 0)
  BY <1>4 DEF Beyond
<1>8. ~(Crosses(pi, pj, x, y) <=> Crosses(si, sj, y, x)) <=> ~(Beyond(p, pi) <=> Beyond(p, pj))
  BY <1>2, <1>3, <1>6, <1>7, Zenon
<1>9. QED
  BY <1>8, Zenon

\* Two subsets of a finite set that differ where two of the same size do have
\* the same parity.
LEMMA SameParity ==
  ASSUME NEW K, IsFiniteSet(K), NEW X, X \subseteq K, NEW Y, Y \subseteq K,
         NEW T, T \subseteq K, NEW U, U \subseteq K, Cardinality(T) = Cardinality(U),
         \A k \in K : ~(k \in X <=> k \in Y) <=> ~(k \in T <=> k \in U)
  PROVE  Cardinality(X) % 2 = Cardinality(Y) % 2
<1>1. IsFiniteSet(X) /\ IsFiniteSet(Y) /\ IsFiniteSet(T) /\ IsFiniteSet(U)
  BY FS_Subset
<1>2. ASSUME NEW A, NEW B, IsFiniteSet(A), IsFiniteSet(B)
      PROVE  /\ Cardinality(A) \in Nat /\ Cardinality(B) \in Nat /\ Cardinality(A \cap B) \in Nat
             /\ Cardinality((A \ B) \cup (B \ A))
                  = Cardinality(A) + Cardinality(B) - 2 * Cardinality(A \cap B)
  <2> DEFINE a == Cardinality(A)
             b == Cardinality(B)
             c == Cardinality(A \cap B)
             C == A \ B
             D == B \ A
  <2>1. a \in Nat /\ b \in Nat
    BY <1>2, FS_CardinalityType
  <2>2. IsFiniteSet(A \cap B) /\ c \in Nat
    <3>1. IsFiniteSet(A \cap B)
      BY <1>2, FS_Subset
    <3>2. QED
      BY <3>1, FS_CardinalityType
  <2>3. IsFiniteSet(C) /\ Cardinality(C) = a - c
    BY <1>2, FS_Difference
  <2>4. IsFiniteSet(D) /\ Cardinality(D) = b - c
    <3>1. B \cap A = A \cap B
      OBVIOUS
    <3>2. IsFiniteSet(D) /\ Cardinality(D) = b - Cardinality(B \cap A)
      BY <1>2, FS_Difference
    <3>3. QED
      BY <3>1, <3>2
  <2>5. Cardinality(C \cap D) = 0
    <3>1. C \cap D = {}
      OBVIOUS
    <3>2. QED
      BY <3>1, FS_EmptySet
  <2> HIDE DEF a, b, c, C, D
  <2>6. Cardinality(C \cup D) = Cardinality(C) + Cardinality(D) - Cardinality(C \cap D)
    BY <2>3, <2>4, FS_Union
  <2>7. Cardinality(C \cup D) = a + b - 2 * c
    BY <2>1, <2>2, <2>3, <2>4, <2>5, <2>6
  <2>8. QED
    BY <2>1, <2>2, <2>7 DEF a, b, c, C, D
<1>3. (X \ Y) \cup (Y \ X) = (T \ U) \cup (U \ T)
  OBVIOUS
<1> DEFINE x == Cardinality(X)
           y == Cardinality(Y)
           t == Cardinality(T)
           u == Cardinality(U)
           m == Cardinality(X \cap Y)
           n == Cardinality(T \cap U)
<1>4. /\ x \in Nat /\ y \in Nat /\ m \in Nat /\ t \in Nat /\ n \in Nat
      /\ x + y - 2 * m = t + u - 2 * n /\ t = u
  <2>1. /\ x \in Nat /\ y \in Nat /\ m \in Nat
        /\ Cardinality((X \ Y) \cup (Y \ X)) = x + y - 2 * m
    BY <1>1, <1>2, Zenon
  <2>2. /\ t \in Nat /\ u \in Nat /\ n \in Nat
        /\ Cardinality((T \ U) \cup (U \ T)) = t + u - 2 * n
    BY <1>1, <1>2, Zenon
  <2>3. t = u
    OBVIOUS
  <2>4. QED
    BY <1>3, <2>1, <2>2, <2>3, Zenon
<1> HIDE DEF x, y, t, u, m, n
<1>5. x % 2 = y % 2
  BY <1>4
<1>6. QED
  BY <1>5 DEF x, y

\* Round the rings of a zone as many edges lead to a set of points as lead from
\* it.
LEMMA AsManyEnds ==
  ASSUME NEW z \in FiniteZones, NEW S
  PROVE  Cardinality({k \in EdgePlaces(z) : Vertex(z, k) \in S})
           = Cardinality({k \in EdgePlaces(z) : Vertex(z, Previous(z, k)) \in S})
<1> DEFINE K == EdgePlaces(z)
           T == {k \in K : Vertex(z, k) \in S}
           U == {k \in K : Vertex(z, Previous(z, k)) \in S}
           f == [k \in K |-> Previous(z, k)]
           len(k) == Len(Rings(z)[k[1]])
<1>1. /\ IsFiniteSet(K) /\ \A k \in K : Previous(z, k) \in K
      /\ \A k \in K : /\ k = <<k[1], k[2]>> /\ k[2] \in Nat \ {0} /\ k[2] <= len(k)
                      /\ len(k) \in Nat
                      /\ Previous(z, k) = <<k[1], IF k[2] = 1 THEN len(k) ELSE k[2] - 1>>
  <2>1. IsFiniteSet(K) /\ \A k \in K : Previous(z, k) \in K
    BY EdgesProps
  <2>2. \A k \in K : k = <<k[1], k[2]>> /\ k[1] \in DOMAIN Rings(z) /\ k[2] \in Nat \ {0} /\ k[2] <= len(k)
    BY DEF EdgePlaces
  <2>3. \A a \in DOMAIN Rings(z) : Len(Rings(z)[a]) \in Nat
    <3> DEFINE L == Seq(Points)
    <3>1. Rings(z) \in Seq(L)
      BY RingsPoints
    <3>2. \A r \in L : Len(r) \in Nat
      OBVIOUS
    <3> HIDE DEF L
    <3>3. QED
      BY <3>1, <3>2, SequenceElements
  <2>4. \A k \in K : Previous(z, k) = <<k[1], IF k[2] = 1 THEN len(k) ELSE k[2] - 1>>
    BY DEF Previous
  <2>5. QED
    BY <2>1, <2>2, <2>3, <2>4
<1> HIDE DEF K, len
<1>2. \A k \in U : f[k] \in T
  BY <1>1
<1>3. ASSUME NEW k \in K, NEW j \in K, f[k] = f[j] PROVE k = j
  <2>1. Previous(z, k) = Previous(z, j)
    BY <1>3
  <2>2. k[1] = j[1] /\ (IF k[2] = 1 THEN len(k) ELSE k[2] - 1) = (IF j[2] = 1 THEN len(j) ELSE j[2] - 1)
    BY <1>1, <2>1
  <2>3. len(k) = len(j)
    BY <2>2 DEF len
  <2>4. k[2] = j[2]
    BY <1>1, <2>2, <2>3
  <2>5. QED
    BY <1>1, <2>2, <2>4
<1>4. ASSUME NEW k \in K PROVE \E j \in K : f[j] = k
  <2> DEFINE j == <<k[1], IF k[2] = len(k) THEN 1 ELSE k[2] + 1>>
  <2>1. j[1] = k[1] /\ j[2] = (IF k[2] = len(k) THEN 1 ELSE k[2] + 1)
    OBVIOUS
  <2>2. j \in K
    <3>1. k[1] \in DOMAIN Rings(z) /\ len(k) >= 2
      BY DEF K, EdgePlaces, len
    <3>2. j \in (DOMAIN Rings(z)) \X (Nat \ {0}) /\ j[2] <= len(k)
      BY <1>1, <3>1
    <3>3. len(j) = len(k)
      BY <2>1, Zenon DEF len
    <3> HIDE DEF j
    <3>4. QED
      BY <3>1, <3>2, <3>3 DEF K, EdgePlaces, len
  <2>3. Previous(z, j) = k
    <3> HIDE DEF j
    <3>1. len(j) = len(k)
      BY <2>1, Zenon DEF len
    <3>2. Previous(z, j) = <<k[1], IF j[2] = 1 THEN len(k) ELSE j[2] - 1>>
      BY <1>1, <2>1, <2>2, <3>1
    <3>3. (IF j[2] = 1 THEN len(k) ELSE j[2] - 1) = k[2]
      BY <1>1, <2>1
    <3>4. QED
      BY <1>1, <3>2, <3>3
  <2> HIDE DEF j
  <2>4. QED
    BY <2>2, <2>3
<1>5. \A t \in T : \E s \in U : f[s] = t
  <2> SUFFICES ASSUME NEW t \in T PROVE \E s \in U : f[s] = t
    OBVIOUS
  <2>1. PICK s \in K : f[s] = t
    BY <1>4
  <2>2. s \in U
    BY <2>1
  <2>3. QED
    BY <2>1, <2>2
<1>6. IsFiniteSet(T)
  BY <1>1, FS_Subset
<1>7. \A s1, s2 \in U : f[s1] = f[s2] => s1 = s2
  BY <1>3
<1> HIDE DEF T, U, f
<1>8. Cardinality(U) = Cardinality(T)
  BY <1>2, <1>5, <1>6, <1>7, SameSize
<1>9. QED
  BY <1>8, Zenon DEF T, U, K

\* Off the edges the code's ray to the right and one upwards agree.
LEMMA EvenOddAgrees ==
  ASSUME NEW z \in FiniteZones, NEW p \in Positions \X Positions, ~OnEdge(z, p)
  PROVE  ZoneContains(z, p[1], p[2]) <=> InsideUpwards(z, p)
<1> DEFINE K == EdgePlaces(z)
           edges == Edges(z)
           swap(q) == <<q[2], q[1]>>
           X == {k \in K : Crosses(edges[k][1], edges[k][2], p[1], p[2])}
           Y == {k \in K : Crosses(swap(edges[k][1]), swap(edges[k][2]), p[2], p[1])}
           S == {v \in Points : Beyond(p, v)}
           T == {k \in K : Vertex(z, k) \in S}
           U == {k \in K : Vertex(z, Previous(z, k)) \in S}
<1>1. /\ DOMAIN edges = K /\ IsFiniteSet(K)
      /\ \A k \in K : /\ edges[k] = <<Vertex(z, k), Vertex(z, Previous(z, k))>>
                      /\ Previous(z, k) \in K /\ Vertex(z, k) \in Points
  BY EdgesProps
<1>2. /\ ZoneContains(z, p[1], p[2]) <=> Cardinality(X) % 2 = 1
      /\ InsideUpwards(z, p) <=> Cardinality(Y) % 2 = 1
  <2>1. ZoneContains(z, p[1], p[2]) <=> 
          Cardinality({k \in DOMAIN edges : Crosses(edges[k][1], edges[k][2], p[1], p[2])}) % 2 = 1
    BY Zenon DEF ZoneContains
  <2>2. InsideUpwards(z, p) <=>
          Cardinality({k \in DOMAIN edges :
                         Crosses(swap(edges[k][1]), swap(edges[k][2]), p[2], p[1])}) % 2 = 1
    BY Zenon DEF InsideUpwards
  <2> HIDE DEF edges, K
  <2>3. QED
    BY <1>1, <2>1, <2>2, Zenon
<1>3. ASSUME NEW k \in K PROVE ~(k \in X <=> k \in Y) <=> ~(k \in T <=> k \in U)
  <2> DEFINE pi == edges[k][1]
             pj == edges[k][2]
             right == Crosses(pi, pj, p[1], p[2])
             up == Crosses(swap(pi), swap(pj), p[2], p[1])
  <2>1. pi = Vertex(z, k) /\ pj = Vertex(z, Previous(z, k)) /\ pi \in Points /\ pj \in Points
    BY <1>1
  <2>2. ~OnSegment(p, pi, pj)
    <3> DEFINE e == edges[k]
    <3>1. e \in {edges[i] : i \in DOMAIN edges}
      BY <1>1
    <3>2. OnSegment(p, e[1], e[2]) => OnEdge(z, p)
      BY <3>1, Zenon DEF OnEdge, OnSegment
    <3>3. QED
      BY <3>2
  <2>3. (k \in X <=> right) /\ (k \in Y <=> up)
    BY Zenon
  <2>4. (k \in T <=> Beyond(p, pi)) /\ (k \in U <=> Beyond(p, pj))
    BY <2>1, Zenon
  <2> HIDE DEF pi, pj
  <2>5. ~(right <=> up) <=> ~(Beyond(p, pi) <=> Beyond(p, pj))
    BY <2>1, <2>2, EdgeRays, Zenon
  <2> HIDE DEF X, Y, T, U, right, up
  <2>6. QED
    BY <2>3, <2>4, <2>5
<1>4. Cardinality(T) = Cardinality(U)
  BY AsManyEnds
<1>5. X \subseteq K /\ Y \subseteq K /\ T \subseteq K /\ U \subseteq K
  OBVIOUS
<1> HIDE DEF X, Y, T, U, K
<1>6. Cardinality(X) % 2 = Cardinality(Y) % 2
  BY <1>1, <1>3, <1>4, <1>5, SameParity
<1>7. QED
  BY <1>2, <1>6

\* Outside the envelope a zone whose rings stay in it has nothing: one of the rays
\* crosses no edge.
LEMMA OutsideEnvelope ==
  ASSUME NEW z \in FiniteZones, RingsWithin(z), NEW p \in Positions \X Positions, ~OnEdge(z, p),
         LET e == Envelope(z) IN
           e = None \/ ~(/\ Leq(Frac(e[1]), p[1]) /\ Leq(p[1], Frac(e[3]))
                         /\ Leq(Frac(e[2]), p[2]) /\ Leq(p[2], Frac(e[4])))
  PROVE  ~InsideUpwards(z, p)
<1> DEFINE e == Envelope(z)
           K == EdgePlaces(z)
           edges == Edges(z)
           swap(q) == <<q[2], q[1]>>
           X == {k \in K : Crosses(edges[k][1], edges[k][2], p[1], p[2])}
           Y == {k \in K : Crosses(swap(edges[k][1]), swap(edges[k][2]), p[2], p[1])}
<1>1. /\ DOMAIN edges = K
      /\ \A k \in K : edges[k] = <<Vertex(z, k), Vertex(z, Previous(z, k))>> /\ Previous(z, k) \in K
      /\ \A k \in K : /\ Vertex(z, k) \in Points
                      /\ e # None /\ Vertex(z, k)[1] \in e[1]..e[3] /\ Vertex(z, k)[2] \in e[2]..e[4]
  <2>1. ASSUME NEW k \in K
        PROVE  e # None /\ Vertex(z, k)[1] \in e[1]..e[3] /\ Vertex(z, k)[2] \in e[2]..e[4]
    <3>1. PICK ring \in ToSet(Rings(z)) : Vertex(z, k) \in ToSet(ring)
      BY EdgesProps
    <3>2. QED
      BY <3>1, Zenon DEF RingsWithin
  <2>2. QED
    BY <2>1, EdgesProps
<1>2. (ZoneContains(z, p[1], p[2]) <=> InsideUpwards(z, p))
      /\ (ZoneContains(z, p[1], p[2]) <=> Cardinality(X) % 2 = 1)
      /\ (InsideUpwards(z, p) <=> Cardinality(Y) % 2 = 1)
  <2>1. ZoneContains(z, p[1], p[2]) <=> 
          Cardinality({k \in DOMAIN edges : Crosses(edges[k][1], edges[k][2], p[1], p[2])}) % 2 = 1
    BY Zenon DEF ZoneContains
  <2>2. InsideUpwards(z, p) <=>
          Cardinality({k \in DOMAIN edges :
                         Crosses(swap(edges[k][1]), swap(edges[k][2]), p[2], p[1])}) % 2 = 1
    BY Zenon DEF InsideUpwards
  <2>3. ZoneContains(z, p[1], p[2]) <=> InsideUpwards(z, p)
    BY EvenOddAgrees
  <2> HIDE DEF edges, K
  <2>4. QED
    BY <1>1, <2>1, <2>2, <2>3, Zenon
<1>3. X = {} \/ Y = {}
  <2>1. CASE e = None
    <3>1. K = {}
      BY <1>1, <2>1
    <3>2. QED
      BY <3>1
  <2>2. CASE e # None
    <3>1. e \in IntBoxes
      BY <2>2, ZoneSome
    <3>2. e[1] \in Int /\ e[2] \in Int /\ e[3] \in Int /\ e[4] \in Int
      BY <3>1 DEF IntBoxes
    <3> HIDE DEF e, X, Y
    <3>3. ASSUME NEW x \in Positions, NEW lo \in Int, NEW hi \in Int,
                 ~(Leq(Frac(lo), x) /\ Leq(x, Frac(hi)))
          PROVE  \A u, v \in lo..hi : Less(x, Frac(u)) = Less(x, Frac(v))
      <4> DEFINE n == x[1]
                 w == x[2]
      <4>1. n \in Int /\ w \in Nat \ {0} /\ n * 1 = n
        BY DEF Positions
      <4>2. \A m \in Int : Leq(Frac(m), x) = (m * w <= n) /\ Leq(x, Frac(m)) = (n <= m * w)
                           /\ Less(x, Frac(m)) = (n < m * w) /\ m * w \in Int
        BY <4>1 DEF Leq, Less, Frac
      <4> HIDE DEF n, w
      <4>3. \A a, b \in Int : a <= b => a * w <= b * w
        BY <4>1, TimesMonotone
      <4>4. SUFFICES ASSUME NEW u \in lo..hi, NEW v \in lo..hi
                     PROVE  Less(x, Frac(u)) = Less(x, Frac(v))
        OBVIOUS
      <4>5. u \in Int /\ v \in Int /\ lo <= u /\ u <= hi /\ lo <= v /\ v <= hi
        OBVIOUS
      <4> DEFINE a == lo * w
                 b == hi * w
                 c == u * w
                 d == v * w
      <4>6. a <= c /\ c <= b /\ a <= d /\ d <= b /\ a \in Int /\ b \in Int /\ c \in Int /\ d \in Int
        BY <4>2, <4>3, <4>5
      <4>7. ~(a <= n /\ n <= b) /\ Less(x, Frac(u)) = (n < c) /\ Less(x, Frac(v)) = (n < d)
        BY <3>3, <4>2, <4>5
      <4> HIDE DEF a, b, c, d
      <4>8. QED
        BY <4>1, <4>6, <4>7
    <3>4. p[1] \in Positions /\ p[2] \in Positions
      OBVIOUS
    <3>5. ASSUME ~(Leq(Frac(e[2]), p[2]) /\ Leq(p[2], Frac(e[4]))) PROVE X = {}
      <4>1. \A u, v \in e[2]..e[4] : Less(p[2], Frac(u)) = Less(p[2], Frac(v))
        BY <3>2, <3>3, <3>4, <3>5
      <4>2. \A k \in K : ~Crosses(edges[k][1], edges[k][2], p[1], p[2])
        <5> SUFFICES ASSUME NEW k \in K PROVE ~Crosses(edges[k][1], edges[k][2], p[1], p[2])
          OBVIOUS
        <5> DEFINE pi == edges[k][1]
                   pj == edges[k][2]
        <5>1. pi[2] \in e[2]..e[4] /\ pj[2] \in e[2]..e[4]
          BY <1>1
        <5> HIDE DEF pi, pj
        <5>2. Less(p[2], Frac(pi[2])) = Less(p[2], Frac(pj[2]))
          BY <4>1, <5>1
        <5>3. QED
          BY <5>2, Zenon DEF Crosses, pi, pj
      <4>3. QED
        BY <4>2 DEF X
    <3>6. ASSUME ~(Leq(Frac(e[1]), p[1]) /\ Leq(p[1], Frac(e[3]))) PROVE Y = {}
      <4>1. \A u, v \in e[1]..e[3] : Less(p[1], Frac(u)) = Less(p[1], Frac(v))
        BY <3>2, <3>3, <3>4, <3>6
      <4>2. \A k \in K : ~Crosses(swap(edges[k][1]), swap(edges[k][2]), p[2], p[1])
        <5> SUFFICES ASSUME NEW k \in K
                     PROVE  ~Crosses(swap(edges[k][1]), swap(edges[k][2]), p[2], p[1])
          OBVIOUS
        <5> DEFINE pi == edges[k][1]
                   pj == edges[k][2]
        <5>1. pi[1] \in e[1]..e[3] /\ pj[1] \in e[1]..e[3]
          BY <1>1
        <5> HIDE DEF pi, pj
        <5>2. Less(p[1], Frac(pi[1])) = Less(p[1], Frac(pj[1]))
          BY <4>1, <5>1
        <5>3. swap(pi)[2] = pi[1] /\ swap(pj)[2] = pj[1]
          OBVIOUS
        <5>4. QED
          BY <5>2, <5>3, Zenon DEF Crosses, pi, pj
      <4>3. QED
        BY <4>2 DEF Y
    <3>7. QED
      BY <2>2, <3>5, <3>6 DEF e
  <2>3. QED
    BY <2>1, <2>2
<1>4. Cardinality({}) % 2 # 1
  BY FS_EmptySet
<1> HIDE DEF X, Y
<1>5. QED
  BY <1>2, <1>3, <1>4

\* The centre of a pixel as a position.
LEMMA CentrePositions ==
  ASSUME Metadata(meta), meta.georef # None, NEW l \in 0..(Len(meta.levels) - 1),
         NEW cr \in Raster(l)
  PROVE  Center(G(l), cr[1], cr[2]) \in Positions \X Positions
<1> DEFINE g == G(l)
           c == cr[1]
           r == cr[2]
<1>1. /\ Lv(l).image_width # 0 /\ Lv(l).image_height # 0
      /\ c \in Int /\ r \in Int
  BY LevelProps DEF Raster, Level
<1>2. PICK nx, wx, ny, wy \in Nat : Geo(g, nx, wx, ny, wy)
  BY <1>1, LevelGeo
<1> HIDE DEF g, c, r
<1>3. /\ g.origin_x \in Int /\ g.origin_y \in Int
      /\ wx \in Nat \ {0} /\ wy \in Nat \ {0} /\ nx \in Int /\ ny \in Int
      /\ g.pixel_x[1] = nx /\ g.pixel_x[2] = wx /\ g.pixel_y[1] = ny /\ g.pixel_y[2] = wy
  BY <1>2 DEF Geo
<1> DEFINE x == 2 * g.origin_x * wx + (2 * c + 1) * nx
           y == 2 * g.origin_y * wy - (2 * r + 1) * ny
<1>4. x \in Int /\ y \in Int /\ 2 * wx \in Nat \ {0} /\ 2 * wy \in Nat \ {0}
  <2>1. 2 * g.origin_x \in Int /\ 2 * g.origin_y \in Int /\ 2 * c + 1 \in Int /\ 2 * r + 1 \in Int
    BY <1>1, <1>3
  <2>2. 2 * g.origin_x * wx \in Int /\ (2 * c + 1) * nx \in Int
        /\ 2 * g.origin_y * wy \in Int /\ (2 * r + 1) * ny \in Int
    <3> DEFINE i == 2 * g.origin_x
               j == 2 * g.origin_y
               k == 2 * c + 1
               m == 2 * r + 1
    <3> HIDE DEF i, j, k, m
    <3>1. i \in Int /\ j \in Int /\ k \in Int /\ m \in Int
      BY <2>1 DEF i, j, k, m
    <3>2. i * wx \in Int /\ k * nx \in Int /\ j * wy \in Int /\ m * ny \in Int
      BY <1>3, <3>1
    <3>3. QED
      BY <3>2 DEF i, j, k, m
  <2> DEFINE a1 == 2 * g.origin_x * wx
             a2 == (2 * c + 1) * nx
             b1 == 2 * g.origin_y * wy
             b2 == (2 * r + 1) * ny
  <2> HIDE DEF a1, a2, b1, b2
  <2>3. a1 \in Int /\ a2 \in Int /\ b1 \in Int /\ b2 \in Int
    BY <2>2 DEF a1, a2, b1, b2
  <2>4. a1 + a2 \in Int /\ b1 - b2 \in Int
    BY <2>3
  <2>5. 2 * wx \in Nat \ {0} /\ 2 * wy \in Nat \ {0}
    BY <1>3
  <2>6. QED
    BY <2>4, <2>5, Zenon DEF a1, a2, b1, b2
<1>5. Center(g, c, r) = <<<<x, 2 * wx>>, <<y, 2 * wy>>>>
  BY <1>3, Zenon DEF Center
<1> HIDE DEF x, y
<1>6. <<x, 2 * wx>> \in Positions /\ <<y, 2 * wy>> \in Positions
  BY <1>4 DEF Positions
<1>7. QED
  BY <1>5, <1>6 DEF g, c, r

\* Where the code looks, the pixels it keeps are among those a zone may stand for:
\* everywhere if no ring leaves the envelope.
LEMMA ZoneKept ==
  ASSUME Metadata(meta), meta.georef # None, NEW l \in 0..(Len(meta.levels) - 1),
         NEW z \in FiniteZones
  PROVE  \E S \in ZonePixels(z, l) :
           /\ S \subseteq Raster(l)
           /\ \A cr \in Raster(l) :
                \/ RingsWithin(z)
                \/ Envelope(z) # None /\ cr \in Centred(l, Envelope(z))
                => (cr \in S <=> cr \in Kept(z, l))
<1> DEFINE e == Envelope(z)
           center(cr) == Center(G(l), cr[1], cr[2])
           edge == {cr \in Raster(l) : OnEdge(z, center(cr))}
           inside == {cr \in Raster(l) \ edge : InsideUpwards(z, center(cr))}
           S == inside \cup (edge \cap Kept(z, l))
<1>1. S \in ZonePixels(z, l) /\ S \subseteq Raster(l)
  <2>1. ZonePixels(z, l) = {inside \cup d : d \in SUBSET edge}
    BY Zenon DEF ZonePixels
  <2>2. edge \subseteq Raster(l) /\ inside \subseteq Raster(l)
    OBVIOUS
  <2> HIDE DEF edge, inside
  <2>3. QED
    BY <2>1, <2>2
<1>2. ASSUME NEW cr \in Raster(l),
             RingsWithin(z) \/ (e # None /\ cr \in Centred(l, e))
      PROVE  cr \in S <=> cr \in Kept(z, l)
  <2> DEFINE p == center(cr)
  <2>1. cr \in edge <=> OnEdge(z, p)
    OBVIOUS
  <2>2. cr \in inside <=> cr \notin edge /\ InsideUpwards(z, p)
    OBVIOUS
  <2>3. p \in Positions \X Positions
    BY CentrePositions
  <2>4. e # None => (cr \in Kept(z, l) <=> cr \in Centred(l, e) /\ KeepIn(z, G(l), cr[1], cr[2]))
    BY Zenon DEF Kept
  <2>5. e = None => cr \notin Kept(z, l)
    BY DEF Kept
  <2>6. KeepIn(z, G(l), cr[1], cr[2]) <=> ZoneContains(z, p[1], p[2])
    BY Zenon DEF KeepIn
  <2>7. cr \in Centred(l, e) <=> /\ Leq(Frac(e[1]), p[1]) /\ Leq(p[1], Frac(e[3]))
                                 /\ Leq(Frac(e[2]), p[2]) /\ Leq(p[2], Frac(e[4]))
    BY Zenon DEF Centred
  <2> HIDE DEF edge, inside, p, e
  <2>8. CASE OnEdge(z, p)
    BY <2>1, <2>2, <2>8, Zenon
  <2>9. CASE ~OnEdge(z, p)
    <3>1. cr \in S <=> InsideUpwards(z, p)
      BY <2>1, <2>2, <2>9, Zenon
    <3>2. ZoneContains(z, p[1], p[2]) <=> InsideUpwards(z, p)
      BY <2>3, <2>9, EvenOddAgrees
    <3>3. CASE e # None /\ cr \in Centred(l, e)
      BY <2>4, <2>6, <3>1, <3>2, <3>3
    <3>4. CASE e = None \/ cr \notin Centred(l, e)
      <4>1. ~InsideUpwards(z, p)
        <5>1. RingsWithin(z)
          BY <1>2, <3>4
        <5>2. QED
          BY <2>3, <2>7, <2>9, <3>4, <5>1, OutsideEnvelope, Zenon DEF e
      <4>2. QED
        BY <2>4, <2>5, <3>1, <3>4, <4>1
    <3>5. QED
      BY <3>3, <3>4
  <2>10. QED
    BY <2>8, <2>9
<1> HIDE DEF S
<1>3. QED
  BY <1>1, <1>2 DEF e

(***************************************************************************)
(* Zonal statistics and windows as a caller sees them.                       *)
(***************************************************************************)

\* The level of a call on boxes or zones.
LEMMA LevelForRange ==
  ASSUME ReadInv, meta.georef # None, req.op \in ZonalOps, NEW b, b = None \/ b \in IntBoxes
  PROVE  LevelFor(b) \in 0..(Len(meta.levels) - 1)
<1>1. Metadata(meta)
  BY ReadingMeta DEF ReadInv
<1>2. CASE b = None
  BY <1>1, <1>2 DEF LevelFor, Metadata
<1>3. CASE b \in IntBoxes
  BY <1>3, LevelForProps DEF ReadInv, BudgetKept
<1>4. QED
  BY <1>2, <1>3

\* Zonal statistics are those of exactly the pixels of the level that are centred
\* in the box or in the zone, by a ray in another direction than the code's;
\* whatever the tiles they come from and whatever the other zones of a batch.
THEOREM ReadZonalExact == Spec => []ZonalExact
<1>1. ReadInv => ZonalExact
  <2> SUFFICES ASSUME ReadInv, req.op \in ZonalOps, pc = "done", "ok" \in DOMAIN answer
               PROVE  ZonalExact
    BY DEF ZonalExact, Answered
  <2> DEFINE l == LevelFor(Box)
             exact(z, a) == RingsWithin(z) => \E S \in ZonePixels(z, l) : a = StatsOf(l, S)
  <2>1. CASE req.op = "zonal_bbox"
    <3>1. answer.ok = StatsOf(LevelFor(Box), Centred(LevelFor(Box), Box))
      BY <2>1, BoxAnswer
    <3>2. QED
      BY <2>1, <3>1, Zenon DEF ZonalExact
  <2>2. CASE req.op \in {"zonal", "zonal_zones"}
    <3>1. Metadata(meta) /\ meta.georef # None /\ "err" \notin DOMAIN zones
      BY <2>2, ReadingMeta, ZonesRead DEF ReadInv
    <3>2. /\ \A k \in DOMAIN zones.ok : zones.ok[k] \in FiniteZones
          /\ IsFiniteSet(DOMAIN zones.ok)
          /\ req.op = "zonal" => 1 \in DOMAIN zones.ok
      BY <3>1, ZonesProps DEF ReadInv
    <3>3. l \in 0..(Len(meta.levels) - 1)
      <4>1. Box = None \/ Box \in IntBoxes
        <5>1. CASE req.op = "zonal"
          BY <3>2, <5>1, ZoneSome DEF Box
        <5>2. CASE req.op = "zonal_zones"
          BY <3>2, <5>2, UnionEnvelopeProps DEF Box
        <5>3. QED
          BY <2>2, <5>1, <5>2
      <4>2. QED
        BY <3>1, <4>1, LevelForRange
    <3> HIDE DEF l
    <3>4. ASSUME NEW z \in FiniteZones, NEW a, a = StatsOf(l, Kept(z, l))
          PROVE  exact(z, a)
      <4> SUFFICES ASSUME RingsWithin(z) PROVE \E S \in ZonePixels(z, l) : a = StatsOf(l, S)
        OBVIOUS
      <4>1. PICK S \in ZonePixels(z, l) :
              S \subseteq Raster(l) /\ \A cr \in Raster(l) : cr \in S <=> cr \in Kept(z, l)
        BY <3>1, <3>3, ZoneKept
      <4>2. Kept(z, l) \subseteq Raster(l)
        BY DEF Kept, Centred
      <4>3. S = Kept(z, l)
        BY <4>1, <4>2
      <4>4. QED
        BY <3>4, <4>3
    <3> HIDE DEF exact
    <3>5. CASE req.op = "zonal"
      <4>1. answer.ok = StatsOf(l, Kept(zones.ok[1], l))
        BY <3>5, ZoneAnswer DEF l
      <4>2. exact(zones.ok[1], answer.ok)
        BY <3>2, <3>4, <3>5, <4>1
      <4>3. QED
        BY <3>5, <4>2, Zenon DEF ZonalExact, exact, l
    <3>6. CASE req.op = "zonal_zones"
      <4>1. answer.ok = [k \in DOMAIN zones.ok |-> StatsOf(l, Kept(zones.ok[k], l))]
        BY <3>6, BatchAnswer DEF l
      <4>2. \A k \in DOMAIN zones.ok : answer.ok[k] = StatsOf(l, Kept(zones.ok[k], l))
        BY <4>1, Zenon
      <4>3. \A k \in DOMAIN zones.ok : exact(zones.ok[k], answer.ok[k])
        BY <3>2, <3>4, <4>2
      <4>4. req.op # "zonal_bbox" /\ req.op # "zonal"
        BY <3>6
      <4>5. QED
        BY <4>3, <4>4, Zenon DEF ZonalExact, exact, l
    <3>7. QED
      BY <2>2, <3>5, <3>6
  <2>3. QED
    BY <2>1, <2>2 DEF ZonalOps
<1>2. QED
  BY <1>1, ReadInvariant, PTL DEF Spec

\* What a zone shows in the window of its envelope.
ZoneShown(P, S) ==
  LET order == Sorted(P, YMajor) IN
    [k \in DOMAIN order |->
       IF order[k] \in S
       THEN ApplyNodata(PixelOf(0, order[k][1], order[k][2], req.band)) ELSE None]

\* The window of a zone shows the pixels of the zone, and is reported like that of
\* its envelope.
LEMMA ZoneReported ==
  ASSUME ReadInv, req.op = "band_window_polygon", pc = "done", "ok" \in DOMAIN answer,
         answer.ok # None, NEW P, P = IF Box = None THEN {} ELSE Centred(0, Box)
  PROVE  /\ \E S \in ZonePixels(zones.ok[1], 0) : answer.ok.win = ZoneShown(P, S)
         /\ Box # None => answer.ok.rect.width * answer.ok.rect.height = Cardinality(P)
         /\ answer.ok.rect.bbox # None =>
              \A cr \in Raster(0) :
                cr \in P <=> InExtent(answer.ok.rect.bbox, Center(meta.georef, cr[1], cr[2]))
<1> DEFINE z == zones.ok[1]
           win == answer.ok.win
           rect == answer.ok.rect
<1>1. CASE AnsweredEarly
  <2>1. answer.ok = NoWindow(Box) /\ P = {}
    BY <1>1, ZoneWindowEarly
  <2>2. Reported(answer.ok, {})
    BY <2>1, NoPixels
  <2>3. ASSUME NEW S PROVE win = ZoneShown({}, S)
    <3> DEFINE order == Sorted({}, YMajor)
               value(k) == ApplyNodata(PixelOf(0, order[k][1], order[k][2], req.band))
    <3>1. win = Shown({})
      BY <2>2 DEF Reported
    <3>2. /\ Shown({}) = [k \in DOMAIN order |-> IF order[k] \in {} THEN value(k) ELSE None]
          /\ ZoneShown({}, S) = [k \in DOMAIN order |-> IF order[k] \in S THEN value(k) ELSE None]
      BY Zenon DEF Shown, ZoneShown
    <3>3. DOMAIN order = {}
      <4>1. Cardinality({}) = 0
        BY FS_EmptySet
      <4>2. DOMAIN order = 1..0
        BY <4>1, Zenon DEF Sorted
      <4>3. QED
        BY <4>2
    <3> HIDE DEF order, value
    <3>4. QED
      BY <3>1, <3>2, <3>3
  <2>4. \E S : S \in ZonePixels(z, 0)
    <3> DEFINE edge == {cr \in Raster(0) : OnEdge(z, Center(G(0), cr[1], cr[2]))}
               inside == {cr \in Raster(0) \ edge : InsideUpwards(z, Center(G(0), cr[1], cr[2]))}
    <3>1. ZonePixels(z, 0) = {inside \cup e : e \in SUBSET edge}
      BY Zenon DEF ZonePixels
    <3> HIDE DEF edge, inside
    <3>2. inside \cup {} \in ZonePixels(z, 0)
      BY <3>1
    <3>3. QED
      BY <3>2
  <2>5. \E S \in ZonePixels(z, 0) : win = ZoneShown(P, S)
    BY <2>1, <2>3, <2>4, Zenon
  <2>6. /\ Box # None => rect.width * rect.height = Cardinality(P)
        /\ rect.bbox # None =>
             \A cr \in Raster(0) :
               cr \in P <=> InExtent(rect.bbox, Center(meta.georef, cr[1], cr[2]))
    BY <2>1, <2>2, Zenon DEF Reported
  <2>7. QED
    BY <2>5, <2>6
<1>2. CASE AnsweredLate
  <2>1. /\ Planned /\ Windowed(Box) /\ Box # None /\ Box = Envelope(z)
        /\ Metadata(meta) /\ req.op \in WindowOps
    BY <1>2, WindowPlan, ReadingMeta DEF ReadInv, Planned, WindowOps, AnsweredLate, Box
  <2>2. P = Centred(0, Box) /\ P = PixelsOf(Box) /\ meta.georef # None
    BY <2>1 DEF PixelsOf, Windowed
  <2>3. z \in FiniteZones
    <3>1. "err" \in DOMAIN zones => "tiles" \notin DOMAIN zones
      BY DEF ZonesOf, ReadInv, Reading
    <3>2. "err" \in DOMAIN zones => Plan = zones
      BY DEF Plan, BandWindowPolygon
    <3>3. "err" \notin DOMAIN zones
      BY <2>1, <3>1, <3>2 DEF Planned
    <3>4. QED
      BY <3>3, ZonesProps DEF ReadInv
  <2>4. win = ZoneShown(P, Kept(z, 0))
    BY <1>2, <2>2, ZoneWindowLate, Zenon DEF ZoneShown
  <2>5. PICK v : v # <<>> /\ rect = WindowRect(Box, v)
    BY <1>2, ZoneWindowLate
  <2>6. /\ rect.width * rect.height = Cardinality(P)
        /\ \A cr \in Raster(0) :
             cr \in P <=> InExtent(rect.bbox, Center(meta.georef, cr[1], cr[2]))
    BY <2>1, <2>2, <2>5, RectExact, Zenon
  <2>7. \E S \in ZonePixels(z, 0) : win = ZoneShown(P, S)
    <3>1. PICK S \in ZonePixels(z, 0) :
            \A cr \in Raster(0) : cr \in P => (cr \in S <=> cr \in Kept(z, 0))
      <4>1. 0 \in 0..(Len(meta.levels) - 1)
        BY <2>1 DEF Metadata, Windowed
      <4>2. Envelope(z) # None /\ P = Centred(0, Envelope(z))
        BY <2>1, <2>2, Zenon
      <4> HIDE DEF z
      <4>3. PICK S \in ZonePixels(z, 0) :
              \A cr \in Raster(0) :
                \/ RingsWithin(z)
                \/ Envelope(z) # None /\ cr \in Centred(0, Envelope(z))
                => (cr \in S <=> cr \in Kept(z, 0))
        BY <2>1, <2>2, <2>3, <4>1, ZoneKept
      <4>4. QED
        BY <4>2, <4>3, Zenon
    <3> DEFINE order == Sorted(P, YMajor)
               value(k) == ApplyNodata(PixelOf(0, order[k][1], order[k][2], req.band))
    <3>2. P \subseteq Raster(0)
      BY <2>2 DEF Centred
    <3>3. \A k \in DOMAIN order : order[k] \in P
      <4>1. LET w == WindowOf(Box) IN
              w \in IntBoxes /\ w[1] <= w[2] /\ w[3] <= w[4] /\ Covered(w) = P
        BY <2>1, <2>2 DEF Windowed, Window
      <4>2. P \subseteq Tiles /\ IsFiniteSet(P)
        BY <4>1, WindowRank
      <4>3. ByRank(order, YPairs, P)
        BY <4>2, SortedY
      <4>4. QED
        BY <4>3 DEF ByRank
    <3> DEFINE K == Kept(z, 0)
    <3>4. /\ ZoneShown(P, S) = [k \in DOMAIN order |-> IF order[k] \in S THEN value(k) ELSE None]
          /\ ZoneShown(P, K) = [k \in DOMAIN order |-> IF order[k] \in K THEN value(k) ELSE None]
      BY Zenon DEF ZoneShown
    <3>5. \A k \in DOMAIN order : order[k] \in S <=> order[k] \in K
      BY <3>1, <3>2, <3>3
    <3> HIDE DEF order, value, K, win
    <3>6. ZoneShown(P, S) = ZoneShown(P, K)
      BY <3>4, <3>5
    <3> USE DEF K
    <3>7. QED
      BY <2>4, <3>6
  <2>8. QED
    BY <2>6, <2>7
<1>3. QED
  BY <1>1, <1>2 DEF ReadInv

\* A window lists its pixels row by row, in the shape and extent reported with
\* it, whatever the tiles they come from; a zone shows its pixels, by a ray in
\* another direction than the code's, and NULL elsewhere.
THEOREM ReadWindowsExact == Spec => []WindowsExact
<1>1. ReadInv => WindowsExact
  <2> SUFFICES ASSUME ReadInv, req.op \in WindowOps,
                      pc = "done", "ok" \in DOMAIN answer, answer.ok # None
               PROVE  WindowsExact
    BY DEF WindowsExact, Answered
  <2> DEFINE pixels == IF req.op = "band_window" /\ Box = None THEN Raster(0)
                       ELSE IF Box = None THEN {} ELSE Centred(0, Box)
             order == Sorted(pixels, YMajor)
             shows(S) == [k \in DOMAIN order |->
                            IF order[k] \in S
                            THEN ApplyNodata(PixelOf(0, order[k][1], order[k][2], req.band))
                            ELSE None]
             sets == IF req.op = "band_window" THEN {pixels} ELSE ZonePixels(zones.ok[1], 0)
             rect == answer.ok.rect
             extent == rect.bbox # None =>
                         \A cr \in Raster(0) :
                           cr \in pixels <=> InExtent(rect.bbox, Center(meta.georef, cr[1], cr[2]))
  <2>1. /\ \E S \in sets : answer.ok.win = shows(S)
        /\ Box # None => rect.width * rect.height = Cardinality(pixels)
        /\ extent
    <3>1. CASE req.op = "band_window"
      <4>1. Reported(answer.ok, PixelsOf(Box))
        BY <3>1, WindowEarly, WindowLate DEF ReadInv
      <4>2. pixels = PixelsOf(Box) /\ sets = {pixels}
        BY <3>1 DEF PixelsOf
      <4>3. shows(pixels) = Shown(pixels)
        BY Zenon DEF Shown
      <4> HIDE DEF pixels, sets, shows
      <4>4. \E S \in sets : answer.ok.win = shows(S)
        BY <4>1, <4>2, <4>3 DEF Reported
      <4>5. QED
        BY <4>1, <4>2, <4>4, Zenon DEF Reported
    <3>2. CASE req.op = "band_window_polygon"
      <4>1. /\ pixels = (IF Box = None THEN {} ELSE Centred(0, Box))
            /\ sets = ZonePixels(zones.ok[1], 0)
        BY <3>2
      <4>2. \A S : shows(S) = ZoneShown(pixels, S)
        BY Zenon DEF ZoneShown
      <4> HIDE DEF pixels, sets, shows
      <4>3. /\ \E S \in ZonePixels(zones.ok[1], 0) : answer.ok.win = ZoneShown(pixels, S)
            /\ Box # None => rect.width * rect.height = Cardinality(pixels)
            /\ extent
        BY <3>2, <4>1, ZoneReported
      <4>4. QED
        BY <4>1, <4>2, <4>3, Zenon
    <3>3. QED
      BY <3>1, <3>2 DEF WindowOps
  <2> HIDE DEF pixels, sets, shows
  <2>2. rect.bbox # None =>
          \A cr \in Raster(0) :
            LET p == Center(meta.georef, cr[1], cr[2]) IN
              cr \in pixels <=> /\ Leq(rect.bbox[1], p[1]) /\ Leq(p[1], rect.bbox[3])
                                /\ Leq(rect.bbox[2], p[2]) /\ Leq(p[2], rect.bbox[4])
    BY <2>1, Zenon DEF InExtent
  <2>3. QED
    BY <2>1, <2>2, Zenon DEF WindowsExact, pixels, sets, shows
<1>2. QED
  BY <1>1, ReadInvariant, PTL DEF Spec

=============================================================================
