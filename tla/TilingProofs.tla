---------------------------- MODULE TilingProofs ----------------------------
(***************************************************************************)
(* Proofs about the geometry: the tiles lie side by side on the screen,    *)
(* every record agrees with the window of its structure, and whatever is   *)
(* stored fits its field; for any clients, screen, gap and border, however *)
(* clients come, go, are swapped, moved or fail to fit.                    *)
(*                                                                         *)
(* The tiles are arithmetic: n shares of a side, rounded down, end before  *)
(* the next one begins (ShareBeforeShare) and within the side              *)
(* (ShareInSide); a border is the tile under a smaller gap (BorderedTile). *)
(* That records and windows agree needs more than itself (TilingInv): no   *)
(* two structures may have one window, which would be moved for both, and  *)
(* a window that is about to be managed must still be where manage_window  *)
(* reads it.  One lemma (AutoTile) serves all steps that end in auto-tile. *)
(***************************************************************************)
EXTENDS Tiling, SequenceTheorems, FiniteSetTheorems, TLAPS

----------------------------------------------------------------------------
(* Shares of a side of the screen.                                         *)

\* The variables of auto-tile.scm, with any gap.
AnyConf == [gap : Nat, master_count : Nat \ {0}, master_perc : 0..100,
            arrangements : Arrangements]

\* Division rounds down.
LEMMA Quotient ==
    ASSUME NEW side \in Nat, NEW n \in Nat \ {0}
    PROVE  side \div n \in Nat /\ n * (side \div n) <= side
OBVIOUS

\* The k-th share of the side ends before the next one begins.
LEMMA ShareBeforeShare ==
    ASSUME NEW i \in Nat, NEW j \in Nat, NEW k \in Nat, j < k
    PROVE  (j - 1) * i + i <= (k - 1) * i
<1>1. (k - 1) * i = (j - 1) * i + i + (k - 1 - j) * i
    OBVIOUS
<1>2. (k - 1 - j) * i >= 0
    OBVIOUS
<1>3. (j - 1) * i \in Int /\ (k - 1) * i \in Int /\ (k - 1 - j) * i \in Int
    OBVIOUS
<1> QED BY <1>1, <1>2, <1>3

\* And none ends beyond the side.
LEMMA ShareInSide ==
    ASSUME NEW side \in Nat, NEW n \in Nat \ {0}, NEW k \in 1..n
    PROVE  /\ (k - 1) * (side \div n) \in Nat
           /\ (k - 1) * (side \div n) + (side \div n) <= side
<1> DEFINE i == side \div n
<1>1. i \in Nat /\ n * i <= side
    BY Quotient
<1> HIDE DEF i
<1>2. (k - 1) * i \in Nat
    BY <1>1
<1>3. (k - 1) * i + i <= n * i
  <2>1. (n - k) * i >= 0
    BY <1>1
  <2>2. n * i = (k - 1) * i + i + (n - k) * i
    BY <1>1
  <2>3. n * i \in Int /\ (n - k) * i \in Int
    BY <1>1
  <2> QED BY <1>1, <1>2, <2>1, <2>2, <2>3
<1>4. n * i \in Int
    BY <1>1
<1> QED BY <1>1, <1>2, <1>3, <1>4 DEF i

\* The master area is a part of the side.
LEMMA ShareOfMasters ==
    ASSUME NEW side \in Nat, NEW s \in AnyConf
    PROVE  MasterShare(side, s) \in 0..side
<1>1. s.master_perc \in 0..100
    BY DEF AnyConf
<1>2. side * s.master_perc \in Nat /\ side * s.master_perc <= 100 * side
    BY <1>1
<1> DEFINE p == side * s.master_perc
<1> HIDE DEF p
<1>3. p \in Nat /\ p <= 100 * side
    BY <1>2 DEF p
<1>4. p \div 100 \in 0..side
    BY <1>3
<1> QED BY <1>4 DEF p, MasterShare

----------------------------------------------------------------------------
(* The arrangements, tile by tile.                                         *)

\* One side of a tile that has the k-th of n shares, at its start and its end.
From(side, n, k, gap) == (k - 1) * (side \div n) + gap
Extent(side, n, gap) == (side \div n) - 2 * gap

Column(n, k, x, width, gap) ==
    Rect(x, From(ScreenHeight, n, k, gap), width, Extent(ScreenHeight, n, gap))
Row(n, k, y, height, gap) ==
    Rect(From(ScreenWidth, n, k, gap), y, Extent(ScreenWidth, n, gap), height)

VTile(n, s, k) ==
    LET m == Masters(n, s)
        area == MasterShare(ScreenWidth, s)
    IN IF n = 1 THEN Whole(s.gap)
       ELSE IF k <= m THEN Column(m, k, s.gap, area - 2 * s.gap, s.gap)
       ELSE Column(n - m, k - m, area + s.gap, (ScreenWidth - area) - 2 * s.gap, s.gap)

HTile(n, s, k) ==
    LET m == Masters(n, s)
        area == MasterShare(ScreenHeight, s)
    IN IF n = 1 THEN Whole(s.gap)
       ELSE IF k <= m THEN Row(m, k, s.gap, area - 2 * s.gap, s.gap)
       ELSE Row(n - m, k - m, area + s.gap, (ScreenHeight - area) - 2 * s.gap, s.gap)

LEMMA MastersOfAll ==
    ASSUME NEW n \in Nat \ {0}, NEW s \in AnyConf
    PROVE  Masters(n, s) \in 1..n
BY DEF Masters, AnyConf

\* Two lists of tiles, one behind the other.
LEMMA TwoParts ==
    ASSUME NEW m \in Nat, NEW n \in Nat, m <= n, NEW S,
           NEW f \in [1..m -> S], NEW g \in [1..(n - m) -> S]
    PROVE  /\ DOMAIN (f \o g) = 1..n
           /\ \A k \in 1..n : (f \o g)[k] = IF k <= m THEN f[k] ELSE g[k - m]
<1>1. f \in Seq(S) /\ Len(f) = m
    OBVIOUS
<1>2. g \in Seq(S) /\ Len(g) = n - m
    OBVIOUS
<1> QED BY <1>1, <1>2, ConcatProperties

LEMMA VTiles ==
    ASSUME NEW n \in Nat \ {0}, NEW s \in AnyConf
    PROVE  /\ DOMAIN auto_vtile(n, s) = 1..n
           /\ \A k \in 1..n : auto_vtile(n, s)[k] = VTile(n, s, k)
<1>1. CASE n = 1
    BY <1>1 DEF auto_vtile, VTile
<1>2. CASE n # 1
  <2> DEFINE m == Masters(n, s)
             area == MasterShare(ScreenWidth, s)
             f == split_vertical(m, s.gap, area - 2 * s.gap, s.gap)
             g == split_vertical(n - m, area + s.gap,
                                 (ScreenWidth - area) - 2 * s.gap, s.gap)
             S == {f[k] : k \in 1..m} \cup {g[k] : k \in 1..(n - m)}
  <2>1. m \in 1..n
    BY MastersOfAll
  <2>2. f \in [1..m -> S] /\ g \in [1..(n - m) -> S]
    BY DEF split_vertical
  <2>3. \A k \in 1..m : f[k] = Column(m, k, s.gap, area - 2 * s.gap, s.gap)
    BY DEF split_vertical, Column, From, Extent
  <2>4. \A k \in 1..(n - m) : g[k] =
            Column(n - m, k, area + s.gap, (ScreenWidth - area) - 2 * s.gap, s.gap)
    BY DEF split_vertical, Column, From, Extent
  <2>5. auto_vtile(n, s) = f \o g
    BY <1>2 DEF auto_vtile
  <2>6. \A k \in 1..n : VTile(n, s, k) =
            IF k <= m THEN Column(m, k, s.gap, area - 2 * s.gap, s.gap)
            ELSE Column(n - m, k - m, area + s.gap,
                        (ScreenWidth - area) - 2 * s.gap, s.gap)
    BY <1>2 DEF VTile
  <2> HIDE DEF m, area, f, g, S
  <2>7. /\ DOMAIN (f \o g) = 1..n
        /\ \A k \in 1..n : (f \o g)[k] = IF k <= m THEN f[k] ELSE g[k - m]
    BY <2>1, <2>2, TwoParts
  <2>8. ASSUME NEW k \in 1..n PROVE (f \o g)[k] = VTile(n, s, k)
    <3>1. CASE k <= m
      BY <2>1, <2>3, <2>6, <2>7, <3>1
    <3>2. CASE ~(k <= m)
      <4>1. k - m \in 1..(n - m)
        BY <2>1, <3>2
      <4> QED BY <2>4, <2>6, <2>7, <3>2, <4>1
    <3> QED BY <3>1, <3>2
  <2> QED BY <2>5, <2>7, <2>8
<1> QED BY <1>1, <1>2

LEMMA HTiles ==
    ASSUME NEW n \in Nat \ {0}, NEW s \in AnyConf
    PROVE  /\ DOMAIN auto_htile(n, s) = 1..n
           /\ \A k \in 1..n : auto_htile(n, s)[k] = HTile(n, s, k)
<1>1. CASE n = 1
    BY <1>1 DEF auto_htile, HTile
<1>2. CASE n # 1
  <2> DEFINE m == Masters(n, s)
             area == MasterShare(ScreenHeight, s)
             f == split_horizontal(m, s.gap, area - 2 * s.gap, s.gap)
             g == split_horizontal(n - m, area + s.gap,
                                   (ScreenHeight - area) - 2 * s.gap, s.gap)
             S == {f[k] : k \in 1..m} \cup {g[k] : k \in 1..(n - m)}
  <2>1. m \in 1..n
    BY MastersOfAll
  <2>2. f \in [1..m -> S] /\ g \in [1..(n - m) -> S]
    BY DEF split_horizontal
  <2>3. \A k \in 1..m : f[k] = Row(m, k, s.gap, area - 2 * s.gap, s.gap)
    BY DEF split_horizontal, Row, From, Extent
  <2>4. \A k \in 1..(n - m) : g[k] =
            Row(n - m, k, area + s.gap, (ScreenHeight - area) - 2 * s.gap, s.gap)
    BY DEF split_horizontal, Row, From, Extent
  <2>5. auto_htile(n, s) = f \o g
    BY <1>2 DEF auto_htile
  <2>6. \A k \in 1..n : HTile(n, s, k) =
            IF k <= m THEN Row(m, k, s.gap, area - 2 * s.gap, s.gap)
            ELSE Row(n - m, k - m, area + s.gap,
                     (ScreenHeight - area) - 2 * s.gap, s.gap)
    BY <1>2 DEF HTile
  <2> HIDE DEF m, area, f, g, S
  <2>7. /\ DOMAIN (f \o g) = 1..n
        /\ \A k \in 1..n : (f \o g)[k] = IF k <= m THEN f[k] ELSE g[k - m]
    BY <2>1, <2>2, TwoParts
  <2>8. ASSUME NEW k \in 1..n PROVE (f \o g)[k] = HTile(n, s, k)
    <3>1. CASE k <= m
      BY <2>1, <2>3, <2>6, <2>7, <3>1
    <3>2. CASE ~(k <= m)
      <4>1. k - m \in 1..(n - m)
        BY <2>1, <3>2
      <4> QED BY <2>4, <2>6, <2>7, <3>2, <4>1
    <3> QED BY <3>1, <3>2
  <2> QED BY <2>5, <2>7, <2>8
<1> QED BY <1>1, <1>2

\* The tile of the k-th of n clients.
TileAt(n, s, k) ==
    CASE s.arrangements[1] = "vtile" -> VTile(n, s, k)
      [] s.arrangements[1] = "htile" -> HTile(n, s, k)
      [] s.arrangements[1] = "fullscreen" -> Whole(s.gap)

\* What is first in use of the three arrangements.
LEMMA FirstArrangement ==
    ASSUME NEW s \in AnyConf
    PROVE  s.arrangements[1] \in {"vtile", "htile", "fullscreen"}
BY DEF AnyConf, Arrangements

LEMMA TilesAre ==
    ASSUME NEW n \in Nat \ {0}, NEW s \in AnyConf
    PROVE  /\ DOMAIN Tiles(n, s) = 1..n
           /\ \A k \in 1..n : Tiles(n, s)[k] = TileAt(n, s, k)
<1>1. CASE s.arrangements[1] = "vtile"
    BY <1>1, VTiles DEF Tiles, TileAt
<1>2. CASE s.arrangements[1] = "htile"
    BY <1>2, HTiles DEF Tiles, TileAt
<1>3. CASE s.arrangements[1] = "fullscreen"
    BY <1>3 DEF Tiles, TileAt
<1> QED BY <1>1, <1>2, <1>3, FirstArrangement

----------------------------------------------------------------------------
(* Where the tiles are.                                                    *)

LEMMA Sides ==
    /\ ScreenWidth \in Nat \ {0} /\ ScreenHeight \in Nat \ {0}
    /\ border_width \in Nat
<1>1. ScreenWidth \in UInt16 \ {0} /\ ScreenHeight \in UInt16 \ {0}
    BY TilingAssumption, Zenon
<1>2. border_width \in Nat
    BY TilingAssumption, Zenon
<1>3. \A side : side \in UInt16 \ {0} => side \in Nat \ {0}
    BY DEF UInt16
<1> QED BY <1>1, <1>2, <1>3

\* A share with its gaps stays within the side.
LEMMA ShareInside ==
    ASSUME NEW side \in Nat, NEW n \in Nat \ {0}, NEW k \in 1..n, NEW gap \in Nat
    PROVE  /\ From(side, n, k, gap) \in Nat /\ Extent(side, n, gap) \in Int
           /\ From(side, n, k, gap) + Extent(side, n, gap) <= side
<1> DEFINE i == side \div n
           p == (k - 1) * i
<1>1. i \in Nat
    BY Quotient
<1>2. p \in Nat /\ p + i <= side
    BY ShareInSide
<1>3. From(side, n, k, gap) = p + gap /\ Extent(side, n, gap) = i - 2 * gap
    BY DEF From, Extent
<1> HIDE DEF i, p
<1> QED BY <1>1, <1>2, <1>3

\* And ends before the next one begins.
LEMMA SharesApart ==
    ASSUME NEW side \in Nat, NEW n \in Nat \ {0}, NEW j \in 1..n, NEW k \in 1..n,
           j < k, NEW gap \in Nat
    PROVE  From(side, n, j, gap) + Extent(side, n, gap) <= From(side, n, k, gap)
<1> DEFINE i == side \div n
           p == (j - 1) * i
           q == (k - 1) * i
<1>1. i \in Nat
    BY Quotient
<1>2. p \in Nat /\ q \in Nat
    BY ShareInSide
<1>3. p + i <= q
    BY <1>1, ShareBeforeShare
<1>4. /\ From(side, n, j, gap) = p + gap /\ From(side, n, k, gap) = q + gap
      /\ Extent(side, n, gap) = i - 2 * gap
    BY DEF From, Extent
<1> HIDE DEF i, p, q
<1> QED BY <1>1, <1>2, <1>3, <1>4

\* Every tile is on the screen, however many clients there are.
LEMMA TilesOnScreen ==
    ASSUME NEW n \in Nat \ {0}, NEW s \in AnyConf, NEW k \in 1..n
    PROVE  OnScreen(TileAt(n, s, k))
<1>0. s.gap \in Nat
    BY DEF AnyConf
<1>1. OnScreen(Whole(s.gap))
    BY <1>0, Sides DEF OnScreen, Whole, Rect
<1> DEFINE m == Masters(n, s)
<1>2. m \in 1..n
    BY MastersOfAll
<1> HIDE DEF m
<1>3. OnScreen(VTile(n, s, k))
  <2> DEFINE area == MasterShare(ScreenWidth, s)
  <2>1. area \in 0..ScreenWidth
    BY Sides, ShareOfMasters
  <2> HIDE DEF area
  <2>2. CASE n = 1
    BY <1>1, <2>2 DEF VTile
  <2>3. CASE n # 1 /\ k <= m
    <3>1. VTile(n, s, k) = Column(m, k, s.gap, area - 2 * s.gap, s.gap)
      BY <2>3 DEF VTile, m, area
    <3>0. m \in Nat \ {0} /\ k \in 1..m
      BY <1>2, <2>3
    <3>2. /\ From(ScreenHeight, m, k, s.gap) \in Nat
          /\ Extent(ScreenHeight, m, s.gap) \in Int
          /\ From(ScreenHeight, m, k, s.gap) + Extent(ScreenHeight, m, s.gap)
                <= ScreenHeight
      BY <1>0, <3>0, Sides, ShareInside
    <3> QED BY <1>0, <2>1, <3>1, <3>2, Sides DEF OnScreen, Column, Rect
  <2>4. CASE n # 1 /\ ~(k <= m)
    <3>1. VTile(n, s, k) = Column(n - m, k - m, area + s.gap,
                                  (ScreenWidth - area) - 2 * s.gap, s.gap)
      BY <2>4 DEF VTile, m, area
    <3>2. n - m \in Nat \ {0} /\ k - m \in 1..(n - m)
      BY <1>2, <2>4
    <3>3. /\ From(ScreenHeight, n - m, k - m, s.gap) \in Nat
          /\ Extent(ScreenHeight, n - m, s.gap) \in Int
          /\ From(ScreenHeight, n - m, k - m, s.gap) + Extent(ScreenHeight, n - m, s.gap)
                <= ScreenHeight
      BY <1>0, <3>2, Sides, ShareInside
    <3> QED BY <1>0, <2>1, <3>1, <3>3, Sides DEF OnScreen, Column, Rect
  <2> QED BY <2>2, <2>3, <2>4
<1>4. OnScreen(HTile(n, s, k))
  <2> DEFINE area == MasterShare(ScreenHeight, s)
  <2>1. area \in 0..ScreenHeight
    BY Sides, ShareOfMasters
  <2> HIDE DEF area
  <2>2. CASE n = 1
    BY <1>1, <2>2 DEF HTile
  <2>3. CASE n # 1 /\ k <= m
    <3>1. HTile(n, s, k) = Row(m, k, s.gap, area - 2 * s.gap, s.gap)
      BY <2>3 DEF HTile, m, area
    <3>0. m \in Nat \ {0} /\ k \in 1..m
      BY <1>2, <2>3
    <3>2. /\ From(ScreenWidth, m, k, s.gap) \in Nat
          /\ Extent(ScreenWidth, m, s.gap) \in Int
          /\ From(ScreenWidth, m, k, s.gap) + Extent(ScreenWidth, m, s.gap)
                <= ScreenWidth
      BY <1>0, <3>0, Sides, ShareInside
    <3> QED BY <1>0, <2>1, <3>1, <3>2, Sides DEF OnScreen, Row, Rect
  <2>4. CASE n # 1 /\ ~(k <= m)
    <3>1. HTile(n, s, k) = Row(n - m, k - m, area + s.gap,
                               (ScreenHeight - area) - 2 * s.gap, s.gap)
      BY <2>4 DEF HTile, m, area
    <3>2. n - m \in Nat \ {0} /\ k - m \in 1..(n - m)
      BY <1>2, <2>4
    <3>3. /\ From(ScreenWidth, n - m, k - m, s.gap) \in Nat
          /\ Extent(ScreenWidth, n - m, s.gap) \in Int
          /\ From(ScreenWidth, n - m, k - m, s.gap) + Extent(ScreenWidth, n - m, s.gap)
                <= ScreenWidth
      BY <1>0, <3>2, Sides, ShareInside
    <3> QED BY <1>0, <2>1, <3>1, <3>3, Sides DEF OnScreen, Row, Rect
  <2> QED BY <2>2, <2>3, <2>4
<1> QED BY <1>1, <1>3, <1>4, FirstArrangement DEF TileAt

\* Of two clients the later one is below (beside) the other in its area, or in
\* the other area.
LEMMA LaterIsApart ==
    ASSUME NEW n \in Nat \ {0}, NEW s \in AnyConf, NEW j \in 1..n, NEW k \in 1..n,
           j < k, s.arrangements[1] # "fullscreen"
    PROVE  Apart(TileAt(n, s, j), TileAt(n, s, k))
<1>0. s.gap \in Nat /\ n # 1
    BY DEF AnyConf
<1> DEFINE m == Masters(n, s)
<1>1. m \in 1..n
    BY MastersOfAll
<1> HIDE DEF m
<1>2. Apart(VTile(n, s, j), VTile(n, s, k))
  <2> DEFINE area == MasterShare(ScreenWidth, s)
  <2>1. area \in 0..ScreenWidth
    BY Sides, ShareOfMasters
  <2> HIDE DEF area
  <2>2. \A l \in 1..n : VTile(n, s, l) =
            IF l <= m THEN Column(m, l, s.gap, area - 2 * s.gap, s.gap)
            ELSE Column(n - m, l - m, area + s.gap,
                        (ScreenWidth - area) - 2 * s.gap, s.gap)
    BY <1>0 DEF VTile, m, area
  <2>3. CASE k <= m
    <3>0. m \in Nat \ {0} /\ j \in 1..m /\ k \in 1..m
      BY <1>1, <2>3
    <3>1. From(ScreenHeight, m, j, s.gap) + Extent(ScreenHeight, m, s.gap)
              <= From(ScreenHeight, m, k, s.gap)
      BY <1>0, <3>0, Sides, SharesApart
    <3> QED BY <2>2, <3>0, <3>1 DEF Apart, Column, Rect
  <2>4. CASE j <= m /\ ~(k <= m)
    BY <1>0, <2>1, <2>2, <2>4, Sides DEF Apart, Column, Rect
  <2>5. CASE ~(j <= m)
    <3>1. /\ n - m \in Nat \ {0} /\ j - m \in 1..(n - m) /\ k - m \in 1..(n - m)
          /\ j - m < k - m
      BY <1>1, <2>5
    <3>2. From(ScreenHeight, n - m, j - m, s.gap) + Extent(ScreenHeight, n - m, s.gap)
              <= From(ScreenHeight, n - m, k - m, s.gap)
      BY <1>0, <3>1, Sides, SharesApart
    <3>3. ~(k <= m)
      BY <1>1, <2>5
    <3> QED BY <2>2, <2>5, <3>2, <3>3 DEF Apart, Column, Rect
  <2> QED BY <1>1, <2>3, <2>4, <2>5
<1>3. Apart(HTile(n, s, j), HTile(n, s, k))
  <2> DEFINE area == MasterShare(ScreenHeight, s)
  <2>1. area \in 0..ScreenHeight
    BY Sides, ShareOfMasters
  <2> HIDE DEF area
  <2>2. \A l \in 1..n : HTile(n, s, l) =
            IF l <= m THEN Row(m, l, s.gap, area - 2 * s.gap, s.gap)
            ELSE Row(n - m, l - m, area + s.gap,
                     (ScreenHeight - area) - 2 * s.gap, s.gap)
    BY <1>0 DEF HTile, m, area
  <2>3. CASE k <= m
    <3>0. m \in Nat \ {0} /\ j \in 1..m /\ k \in 1..m
      BY <1>1, <2>3
    <3>1. From(ScreenWidth, m, j, s.gap) + Extent(ScreenWidth, m, s.gap)
              <= From(ScreenWidth, m, k, s.gap)
      BY <1>0, <3>0, Sides, SharesApart
    <3> QED BY <2>2, <3>0, <3>1 DEF Apart, Row, Rect
  <2>4. CASE j <= m /\ ~(k <= m)
    BY <1>0, <2>1, <2>2, <2>4, Sides DEF Apart, Row, Rect
  <2>5. CASE ~(j <= m)
    <3>1. /\ n - m \in Nat \ {0} /\ j - m \in 1..(n - m) /\ k - m \in 1..(n - m)
          /\ j - m < k - m
      BY <1>1, <2>5
    <3>2. From(ScreenWidth, n - m, j - m, s.gap) + Extent(ScreenWidth, n - m, s.gap)
              <= From(ScreenWidth, n - m, k - m, s.gap)
      BY <1>0, <3>1, Sides, SharesApart
    <3>3. ~(k <= m)
      BY <1>1, <2>5
    <3> QED BY <2>2, <2>5, <3>2, <3>3 DEF Apart, Row, Rect
  <2> QED BY <1>1, <2>3, <2>4, <2>5
<1> QED BY <1>2, <1>3, FirstArrangement DEF TileAt

\* Any two tiles are apart.
LEMMA TwoTilesApart ==
    ASSUME NEW n \in Nat \ {0}, NEW s \in AnyConf, NEW j \in 1..n, NEW k \in 1..n,
           j # k, s.arrangements[1] # "fullscreen"
    PROVE  Apart(TileAt(n, s, j), TileAt(n, s, k))
<1>1. CASE j < k
    BY <1>1, LaterIsApart
<1>2. CASE k < j
  <2>1. Apart(TileAt(n, s, k), TileAt(n, s, j))
    BY <1>2, LaterIsApart
  <2> QED BY <2>1, Zenon DEF Apart
<1> QED BY <1>1, <1>2

\* With its border a tile is one that has smaller gaps around it.
LEMMA ShareBordered ==
    ASSUME NEW side \in Nat, NEW n \in Nat \ {0}, NEW k \in 1..n, NEW gap \in Nat
    PROVE  /\ From(side, n, k, gap - 2 * border_width)
                  = From(side, n, k, gap) - 2 * border_width
           /\ Extent(side, n, gap - 2 * border_width)
                  = Extent(side, n, gap) + 4 * border_width
<1> DEFINE i == side \div n
           p == (k - 1) * i
<1>1. i \in Nat /\ p \in Nat
    BY Quotient, ShareInSide
<1>2. /\ \A g \in Int : From(side, n, k, g) = p + g
      /\ \A g \in Int : Extent(side, n, g) = i - 2 * g
    BY DEF From, Extent
<1>3. gap - 2 * border_width \in Int /\ border_width \in Int
    BY Sides
<1> HIDE DEF i, p
<1> QED BY <1>1, <1>2, <1>3

LEMMA ColumnBordered ==
    \A n \in Nat \ {0} : \A k \in 1..n : \A d, e \in Int : \A gap \in Nat :
        Border(Column(n, k, d, e, gap)) =
            Column(n, k, d - 2 * border_width, e + 4 * border_width,
                   gap - 2 * border_width)
BY Sides, ShareBordered DEF Border, Column, Rect

LEMMA RowBordered ==
    \A n \in Nat \ {0} : \A k \in 1..n : \A d, e \in Int : \A gap \in Nat :
        Border(Row(n, k, d, e, gap)) =
            Row(n, k, d - 2 * border_width, e + 4 * border_width,
                   gap - 2 * border_width)
BY Sides, ShareBordered DEF Border, Row, Rect

\* A window with its border takes the tile of a smaller gap.
LEMMA BorderedTile ==
    ASSUME NEW n \in Nat \ {0}, NEW s \in AnyConf, NEW k \in 1..n,
           2 * border_width <= s.gap
    PROVE  /\ [s EXCEPT !.gap = s.gap - 2 * border_width] \in AnyConf
           /\ Border(TileAt(n, s, k)) =
                  TileAt(n, [s EXCEPT !.gap = s.gap - 2 * border_width], k)
<1> DEFINE t == [s EXCEPT !.gap = s.gap - 2 * border_width]
<1>0. s.gap \in Nat /\ t.gap = s.gap - 2 * border_width /\ t.gap \in Nat
    BY Sides DEF AnyConf
<1>1. t \in AnyConf
    BY <1>0 DEF AnyConf
<1>2. /\ t.arrangements = s.arrangements /\ Masters(n, t) = Masters(n, s)
      /\ \A side : MasterShare(side, t) = MasterShare(side, s)
    BY DEF AnyConf, Masters, MasterShare
<1> HIDE DEF t
<1>3. Border(Whole(s.gap)) = Whole(t.gap)
    BY <1>0, Sides DEF Border, Whole, Rect
<1> DEFINE m == Masters(n, s)
<1>4. m \in 1..n
    BY MastersOfAll
<1> HIDE DEF m
<1>5. Border(VTile(n, s, k)) = VTile(n, t, k)
  <2> DEFINE area == MasterShare(ScreenWidth, s)
  <2>1. area \in 0..ScreenWidth
    BY Sides, ShareOfMasters
  <2>2. Masters(n, t) = m /\ MasterShare(ScreenWidth, t) = area
    BY <1>2 DEF m
  <2> HIDE DEF area
  <2>3. CASE n = 1
    BY <1>3, <2>3 DEF VTile
  <2>4. CASE n # 1 /\ k <= m
    <3> DEFINE e == area - 2 * s.gap
    <3>1. /\ VTile(n, s, k) = Column(m, k, s.gap, e, s.gap)
          /\ VTile(n, t, k) = Column(m, k, t.gap, area - 2 * t.gap, t.gap)
      BY <2>2, <2>4 DEF VTile, m, area
    <3>2. m \in Nat \ {0} /\ k \in 1..m /\ s.gap \in Int /\ e \in Int /\ s.gap \in Nat
      BY <1>0, <1>4, <2>1, <2>4
    <3>3. area - 2 * t.gap = e + 4 * border_width
      BY <1>0, <2>1, Sides
    <3> HIDE DEF e
    <3>4. Border(Column(m, k, s.gap, e, s.gap)) =
             Column(m, k, s.gap - 2 * border_width, e + 4 * border_width,
                    s.gap - 2 * border_width)
      BY <3>2, ColumnBordered, ZenonT(40)
    <3> QED BY <1>0, <3>1, <3>3, <3>4
  <2>5. CASE n # 1 /\ ~(k <= m)
    <3> DEFINE o == n - m
               l == k - m
               d == area + s.gap
               e == (ScreenWidth - area) - 2 * s.gap
    <3>1. /\ VTile(n, s, k) = Column(o, l, d, e, s.gap)
          /\ VTile(n, t, k) = Column(o, l, area + t.gap,
                                      (ScreenWidth - area) - 2 * t.gap, t.gap)
      BY <2>2, <2>5 DEF VTile, m, area
    <3>2. o \in Nat \ {0} /\ l \in 1..o /\ d \in Int /\ e \in Int /\ s.gap \in Nat
      BY <1>0, <1>4, <2>1, <2>5, Sides
    <3>3. /\ area + t.gap = d - 2 * border_width
          /\ (ScreenWidth - area) - 2 * t.gap = e + 4 * border_width
      BY <1>0, <2>1, Sides
    <3> HIDE DEF o, l, d, e
    <3>4. Border(Column(o, l, d, e, s.gap)) =
             Column(o, l, d - 2 * border_width, e + 4 * border_width,
                    s.gap - 2 * border_width)
      BY <3>2, ColumnBordered, ZenonT(40)
    <3> QED BY <1>0, <3>1, <3>3, <3>4
  <2> QED BY <2>3, <2>4, <2>5
<1>6. Border(HTile(n, s, k)) = HTile(n, t, k)
  <2> DEFINE area == MasterShare(ScreenHeight, s)
  <2>1. area \in 0..ScreenHeight
    BY Sides, ShareOfMasters
  <2>2. Masters(n, t) = m /\ MasterShare(ScreenHeight, t) = area
    BY <1>2 DEF m
  <2> HIDE DEF area
  <2>3. CASE n = 1
    BY <1>3, <2>3 DEF HTile
  <2>4. CASE n # 1 /\ k <= m
    <3> DEFINE e == area - 2 * s.gap
    <3>1. /\ HTile(n, s, k) = Row(m, k, s.gap, e, s.gap)
          /\ HTile(n, t, k) = Row(m, k, t.gap, area - 2 * t.gap, t.gap)
      BY <2>2, <2>4 DEF HTile, m, area
    <3>2. m \in Nat \ {0} /\ k \in 1..m /\ s.gap \in Int /\ e \in Int /\ s.gap \in Nat
      BY <1>0, <1>4, <2>1, <2>4
    <3>3. area - 2 * t.gap = e + 4 * border_width
      BY <1>0, <2>1, Sides
    <3> HIDE DEF e
    <3>4. Border(Row(m, k, s.gap, e, s.gap)) =
             Row(m, k, s.gap - 2 * border_width, e + 4 * border_width,
                    s.gap - 2 * border_width)
      BY <3>2, RowBordered, ZenonT(40)
    <3> QED BY <1>0, <3>1, <3>3, <3>4
  <2>5. CASE n # 1 /\ ~(k <= m)
    <3> DEFINE o == n - m
               l == k - m
               d == area + s.gap
               e == (ScreenHeight - area) - 2 * s.gap
    <3>1. /\ HTile(n, s, k) = Row(o, l, d, e, s.gap)
          /\ HTile(n, t, k) = Row(o, l, area + t.gap,
                                      (ScreenHeight - area) - 2 * t.gap, t.gap)
      BY <2>2, <2>5 DEF HTile, m, area
    <3>2. o \in Nat \ {0} /\ l \in 1..o /\ d \in Int /\ e \in Int /\ s.gap \in Nat
      BY <1>0, <1>4, <2>1, <2>5, Sides
    <3>3. /\ area + t.gap = d - 2 * border_width
          /\ (ScreenHeight - area) - 2 * t.gap = e + 4 * border_width
      BY <1>0, <2>1, Sides
    <3> HIDE DEF o, l, d, e
    <3>4. Border(Row(o, l, d, e, s.gap)) =
             Row(o, l, d - 2 * border_width, e + 4 * border_width,
                    s.gap - 2 * border_width)
      BY <3>2, RowBordered, ZenonT(40)
    <3> QED BY <1>0, <3>1, <3>3, <3>4
  <2> QED BY <2>3, <2>4, <2>5
<1>7. Border(TileAt(n, s, k)) = TileAt(n, t, k)
    BY <1>2, <1>3, <1>5, <1>6, FirstArrangement DEF TileAt
<1> QED BY <1>1, <1>7 DEF t

----------------------------------------------------------------------------
(* The list.                                                               *)

Once(list) == \A j, k \in DOMAIN list : list[j] = list[k] => j = k

\* What remains of a list without its i-th element.
LEMMA RemoveAtProperties ==
    ASSUME NEW S, NEW s \in Seq(S), NEW i \in DOMAIN s
    PROVE  /\ RemoveAt(s, i) \in Seq(S)
           /\ DOMAIN RemoveAt(s, i) = 1..(Len(s) - 1)
           /\ \A j \in 1..(Len(s) - 1) :
                 RemoveAt(s, i)[j] = IF j < i THEN s[j] ELSE s[j + 1]
<1>1. Len(s) \in Nat /\ i \in 1..Len(s) /\ DOMAIN s = 1..Len(s)
      /\ \A j \in 1..Len(s) : s[j] \in S
  BY LenProperties, ElementOfSeq
<1>. DEFINE a == SubSeq(s, 1, i - 1)
            b == SubSeq(s, i + 1, Len(s))
<1>2. /\ a \in Seq(S) /\ Len(a) = i - 1
      /\ \A j \in 1..(i - 1) : a[j] = s[j]
  <2>1. 1 \in Int /\ i - 1 \in Int /\ \A j \in 1..(i - 1) : s[j] \in S
    BY <1>1
  <2>2. /\ a \in Seq(S) /\ Len(a) = IF 1 <= i - 1 THEN (i - 1) - 1 + 1 ELSE 0
        /\ \A j \in 1..((i - 1) - 1 + 1) : a[j] = s[1 + j - 1]
    BY <2>1, SubSeqProperties
  <2>. QED BY <1>1, <2>2
<1>3. /\ b \in Seq(S) /\ Len(b) = Len(s) - i
      /\ \A j \in 1..(Len(s) - i) : b[j] = s[i + j]
  <2>1. i + 1 \in Int /\ Len(s) \in Int /\ \A j \in (i + 1)..Len(s) : s[j] \in S
    BY <1>1
  <2>2. /\ b \in Seq(S)
        /\ Len(b) = IF i + 1 <= Len(s) THEN Len(s) - (i + 1) + 1 ELSE 0
        /\ \A j \in 1..(Len(s) - (i + 1) + 1) : b[j] = s[(i + 1) + j - 1]
    BY <2>1, SubSeqProperties
  <2>3. \A j \in 1..(Len(s) - i) : /\ j \in 1..(Len(s) - (i + 1) + 1)
                                   /\ (i + 1) + j - 1 = i + j
    BY <1>1
  <2>4. Len(b) = Len(s) - i BY <1>1, <2>2
  <2>. QED BY <2>2, <2>3, <2>4
<1>4. RemoveAt(s, i) = a \o b BY DEF RemoveAt
<1>. HIDE DEF a, b
<1>5. /\ a \o b \in Seq(S) /\ Len(a \o b) = Len(a) + Len(b)
      /\ \A j \in 1..(Len(a) + Len(b)) :
            (a \o b)[j] = IF j <= Len(a) THEN a[j] ELSE b[j - Len(a)]
  BY <1>2, <1>3, ConcatProperties
<1>6. Len(a) + Len(b) = Len(s) - 1 BY <1>1, <1>2, <1>3
<1>7. DOMAIN (a \o b) = 1..(Len(s) - 1) BY <1>5, <1>6, LenProperties
<1>8. ASSUME NEW j \in 1..(Len(s) - 1)
      PROVE  (a \o b)[j] = IF j < i THEN s[j] ELSE s[j + 1]
  <2>1. CASE j < i
    <3>1. j \in 1..(i - 1) BY <1>1, <2>1
    <3>. QED BY <1>1, <1>2, <1>5, <1>6, <2>1, <3>1
  <2>2. CASE ~(j < i)
    <3>1. ~(j <= i - 1) /\ j - (i - 1) \in 1..(Len(s) - i) /\ i + (j - (i - 1)) = j + 1
      BY <1>1, <2>2
    <3>2. (a \o b)[j] = b[j - (i - 1)] BY <1>2, <1>5, <1>6, <3>1
    <3>3. b[j - (i - 1)] = s[j + 1] BY <1>3, <3>1
    <3>. QED BY <2>2, <3>2, <3>3
  <2>. QED BY <2>1, <2>2
<1>. QED BY <1>4, <1>5, <1>7, <1>8

LEMMA Prepended ==
    ASSUME NEW list \in Seq(Clients), Once(list), NEW c \in Clients, c \notin ToSet(list)
    PROVE  /\ <<c>> \o list \in Seq(Clients) /\ Once(<<c>> \o list)
           /\ ToSet(<<c>> \o list) = ToSet(list) \cup {c}
<1> DEFINE new == <<c>> \o list
<1>1. /\ new \in Seq(Clients) /\ Len(list) \in Nat /\ DOMAIN list = 1..Len(list)
      /\ DOMAIN new = 1..(Len(list) + 1)
      /\ new[1] = c /\ \A k \in 1..Len(list) : new[k + 1] = list[k]
    OBVIOUS
<1>2. \A k \in DOMAIN new : k = 1 \/ (k - 1 \in DOMAIN list /\ new[k] = list[k - 1])
    BY <1>1
<1> HIDE DEF new
<1>3. Once(new)
  <2> SUFFICES ASSUME NEW j \in DOMAIN new, NEW k \in DOMAIN new, new[j] = new[k]
               PROVE  j = k
      BY DEF Once
  <2>1. CASE j = 1 /\ k = 1
      BY <2>1
  <2>2. CASE j = 1 /\ k # 1
      BY <1>1, <1>2, <2>2 DEF ToSet
  <2>3. CASE j # 1 /\ k = 1
      BY <1>1, <1>2, <2>3 DEF ToSet
  <2>4. CASE j # 1 /\ k # 1
    <3>1. j - 1 \in DOMAIN list /\ k - 1 \in DOMAIN list /\ list[j - 1] = list[k - 1]
      BY <1>2, <2>4
    <3>2. j - 1 = k - 1 /\ j \in Int /\ k \in Int
      BY <1>1, <3>1 DEF Once
    <3> QED BY <3>2
  <2> QED BY <2>1, <2>2, <2>3, <2>4
<1>4. ToSet(new) = ToSet(list) \cup {c}
  <2>1. \A k \in DOMAIN list : k + 1 \in DOMAIN new /\ new[k + 1] = list[k]
      BY <1>1
  <2>2. 1 \in DOMAIN new
      BY <1>1
  <2> QED BY <1>1, <1>2, <2>1, <2>2 DEF ToSet
<1> QED BY <1>1, <1>3, <1>4 DEF new

LEMMA Removed ==
    ASSUME NEW list \in Seq(Clients), Once(list), NEW i \in DOMAIN list
    PROVE  /\ RemoveAt(list, i) \in Seq(Clients) /\ Once(RemoveAt(list, i))
           /\ ToSet(RemoveAt(list, i)) = ToSet(list) \ {list[i]}
<1> DEFINE new == RemoveAt(list, i)
           At(j) == IF j < i THEN j ELSE j + 1
<1>1. /\ new \in Seq(Clients) /\ DOMAIN new = 1..(Len(list) - 1)
      /\ \A j \in 1..(Len(list) - 1) : new[j] = list[At(j)]
    BY RemoveAtProperties
<1>2. Len(list) \in Nat /\ DOMAIN list = 1..Len(list) /\ i \in 1..Len(list)
    OBVIOUS
<1>3. \A j \in DOMAIN new : At(j) \in DOMAIN list /\ At(j) # i
    BY <1>1, <1>2
<1>4. \A j, k \in DOMAIN new : At(j) = At(k) => j = k
    BY <1>1, <1>2
<1>5. \A k \in DOMAIN list : k # i => \E j \in DOMAIN new : At(j) = k
  <2> SUFFICES ASSUME NEW k \in DOMAIN list, k # i PROVE \E j \in DOMAIN new : At(j) = k
      OBVIOUS
  <2>1. CASE k < i
      BY <1>1, <1>2, <2>1
  <2>2. CASE k > i
    <3>1. k - 1 \in DOMAIN new /\ At(k - 1) = k
      BY <1>1, <1>2, <2>2
    <3> QED BY <3>1
  <2> QED BY <1>2, <2>1, <2>2
<1> HIDE DEF new, At
<1>6. Once(new)
    BY <1>1, <1>3, <1>4 DEF Once
<1>7. ToSet(new) = ToSet(list) \ {list[i]}
  <2>1. \A j \in DOMAIN new : new[j] = list[At(j)] /\ list[At(j)] # list[i]
      BY <1>1, <1>3 DEF Once
  <2>2. ToSet(new) \subseteq ToSet(list) \ {list[i]}
      BY <1>3, <2>1 DEF ToSet
  <2>3. ToSet(list) \ {list[i]} \subseteq ToSet(new)
      BY <1>5, <2>1 DEF ToSet
  <2> QED BY <2>2, <2>3
<1> QED BY <1>1, <1>6, <1>7 DEF new

LEMMA Reversed ==
    ASSUME NEW list \in Seq(Clients), Once(list)
    PROVE  /\ Reverse(list) \in Seq(Clients) /\ Once(Reverse(list))
           /\ ToSet(Reverse(list)) = ToSet(list)
<1> DEFINE n == Len(list)
           Old(j) == (n - j) + 1
<1>1. n \in Nat /\ DOMAIN list = 1..n /\ \A j \in 1..n : list[j] \in Clients
    OBVIOUS
<1>2. \A j \in 1..n : Old(j) \in 1..n /\ Old(Old(j)) = j
    BY <1>1
<1>3. \A j, k \in 1..n : Old(j) = Old(k) => j = k
    BY <1>1
<1>4. Reverse(list) = [j \in 1..n |-> list[Old(j)]]
    BY DEF Reverse
<1> HIDE DEF n, Old
<1>5. Reverse(list) \in Seq(Clients) /\ DOMAIN Reverse(list) = 1..n
    BY <1>1, <1>2, <1>4
<1>6. Once(Reverse(list))
    BY <1>1, <1>2, <1>3, <1>4 DEF Once
<1>7. ToSet(Reverse(list)) = ToSet(list)
    BY <1>1, <1>2, <1>4 DEF ToSet
<1> QED BY <1>5, <1>6, <1>7

\* The clients of a set have different places, from the first to the last.
LEMMA Places ==
    ASSUME NEW list \in Seq(Clients), Once(list), NEW S \in SUBSET ToSet(list)
    PROVE  /\ Cardinality(S) \in Nat
           /\ \A c \in S : Nth(list, S, c) \in 1..Cardinality(S)
           /\ \A c, d \in S : c # d => Nth(list, S, c) # Nth(list, S, d)
<1>1. IsFiniteSet(S)
  <2> DEFINE D == DOMAIN list
             R == ToSet(list)
  <2>1. D = 1..Len(list) /\ Len(list) \in Int
    OBVIOUS
  <2>2. IsFiniteSet(D)
    BY <2>1, FS_Interval
  <2>3. list \in Surjection(D, R)
    BY DEF Surjection, ToSet
  <2> HIDE DEF D, R
  <2>4. IsFiniteSet(R)
    BY <2>2, <2>3, FS_Surjection
  <2> QED BY <2>4, FS_Subset DEF R
<1> DEFINE Upto(c) == {d \in S : NotAfter(list, d, c)}
<1>2. \A c \in S : Upto(c) \in SUBSET S /\ c \in Upto(c)
    BY DEF NotAfter, ToSet
<1>3. ASSUME NEW c \in S, NEW d \in S, c # d, NotAfter(list, c, d)
      PROVE  Upto(c) \subseteq Upto(d) /\ d \notin Upto(c)
  <2>1. DOMAIN list \subseteq Int
    OBVIOUS
  <2>2. PICK j \in DOMAIN list, k \in DOMAIN list : j <= k /\ list[j] = c /\ list[k] = d
    BY <1>3 DEF NotAfter
  <2>3. j # k
    BY <1>3, <2>2
  <2>4. ~NotAfter(list, d, c)
    BY <2>1, <2>2, <2>3 DEF NotAfter, Once
  <2>5. ASSUME NEW e \in S, NotAfter(list, e, c) PROVE NotAfter(list, e, d)
    <3>1. PICK p \in DOMAIN list, q \in DOMAIN list : p <= q /\ list[p] = e /\ list[q] = c
      BY <2>5 DEF NotAfter
    <3>2. q = j
      BY <2>2, <3>1 DEF Once
    <3>3. p <= k
      BY <2>1, <2>2, <3>1, <3>2
    <3> QED BY <2>2, <3>1, <3>3 DEF NotAfter
  <2> QED BY <2>4, <2>5
<1>4. \A c, d \in S : NotAfter(list, c, d) \/ NotAfter(list, d, c)
  <2> SUFFICES ASSUME NEW c \in S, NEW d \in S
               PROVE  NotAfter(list, c, d) \/ NotAfter(list, d, c)
    OBVIOUS
  <2>1. DOMAIN list \subseteq Int
    OBVIOUS
  <2>2. PICK j \in DOMAIN list, k \in DOMAIN list : list[j] = c /\ list[k] = d
    BY DEF ToSet
  <2>3. j <= k \/ k <= j
    BY <2>1
  <2> QED BY <2>2, <2>3 DEF NotAfter
<1>5. \A c \in S : Nth(list, S, c) = Cardinality(Upto(c))
    BY DEF Nth
<1> HIDE DEF Upto
<1>6. \A c \in S : /\ IsFiniteSet(Upto(c)) /\ Cardinality(Upto(c)) \in Nat
                   /\ Cardinality(Upto(c)) <= Cardinality(S)
                   /\ Cardinality(Upto(c)) # 0
  <2> TAKE c \in S
  <2>1. IsFiniteSet(Upto(c)) /\ Cardinality(Upto(c)) <= Cardinality(S)
    BY <1>1, <1>2, FS_Subset
  <2>2. Cardinality(Upto(c)) \in Nat
    BY <2>1, FS_CardinalityType
  <2>3. Cardinality(Upto(c)) # 0
    BY <1>2, <2>1, FS_EmptySet
  <2> QED BY <2>1, <2>2, <2>3
<1>7. Cardinality(S) \in Nat
    BY <1>1, FS_CardinalityType
<1>8. ASSUME NEW c \in S, NEW d \in S, c # d, NotAfter(list, c, d)
      PROVE  Cardinality(Upto(c)) # Cardinality(Upto(d))
  <2>1. Upto(c) \in SUBSET Upto(d) /\ Upto(c) # Upto(d)
    BY <1>2, <1>3, <1>8
  <2> QED BY <1>6, <2>1, FS_Subset
<1>9. \A c, d \in S : c # d => Cardinality(Upto(c)) # Cardinality(Upto(d))
    BY <1>4, <1>8
<1> QED BY <1>5, <1>6, <1>7, <1>9

----------------------------------------------------------------------------
(* One move or resize.                                                     *)

LEMMA Records == Blank \in RectSet /\ AppGeometry \in RectSet
<1>1. AppGeometry \in RectSet
    BY TilingAssumption, Zenon
<1>2. Blank \in RectSet
    BY DEF Blank, Rect, RectSet, Int16, UInt16
<1> QED BY <1>1, <1>2

\* What is stored and what the server has are in range, whatever is asked for.
LEMMA StoredInRange ==
    ASSUME NEW old \in RectSet, NEW geom \in RectSet, NEW r
    PROVE  Stored(old, r) \in RectSet /\ Arranged(geom, old, Rect(r.x, r.y, r.width, r.height)) \in RectSet
<1> DEFINE t == Rect(r.x, r.y, r.width, r.height)
<1>1. Stored(old, r) \in RectSet
    BY DEF Stored, Moved, MoveFits, Fits, Rect, RectSet
<1>2. Moved(old, t) \in RectSet
    BY DEF Moved, MoveFits, Rect, RectSet
<1>3. Fits(t) => t \in RectSet
    BY DEF Fits, MoveFits, Rect, RectSet
<1> HIDE DEF t
<1>4. Arranged(geom, old, t) \in RectSet
    BY <1>2, <1>3 DEF Arranged, Configured
<1> QED BY <1>1, <1>4 DEF t

Sized(r, w, h) == [r EXCEPT !.width = w, !.height = h]

LEMMA Resized ==
    \A x, y, a, b, w, h : Sized(Rect(x, y, a, b), w, h) = Rect(x, y, w, h)
<1> TAKE x, y, a, b, w, h
<1> DEFINE r == Rect(x, y, a, b)
           e == Sized(r, w, h)
<1>1. DOMAIN r = {"x", "y", "width", "height"} /\ r.x = x /\ r.y = y
    BY DEF Rect
<1>2. DOMAIN e = DOMAIN r /\ e = [f \in DOMAIN e |-> e[f]]
    BY DEF Sized
<1>3. e.x = r.x /\ e.y = r.y
    BY <1>1 DEF Sized
<1>4. e.width = w /\ e.height = h
    BY <1>1 DEF Sized
<1> HIDE DEF e
<1>5. e = Rect(x, y, w, h)
    BY <1>1, <1>2, <1>3, <1>4 DEF Rect
<1> QED BY <1>5 DEF e

\* What fits is stored as it is, and the server has it, too, unless it is empty.
LEMMA FitsIsStored ==
    ASSUME NEW old \in RectSet, NEW geom, NEW x, NEW y, NEW w, NEW h,
           Fits(Rect(x, y, w, h))
    PROVE  /\ Stored(old, Rect(x, y, w, h)) = Rect(x, y, w, h)
           /\ w # 0 /\ h # 0 => Arranged(geom, old, Rect(x, y, w, h)) = Rect(x, y, w, h)
<1> DEFINE r == Rect(x, y, w, h)
<1>1. r.x = x /\ r.y = y /\ r.width = w /\ r.height = h
    BY DEF Rect
<1>2. MoveFits(r) /\ r.x \in Int16 /\ r.width \in UInt16
    BY DEF Fits, MoveFits
<1>3. Stored(old, r) = r
  <2>1. Moved(old, r) = Rect(x, y, old.width, old.height)
    BY <1>1, <1>2 DEF Moved
  <2>2. Stored(old, r) = Sized(Moved(old, r), r.width, r.height)
    <3>1. Fits(r) /\ MoveFits(r) /\ r.width \in UInt16
      BY <1>2
    <3> DEFINE m == Moved(old, r)
    <3>2. Stored(old, r) = [m EXCEPT !.width = IF MoveFits(r) /\ r.width \in UInt16
                                               THEN r.width ELSE @,
                                     !.height = IF Fits(r) THEN r.height ELSE @]
      BY DEF Stored
    <3> HIDE DEF r, m
    <3> QED BY <3>1, <3>2 DEF m, Sized
  <2>3. r.width = w /\ r.height = h /\ r = Rect(x, y, w, h)
    BY <1>1
  <2> HIDE DEF r
  <2>4. Sized(Rect(x, y, old.width, old.height), w, h) = Rect(x, y, w, h)
    BY Resized
  <2> QED BY <2>1, <2>2, <2>3, <2>4, Zenon
<1>4. w # 0 /\ h # 0 => Arranged(geom, old, r) = r
    BY <1>1 DEF Arranged, Configured
<1> QED BY <1>3, <1>4

----------------------------------------------------------------------------
(* The invariant.                                                          *)

\* A structure is on the list once, with a window of its own; what is not on
\* the list has none.
ListInv ==
    /\ Once(client_list)
    /\ \A c \in Listed : window[c] \in Windows
    /\ \A c, d \in Listed : window[c] = window[d] => c = d
    /\ \A c \in Clients \ Listed : window[c] = NoWindow

\* The record r is that of window w.
Agrees(r, w) ==
    \/ xgeom[w] \in {r, Rect(0, 0, ScreenWidth, ScreenHeight)}
    \/ r.width = 0 \/ r.height = 0
    \/ w \in torn

\* The record of each visible client is its tile.
TiledAsPlaced ==
    layout = "tiled" =>
        \A c \in visible_clients :
            rect[c] = Tiles(Cardinality(visible_clients), conf)
                          [Nth(client_list, visible_clients, c)]

TilingInv ==
    TilingTypeOK /\ ListInv /\ RecordFollowsWindow /\ TiledAsPlaced

\* Every tile is a rectangle.
LEMMA TilesAreRects ==
    ASSUME NEW n \in Nat \ {0}, NEW s \in AnyConf, NEW k \in 1..n
    PROVE  \E x, y, w, h : Tiles(n, s)[k] = Rect(x, y, w, h)
<1>1. Tiles(n, s)[k] = TileAt(n, s, k)
    BY TilesAre
<1>2. \E x, y, w, h : VTile(n, s, k) = Rect(x, y, w, h)
    BY DEF VTile, Column, Whole
<1>3. \E x, y, w, h : HTile(n, s, k) = Rect(x, y, w, h)
    BY DEF HTile, Row, Whole
<1>4. \E x, y, w, h : Whole(s.gap) = Rect(x, y, w, h)
    BY DEF Whole
<1> QED BY <1>1, <1>2, <1>3, <1>4, FirstArrangement DEF TileAt

LEMMA ConfsAreAny == ConfSet \subseteq AnyConf
<1>1. Gaps \subseteq Nat /\ MaxMaster \in Nat \ {0}
    BY TilingAssumption, Zenon
<1>2. 1..MaxMaster \subseteq Nat \ {0} /\ 1..98 \subseteq 0..100
    BY <1>1
<1> QED BY <1>1, <1>2 DEF ConfSet, AnyConf

\* auto-tile keeps records and windows together: what it is called for has its
\* tile and so does the window, or the call was cut short; and all others stay
\* as they are.
LEMMA AutoTile ==
    ASSUME xgeom \in [Windows -> RectSet], torn \subseteq Windows,
           status \in {"running", "dead"},
           client_list' \in Seq(Clients), window' \in [Clients -> Windows \cup {NoWindow}],
           conf' \in ConfSet, ListInv',
           NEW old \in [Clients -> RectSet],
           \A c \in Listed' : Agrees(old[c], window'[c]),
           auto_tile(client_list', window', mapped', old, conf')
    PROVE  /\ rect' \in [Clients -> RectSet] /\ xgeom' \in [Windows -> RectSet]
           /\ torn' \subseteq Windows /\ status' \in {"running", "dead"}
           /\ layout' \in {"tiled", "failed", "stale"}
           /\ RecordFollowsWindow' /\ TiledAsPlaced'
<1> DEFINE shown == Visible(client_list', window', mapped')
           n == Cardinality(shown)
           Tile(c) == Tiles(n, conf')[Nth(client_list', shown, c)]
           misfits == {c \in shown : ~Fits(Tile(c))}
<1>1. PICK called \in SUBSET shown :
        /\ misfits = {} => called = shown
        /\ rect' = [c \in Clients |->
              IF c \in called THEN Stored(old[c], Tile(c)) ELSE old[c]]
        /\ xgeom' = [w \in Windows |->
              IF \E c \in called : window'[c] = w
              THEN LET c == CHOOSE c \in called : window'[c] = w
                   IN Arranged(xgeom[w], old[c], Tile(c))
              ELSE xgeom[w]]
        /\ torn' = ((torn \cap {window'[c] : c \in Clients})
                        \ {window'[c] : c \in called})
                   \cup {window'[c] : c \in called \cap misfits}
        /\ \/ misfits = {} /\ layout' = "tiled" /\ status' = status
           \/ misfits # {} /\ layout' = "failed" /\ status' \in {"running", "dead"}
  <2> DEFINE Before(d, c) == d # c /\ IF conf'.arrangements[1] = "fullscreen"
                                      THEN NotAfter(client_list', c, d)
                                      ELSE NotAfter(client_list', d, c)
  <2> WITNESS {c \in shown : \A d \in misfits : ~Before(d, c)} \in SUBSET shown
  <2> QED BY DEF auto_tile
<1>2. shown \subseteq Listed' /\ shown \subseteq Clients /\ Listed' = ToSet(client_list')
    BY DEF Visible, Listed, ToSet
<1>3. ASSUME NEW c \in shown
      PROVE  \E x, y, w, h : Tile(c) = Rect(x, y, w, h)
  <2> DEFINE k == Nth(client_list', shown, c)
  <2>1. shown \in SUBSET ToSet(client_list') /\ Once(client_list')
    BY <1>2 DEF ListInv
  <2>2. n \in Nat /\ k \in 1..n
    BY <2>1, Places
  <2>3. n \in Nat \ {0} /\ conf' \in AnyConf
    BY <2>2, ConfsAreAny
  <2> HIDE DEF n, k, shown
  <2> QED BY <2>2, <2>3, TilesAreRects DEF k
<1> HIDE DEF shown, n, Tile, misfits
<1>4. \A c \in shown : window'[c] \in Windows /\ c \in Clients
    BY <1>2 DEF ListInv
<1>5. \A c \in called : \A d \in Listed' : window'[d] = window'[c] => d = c
    BY <1>2 DEF ListInv
\* The window of a called client.
<1>6. ASSUME NEW c \in called
      PROVE  /\ window'[c] \in Windows /\ c \in Clients
             /\ rect'[c] = Stored(old[c], Tile(c))
             /\ xgeom'[window'[c]] = Arranged(xgeom[window'[c]], old[c], Tile(c))
             /\ ~Fits(Tile(c)) => window'[c] \in torn'
  <2>1. window'[c] \in Windows /\ c \in Clients /\ c \in shown
    BY <1>1, <1>4
  <2>2. (CHOOSE d \in called : window'[d] = window'[c]) = c
    BY <1>2, <1>5
  <2>3. rect'[c] = Stored(old[c], Tile(c))
    BY <1>1, <2>1
  <2>4. xgeom'[window'[c]] = Arranged(xgeom[window'[c]], old[c], Tile(c))
    BY <1>1, <2>1, <2>2
  <2>5. ~Fits(Tile(c)) => window'[c] \in torn'
    BY <1>1, <2>1 DEF misfits
  <2> QED BY <2>1, <2>3, <2>4, <2>5
\* And that of a client it did not come to.
<1>7. ASSUME NEW c \in Listed' \ called
      PROVE  /\ c \in Clients /\ rect'[c] = old[c]
             /\ xgeom'[window'[c]] = xgeom[window'[c]]
             /\ window'[c] \in torn => window'[c] \in torn'
  <2>1. c \in Clients /\ window'[c] \in Windows
    BY DEF Listed, ToSet, ListInv
  <2>2. \A d \in called : window'[d] # window'[c]
    BY <1>5
  <2>3. rect'[c] = old[c]
    BY <1>1, <2>1
  <2>4. xgeom'[window'[c]] = xgeom[window'[c]]
    BY <1>1, <2>1, <2>2
  <2>5. window'[c] \in torn => window'[c] \in torn'
    BY <1>1, <2>1, <2>2
  <2> QED BY <2>1, <2>3, <2>4, <2>5
<1>8. ASSUME NEW c \in called
      PROVE  /\ Stored(old[c], Tile(c)) \in RectSet
             /\ Arranged(xgeom[window'[c]], old[c], Tile(c)) \in RectSet
  <2>1. old[c] \in RectSet /\ xgeom[window'[c]] \in RectSet
    BY <1>6
  <2>2. PICK x, y, w, h : Tile(c) = Rect(x, y, w, h)
    BY <1>1, <1>3
  <2>3. Tile(c) = Rect(Tile(c).x, Tile(c).y, Tile(c).width, Tile(c).height)
    BY <2>2 DEF Rect
  <2> QED BY <2>1, <2>3, StoredInRange
<1>9. rect' \in [Clients -> RectSet]
    BY <1>1, <1>8
<1>10. xgeom' \in [Windows -> RectSet]
  <2> SUFFICES ASSUME NEW w \in Windows PROVE xgeom'[w] \in RectSet
      BY <1>1
  <2>1. CASE \E c \in called : window'[c] = w
      BY <1>6, <1>8, <2>1
  <2>2. CASE ~\E c \in called : window'[c] = w
      BY <1>1, <2>2, Records
  <2> QED BY <2>1, <2>2
<1>11. torn' \subseteq Windows /\ status' \in {"running", "dead"}
       /\ layout' \in {"tiled", "failed", "stale"}
    BY <1>1, <1>4
<1>13. ASSUME NEW c \in called, Fits(Tile(c))
       PROVE  /\ rect'[c] = Tile(c)
              /\ xgeom'[window'[c]] = Tile(c) \/ Tile(c).width = 0 \/ Tile(c).height = 0
  <2>1. PICK x, y, w, h : Tile(c) = Rect(x, y, w, h)
    BY <1>1, <1>3
  <2>2. old[c] \in RectSet
    BY <1>6
  <2>3. /\ Stored(old[c], Tile(c)) = Tile(c)
        /\ w # 0 /\ h # 0 => Arranged(xgeom[window'[c]], old[c], Tile(c)) = Tile(c)
    BY <1>13, <2>1, <2>2, FitsIsStored
  <2>4. Tile(c).width = w /\ Tile(c).height = h
    BY <2>1 DEF Rect
  <2> QED BY <1>6, <2>3, <2>4
<1>14. RecordFollowsWindow'
  <2> SUFFICES ASSUME NEW c \in Listed'
               PROVE  Agrees(rect[c], window[c])'
      BY DEF RecordFollowsWindow, Agrees
  <2>1. CASE c \in called /\ Fits(Tile(c))
      BY <1>13, <2>1 DEF Agrees
  <2>2. CASE c \in called /\ ~Fits(Tile(c))
      BY <1>6, <2>2 DEF Agrees
  <2>3. CASE c \notin called
    <3>1. Agrees(old[c], window'[c])
      OBVIOUS
    <3> QED BY <1>7, <2>3, <3>1 DEF Agrees
  <2> QED BY <2>1, <2>2, <2>3
<1>15. TiledAsPlaced'
  <2> SUFFICES ASSUME layout' = "tiled", NEW c \in shown PROVE rect'[c] = Tile(c)
      BY DEF TiledAsPlaced, visible_clients, shown, Tile, n
  <2>1. misfits = {} /\ c \in called
      BY <1>1
  <2>2. Fits(Tile(c))
      BY <2>1 DEF misfits
  <2> QED BY <1>13, <2>1, <2>2
<1> QED BY <1>9, <1>10, <1>11, <1>14, <1>15

----------------------------------------------------------------------------
(* The steps.                                                              *)

LEMMA TilingInitially == TilingInit => TilingInv
<1> SUFFICES ASSUME TilingInit PROVE TilingInv
    OBVIOUS
<1>1. DOMAIN client_list = {} /\ Listed = {}
    BY DEF TilingInit, Listed, ToSet
<1>2. conf \in ConfSet
  <2>1. Gaps \subseteq Nat /\ MaxMaster \in Nat \ {0}
    BY TilingAssumption, Zenon
  <2>2. PICK g \in Gaps : conf = [gap |-> g, master_count |-> 1, master_perc |-> 50,
                                  arrangements |-> <<"vtile", "htile", "fullscreen">>]
    BY DEF TilingInit
  <2>3. 1 \in 1..MaxMaster /\ 50 \in 1..98
    BY <2>1
  <2>4. <<"vtile", "htile", "fullscreen">> \in Arrangements
    BY DEF Arrangements
  <2> HIDE DEF Arrangements
  <2> QED BY <2>2, <2>3, <2>4 DEF ConfSet
<1>3. TilingTypeOK
    BY <1>1, <1>2, Records DEF TilingInit, TilingTypeOK
<1>4. ListInv
    BY <1>1 DEF TilingInit, ListInv, Once
<1>6. RecordFollowsWindow
    BY <1>1 DEF RecordFollowsWindow
<1>7. TiledAsPlaced
    BY DEF TilingInit, TiledAsPlaced
<1> QED BY <1>3, <1>4, <1>6, <1>7 DEF TilingInv

\* A step that ends with a run of auto-tile.
LEMMA AfterAutoTile ==
    ASSUME TilingInv,
           client_list' \in Seq(Clients), window' \in [Clients -> Windows \cup {NoWindow}],
           mapped' \subseteq Managed', conf' \in ConfSet, ListInv',
           NEW old \in [Clients -> RectSet],
           \A c \in Listed' : Agrees(old[c], window'[c]),
           auto_tile(client_list', window', mapped', old, conf')
    PROVE  TilingInv'
<1>1. xgeom \in [Windows -> RectSet] /\ torn \subseteq Windows
      /\ status \in {"running", "dead"}
    BY DEF TilingInv, TilingTypeOK
<1>2. /\ rect' \in [Clients -> RectSet] /\ xgeom' \in [Windows -> RectSet]
      /\ torn' \subseteq Windows /\ status' \in {"running", "dead"}
      /\ layout' \in {"tiled", "failed", "stale"}
      /\ RecordFollowsWindow' /\ TiledAsPlaced'
    BY <1>1, AutoTile
<1> QED BY <1>2 DEF TilingInv, TilingTypeOK

LEMMA AllAgree == TilingInv => \A c \in Listed : Agrees(rect[c], window[c])
BY DEF TilingInv, RecordFollowsWindow, Agrees

LEMMA ListedAreClients == TilingInv => Listed \subseteq Clients
BY DEF TilingInv, TilingTypeOK, Listed, ToSet

LEMMA Managing ==
    ASSUME TilingInv, NEW c \in Clients, NEW w \in Windows, manage_window(c, w)
    PROVE  TilingInv'
<1>1. /\ c \notin Listed /\ w \notin Managed /\ conf' = conf
      /\ client_list' = <<c>> \o client_list
      /\ window' = [window EXCEPT ![c] = w] /\ mapped' = mapped \cup {w}
    BY DEF manage_window
<1> DEFINE old == [rect EXCEPT ![c] = xgeom[w]]
<1>2. auto_tile(client_list', window', mapped', old, conf')
  <2>1. auto_tile(client_list', window', mapped', old, conf)
    BY DEF manage_window
  <2> QED BY <1>1, <2>1
<1>3. /\ client_list' \in Seq(Clients) /\ Once(client_list)'
      /\ Listed' = Listed \cup {c}
    BY <1>1, Prepended DEF TilingInv, TilingTypeOK, ListInv, Listed
<1>4. /\ window' \in [Clients -> Windows \cup {NoWindow}] /\ window'[c] = w
      /\ \A d \in Clients \ {c} : window'[d] = window[d]
    BY <1>1 DEF TilingInv, TilingTypeOK
<1>5. Listed \subseteq Clients
    BY ListedAreClients
<1>6. Managed' = Managed \cup {w}
    BY <1>1, <1>3, <1>4, <1>5 DEF Managed
<1>7. mapped' \subseteq Managed' /\ conf' \in ConfSet
    BY <1>1, <1>6 DEF TilingInv, TilingTypeOK
<1>8. ListInv'
  <2>1. \A d \in Listed : window[d] # w
    BY <1>1 DEF Managed
  <2> QED BY <1>1, <1>3, <1>4, <1>5, <2>1 DEF TilingInv, ListInv
<1>9. /\ old \in [Clients -> RectSet] /\ old[c] = xgeom[w]
      /\ \A d \in Clients \ {c} : old[d] = rect[d]
    BY DEF TilingInv, TilingTypeOK
<1> HIDE DEF old
<1>10. \A d \in Listed' : Agrees(old[d], window'[d])
  <2>1. Agrees(xgeom[w], w)
    BY DEF Agrees
  <2> QED BY <1>1, <1>3, <1>4, <1>5, <1>9, <2>1, AllAgree
<1> QED BY <1>2, <1>3, <1>4, <1>7, <1>8, <1>9, <1>10, AfterAutoTile

LEMMA Removing ==
    ASSUME TilingInv, NEW c \in Clients, remove_client(c)
    PROVE  TilingInv'
<1>1. PICK k \in DOMAIN client_list :
        client_list[k] = c /\ client_list' = RemoveAt(client_list, k)
    BY DEF remove_client
<1>2. /\ window' = [window EXCEPT ![c] = NoWindow] /\ mapped' = mapped \ {window[c]}
      /\ conf' = conf
    BY DEF remove_client
<1> DEFINE old == [rect EXCEPT ![c] = Blank]
<1>3. auto_tile(client_list', window', mapped', old, conf')
  <2>1. auto_tile(client_list', window', mapped', old, conf)
    BY DEF remove_client
  <2> QED BY <1>2, <2>1
<1>4. /\ client_list' \in Seq(Clients) /\ Once(client_list)'
      /\ Listed' = Listed \ {c}
    BY <1>1, Removed DEF TilingInv, TilingTypeOK, ListInv, Listed
<1>5. /\ window' \in [Clients -> Windows \cup {NoWindow}] /\ window'[c] = NoWindow
      /\ \A d \in Clients \ {c} : window'[d] = window[d]
    BY <1>2 DEF TilingInv, TilingTypeOK
<1>6. Listed \subseteq Clients /\ c \in Listed
    BY <1>1, ListedAreClients DEF Listed, ToSet
<1>7. Managed' = Managed \ {window[c]}
    BY <1>4, <1>5, <1>6 DEF Managed, TilingInv, ListInv
<1>8. mapped' \subseteq Managed' /\ conf' \in ConfSet
    BY <1>2, <1>7 DEF TilingInv, TilingTypeOK
<1>9. ListInv'
    BY <1>4, <1>5, <1>6 DEF TilingInv, ListInv
<1>10. /\ old \in [Clients -> RectSet]
       /\ \A d \in Clients \ {c} : old[d] = rect[d]
    BY Records DEF TilingInv, TilingTypeOK
<1> HIDE DEF old
<1>11. \A d \in Listed' : Agrees(old[d], window'[d])
    BY <1>4, <1>5, <1>6, <1>10, AllAgree
<1> QED BY <1>3, <1>4, <1>5, <1>8, <1>9, <1>10, <1>11, AfterAutoTile

\* The steps that neither change the list nor give a structure another window.
LEMMA Retiling ==
    ASSUME TilingInv, client_list' = client_list, window' = window,
           mapped' \subseteq Managed, conf' \in ConfSet,
           auto_tile(client_list, window, mapped', rect, conf')
    PROVE  TilingInv'
<1>1. auto_tile(client_list', window', mapped', rect, conf')
    OBVIOUS
<1>2. Listed' = Listed /\ Managed' = Managed
    BY DEF Listed, Managed
<1>3. ListInv'
    BY <1>2 DEF TilingInv, ListInv
<1>4. /\ client_list' \in Seq(Clients) /\ window' \in [Clients -> Windows \cup {NoWindow}]
      /\ rect \in [Clients -> RectSet]
    BY DEF TilingInv, TilingTypeOK
<1>5. \A c \in Listed' : Agrees(rect[c], window'[c])
    BY <1>2, AllAgree
<1> QED BY <1>1, <1>2, <1>3, <1>4, <1>5, AfterAutoTile

LEMMA ShowingOrHiding ==
    ASSUME TilingInv, NEW c \in Clients, show_or_hide(c)
    PROVE  TilingInv'
<1>1. /\ client_list' = client_list /\ window' = window /\ conf' = conf /\ c \in Listed
      /\ mapped' = IF window[c] \in mapped THEN mapped \ {window[c]}
                   ELSE mapped \cup {window[c]}
    BY DEF show_or_hide
<1>2. auto_tile(client_list, window, mapped', rect, conf')
  <2>1. auto_tile(client_list, window, mapped', rect, conf)
    BY DEF show_or_hide
  <2> QED BY <1>1, <2>1
<1>3. mapped' \subseteq Managed /\ conf' \in ConfSet
    BY <1>1 DEF TilingInv, TilingTypeOK, Managed
<1> QED BY <1>1, <1>2, <1>3, Retiling

LEMMA Retiled ==
    ASSUME TilingInv, NEW s \in ConfSet, Retile(s)
    PROVE  TilingInv'
<1>1. /\ client_list' = client_list /\ window' = window /\ mapped' = mapped /\ conf' = s
    BY DEF Retile
<1>2. auto_tile(client_list, window, mapped', rect, conf')
  <2>1. auto_tile(client_list, window, mapped, rect, s)
    BY DEF Retile
  <2> QED BY <1>1, <2>1
<1>3. mapped' \subseteq Managed
    BY <1>1 DEF TilingInv, TilingTypeOK
<1> QED BY <1>1, <1>2, <1>3, Retiling

LEMMA CountingMasters ==
    ASSUME TilingInv, add_master \/ remove_master
    PROVE  TilingInv'
<1>1. MaxMaster \in Nat \ {0}
    BY TilingAssumption, Zenon
<1>2. conf \in ConfSet /\ conf.master_count \in 1..MaxMaster
    BY <1>1 DEF TilingInv, TilingTypeOK, ConfSet
<1>3. \A m \in 1..MaxMaster : [conf EXCEPT !.master_count = m] \in ConfSet
    BY <1>2 DEF ConfSet
<1>4. CASE add_master
  <2> DEFINE m == conf.master_count + 1
  <2>1. m \in 1..MaxMaster
    BY <1>1, <1>2, <1>4 DEF add_master
  <2>2. Retile([conf EXCEPT !.master_count = m])
    BY <1>4 DEF add_master
  <2> HIDE DEF m
  <2> QED BY <1>3, <2>1, <2>2, Retiled
<1>5. CASE remove_master
  <2> DEFINE m == IF conf.master_count > 1 THEN conf.master_count - 1
                  ELSE conf.master_count
  <2>1. m \in 1..MaxMaster
    BY <1>1, <1>2
  <2>2. Retile([conf EXCEPT !.master_count = m])
    BY <1>5 DEF remove_master
  <2> HIDE DEF m
  <2> QED BY <1>3, <2>1, <2>2, Retiled
<1> QED BY <1>4, <1>5

LEMMA SizingMasters ==
    ASSUME TilingInv, NEW amount \in Amounts, grow_master(amount) \/ shrink_master(amount)
    PROVE  TilingInv'
<1>1. Amounts \subseteq Nat
    BY TilingAssumption, Zenon
<1>2. conf \in ConfSet /\ conf.master_perc \in 1..98 /\ amount \in Nat
    BY <1>1 DEF TilingInv, TilingTypeOK, ConfSet
<1>3. \A m \in 1..98 : [conf EXCEPT !.master_perc = m] \in ConfSet
    BY <1>2 DEF ConfSet
<1>4. CASE grow_master(amount)
  <2> DEFINE m == IF conf.master_perc < 100 - (amount + 1)
                  THEN conf.master_perc + amount ELSE conf.master_perc
  <2>1. m \in 1..98
    BY <1>2
  <2>2. Retile([conf EXCEPT !.master_perc = m])
    BY <1>4 DEF grow_master
  <2> HIDE DEF m
  <2> QED BY <1>3, <2>1, <2>2, Retiled
<1>5. CASE shrink_master(amount)
  <2> DEFINE m == IF conf.master_perc >= amount + 1
                  THEN conf.master_perc - amount ELSE conf.master_perc
  <2>1. m \in 1..98
    BY <1>2
  <2>2. Retile([conf EXCEPT !.master_perc = m])
    BY <1>5 DEF shrink_master
  <2> HIDE DEF m
  <2> QED BY <1>3, <2>1, <2>2, Retiled
<1> QED BY <1>4, <1>5

\* The arrangements come round again.
LEMMA Cycled ==
    ASSUME NEW a \in Arrangements
    PROVE  Tail(a) \o <<Head(a)>> \in Arrangements
<1>1. PICK x, y, z : a = <<x, y, z>>
    BY DEF Arrangements
<1> DEFINE S == {x, y, z}
           t == Tail(a)
           b == t \o <<x>>
<1>2. a \in Seq(S) /\ Len(a) = 3 /\ a # << >> /\ a[1] = x /\ a[2] = y /\ a[3] = z
    BY <1>1
<1>3. t \in Seq(S) /\ Len(t) = 2 /\ t[1] = y /\ t[2] = z
  <2>1. /\ t \in Seq(S) /\ Len(t) = Len(a) - 1
        /\ \A i \in 1..Len(t) : t[i] = a[i + 1]
    BY <1>2, HeadTailProperties
  <2> QED BY <1>2, <2>1
<1>4. <<x>> \in Seq(S) /\ Len(<<x>>) = 1 /\ <<x>>[1] = x
    OBVIOUS
<1> HIDE DEF S, t
<1>5. b \in Seq(S) /\ Len(b) = 3 /\ b[1] = y /\ b[2] = z /\ b[3] = x
  <2> DEFINE u == <<x>>
  <2>1. u \in Seq(S) /\ Len(u) = 1 /\ u[1] = x
    BY <1>4
  <2> HIDE DEF u
  <2>2. /\ t \o u \in Seq(S) /\ Len(t \o u) = Len(t) + Len(u)
        /\ \A i \in 1..(Len(t) + Len(u)) :
              (t \o u)[i] = IF i <= Len(t) THEN t[i] ELSE u[i - Len(t)]
    BY <1>3, <2>1, ConcatProperties
  <2>3. Len(t) = 2 /\ Len(u) = 1
    BY <1>3, <2>1
  <2>4. /\ t \o u \in Seq(S) /\ Len(t \o u) = 3
        /\ (t \o u)[1] = t[1] /\ (t \o u)[2] = t[2] /\ (t \o u)[3] = u[1]
    BY <2>2, <2>3
  <2> QED BY <1>3, <2>1, <2>4 DEF u
<1> HIDE DEF b
<1>6. b = <<y, z, x>>
    BY <1>5
<1>7. Head(a) = x
    BY <1>1
<1>8. <<y, z, x>> \in Arrangements
    BY <1>1 DEF Arrangements
<1> QED BY <1>6, <1>7, <1>8 DEF b, t

LEMMA Cycling ==
    ASSUME TilingInv, auto_tile_cycle_arrangement
    PROVE  TilingInv'
<1> DEFINE a == Tail(conf.arrangements) \o <<Head(conf.arrangements)>>
<1>1. conf \in ConfSet /\ conf.arrangements \in Arrangements
    BY DEF TilingInv, TilingTypeOK, ConfSet
<1>2. a \in Arrangements
    BY <1>1, Cycled
<1>3. Retile([conf EXCEPT !.arrangements = a])
    BY DEF auto_tile_cycle_arrangement
<1> HIDE DEF a
<1>4. [conf EXCEPT !.arrangements = a] \in ConfSet
    BY <1>1, <1>2 DEF ConfSet
<1> QED BY <1>3, <1>4, Retiled

LEMMA Reversing ==
    ASSUME TilingInv, client_list_reverse
    PROVE  TilingInv'
<1>1. client_list' \in Seq(Clients) /\ Once(client_list') /\ Listed' = Listed
    BY Reversed DEF client_list_reverse, TilingInv, TilingTypeOK, ListInv, Listed
<1>2. UNCHANGED <<window, mapped, conf, rect, xgeom, status, torn>> /\ layout' = "stale"
    BY DEF client_list_reverse
<1>3. Managed' = Managed
    BY <1>1, <1>2 DEF Managed
<1> QED BY <1>1, <1>2, <1>3 DEF TilingInv, TilingTypeOK, ListInv,
                                RecordFollowsWindow, TiledAsPlaced

\* Whose contents structure e has once those of c and d are exchanged.
Exchanged(c, d, e) == IF e = c THEN d ELSE IF e = d THEN c ELSE e

LEMMA SwappedList ==
    ASSUME TilingInv, NEW c \in Listed, NEW d \in Listed,
           client_list' = client_list, window' = Swapped(window, c, d)
    PROVE  /\ window' \in [Clients -> Windows \cup {NoWindow}]
           /\ Swapped(rect, c, d) \in [Clients -> RectSet]
           /\ Listed' = Listed /\ Managed' = Managed /\ ListInv'
           /\ \A e \in Listed : Agrees(Swapped(rect, c, d)[e], window'[e])
<1>1. Listed' = Listed /\ Listed \subseteq Clients
    BY ListedAreClients DEF Listed
<1>2. /\ window' \in [Clients -> Windows \cup {NoWindow}]
      /\ Swapped(rect, c, d) \in [Clients -> RectSet]
      /\ \A e \in Clients : /\ window'[e] = window[Exchanged(c, d, e)]
                            /\ Swapped(rect, c, d)[e] = rect[Exchanged(c, d, e)]
  <2>1. /\ window \in [Clients -> Windows \cup {NoWindow}] /\ rect \in [Clients -> RectSet]
        /\ c \in Clients /\ d \in Clients
    BY <1>1 DEF TilingInv, TilingTypeOK
  <2>2. /\ Swapped(window, c, d) \in [Clients -> Windows \cup {NoWindow}]
        /\ \A e \in Clients : Swapped(window, c, d)[e] = window[Exchanged(c, d, e)]
    BY <2>1 DEF Swapped, Exchanged
  <2>3. /\ Swapped(rect, c, d) \in [Clients -> RectSet]
        /\ \A e \in Clients : Swapped(rect, c, d)[e] = rect[Exchanged(c, d, e)]
    BY <2>1 DEF Swapped, Exchanged
  <2> QED BY <2>2, <2>3
<1>3. /\ \A e \in Listed : Exchanged(c, d, e) \in Listed
      /\ \A e \in Clients : Exchanged(c, d, Exchanged(c, d, e)) = e
      /\ \A e \in Clients \ Listed : Exchanged(c, d, e) = e
    BY DEF Exchanged
<1>4. Managed' = Managed
    BY <1>1, <1>2, <1>3 DEF Managed
<1>5. ListInv'
    BY <1>1, <1>2, <1>3 DEF TilingInv, ListInv
<1>6. \A e \in Listed : Agrees(Swapped(rect, c, d)[e], window'[e])
    BY <1>1, <1>2, <1>3, AllAgree
<1> QED BY <1>1, <1>2, <1>4, <1>5, <1>6

LEMMA Swapping ==
    ASSUME TilingInv, NEW c \in Clients, NEW d \in Clients, client_list_swap(c, d)
    PROVE  TilingInv'
<1>1. /\ c \in Listed /\ d \in Listed /\ window' = Swapped(window, c, d)
      /\ rect' = Swapped(rect, c, d) /\ layout' = "stale"
      /\ UNCHANGED <<client_list, mapped, conf, xgeom, status, torn>>
    BY DEF client_list_swap
<1>2. /\ window' \in [Clients -> Windows \cup {NoWindow}] /\ rect' \in [Clients -> RectSet]
      /\ Listed' = Listed /\ Managed' = Managed /\ ListInv'
      /\ \A e \in Listed : Agrees(rect'[e], window'[e])
    BY <1>1, SwappedList
<1>3. TilingTypeOK' /\ TiledAsPlaced'
    BY <1>1, <1>2 DEF TilingInv, TilingTypeOK, TiledAsPlaced
<1>4. RecordFollowsWindow'
    BY <1>1, <1>2 DEF RecordFollowsWindow, Agrees
<1> QED BY <1>2, <1>3, <1>4 DEF TilingInv

LEMMA SwappingMaster ==
    ASSUME TilingInv, NEW c \in Clients, NEW d \in Clients, swap_master(c, d)
    PROVE  TilingInv'
<1> DEFINE old == Swapped(rect, c, d)
<1>1. /\ c \in Listed /\ d \in Listed /\ window' = Swapped(window, c, d)
      /\ UNCHANGED <<client_list, mapped, conf>>
    BY DEF swap_master, visible_clients, Visible, Listed
<1>2. auto_tile(client_list', window', mapped', old, conf')
  <2>1. auto_tile(client_list', window', mapped, old, conf)
    BY DEF swap_master
  <2> QED BY <1>1, <2>1
<1>3. /\ window' \in [Clients -> Windows \cup {NoWindow}] /\ old \in [Clients -> RectSet]
      /\ Listed' = Listed /\ Managed' = Managed /\ ListInv'
      /\ \A e \in Listed : Agrees(old[e], window'[e])
    BY <1>1, SwappedList
<1> HIDE DEF old
<1>4. client_list' \in Seq(Clients) /\ mapped' \subseteq Managed' /\ conf' \in ConfSet
    BY <1>1, <1>3 DEF TilingInv, TilingTypeOK
<1> QED BY <1>2, <1>3, <1>4, AfterAutoTile

LEMMA Placing ==
    ASSUME TilingInv, NEW c \in Clients, NEW x, NEW y, NEW w, NEW h,
           Place(c, Rect(x, y, w, h))
    PROVE  TilingInv'
<1> DEFINE r == Rect(x, y, w, h)
<1>1. /\ c \in Listed /\ layout' = "stale"
      /\ UNCHANGED <<client_list, window, mapped, conf, status>>
      /\ rect' = [rect EXCEPT ![c] = Stored(rect[c], r)]
      /\ xgeom' = IF Fits(r) THEN [xgeom EXCEPT ![window[c]] =
                                      Configured(xgeom[window[c]], r)] ELSE xgeom
      /\ torn' = IF Fits(r) THEN torn \ {window[c]} ELSE torn \cup {window[c]}
    BY DEF Place
<1>2. Listed' = Listed /\ Managed' = Managed /\ Listed \subseteq Clients
    BY <1>1, ListedAreClients DEF Listed, Managed
<1>3. rect \in [Clients -> RectSet] /\ xgeom \in [Windows -> RectSet]
      /\ window[c] \in Windows /\ window[c] \in Managed
    BY <1>1 DEF TilingInv, TilingTypeOK, ListInv, Managed
<1>4. Stored(rect[c], r) \in RectSet
    BY <1>3, StoredInRange
<1>5. Fits(r) => Configured(xgeom[window[c]], r) \in RectSet
    BY <1>3 DEF Fits, MoveFits, Configured, Rect, RectSet
<1>6. Fits(r) => /\ Stored(rect[c], r) = r
                 /\ \/ r.width = 0 \/ r.height = 0
                    \/ Configured(xgeom[window[c]], r) = r
  <2> SUFFICES ASSUME Fits(r) PROVE /\ Stored(rect[c], r) = r
                                    /\ \/ r.width = 0 \/ r.height = 0
                                       \/ Configured(xgeom[window[c]], r) = r
      OBVIOUS
  <2>1. /\ Stored(rect[c], r) = r
        /\ w # 0 /\ h # 0 => Arranged(xgeom[window[c]], rect[c], r) = r
    <3>1. rect[c] \in RectSet
      BY <1>2, <1>1, <1>3
    <3> QED BY <3>1, FitsIsStored
  <2> HIDE DEF r
  <2> QED BY <2>1 DEF Configured
<1> HIDE DEF r
<1>7. /\ rect' \in [Clients -> RectSet] /\ rect'[c] = Stored(rect[c], r)
      /\ \A d \in Clients \ {c} : rect'[d] = rect[d]
    BY <1>1, <1>3, <1>4
<1>8. /\ xgeom' \in [Windows -> RectSet]
      /\ Fits(r) => xgeom'[window[c]] = Configured(xgeom[window[c]], r)
      /\ \A v \in Windows \ {window[c]} : xgeom'[v] = xgeom[v]
    BY <1>1, <1>3, <1>5
<1>9. TilingTypeOK'
    BY <1>1, <1>2, <1>3, <1>7, <1>8 DEF TilingInv, TilingTypeOK
<1>10. ListInv' /\ TiledAsPlaced'
    BY <1>1, <1>2 DEF TilingInv, ListInv, TiledAsPlaced
<1>11. RecordFollowsWindow'
  <2> SUFFICES ASSUME NEW d \in Listed PROVE Agrees(rect[d], window[d])'
      BY <1>2 DEF RecordFollowsWindow, Agrees
  <2>1. CASE d = c /\ Fits(r)
      BY <1>1, <1>6, <1>7, <1>8, <2>1 DEF Agrees
  <2>2. CASE d = c /\ ~Fits(r)
      BY <1>1, <2>2 DEF Agrees
  <2>3. CASE d # c
    <3>1. window[d] # window[c] /\ window[d] \in Windows /\ d \in Clients
      BY <1>1, <1>2, <2>3 DEF TilingInv, ListInv
    <3>2. Agrees(rect[d], window[d])
      BY AllAgree
    <3> QED BY <1>1, <1>7, <1>8, <2>3, <3>1, <3>2 DEF Agrees
  <2> QED BY <2>1, <2>2, <2>3
<1> QED BY <1>9, <1>10, <1>11 DEF TilingInv

\* A program has its window somewhere, or gets the whole screen for it.
LEMMA Configuring ==
    ASSUME TilingInv, NEW w \in Windows,
           CreateWindow(w) \/ handle_configure_request_event(w)
    PROVE  TilingInv'
<1> DEFINE whole == Rect(0, 0, ScreenWidth, ScreenHeight)
<1>1. whole \in RectSet /\ AppGeometry \in RectSet
  <2>1. ScreenWidth \in UInt16 /\ ScreenHeight \in UInt16
    BY TilingAssumption, Zenon
  <2>2. whole \in RectSet
    BY <2>1 DEF Rect, RectSet, Int16
  <2> QED BY <2>2, Records
<1> HIDE DEF whole
<1>2. UNCHANGED <<client_list, window, mapped, conf, rect, status, layout, torn>>
    BY DEF CreateWindow, handle_configure_request_event
<1>3. Listed' = Listed /\ Managed' = Managed /\ visible_clients' = visible_clients
    BY <1>2 DEF Listed, Managed, visible_clients
<1>4. \/ w \notin Managed /\ xgeom' = [xgeom EXCEPT ![w] = AppGeometry]
      \/ xgeom' = [xgeom EXCEPT ![w] = whole]
    BY DEF CreateWindow, handle_configure_request_event, whole
<1>5. /\ xgeom \in [Windows -> RectSet] /\ xgeom' \in [Windows -> RectSet]
      /\ w \in Managed => xgeom'[w] = whole
      /\ \A v \in Windows \ {w} : xgeom'[v] = xgeom[v]
    BY <1>1, <1>4 DEF TilingInv, TilingTypeOK
<1>6. TilingTypeOK' /\ ListInv' /\ TiledAsPlaced'
    BY <1>2, <1>3, <1>5 DEF TilingInv, TilingTypeOK, ListInv, TiledAsPlaced
<1>7. RecordFollowsWindow'
  <2>1. \A c \in Listed : window[c] \in Windows /\ window[c] \in Managed
    BY DEF TilingInv, ListInv, Managed
  <2> QED BY <1>2, <1>3, <1>5, <2>1 DEF TilingInv, RecordFollowsWindow, whole
<1> QED BY <1>6, <1>7 DEF TilingInv

LEMMA TilingStep == TilingInv /\ [TilingNext]_tvars => TilingInv'
<1> SUFFICES ASSUME TilingInv, [TilingNext]_tvars PROVE TilingInv'
    OBVIOUS
<1>1. ASSUME NEW c \in Clients, NEW w \in Windows, manage_window(c, w) PROVE TilingInv'
    BY <1>1, Managing
<1>2. ASSUME NEW c \in Clients, remove_client(c) PROVE TilingInv'
    BY <1>2, Removing
<1>3. ASSUME NEW c \in Clients, show_or_hide(c) PROVE TilingInv'
    BY <1>3, ShowingOrHiding
<1>4. ASSUME NEW w \in Windows, CreateWindow(w) \/ handle_configure_request_event(w)
      PROVE  TilingInv'
    BY <1>4, Configuring
<1>5. CASE add_master \/ remove_master
    BY <1>5, CountingMasters
<1>6. ASSUME NEW amount \in Amounts, grow_master(amount) \/ shrink_master(amount)
      PROVE  TilingInv'
    BY <1>6, SizingMasters
<1>7. CASE auto_tile_cycle_arrangement
    BY <1>7, Cycling
<1>8. CASE client_list_reverse
    BY <1>8, Reversing
<1>9. ASSUME NEW c \in Clients, NEW d \in Clients, client_list_swap(c, d) PROVE TilingInv'
    BY <1>9, Swapping
<1>10. ASSUME NEW c \in Clients, NEW d \in Clients, swap_master(c, d) PROVE TilingInv'
    BY <1>10, SwappingMaster
<1>11. ASSUME NEW c \in Clients, NEW p \in Moves, move_client(c, p) PROVE TilingInv'
  <2>1. Place(c, Rect(p[1], p[2], rect[c].width, rect[c].height))
    BY <1>11 DEF move_client
  <2> QED BY <2>1, Placing
<1>12. ASSUME NEW c \in Clients, NEW p \in Sizes, resize_client(c, p) PROVE TilingInv'
  <2>1. Place(c, Rect(rect[c].x, rect[c].y, p[1], p[2]))
    BY <1>12 DEF resize_client
  <2> QED BY <2>1, Placing
<1>13. CASE UNCHANGED tvars
  <2>1. UNCHANGED <<client_list, window, rect, mapped, xgeom, conf, status, layout, torn>>
    BY <1>13 DEF tvars, outcome
  <2>2. Listed' = Listed /\ Managed' = Managed /\ visible_clients' = visible_clients
    BY <2>1 DEF Listed, Managed, visible_clients
  <2> QED BY <2>1, <2>2 DEF TilingInv, TilingTypeOK, ListInv,
                            RecordFollowsWindow, TiledAsPlaced
<1> QED BY <1>1, <1>2, <1>3, <1>4, <1>5, <1>6, <1>7, <1>8, <1>9, <1>10, <1>11, <1>12,
           <1>13 DEF TilingNext

\* The inductive invariant: a structure is on the list once and its window is
\* in no other, records and windows agree, and once auto-tile has returned the
\* records are the tiles (all handlers of Tiling).
THEOREM TilingInvariant == TilingSpec => []TilingInv
BY TilingInitially, TilingStep, PTL DEF TilingSpec

\* Every geometry, recorded or given to the server, fits the 16 bits of the
\* fields it is stored in, and the share of the master area is between 1 and
\* 98 per cent (scm_move_client, scm_resize_client, grow-master).
THEOREM TilingTypeCorrect == TilingSpec => []TilingTypeOK
<1>1. TilingInv => TilingTypeOK
    BY DEF TilingInv
<1> QED BY <1>1, TilingInvariant, PTL

\* The record in a structure is that of the window in it, through swaps,
\* removals and calls that are cut short (client-list-swap, auto-tile).
THEOREM RecordsFollow == TilingSpec => []RecordFollowsWindow
<1>1. TilingInv => RecordFollowsWindow
    BY DEF TilingInv
<1> QED BY <1>1, TilingInvariant, PTL

\* The tiles of clients that have different places, and their borders.
LEMMA SidesOfTiles ==
    ASSUME NEW n \in Nat \ {0}, conf \in AnyConf, NEW S,
           NEW at \in [S -> 1..n], \A c, d \in S : c # d => at[c] # at[d]
    PROVE  /\ SideBySide([c \in S |-> Tiles(n, conf)[at[c]]])
           /\ 2 * border_width <= conf.gap =>
                 SideBySide([c \in S |-> Border(Tiles(n, conf)[at[c]])])
<1>1. \A c \in S : Tiles(n, conf)[at[c]] = TileAt(n, conf, at[c])
    BY TilesAre
<1>2. ASSUME NEW t \in AnyConf, t.arrangements = conf.arrangements
      PROVE  SideBySide([c \in S |-> TileAt(n, t, at[c])])
  <2>1. \A c \in S : OnScreen(TileAt(n, t, at[c]))
    BY TilesOnScreen
  <2>2. ASSUME conf.arrangements[1] # "fullscreen", NEW c \in S, NEW d \in S, c # d
        PROVE  Apart(TileAt(n, t, at[c]), TileAt(n, t, at[d]))
    BY <1>2, <2>2, TwoTilesApart
  <2> QED BY <2>1, <2>2 DEF SideBySide
<1>3. SideBySide([c \in S |-> Tiles(n, conf)[at[c]]])
  <2>1. [c \in S |-> Tiles(n, conf)[at[c]]] = [c \in S |-> TileAt(n, conf, at[c])]
    BY <1>1
  <2> QED BY <1>2, <2>1
<1>4. ASSUME 2 * border_width <= conf.gap
      PROVE  SideBySide([c \in S |-> Border(Tiles(n, conf)[at[c]])])
  <2> DEFINE t == [conf EXCEPT !.gap = conf.gap - 2 * border_width]
  <2>1. /\ t \in AnyConf
        /\ \A k \in 1..n : Border(TileAt(n, conf, k)) = TileAt(n, t, k)
    BY <1>4, BorderedTile
  <2>2. t.arrangements = conf.arrangements
    BY DEF AnyConf
  <2> HIDE DEF t
  <2>3. [c \in S |-> Border(Tiles(n, conf)[at[c]])] = [c \in S |-> TileAt(n, t, at[c])]
    BY <1>1, <2>1
  <2> QED BY <1>2, <2>1, <2>2, <2>3
<1> QED BY <1>3, <1>4

\* For any number of clients, any gap and any size of the screen, the tiles of
\* the visible clients lie side by side on the screen, and their borders where
\* the gap has room for them (auto-vtile, auto-htile, auto-fullscreen).
THEOREM SideBySideTiles == TilingSpec => []TilesApart
<1>1. TilingInv => TilesApart
  <2> SUFFICES ASSUME TilingInv PROVE TilesApart
      OBVIOUS
  <2>1. conf \in AnyConf
    BY ConfsAreAny DEF TilingInv, TilingTypeOK
  <2>2. ASSUME layout = "tiled" PROVE SideBySide([c \in visible_clients |-> rect[c]])
    <3> DEFINE S == visible_clients
               n == Cardinality(S)
               at == [c \in S |-> Nth(client_list, S, c)]
    <3>1. client_list \in Seq(Clients) /\ Once(client_list) /\ S \in SUBSET ToSet(client_list)
      BY DEF TilingInv, TilingTypeOK, ListInv, visible_clients, Visible
    <3>2. /\ n \in Nat /\ at \in [S -> 1..n]
          /\ \A c, d \in S : c # d => at[c] # at[d]
      BY <3>1, Places
    <3>3. \A c \in S : rect[c] = Tiles(n, conf)[at[c]]
      BY <2>2 DEF TilingInv, TiledAsPlaced
    <3> HIDE DEF S, n, at
    <3>4. CASE S = {}
      BY <3>4 DEF SideBySide, S
    <3>5. CASE S # {}
      <4>1. n \in Nat \ {0}
        BY <3>2, <3>5
      <4>2. SideBySide([c \in S |-> Tiles(n, conf)[at[c]]])
        BY <2>1, <3>2, <4>1, SidesOfTiles
      <4>3. [c \in S |-> Tiles(n, conf)[at[c]]] = [c \in S |-> rect[c]]
        BY <3>3
      <4> QED BY <4>2, <4>3 DEF S
    <3> QED BY <3>4, <3>5
  <2>3. ASSUME NEW n \in 1..MaxTiled
        PROVE  /\ SideBySide(Tiles(n, conf))
               /\ 2 * border_width <= conf.gap =>
                     SideBySide([k \in 1..n |-> Border(Tiles(n, conf)[k])])
    <3> DEFINE at == [k \in 1..n |-> k]
               T == Tiles(n, conf)
    <3>1. n \in Nat \ {0}
      <4>1. MaxTiled \in Nat
        BY TilingAssumption, Zenon
      <4> QED BY <4>1
    <3>2. at \in [1..n -> 1..n] /\ \A j, k \in 1..n : j # k => at[j] # at[k]
      OBVIOUS
    <3>3. /\ SideBySide([k \in 1..n |-> T[at[k]]])
          /\ 2 * border_width <= conf.gap => SideBySide([k \in 1..n |-> Border(T[at[k]])])
      <4> HIDE DEF at
      <4> QED BY <2>1, <3>1, <3>2, SidesOfTiles
    <3>4. DOMAIN T = 1..n
      BY <2>1, <3>1, TilesAre
    <3> HIDE DEF T
    <3>5. /\ [k \in 1..n |-> T[at[k]]] = [k \in 1..n |-> T[k]]
          /\ [k \in 1..n |-> Border(T[at[k]])] = [k \in 1..n |-> Border(T[k])]
      OBVIOUS
    <3>6. SideBySide([k \in 1..n |-> T[k]])
      BY <3>3, <3>5
    <3>7. SideBySide(T)
      BY <3>4, <3>6 DEF SideBySide
    <3> QED BY <3>3, <3>5, <3>7 DEF T
  <2> QED BY <2>2, <2>3 DEF TilesApart
<1> QED BY <1>1, TilingInvariant, PTL

=============================================================================
