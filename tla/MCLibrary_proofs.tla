---------------------------- MODULE MCLibrary_proofs ----------------------------
(* Proofs about the library: the list read page by page while its frames are *)
(* deleted, the viewers, zooming and playing, the map, the uploads, the      *)
(* presets and animations, and the schedule of the live view.                *)
EXTENDS MCLibrary, FiniteSetTheorems, SequenceTheorems, TLAPS

-----------------------------------------------------------------------------
(* The order of a list. *)

IsOrdered(s, S) ==
    s \in [1..Cardinality(S) -> S] /\ \A i, j \in DOMAIN s : i < j => s[i] > s[j]

LEMMA LeastNumber == ASSUME NEW T, T \subseteq Nat, T # {} PROVE \E n \in T : \A m \in T : n <= m
<1>1. \E n \in T : \A m \in T : ~(<<m, n>> \in OpToRel(<, Nat))
  BY WFMin, NatLessThanWellFounded
<1>2. \E n \in T : \A m \in T : ~(m < n)
  BY <1>1 DEF OpToRel
<1> QED BY <1>2

\* The smallest of the rows is the last of them.
LEMMA OrderExists ==
    ASSUME NEW S, S \subseteq Nat, IsFiniteSet(S) PROVE \E s : IsOrdered(s, S)
<1> DEFINE Bad == {n \in Nat : \E X \in SUBSET Nat : /\ IsFiniteSet(X) /\ Cardinality(X) = n
                                                     /\ ~\E s : IsOrdered(s, X)}
<1>1. ASSUME NEW n \in Bad, \A m \in Bad : n <= m PROVE FALSE
  <2>1. PICK X \in SUBSET Nat : IsFiniteSet(X) /\ Cardinality(X) = n /\ ~\E s : IsOrdered(s, X)
    BY <1>1
  <2>2. X # {}
    <3>1. ASSUME X = {} PROVE IsOrdered(<<>>, X)
      <4>1. Cardinality(X) = 0
        BY <3>1, FS_EmptySet
      <4> QED BY <4>1 DEF IsOrdered
    <3> QED BY <2>1, <3>1
  <2>3. PICK x \in X : \A y \in X : x <= y
    BY <2>2, LeastNumber
  <2> DEFINE Y == X \ {x}
  <2>4. IsFiniteSet(Y) /\ Cardinality(Y) = n - 1 /\ n - 1 \in Nat /\ n \in Nat \ {0}
    <3>1. IsFiniteSet(Y) /\ Cardinality(Y) = Cardinality(X) - 1
      BY <2>1, <2>3, FS_RemoveElement
    <3>2. Cardinality(Y) \in Nat
      BY <3>1, FS_CardinalityType
    <3> QED BY <2>1, <3>1, <3>2
  <2>5. n - 1 \notin Bad
    BY <1>1, <2>4
  <2>6. PICK s : IsOrdered(s, Y)
    BY <2>4, <2>5
  <2> DEFINE t == [i \in 1..n |-> IF i = n THEN x ELSE s[i]]
  <2>7. s \in [1..(n - 1) -> Y] /\ \A i, j \in 1..(n - 1) : i < j => s[i] > s[j]
    BY <2>4, <2>6 DEF IsOrdered
  <2>8. \A i \in 1..(n - 1) : s[i] \in X /\ s[i] > x /\ t[i] = s[i]
    <3>1. \A y \in Y : y \in X /\ y > x
      BY <2>3
    <3>2. \A i \in 1..(n - 1) : i \in 1..n /\ i # n /\ s[i] \in Y
      BY <2>4, <2>7
    <3> QED BY <3>1, <3>2
  <2>9. t \in [1..n -> X] /\ t[n] = x
    <3>1. \A i \in 1..n : i # n => i \in 1..(n - 1)
      BY <2>4
    <3>2. \A i \in 1..n : i # n => s[i] \in X
      BY <2>8, <3>1
    <3>3. n \in 1..n /\ x \in X
      BY <2>3, <2>4
    <3>4. \A i \in 1..n : (IF i = n THEN x ELSE s[i]) \in X
      BY <3>2, <3>3
    <3> QED BY <3>3, <3>4
  <2>10. ASSUME NEW i \in 1..n, NEW j \in 1..n, i < j PROVE t[i] > t[j]
    <3>1. i \in 1..(n - 1)
      BY <2>4, <2>10
    <3>2. CASE j = n
      BY <2>8, <2>9, <3>1, <3>2
    <3>3. CASE j # n
      <4>1. j \in 1..(n - 1)
        BY <2>4, <3>3
      <4> QED BY <2>7, <2>8, <2>10, <3>1, <4>1
    <3> QED BY <3>2, <3>3
  <2> HIDE DEF t
  <2>11. IsOrdered(t, X)
    BY <2>1, <2>9, <2>10 DEF IsOrdered
  <2> QED BY <2>1, <2>11
<1>2. Bad = {}
  BY <1>1, LeastNumber
<1>3. Cardinality(S) \in Nat
  BY FS_CardinalityType
<1> QED BY <1>2, <1>3

\* All rows are in it, each once, the newest first.
LEMMA NewestFirstOrdered ==
    ASSUME NEW S, S \subseteq Nat, IsFiniteSet(S)
    PROVE  /\ IsOrdered(NewestFirst(S), S) /\ NewestFirst(S) \in Seq(S)
           /\ Len(NewestFirst(S)) = Cardinality(S) /\ Cardinality(S) \in Nat
<1>1. PICK s : IsOrdered(s, S)
  BY OrderExists
<1>2. \E f \in [1..Cardinality(S) -> S] : \A i, j \in DOMAIN f : i < j => f[i] > f[j]
  BY <1>1 DEF IsOrdered
<1>3. IsOrdered(NewestFirst(S), S)
  BY <1>2 DEF NewestFirst, IsOrdered
<1>4. Cardinality(S) \in Nat
  BY FS_CardinalityType
<1> QED BY <1>3, <1>4 DEF IsOrdered

LEMMA MinOf == ASSUME NEW a \in Int, NEW b \in Int PROVE Min({a, b}) = IF a <= b THEN a ELSE b
BY DEF Min

LEMMA MaxOf == ASSUME NEW a \in Int, NEW b \in Int PROVE Max({a, b}) = IF a >= b THEN a ELSE b
BY DEF Max

-----------------------------------------------------------------------------
(* Zooming. *)

Steady(s) == s \in [scale : 1..MaxScale, x : (0 - MaxScale)..MaxScale,
                    y : (0 - MaxScale)..MaxScale, busy : BOOLEAN]
Zooms(state) == [state : {state}, pinch : BOOLEAN, pan : BOOLEAN, dragging : BOOLEAN,
                 wide : BOOLEAN, minScale : {1, 2}, cover : BOOLEAN]

ZoomInv ==
    /\ zoom \in Zooms(zoom.state)
    /\ Steady(zoom.state)

\* A place confined to a range around the middle is no farther out than it was.
LEMMA Clamped ==
    ASSUME NEW r \in Nat, NEW n \in (0 - r)..r, NEW max \in Nat
    PROVE  clampTo(n, max) \in (0 - max)..max /\ clampTo(n, max) \in (0 - r)..r
<1>1. 0 - max \in Int /\ Max({0 - max, n}) = IF 0 - max >= n THEN 0 - max ELSE n
  BY MaxOf
<1>2. clampTo(n, max) = LET m == IF 0 - max >= n THEN 0 - max ELSE n IN IF max <= m THEN max ELSE m
  BY <1>1, MinOf DEF clampTo
<1> QED BY <1>2

LEMMA SlackIs ==
    ASSUME NEW scale \in Nat, NEW side \in Nat
    PROVE  /\ Slack(scale, side) \in Nat
           /\ (Edge * scale) \div 2 = 2 * scale
           /\ IF 2 * scale >= side THEN 2 * Slack(scale, side) <= 2 * scale - side
              ELSE Slack(scale, side) = 0
<1> DEFINE d == 2 * scale - side
<1>1. (Edge * scale) \div 2 = 2 * scale
  BY DEF Edge
<1>2. d \in Int /\ d \div 2 \in Int /\ 2 * (d \div 2) <= d
  OBVIOUS
<1>3. d < 0 => d \div 2 < 0
  OBVIOUS
<1>4. Slack(scale, side) = IF 0 >= d \div 2 THEN 0 ELSE d \div 2
  BY <1>1, <1>2, MaxOf DEF Slack
<1> HIDE DEF d
<1>5. Slack(scale, side) \in Nat
  BY <1>2, <1>4
<1>6. IF d >= 0 THEN 2 * Slack(scale, side) <= d ELSE Slack(scale, side) = 0
  BY <1>2, <1>3, <1>4
<1>7. 2 * scale >= side <=> d >= 0
  BY DEF d
<1> QED BY <1>1, <1>5, <1>6, <1>7 DEF d

LEMMA Effective ==
    ASSUME ZoomInv, NEW scale \in 1..MaxScale
    PROVE  /\ effectiveScale(scale) \in Nat /\ effectiveScale(scale) >= scale
           /\ zoom.cover /\ scale > Fit => effectiveScale(scale) >= getCoverScale
BY ZoomAssumption, MaxOf DEF effectiveScale, getCoverScale, Fit

LEMMA SidesAre == Width \in {4, 8} /\ Height \in {4, 8} /\ Max({Width, Height}) = 8
<1>1. Width \in {4, 8} /\ Height \in {4, 8} /\ (Width = 8 \/ Height = 8)
  BY DEF Width, Height
<1> QED BY <1>1, MaxOf

\* Wherever a gesture leads, the place is confined to the picture's slack.
LEMMA Confined ==
    ASSUME ZoomInv, NEW scale \in 1..MaxScale, NEW x \in (0 - MaxScale)..MaxScale,
           NEW y \in (0 - MaxScale)..MaxScale, NEW busy \in BOOLEAN
    PROVE  /\ Steady(Moved(scale, x, y, busy))
           /\ LET e == effectiveScale(scale)
                  at == clampTranslate(x, y, e)
              IN  /\ at[1] \in (0 - MaxScale)..MaxScale /\ at[2] \in (0 - MaxScale)..MaxScale
                  /\ e > Fit => /\ at[1] \in (0 - Slack(e, Width))..Slack(e, Width)
                                /\ at[2] \in (0 - Slack(e, Height))..Slack(e, Height)
                  /\ e <= Fit => at[1] = 0 /\ at[2] = 0
<1> DEFINE e == effectiveScale(scale)
           at == clampTranslate(x, y, e)
<1>1. e \in Nat /\ MaxScale \in Nat
  BY Effective, ZoomAssumption
<1> HIDE DEF e
<1>2. Slack(e, Width) \in Nat /\ Slack(e, Height) \in Nat
  BY <1>1, SlackIs, SidesAre
<1>3. CASE e <= Fit
  <2>1. at = <<0, 0>>
    BY <1>3 DEF clampTranslate
  <2>2. at[1] = 0 /\ at[2] = 0
    BY <2>1
  <2> HIDE DEF at
  <2>3. Moved(scale, x, y, busy) = [scale |-> scale, x |-> at[1], y |-> at[2], busy |-> busy]
    BY DEF Moved, clampXY, at, e
  <2>4. Steady(Moved(scale, x, y, busy))
    BY <1>1, <2>2, <2>3 DEF Steady
  <2> QED BY <1>1, <1>3, <2>2, <2>4 DEF at, e, Fit
<1>4. CASE ~(e <= Fit)
  <2>1. at = <<clampTo(x, Slack(e, Width)), clampTo(y, Slack(e, Height))>>
    BY <1>4 DEF clampTranslate
  <2>2. /\ at[1] = clampTo(x, Slack(e, Width)) /\ at[2] = clampTo(y, Slack(e, Height))
    BY <2>1
  <2> HIDE DEF at
  <2> DEFINE w == Slack(e, Width)
             h == Slack(e, Height)
  <2>7. w \in Nat /\ h \in Nat /\ at[1] = clampTo(x, w) /\ at[2] = clampTo(y, h)
    BY <1>2, <2>2
  <2> HIDE DEF w, h
  <2>8. at[1] \in (0 - w)..w /\ at[1] \in (0 - MaxScale)..MaxScale
    BY <1>1, <2>7, Clamped
  <2>9. at[2] \in (0 - h)..h /\ at[2] \in (0 - MaxScale)..MaxScale
    BY <1>1, <2>7, Clamped
  <2>3. /\ at[1] \in (0 - MaxScale)..MaxScale /\ at[2] \in (0 - MaxScale)..MaxScale
        /\ at[1] \in (0 - Slack(e, Width))..Slack(e, Width)
        /\ at[2] \in (0 - Slack(e, Height))..Slack(e, Height)
    BY <2>8, <2>9 DEF w, h
  <2>4. Moved(scale, x, y, busy) = [scale |-> scale, x |-> at[1], y |-> at[2], busy |-> busy]
    BY DEF Moved, clampXY, at, e
  <2>5. Steady(Moved(scale, x, y, busy))
    BY <2>3, <2>4 DEF Steady
  <2> QED BY <1>4, <2>3, <2>5 DEF at, e
<1> QED BY <1>3, <1>4

LEMMA ZoomInitially == ASSUME ZoomInit PROVE ZoomInv
<1>1. PICK minScale \in {1, 2}, cover \in BOOLEAN :
        zoom = [state |-> Initial, pinch |-> FALSE, pan |-> FALSE, dragging |-> FALSE,
                wide |-> TRUE, minScale |-> minScale, cover |-> cover]
  BY DEF ZoomInit
<1>2. Steady(Initial)
  BY ZoomAssumption DEF Initial, Steady, Fit
<1> HIDE DEF Initial
<1> QED BY <1>1, <1>2 DEF ZoomInv, Zooms

LEMMA ZoomStep == ASSUME ZoomInv, [ZoomNext]_zoom PROVE ZoomInv'
<1> DEFINE at == zoom.state
<1>0. /\ zoom \in Zooms(zoom.state) /\ Steady(at) /\ at.scale \in 1..MaxScale
      /\ at.x \in (0 - MaxScale)..MaxScale /\ at.y \in (0 - MaxScale)..MaxScale
      /\ at.busy \in BOOLEAN
  BY DEF ZoomInv, Steady
<1>i. zoom.minScale \in {1, 2} /\ MaxScale \in Nat /\ MaxScale >= 4
  BY <1>0, ZoomAssumption DEF Zooms
<1>p. \A n \in Places : n \in (0 - MaxScale)..MaxScale
  BY <1>i DEF Places, Reach
<1>z. Steady(Initial)
  BY ZoomAssumption DEF Initial, Steady, Fit
<1>s. ASSUME NEW s, Steady(s), zoom' = [zoom EXCEPT !.state = s] PROVE ZoomInv'
  <2>1. zoom' \in Zooms(s) /\ zoom'.state = s
    BY <1>0, <1>s DEF Zooms
  <2> QED BY <1>s, <2>1 DEF ZoomInv
<1>m. ASSUME NEW scale \in 1..MaxScale, NEW x \in Places \cup {0, at.x}, NEW y \in Places \cup {0, at.y},
             NEW busy \in BOOLEAN
      PROVE  Steady(Moved(scale, x, y, busy))
  <2>1. x \in (0 - MaxScale)..MaxScale /\ y \in (0 - MaxScale)..MaxScale
    BY <1>0, <1>i, <1>p
  <2> QED BY <2>1, Confined
<1>c. ASSUME NEW s \in Int PROVE clampScale(s) \in 1..MaxScale
  <2>1. Max({zoom.minScale, s}) \in Int /\ Max({zoom.minScale, s}) >= 1
    BY <1>i, MaxOf
  <2> QED BY <1>i, <2>1, MinOf DEF clampScale
<1>1. CASE reset
  BY <1>1, <1>s, <1>z DEF reset
<1>2. CASE zoomIn
  <2>1. Min({5, MaxScale}) \in 1..MaxScale
    BY <1>i, MinOf
  <2>2. Steady([Initial EXCEPT !.scale = Min({5, MaxScale})])
    BY <1>z, <2>1 DEF Steady
  <2> QED BY <1>2, <1>s, <2>2 DEF zoomIn
<1>3. CASE setScale
  <2>1. PICK s \in {at.scale - 1, at.scale + 1} :
          \/ zoom' = [zoom EXCEPT !.state = Initial]
          \/ zoom' = [zoom EXCEPT !.state = Moved(clampScale(s), at.x, at.y, at.busy)]
    BY <1>0, <1>3 DEF setScale, Zooms
  <2>2. s \in Int
    BY <1>0, <1>i, <2>1
  <2>3. Steady(Moved(clampScale(s), at.x, at.y, at.busy))
    BY <1>0, <1>c, <1>m, <2>2
  <2> QED BY <1>s, <1>z, <2>1, <2>3
<1>4. CASE onWheel
  <2>1. PICK s \in {at.scale - 1, at.scale + 1}, x \in Places, y \in Places :
          \/ zoom' = [zoom EXCEPT !.state = Initial]
          \/ zoom' = [zoom EXCEPT !.state = Moved(clampScale(s), x, y, at.busy)]
    BY <1>0, <1>4 DEF onWheel, Zooms
  <2>2. s \in Int
    BY <1>0, <1>i, <2>1
  <2>3. Steady(Moved(clampScale(s), x, y, at.busy))
    BY <1>0, <1>c, <1>m, <2>2
  <2> QED BY <1>s, <1>z, <2>1, <2>3
<1>5. CASE onTouchStart
  <2> DEFINE s == [zoom.state EXCEPT !.busy = TRUE]
  <2>1. PICK pinch \in BOOLEAN, pan \in BOOLEAN :
          zoom' = [zoom EXCEPT !.state = s, !.pinch = pinch, !.pan = pan]
    BY <1>0, <1>5 DEF onTouchStart, Zooms
  <2>2. Steady(s)
    BY <1>0 DEF Steady
  <2> HIDE DEF s
  <2>3. zoom' \in Zooms(s) /\ zoom'.state = s
    BY <1>0, <2>1 DEF Zooms
  <2> QED BY <2>2, <2>3 DEF ZoomInv
<1>6. CASE onTouchMove
  <2>1. CASE zoom.pinch /\ \E s \in zoom.minScale..MaxScale, x, y \in Places :
               zoom' = [zoom EXCEPT !.state = IF s <= zoom.minScale THEN Moved(s, 0, 0, TRUE)
                                              ELSE Moved(s, x, y, TRUE)]
    <3>1. PICK s \in zoom.minScale..MaxScale, x \in Places, y \in Places :
            \/ zoom' = [zoom EXCEPT !.state = Moved(s, 0, 0, TRUE)]
            \/ zoom' = [zoom EXCEPT !.state = Moved(s, x, y, TRUE)]
      BY <2>1
    <3>2. s \in 1..MaxScale
      BY <1>i
    <3>3. Steady(Moved(s, 0, 0, TRUE)) /\ Steady(Moved(s, x, y, TRUE))
      BY <1>m, <3>2
    <3> QED BY <1>s, <3>1, <3>3
  <2>2. CASE \E x, y \in Places :
               zoom' = [zoom EXCEPT !.state = Moved(@.scale, x, y, @.busy)]
    <3>1. PICK x \in Places, y \in Places :
            zoom' = [zoom EXCEPT !.state = Moved(at.scale, x, y, at.busy)]
      BY <1>0, <2>2 DEF Zooms
    <3> QED BY <1>0, <1>m, <1>s, <3>1
  <2> QED BY <1>6, <2>1, <2>2 DEF onTouchMove
<1>7. CASE onTouchEnd \/ onMouseUp
  <2> DEFINE s == Moved(at.scale, at.x, at.y, FALSE)
  <2>1. zoom' = [zoom EXCEPT !.pinch = FALSE, !.pan = FALSE, !.state = s]
        \/ zoom' = [zoom EXCEPT !.dragging = FALSE, !.pan = FALSE, !.state = s]
    BY <1>0, <1>7 DEF onTouchEnd, onMouseUp, Zooms
  <2>2. Steady(s)
    BY <1>0, <1>m
  <2> HIDE DEF s
  <2>3. zoom' \in Zooms(s) /\ zoom'.state = s
    BY <1>0, <2>1 DEF Zooms
  <2> QED BY <2>2, <2>3 DEF ZoomInv
<1>8. CASE onMouseDown
  <2> DEFINE s == [zoom.state EXCEPT !.busy = TRUE]
  <2>1. zoom' = [zoom EXCEPT !.dragging = TRUE, !.pan = TRUE, !.state = s]
    BY <1>0, <1>8 DEF onMouseDown, Zooms
  <2>2. Steady(s)
    BY <1>0 DEF Steady
  <2> HIDE DEF s
  <2>3. zoom' \in Zooms(s) /\ zoom'.state = s
    BY <1>0, <2>1 DEF Zooms
  <2> QED BY <2>2, <2>3 DEF ZoomInv
<1>9. CASE onMouseMove
  <2>1. PICK x \in Places, y \in Places :
          zoom' = [zoom EXCEPT !.state = Moved(at.scale, x, y, at.busy)]
    BY <1>0, <1>9 DEF onMouseMove, Zooms
  <2> QED BY <1>0, <1>m, <1>s, <2>1
<1>10. CASE syncLayout
  <2>1. zoom' \in Zooms(at) /\ zoom'.state = at
    BY <1>0, <1>10 DEF syncLayout, Zooms
  <2> QED BY <1>0, <2>1 DEF ZoomInv
<1>11. CASE UNCHANGED zoom
  BY <1>0, <1>11 DEF ZoomInv
<1> QED
  BY <1>1, <1>2, <1>3, <1>4, <1>5, <1>6, <1>7, <1>8, <1>9, <1>10, <1>11 DEF ZoomNext

\* What is drawn is confined once more, to the container of now.
LEMMA ZoomFits == ASSUME ZoomInv PROVE PictureFits
<1> DEFINE scale == zoom.state.scale
           e == effectiveScale(scale)
           at == clampTranslate(zoom.state.x, zoom.state.y, e)
<1>1. /\ scale \in 1..MaxScale /\ zoom.state.x \in (0 - MaxScale)..MaxScale
      /\ zoom.state.y \in (0 - MaxScale)..MaxScale /\ TRUE \in BOOLEAN
  BY DEF ZoomInv, Steady
<1>2. /\ e > Fit => /\ at[1] \in (0 - Slack(e, Width))..Slack(e, Width)
                    /\ at[2] \in (0 - Slack(e, Height))..Slack(e, Height)
      /\ e <= Fit => at[1] = 0 /\ at[2] = 0
  BY <1>1, Confined
<1>3. e \in Nat /\ (zoom.cover /\ scale > Fit => e >= getCoverScale)
  BY <1>1, Effective
<1>4. style = <<e, at>>
  BY DEF style
<1>5. style[1] = e /\ style[2] = at
  BY <1>4
<1> HIDE DEF e, at
<1>6. ASSUME NEW side \in Nat, NEW n,
             e > Fit => n \in (0 - Slack(e, side))..Slack(e, side), e <= Fit => n = 0
      PROVE  LET size == (Edge * e) \div 2
             IN  IF size >= side THEN 2 * Max({n, 0 - n}) <= size - side ELSE n = 0
  <2>1. /\ (Edge * e) \div 2 = 2 * e /\ Slack(e, side) \in Nat
        /\ IF 2 * e >= side THEN 2 * Slack(e, side) <= 2 * e - side ELSE Slack(e, side) = 0
    BY <1>3, SlackIs
  <2>2. n \in Int /\ (e > Fit => n \in (0 - Slack(e, side))..Slack(e, side)) /\ (e <= Fit => n = 0)
    BY <1>3, <1>6, <2>1 DEF Fit
  <2>3. Max({n, 0 - n}) = IF n >= 0 - n THEN n ELSE 0 - n
    BY <2>2, MaxOf
  <2>4. 2 * e >= side => 2 * Max({n, 0 - n}) <= 2 * e - side
    BY <1>3, <2>1, <2>2, <2>3 DEF Fit
  <2>5. 2 * e < side => n = 0
    BY <1>3, <2>1, <2>2 DEF Fit
  <2> QED BY <1>3, <2>1, <2>4, <2>5
<1>7. NoGapBesidePicture
  <2> DEFINE size == (Edge * e) \div 2
  <2>1. Width \in Nat /\ Height \in Nat
    BY SidesAre
  <2>4. /\ e > Fit => at[1] \in (0 - Slack(e, Width))..Slack(e, Width)
        /\ e <= Fit => at[1] = 0
    BY <1>2
  <2>5. /\ e > Fit => at[2] \in (0 - Slack(e, Height))..Slack(e, Height)
        /\ e <= Fit => at[2] = 0
    BY <1>2
  <2> HIDE DEF size
  <2>2. IF size >= Width THEN 2 * Max({at[1], 0 - at[1]}) <= size - Width ELSE at[1] = 0
    <3> DEFINE a == at[1]
    <3>1. e > Fit => a \in (0 - Slack(e, Width))..Slack(e, Width)
      BY <2>4
    <3>2. e <= Fit => a = 0
      BY <2>4
    <3> HIDE DEF a
    <3>3. LET sz == (Edge * e) \div 2
          IN  IF sz >= Width THEN 2 * Max({a, 0 - a}) <= sz - Width ELSE a = 0
      BY <1>6, <2>1, <3>1, <3>2
    <3> QED BY <3>3 DEF a, size
  <2>3. IF size >= Height THEN 2 * Max({at[2], 0 - at[2]}) <= size - Height ELSE at[2] = 0
    <3> DEFINE a == at[2]
    <3>1. e > Fit => a \in (0 - Slack(e, Height))..Slack(e, Height)
      BY <2>5
    <3>2. e <= Fit => a = 0
      BY <2>5
    <3> HIDE DEF a
    <3>3. LET sz == (Edge * e) \div 2
          IN  IF sz >= Height THEN 2 * Max({a, 0 - a}) <= sz - Height ELSE a = 0
      BY <1>6, <2>1, <3>1, <3>2
    <3> QED BY <3>3 DEF a, size
  <2> QED BY <1>5, <2>2, <2>3 DEF NoGapBesidePicture, size
<1>8. CoversWhenZoomed
  <2>1. (Edge * e) \div 2 = 2 * e
    BY <1>3, SlackIs
  <2> QED BY <1>3, <1>5, <2>1, SidesAre DEF CoversWhenZoomed, getCoverScale
<1> QED BY <1>7, <1>8 DEF PictureFits

-----------------------------------------------------------------------------
(* Playing. *)

PlayerInv ==
    player \in [index : 0..(PlayerFrames - 1), playing : BOOLEAN, loop : BOOLEAN, speed : Int,
                fullscreen : BOOLEAN, screen : {"window", "asked", "full", "leaving"}]

LEMMA PlayerInitially == ASSUME PlayerInit PROVE PlayerInv
BY ViewersAssumption DEF PlayerInit, PlayerInv

LEMMA PlayerStep == ASSUME PlayerInv, [PlayerNext]_player PROVE PlayerInv'
<1>0. PlayerFrames \in Nat \ {0} /\ player.index \in 0..(PlayerFrames - 1) /\ player.speed \in Int
  BY ViewersAssumption DEF PlayerInv
<1>1. CASE Tick
  <2>1. PICK playing \in BOOLEAN, i \in 0..(PlayerFrames - 1) :
          player' = [player EXCEPT !.playing = playing, !.index = i]
    <3>1. player.index >= PlayerFrames - 1 \/ player.index + 1 \in 0..(PlayerFrames - 1)
      BY <1>0
    <3>2. 0 \in 0..(PlayerFrames - 1)
      BY <1>0
    <3> QED BY <1>0, <1>1, <3>1, <3>2 DEF Tick, PlaysOn, PlayerInv
  <2> QED BY <2>1 DEF PlayerInv
<1>2. CASE StepTo
  <2>1. Forward(player.index) \in 0..(PlayerFrames - 1) /\ Back(player.index) \in 0..(PlayerFrames - 1)
    BY <1>0 DEF Forward, Back
  <2>2. PICK i \in 0..(PlayerFrames - 1) : player' = [player EXCEPT !.index = i, !.playing = FALSE]
    BY <1>2, <2>1 DEF StepTo
  <2> QED BY <2>2 DEF PlayerInv
<1>3. CASE PlayerButtons
  <2>1. 3 - player.speed \in Int
    BY <1>0
  <2>2. CASE player' = [player EXCEPT !.speed = 3 - player.speed]
    BY <2>1, <2>2 DEF PlayerInv
  <2>3. CASE player' = [player EXCEPT !.playing = ~@] \/ player' = [player EXCEPT !.loop = ~@]
    BY <2>3 DEF PlayerInv
  <2> QED BY <1>3, <2>2, <2>3 DEF PlayerButtons
<1>4. ASSUME toggleFullscreen \/ FullscreenChange PROVE PlayerInv'
  <2>1. \A screen \in {"window", "asked", "full", "leaving"}, full \in BOOLEAN :
          /\ player' = [player EXCEPT !.screen = screen] => PlayerInv'
          /\ player' = [player EXCEPT !.fullscreen = full, !.screen = screen] => PlayerInv'
          /\ player' = [player EXCEPT !.screen = screen, !.fullscreen = full] => PlayerInv'
    BY DEF PlayerInv
  <2>2. CASE toggleFullscreen
    <3>1. PICK screen \in {"window", "asked", "full", "leaving"} :
            player' = [player EXCEPT !.fullscreen = ~player.fullscreen, !.screen = screen]
      BY <2>2 DEF toggleFullscreen, PlayerInv
    <3> QED BY <2>1, <3>1 DEF PlayerInv
  <2>3. CASE FullscreenChange
    BY <2>1, <2>3 DEF FullscreenChange
  <2> QED BY <1>4, <2>2, <2>3
<1>5. CASE EscapePlayer
  <2>1. player' = [player EXCEPT !.fullscreen = FALSE] => PlayerInv'
    BY DEF PlayerInv
  <2>2. ASSUME player' = [player EXCEPT !.index = 0, !.playing = FALSE, !.loop = TRUE, !.speed = 1]
        PROVE  PlayerInv'
    <3>1. 0 \in 0..(PlayerFrames - 1) /\ 1 \in Int
      BY <1>0
    <3> QED BY <2>2, <3>1 DEF PlayerInv
  <2> QED BY <1>5, <2>1, <2>2 DEF EscapePlayer
<1>6. CASE UNCHANGED player
  BY <1>6 DEF PlayerInv
<1> QED BY <1>1, <1>2, <1>3, <1>4, <1>5, <1>6 DEF PlayerNext

-----------------------------------------------------------------------------
(* The map. *)

\* A frame is kept under the choice it is of, and the choice of now is taken care of.
MapInv ==
    /\ map \in [choice : MapChoices, frames : {map.frames}, failed : {map.failed}]
    /\ \A e \in map.frames : e.key = e.of
    /\ map.choice \in overlaying \cup map.failed \cup {e.key : e \in map.frames}

LEMMA MapInitially == ASSUME MapInit PROVE MapInv
BY DEF MapInit, MapInv, MapChoices, Satellites, Sectors

LEMMA MapStep == ASSUME MapInv, [MapNext]_mapVars PROVE MapInv'
<1>1. CASE ChooseMap
  BY <1>1 DEF ChooseMap, MapInv
<1>2. ASSUME NEW choice, OverlayRead(choice) PROVE MapInv'
  <2> DEFINE e == [key |-> choice, of |-> choice]
             held == {f \in map.frames : f.key # choice} \cup {e}
  <2>1. e.key = e.of /\ e.key = choice /\ overlaying' = overlaying \ {choice}
    BY <1>2 DEF OverlayRead
  <2>2. CASE map' = [map EXCEPT !.frames = held, !.failed = @ \ {choice}]
    <3> HIDE DEF e
    <3>1. /\ map'.frames = held /\ map'.failed = map.failed \ {choice} /\ map'.choice = map.choice
          /\ map' \in [choice : MapChoices, frames : {map'.frames}, failed : {map'.failed}]
      BY <2>2 DEF MapInv
    <3>2. \A f \in held : f.key = f.of
      BY <2>1 DEF MapInv
    <3>3. choice \in {f.key : f \in held}
      BY <2>1
    <3>4. \A f \in map.frames : f.key # choice => f.key \in {g.key : g \in held}
      OBVIOUS
    <3> HIDE DEF held
    <3> QED BY <2>1, <3>1, <3>2, <3>3, <3>4 DEF MapInv
  <2>3. CASE map' = [map EXCEPT !.failed = @ \cup {choice}]
    BY <2>1, <2>3 DEF MapInv
  <2> QED BY <1>2, <2>2, <2>3 DEF OverlayRead, Key
<1>3. CASE UNCHANGED mapVars
  BY <1>3 DEF mapVars, MapInv
<1> QED BY <1>1, <1>2, <1>3 DEF MapNext

LEMMA MapShows == ASSUME MapInv PROVE MapShowsChoice
<1>1. bounds(map.choice) \in {map.choice, Fallback}
  BY DEF bounds, SectorBounds
<1> QED BY <1>1 DEF MapShowsChoice, Drawn, MapInv

-----------------------------------------------------------------------------
(* Looking at frames. *)

Frames == 1..GalleryFrames
Galleries == [page : Frames, items : Seq(Frames), total : 0..GalleryFrames,
              viewer : 0..GalleryFrames, preview : BOOLEAN, comparing : BOOLEAN,
              compare : Seq(Frames)]
Points == (0..Side) \X (0..Side)
Rects == {r \in (0..Side) \X (0..Side) \X (0..Side) \X (0..Side) :
            r[1] + r[3] <= Side /\ r[2] + r[4] <= Side}

Descends(s) == \A i, j \in 1..Len(s) : i < j => s[i] > s[j]

ViewersInv ==
    /\ gallery \in Galleries /\ rows \subseteq Frames
    /\ Len(gallery.items) <= PageSize /\ ComparesTwo /\ Descends(gallery.items)
    /\ crop \in [start : Points \cup {NoRect}, rect : Rects \cup {NoRect}, dragging : BOOLEAN,
                 form : BOOLEAN]
    /\ crop.dragging => crop.start \in Points

LEMMA SizesArePositive ==
    /\ GalleryFrames \in Nat \ {0} /\ PageSize \in Nat \ {0} /\ Side \in Nat \ {0}
    /\ PlayerFrames \in Nat \ {0}
BY ViewersAssumption

LEMMA ViewersInitially == ASSUME ViewersInit PROVE ViewersInv
<1>1. /\ <<>> \in Seq(Frames) /\ Len(<<>>) = 0 /\ 1 \in Frames /\ 0 \in 0..GalleryFrames
  BY SizesArePositive DEF Frames
<1>2. gallery \in Galleries /\ gallery.items = <<>> /\ gallery.compare = <<>>
  BY <1>1 DEF ViewersInit, Galleries
<1>3. ComparesTwo
  BY <1>1, <1>2 DEF ComparesTwo, IsInjective
<1>4. Descends(gallery.items)
  BY <1>1, <1>2 DEF Descends
<1> QED BY <1>1, <1>2, <1>3, <1>4, SizesArePositive DEF ViewersInit, ViewersInv, Frames, NoRect

\* The third pick pushes the first out, a second one of the same frame drops it.
LEMMA PickedTwo ==
    ASSUME NEW s \in Seq(Frames), Len(s) <= 2, IsInjective(s), NEW f \in Frames
    PROVE  Picked(s, f) \in Seq(Frames) /\ Len(Picked(s, f)) <= 2 /\ IsInjective(Picked(s, f))
<1> DEFINE t == Picked(s, f)
<1>0. Len(s) \in Nat /\ DOMAIN s = 1..Len(s) /\ \A i \in 1..Len(s) : s[i] \in Frames
  OBVIOUS
<1>1. CASE f \in ToSet(s)
  <2>1. PICK i \in 1..Len(s) : i = CHOOSE j \in DOMAIN s : s[j] = f
    BY <1>0, <1>1 DEF ToSet
  <2>2. t = SubSeq(s, 1, i - 1) \o SubSeq(s, i + 1, Len(s))
    BY <1>1, <2>1 DEF Picked, RemoveAt
  <2> DEFINE a == SubSeq(s, 1, i - 1)
             b == SubSeq(s, i + 1, Len(s))
  <2>3. \A k \in 1..(i - 1) : s[k] \in Frames
    BY <1>0
  <2>4. \A k \in (i + 1)..Len(s) : s[k] \in Frames
    BY <1>0
  <2>5. i \in Nat /\ i >= 1 /\ i <= Len(s) /\ i - 1 \in Int /\ i + 1 \in Int
    BY <1>0
  <2>6. a \in Seq(Frames) /\ Len(a) = i - 1
    BY <2>3, <2>5, SubSeqProperties
  <2>7. b \in Seq(Frames) /\ Len(b) = Len(s) - i
    <3>1. Len(s) \in Int
      BY <1>0
    <3>2. /\ b \in Seq(Frames)
          /\ Len(b) = IF i + 1 <= Len(s) THEN Len(s) - (i + 1) + 1 ELSE 0
      BY <2>4, <2>5, <3>1, SubSeqProperties
    <3> HIDE DEF b
    <3>3. (IF i + 1 <= Len(s) THEN Len(s) - (i + 1) + 1 ELSE 0) = Len(s) - i
      BY <2>5, <3>1
    <3> QED BY <3>2, <3>3
  <2> HIDE DEF a, b
  <2>8. t \in Seq(Frames) /\ Len(t) = Len(s) - 1
    <3>1. t = a \o b
      BY <2>2 DEF a, b
    <3>2. t \in Seq(Frames) /\ Len(t) = Len(a) + Len(b)
      BY <2>6, <2>7, <3>1
    <3> QED BY <1>0, <2>5, <2>6, <2>7, <3>2
  <2> QED BY <1>0, <2>8 DEF IsInjective
<1>2. CASE f \notin ToSet(s) /\ Len(s) >= 2
  <2>1. t = <<s[2], f>> /\ s[2] \in Frames /\ s[2] # f
    BY <1>0, <1>2 DEF Picked, ToSet
  <2> QED BY <2>1 DEF IsInjective
<1>3. CASE f \notin ToSet(s) /\ Len(s) < 2
  <2>1. t = Append(s, f) /\ \A i \in 1..Len(s) : s[i] # f
    BY <1>0, <1>3 DEF Picked, ToSet
  <2>2. t \in Seq(Frames) /\ Len(t) = Len(s) + 1 /\ t[Len(s) + 1] = f
        /\ \A i \in 1..Len(s) : t[i] = s[i]
    BY <2>1
  <2>3. \A i, j \in 1..Len(t) : t[i] = t[j] => i = j
    BY <1>0, <1>3, <2>1, <2>2
  <2> QED BY <1>3, <2>2, <2>3 DEF IsInjective
<1> QED BY <1>0, <1>1, <1>2, <1>3

\* A rectangle between two points of a frame lies in it.
LEMMA BetweenPoints == ASSUME NEW p \in Points, NEW q \in Points PROVE Between(p, q) \in Rects
<1> DEFINE a == p[1]
           b == p[2]
           c == q[1]
           d == q[2]
<1>1. a \in 0..Side /\ b \in 0..Side /\ c \in 0..Side /\ d \in 0..Side
  BY DEF Points
<1>2. Between(p, q) = <<Min({a, c}), Min({b, d}), Abs(c - a), Abs(d - b)>>
  BY DEF Between, Corner
<1> HIDE DEF a, b, c, d
<1>3. /\ Min({a, c}) \in 0..Side /\ Abs(c - a) \in 0..Side /\ Min({a, c}) + Abs(c - a) <= Side
      /\ Min({b, d}) \in 0..Side /\ Abs(d - b) \in 0..Side /\ Min({b, d}) + Abs(d - b) <= Side
  <2>1. a \in Int /\ b \in Int /\ c \in Int /\ d \in Int /\ Side \in Nat
    BY <1>1, SizesArePositive
  <2>2. Min({a, c}) = (IF a <= c THEN a ELSE c) /\ Min({b, d}) = (IF b <= d THEN b ELSE d)
    BY <2>1, MinOf
  <2>3. Min({a, c}) \in 0..Side /\ Abs(c - a) \in 0..Side /\ Min({a, c}) + Abs(c - a) <= Side
    BY <1>1, <2>1, <2>2 DEF Abs
  <2>4. Min({b, d}) \in 0..Side /\ Abs(d - b) \in 0..Side /\ Min({b, d}) + Abs(d - b) <= Side
    BY <1>1, <2>1, <2>2 DEF Abs
  <2> QED BY <2>3, <2>4
<1> QED BY <1>2, <1>3 DEF Rects

LEMMA RowsAreFinite == ASSUME rows \subseteq Frames PROVE
    IsFiniteSet(rows) /\ Cardinality(rows) \in 0..GalleryFrames /\ rows \subseteq Nat
<1>1. IsFiniteSet(Frames) /\ Cardinality(Frames) = GalleryFrames
  BY SizesArePositive, FS_Interval DEF Frames
<1>2. IsFiniteSet(rows) /\ Cardinality(rows) <= Cardinality(Frames) /\ Cardinality(rows) \in Nat
  BY <1>1, FS_Subset, FS_CardinalityType
<1> QED BY <1>1, <1>2, SizesArePositive DEF Frames

\* A page of the list.
LEMMA PageRead ==
    ASSUME rows \subseteq Frames, NEW first \in Nat \ {0}
    PROVE  LET newest == NewestFirst(rows)
               page == SubSeq(newest, first, Min({first + PageSize - 1, Len(newest)}))
           IN  page \in Seq(Frames) /\ Len(page) <= PageSize /\ Descends(page)
<1> DEFINE newest == NewestFirst(rows)
           last == Min({first + PageSize - 1, Len(newest)})
<1>1. newest \in Seq(Frames) /\ Len(newest) \in Nat
  BY RowsAreFinite, NewestFirstOrdered
<1>2. /\ last \in Int /\ last <= first + PageSize - 1 /\ last <= Len(newest)
  <2>1. Len(newest) \in Int /\ first + PageSize - 1 \in Int
    BY <1>1, SizesArePositive
  <2> HIDE DEF newest
  <2>2. last = IF first + PageSize - 1 <= Len(newest) THEN first + PageSize - 1 ELSE Len(newest)
    BY <2>1, MinOf
  <2> QED BY <2>1, <2>2
<1>6. \A i, j \in 1..Len(newest) : i < j => newest[i] > newest[j]
  <2>1. DOMAIN newest = 1..Len(newest)
    BY <1>1
  <2>2. IsOrdered(newest, rows)
    BY RowsAreFinite, NewestFirstOrdered
  <2> HIDE DEF newest
  <2> QED BY <2>1, <2>2 DEF IsOrdered
<1> HIDE DEF newest, last
<1>3. first \in Int /\ \A i \in first..last : newest[i] \in Frames
  BY <1>1, <1>2
<1>4. /\ SubSeq(newest, first, last) \in Seq(Frames)
      /\ Len(SubSeq(newest, first, last)) = IF first <= last THEN last - first + 1 ELSE 0
      /\ \A i \in 1..(last - first + 1) : SubSeq(newest, first, last)[i] = newest[first + i - 1]
  BY <1>2, <1>3, SubSeqProperties
<1>7. Descends(SubSeq(newest, first, last))
  <2> DEFINE page == SubSeq(newest, first, last)
  <2> SUFFICES ASSUME NEW i \in 1..Len(page), NEW j \in 1..Len(page), i < j
               PROVE  page[i] > page[j]
    BY DEF Descends
  <2>1. Len(page) = last - first + 1
    BY <1>2, <1>4
  <2>2. page[i] = newest[first + i - 1] /\ page[j] = newest[first + j - 1]
    BY <1>4, <2>1
  <2>3. /\ first + i - 1 \in 1..Len(newest) /\ first + j - 1 \in 1..Len(newest)
        /\ first + i - 1 < first + j - 1
    BY <1>1, <1>2, <2>1
  <2> QED BY <1>6, <2>2, <2>3
<1>5. Len(SubSeq(newest, first, last)) <= PageSize
  BY <1>2, <1>4, SizesArePositive
<1> QED BY <1>4, <1>5, <1>7 DEF newest, last

\* What the steps do to the gallery.
LEMMA GalleryStep ==
    ASSUME ViewersInv, ViewersNext
    PROVE  /\ gallery' \in Galleries /\ rows' \subseteq Frames
           /\ Len(gallery'.items) <= PageSize /\ ComparesTwo' /\ Descends(gallery'.items)
<1>0. /\ gallery \in Galleries /\ rows \subseteq Frames /\ Len(gallery.items) <= PageSize
      /\ Len(gallery.compare) <= 2 /\ IsInjective(gallery.compare) /\ Descends(gallery.items)
  BY DEF ViewersInv, ComparesTwo
<1>1. /\ gallery.page \in Frames /\ gallery.total \in 0..GalleryFrames
      /\ gallery.items \in Seq(Frames) /\ gallery.compare \in Seq(Frames)
      /\ gallery.viewer \in 0..GalleryFrames /\ GalleryFrames \in Nat \ {0} /\ PageSize \in Nat \ {0}
  BY <1>0, SizesArePositive DEF Galleries
<1>2. \A f \in Frames : f \in 0..GalleryFrames
  BY <1>1 DEF Frames
<1>3. ASSUME gallery' = gallery, rows' = rows
      PROVE  /\ gallery' \in Galleries /\ rows' \subseteq Frames
             /\ Len(gallery'.items) <= PageSize /\ ComparesTwo' /\ Descends(gallery'.items)
  BY <1>0, <1>3 DEF ComparesTwo
<1>4. CASE RowsChange
  <2>1. rows' \subseteq Frames /\ gallery' = gallery
    BY <1>0, <1>4 DEF RowsChange, Frames
  <2> QED BY <1>0, <2>1 DEF ComparesTwo
<1>5. CASE LoadPage
  <2> DEFINE newest == NewestFirst(rows)
             first == (gallery.page - 1) * PageSize + 1
             page == SubSeq(newest, first, Min({first + PageSize - 1, Len(newest)}))
  <2>1. first \in Nat \ {0}
    <3>1. gallery.page - 1 \in Nat
      BY <1>1 DEF Frames
    <3>2. (gallery.page - 1) * PageSize \in Nat
      BY <1>1, <3>1
    <3> QED BY <3>2
  <2>2. Cardinality(rows) \in 0..GalleryFrames
    BY <1>0, RowsAreFinite
  <2> HIDE DEF first
  <2>3. page \in Seq(Frames) /\ Len(page) <= PageSize /\ Descends(page)
    BY <1>0, <2>1, PageRead
  <2>4. gallery' = [gallery EXCEPT !.total = Cardinality(rows), !.items = page] /\ rows' = rows
    BY <1>5 DEF LoadPage, first
  <2> HIDE DEF page
  <2> QED BY <1>0, <2>2, <2>3, <2>4 DEF Galleries, ComparesTwo
<1>6. CASE PickFilter \/ TurnPage
  <2>1. PICK page \in Frames : gallery' = Turned(page)
    <3>1. 1 \in Frames /\ (gallery.page > 1 => gallery.page - 1 \in Frames)
      BY <1>1 DEF Frames
    <3>2. gallery.page < totalPages => gallery.page + 1 \in Frames
      <4> DEFINE t == gallery.total
      <4>1. t \in Nat /\ t <= GalleryFrames /\ gallery.page \in Nat /\ gallery.page >= 1
        BY <1>1 DEF Frames
      <4> HIDE DEF t
      <4>2. (t + PageSize - 1) \div PageSize <= t /\ (t + PageSize - 1) \div PageSize \in Int
        BY <1>1, <4>1
      <4>3. totalPages = (t + PageSize - 1) \div PageSize
        BY DEF totalPages, t
      <4> QED BY <1>1, <4>1, <4>2, <4>3 DEF Frames
    <3> QED BY <1>6, <3>1, <3>2 DEF PickFilter, TurnPage
  <2>2. rows' = rows /\ <<>> \in Seq(Frames) /\ Len(<<>>) <= PageSize /\ 0 \in 0..GalleryFrames
    BY <1>1, <1>6 DEF PickFilter, TurnPage
  <2>3. gallery' = [gallery EXCEPT !.page = page, !.items = <<>>, !.total = 0]
    BY <2>1 DEF Turned
  <2>4. Descends(<<>>)
    BY DEF Descends
  <2> QED BY <1>0, <2>2, <2>3, <2>4 DEF Galleries, ComparesTwo
<1>7. CASE ClickFrame
  <2>1. PICK f \in ToSet(items) :
          gallery' = IF gallery.comparing THEN [gallery EXCEPT !.compare = Picked(@, f)]
                     ELSE [gallery EXCEPT !.viewer = f]
    BY <1>7 DEF ClickFrame
  <2>2. f \in Frames /\ rows' = rows
    BY <1>1, <1>7 DEF ToSet, items, ClickFrame
  <2> DEFINE both == Picked(gallery.compare, f)
  <2>3. both \in Seq(Frames) /\ Len(both) <= 2 /\ IsInjective(both)
    BY <1>0, <1>1, <2>2, PickedTwo
  <2> HIDE DEF both
  <2>4. CASE gallery' = [gallery EXCEPT !.compare = both]
    BY <1>0, <2>2, <2>3, <2>4 DEF Galleries, ComparesTwo
  <2>5. CASE gallery' = [gallery EXCEPT !.viewer = f]
    BY <1>0, <1>2, <2>2, <2>5 DEF Galleries, ComparesTwo
  <2> QED BY <2>1, <2>4, <2>5 DEF both
<1>8. CASE CompareMode \/ CloseComparison
  <2>1. rows' = rows /\ <<>> \in Seq(Frames) /\ Len(<<>>) = 0 /\ IsInjective(<<>>)
    BY <1>8 DEF CompareMode, CloseComparison, IsInjective
  <2>2. CASE gallery' = [gallery EXCEPT !.comparing = ~gallery.comparing]
    BY <1>0, <2>1, <2>2 DEF Galleries, ComparesTwo
  <2>4. ASSUME NEW s \in Seq(Frames), Len(s) <= 2, IsInjective(s),
               gallery' = [gallery EXCEPT !.comparing = FALSE, !.compare = s]
        PROVE  /\ gallery' \in Galleries /\ rows' \subseteq Frames
               /\ Len(gallery'.items) <= PageSize /\ ComparesTwo' /\ Descends(gallery'.items)
    BY <1>0, <2>1, <2>4 DEF Galleries, ComparesTwo
  <2>3. CASE gallery' = [gallery EXCEPT !.comparing = FALSE, !.compare = <<>>]
    <3>1. Len(<<>>) <= 2
      BY <2>1
    <3> QED BY <2>1, <2>3, <2>4, <3>1
  <2> QED BY <1>8, <2>2, <2>3 DEF CompareMode, CloseComparison
<1>9. CASE Navigate \/ NavigatePreview
  <2>1. PICK i : gallery' = [gallery EXCEPT !.viewer = Neighbour(i)]
    BY <1>9 DEF Navigate, NavigatePreview
  <2>2. Neighbour(i) \in 0..GalleryFrames
    BY <1>1, <1>2 DEF Neighbour, items
  <2>3. rows' = rows
    BY <1>9 DEF Navigate, NavigatePreview
  <2>4. PICK viewer \in 0..GalleryFrames : gallery' = [gallery EXCEPT !.viewer = viewer]
    BY <2>1, <2>2
  <2> QED BY <1>0, <2>3, <2>4 DEF Galleries, ComparesTwo
<1>10. CASE CloseViewer
  <2>1. gallery' = [gallery EXCEPT !.viewer = 0] /\ rows' = rows /\ 0 \in 0..GalleryFrames
    BY <1>1, <1>10 DEF CloseViewer
  <2> QED BY <1>0, <2>1 DEF Galleries, ComparesTwo
<1>11. CASE DragCrop \/ applyCropPreset \/ SaveCrop \/ \E q \in reqs : AnswerCrop(q)
  BY <1>3, <1>11 DEF DragCrop, applyCropPreset, SaveCrop, AnswerCrop
<1> QED BY <1>4, <1>5, <1>6, <1>7, <1>8, <1>9, <1>10, <1>11 DEF ViewersNext

Crops == [start : Points \cup {NoRect}, rect : Rects \cup {NoRect}, dragging : BOOLEAN,
          form : BOOLEAN]

\* What they do to the rectangle.
LEMMA CropStep ==
    ASSUME ViewersInv, ViewersNext
    PROVE  crop' \in Crops /\ (crop'.dragging => crop'.start \in Points)
<1>0. crop \in Crops /\ (crop.dragging => crop.start \in Points)
  BY DEF ViewersInv, Crops
<1>1. CASE UNCHANGED crop
  BY <1>0, <1>1
<1>2. CASE CloseViewer
  BY <1>0, <1>2 DEF CloseViewer, Crops
<1>3. CASE DragCrop
  <2>1. CASE \E p \in Points : /\ ~crop.dragging
               /\ crop' = [crop EXCEPT !.start = p, !.rect = NoRect, !.dragging = TRUE]
    BY <1>0, <2>1 DEF Crops
  <2>2. ASSUME NEW p \in Points, crop.dragging,
               crop' = [crop EXCEPT !.rect = Between(crop.start, p)]
        PROVE  crop' \in Crops /\ (crop'.dragging => crop'.start \in Points)
    <3>1. Between(crop.start, p) \in Rects
      BY <1>0, <2>2, BetweenPoints
    <3> QED BY <1>0, <2>2, <3>1 DEF Crops
  <2>3. CASE crop' = [crop EXCEPT !.start = NoRect, !.dragging = FALSE]
    BY <1>0, <2>3 DEF Crops
  <2>4. CASE crop' = [crop EXCEPT !.rect = NoRect]
    BY <1>0, <2>4 DEF Crops
  <2> QED BY <1>3, <2>1, <2>2, <2>3, <2>4 DEF DragCrop, Points
<1>4. CASE applyCropPreset
  <2>1. <<0, 0, Side, Side>> \in Rects
    BY SizesArePositive DEF Rects
  <2> QED BY <1>0, <1>4, <2>1 DEF applyCropPreset, Crops
<1>5. CASE SaveCrop \/ \E q \in reqs : AnswerCrop(q)
  <2>1. PICK form \in BOOLEAN : crop' = [crop EXCEPT !.form = form] \/ UNCHANGED crop
    BY <1>0, <1>5 DEF SaveCrop, AnswerCrop, Crops
  <2> QED BY <1>0, <2>1 DEF Crops
<1> QED BY <1>1, <1>2, <1>3, <1>4, <1>5 DEF ViewersNext, RowsChange, LoadPage, PickFilter,
             TurnPage, ClickFrame, CompareMode, CloseComparison, Navigate, NavigatePreview

LEMMA ViewersStep == ASSUME ViewersInv, [ViewersNext]_viewerVars PROVE ViewersInv'
<1>1. CASE ViewersNext
  BY <1>1, GalleryStep, CropStep DEF ViewersInv, Crops
<1>2. CASE UNCHANGED viewerVars
  BY <1>2 DEF viewerVars, ViewersInv, ComparesTwo
<1> QED BY <1>1, <1>2

\* What the properties say.
LEMMA ViewersShow ==
    ASSUME ViewersInv, player.index \in 0..(PlayerFrames - 1) PROVE ViewersTypeOK
<1>1. crop.rect = NoRect \/ /\ \A i \in 1..4 : crop.rect[i] \in 0..Side
                            /\ crop.rect[1] + crop.rect[3] <= Side
                            /\ crop.rect[2] + crop.rect[4] <= Side
  <2>1. crop.rect \in Rects \cup {NoRect}
    BY DEF ViewersInv
  <2> DEFINE r == crop.rect
  <2> HIDE DEF r
  <2>2. ASSUME r \in Rects
        PROVE  (\A i \in 1..4 : r[i] \in 0..Side) /\ r[1] + r[3] <= Side /\ r[2] + r[4] <= Side
    BY <2>2 DEF Rects
  <2> QED BY <2>1, <2>2 DEF r
<1>2. gallery.page \in Frames /\ gallery.viewer \in 0..GalleryFrames
  BY DEF ViewersInv, Galleries
<1> QED BY <1>1, <1>2 DEF ViewersInv, ViewersTypeOK, items, Frames

\* What lies between two neighbours of a list that descends is not in it.
LEMMA StepIsNext == ASSUME ViewersInv, ViewersNext PROVE Unskipped
<1>0. /\ gallery \in Galleries /\ items \in Seq(Frames) /\ Descends(items)
      /\ GalleryFrames \in Nat
  BY SizesArePositive DEF ViewersInv, Galleries, items
<1>1. Len(items) \in Nat /\ DOMAIN items = 1..Len(items) /\ \A i \in 1..Len(items) : items[i] \in Nat
  <2>1. \A i \in 1..Len(items) : items[i] \in Frames
    BY <1>0
  <2> QED BY <1>0, <2>1 DEF Frames
<1>2. ToSet(items) = {items[i] : i \in 1..Len(items)}
  BY <1>1 DEF ToSet
<1>3. \A i, j \in 1..Len(items) : i < j => items[i] > items[j]
  BY <1>0 DEF Descends
<1>4. CASE Navigate \/ NavigatePreview
  <2>1. PICK step \in {0 - 1, 1} : gallery' = [gallery EXCEPT !.viewer = Neighbour(Position + step)]
    BY <1>4 DEF Navigate, NavigatePreview
  <2> DEFINE from == gallery.viewer
             p == Position
             to == Neighbour(p + step)
  <2>2. gallery'.viewer = to
    BY <1>0, <2>1 DEF Galleries
  <2>3. CASE p + step \notin 1..Len(items)
    BY <1>1, <2>2, <2>3 DEF Neighbour, Unskipped
  <2>4. CASE p + step \in 1..Len(items) /\ from \in ToSet(items)
    <3>1. p \in 1..Len(items) /\ items[p] = from
      BY <1>1, <1>2, <2>4 DEF Position
    <3>2. to = items[p + step]
      BY <1>1, <2>4 DEF Neighbour
    <3> HIDE DEF p, to, from
    <3>3. ASSUME NEW i \in 1..Len(items), InBetween(items[i], from, to) PROVE FALSE
      <4>1. CASE step = 1
        <5>1. items[p] > items[p + 1]
          BY <1>1, <1>3, <2>4, <3>1, <4>1
        <5>2. items[p] > items[i] /\ items[i] > items[p + 1]
          BY <1>1, <2>4, <3>1, <3>2, <3>3, <4>1, <5>1 DEF InBetween
        <5>3. ~(i <= p) /\ ~(i >= p + 1)
          BY <1>1, <1>3, <2>4, <3>1, <4>1, <5>2
        <5> QED BY <1>1, <3>1, <5>3
      <4>2. CASE step = 0 - 1
        <5>0. p - 1 \in 1..Len(items) /\ to = items[p - 1]
          BY <1>1, <2>4, <3>1, <3>2, <4>2
        <5>1. items[p - 1] > items[p]
          BY <1>1, <1>3, <3>1, <5>0
        <5>2. items[p - 1] > items[i] /\ items[i] > items[p]
          BY <1>1, <3>1, <3>3, <5>0, <5>1 DEF InBetween
        <5>3. ~(i <= p - 1) /\ ~(i >= p)
          BY <1>1, <1>3, <3>1, <5>0, <5>2
        <5> QED BY <1>1, <3>1, <5>3
      <4> QED BY <4>1, <4>2
    <3>4. to \in ToSet(items)
      BY <1>2, <2>4, <3>2
    <3> QED BY <1>2, <2>2, <2>4, <3>3, <3>4 DEF Unskipped, from
  <2>5. CASE p + step \in 1..Len(items) /\ from \notin ToSet(items)
    <3>1. p = 0
      BY <2>5 DEF Position
    <3>2. step = 1 /\ to = items[1] /\ 1 \in 1..Len(items)
      BY <1>1, <2>5, <3>1 DEF Neighbour
    <3> HIDE DEF p, to
    <3>3. \A i \in 1..Len(items) : ~(items[i] > items[1])
      BY <1>1, <1>3, <3>2
    <3> QED BY <1>2, <2>2, <2>5, <3>2, <3>3 DEF Unskipped
  <2> QED BY <2>3, <2>4, <2>5
<1>5. CASE ClickFrame
  <2>1. CASE gallery.viewer # 0
    BY <1>0, <1>5, <2>1 DEF ClickFrame, Closed, Unskipped, Galleries
  <2>2. CASE gallery.viewer = 0
    BY <2>2 DEF Unskipped
  <2> QED BY <2>1, <2>2
<1>6. CASE ~Navigate /\ ~NavigatePreview /\ ~ClickFrame
  <2>1. gallery'.viewer \in {0, gallery.viewer}
    BY <1>0, <1>6 DEF ViewersNext, RowsChange, LoadPage, PickFilter, TurnPage, Turned, CompareMode,
                    CloseComparison, CloseViewer, DragCrop, applyCropPreset, SaveCrop, AnswerCrop,
                    Galleries
  <2> QED BY <2>1 DEF Unskipped
<1> QED BY <1>4, <1>5, <1>6

-----------------------------------------------------------------------------
(* The schedule of the live view. *)

AskStatuses == {"idle", "loading", "success", "error"}
Asks == [n : 1..asked, view : Views \cup {"none"}, here : BOOLEAN,
         state : {"sent", "ok", "failed"}, step : {"preset", "schedule"}, preset : 0..asked]

Names == Views \cup {"none", "own"}

\* An ask has made its preset, under its own number, before the schedule is asked
\* for, and none before; a name of a view is that of one preset at a time, and a
\* preset that is deleted is never made again.
ScheduleInv ==
    /\ asked \in Nat
    /\ empty \in [view : Views \cup {"none"}, scheduleStatus : AskStatuses]
    /\ asks \subseteq Asks /\ \A a, b \in asks : a.n = b.n => a = b
    /\ \A a \in asks : a.step = "schedule" \/ a.state = "ok" => a.preset = a.n
    /\ plan \in [presets : SUBSET [id : 1..asked, name : Names],
                 schedules : SUBSET [id : 1..asked, preset : 1..asked]]
    /\ \A a \in asks : a.step = "preset" /\ a.state = "sent" =>
                           \A p \in plan.presets : p.id # a.n
    /\ \A p, q \in plan.presets : p.id = q.id \/ (p.name = q.name /\ p.name # "own") => p = q
    /\ \A s \in plan.schedules : s.id = s.preset /\ \E p \in plan.presets : p.id = s.preset

LEMMA ScheduleInitially == ASSUME EmptyInit PROVE ScheduleInv
BY DEF EmptyInit, ScheduleInv, Hidden, AskStatuses

\* What an answer or the server makes of an ask leaves its number.
LEMMA AskBecomes ==
    ASSUME ScheduleInv, NEW a \in asks, NEW next \in Asks, next.n = a.n, Becomes(a, next),
           next.step = "schedule" \/ next.state = "ok" => next.preset = next.n,
           asked' = asked
    PROVE  /\ asks' \subseteq Asks' /\ \A b, c \in asks' : b.n = c.n => b = c
           /\ \A b \in asks' : b.step = "schedule" \/ b.state = "ok" => b.preset = b.n
           /\ \A b \in asks' : b = next \/ (b \in asks /\ b.n # a.n)
<1>1. \A b \in asks' : b = next \/ (b \in asks /\ b # a)
  BY DEF Becomes
<1>2. \A b \in asks' : b = next \/ (b \in asks /\ b.n # a.n)
  BY <1>1 DEF ScheduleInv
<1>3. asks' \subseteq Asks'
  BY <1>1 DEF ScheduleInv, Asks
<1> QED BY <1>2, <1>3 DEF ScheduleInv

LEMMA ScheduleStep == ASSUME ScheduleInv, [EmptyNext]_emptyVars PROVE ScheduleInv'
<1>0. /\ asked \in Nat /\ asks \subseteq Asks
      /\ plan.presets \subseteq [id : 1..asked, name : Names]
      /\ plan.schedules \subseteq [id : 1..asked, preset : 1..asked]
      /\ plan = [presets |-> plan.presets, schedules |-> plan.schedules]
      /\ empty.view \in Views \cup {"none"}
  BY DEF ScheduleInv
<1>1. CASE ShowEmpty
  <2>1. empty' \in [view : Views \cup {"none"}, scheduleStatus : AskStatuses] /\ UNCHANGED <<asks, asked, plan>>
    BY <1>1 DEF ShowEmpty, Hidden, AskStatuses
  <2> QED BY <2>1 DEF ScheduleInv, Asks
<1>2. CASE HideEmpty
  <2>1. empty' \in [view : Views \cup {"none"}, scheduleStatus : AskStatuses] /\ UNCHANGED <<asked, plan>>
    BY <1>2 DEF HideEmpty, Hidden, AskStatuses
  <2>2. ASSUME NEW b \in asks'
        PROVE  \E a \in asks : b.n = a.n /\ b.step = a.step /\ b.state = a.state
                               /\ b.preset = a.preset /\ b \in Asks
                               /\ b = [a EXCEPT !.here = FALSE]
    <3>1. PICK a \in asks : b = [a EXCEPT !.here = FALSE]
      BY <1>2, <2>2 DEF HideEmpty
    <3>2. a \in Asks
      BY <1>0
    <3>3. b.n = a.n /\ b.step = a.step /\ b.state = a.state /\ b.preset = a.preset /\ b \in Asks
      BY <3>1, <3>2 DEF Asks
    <3> QED BY <3>1, <3>3
  <2>3. ASSUME NEW b \in asks', NEW c \in asks', b.n = c.n PROVE b = c
    <3>1. PICK d \in asks : b.n = d.n /\ b = [d EXCEPT !.here = FALSE]
      BY <2>2
    <3>2. PICK e \in asks : c.n = e.n /\ c = [e EXCEPT !.here = FALSE]
      BY <2>2
    <3>3. d = e
      <4>1. d.n = e.n
        BY <2>3, <3>1, <3>2
      <4>2. \A x \in asks : \A z \in asks : x.n = z.n => x = z
        BY DEF ScheduleInv
      <4> QED BY <4>1, <4>2
    <3> QED BY <3>1, <3>2, <3>3
  <2>4. asks' \subseteq Asks'
    BY <2>1, <2>2 DEF Asks
  <2> QED BY <2>1, <2>2, <2>3, <2>4 DEF ScheduleInv
<1>3. CASE handleScheduleAutoFetch
  <2>1. asked' = asked + 1 /\ asked' \in Nat /\ asked' \notin 1..asked /\ 1..asked \subseteq 1..asked'
        /\ 0..asked \subseteq 0..asked' /\ asked' \in 1..asked' /\ 0 \in 0..asked' /\ plan' = plan
    BY <1>0, <1>3 DEF handleScheduleAutoFetch
  <2>2. empty' \in [view : Views \cup {"none"}, scheduleStatus : AskStatuses]
    BY <1>3 DEF handleScheduleAutoFetch, ScheduleInv, AskStatuses
  <2> DEFINE new == [n |-> asked', view |-> empty.view, here |-> TRUE, state |-> "sent",
                     step |-> "preset", preset |-> 0]
  <2>3. asks' = asks \cup {new}
    BY <1>3 DEF handleScheduleAutoFetch, FirstPost
  <2>4. /\ new \in Asks' /\ new.n = asked' /\ new.step = "preset" /\ new.state = "sent"
    BY <1>0, <2>1 DEF Asks
  <2> HIDE DEF new
  <2>5. \A a \in asks : a \in Asks' /\ a.n # asked'
    BY <1>0, <2>1 DEF Asks
  <2>6. \A p \in plan.presets : p.id # asked'
    BY <1>0, <2>1
  <2>7. plan' \in [presets : SUBSET [id : 1..asked', name : Names],
                   schedules : SUBSET [id : 1..asked', preset : 1..asked']]
    <3>1. plan.presets \subseteq [id : 1..asked', name : Names]
      BY <1>0, <2>1
    <3>2. plan.schedules \subseteq [id : 1..asked', preset : 1..asked']
      BY <1>0, <2>1
    <3> QED BY <1>0, <2>1, <3>1, <3>2
  <2> QED BY <2>1, <2>2, <2>3, <2>4, <2>5, <2>6, <2>7 DEF ScheduleInv
<1>4. CASE DeleteAutoPreset
  <2>1. PICK p \in plan.presets :
          plan' = [presets |-> plan.presets \ {p},
                   schedules |-> {s \in plan.schedules : s.preset # p.id}]
    BY <1>4 DEF DeleteAutoPreset
  <2>2. UNCHANGED <<empty, asks, asked>>
    BY <1>4 DEF DeleteAutoPreset
  <2>3. /\ plan'.presets = plan.presets \ {p}
        /\ plan'.schedules = {s \in plan.schedules : s.preset # p.id}
        /\ plan' = [presets |-> plan'.presets, schedules |-> plan'.schedules]
    BY <2>1
  <2>4. plan' \in [presets : SUBSET [id : 1..asked, name : Names],
                   schedules : SUBSET [id : 1..asked, preset : 1..asked]]
    BY <1>0, <2>3
  <2> QED BY <2>2, <2>3, <2>4 DEF ScheduleInv, Asks
<1>5. ASSUME NEW a \in asks, AnswerPost(a) PROVE ScheduleInv'
  <2>0. a \in Asks /\ asked' = asked /\ plan' = plan /\ a.state # "sent"
    BY <1>0, <1>5 DEF AnswerPost
  <2>1. empty' \in [view : Views \cup {"none"}, scheduleStatus : AskStatuses]
    <3>1. PICK status \in AskStatuses : empty' = empty \/ empty' = [empty EXCEPT !.scheduleStatus = status]
      BY <1>5 DEF AnswerPost, AskStatuses
    <3> QED BY <3>1 DEF ScheduleInv
  <2>2. CASE a.state = "ok" /\ a.step = "preset"
    <3> DEFINE next == [a EXCEPT !.step = "schedule", !.state = "sent"]
    <3>1. next \in Asks /\ next.n = a.n /\ next.step = "schedule" /\ next.preset = a.preset
      BY <2>0 DEF Asks
    <3>2. Becomes(a, next)
      BY <1>5, <2>2 DEF AnswerPost
    <3>3. a.preset = a.n
      BY <2>2 DEF ScheduleInv
    <3> HIDE DEF next
    <3>4. /\ asks' \subseteq Asks' /\ \A b, c \in asks' : b.n = c.n => b = c
          /\ \A b \in asks' : b.step = "schedule" \/ b.state = "ok" => b.preset = b.n
          /\ \A b \in asks' : b = next \/ (b \in asks /\ b.n # a.n)
      BY <2>0, <3>1, <3>2, <3>3, AskBecomes
    <3> QED BY <2>0, <2>1, <3>1, <3>4 DEF ScheduleInv
  <2>3. CASE ~(a.state = "ok" /\ a.step = "preset")
    <3>1. asks' \subseteq asks
      BY <1>5, <2>3 DEF AnswerPost
    <3> QED BY <2>0, <2>1, <3>1 DEF ScheduleInv, Asks
  <2> QED BY <2>2, <2>3
<1>6. ASSUME NEW a \in asks, ServePreset(a) PROVE ScheduleInv'
  <2>0. /\ a \in Asks /\ asked' = asked /\ empty' = empty /\ a.state = "sent" /\ a.step = "preset"
        /\ a.n \in 1..asked /\ a.n \in 0..asked /\ a.view \in Views \cup {"none"}
        /\ \A p \in plan.presets : p.id # a.n
    <3>1. a \in Asks /\ asked' = asked /\ empty' = empty /\ a.state = "sent" /\ a.step = "preset"
      BY <1>0, <1>6 DEF ServePreset
    <3>2. a.n \in 1..asked /\ a.n \in 0..asked /\ a.view \in Views \cup {"none"}
      BY <1>0, <3>1 DEF Asks
    <3> QED BY <3>1, <3>2 DEF ScheduleInv
  <2>1. ASSUME \A p \in plan.presets : p.name # a.view, NEW state \in {"ok", "failed"},
               plan' = [plan EXCEPT !.presets = @ \cup {[id |-> a.n, name |-> a.view]}],
               Becomes(a, [a EXCEPT !.state = state, !.preset = a.n])
        PROVE  ScheduleInv'
    <3> DEFINE next == [a EXCEPT !.state = state, !.preset = a.n]
               row == [id |-> a.n, name |-> a.view]
    <3>1. next \in Asks /\ next.n = a.n /\ next.preset = a.n /\ next.state # "sent"
      BY <2>0, <2>1 DEF Asks
    <3>2. row \in [id : 1..asked, name : Names] /\ row.id = a.n /\ row.name = a.view
      BY <2>0 DEF Names
    <3>3. Becomes(a, next) /\ plan' = [plan EXCEPT !.presets = @ \cup {row}]
      BY <2>1
    <3> HIDE DEF next, row
    <3>4. /\ asks' \subseteq Asks' /\ \A b, c \in asks' : b.n = c.n => b = c
          /\ \A b \in asks' : b.step = "schedule" \/ b.state = "ok" => b.preset = b.n
          /\ \A b \in asks' : b = next \/ (b \in asks /\ b.n # a.n)
      BY <2>0, <3>1, <3>3, AskBecomes
    <3>5. plan'.presets = plan.presets \cup {row} /\ plan'.schedules = plan.schedules
          /\ plan' = [presets |-> plan'.presets, schedules |-> plan'.schedules]
      BY <1>0, <3>3
    <3>6. plan' \in [presets : SUBSET [id : 1..asked, name : Names],
                     schedules : SUBSET [id : 1..asked, preset : 1..asked]]
      BY <1>0, <3>2, <3>5
    <3>7. \A p, q \in plan'.presets : p.id = q.id \/ (p.name = q.name /\ p.name # "own") => p = q
      BY <2>0, <2>1, <3>2, <3>5 DEF ScheduleInv
    <3>8. \A b \in asks' : b.step = "preset" /\ b.state = "sent" =>
                               \A p \in plan'.presets : p.id # b.n
      BY <3>1, <3>2, <3>4, <3>5 DEF ScheduleInv
    <3>9. \A s \in plan'.schedules : s.id = s.preset /\ \E p \in plan'.presets : p.id = s.preset
      BY <3>5 DEF ScheduleInv
    <3> QED BY <2>0, <3>4, <3>6, <3>7, <3>8, <3>9 DEF ScheduleInv
  <2>2. ASSUME Becomes(a, [a EXCEPT !.state = "failed"]), plan' = plan PROVE ScheduleInv'
    <3> DEFINE next == [a EXCEPT !.state = "failed"]
    <3>1. next \in Asks /\ next.n = a.n /\ next.state = "failed" /\ next.step = "preset"
      BY <2>0 DEF Asks
    <3>2. Becomes(a, next)
      BY <2>2
    <3> HIDE DEF next
    <3>3. /\ asks' \subseteq Asks' /\ \A b, c \in asks' : b.n = c.n => b = c
          /\ \A b \in asks' : b.step = "schedule" \/ b.state = "ok" => b.preset = b.n
          /\ \A b \in asks' : b = next \/ (b \in asks /\ b.n # a.n)
      BY <2>0, <3>1, <3>2, AskBecomes
    <3> QED BY <2>0, <2>2, <3>1, <3>3 DEF ScheduleInv
  <2> QED BY <1>6, <2>1, <2>2 DEF ServePreset
<1>7. ASSUME NEW a \in asks, ServeSchedule(a) PROVE ScheduleInv'
  <2>0. /\ a \in Asks /\ asked' = asked /\ empty' = empty /\ a.state = "sent" /\ a.step = "schedule"
        /\ a.n \in 1..asked /\ a.preset = a.n
    <3>1. a \in Asks /\ asked' = asked /\ empty' = empty /\ a.state = "sent" /\ a.step = "schedule"
      BY <1>0, <1>7 DEF ServeSchedule
    <3>2. a.n \in 1..asked
      BY <1>0, <3>1 DEF Asks
    <3> QED BY <3>1, <3>2 DEF ScheduleInv
  <2>1. ASSUME NEW state \in {"ok", "failed"}, Becomes(a, [a EXCEPT !.state = state])
        PROVE  /\ asks' \subseteq Asks' /\ \A b, c \in asks' : b.n = c.n => b = c
               /\ \A b \in asks' : b.step = "schedule" \/ b.state = "ok" => b.preset = b.n
               /\ \A b \in asks' : b.step = "preset" => b \in asks
    <3> DEFINE next == [a EXCEPT !.state = state]
    <3>1. next \in Asks /\ next.n = a.n /\ next.preset = a.n /\ next.step = "schedule"
      BY <2>0, <2>1 DEF Asks
    <3>2. Becomes(a, next)
      BY <2>1
    <3> HIDE DEF next
    <3> QED BY <2>0, <3>1, <3>2, AskBecomes
  <2>2. CASE plan' = plan /\ Becomes(a, [a EXCEPT !.state = "failed"])
    BY <2>0, <2>1, <2>2 DEF ScheduleInv
  <2>3. ASSUME \E p \in plan.presets : p.id = a.preset, NEW state \in {"ok", "failed"},
               plan' = [plan EXCEPT !.schedules = @ \cup {[id |-> a.n, preset |-> a.preset]}],
               Becomes(a, [a EXCEPT !.state = state])
        PROVE  ScheduleInv'
    <3> DEFINE row == [id |-> a.n, preset |-> a.preset]
    <3>1. row \in [id : 1..asked, preset : 1..asked] /\ row.id = a.n /\ row.preset = a.n
      BY <2>0
    <3>2. plan' = [plan EXCEPT !.schedules = @ \cup {row}]
      BY <2>3
    <3> HIDE DEF row
    <3>3. plan'.schedules = plan.schedules \cup {row} /\ plan'.presets = plan.presets
          /\ plan' = [presets |-> plan'.presets, schedules |-> plan'.schedules]
      BY <1>0, <3>2
    <3>4. plan' \in [presets : SUBSET [id : 1..asked, name : Names],
                     schedules : SUBSET [id : 1..asked, preset : 1..asked]]
      BY <1>0, <3>1, <3>3
    <3>5. \A s \in plan'.schedules : s.id = s.preset /\ \E p \in plan'.presets : p.id = s.preset
      BY <2>0, <2>3, <3>1, <3>3 DEF ScheduleInv
    <3> QED BY <2>0, <2>1, <2>3, <3>3, <3>4, <3>5 DEF ScheduleInv
  <2> QED BY <1>7, <2>2, <2>3 DEF ServeSchedule
<1>8. CASE UNCHANGED emptyVars
  BY <1>8 DEF emptyVars, ScheduleInv, Asks
<1>9. CASE RenameAutoPreset
  <2>1. PICK p \in plan.presets, name \in Views \cup {"own"} :
          /\ name = "own" \/ \A q \in plan.presets : q.name # name
          /\ plan' = [plan EXCEPT !.presets = (@ \ {p}) \cup {[p EXCEPT !.name = name]}]
    BY <1>9 DEF RenameAutoPreset
  <2> DEFINE row == [p EXCEPT !.name = name]
  <2>2. row \in [id : 1..asked, name : Names] /\ row.id = p.id /\ row.name = name
    BY <1>0 DEF Names
  <2>3. UNCHANGED <<empty, asks, asked>>
    BY <1>9 DEF RenameAutoPreset
  <2>4. plan' = [plan EXCEPT !.presets = (@ \ {p}) \cup {row}]
    BY <2>1
  <2> HIDE DEF row
  <2>5. /\ plan'.presets = (plan.presets \ {p}) \cup {row} /\ plan'.schedules = plan.schedules
        /\ plan' = [presets |-> plan'.presets, schedules |-> plan'.schedules]
    BY <1>0, <2>4
  <2>6. plan' \in [presets : SUBSET [id : 1..asked, name : Names],
                   schedules : SUBSET [id : 1..asked, preset : 1..asked]]
    BY <1>0, <2>2, <2>5
  <2>7. \A q \in plan'.presets : q = row \/ (q \in plan.presets /\ q.id # p.id)
    BY <2>5 DEF ScheduleInv
  <2>8. \A q, t \in plan'.presets : q.id = t.id \/ (q.name = t.name /\ q.name # "own") => q = t
    BY <2>1, <2>2, <2>7 DEF ScheduleInv
  <2>9. \A b \in asks : b.step = "preset" /\ b.state = "sent" => \A q \in plan'.presets : q.id # b.n
    BY <2>2, <2>7 DEF ScheduleInv
  <2>10. \A t \in plan'.schedules : t.id = t.preset /\ \E q \in plan'.presets : q.id = t.preset
    <3> SUFFICES ASSUME NEW t \in plan.schedules
                 PROVE  t.id = t.preset /\ \E q \in plan'.presets : q.id = t.preset
      BY <2>5
    <3>1. PICK q \in plan.presets : q.id = t.preset /\ t.id = t.preset
      BY DEF ScheduleInv
    <3>2. q = p \/ q \in plan'.presets
      BY <2>5
    <3> QED BY <2>2, <2>5, <3>1, <3>2
  <2> QED BY <2>3, <2>6, <2>8, <2>9, <2>10 DEF ScheduleInv, Asks
<1> QED BY <1>9, <1>1, <1>2, <1>3, <1>4, <1>5, <1>6, <1>7, <1>8 DEF EmptyNext

LEMMA ScheduledIsOnce == ASSUME ScheduleInv PROVE ScheduledOnce
<1> SUFFICES ASSUME NEW s \in plan.schedules, NEW t \in plan.schedules,
                    s.preset = t.preset \/ (NameOf(s) = NameOf(t) /\ NameOf(s) # "own")
             PROVE  s = t
  BY DEF ScheduledOnce
<1>1. PICK p \in plan.presets : p.id = s.preset
  BY DEF ScheduleInv
<1>2. PICK q \in plan.presets : q.id = t.preset
  BY DEF ScheduleInv
<1>3. NameOf(s) = p.name /\ NameOf(t) = q.name
  BY <1>1, <1>2 DEF NameOf, ScheduleInv
<1>4. s.preset = t.preset
  <2>1. ASSUME s.preset # t.preset PROVE p = q
    BY <1>3, <2>1 DEF ScheduleInv
  <2> QED BY <1>1, <1>2, <2>1
<1>5. s.id = t.id
  BY <1>4 DEF ScheduleInv
<1> QED BY <1>4, <1>5 DEF ScheduleInv

-----------------------------------------------------------------------------
(* Requests in flight. *)

IsRequest(q) == q \in [n : {q.n}, op : {q.op}, id : {q.id}, val : {q.val},
                       state : {"sent", "ok", "failed"}, here : BOOLEAN]
ReqsInv == \A q \in reqs : IsRequest(q)

\* Requests that the server has done and the page does not know of yet.
Done(ops) == {q \in reqs : q.op \in ops /\ q.state = "ok"}

-----------------------------------------------------------------------------
(* The presets and the animations. *)

PresetOps == {"save", "rename", "drop"}
IsQuery(c) == c \in [cache : {c.cache}, read : BOOLEAN, fetch : {"idle", "asked", "answered"},
                     answer : {c.answer}]

\* Both what an answer brings and what is shown are of the server's state, unless a
\* change is done that the page has not heard of.
PresetsKnown ==
    ~kept.lost /\ Done(PresetOps) = {} =>
        /\ kept.presets.fetch = "answered" => kept.presets.answer = stored.presets
        /\ Quiet("presets") => kept.presets.cache = stored.presets
FilmsKnown ==
    ~kept.lost /\ Done({"film"}) = {} =>
        /\ kept.films.fetch = "answered" => DOMAIN kept.films.answer \subseteq DOMAIN stored.films
        /\ Quiet("films") => DOMAIN kept.films.cache \subseteq DOMAIN stored.films

AnimInv ==
    /\ ReqsInv
    /\ stored \in [presets : {stored.presets}, saved : {stored.saved}, films : {stored.films},
                   made : {stored.made}]
    /\ kept \in [presets : {kept.presets}, films : {kept.films}, lost : BOOLEAN]
    /\ IsQuery(kept.presets) /\ IsQuery(kept.films)
    /\ PresetsKnown /\ FilmsKnown

LEMMA AnimInitially == ASSUME AnimInit, reqs = {} PROVE AnimInv
<1>1. /\ Query = [cache |-> Nothing, read |-> FALSE, fetch |-> "idle", answer |-> Nothing]
      /\ IsQuery(Query) /\ Query.read = FALSE /\ Query.fetch = "idle"
  BY DEF Query, IsQuery
<1>2. /\ kept.presets = Query /\ kept.films = Query /\ ReqsInv
      /\ kept \in [presets : {kept.presets}, films : {kept.films}, lost : BOOLEAN]
  BY DEF AnimInit, ReqsInv
<1>3. stored \in [presets : {stored.presets}, saved : {stored.saved}, films : {stored.films},
                  made : {stored.made}]
  BY DEF AnimInit
<1>4. PresetsKnown /\ FilmsKnown
  BY <1>1, <1>2 DEF PresetsKnown, FilmsKnown, Quiet
<1> QED BY <1>1, <1>2, <1>3, <1>4 DEF AnimInv

\* What the requests' operators do, of the requests that are done.
LEMMA RequestSent ==
    ASSUME ReqsInv, NEW op, NEW id, NEW val, Send(op, id, val), NEW ops
    PROVE  ReqsInv' /\ Done(ops)' = Done(ops)
<1> DEFINE new == [n |-> sent', op |-> op, id |-> id, val |-> val, state |-> "sent", here |-> TRUE]
<1>1. reqs' = reqs \cup {new} /\ IsRequest(new) /\ new.state = "sent"
  BY DEF Send, IsRequest
<1> HIDE DEF new
<1> QED BY <1>1 DEF ReqsInv, Done

LEMMA RequestServed ==
    ASSUME ReqsInv, NEW q \in reqs, NEW state \in {"ok", "failed"}, Respond(q, state), NEW ops
    PROVE  /\ ReqsInv' /\ (state = "failed" \/ q.op \notin ops => Done(ops)' = Done(ops))
           /\ state = "ok" /\ q.op \in ops => Done(ops)' # {}
<1> DEFINE new == [q EXCEPT !.state = state, !.id = q.id]
<1>1. reqs' = (reqs \ {q}) \cup {new} /\ q.state = "sent" /\ IsRequest(q)
  BY DEF Respond, RespondWith, ReqsInv
<1>2. IsRequest(new) /\ new.state = state /\ new.op = q.op
  BY <1>1 DEF IsRequest
<1> HIDE DEF new
<1> QED BY <1>1, <1>2 DEF ReqsInv, Done

LEMMA RequestSettled ==
    ASSUME ReqsInv, NEW q \in reqs, Settle(q), NEW ops
    PROVE  ReqsInv' /\ (q.state # "ok" \/ q.op \notin ops => Done(ops)' = Done(ops))
BY DEF Settle, ReqsInv, Done

Stores == [presets : {stored.presets}, saved : {stored.saved}, films : {stored.films},
           made : {stored.made}]
Keeps == [presets : {kept.presets}, films : {kept.films}, lost : BOOLEAN]
KeptTypes == kept \in Keeps /\ IsQuery(kept.presets) /\ IsQuery(kept.films)

\* One query goes on: the other is as it was.
LEMMA QueryBecomes ==
    ASSUME KeptTypes, NEW k \in {"presets", "films"}, NEW c, IsQuery(c), NEW lost \in BOOLEAN,
           \/ kept' = [kept EXCEPT ![k] = c] /\ lost = kept.lost
           \/ kept' = [kept EXCEPT ![k] = c, !.lost = lost]
    PROVE  KeptTypes' /\ kept'[k] = c /\ kept'.lost = lost /\ (k = "presets" => kept'.films = kept.films)
           /\ (k = "films" => kept'.presets = kept.presets)
<1>1. kept \in Keeps
  BY DEF KeptTypes
<1>2. CASE k = "presets"
  <2>1. kept'.presets = c /\ kept'.lost = lost /\ kept'.films = kept.films
        /\ kept' \in [presets : {c}, films : {kept.films}, lost : BOOLEAN]
    BY <1>1, <1>2 DEF Keeps
  <2>2. kept'[k] = c
    BY <1>2, <2>1
  <2> QED BY <1>2, <2>1, <2>2 DEF KeptTypes, Keeps
<1>3. CASE k = "films"
  <2>1. kept'.films = c /\ kept'.lost = lost /\ kept'.presets = kept.presets
        /\ kept' \in [presets : {kept.presets}, films : {c}, lost : BOOLEAN]
    BY <1>1, <1>3 DEF Keeps
  <2>2. kept'[k] = c
    BY <1>3, <2>1
  <2> QED BY <1>3, <2>1, <2>2 DEF KeptTypes, Keeps
<1> QED BY <1>2, <1>3

\* The field of a query and of the two queries.
LEMMA QueryField ==
    ASSUME KeptTypes, NEW k \in {"presets", "films"}
    PROVE  /\ IsQuery(kept[k])
           /\ \A fetch : [kept EXCEPT ![k].fetch = fetch] = [kept EXCEPT ![k] = [@ EXCEPT !.fetch = fetch]]
           /\ \A fetch, answer : [kept EXCEPT ![k].fetch = fetch, ![k].answer = answer]
                = [kept EXCEPT ![k] = [@ EXCEPT !.fetch = fetch, !.answer = answer]]
           /\ k \in DOMAIN kept
BY DEF KeptTypes, Keeps

\* A read of one of the two lists.
LEMMA ReadsStep ==
    ASSUME AnimInv, NEW k \in {"presets", "films"}, Reads(k) PROVE AnimInv'
<1>0. KeptTypes /\ stored' = stored /\ reqs' = reqs /\ IsQuery(kept[k]) /\ stored \in Stores
  <2>1. KeptTypes /\ stored \in Stores
    BY DEF AnimInv, KeptTypes, Keeps, Stores
  <2>2. stored' = stored /\ reqs' = reqs
    BY DEF Reads, ReadShelf, ServeShelf, ShelfFails, AnswerShelf, reqVars
  <2> QED BY <2>1, <2>2, QueryField
<1> DEFINE c == kept[k]
<1>1. ASSUME NEW d, IsQuery(d), NEW lost \in BOOLEAN,
             \/ kept' = [kept EXCEPT ![k] = d] /\ lost = kept.lost
             \/ kept' = [kept EXCEPT ![k] = d, !.lost = lost],
             kept.lost => lost,
             \/ lost
             \/ d.fetch = "asked"
             \/ d.fetch = "answered" /\ d.answer = stored[k]
             \/ d.fetch = "idle" /\ kept[k].fetch = "answered" /\ d.cache = kept[k].answer
                /\ lost = kept.lost
      PROVE  AnimInv'
  <2>1. KeptTypes' /\ kept'[k] = d /\ kept'.lost = lost /\ (k = "presets" => kept'.films = kept.films)
           /\ (k = "films" => kept'.presets = kept.presets)
    BY <1>0, <1>1, QueryBecomes
  <2>2. ReqsInv' /\ stored' \in Stores'
    BY <1>0 DEF AnimInv, ReqsInv, Stores
  <2>3. kept.lost => lost
    BY <1>0, <1>1 DEF KeptTypes, Keeps
  <2>4. k = "presets" \/ k = "films"
    OBVIOUS
  <2>5. PresetsKnown'
    BY <1>0, <1>1, <2>1, <2>3, <2>4 DEF AnimInv, PresetsKnown, Quiet, Done
  <2>6. FilmsKnown'
    BY <1>0, <1>1, <2>1, <2>3, <2>4 DEF AnimInv, FilmsKnown, Quiet, Done
  <2> QED BY <1>0, <2>1, <2>2, <2>5, <2>6 DEF AnimInv, KeptTypes, Keeps, Stores
<1>2. kept.lost \in BOOLEAN
  BY <1>0 DEF KeptTypes, Keeps
<1>3. CASE ReadShelf(k)
  <2> DEFINE d == [c EXCEPT !.fetch = "asked"]
  <2>1. IsQuery(d) /\ d.fetch = "asked"
    BY <1>0 DEF IsQuery
  <2>2. kept' = [kept EXCEPT ![k] = d]
    BY <1>0, <1>3, QueryField DEF ReadShelf
  <2> HIDE DEF d
  <2> QED BY <1>1, <1>2, <2>1, <2>2
<1>4. CASE ServeShelf(k)
  <2> DEFINE d == [c EXCEPT !.fetch = "answered", !.answer = stored[k]]
  <2>1. IsQuery(d) /\ d.fetch = "answered" /\ d.answer = stored[k]
    BY <1>0 DEF IsQuery
  <2>2. kept' = [kept EXCEPT ![k] = d]
    BY <1>0, <1>4, QueryField DEF ServeShelf
  <2> HIDE DEF d
  <2> QED BY <1>1, <1>2, <2>1, <2>2
<1>5. CASE ShelfFails(k)
  <2> DEFINE d == [c EXCEPT !.fetch = "idle"]
  <2>1. IsQuery(d)
    BY <1>0 DEF IsQuery
  <2>2. kept' = [kept EXCEPT ![k] = d, !.lost = TRUE]
    BY <1>0, <1>5 DEF ShelfFails, KeptTypes, Keeps
  <2> HIDE DEF d
  <2> QED BY <1>1, <2>1, <2>2
<1>6. CASE AnswerShelf(k)
  <2> DEFINE d == [cache |-> c.answer, read |-> TRUE, fetch |-> "idle", answer |-> Nothing]
  <2>1. IsQuery(d) /\ d.fetch = "idle" /\ d.cache = kept[k].answer
    BY DEF IsQuery
  <2>2. kept' = [kept EXCEPT ![k] = d] /\ kept[k].fetch = "answered"
    BY <1>0, <1>6 DEF AnswerShelf, KeptTypes, Keeps
  <2> HIDE DEF d
  <2> QED BY <1>1, <1>2, <2>1, <2>2
<1> QED BY <1>3, <1>4, <1>5, <1>6 DEF Reads

\* Invalidated, a query is being read, or the page may know less than it should.
LEMMA Invalidates ==
    ASSUME AnimInv, NEW k \in {"presets", "films"}, kept' = InvalidatedShelf(k)
    PROVE  /\ KeptTypes' /\ (kept.lost => kept'.lost)
           /\ kept'.lost \/ kept'[k].fetch = "asked"
           /\ (k = "presets" => kept'.films = kept.films)
           /\ (k = "films" => kept'.presets = kept.presets)
<1>0. KeptTypes /\ IsQuery(kept[k]) /\ kept.lost \in BOOLEAN /\ kept \in Keeps
  <2>1. KeptTypes
    BY DEF AnimInv, KeptTypes, Keeps
  <2> QED BY <2>1, QueryField DEF KeptTypes, Keeps
<1>1. CASE kept' = [kept EXCEPT ![k].fetch = "asked", ![k].answer = Nothing]
  <2> DEFINE d == [kept[k] EXCEPT !.fetch = "asked", !.answer = Nothing]
  <2>1. IsQuery(d) /\ d.fetch = "asked"
    BY <1>0 DEF IsQuery
  <2>2. kept' = [kept EXCEPT ![k] = d]
    BY <1>0, <1>1, QueryField
  <2> HIDE DEF d
  <2> QED BY <1>0, <2>1, <2>2, QueryBecomes
<1>2. CASE kept' = [kept EXCEPT !.lost = TRUE]
  <2>1. kept' \in Keeps /\ kept'.presets = kept.presets /\ kept'.films = kept.films /\ kept'.lost
    BY <1>0, <1>2 DEF Keeps
  <2> QED BY <1>0, <2>1 DEF KeptTypes, Keeps
<1> QED BY <1>1, <1>2 DEF InvalidatedShelf

\* A change that is sent, or nothing but the form.
LEMMA AnimSends ==
    ASSUME AnimInv, stored' = stored, kept' = kept,
           UNCHANGED reqs \/ \E op, id, val : Send(op, id, val)
    PROVE  AnimInv'
<1>1. ReqsInv' /\ Done(PresetOps)' = Done(PresetOps) /\ Done({"film"})' = Done({"film"})
  <2>1. CASE UNCHANGED reqs
    BY <2>1 DEF AnimInv, ReqsInv, Done
  <2>2. CASE \E op, id, val : Send(op, id, val)
    BY <2>2, RequestSent DEF AnimInv
  <2> QED BY <2>1, <2>2
<1>2. PresetsKnown' /\ FilmsKnown'
  BY <1>1 DEF AnimInv, PresetsKnown, FilmsKnown, Quiet
<1> QED BY <1>1, <1>2 DEF AnimInv

\* A change of the presets is served.
LEMMA PresetServed ==
    ASSUME AnimInv, NEW q \in reqs, ServePresetChange(q) PROVE AnimInv'
<1>0. ReqsInv /\ kept \in Keeps /\ stored \in Stores /\ KeptTypes /\ q.op \in PresetOps /\ q.op # "film"
  BY DEF AnimInv, Keeps, Stores, KeptTypes, ServePresetChange, PresetOps
<1>1. CASE Respond(q, "failed") /\ UNCHANGED <<stored, kept>>
  <2>1. ReqsInv' /\ Done(PresetOps)' = Done(PresetOps) /\ Done({"film"})' = Done({"film"})
    BY <1>0, <1>1, RequestServed
  <2> QED BY <1>1, <2>1 DEF AnimInv, PresetsKnown, FilmsKnown, Quiet
<1>2. ASSUME NEW state \in {"ok", "failed"}, Respond(q, state), stored' = Changed(q),
             kept' = [kept EXCEPT !.lost = @ \/ state = "failed"]
      PROVE  AnimInv'
  <2>1. ReqsInv' /\ Done({"film"})' = Done({"film"}) /\ (state = "ok" => Done(PresetOps)' # {})
    BY <1>0, <1>2, RequestServed
  <2>2. stored' \in Stores' /\ stored'.films = stored.films
    <3>1. CASE q.op = "save"
      <4>1. PICK presets, saved : stored' = [stored EXCEPT !.saved = saved, !.presets = presets]
        BY <1>2, <3>1 DEF Changed
      <4> QED BY <1>0, <4>1 DEF Stores
    <3>2. CASE q.op = "rename"
      <4>1. stored' = [stored EXCEPT !.presets[q.id].name = q.val.name]
        BY <1>2, <3>2 DEF Changed
      <4> QED BY <1>0, <4>1 DEF Stores
    <3>3. CASE q.op = "drop"
      <4>1. PICK presets : stored' = [stored EXCEPT !.presets = presets]
        BY <1>2, <3>3 DEF Changed
      <4> QED BY <1>0, <4>1 DEF Stores
    <3> QED BY <1>0, <3>1, <3>2, <3>3 DEF PresetOps
  <2>3. /\ kept' \in Keeps /\ kept'.presets = kept.presets /\ kept'.films = kept.films
        /\ (kept'.lost <=> kept.lost \/ state = "failed")
    BY <1>0, <1>2 DEF Keeps
  <2>4. KeptTypes'
    BY <1>0, <2>3 DEF KeptTypes, Keeps
  <2>5. PresetsKnown'
    BY <2>1, <2>3 DEF PresetsKnown
  <2>6. FilmsKnown'
    BY <2>1, <2>2, <2>3 DEF AnimInv, FilmsKnown, Quiet
  <2> QED BY <2>1, <2>2, <2>4, <2>5, <2>6 DEF AnimInv, KeptTypes, Keeps, Stores
<1> QED BY <1>1, <1>2 DEF ServePresetChange

\* Of the animations.
LEMMA FilmServed ==
    ASSUME AnimInv, NEW q \in reqs, ServeFilmDelete(q) PROVE AnimInv'
<1>0. ReqsInv /\ kept \in Keeps /\ stored \in Stores /\ KeptTypes /\ q.op = "film" /\ q.op \notin PresetOps
  BY DEF AnimInv, Keeps, Stores, KeptTypes, ServeFilmDelete, PresetOps
<1>1. CASE Respond(q, "failed") /\ UNCHANGED <<stored, kept>>
  <2>1. ReqsInv' /\ Done(PresetOps)' = Done(PresetOps) /\ Done({"film"})' = Done({"film"})
    BY <1>0, <1>1, RequestServed
  <2> QED BY <1>1, <2>1 DEF AnimInv, PresetsKnown, FilmsKnown, Quiet
<1>2. ASSUME NEW state \in {"ok", "failed"}, Respond(q, state),
             stored' = [stored EXCEPT !.films = Without(@, q.id)],
             kept' = [kept EXCEPT !.lost = @ \/ state = "failed"]
      PROVE  AnimInv'
  <2>1. ReqsInv' /\ Done(PresetOps)' = Done(PresetOps) /\ (state = "ok" => Done({"film"})' # {})
    BY <1>0, <1>2, RequestServed
  <2>2. stored' \in Stores' /\ stored'.presets = stored.presets
    BY <1>0, <1>2 DEF Stores
  <2>3. /\ kept' \in Keeps /\ kept'.presets = kept.presets /\ kept'.films = kept.films
        /\ (kept'.lost <=> kept.lost \/ state = "failed")
    BY <1>0, <1>2 DEF Keeps
  <2>4. KeptTypes'
    BY <1>0, <2>3 DEF KeptTypes, Keeps
  <2>5. FilmsKnown'
    BY <2>1, <2>3 DEF FilmsKnown
  <2>6. PresetsKnown'
    BY <2>1, <2>2, <2>3 DEF AnimInv, PresetsKnown, Quiet
  <2> QED BY <2>1, <2>2, <2>4, <2>5, <2>6 DEF AnimInv, KeptTypes, Keeps, Stores
<1> QED BY <1>1, <1>2 DEF ServeFilmDelete

LEMMA AnimStep == ASSUME AnimInv, PresetNext \/ FilmNext PROVE AnimInv'
<1>1. CASE Reads("presets") \/ Reads("films")
  BY <1>1, ReadsStep
<1>2. CASE setFps \/ handleLoadPreset \/ TypeName \/ setEditingId
  BY <1>2, AnimSends DEF setFps, handleLoadPreset, TypeName, setEditingId, reqVars
<1>3. CASE SavePreset \/ RenamePreset \/ DropPreset \/ DeleteFilm
  BY <1>3, AnimSends DEF SavePreset, RenamePreset, DropPreset, DeleteFilm, animVars
<1>4. ASSUME NEW q \in reqs, ServePresetChange(q) \/ ServeFilmDelete(q) PROVE AnimInv'
  BY <1>4, PresetServed, FilmServed
<1>5. ASSUME NEW q \in reqs, AnswerPresetChange(q) \/ AnswerFilmDelete(q) PROVE AnimInv'
  <2>1. Settle(q) /\ stored' = stored /\ ReqsInv
    BY <1>5 DEF AnswerPresetChange, AnswerFilmDelete, AnimInv
  <2>2. CASE q.state # "ok"
    <3>1. kept' = kept
      BY <1>5, <2>2 DEF AnswerPresetChange, AnswerFilmDelete
    <3>2. ReqsInv' /\ Done(PresetOps)' = Done(PresetOps) /\ Done({"film"})' = Done({"film"})
      BY <2>1, <2>2, RequestSettled
    <3> QED BY <2>1, <3>1, <3>2 DEF AnimInv, PresetsKnown, FilmsKnown, Quiet
  <2>3. CASE q.state = "ok" /\ q.op \in PresetOps
    <3>1. kept' = InvalidatedShelf("presets")
      BY <1>5, <2>3 DEF AnswerPresetChange, AnswerFilmDelete, PresetOps
    <3>2. /\ KeptTypes' /\ (kept.lost => kept'.lost)
          /\ kept'.lost \/ kept'.presets.fetch = "asked"
          /\ kept'.films = kept.films
      BY <3>1, Invalidates
    <3>3. q.op \notin {"film"}
      BY <2>3 DEF PresetOps
    <3>4. ReqsInv' /\ Done({"film"})' = Done({"film"})
      BY <2>1, <3>3, RequestSettled
    <3>5. PresetsKnown'
      BY <3>2 DEF PresetsKnown, Quiet
    <3>6. FilmsKnown'
      BY <2>1, <3>2, <3>4 DEF AnimInv, FilmsKnown, Quiet
    <3> QED BY <2>1, <3>2, <3>4, <3>5, <3>6 DEF AnimInv, KeptTypes, Keeps
  <2>4. CASE q.state = "ok" /\ q.op \notin PresetOps
    <3>1. kept' = InvalidatedShelf("films")
      BY <1>5, <2>4 DEF AnswerPresetChange, AnswerFilmDelete, PresetOps
    <3>2. /\ KeptTypes' /\ (kept.lost => kept'.lost)
          /\ kept'.lost \/ kept'.films.fetch = "asked"
          /\ kept'.presets = kept.presets
      BY <3>1, Invalidates
    <3>4. ReqsInv' /\ Done(PresetOps)' = Done(PresetOps)
      BY <2>1, <2>4, RequestSettled
    <3>5. FilmsKnown'
      BY <3>2 DEF FilmsKnown, Quiet
    <3>6. PresetsKnown'
      BY <2>1, <3>2, <3>4 DEF AnimInv, PresetsKnown, Quiet
    <3> QED BY <2>1, <3>2, <3>4, <3>5, <3>6 DEF AnimInv, KeptTypes, Keeps
  <2> QED BY <2>2, <2>3, <2>4
<1>6. CASE FilmMade \/ FilmRuns
  <2>0. kept' = kept /\ reqs' = reqs /\ stored \in Stores
    BY <1>6 DEF FilmMade, FilmRuns, reqVars, AnimInv, Stores
  <2>1. /\ stored' \in Stores' /\ stored'.presets = stored.presets
        /\ DOMAIN stored.films \subseteq DOMAIN stored'.films
    <3>1. CASE FilmMade
      <4> DEFINE films == With(stored.films, stored.made + 1, "pending")
      <4>1. DOMAIN stored.films \subseteq DOMAIN films
        BY DEF With
      <4>2. PICK made : stored' = [stored EXCEPT !.made = made, !.films = films]
        BY <3>1 DEF FilmMade
      <4> HIDE DEF films
      <4> QED BY <2>0, <4>1, <4>2 DEF Stores
    <3>2. CASE FilmRuns
      <4>1. PICK id, status : stored' = [stored EXCEPT !.films[id] = status]
        BY <3>2 DEF FilmRuns
      <4>2. DOMAIN [stored.films EXCEPT ![id] = status] = DOMAIN stored.films
        OBVIOUS
      <4>3. PICK films : /\ stored' = [stored EXCEPT !.films = films]
                         /\ DOMAIN stored.films \subseteq DOMAIN films
        BY <4>1, <4>2
      <4> QED BY <2>0, <4>3 DEF Stores
    <3> QED BY <1>6, <3>1, <3>2
  <2>2. FilmsKnown'
    <3>1. FilmsKnown
      BY DEF AnimInv
    <3> QED BY <2>0, <2>1, <3>1 DEF FilmsKnown, Quiet, Done
  <2>3. PresetsKnown' /\ ReqsInv'
    BY <2>0, <2>1 DEF AnimInv, PresetsKnown, Quiet, Done, ReqsInv
  <2> QED BY <2>0, <2>1, <2>2, <2>3 DEF AnimInv, Stores
<1> QED BY <1>1, <1>2, <1>3, <1>4, <1>5, <1>6 DEF PresetNext, FilmNext

LEMMA AnimShows == ASSUME AnimInv PROVE ShelfAsStored
BY DEF AnimInv, ShelfAsStored, PresetsKnown, FilmsKnown, Done

-----------------------------------------------------------------------------
(* The uploads. *)

Files == 1..MaxFiles
Statuses == {"uploading", "done", "error"}
Run(a, b) == [i \in 1..(b - a + 1) |-> a + i - 1]
From(loop) == Head(loop.files)
Upto(loop) == loop.files[Len(loop.files)]
Waiting(loops) == UNION {(From(l) + 1)..Upto(l) : l \in loops}

\* Batches are runs of files that do not meet; the rows that are there and the
\* files that wait for one are not more than were dropped.
LoopsInv ==
    /\ \A l \in upload.loops : /\ l = [files |-> Run(From(l), Upto(l)), slot |-> l.slot]
                               /\ From(l) \in 1..Upto(l) /\ Upto(l) \in 1..upload.dropped
    /\ \A l, m \in upload.loops : l = m \/ Upto(l) < From(m) \/ Upto(m) < From(l)
    /\ upload.idx + Cardinality(Waiting(upload.loops)) <= upload.dropped

\* A batch is at its own row, or in a slot that was taken; no other row is of its
\* file, and none of a file that still waits.  A file that has a row or waits for
\* one has not ended; rows are appended in the slots they are given.
RowsInv ==
    /\ \A l \in upload.loops :
          /\ \/ l.slot \in upload.taken
             \/ l.slot \in DOMAIN upload.rows /\ upload.rows[l.slot].file = From(l)
          /\ \A i \in DOMAIN upload.rows :
                upload.rows[i].file \in From(l)..Upto(l) => upload.rows[i].file = From(l) /\ i = l.slot
          /\ \A f \in From(l)..Upto(l) : upload.ended[f] = "uploading"
    /\ \A f \in Files : f > upload.dropped => upload.ended[f] = "uploading"
    /\ Len(upload.rows) = upload.idx
    /\ RowsAreTrue

ShelfInv ==
    /\ upload \in [rows : Seq([file : Files, status : Statuses]), idx : 0..MaxFiles,
                   dropped : 0..MaxFiles, loops : {upload.loops}, taken : {upload.taken},
                   ended : [Files -> Statuses]]
    /\ \A i \in DOMAIN upload.rows : upload.rows[i].file \in 1..upload.dropped
    /\ LoopsInv /\ RowsInv
    /\ shelfUi.shown \subseteq Files /\ images \subseteq Files
    /\ shelfUi \in [shown : {shelfUi.shown}, preview : {shelfUi.preview},
                    deleting : {shelfUi.deleting}, filter : {shelfUi.filter}]

LEMMA RunOf ==
    ASSUME NEW a \in Nat \ {0}, NEW b \in Nat, a <= b
    PROVE  /\ Run(a, b) # <<>> /\ Head(Run(a, b)) = a /\ Run(a, b)[Len(Run(a, b))] = b
           /\ Tail(Run(a, b)) = IF a = b THEN <<>> ELSE Run(a + 1, b)
<1> DEFINE r == Run(a, b)
           n == b - a + 1
<1>1. n \in Nat \ {0} /\ r = [i \in 1..n |-> a + i - 1]
  BY DEF Run
<1>2. r \in Seq(Int) /\ Len(r) = n /\ DOMAIN r = 1..n
  BY <1>1
<1>3. \A i \in 1..n : r[i] = a + i - 1
  BY <1>1
<1> HIDE DEF r
<1>4. 1 \in 1..n /\ n \in 1..n
  BY <1>1
<1>5. r # <<>> /\ Head(r) = a
  BY <1>2, <1>3, <1>4
<1>6. r[Len(r)] = b
  BY <1>2, <1>3, <1>4
<1>7. /\ Tail(r) \in Seq(Int) /\ Len(Tail(r)) = n - 1
      /\ \A i \in 1..(n - 1) : Tail(r)[i] = a + i
  <2>1. /\ Tail(r) \in Seq(Int) /\ Len(Tail(r)) = n - 1
        /\ \A i \in 1..(n - 1) : Tail(r)[i] = r[i + 1]
    <3>1. n \in Nat \ {0} /\ r \in Seq(Int) /\ Len(r) = n /\ r # <<>>
      BY <1>1, <1>2, <1>5
    <3> HIDE DEF n
    <3> QED BY <3>1
  <2>2. \A i \in 1..(n - 1) : i + 1 \in 1..n /\ a + (i + 1) - 1 = a + i
    BY <1>1
  <2> QED BY <1>3, <2>1, <2>2
<1>8. ASSUME a = b PROVE Tail(r) = <<>>
  <2>1. Tail(r) \in Seq(Int) /\ Len(Tail(r)) = 0
    BY <1>7, <1>8
  <2> QED BY <2>1, EmptySeq
<1>9. ASSUME a # b PROVE Tail(r) = Run(a + 1, b)
  <2> DEFINE t == Run(a + 1, b)
  <2>1. t = [i \in 1..(b - (a + 1) + 1) |-> a + 1 + i - 1]
    BY DEF Run
  <2>2. b - (a + 1) + 1 = n - 1 /\ n - 1 \in Nat
    BY <1>1
  <2>3. t = [i \in 1..(n - 1) |-> a + 1 + i - 1]
    BY <2>1, <2>2
  <2> HIDE DEF t, n
  <2>4. t \in Seq(Int) /\ Len(t) = n - 1 /\ \A i \in 1..(n - 1) : t[i] = a + i
    BY <2>2, <2>3
  <2>5. Tail(r) = t
    <3>1. \A i \in 1..Len(t) : Tail(r)[i] = t[i]
      BY <1>7, <2>4
    <3>2. Len(Tail(r)) = Len(t) /\ Tail(r) \in Seq(Int)
      BY <1>7, <2>4
    <3> QED BY <2>4, <3>1, <3>2, SeqEqual
  <2> QED BY <2>5 DEF t
<1> QED BY <1>5, <1>6, <1>8, <1>9 DEF r

LEMMA FilesDropped == MaxFiles \in Nat \ {0}
BY UploadAssumption

LEMMA ShelfInitially == ASSUME ShelfInit PROVE ShelfInv
<1>1. /\ upload.loops = {} /\ upload.rows = <<>> /\ upload.idx = 0 /\ upload.dropped = 0
      /\ \A f \in Files : upload.ended[f] = "uploading"
      /\ <<>> \in Seq([file : Files, status : Statuses]) /\ DOMAIN <<>> = {}
      /\ 0 \in 0..MaxFiles
  BY FilesDropped DEF ShelfInit, Files
<1>2. upload \in [rows : Seq([file : Files, status : Statuses]), idx : 0..MaxFiles,
                  dropped : 0..MaxFiles, loops : {upload.loops}, taken : {upload.taken},
                  ended : [Files -> Statuses]]
  BY <1>1 DEF ShelfInit, Files, Statuses
<1>3. LoopsInv
  <2>1. Waiting(upload.loops) = {}
    BY <1>1 DEF Waiting
  <2>2. Cardinality(Waiting(upload.loops)) = 0
    BY <2>1, FS_EmptySet
  <2> QED BY <1>1, <2>2 DEF LoopsInv
<1>4. RowsInv
  BY <1>1 DEF RowsInv, RowsAreTrue
<1> QED BY <1>1, <1>2, <1>3, <1>4 DEF ShelfInv, ShelfInit

\* The batch that starts with the files that are dropped.
LEMMA Dropped ==
    ASSUME ShelfInv, handleFiles
    PROVE  \E size \in 0..(MaxFiles - upload.dropped) :
             LET d == upload.dropped
                 new == Loop(Run(d + 1, d + size), 1)
             IN  /\ upload' = [upload EXCEPT
                      !.dropped = d + size, !.idx = IF size = 0 THEN 0 ELSE 1,
                      !.rows = IF size = 0 THEN <<>> ELSE <<Row(d + 1)>>,
                      !.loops = IF size = 0 THEN upload.loops ELSE upload.loops \cup {new},
                      !.taken = {l.slot : l \in upload.loops}]
                 /\ size # 0 => /\ From(new) = d + 1 /\ Upto(new) = d + size
                                /\ new = [files |-> Run(From(new), Upto(new)), slot |-> new.slot]
                                /\ new.slot = 1
<1>1. PICK size \in 0..(MaxFiles - upload.dropped) :
         LET files == [i \in 1..size |-> upload.dropped + i]
         IN  upload' = [upload EXCEPT
               !.dropped = @ + size, !.idx = IF size = 0 THEN 0 ELSE 1,
               !.rows = IF size = 0 THEN <<>> ELSE <<Row(Head(files))>>,
               !.loops = IF size = 0 THEN @ ELSE @ \cup {Loop(files, 1)},
               !.taken = {l.slot : l \in upload.loops}]
  BY DEF handleFiles
<1> DEFINE d == upload.dropped
           files == [i \in 1..size |-> d + i]
           new == Loop(Run(d + 1, d + size), 1)
<1>2. d \in Nat /\ size \in Nat
  BY FilesDropped DEF ShelfInv
<1>3. files = Run(d + 1, d + size)
  <2>1. (d + size) - (d + 1) + 1 = size /\ \A i \in 1..size : d + 1 + i - 1 = d + i
    BY <1>2
  <2> HIDE DEF d
  <2> QED BY <2>1 DEF Run
<1>4. ASSUME size # 0
      PROVE  /\ Head(files) = d + 1 /\ From(new) = d + 1 /\ Upto(new) = d + size
             /\ new = [files |-> Run(From(new), Upto(new)), slot |-> new.slot] /\ new.slot = 1
  <2>1. d + 1 \in Nat \ {0} /\ d + size \in Nat /\ d + 1 <= d + size
    BY <1>2, <1>4
  <2> HIDE DEF d
  <2>2. /\ Head(Run(d + 1, d + size)) = d + 1
        /\ Run(d + 1, d + size)[Len(Run(d + 1, d + size))] = d + size
    BY <2>1, RunOf
  <2>3. new = [files |-> Run(d + 1, d + size), slot |-> 1]
    BY DEF Loop
  <2>4. From(new) = d + 1 /\ Upto(new) = d + size
    BY <2>2, <2>3 DEF From, Upto
  <2> QED BY <1>3, <2>2, <2>3, <2>4
<1>5. upload' = [upload EXCEPT
         !.dropped = d + size, !.idx = IF size = 0 THEN 0 ELSE 1,
         !.rows = IF size = 0 THEN <<>> ELSE <<Row(d + 1)>>,
         !.loops = IF size = 0 THEN upload.loops ELSE upload.loops \cup {new},
         !.taken = {l.slot : l \in upload.loops}]
  <2>1. upload' = [upload EXCEPT
               !.dropped = d + size, !.idx = IF size = 0 THEN 0 ELSE 1,
               !.rows = IF size = 0 THEN <<>> ELSE <<Row(Head(files))>>,
               !.loops = IF size = 0 THEN upload.loops ELSE upload.loops \cup {Loop(files, 1)},
               !.taken = {l.slot : l \in upload.loops}]
    BY <1>1
  <2> HIDE DEF files, d
  <2> QED BY <1>3, <1>4, <2>1
<1> QED BY <1>4, <1>5

Zones == [rows : {upload.rows}, idx : {upload.idx}, dropped : {upload.dropped},
          loops : {upload.loops}, taken : {upload.taken}, ended : {upload.ended}]
ShelfRows == Seq([file : Files, status : Statuses])

LEMMA ZoneTyped ==
    ASSUME ShelfInv
    PROVE  /\ upload \in Zones /\ upload.rows \in ShelfRows /\ upload.idx \in Nat
           /\ upload.dropped \in Nat /\ upload.dropped <= MaxFiles
           /\ upload.ended \in [Files -> Statuses] /\ MaxFiles \in Nat
           /\ \A i \in DOMAIN upload.rows : upload.rows[i].file \in 1..upload.dropped
BY FilesDropped DEF ShelfInv, Zones, ShelfRows

\* Files that wait are files that were dropped.
LEMMA WaitingFinite ==
    ASSUME ShelfInv
    PROVE  /\ IsFiniteSet(Waiting(upload.loops)) /\ Cardinality(Waiting(upload.loops)) \in Nat
           /\ Waiting(upload.loops) \subseteq 1..upload.dropped
<1>1. Waiting(upload.loops) \subseteq 1..upload.dropped
  <2> SUFFICES ASSUME NEW l \in upload.loops, NEW f \in (From(l) + 1)..Upto(l)
               PROVE  f \in 1..upload.dropped
    BY DEF Waiting
  <2>1. From(l) \in 1..Upto(l) /\ Upto(l) \in 1..upload.dropped
    BY DEF ShelfInv, LoopsInv
  <2>2. From(l) \in Nat /\ Upto(l) \in Nat /\ upload.dropped \in Nat
    BY <2>1, ZoneTyped
  <2> QED BY <2>1, <2>2
<1>2. IsFiniteSet(1..upload.dropped)
  BY ZoneTyped, FS_Interval
<1> QED BY <1>1, <1>2, FS_Subset, FS_CardinalityType

LEMMA DroppedLoops ==
    ASSUME ShelfInv, NEW size \in Nat, upload'.dropped = upload.dropped + size,
           upload'.idx = IF size = 0 THEN 0 ELSE 1, NEW new,
           upload'.loops = IF size = 0 THEN upload.loops ELSE upload.loops \cup {new},
           size # 0 => /\ From(new) = upload.dropped + 1 /\ Upto(new) = upload.dropped + size
                       /\ new = [files |-> Run(From(new), Upto(new)), slot |-> new.slot]
    PROVE  LoopsInv'
<1> DEFINE d == upload.dropped
           W == Waiting(upload.loops)
<1>1. /\ d \in Nat /\ W \subseteq 1..d /\ IsFiniteSet(W) /\ Cardinality(W) \in Nat
      /\ upload.idx \in Nat /\ upload.idx + Cardinality(W) <= d
  BY ZoneTyped, WaitingFinite DEF ShelfInv, LoopsInv
<1>2. CASE size = 0
  <2>1. upload'.loops = upload.loops /\ upload'.dropped = d /\ upload'.idx = 0
    BY <1>1, <1>2
  <2>2. 0 + Cardinality(W) <= d
    BY <1>1
  <2> QED BY <2>1, <2>2 DEF ShelfInv, LoopsInv
<1>3. CASE size # 0
  <2>1. /\ upload'.loops = upload.loops \cup {new} /\ upload'.dropped = d + size /\ upload'.idx = 1
        /\ From(new) \in 1..Upto(new) /\ Upto(new) \in 1..(d + size)
    BY <1>1, <1>3
  <2>2. \A l \in upload.loops : Upto(l) < From(new) /\ Upto(l) \in 1..(d + size)
    <3> SUFFICES ASSUME NEW l \in upload.loops
                 PROVE  Upto(l) < From(new) /\ Upto(l) \in 1..(d + size)
      OBVIOUS
    <3>1. Upto(l) \in 1..d
      BY DEF ShelfInv, LoopsInv
    <3> QED BY <1>1, <1>3, <3>1
  <2> DEFINE X == (d + 2)..(d + size)
  <2>3. Waiting(upload'.loops) = W \cup X
    <3>1. (From(new) + 1)..Upto(new) = X
      BY <1>1, <1>3
    <3> QED BY <2>1, <3>1 DEF Waiting
  <2>4. IsFiniteSet(X) /\ Cardinality(X) <= size - 1
    <3>1. d + 2 \in Int /\ d + size \in Int
      BY <1>1
    <3>2. IsFiniteSet(X) /\ Cardinality(X) = IF d + 2 > d + size THEN 0 ELSE (d + size) - (d + 2) + 1
      BY <3>1, FS_Interval
    <3> QED BY <1>1, <1>3, <3>2
  <2>5. Cardinality(W \cup X) <= Cardinality(W) + Cardinality(X)
    <3>1. Cardinality(W \cup X) = Cardinality(W) + Cardinality(X) - Cardinality(W \cap X)
      BY <1>1, <2>4, FS_Union
    <3>2. IsFiniteSet(W \cap X)
      BY <1>1, FS_Intersection
    <3>3. Cardinality(W \cap X) \in Nat /\ Cardinality(X) \in Nat
      BY <2>4, <3>2, FS_CardinalityType
    <3> QED BY <1>1, <3>1, <3>3
  <2>6. Cardinality(W \cup X) \in Nat /\ Cardinality(X) \in Nat
    <3>1. IsFiniteSet(W \cup X)
      BY <1>1, <2>4, FS_Union
    <3> QED BY <2>4, <3>1, FS_CardinalityType
  <2>7. 1 + Cardinality(W \cup X) <= d + size
    <3> HIDE DEF W, X, d
    <3> QED BY <1>1, <1>3, <2>4, <2>5, <2>6
  <2>8. upload'.idx + Cardinality(Waiting(upload'.loops)) <= upload'.dropped
    BY <2>1, <2>3, <2>7
  <2>9. \A l \in upload'.loops : /\ l = [files |-> Run(From(l), Upto(l)), slot |-> l.slot]
                                 /\ From(l) \in 1..Upto(l) /\ Upto(l) \in 1..upload'.dropped
    BY <1>3, <2>1, <2>2 DEF ShelfInv, LoopsInv
  <2>10. \A l, m \in upload'.loops : l = m \/ Upto(l) < From(m) \/ Upto(m) < From(l)
    BY <2>1, <2>2 DEF ShelfInv, LoopsInv
  <2> QED BY <2>8, <2>9, <2>10 DEF LoopsInv
<1> QED BY <1>2, <1>3

LEMMA DropStep == ASSUME ShelfInv, handleFiles PROVE ShelfInv'
<1> DEFINE d == upload.dropped
<1>1. PICK size \in 0..(MaxFiles - d) :
         LET new == Loop(Run(d + 1, d + size), 1)
         IN  /\ upload' = [upload EXCEPT
                  !.dropped = d + size, !.idx = IF size = 0 THEN 0 ELSE 1,
                  !.rows = IF size = 0 THEN <<>> ELSE <<Row(d + 1)>>,
                  !.loops = IF size = 0 THEN upload.loops ELSE upload.loops \cup {new},
                  !.taken = {l.slot : l \in upload.loops}]
             /\ size # 0 => /\ From(new) = d + 1 /\ Upto(new) = d + size
                            /\ new = [files |-> Run(From(new), Upto(new)), slot |-> new.slot]
                            /\ new.slot = 1
  BY Dropped
<1> DEFINE new == Loop(Run(d + 1, d + size), 1)
<1>2. /\ upload' = [upload EXCEPT
             !.dropped = d + size, !.idx = IF size = 0 THEN 0 ELSE 1,
             !.rows = IF size = 0 THEN <<>> ELSE <<Row(d + 1)>>,
             !.loops = IF size = 0 THEN upload.loops ELSE upload.loops \cup {new},
             !.taken = {l.slot : l \in upload.loops}]
      /\ size # 0 => /\ From(new) = d + 1 /\ Upto(new) = d + size
                     /\ new = [files |-> Run(From(new), Upto(new)), slot |-> new.slot]
                     /\ new.slot = 1
  BY <1>1
<1> HIDE DEF new
<1>3. /\ d \in Nat /\ MaxFiles \in Nat /\ size \in Nat /\ d + size <= MaxFiles /\ d <= MaxFiles
      /\ upload \in Zones /\ upload.ended \in [Files -> Statuses]
  BY ZoneTyped
<1>4. /\ upload'.dropped = d + size /\ upload'.idx = (IF size = 0 THEN 0 ELSE 1)
      /\ upload'.rows = (IF size = 0 THEN <<>> ELSE <<Row(d + 1)>>)
      /\ upload'.loops = (IF size = 0 THEN upload.loops ELSE upload.loops \cup {new})
      /\ upload'.taken = {l.slot : l \in upload.loops} /\ upload'.ended = upload.ended
      /\ upload' \in Zones'
  BY <1>2, <1>3 DEF Zones
<1>5. LoopsInv'
  BY <1>2, <1>3, <1>4, DroppedLoops
<1>6. size # 0 => /\ d + 1 \in Files /\ d + 1 \in 1..(d + size)
                  /\ Row(d + 1) \in [file : Files, status : Statuses]
                  /\ Row(d + 1).file = d + 1 /\ Row(d + 1).status = "uploading"
  BY <1>3 DEF Files, Statuses, Row
<1> DEFINE row == Row(d + 1)
<1>7. /\ upload'.rows \in ShelfRows /\ Len(upload'.rows) = (IF size = 0 THEN 0 ELSE 1)
      /\ DOMAIN upload'.rows = 1..Len(upload'.rows)
      /\ \A i \in DOMAIN upload'.rows : i = 1 /\ size # 0 /\ upload'.rows[i] = row
  <2> HIDE DEF row
  <2>1. CASE size = 0
    <3>1. upload'.rows = <<>>
      BY <1>4, <2>1
    <3> QED BY <2>1, <3>1 DEF ShelfRows
  <2>2. CASE size # 0
    <3>1. upload'.rows = <<row>> /\ row \in [file : Files, status : Statuses]
      BY <1>4, <1>6, <2>2 DEF row
    <3> QED BY <2>2, <3>1 DEF ShelfRows
  <2> QED BY <2>1, <2>2
<1>8. \A i \in DOMAIN upload'.rows : upload'.rows[i].file \in 1..upload'.dropped
  BY <1>4, <1>6, <1>7
<1>9. RowsInv'
  <2>0. /\ upload'.idx = Len(upload'.rows) /\ \A f \in Files : f > d => upload.ended[f] = "uploading"
        /\ \A l \in upload.loops : \A f \in From(l)..Upto(l) : upload.ended[f] = "uploading"
    BY <1>4, <1>7 DEF ShelfInv, RowsInv
  <2>1. \A f \in Files : f > upload'.dropped => upload'.ended[f] = "uploading"
    BY <1>3, <1>4, <2>0 DEF Files
  <2>2. \A i \in DOMAIN upload'.rows :
           /\ i = 1 /\ size # 0 /\ upload'.rows[i].file = d + 1
           /\ upload'.rows[i].status = "uploading" /\ upload'.ended[d + 1] = "uploading"
    <3>1. size # 0 => d + 1 \in Files /\ d + 1 > d
      BY <1>3, <1>6
    <3> QED BY <1>4, <1>6, <1>7, <2>0, <3>1
  <2>3. ASSUME NEW l \in upload.loops
        PROVE  /\ l.slot \in upload'.taken
               /\ \A i \in DOMAIN upload'.rows : upload'.rows[i].file \notin From(l)..Upto(l)
    <3>1. Upto(l) \in 1..d /\ From(l) \in 1..Upto(l)
      BY DEF ShelfInv, LoopsInv
    <3>2. d + 1 \notin From(l)..Upto(l)
      BY <1>3, <3>1
    <3> QED BY <1>4, <2>2, <3>2
  <2>4. ASSUME size # 0
        PROVE  /\ new.slot = 1 /\ 1 \in DOMAIN upload'.rows /\ From(new) = d + 1
               /\ \A f \in From(new)..Upto(new) : upload'.ended[f] = "uploading"
    <3>1. new.slot = 1 /\ Len(upload'.rows) = 1 /\ From(new) = d + 1 /\ Upto(new) = d + size
      BY <1>2, <1>7, <2>4
    <3>2. \A f \in (d + 1)..(d + size) : f \in Files /\ f > d
      BY <1>3 DEF Files
    <3> QED BY <1>4, <1>7, <2>0, <3>1, <3>2
  <2>5. \A l \in upload'.loops : l \in upload.loops \/ (size # 0 /\ l = new)
    BY <1>4
  <2>6. \A l \in upload'.loops :
          /\ \/ l.slot \in upload'.taken
             \/ l.slot \in DOMAIN upload'.rows /\ upload'.rows[l.slot].file = From(l)
          /\ \A i \in DOMAIN upload'.rows : upload'.rows[i].file \in From(l)..Upto(l) =>
                upload'.rows[i].file = From(l) /\ i = l.slot
          /\ \A f \in From(l)..Upto(l) : upload'.ended[f] = "uploading"
    BY <1>4, <2>0, <2>2, <2>3, <2>4, <2>5
  <2>7. RowsAreTrue'
    BY <2>2 DEF RowsAreTrue
  <2> QED BY <2>0, <2>1, <2>6, <2>7 DEF RowsInv
<1>10. UNCHANGED <<shelfUi, images>>
  BY DEF handleFiles
<1>11. upload'.idx \in 0..MaxFiles /\ upload'.dropped \in 0..MaxFiles
  BY <1>3, <1>4
<1>12. upload' \in [rows : ShelfRows, idx : 0..MaxFiles, dropped : 0..MaxFiles,
                    loops : {upload'.loops}, taken : {upload'.taken}, ended : [Files -> Statuses]]
  BY <1>3, <1>4, <1>7, <1>11 DEF Zones
<1> QED BY <1>5, <1>8, <1>9, <1>10, <1>12 DEF ShelfInv, ShelfRows

\* The file at the head of a batch is stored or not, its row is filled in, and the
\* batch goes on with the next.
LEMMA UploadEnded ==
    ASSUME ShelfInv, NEW l \in upload.loops, UploadEnds(l)
    PROVE  \E status \in {"done", "error"} :
             LET filled == [i \in DOMAIN upload.rows |->
                              IF i = l.slot THEN [upload.rows[i] EXCEPT !.status = status]
                              ELSE upload.rows[i]]
                 last == From(l) = Upto(l)
                 next == Loop(Run(From(l) + 1, Upto(l)), upload.idx + 1)
             IN  /\ upload' = [upload EXCEPT
                      !.ended[From(l)] = status,
                      !.rows = IF last THEN filled ELSE Append(filled, Row(From(l) + 1)),
                      !.idx = IF last THEN upload.idx ELSE upload.idx + 1,
                      !.loops = (upload.loops \ {l}) \cup IF last THEN {} ELSE {next}]
                 /\ ~last => /\ From(next) = From(l) + 1 /\ Upto(next) = Upto(l)
                             /\ next = [files |-> Run(From(next), Upto(next)), slot |-> next.slot]
                             /\ next.slot = upload.idx + 1
                 /\ images' \subseteq images \cup {From(l)} /\ UNCHANGED shelfUi
<1> DEFINE a == From(l)
           b == Upto(l)
           rest == Tail(l.files)
           next == Loop(Run(a + 1, b), upload.idx + 1)
<1>1. /\ l = [files |-> Run(a, b), slot |-> l.slot] /\ a \in 1..b /\ b \in Nat /\ a \in Nat \ {0}
      /\ a <= b
  <2>1. l = [files |-> Run(a, b), slot |-> l.slot] /\ a \in 1..b /\ b \in 1..upload.dropped
    BY DEF ShelfInv, LoopsInv
  <2>2. b \in Nat
    BY <2>1, ZoneTyped
  <2> HIDE DEF a, b
  <2> QED BY <2>1, <2>2
<1>2. l.files = Run(a, b)
  <2> HIDE DEF a, b
  <2> QED BY <1>1
<1>3. rest = IF a = b THEN <<>> ELSE Run(a + 1, b)
  <2>1. Tail(Run(a, b)) = IF a = b THEN <<>> ELSE Run(a + 1, b)
    <3> HIDE DEF a, b
    <3> QED BY <1>1, RunOf
  <2> QED BY <1>2, <2>1
<1>4. ASSUME a # b
      PROVE  /\ rest # <<>> /\ Head(rest) = a + 1 /\ From(next) = a + 1 /\ Upto(next) = b
             /\ next = [files |-> Run(From(next), Upto(next)), slot |-> next.slot]
             /\ next.slot = upload.idx + 1
  <2>1. a + 1 \in Nat \ {0} /\ b \in Nat /\ a + 1 <= b
    <3> HIDE DEF a, b
    <3> QED BY <1>1, <1>4
  <2> HIDE DEF a, b
  <2>2. /\ Run(a + 1, b) # <<>> /\ Head(Run(a + 1, b)) = a + 1
        /\ Run(a + 1, b)[Len(Run(a + 1, b))] = b
    BY <2>1, RunOf
  <2>3. next = [files |-> Run(a + 1, b), slot |-> upload.idx + 1]
    BY DEF Loop
  <2>4. From(next) = a + 1 /\ Upto(next) = b
    BY <2>2, <2>3 DEF From, Upto
  <2>5. rest = Run(a + 1, b)
    BY <1>3, <1>4
  <2>6. next.slot = upload.idx + 1
    BY <2>3
  <2> HIDE DEF rest, next
  <2> QED BY <2>2, <2>3, <2>4, <2>5, <2>6
<1>5. (rest = <<>>) <=> (a = b)
  BY <1>3, <1>4
<1>6. PICK status \in {"done", "error"} :
         LET filled == [i \in DOMAIN upload.rows |->
                          IF i = l.slot THEN [upload.rows[i] EXCEPT !.status = status]
                          ELSE upload.rows[i]]
         IN  upload' = [upload EXCEPT
                   !.ended[a] = status,
                   !.rows = IF rest = <<>> THEN filled ELSE Append(filled, Row(Head(rest))),
                   !.idx = IF rest = <<>> THEN upload.idx ELSE upload.idx + 1,
                   !.loops = (upload.loops \ {l}) \cup
                               IF rest = <<>> THEN {} ELSE {Loop(rest, upload.idx + 1)}]
  BY DEF UploadEnds, Reported, From
<1> DEFINE filled == [i \in DOMAIN upload.rows |->
                        IF i = l.slot THEN [upload.rows[i] EXCEPT !.status = status]
                        ELSE upload.rows[i]]
<1>7. upload' = [upload EXCEPT
          !.ended[a] = status,
          !.rows = IF a = b THEN filled ELSE Append(filled, Row(a + 1)),
          !.idx = IF a = b THEN upload.idx ELSE upload.idx + 1,
          !.loops = (upload.loops \ {l}) \cup IF a = b THEN {} ELSE {next}]
  <2>1. upload' = [upload EXCEPT
            !.ended[a] = status,
            !.rows = IF rest = <<>> THEN filled ELSE Append(filled, Row(Head(rest))),
            !.idx = IF rest = <<>> THEN upload.idx ELSE upload.idx + 1,
            !.loops = (upload.loops \ {l}) \cup
                        IF rest = <<>> THEN {} ELSE {Loop(rest, upload.idx + 1)}]
    BY <1>6
  <2>2. CASE a = b
    <3>1. rest = <<>>
      BY <1>5, <2>2
    <3> HIDE DEF a, b, rest, filled
    <3> QED BY <2>1, <2>2, <3>1
  <2>3. CASE a # b
    <3>1. rest # <<>> /\ Head(rest) = a + 1 /\ Loop(rest, upload.idx + 1) = next
      BY <1>3, <1>4, <2>3
    <3> HIDE DEF a, b, rest, filled, next
    <3> QED BY <2>1, <2>3, <3>1
  <2> QED BY <2>2, <2>3
<1>8. images' \subseteq images \cup {a} /\ UNCHANGED shelfUi
  BY DEF UploadEnds, From
<1> QED BY <1>4, <1>7, <1>8

LEMMA EndedLoops ==
    ASSUME ShelfInv, NEW l \in upload.loops, NEW next, upload'.dropped = upload.dropped,
           upload'.idx = IF From(l) = Upto(l) THEN upload.idx ELSE upload.idx + 1,
           upload'.loops = (upload.loops \ {l}) \cup IF From(l) = Upto(l) THEN {} ELSE {next},
           From(l) # Upto(l) =>
               /\ From(next) = From(l) + 1 /\ Upto(next) = Upto(l)
               /\ next = [files |-> Run(From(next), Upto(next)), slot |-> next.slot]
    PROVE  LoopsInv' /\ upload'.idx \in 0..MaxFiles
<1> DEFINE d == upload.dropped
           W == Waiting(upload.loops)
           a == From(l)
           b == Upto(l)
<1>1. /\ d \in Nat /\ d <= MaxFiles /\ MaxFiles \in Nat /\ W \subseteq 1..d /\ IsFiniteSet(W)
      /\ Cardinality(W) \in Nat /\ upload.idx \in Nat /\ upload.idx + Cardinality(W) <= d
  BY ZoneTyped, WaitingFinite DEF ShelfInv, LoopsInv
<1>2. a \in Nat /\ b \in Nat /\ 1 <= a /\ a <= b /\ b \in 1..d
  <2>1. a \in 1..b /\ b \in 1..d
    BY DEF ShelfInv, LoopsInv
  <2> HIDE DEF a, b, d
  <2> QED BY <1>1, <2>1
<1>3. ASSUME NEW m \in upload.loops, m # l
      PROVE  /\ From(m) \in Nat /\ Upto(m) \in Nat /\ From(m) <= Upto(m)
             /\ Upto(m) < a \/ b < From(m)
  <2>1. From(m) \in 1..Upto(m) /\ Upto(m) \in 1..d /\ (Upto(m) < a \/ b < From(m))
    BY <1>3 DEF ShelfInv, LoopsInv
  <2> HIDE DEF a, b, d
  <2> QED BY <1>1, <2>1
<1>4. CASE a = b
  <2>1. upload'.loops = upload.loops \ {l} /\ upload'.idx = upload.idx /\ upload'.dropped = d
    BY <1>4
  <2>2. Waiting(upload'.loops) = W
    <3>1. (a + 1)..b = {}
      <4> HIDE DEF a, b
      <4> QED BY <1>2, <1>4
    <3> QED BY <2>1, <3>1 DEF Waiting
  <2> QED BY <1>1, <2>1, <2>2 DEF ShelfInv, LoopsInv
<1>5. CASE a # b
  <2>1. /\ upload'.loops = (upload.loops \ {l}) \cup {next} /\ upload'.idx = upload.idx + 1
        /\ upload'.dropped = d /\ From(next) = a + 1 /\ Upto(next) = b
        /\ next = [files |-> Run(From(next), Upto(next)), slot |-> next.slot]
    BY <1>5
  <2>2. Waiting(upload'.loops) = W \ {a + 1}
    <3>1. \A m \in upload.loops \ {l} : (From(m) + 1)..Upto(m) = ((From(m) + 1)..Upto(m)) \ {a + 1}
      <4> SUFFICES ASSUME NEW m \in upload.loops \ {l}
                   PROVE  a + 1 \notin (From(m) + 1)..Upto(m)
        OBVIOUS
      <4>1. m \in upload.loops /\ m # l
        OBVIOUS
      <4>2. /\ From(m) \in Nat /\ Upto(m) \in Nat /\ From(m) <= Upto(m)
            /\ Upto(m) < a \/ b < From(m)
        BY <1>3, <4>1
      <4> HIDE DEF a, b
      <4> QED BY <1>2, <1>5, <4>2
    <3>2. (From(next) + 1)..Upto(next) = ((a + 1)..b) \ {a + 1}
      <4> HIDE DEF a, b
      <4> QED BY <1>2, <2>1
    <3>3. \A f : f \in Waiting(upload'.loops) <=>
                   f \in ((a + 1)..b) \ {a + 1}
                   \/ \E m \in upload.loops \ {l} : f \in ((From(m) + 1)..Upto(m)) \ {a + 1}
      BY <2>1, <3>1, <3>2 DEF Waiting
    <3>4. \A f : f \in W <=> f \in (a + 1)..b \/ \E m \in upload.loops \ {l} : f \in (From(m) + 1)..Upto(m)
      BY DEF Waiting
    <3> HIDE DEF W, a, b
    <3> QED BY <3>3, <3>4
  <2>3. a + 1 \in W
    <3>1. a + 1 \in (a + 1)..b
      <4> HIDE DEF a, b
      <4> QED BY <1>2, <1>5
    <3> QED BY <3>1 DEF Waiting
  <2>4. /\ Cardinality(W \ {a + 1}) = Cardinality(W) - 1
        /\ Cardinality(W \ {a + 1}) \in Nat
    <3>1. IsFiniteSet(W \ {a + 1}) /\ Cardinality(W \ {a + 1}) = Cardinality(W) - 1
      BY <1>1, <2>3, FS_RemoveElement
    <3> QED BY <3>1, FS_CardinalityType
  <2>5. /\ upload'.idx + Cardinality(Waiting(upload'.loops)) <= upload'.dropped
        /\ upload'.idx \in 0..MaxFiles
    <3>1. /\ upload.idx + 1 + Cardinality(W \ {a + 1}) <= d /\ upload.idx + 1 \in 0..MaxFiles
      <4> HIDE DEF W, d, a, b
      <4> QED BY <1>1, <2>4
    <3> QED BY <2>1, <2>2, <3>1
  <2>6. /\ From(next) \in 1..Upto(next) /\ Upto(next) \in 1..d
    <3> HIDE DEF a, b, d
    <3> QED BY <1>2, <1>5, <2>1
  <2>7. \A m \in upload'.loops : /\ m = [files |-> Run(From(m), Upto(m)), slot |-> m.slot]
                                 /\ From(m) \in 1..Upto(m) /\ Upto(m) \in 1..upload'.dropped
    BY <2>1, <2>6 DEF ShelfInv, LoopsInv
  <2>8. \A m \in upload.loops \ {l} : Upto(m) < From(next) \/ Upto(next) < From(m)
    <3> SUFFICES ASSUME NEW m \in upload.loops \ {l}
                 PROVE  Upto(m) < From(next) \/ Upto(next) < From(m)
      OBVIOUS
    <3>1. m \in upload.loops /\ m # l
      OBVIOUS
    <3>2. Upto(m) \in Nat /\ From(m) \in Nat /\ (Upto(m) < a \/ b < From(m))
      BY <1>3, <3>1
    <3> HIDE DEF a, b
    <3> QED BY <1>2, <2>1, <3>2
  <2>9. \A m, k \in upload'.loops : m = k \/ Upto(m) < From(k) \/ Upto(k) < From(m)
    BY <2>1, <2>8 DEF ShelfInv, LoopsInv
  <2> QED BY <2>5, <2>7, <2>9 DEF LoopsInv
<1> QED BY <1>4, <1>5

LEMMA EndStep == ASSUME ShelfInv, NEW l \in upload.loops, UploadEnds(l) PROVE ShelfInv'
<1> DEFINE a == From(l)
           b == Upto(l)
           d == upload.dropped
           next == Loop(Run(a + 1, b), upload.idx + 1)
           row == Row(a + 1)
<1>1. PICK status \in {"done", "error"} :
         LET filled == [i \in DOMAIN upload.rows |->
                          IF i = l.slot THEN [upload.rows[i] EXCEPT !.status = status]
                          ELSE upload.rows[i]]
             last == a = b
         IN  /\ upload' = [upload EXCEPT
                  !.ended[a] = status,
                  !.rows = IF last THEN filled ELSE Append(filled, row),
                  !.idx = IF last THEN upload.idx ELSE upload.idx + 1,
                  !.loops = (upload.loops \ {l}) \cup IF last THEN {} ELSE {next}]
             /\ ~last => /\ From(next) = a + 1 /\ Upto(next) = b
                         /\ next = [files |-> Run(From(next), Upto(next)), slot |-> next.slot]
                         /\ next.slot = upload.idx + 1
             /\ images' \subseteq images \cup {a} /\ UNCHANGED shelfUi
  BY UploadEnded
<1> DEFINE filled == [i \in DOMAIN upload.rows |->
                        IF i = l.slot THEN [upload.rows[i] EXCEPT !.status = status]
                        ELSE upload.rows[i]]
<1>2. /\ upload' = [upload EXCEPT
             !.ended[a] = status,
             !.rows = IF a = b THEN filled ELSE Append(filled, row),
             !.idx = IF a = b THEN upload.idx ELSE upload.idx + 1,
             !.loops = (upload.loops \ {l}) \cup IF a = b THEN {} ELSE {next}]
      /\ a # b => /\ From(next) = a + 1 /\ Upto(next) = b
                  /\ next = [files |-> Run(From(next), Upto(next)), slot |-> next.slot]
                  /\ next.slot = upload.idx + 1
      /\ images' \subseteq images \cup {a} /\ UNCHANGED shelfUi
  BY <1>1
<1> HIDE DEF next, filled, row
<1>3. /\ upload \in Zones /\ upload.rows \in ShelfRows /\ upload.idx \in Nat /\ d \in Nat
      /\ d <= MaxFiles /\ upload.ended \in [Files -> Statuses]
      /\ MaxFiles \in Nat
  BY ZoneTyped
<1>4. a \in Nat /\ b \in Nat /\ 1 <= a /\ a <= b /\ b <= d /\ a \in Files
  <2>1. a \in 1..b /\ b \in 1..d
    BY DEF ShelfInv, LoopsInv
  <2> HIDE DEF a, b, d
  <2> QED BY <1>3, <2>1 DEF Files
<1>5. /\ upload'.ended = [upload.ended EXCEPT ![a] = status]
      /\ upload'.rows = (IF a = b THEN filled ELSE Append(filled, row))
      /\ upload'.idx = (IF a = b THEN upload.idx ELSE upload.idx + 1)
      /\ upload'.loops = (upload.loops \ {l}) \cup IF a = b THEN {} ELSE {next}
      /\ upload'.taken = upload.taken /\ upload'.dropped = d
      /\ upload' \in Zones'
  <2> HIDE DEF a, b
  <2> QED BY <1>2, <1>3 DEF Zones
<1>6. LoopsInv' /\ upload'.idx \in 0..MaxFiles
  BY <1>2, <1>5, EndedLoops
<1>7. /\ filled \in ShelfRows /\ Len(filled) = Len(upload.rows)
      /\ \A i \in 1..Len(filled) : /\ filled[i].file = upload.rows[i].file
                                   /\ filled[i].status = IF i = l.slot THEN status
                                                         ELSE upload.rows[i].status
  <2> DEFINE n == Len(upload.rows)
             R == [file : Files, status : Statuses]
  <2>1. n \in Nat /\ DOMAIN upload.rows = 1..n /\ \A i \in 1..n : upload.rows[i] \in R
    <3>1. upload.rows \in Seq(R)
      BY <1>3 DEF ShelfRows
    <3> HIDE DEF R
    <3> QED BY <3>1
  <2>2. ASSUME NEW i \in 1..n
        PROVE  LET new == IF i = l.slot THEN [upload.rows[i] EXCEPT !.status = status]
                          ELSE upload.rows[i]
               IN  /\ new \in R /\ new.file = upload.rows[i].file
                   /\ new.status = IF i = l.slot THEN status ELSE upload.rows[i].status
    BY <2>1 DEF Statuses
  <2>3. /\ \A i \in 1..n : filled[i] = IF i = l.slot THEN [upload.rows[i] EXCEPT !.status = status]
                                       ELSE upload.rows[i]
        /\ DOMAIN filled = 1..n
    BY <2>1 DEF filled
  <2>4. filled \in [1..n -> R]
    BY <2>1, <2>2 DEF filled
  <2> HIDE DEF R, n
  <2>5. filled \in Seq(R) /\ Len(filled) = n
    BY <2>1, <2>4
  <2> QED BY <2>2, <2>3, <2>5 DEF R, n, ShelfRows
<1>8. a # b => /\ a + 1 \in Files /\ a + 1 \in 1..d /\ row \in [file : Files, status : Statuses]
               /\ row.file = a + 1 /\ row.status = "uploading"
  <2> HIDE DEF a, b, d
  <2> QED BY <1>3, <1>4 DEF Files, Statuses, Row, row
<1>9. /\ upload'.rows \in ShelfRows
      /\ Len(upload'.rows) = (IF a = b THEN Len(filled) ELSE Len(filled) + 1)
      /\ Len(filled) \in Nat /\ DOMAIN upload'.rows = 1..Len(upload'.rows)
      /\ \A i \in 1..Len(filled) : upload'.rows[i] = filled[i]
      /\ a # b => upload'.rows[Len(filled) + 1] = row
  <2> HIDE DEF a, b
  <2>1. CASE a = b
    BY <1>5, <1>7, <2>1 DEF ShelfRows
  <2>2. CASE a # b
    <3>1. upload'.rows = Append(filled, row) /\ row \in [file : Files, status : Statuses]
      BY <1>5, <1>8, <2>2
    <3> QED BY <1>7, <2>2, <3>1 DEF ShelfRows
  <2> QED BY <2>1, <2>2
<1>10. \A i \in DOMAIN upload'.rows : upload'.rows[i].file \in 1..upload'.dropped
  <2> SUFFICES ASSUME NEW i \in 1..Len(upload'.rows) PROVE upload'.rows[i].file \in 1..d
    BY <1>5, <1>9
  <2>1. CASE i \in 1..Len(filled)
    <3>1. i \in DOMAIN upload.rows
      BY <1>3, <1>7, <2>1 DEF ShelfRows
    <3>2. upload.rows[i].file \in 1..d
      BY <3>1, ZoneTyped
    <3> QED BY <1>7, <1>9, <2>1, <3>2
  <2>2. CASE i \notin 1..Len(filled)
    <3>1. a # b /\ i = Len(filled) + 1
      <4> HIDE DEF a, b
      <4> QED BY <1>9, <2>2
    <3> QED BY <1>8, <1>9, <3>1
  <2> QED BY <2>1, <2>2
<1>11. RowsInv'
  <2> DEFINE n == Len(upload.rows)
  <2>1. /\ n \in Nat /\ Len(filled) = n /\ DOMAIN upload.rows = 1..n /\ upload.idx = n
        /\ \A i \in DOMAIN upload.rows \ upload.taken :
               upload.rows[i].status = upload.ended[upload.rows[i].file]
        /\ \A f \in Files : f > d => upload.ended[f] = "uploading"
    BY <1>3, <1>7 DEF ShelfInv, RowsInv, RowsAreTrue, ShelfRows
  <2>2. \A m \in upload.loops :
          /\ m.slot \in upload.taken \/ (m.slot \in 1..n /\ upload.rows[m.slot].file = From(m))
          /\ \A i \in 1..n : upload.rows[i].file \in From(m)..Upto(m) =>
                upload.rows[i].file = From(m) /\ i = m.slot
          /\ \A f \in From(m)..Upto(m) : upload.ended[f] = "uploading"
          /\ From(m) \in Nat /\ Upto(m) \in Nat /\ From(m) <= Upto(m) /\ 1 <= From(m) /\ Upto(m) <= d
          /\ m = l \/ Upto(m) < a \/ b < From(m)
    <3>1. \A m \in upload.loops : From(m) \in 1..Upto(m) /\ Upto(m) \in 1..d
      BY DEF ShelfInv, LoopsInv
    <3>2. \A m \in upload.loops :
            From(m) \in Nat /\ Upto(m) \in Nat /\ From(m) <= Upto(m) /\ 1 <= From(m) /\ Upto(m) <= d
      <4> HIDE DEF d
      <4> QED BY <1>3, <3>1
    <3> QED BY <2>1, <3>2 DEF ShelfInv, RowsInv, LoopsInv
  <2>3. \A f \in Files : upload'.ended[f] = IF f = a THEN status ELSE upload.ended[f]
    <3> HIDE DEF a
    <3> QED BY <1>3, <1>4, <1>5
  <2>4. \A f \in Files : f > upload'.dropped => upload'.ended[f] = "uploading"
    <3> HIDE DEF a, b, d
    <3> QED BY <1>3, <1>4, <1>5, <2>1, <2>3 DEF Files
  <2>5. \A i \in 1..n : /\ upload'.rows[i].file = upload.rows[i].file /\ upload.rows[i].file \in Files
                        /\ upload'.rows[i].status = IF i = l.slot THEN status ELSE upload.rows[i].status
    <3>1. \A i \in 1..n : upload.rows[i].file \in 1..d
      BY <2>1, ZoneTyped
    <3>2. \A i \in 1..n : upload.rows[i].file \in Files
      <4> HIDE DEF d, n
      <4> QED BY <1>3, <3>1 DEF Files
    <3> QED BY <1>7, <1>9, <2>1, <3>2
  <2>6. /\ DOMAIN upload'.rows = (IF a = b THEN 1..n ELSE 1..(n + 1)) /\ Len(upload'.rows) = upload'.idx
        /\ a # b => /\ upload'.rows[n + 1].file = a + 1 /\ upload'.rows[n + 1].status = "uploading"
                    /\ next.slot = n + 1 /\ From(next) = a + 1 /\ Upto(next) = b
    <3>1. Len(upload'.rows) = (IF a = b THEN n ELSE n + 1)
      BY <1>9, <2>1
    <3> HIDE DEF a, b, n
    <3> QED BY <1>2, <1>5, <1>8, <1>9, <2>1, <3>1
  <2>7. a # b => \A f \in (a + 1)..b : f \in Files /\ upload'.ended[f] = "uploading"
    <3>1. a # b => \A f \in (a + 1)..b : f \in Files /\ f # a /\ f \in a..b
      <4> HIDE DEF a, b, d
      <4> QED BY <1>3, <1>4 DEF Files
    <3> QED BY <2>2, <2>3, <3>1
  <2>8. RowsAreTrue'
    <3> SUFFICES ASSUME NEW i \in DOMAIN upload'.rows, i \notin upload.taken
                 PROVE  upload'.rows[i].status = upload'.ended[upload'.rows[i].file]
      BY <1>5 DEF RowsAreTrue
    <3>1. CASE i \in 1..n /\ i = l.slot
      <4>1. upload'.rows[i].file = a /\ upload'.rows[i].status = status
        BY <2>2, <2>5, <3>1
      <4> QED BY <1>4, <2>3, <4>1
    <3>2. CASE i \in 1..n /\ i # l.slot
      <4>1. upload.rows[i].file # a
        <5>1. a \in From(l)..Upto(l)
          <6> HIDE DEF a, b
          <6> QED BY <1>4 DEF a, b
        <5> QED BY <2>2, <3>2, <5>1
      <4> HIDE DEF a
      <4> QED BY <2>1, <2>3, <2>5, <3>2, <4>1
    <3>3. CASE i \notin 1..n
      <4>1. a # b /\ i = n + 1
        <5> HIDE DEF a, b, n
        <5> QED BY <2>1, <2>6, <3>3
      <4>2. a + 1 \in (a + 1)..b
        <5> HIDE DEF a, b
        <5> QED BY <1>4, <4>1
      <4> QED BY <2>6, <2>7, <4>1, <4>2
    <3> QED BY <3>1, <3>2, <3>3
  <2> DEFINE Fine(k) ==
               /\ \/ k.slot \in upload'.taken
                  \/ k.slot \in DOMAIN upload'.rows /\ upload'.rows[k.slot].file = From(k)
               /\ \A i \in DOMAIN upload'.rows : upload'.rows[i].file \in From(k)..Upto(k) =>
                     upload'.rows[i].file = From(k) /\ i = k.slot
               /\ \A f \in From(k)..Upto(k) : upload'.ended[f] = "uploading"
  <2>9. ASSUME NEW m \in upload.loops, m # l PROVE Fine(m)
    <3> DEFINE p == From(m)
               q == Upto(m)
    <3>1. /\ p \in Nat /\ q \in Nat /\ p <= q /\ 1 <= p /\ q <= d /\ (q < a \/ b < p)
      BY <2>2, <2>9
    <3>2. a \notin p..q /\ (a # b => a + 1 \notin p..q) /\ \A f \in p..q : f \in Files
      <4> HIDE DEF a, b, d, p, q
      <4> QED BY <1>3, <1>4, <3>1 DEF Files
    <3>3. \A f \in p..q : upload'.ended[f] = "uploading"
      BY <2>2, <2>3, <3>2
    <3>4. \A i \in DOMAIN upload'.rows : i \in 1..n \/ (a # b /\ i = n + 1)
      <4> HIDE DEF a, b, n
      <4> QED BY <2>1, <2>6
    <3>5. \A i \in DOMAIN upload'.rows : upload'.rows[i].file \in p..q =>
             upload'.rows[i].file = p /\ i = m.slot
      BY <2>2, <2>5, <2>6, <3>2, <3>4
    <3>6. m.slot \in upload'.taken \/ (m.slot \in DOMAIN upload'.rows /\ upload'.rows[m.slot].file = p)
      <4>1. 1..n \subseteq DOMAIN upload'.rows
        <5> HIDE DEF a, b, n
        <5> QED BY <2>1, <2>6
      <4> QED BY <1>5, <2>2, <2>5, <4>1
    <3> QED BY <3>3, <3>5, <3>6
  <2>10. ASSUME a # b PROVE Fine(next)
    <3>1. n + 1 \in DOMAIN upload'.rows /\ \A i \in DOMAIN upload'.rows : i \in 1..n \/ i = n + 1
      <4> HIDE DEF a, b, n
      <4> QED BY <2>1, <2>6, <2>10
    <3>2. \A i \in 1..n : upload.rows[i].file \notin (a + 1)..b
      <4>1. \A i \in 1..n : upload.rows[i].file \in a..b => upload.rows[i].file = a
        BY <2>2
      <4>2. \A f \in (a + 1)..b : f \in a..b /\ f # a
        <5> HIDE DEF a, b
        <5> QED BY <1>4
      <4> QED BY <4>1, <4>2
    <3> QED BY <2>5, <2>6, <2>7, <2>10, <3>1, <3>2
  <2>11. \A k \in upload'.loops : (k \in upload.loops /\ k # l) \/ (a # b /\ k = next)
    <3> HIDE DEF a, b
    <3> QED BY <1>5
  <2>12. \A k \in upload'.loops : Fine(k)
    BY <2>9, <2>10, <2>11
  <2> QED BY <1>5, <2>4, <2>6, <2>8, <2>12 DEF RowsInv
<1>12. images' \subseteq Files /\ shelfUi' = shelfUi
  BY <1>2, <1>4 DEF ShelfInv
<1>13. upload' \in [rows : ShelfRows, idx : 0..MaxFiles, dropped : 0..MaxFiles,
                    loops : {upload'.loops}, taken : {upload'.taken}, ended : [Files -> Statuses]]
  <2>1. upload'.ended \in [Files -> Statuses]
    <3> HIDE DEF a
    <3> QED BY <1>3, <1>5 DEF Statuses
  <2>2. d \in 0..MaxFiles
    BY <1>3
  <2> HIDE DEF d
  <2> QED BY <1>3, <1>5, <1>6, <1>9, <2>1, <2>2 DEF Zones
<1> QED BY <1>6, <1>10, <1>11, <1>12, <1>13 DEF ShelfInv, ShelfRows

LEMMA ShelfStep == ASSUME ShelfInv, [ShelfNext]_shelfVars PROVE ShelfInv'
<1>1. CASE handleFiles
  BY <1>1, DropStep
<1>2. CASE \E l \in upload.loops : UploadEnds(l)
  BY <1>2, EndStep
<1>3. ASSUME upload' = upload, shelfUi'.shown \subseteq Files, images' \subseteq Files,
             shelfUi' \in [shown : {shelfUi'.shown}, preview : {shelfUi'.preview},
                           deleting : {shelfUi'.deleting}, filter : {shelfUi'.filter}]
      PROVE  ShelfInv'
  BY <1>3 DEF ShelfInv, LoopsInv, RowsInv, RowsAreTrue
<1>4. /\ shelfUi.shown \subseteq Files /\ images \subseteq Files
      /\ shelfUi \in [shown : {shelfUi.shown}, preview : {shelfUi.preview},
                      deleting : {shelfUi.deleting}, filter : {shelfUi.filter}]
  BY DEF ShelfInv
<1>5. CASE SortAndFilter \/ PreviewImage \/ DeleteImage
  <2>1. images' = images /\ upload' = upload
    BY <1>5 DEF SortAndFilter, PreviewImage, DeleteImage
  <2>2. PICK v : \/ shelfUi' = [shelfUi EXCEPT !.filter = v] \/ shelfUi' = [shelfUi EXCEPT !.preview = v]
                 \/ shelfUi' = [shelfUi EXCEPT !.deleting = v]
    BY <1>5 DEF SortAndFilter, PreviewImage, DeleteImage
  <2> QED BY <1>3, <1>4, <2>1, <2>2
<1>6. ASSUME NEW q \in reqs, AnswerImage(q) PROVE ShelfInv'
  BY <1>3, <1>4, <1>6 DEF AnswerImage
<1>7. CASE RefetchImages
  <2>1. shelfUi' = [shelfUi EXCEPT !.shown = images] /\ upload' = upload /\ images' = images
    BY <1>7 DEF RefetchImages
  <2> QED BY <1>3, <1>4, <2>1
<1>8. CASE UNCHANGED shelfVars
  BY <1>3, <1>4, <1>8 DEF shelfVars
<1> QED BY <1>1, <1>2, <1>5, <1>6, <1>7, <1>8 DEF ShelfNext

LEMMA ShelfShows == ASSUME ShelfInv PROVE ShelfTypeOK /\ RowsAreTrue
<1>1. RowsAreTrue
  BY DEF ShelfInv, RowsInv, RowsAreTrue
<1>2. ShelfTypeOK
  BY DEF ShelfInv, ShelfTypeOK, Files
<1> QED BY <1>1, <1>2

-----------------------------------------------------------------------------
(* The frame library. *)

Pages == [items : Seq(1..FrameCount), pages : Nat, total : Nat]
Prefix(s, t) == Len(s) <= Len(t) /\ \A i \in 1..Len(s) : s[i] = t[i]

\* A list that has a next page has a frame for each page.
IsPages(l) == l \in Pages /\ (l.pages < l.total => Len(l.items) = l.pages)
IsFetch(x) ==
    /\ x \in [filter : Filters, more : BOOLEAN, got : {x.got}]
    /\ x.got = <<>> \/ (Len(x.got) = 1 /\ IsPages(x.got[1]))

Browses == [draft : Filters, filter : Filters, stale : SUBSET Filters,
            astray : SUBSET Filters, lists : [Filters -> Pages],
            selected : SUBSET (1..FrameCount), targets : SUBSET (1..FrameCount)]
BrowserTypes ==
    /\ library \subseteq 1..FrameCount
    /\ browse \in Browses
    /\ \A f \in Filters : IsPages(browse.lists[f])
    /\ \A x \in fetching : IsFetch(x)
    /\ \A x, y \in fetching : x.filter = y.filter => x = y
    /\ \A x \in fetching : x.more =>
           browse.lists[x.filter].pages < browse.lists[x.filter].total

\* A stale list that is shown is being fetched, and a page added to a stale list
\* makes it no fresher.
StaleInv ==
    /\ browse.filter \in browse.stale \ browse.astray =>
           \E x \in fetching : x.filter = browse.filter /\ ~x.more
    /\ \A x \in fetching : x.more /\ x.filter \in browse.stale => x.filter \in browse.astray

\* Unless a deletion is done that the page has not heard of: what was read, what a
\* page is added to and what passes for fresh are the first pages.
Undone == \A q \in reqs : q.op = "delete" => q.state = "sent"
PrefixInv ==
    Undone => \A f \in Filters \ browse.astray :
        /\ \A x \in fetching : x.filter = f =>
              /\ x.got # <<>> => Prefix(x.got[1].items, Newest(f))
              /\ x.more => Prefix(browse.lists[f].items, Newest(f))
        /\ f \notin browse.stale /\ (\A x \in fetching : x.filter = f => x.more) =>
              Prefix(browse.lists[f].items, Newest(f))

Deletions == \A q \in reqs : IsRequest(q) /\ (q.op = "delete" => q.val \subseteq 1..FrameCount)
BrowserInv ==
    /\ Deletions
    /\ BrowserTypes /\ StaleInv /\ PrefixInv


LEMMA LibraryOrdered ==
    ASSUME library \subseteq 1..FrameCount, NEW f
    PROVE  Newest(f) \in Seq(1..FrameCount) /\ Len(Newest(f)) \in Nat
<1> DEFINE S == {g \in library : f = "all" \/ g % 2 = 1}
<1>1. IsFiniteSet(1..FrameCount) /\ FrameCount \in Nat
  BY BrowserAssumption, FS_Interval
<1>2. S \subseteq 1..FrameCount /\ IsFiniteSet(S) /\ S \subseteq Nat
  <2>1. S \subseteq 1..FrameCount
    OBVIOUS
  <2>2. 1..FrameCount \subseteq Nat
    OBVIOUS
  <2> HIDE DEF S
  <2>3. IsFiniteSet(S)
    BY <1>1, <2>1, FS_Subset
  <2> QED BY <2>1, <2>2, <2>3
<1> HIDE DEF S
<1>3. NewestFirst(S) \in Seq(S) /\ Len(NewestFirst(S)) \in Nat
  BY <1>2, NewestFirstOrdered
<1>4. NewestFirst(S) \in Seq(1..FrameCount)
  BY <1>2, <1>3, SeqMonotonic
<1> QED BY <1>3, <1>4 DEF Newest, S

LEMMA NewestKept == ASSUME library' = library, NEW f PROVE Newest(f)' = Newest(f)
BY DEF Newest

LEMMA BrowserStarts == ASSUME BrowserInit PROVE BrowserTypes /\ browse.stale = Filters
<1> DEFINE none == [items |-> <<>>, pages |-> 0, total |-> 0]
<1>1. IsPages(none)
  BY DEF IsPages, Pages
<1>2. none \in Pages
  BY <1>1 DEF IsPages
<1> HIDE DEF none
<1>3. browse = [draft |-> "all", filter |-> "all", stale |-> Filters, astray |-> {},
                lists |-> [f \in Filters |-> none], selected |-> {}, targets |-> {}]
  BY DEF BrowserInit, none
<1>4. "all" \in Filters
  BY DEF Filters
<1>5. [f \in Filters |-> none] \in [Filters -> Pages]
  BY <1>2
<1>6. browse \in Browses
  BY <1>3, <1>4, <1>5 DEF Browses
<1>7. \A f \in Filters : browse.lists[f] = none
  BY <1>3
<1>8. \A x \in fetching : IsFetch(x) /\ ~x.more
  <2> DEFINE x == [filter |-> "all", more |-> FALSE, got |-> <<>>]
  <2>1. fetching = {x}
    BY DEF BrowserInit
  <2>2. x.got = <<>> /\ ~x.more /\ x \in [filter : Filters, more : BOOLEAN, got : {x.got}]
    BY <1>4
  <2> HIDE DEF x
  <2> QED BY <2>1, <2>2 DEF IsFetch
<1>9. \A x, y \in fetching : x = y
  BY DEF BrowserInit
<1>10. library \subseteq 1..FrameCount
  BY BrowserAssumption DEF BrowserInit
<1> QED BY <1>3, <1>1, <1>6, <1>7, <1>8, <1>9, <1>10 DEF BrowserTypes

LEMMA BrowserInitially == ASSUME BrowserInit, reqs = {} PROVE BrowserInv
<1>1. BrowserTypes /\ browse.stale = Filters
  BY BrowserStarts
<1>2. \A x \in fetching : x.filter = "all" /\ ~x.more /\ x.got = <<>>
  BY DEF BrowserInit
<1>3. \E x \in fetching : x.filter = "all" /\ ~x.more
  BY DEF BrowserInit
<1>4. browse.filter = "all"
  BY DEF BrowserInit
<1>5. StaleInv
  BY <1>2, <1>3, <1>4 DEF StaleInv
<1>6. PrefixInv
  BY <1>1, <1>2 DEF PrefixInv
<1> QED BY <1>1, <1>5, <1>6 DEF BrowserInv, Deletions

\* Only the forms of the tab.
LEMMA FormsChange ==
    ASSUME BrowserInv, browse' \in Browses, Deletions', Undone' => Undone,
           browse'.lists = browse.lists, browse'.stale = browse.stale,
           browse'.astray = browse.astray, browse'.filter = browse.filter,
           fetching' = fetching, library' = library
    PROVE  BrowserInv'
<1>1. BrowserTypes'
  BY DEF BrowserInv, BrowserTypes
<1>2. StaleInv'
  BY DEF BrowserInv, StaleInv
<1>3. PrefixInv'
  BY NewestKept DEF BrowserInv, PrefixInv
<1> QED BY <1>1, <1>2, <1>3 DEF BrowserInv

LEMMA Fetched ==
    ASSUME NEW f \in Filters, NEW more \in BOOLEAN
    PROVE  LET y == [filter |-> f, more |-> more, got |-> <<>>]
           IN  /\ y \in Fetch(f, more) /\ IsFetch(y)
               /\ \A x \in Fetch(f, more) : x = y \/ (x \in fetching /\ x.filter # f)
               /\ \A x \in fetching : x.filter # f => x \in Fetch(f, more)
BY DEF Fetch, IsFetch

\* A list that is shown is fetched.
LEMMA ListFetched ==
    ASSUME BrowserInv, NEW f \in Filters, browse' \in Browses, Deletions', Undone' => Undone,
           browse'.lists = browse.lists, browse'.stale = browse.stale,
           browse'.astray = browse.astray \ {f}, browse'.filter = f,
           fetching' = Fetch(f, FALSE), library' = library
    PROVE  BrowserInv'
<1> DEFINE y == [filter |-> f, more |-> FALSE, got |-> <<>>]
<1>1. /\ y \in fetching' /\ IsFetch(y)
      /\ \A x \in fetching' : x = y \/ (x \in fetching /\ x.filter # f)
      /\ \A x \in fetching : x.filter # f => x \in fetching'
  BY Fetched
<1>2. y.filter = f /\ ~y.more /\ y.got = <<>>
  OBVIOUS
<1> HIDE DEF y
<1>3. BrowserTypes'
  BY <1>1, <1>2 DEF BrowserInv, BrowserTypes
<1>4. StaleInv'
  BY <1>1, <1>2 DEF BrowserInv, StaleInv
<1>5. PrefixInv'
  <2> SUFFICES ASSUME Undone', NEW g \in Filters, g \notin browse'.astray
               PROVE  /\ \A x \in fetching' : x.filter = g =>
                            /\ x.got # <<>> => Prefix(x.got[1].items, Newest(g))
                            /\ x.more => Prefix(browse.lists[g].items, Newest(g))
                      /\ g \notin browse.stale /\ (\A x \in fetching' : x.filter = g => x.more) =>
                            Prefix(browse.lists[g].items, Newest(g))
    BY NewestKept DEF PrefixInv
  <2>1. CASE g = f
    BY <1>1, <1>2, <2>1
  <2>2. CASE g # f
    <3>1. g \notin browse.astray /\ Undone /\ PrefixInv
      BY <2>2 DEF BrowserInv
    <3>2. \A x \in fetching' : x.filter = g => x \in fetching
      BY <1>1, <1>2, <2>2
    <3>3. \A x \in fetching : x.filter = g => x \in fetching'
      BY <1>1, <2>2
    <3> QED BY <3>1, <3>2, <3>3 DEF PrefixInv
  <2> QED BY <2>1, <2>2
<1> QED BY <1>3, <1>4, <1>5 DEF BrowserInv

\* Or it is fresh, or being fetched.
LEMMA ListShown ==
    ASSUME BrowserInv, NEW f \in Filters, browse' \in Browses, Deletions', Undone' => Undone,
           f \notin browse.stale \/ \E x \in fetching : x.filter = f,
           browse'.lists = browse.lists, browse'.stale = browse.stale,
           browse'.astray = browse.astray, browse'.filter = f,
           fetching' = fetching, library' = library
    PROVE  BrowserInv'
<1>1. BrowserTypes'
  BY DEF BrowserInv, BrowserTypes
<1>2. StaleInv'
  BY DEF BrowserInv, StaleInv
<1>3. PrefixInv'
  BY NewestKept DEF BrowserInv, PrefixInv
<1> QED BY <1>1, <1>2, <1>3 DEF BrowserInv

LEMMA ShowStep ==
    ASSUME BrowserInv, NEW f \in Filters, NEW tab \in Browses, Deletions', Undone' => Undone,
           tab.lists = browse.lists, tab.stale = browse.stale, tab.astray = browse.astray,
           ShowList(f, tab), library' = library
    PROVE  BrowserInv'
<1>1. CASE /\ f \notin browse.stale \/ \E x \in fetching : x.filter = f
           /\ browse' = [tab EXCEPT !.filter = f] /\ UNCHANGED fetching
  <2>1. /\ browse' \in Browses /\ browse'.lists = tab.lists /\ browse'.stale = tab.stale
        /\ browse'.astray = tab.astray /\ browse'.filter = f
    BY <1>1 DEF Browses
  <2> QED BY <1>1, <2>1, ListShown
<1>2. CASE /\ ~\E x \in fetching : x.filter = f
           /\ fetching' = Fetch(f, FALSE)
           /\ browse' = [tab EXCEPT !.filter = f, !.astray = @ \ {f}]
  <2>1. /\ browse' \in Browses /\ browse'.lists = tab.lists /\ browse'.stale = tab.stale
        /\ browse'.astray = tab.astray \ {f} /\ browse'.filter = f
    BY <1>2 DEF Browses
  <2> QED BY <1>2, <2>1, ListFetched
<1> QED BY <1>1, <1>2 DEF ShowList

\* A next page is asked for.
LEMMA NextPageStep == ASSUME BrowserInv, fetchNextPage PROVE BrowserInv'
<1> DEFINE f == browse.filter
           y == [filter |-> f, more |-> TRUE, got |-> <<>>]
           busy == \E x \in fetching : x.filter = f
<1>0. browse \in Browses /\ f \in Filters
  BY DEF BrowserInv, BrowserTypes, Browses
<1>1. /\ y \in fetching' /\ IsFetch(y)
      /\ \A x \in fetching' : x = y \/ (x \in fetching /\ x.filter # f)
      /\ \A x \in fetching : x.filter # f => x \in fetching'
  BY <1>0, Fetched DEF fetchNextPage
<1>2. y.filter = f /\ y.more /\ y.got = <<>>
  OBVIOUS
<1>3. /\ browse' \in Browses /\ browse'.lists = browse.lists /\ browse'.stale = browse.stale
      /\ browse'.filter = f /\ browse'.astray = (IF busy THEN browse.astray \cup {f} ELSE browse.astray)
  <2>1. \/ busy /\ browse' = [browse EXCEPT !.astray = @ \cup {f}]
        \/ ~busy /\ browse' = browse
    BY DEF fetchNextPage
  <2> HIDE DEF busy
  <2> QED BY <1>0, <2>1 DEF Browses
<1>4. /\ browse.lists[f].pages < browse.lists[f].total /\ library' = library /\ reqs' = reqs
  BY DEF fetchNextPage, hasNextPage, reqVars
<1> HIDE DEF y, busy
<1>5. BrowserTypes'
  BY <1>1, <1>2, <1>3, <1>4 DEF BrowserInv, BrowserTypes
<1>6. f \in browse.stale => f \in browse'.astray
  BY <1>3 DEF BrowserInv, StaleInv, busy
<1>7. StaleInv'
  BY <1>1, <1>2, <1>3, <1>6 DEF BrowserInv, StaleInv
<1>8. PrefixInv'
  <2> SUFFICES ASSUME Undone, NEW g \in Filters, g \notin browse'.astray
               PROVE  /\ \A x \in fetching' : x.filter = g =>
                            /\ x.got # <<>> => Prefix(x.got[1].items, Newest(g))
                            /\ x.more => Prefix(browse.lists[g].items, Newest(g))
                      /\ g \notin browse.stale /\ (\A x \in fetching' : x.filter = g => x.more) =>
                            Prefix(browse.lists[g].items, Newest(g))
    BY <1>3, <1>4, NewestKept DEF PrefixInv, Undone
  <2>0. PrefixInv /\ g \notin browse.astray
    BY <1>3 DEF BrowserInv
  <2>1. CASE g = f
    <3>1. ~busy /\ g \notin browse.stale
      BY <1>3, <1>6, <2>1
    <3>2. Prefix(browse.lists[g].items, Newest(g))
      BY <2>0, <2>1, <3>1 DEF PrefixInv, busy
    <3> QED BY <1>1, <1>2, <2>1, <3>2
  <2>2. CASE g # f
    <3>2. \A x \in fetching' : x.filter = g => x \in fetching
      BY <1>1, <1>2, <2>2
    <3>3. \A x \in fetching : x.filter = g => x \in fetching'
      BY <1>1, <2>2
    <3> QED BY <2>0, <3>2, <3>3 DEF PrefixInv
  <2> QED BY <2>1, <2>2
<1>9. Deletions'
  BY <1>4 DEF BrowserInv, Deletions
<1> QED BY <1>5, <1>7, <1>8, <1>9 DEF BrowserInv

\* What the server answers: pages of the list as it is, or its next page.
LEMMA PagesServed ==
    ASSUME BrowserInv, NEW x \in fetching
    PROVE  LET list == browse.lists[x.filter]
               now == Newest(x.filter)
               size == Min({Max({1, list.pages}), Len(now)})
               page == IF list.pages < Len(now) THEN <<now[list.pages + 1]>> ELSE <<>>
               l == IF x.more THEN [items |-> list.items \o page, pages |-> list.pages + 1,
                                    total |-> Len(now)]
                    ELSE [items |-> SubSeq(now, 1, size), pages |-> Max({1, size}),
                          total |-> Len(now)]
           IN  /\ IsPages(l) /\ (~x.more => Prefix(l.items, now))
               /\ x.more /\ Prefix(list.items, now) => Prefix(l.items, now)
<1> DEFINE list == browse.lists[x.filter]
           now == Newest(x.filter)
           size == Min({Max({1, list.pages}), Len(now)})
           page == IF list.pages < Len(now) THEN <<now[list.pages + 1]>> ELSE <<>>
           added == list.items \o page
           first == SubSeq(now, 1, size)
           R == 1..FrameCount
<1>1. x.filter \in Filters /\ IsPages(list) /\ (x.more => list.pages < list.total)
  BY DEF BrowserInv, BrowserTypes, IsFetch
<1>2. /\ list.items \in Seq(R) /\ list.pages \in Nat /\ list.total \in Nat
      /\ (list.pages < list.total => Len(list.items) = list.pages) /\ Len(list.items) \in Nat
  <2> HIDE DEF list
  <2>1. list.items \in Seq(R) /\ list.pages \in Nat /\ list.total \in Nat
        /\ (list.pages < list.total => Len(list.items) = list.pages)
    BY <1>1 DEF IsPages, Pages
  <2> HIDE DEF R
  <2> QED BY <2>1
<1>3. now \in Seq(R) /\ Len(now) \in Nat
  BY LibraryOrdered DEF BrowserInv, BrowserTypes
<1> HIDE DEF list, now, R
<1>4. ASSUME x.more
      PROVE  /\ added \in Seq(R)
             /\ list.pages + 1 < Len(now) => Len(added) = list.pages + 1
             /\ Prefix(list.items, now) => Prefix(added, now)
  <2>0. Len(list.items) = list.pages
    BY <1>1, <1>2, <1>4
  <2>1. CASE list.pages < Len(now)
    <3> DEFINE f == now[list.pages + 1]
    <3>1. page = <<f>> /\ f \in R
      BY <1>2, <1>3, <2>1
    <3> HIDE DEF page, f
    <3>2. added = list.items \o <<f>>
      BY <3>1
    <3>3. /\ added \in Seq(R) /\ Len(added) = list.pages + 1 /\ added[list.pages + 1] = f
          /\ \A i \in 1..list.pages : added[i] = list.items[i]
      BY <1>2, <2>0, <3>1, <3>2
    <3> HIDE DEF added
    <3>4. ASSUME Prefix(list.items, now) PROVE Prefix(added, now)
      <4>1. \A i \in 1..list.pages : list.items[i] = now[i]
        BY <2>0, <3>4 DEF Prefix
      <4>2. \A i \in 1..(list.pages + 1) : added[i] = now[i]
        <5>1. \A i \in 1..(list.pages + 1) : i \in 1..list.pages \/ i = list.pages + 1
          BY <1>2
        <5> QED BY <3>3, <4>1, <5>1 DEF f
      <4> QED BY <1>2, <1>3, <2>1, <3>3, <4>2 DEF Prefix
    <3> QED BY <3>3, <3>4
  <2>2. CASE ~(list.pages < Len(now))
    <3>1. added = list.items
      <4>1. page = <<>>
        BY <2>2
      <4> HIDE DEF page
      <4> QED BY <1>2, <4>1
    <3> HIDE DEF added
    <3> QED BY <1>2, <1>3, <2>0, <2>2, <3>1
  <2> QED BY <2>1, <2>2
<1>5. /\ size \in Nat /\ size <= Len(now) /\ Max({1, size}) \in Nat
      /\ Max({1, size}) < Len(now) => size = Max({1, size})
  <2>1. Max({1, list.pages}) = (IF 1 >= list.pages THEN 1 ELSE list.pages)
    BY <1>2, MaxOf
  <2> DEFINE m == Max({1, list.pages})
  <2>2. m \in Nat /\ m >= 1
    BY <1>2, <2>1
  <2>3. size = IF m <= Len(now) THEN m ELSE Len(now)
    <3> HIDE DEF m
    <3>1. m \in Int /\ Len(now) \in Int
      BY <1>3, <2>2
    <3>2. Min({m, Len(now)}) = IF m <= Len(now) THEN m ELSE Len(now)
      BY <3>1, MinOf
    <3> QED BY <3>2 DEF m
  <2> HIDE DEF size, m
  <2>4. size \in Nat /\ size <= Len(now) /\ (size >= 1 \/ Len(now) = 0)
    BY <1>3, <2>2, <2>3
  <2>5. Max({1, size}) = IF 1 >= size THEN 1 ELSE size
    BY <2>4, MaxOf
  <2> QED BY <1>3, <2>4, <2>5
<1> HIDE DEF size, page
<1>6. /\ first \in Seq(R) /\ Len(first) = size /\ Prefix(first, now)
  <2>1. \A i \in 1..size : now[i] \in R
    BY <1>3, <1>5
  <2>2. 1 \in Int /\ size \in Int
    BY <1>5
  <2>3. /\ first \in Seq(R) /\ Len(first) = (IF 1 <= size THEN size - 1 + 1 ELSE 0)
        /\ \A i \in 1..(size - 1 + 1) : first[i] = now[1 + i - 1]
    BY <2>1, <2>2, SubSeqProperties
  <2> HIDE DEF first
  <2>4. Len(first) = size
    BY <1>5, <2>3
  <2>5. \A i \in 1..size : first[i] = now[i]
    <3>1. size - 1 + 1 = size /\ \A i \in 1..size : 1 + i - 1 = i
      BY <1>5
    <3> QED BY <2>3, <3>1
  <2> QED BY <1>5, <2>3, <2>4, <2>5 DEF Prefix
<1> DEFINE more == [items |-> added, pages |-> list.pages + 1, total |-> Len(now)]
           all == [items |-> first, pages |-> Max({1, size}), total |-> Len(now)]
<1> HIDE DEF added, first
<1>7. x.more => IsPages(more) /\ more.items = added
  BY <1>2, <1>3, <1>4 DEF IsPages, Pages, R
<1>8. IsPages(all) /\ all.items = first
  BY <1>3, <1>5, <1>6 DEF IsPages, Pages, R
<1>9. LET l == IF x.more THEN more ELSE all
      IN  /\ IsPages(l) /\ (~x.more => Prefix(l.items, now))
          /\ x.more /\ Prefix(list.items, now) => Prefix(l.items, now)
  <2> HIDE DEF more, all
  <2> QED BY <1>4, <1>6, <1>7, <1>8
<1> QED BY <1>9 DEF list, now, size, page, added, first

LEMMA ServeListStep == ASSUME BrowserInv, NEW x \in fetching, ServeList(x) PROVE BrowserInv'
<1> DEFINE list == browse.lists[x.filter]
           now == Newest(x.filter)
           size == Min({Max({1, list.pages}), Len(now)})
           page == IF list.pages < Len(now) THEN <<now[list.pages + 1]>> ELSE <<>>
           l == IF x.more THEN [items |-> list.items \o page, pages |-> list.pages + 1,
                                total |-> Len(now)]
                ELSE [items |-> SubSeq(now, 1, size), pages |-> Max({1, size}),
                      total |-> Len(now)]
           y == [x EXCEPT !.got = <<l>>]
<1>1. /\ IsPages(l) /\ (~x.more => Prefix(l.items, now))
      /\ x.more /\ Prefix(list.items, now) => Prefix(l.items, now)
  BY PagesServed
<1>2. fetching' = (fetching \ {x}) \cup {y} /\ browse' = browse /\ library' = library /\ reqs' = reqs
  BY DEF ServeList, reqVars
<1> HIDE DEF l
<1>3. IsFetch(y) /\ y.filter = x.filter /\ y.more = x.more /\ y.got = <<l>> /\ y.got[1] = l
  <2>1. IsFetch(x)
    BY DEF BrowserInv, BrowserTypes
  <2>2. y \in [filter : Filters, more : BOOLEAN, got : {y.got}] /\ y.filter = x.filter
        /\ y.more = x.more /\ y.got = <<l>>
    BY <2>1 DEF IsFetch
  <2>3. Len(<<l>>) = 1 /\ <<l>>[1] = l
    OBVIOUS
  <2> QED BY <1>1, <2>2, <2>3 DEF IsFetch
<1> HIDE DEF y, now, list
<1>4. \A z \in fetching' : z = y \/ (z \in fetching /\ z # x /\ z.filter # x.filter)
  BY <1>2 DEF BrowserInv, BrowserTypes
<1>5. BrowserTypes'
  BY <1>2, <1>3, <1>4 DEF BrowserInv, BrowserTypes
<1>6. StaleInv'
  BY <1>2, <1>3 DEF BrowserInv, StaleInv
<1>7. PrefixInv'
  <2> SUFFICES ASSUME Undone, NEW g \in Filters, g \notin browse.astray
               PROVE  /\ \A z \in fetching' : z.filter = g =>
                            /\ z.got # <<>> => Prefix(z.got[1].items, Newest(g))
                            /\ z.more => Prefix(browse.lists[g].items, Newest(g))
                      /\ g \notin browse.stale /\ (\A z \in fetching' : z.filter = g => z.more) =>
                            Prefix(browse.lists[g].items, Newest(g))
    BY <1>2, NewestKept DEF PrefixInv, Undone
  <2>0. PrefixInv
    BY DEF BrowserInv
  <2>1. ASSUME g = x.filter PROVE Prefix(l.items, Newest(g))
    <3>1. x.more => Prefix(browse.lists[g].items, Newest(g))
      BY <2>0, <2>1 DEF PrefixInv
    <3> QED BY <1>1, <2>1, <3>1 DEF list, now
  <2>2. \A z \in fetching' : z.filter = g =>
            /\ z.got # <<>> => Prefix(z.got[1].items, Newest(g))
            /\ z.more => Prefix(browse.lists[g].items, Newest(g))
    BY <1>3, <1>4, <2>0, <2>1 DEF PrefixInv
  <2>3. (\A z \in fetching' : z.filter = g => z.more) => \A z \in fetching : z.filter = g => z.more
    BY <1>2, <1>3
  <2> QED BY <2>0, <2>2, <2>3 DEF PrefixInv
<1>8. Deletions'
  BY <1>2 DEF BrowserInv, Deletions
<1> QED BY <1>5, <1>6, <1>7, <1>8 DEF BrowserInv

LEMMA AnswerListStep == ASSUME BrowserInv, NEW x \in fetching, AnswerList(x) PROVE BrowserInv'
<1>0. /\ browse \in Browses /\ x.filter \in Filters /\ IsFetch(x)
      /\ fetching' = fetching \ {x} /\ library' = library /\ reqs' = reqs
  BY DEF BrowserInv, BrowserTypes, AnswerList, IsFetch, reqVars
<1>1. \A z \in fetching' : z \in fetching /\ z # x /\ z.filter # x.filter
  BY <1>0 DEF BrowserInv, BrowserTypes
<1>2. Deletions' /\ (Undone' => Undone)
  BY <1>0 DEF BrowserInv, Deletions, Undone
<1>3. CASE x.got = <<>>
  <2>1. /\ browse' \in Browses /\ browse'.lists = browse.lists /\ browse'.stale = browse.stale
        /\ browse'.filter = browse.filter
        /\ browse'.astray = (IF x.more THEN browse.astray ELSE browse.astray \cup {x.filter})
    BY <1>0, <1>3 DEF AnswerList, Browses
  <2>2. BrowserTypes'
    BY <1>0, <1>1, <2>1 DEF BrowserInv, BrowserTypes
  <2>3. StaleInv'
    BY <1>0, <1>1, <2>1 DEF BrowserInv, StaleInv
  <2>4. PrefixInv'
    <3> SUFFICES ASSUME Undone, NEW g \in Filters, g \notin browse'.astray
                 PROVE  /\ \A z \in fetching' : z.filter = g =>
                              /\ z.got # <<>> => Prefix(z.got[1].items, Newest(g))
                              /\ z.more => Prefix(browse.lists[g].items, Newest(g))
                        /\ g \notin browse.stale /\ (\A z \in fetching' : z.filter = g => z.more) =>
                              Prefix(browse.lists[g].items, Newest(g))
      BY <1>0, <1>2, <2>1, NewestKept DEF PrefixInv
    <3>1. PrefixInv /\ g \notin browse.astray
      BY <2>1 DEF BrowserInv
    <3>2. (\A z \in fetching' : z.filter = g => z.more) => \A z \in fetching : z.filter = g => z.more
      BY <1>0, <2>1
    <3> QED BY <1>1, <3>1, <3>2 DEF PrefixInv
  <2> QED BY <1>2, <2>2, <2>3, <2>4 DEF BrowserInv
<1>4. CASE x.got # <<>>
  <2> DEFINE l == x.got[1]
             h == x.filter
  <2>1. IsPages(l) /\ l \in Pages
    BY <1>0, <1>4 DEF IsFetch, IsPages
  <2>2. browse' = [browse EXCEPT !.lists[h] = l, !.stale = @ \ {h}]
    BY <1>4 DEF AnswerList
  <2> HIDE DEF l
  <2>3. /\ browse' \in Browses /\ browse'.lists = [browse.lists EXCEPT ![h] = l]
        /\ browse'.stale = browse.stale \ {h} /\ browse'.filter = browse.filter
        /\ browse'.astray = browse.astray
    <3> HIDE DEF h
    <3>1. browse'.lists = [browse.lists EXCEPT ![h] = l] /\ [browse.lists EXCEPT ![h] = l] \in [Filters -> Pages]
      BY <1>0, <2>1, <2>2 DEF Browses
    <3> QED BY <1>0, <2>2, <3>1 DEF Browses
  <2>4. \A g \in Filters : browse'.lists[g] = IF g = h THEN l ELSE browse.lists[g]
    <3>1. browse.lists \in [Filters -> Pages]
      BY <1>0 DEF Browses
    <3> QED BY <2>3, <3>1
  <2>5. BrowserTypes'
    <3>1. \A z \in fetching' : IsFetch(z) /\ z.filter \in Filters /\ z.filter # h
      BY <1>1 DEF BrowserInv, BrowserTypes, IsFetch
    <3> QED BY <1>0, <1>1, <2>1, <2>3, <2>4, <3>1 DEF BrowserInv, BrowserTypes
  <2>6. StaleInv'
    BY <1>0, <1>1, <2>3 DEF BrowserInv, StaleInv
  <2>7. PrefixInv'
    <3> SUFFICES ASSUME Undone, NEW g \in Filters, g \notin browse.astray
                 PROVE  /\ \A z \in fetching' : z.filter = g =>
                              /\ z.got # <<>> => Prefix(z.got[1].items, Newest(g))
                              /\ z.more => Prefix(browse'.lists[g].items, Newest(g))
                        /\ g \notin browse'.stale /\ (\A z \in fetching' : z.filter = g => z.more) =>
                              Prefix(browse'.lists[g].items, Newest(g))
      BY <1>0, <1>2, <2>3, NewestKept DEF PrefixInv
    <3>0. PrefixInv
      BY DEF BrowserInv
    <3>1. CASE g = h
      <4>1. Prefix(l.items, Newest(g))
        BY <1>4, <3>0, <3>1 DEF PrefixInv, l
      <4> QED BY <1>1, <2>4, <3>1, <4>1
    <3>2. CASE g # h
      <4>1. (\A z \in fetching' : z.filter = g => z.more) => \A z \in fetching : z.filter = g => z.more
        BY <1>0, <3>2
      <4> QED BY <1>1, <2>3, <2>4, <3>0, <3>2, <4>1 DEF PrefixInv
    <3> QED BY <3>1, <3>2
  <2> QED BY <1>2, <2>5, <2>6, <2>7 DEF BrowserInv
<1> QED BY <1>3, <1>4

\* The server deletes frames, or not.
LEMMA ServeFramesStep == ASSUME BrowserInv, NEW q \in reqs, ServeFrames(q) PROVE BrowserInv'
<1>1. PICK state \in {"ok", "failed"} : Respond(q, state)
  BY DEF ServeFrames
<1> DEFINE new == [q EXCEPT !.state = state, !.id = q.id]
<1>2. /\ reqs' = (reqs \ {q}) \cup {new} /\ q.state = "sent" /\ IsRequest(q)
      /\ (q.op = "delete" => q.val \subseteq 1..FrameCount)
  BY <1>1 DEF Respond, RespondWith, BrowserInv, Deletions
<1>3. IsRequest(new) /\ new.state = state /\ new.op = q.op /\ new.val = q.val
  BY <1>2 DEF IsRequest
<1>4. browse' = browse /\ fetching' = fetching
  BY DEF ServeFrames
<1>5. library' \subseteq library /\ (q.op # "delete" => library' = library)
  BY DEF ServeFrames
<1> HIDE DEF new
<1>6. Deletions'
  BY <1>2, <1>3 DEF BrowserInv, Deletions
<1>7. BrowserTypes' /\ StaleInv'
  BY <1>4, <1>5 DEF BrowserInv, BrowserTypes, StaleInv
<1>8. PrefixInv'
  <2>1. CASE q.op = "delete"
    <3>1. ~Undone'
      BY <1>2, <1>3, <2>1 DEF Undone
    <3> QED BY <3>1 DEF PrefixInv
  <2>2. CASE q.op # "delete"
    <3>1. Undone' => Undone
      BY <1>2, <1>3, <2>2 DEF Undone
    <3>2. library' = library
      BY <1>5, <2>2
    <3> QED BY <1>4, <3>1, <3>2, NewestKept DEF BrowserInv, PrefixInv
  <2> QED BY <2>1, <2>2
<1> QED BY <1>6, <1>7, <1>8 DEF BrowserInv

\* The page hears of it: a deletion makes every list stale, and what of a list is
\* not read anew by that may be astray.
LEMMA AnswerDeleteStep == ASSUME BrowserInv, NEW q \in reqs, AnswerDelete(q) PROVE BrowserInv'
<1> DEFINE f == browse.filter
           y == [filter |-> f, more |-> FALSE, got |-> <<>>]
<1>0. /\ browse \in Browses /\ f \in Filters /\ browse.astray \subseteq Filters
      /\ library' = library /\ reqs' = reqs \ {q}
  BY DEF BrowserInv, BrowserTypes, Browses, AnswerDelete, Settle
<1>1. Deletions'
  BY <1>0 DEF BrowserInv, Deletions
<1>2. CASE q.op = "delete" /\ q.state = "ok" /\ ~Joined(f)
  <2>1. /\ y \in fetching' /\ IsFetch(y)
        /\ \A x \in fetching' : x = y \/ (x \in fetching /\ x.filter # f)
        /\ \A x \in fetching : x.filter # f => x \in fetching'
    <3>1. fetching' = Fetch(f, FALSE)
      BY <1>2 DEF AnswerDelete, Invalidated, Refetch
    <3> QED BY <1>0, <3>1, Fetched
  <2>2. y.filter = f /\ ~y.more /\ y.got = <<>>
    OBVIOUS
  <2> HIDE DEF y
  <2> DEFINE astray == (browse.astray \cup {x.filter : x \in fetching}) \ {f}
  <2>3. PICK selected \in SUBSET (1..FrameCount), targets \in SUBSET (1..FrameCount) :
          browse' = [browse EXCEPT !.selected = selected, !.targets = targets,
                                   !.stale = Filters, !.astray = astray]
    BY <1>0, <1>2 DEF AnswerDelete, Browses
  <2>4. astray \in SUBSET Filters
    BY <1>0 DEF BrowserInv, BrowserTypes, IsFetch
  <2>5. /\ browse' \in Browses /\ browse'.lists = browse.lists /\ browse'.stale = Filters
        /\ browse'.filter = f /\ browse'.astray = astray
    <3> HIDE DEF astray, f
    <3>1. browse'.filter = browse.filter
      BY <1>0, <2>3 DEF Browses
    <3>2. /\ browse' \in Browses /\ browse'.lists = browse.lists /\ browse'.stale = Filters
          /\ browse'.astray = astray
      BY <1>0, <2>3, <2>4 DEF Browses
    <3> QED BY <3>1, <3>2 DEF f
  <2>6. BrowserTypes'
    BY <1>0, <2>1, <2>2, <2>5 DEF BrowserInv, BrowserTypes
  <2>7. StaleInv'
    BY <2>1, <2>2, <2>5 DEF StaleInv
  <2>8. PrefixInv'
    <3> SUFFICES ASSUME NEW g \in Filters, g \notin astray
                 PROVE  \A x \in fetching' : x.filter = g => x.got = <<>> /\ ~x.more
      BY <2>5 DEF PrefixInv
    <3> QED BY <2>1, <2>2
  <2> QED BY <1>1, <2>6, <2>7, <2>8 DEF BrowserInv
<1>5. CASE q.op = "delete" /\ q.state = "ok" /\ Joined(f)
  <2> DEFINE astray == browse.astray \cup {x.filter : x \in fetching}
  <2>1. fetching' = fetching
    BY <1>5 DEF AnswerDelete, Invalidated, Refetch
  <2>2. /\ \A x \in fetching : IsFetch(x) /\ x.filter \in astray
        /\ f \in astray
    BY <1>5 DEF BrowserInv, BrowserTypes, Joined
  <2>3. astray \in SUBSET Filters
    BY <1>0, <2>2 DEF IsFetch
  <2>4. PICK selected \in SUBSET (1..FrameCount), targets \in SUBSET (1..FrameCount) :
          browse' = [browse EXCEPT !.selected = selected, !.targets = targets,
                                   !.stale = Filters, !.astray = astray \ {}]
    BY <1>0, <1>5 DEF AnswerDelete, Browses
  <2>5. astray \ {} = astray
    OBVIOUS
  <2> HIDE DEF astray, f
  <2>6. /\ browse' \in Browses /\ browse'.lists = browse.lists /\ browse'.stale = Filters
        /\ browse'.filter = browse.filter /\ browse'.astray = astray
    BY <1>0, <2>3, <2>4, <2>5 DEF Browses
  <2>7. BrowserTypes'
    BY <1>0, <2>1, <2>6 DEF BrowserInv, BrowserTypes
  <2>8. StaleInv'
    BY <2>1, <2>2, <2>6 DEF StaleInv, f
  <2>9. PrefixInv'
    <3> SUFFICES ASSUME NEW g \in Filters, g \notin astray
                 PROVE  \A x \in fetching : x.filter # g
      BY <2>1, <2>6 DEF PrefixInv
    <3> QED BY <2>2
  <2> QED BY <1>1, <2>7, <2>8, <2>9 DEF BrowserInv
<1>3. CASE q.op = "delete" /\ q.state # "ok"
  <2>1. browse' = [browse EXCEPT !.astray = Filters] /\ fetching' = fetching
    BY <1>3 DEF AnswerDelete
  <2>2. /\ browse' \in Browses /\ browse'.lists = browse.lists /\ browse'.stale = browse.stale
        /\ browse'.filter = browse.filter /\ browse'.astray = Filters
    BY <1>0, <2>1 DEF Browses
  <2>3. BrowserTypes'
    BY <1>0, <2>1, <2>2 DEF BrowserInv, BrowserTypes
  <2>4. StaleInv' /\ PrefixInv'
    BY <1>0, <2>1, <2>2, <2>3 DEF StaleInv, PrefixInv, BrowserTypes, IsFetch
  <2> QED BY <1>1, <2>3, <2>4 DEF BrowserInv
<1>4. CASE q.op # "delete"
  <2>1. browse' = browse /\ fetching' = fetching
    <3>1. browse' = [browse EXCEPT !.astray = @] /\ fetching' = fetching
      BY <1>4 DEF AnswerDelete
    <3> QED BY <1>0, <3>1 DEF Browses
  <2>2. Undone' => Undone
    BY <1>0, <1>4 DEF Undone
  <2> QED BY <1>0, <1>1, <2>1, <2>2, FormsChange
<1> QED BY <1>2, <1>3, <1>4, <1>5

\* Frames that arrive are on no list: each is astray.
LEMMA ArriveStep == ASSUME BrowserInv, arrived \in Nat, FramesArrive PROVE BrowserInv'
<1>1. /\ browse' = [browse EXCEPT !.astray = Filters] /\ fetching' = fetching /\ reqs' = reqs
      /\ library \subseteq 1..FrameCount /\ library' \subseteq 1..FrameCount
  <2>1. arrived + 1 \in 1..FrameCount
    BY BrowserAssumption DEF FramesArrive
  <2> QED BY <2>1 DEF FramesArrive, reqVars, BrowserInv, BrowserTypes
<1>2. /\ browse' \in Browses /\ browse'.lists = browse.lists /\ browse'.stale = browse.stale
      /\ browse'.filter = browse.filter /\ browse'.astray = Filters
  BY <1>1 DEF Browses, BrowserInv, BrowserTypes
<1>3. BrowserTypes'
  BY <1>1, <1>2 DEF BrowserInv, BrowserTypes
<1>4. StaleInv' /\ PrefixInv'
  BY <1>1, <1>2, <1>3 DEF StaleInv, PrefixInv, BrowserTypes, Browses, IsFetch
<1>5. Deletions'
  BY <1>1 DEF BrowserInv, Deletions
<1> QED BY <1>3, <1>4, <1>5 DEF BrowserInv

\* A request is sent: none of the deletions is done by that.
LEMMA FramesSent ==
    ASSUME BrowserInv, NEW op \in {"delete", "process"}, NEW val \in SUBSET (1..FrameCount),
           Send(op, 0, val), UNCHANGED <<browse, fetching, library>>
    PROVE  BrowserInv'
<1> DEFINE new == [n |-> sent', op |-> op, id |-> 0, val |-> val, state |-> "sent", here |-> TRUE]
<1>1. reqs' = reqs \cup {new} /\ IsRequest(new) /\ new.val = val /\ new.state = "sent"
  BY DEF Send, IsRequest
<1> HIDE DEF new
<1>2. Deletions'
  BY <1>1 DEF BrowserInv, Deletions
<1>3. Undone' => Undone
  BY <1>1 DEF Undone
<1>4. /\ browse' = browse /\ fetching' = fetching /\ library' = library /\ browse \in Browses
  BY DEF BrowserInv, BrowserTypes
<1> QED BY <1>2, <1>3, <1>4, FormsChange

LEMMA BrowserStep == ASSUME BrowserInv, arrived \in Nat, BrowserNext PROVE BrowserInv'
<1>0. /\ browse \in Browses /\ browse.filter \in Filters /\ browse.draft \in Filters
      /\ browse.selected \in SUBSET (1..FrameCount) /\ browse.targets \in SUBSET (1..FrameCount)
      /\ browse.lists \in [Filters -> Pages]
  BY DEF BrowserInv, BrowserTypes, Browses
<1>1. ASSUME UNCHANGED reqs PROVE Deletions' /\ (Undone' => Undone)
  BY <1>1 DEF BrowserInv, Deletions, Undone
<1>2. ShownFrames \in SUBSET (1..FrameCount)
  <2> DEFINE R == 1..FrameCount
  <2>1. Shown \in Seq(R)
    BY <1>0 DEF Shown, Pages
  <2> HIDE DEF R
  <2>2. ToSet(Shown) \subseteq R
    BY <2>1 DEF ToSet
  <2> QED BY <2>2 DEF ShownFrames, R
<1>3. ASSUME NEW draft \in Filters, NEW selected \in SUBSET (1..FrameCount),
             NEW targets \in SUBSET (1..FrameCount),
             \/ browse' = [browse EXCEPT !.draft = draft]
             \/ browse' = [browse EXCEPT !.selected = selected]
             \/ browse' = [browse EXCEPT !.targets = targets]
             \/ browse' = [browse EXCEPT !.selected = selected, !.targets = targets],
             UNCHANGED <<fetching, library, reqVars>>
      PROVE  BrowserInv'
  <2>1. /\ browse' \in Browses /\ browse'.lists = browse.lists /\ browse'.stale = browse.stale
        /\ browse'.astray = browse.astray /\ browse'.filter = browse.filter
    BY <1>0, <1>3 DEF Browses
  <2>2. Deletions' /\ (Undone' => Undone)
    BY <1>1, <1>3 DEF reqVars
  <2> QED BY <1>3, <2>1, <2>2, FormsChange
<1>4. ASSUME NEW f \in Filters, EditFilter(f) PROVE BrowserInv'
  BY <1>0, <1>3, <1>4 DEF EditFilter
<1>5. CASE DebouncedFilter
  <2>1. ShowList(browse.draft, browse) /\ library' = library /\ UNCHANGED reqs
    BY <1>5 DEF DebouncedFilter, reqVars
  <2> QED BY <1>0, <1>1, <2>1, ShowStep
<1>6. CASE RefreshList
  <2>1. /\ fetching' = Fetch(browse.filter, FALSE) /\ library' = library /\ UNCHANGED reqs
        /\ browse' = [browse EXCEPT !.astray = @ \ {browse.filter}]
    BY <1>6 DEF RefreshList, Refetch, reqVars
  <2>2. /\ browse' \in Browses /\ browse'.lists = browse.lists /\ browse'.stale = browse.stale
        /\ browse'.astray = browse.astray \ {browse.filter} /\ browse'.filter = browse.filter
    BY <1>0, <2>1 DEF Browses
  <2> QED BY <1>0, <1>1, <2>1, <2>2, ListFetched
<1>7. CASE fetchNextPage
  BY <1>7, NextPageStep
<1>8. ASSUME NEW x \in fetching, ServeList(x) \/ AnswerList(x) PROVE BrowserInv'
  BY <1>8, ServeListStep, AnswerListStep
<1>9. ASSUME NEW f \in ShownFrames, toggleSelect(f) PROVE BrowserInv'
  <2>1. Toggled(browse.selected, f) \in SUBSET (1..FrameCount)
    BY <1>0, <1>2 DEF Toggled
  <2> QED BY <1>0, <1>3, <1>9, <2>1 DEF toggleSelect
<1>10. CASE selectAll
  <2>1. AllOrNone(browse.selected) \in SUBSET (1..FrameCount)
    BY <1>2 DEF AllOrNone
  <2> QED BY <1>0, <1>3, <1>10, <2>1 DEF selectAll
<1>11. CASE EscapeKey
  BY <1>0, <1>3, <1>11 DEF EscapeKey
<1>12. CASE ProcessFrames \/ ConfirmDelete
  BY <1>0, <1>12, FramesSent DEF ProcessFrames, ConfirmDelete
<1>13. CASE AskDeleteOne
  <2>1. PICK f \in ShownFrames : browse' = [browse EXCEPT !.targets = {f}]
    BY <1>13 DEF AskDeleteOne
  <2>2. {f} \in SUBSET (1..FrameCount)
    BY <1>2
  <2> QED BY <1>0, <1>3, <1>13, <2>1, <2>2 DEF AskDeleteOne
<1>14. CASE AskDelete
  BY <1>0, <1>3, <1>14 DEF AskDelete
<1>15. CASE LeaveBrowser
  <2> DEFINE tab == [browse EXCEPT !.draft = "all", !.selected = {}, !.targets = {}]
  <2>1. "all" \in Filters
    BY DEF Filters
  <2>2. tab \in Browses /\ tab.lists = browse.lists /\ tab.stale = browse.stale
        /\ tab.astray = browse.astray
    BY <1>0, <2>1 DEF Browses
  <2>3. ShowList("all", tab) /\ library' = library /\ reqs' = {[q EXCEPT !.here = FALSE] : q \in reqs}
    BY <1>15 DEF LeaveBrowser, Unmount
  <2> HIDE DEF tab
  <2>4. \A q \in reqs : LET r == [q EXCEPT !.here = FALSE]
                        IN  IsRequest(r) /\ r.op = q.op /\ r.state = q.state /\ r.val = q.val
    BY DEF BrowserInv, Deletions, IsRequest
  <2>5. Deletions'
    <3>1. \A r \in reqs' : \E q \in reqs :
            IsRequest(r) /\ r.op = q.op /\ r.state = q.state /\ r.val = q.val
      BY <2>3, <2>4
    <3> QED BY <3>1 DEF BrowserInv, Deletions
  <2>6. Undone' => Undone
    BY <2>3, <2>4 DEF Undone
  <2> QED BY <2>1, <2>2, <2>3, <2>5, <2>6, ShowStep
<1>16. ASSUME NEW q \in reqs, ServeFrames(q) \/ AnswerDelete(q) PROVE BrowserInv'
  BY <1>16, ServeFramesStep, AnswerDeleteStep
<1>17. CASE FramesArrive
  BY <1>17, ArriveStep
<1> QED BY <1>17, <1>4, <1>5, <1>6, <1>7, <1>8, <1>9, <1>10, <1>11, <1>12, <1>13, <1>14, <1>15, <1>16
        DEF BrowserNext

LEMMA TypesOfBrowser == ASSUME BrowserTypes PROVE BrowserTypeOK
BY DEF BrowserTypes, Browses, BrowserTypeOK

LEMMA BrowserShows == ASSUME BrowserInv PROVE ListIsFirstPages
<1> SUFFICES ASSUME fetching = {}, ~\E q \in reqs : q.op = "delete",
                    NEW f \in Filters \ (browse.stale \cup browse.astray)
             PROVE  /\ Len(browse.lists[f].items) <= Len(Newest(f))
                    /\ browse.lists[f].items = SubSeq(Newest(f), 1, Len(browse.lists[f].items))
  BY DEF ListIsFirstPages
<1> DEFINE s == browse.lists[f].items
           now == Newest(f)
           R == 1..FrameCount
<1>1. Undone
  BY DEF Undone
<1>2. Prefix(s, now)
  BY <1>1 DEF BrowserInv, PrefixInv
<1>3. s \in Seq(R)
  BY DEF BrowserInv, BrowserTypes, IsPages, Pages
<1>4. now \in Seq(R)
  BY LibraryOrdered DEF BrowserInv, BrowserTypes
<1> HIDE DEF s, now, R
<1>5. Len(s) \in Nat /\ Len(s) <= Len(now) /\ Len(now) \in Nat /\ \A i \in 1..Len(s) : s[i] = now[i]
  BY <1>2, <1>3, <1>4 DEF Prefix
<1>6. \A i \in 1..Len(s) : now[i] \in R
  BY <1>4, <1>5
<1>7. /\ SubSeq(now, 1, Len(s)) \in Seq(R)
      /\ Len(SubSeq(now, 1, Len(s))) = IF 1 <= Len(s) THEN Len(s) - 1 + 1 ELSE 0
      /\ \A i \in 1..(Len(s) - 1 + 1) : SubSeq(now, 1, Len(s))[i] = now[1 + i - 1]
  <2>1. 1 \in Int /\ Len(s) \in Int
    BY <1>5
  <2> QED BY <1>6, <2>1, SubSeqProperties
<1> DEFINE t == SubSeq(now, 1, Len(s))
<1> HIDE DEF t
<1>8. t \in Seq(R) /\ Len(t) = Len(s) /\ \A i \in 1..Len(s) : t[i] = now[i]
  <2>1. Len(s) - 1 + 1 = Len(s) /\ \A i \in 1..Len(s) : 1 + i - 1 = i
    BY <1>5
  <2> QED BY <1>5, <1>7, <2>1 DEF t
<1>9. \A i \in 1..Len(s) : s[i] = t[i]
  BY <1>5, <1>8
<1>10. s = t
  BY <1>3, <1>8, <1>9, SeqEqual
<1> QED BY <1>5, <1>10 DEF s, now, t

-----------------------------------------------------------------------------
(* The library. *)

LibraryInv ==
    /\ arrived \in Nat
    /\ IF focus = "browse" THEN BrowserInv ELSE BrowserInit
    /\ IF focus \in {"presets", "films"} THEN AnimInv ELSE AnimInit
    /\ ViewersInv /\ ZoomInv /\ PlayerInv /\ ShelfInv /\ MapInv /\ ScheduleInv

LEMMA LibraryInit == Init => LibraryInv
<1> SUFFICES ASSUME Init PROVE LibraryInv
  OBVIOUS
<1>1. /\ reqs = {} /\ BrowserInit /\ ViewersInit /\ ZoomInit /\ PlayerInit /\ ShelfInit /\ MapInit
      /\ AnimInit /\ EmptyInit
  BY DEF Init
<1>2. ViewersInv /\ ZoomInv /\ PlayerInv /\ ShelfInv /\ MapInv /\ ScheduleInv
  BY <1>1, ViewersInitially, ZoomInitially, PlayerInitially, ShelfInitially, MapInitially,
     ScheduleInitially
<1>3. arrived \in Nat
  BY <1>1, BrowserAssumption DEF BrowserInit
<1> QED BY <1>1, <1>2, <1>3, BrowserInitially, AnimInitially DEF LibraryInv

\* A component that is not used stays as it is.
LEMMA LibraryStep == LibraryInv /\ [Next]_vars => LibraryInv'
<1> SUFFICES ASSUME LibraryInv, [Next]_vars PROVE LibraryInv'
  OBVIOUS
<1>0. /\ ViewersInv /\ ZoomInv /\ PlayerInv /\ ShelfInv /\ MapInv /\ ScheduleInv /\ focus' = focus
  BY DEF LibraryInv, Next, vars
<1>1. ViewersInv'
  <2>1. [ViewersNext]_viewerVars
    BY DEF Next, vars
  <2> QED BY <1>0, <2>1, ViewersStep
<1>2. ZoomInv'
  <2>1. [ZoomNext]_zoom
    BY DEF Next, vars
  <2> QED BY <1>0, <2>1, ZoomStep
<1>3. PlayerInv'
  <2>1. [PlayerNext]_player
    BY DEF Next, vars
  <2> QED BY <1>0, <2>1, PlayerStep
<1>4. ShelfInv'
  <2>1. [ShelfNext]_shelfVars
    BY DEF Next, vars
  <2> QED BY <1>0, <2>1, ShelfStep
<1>5. MapInv'
  <2>1. [MapNext]_mapVars
    BY DEF Next, vars
  <2> QED BY <1>0, <2>1, MapStep
<1>6. ScheduleInv'
  <2>1. [EmptyNext]_emptyVars
    BY DEF Next, vars
  <2> QED BY <1>0, <2>1, ScheduleStep
<1>7. IF focus' = "browse" THEN BrowserInv' ELSE BrowserInit'
  <2>1. CASE focus = "browse"
    <3>1. BrowserInv
      BY <2>1 DEF LibraryInv
    <3>2. CASE BrowserNext
      BY <1>0, <2>1, <3>1, <3>2, BrowserStep DEF LibraryInv
    <3>3. CASE UNCHANGED <<browserVars, reqVars>>
      <4>1. /\ browse' = browse /\ fetching' = fetching /\ library' = library /\ reqs' = reqs
            /\ browse \in Browses
        BY <3>1, <3>3 DEF browserVars, reqVars, BrowserInv, BrowserTypes
      <4>2. Deletions' /\ (Undone' => Undone)
        BY <3>1, <4>1 DEF Deletions, Undone, BrowserInv
      <4> QED BY <1>0, <2>1, <3>1, <4>1, <4>2, FormsChange
    <3>4. BrowserNext \/ UNCHANGED <<browserVars, reqVars>>
      BY <2>1 DEF Next, vars
    <3> QED BY <3>2, <3>3, <3>4
  <2>2. CASE focus # "browse"
    <3>1. BrowserInit /\ UNCHANGED browserVars
      BY <2>2 DEF LibraryInv, Next, vars
    <3> QED BY <1>0, <2>2, <3>1 DEF BrowserInit, browserVars
  <2> QED BY <2>1, <2>2
<1>8. IF focus' \in {"presets", "films"} THEN AnimInv' ELSE AnimInit'
  <2>1. CASE focus \in {"presets", "films"}
    <3>1. AnimInv
      BY <2>1 DEF LibraryInv
    <3>2. CASE PresetNext \/ FilmNext
      BY <1>0, <2>1, <3>1, <3>2, AnimStep
    <3>3. CASE UNCHANGED <<animVars, reqVars>>
      <4>1. AnimInv'
        BY <3>1, <3>3, AnimSends DEF animVars, reqVars
      <4> QED BY <1>0, <2>1, <4>1
    <3>4. PresetNext \/ FilmNext \/ UNCHANGED <<animVars, reqVars>>
      BY <2>1 DEF Next, vars
    <3> QED BY <3>2, <3>3, <3>4
  <2>2. CASE focus \notin {"presets", "films"}
    <3>1. AnimInit /\ UNCHANGED animVars
      BY <2>2 DEF LibraryInv, Next, vars
    <3> QED BY <1>0, <2>2, <3>1 DEF AnimInit, animVars
  <2> QED BY <2>1, <2>2
<1>9. arrived' \in Nat
  <2>1. CASE BrowserNext
    <3>1. arrived' = arrived \/ arrived' = arrived + 1
      BY <2>1 DEF BrowserNext, FramesArrive
    <3> QED BY <3>1 DEF LibraryInv
  <2>2. CASE UNCHANGED browserVars
    BY <2>2 DEF LibraryInv, browserVars
  <2>3. BrowserNext \/ UNCHANGED browserVars
    BY DEF Next, vars
  <2> QED BY <2>1, <2>2, <2>3
<1> QED BY <1>1, <1>2, <1>3, <1>4, <1>5, <1>6, <1>7, <1>8, <1>9 DEF LibraryInv

\* What the invariant says of what the library shows.
LEMMA LibraryShows ==
    LibraryInv => LibraryTypeOK /\ ListIsFirstPages /\ PictureFits /\ PageAsStored
<1> SUFFICES ASSUME LibraryInv
             PROVE  LibraryTypeOK /\ ListIsFirstPages /\ PictureFits /\ PageAsStored
  OBVIOUS
<1>0. /\ ViewersInv /\ ZoomInv /\ PlayerInv /\ ShelfInv /\ MapInv /\ ScheduleInv
  BY DEF LibraryInv
<1>1. BrowserTypeOK /\ ListIsFirstPages
  <2>1. CASE BrowserInv
    BY <2>1, BrowserShows, TypesOfBrowser DEF BrowserInv
  <2>2. CASE BrowserInit
    BY <2>2, BrowserStarts, TypesOfBrowser DEF ListIsFirstPages
  <2> QED BY <2>1, <2>2 DEF LibraryInv
<1>2. ShelfAsStored
  <2>1. CASE AnimInv
    BY <2>1, AnimShows
  <2>2. ASSUME AnimInit PROVE ShelfAsStored
    BY <2>2 DEF AnimInit, ShelfAsStored, Quiet, Query
  <2> QED BY <2>1, <2>2 DEF LibraryInv
<1>3. player.index \in 0..(PlayerFrames - 1)
  BY <1>0 DEF PlayerInv
<1>4. ViewersTypeOK
  BY <1>0, <1>3, ViewersShow
<1>5. MapShowsChoice
  BY <1>0, MapShows
<1>6. PictureFits
  BY <1>0, ZoomFits
<1>7. ZoomTypeOK
  BY <1>0 DEF ZoomInv, Steady, ZoomTypeOK, Reach
<1>8. ShelfTypeOK /\ RowsAreTrue
  BY <1>0, ShelfShows
<1>9. ScheduledOnce
  BY <1>0, ScheduledIsOnce
<1> QED BY <1>1, <1>2, <1>3, <1>4, <1>5, <1>6, <1>7, <1>8, <1>9
        DEF LibraryTypeOK, PageAsStored

LEMMA LibraryAlways == Spec => []LibraryInv
BY LibraryInit, LibraryStep, PTL DEF Spec

\* Whatever the sizes: the types of the library's state (BrowseTab.tsx,
\* FrameGallery.tsx, useImageZoom.ts, UploadZone.tsx).
THEOREM LibraryTyped == Spec => []LibraryTypeOK
BY LibraryAlways, LibraryShows, PTL

\* Pages read, deletions and refetches of the library may meet in any order: a list
\* that passes for fresh is the first pages of its filter, but for the four ways out
\* that the code leaves (BrowseTab.tsx).
THEOREM ListCorrect == Spec => []ListIsFirstPages
BY LibraryAlways, LibraryShows, PTL

\* Whatever comes to the list and goes from it, next and previous pass over no frame
\* of it (FrameGallery.tsx, ImageViewer.tsx, FramePreviewModal.tsx).
THEOREM StepsCorrect == Spec => NoFrameSkipped
<1>1. LibraryInv /\ [Next]_vars => [Unskipped]_viewerVars
  <2> SUFFICES ASSUME LibraryInv, [Next]_vars PROVE [Unskipped]_viewerVars
    OBVIOUS
  <2>1. ViewersInv /\ [ViewersNext]_viewerVars
    BY DEF LibraryInv, Next, vars
  <2> QED BY <2>1, StepIsNext
<1> QED BY <1>1, LibraryAlways, PTL DEF Spec, NoFrameSkipped

\* However far a picture is zoomed and wherever it is dragged, in a container of
\* either shape: it leaves no bar beside it (useImageZoom.ts).
THEOREM PictureCorrect == Spec => []PictureFits
BY LibraryAlways, LibraryShows, PTL

\* What the uploads, the presets, the animations, the map and the schedule show and make
\* is what the server has (UploadZone.tsx, MapTab.tsx, AnimationPresets.tsx, AnimationHistory.tsx,
\* HimawariEmptyState.tsx).
THEOREM StoredCorrect == Spec => []PageAsStored
BY LibraryAlways, LibraryShows, PTL
=============================================================================
