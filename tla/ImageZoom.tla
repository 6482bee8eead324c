------------------------------ MODULE ImageZoom -------------------------------
(***************************************************************************)
(* Zooming and panning a picture with wheel, fingers and mouse:            *)
(* hooks/useImageZoom.ts.  Scales are in halves, so that 2 is the picture  *)
(* fitted into its container; the picture is square and the container is   *)
(* two pictures wide or two pictures high.  Where a gesture leads is any   *)
(* place: what is modelled is how it is confined.                          *)
(***************************************************************************)
EXTENDS Integers, FiniteSetsExt

CONSTANT MaxScale  \* in halves
ASSUME ZoomAssumption == MaxScale \in Nat /\ MaxScale >= 4

VARIABLE zoom
Fit == 2     \* scale 1
Edge == 4    \* the fitted picture's side; the container's are 4 and 8

\* minScale and cover (eliminateLetterbox) are the caller's; wide is the
\* container as it was last measured.
Initial == [scale |-> Fit, x |-> 0, y |-> 0, busy |-> FALSE]
ZoomInit ==
    \E minScale \in {1, 2}, cover \in BOOLEAN :
        zoom = [state |-> Initial, pinch |-> FALSE, pan |-> FALSE, dragging |-> FALSE,
                wide |-> TRUE, minScale |-> minScale, cover |-> cover]

Width == IF zoom.wide THEN 8 ELSE 4
Height == IF zoom.wide THEN 4 ELSE 8
getCoverScale == 4  \* 8 over 4, in halves

clampTo(n, max) == Min({max, Max({0 - max, n})})
Slack(scale, side) == Max({0, ((Edge * scale) \div 2 - side) \div 2})

\* With eliminateLetterbox a picture that is zoomed in covers its container.
effectiveScale(scale) ==
    IF zoom.cover /\ scale > Fit THEN Max({scale, getCoverScale}) ELSE scale

clampTranslate(x, y, scale) ==
    IF scale <= Fit THEN <<0, 0>>
    ELSE <<clampTo(x, Slack(scale, Width)), clampTo(y, Slack(scale, Height))>>
clampXY(x, y, scale) == clampTranslate(x, y, effectiveScale(scale))
clampScale(s) == Min({MaxScale, Max({zoom.minScale, s})})

Reach == MaxScale  \* farther out than any limit
Places == {0 - Reach, 0, Reach}
Moved(scale, x, y, busy) ==
    LET at == clampXY(x, y, scale)
    IN  [scale |-> scale, x |-> at[1], y |-> at[2], busy |-> busy]

-----------------------------------------------------------------------------
(* Buttons and wheel. *)

reset == zoom' = [zoom EXCEPT !.state = Initial]
\* doubleTapScale, 2.5.
zoomIn == zoom' = [zoom EXCEPT !.state = [Initial EXCEPT !.scale = Min({5, MaxScale})]]

setScale ==
    \E s \in {zoom.state.scale - 1, zoom.state.scale + 1} :
        zoom' = [zoom EXCEPT !.state =
            IF s < zoom.minScale THEN Initial
            ELSE Moved(clampScale(s), @.x, @.y, @.busy)]

onWheel ==
    \E s \in {zoom.state.scale - 1, zoom.state.scale + 1}, x, y \in Places :
        zoom' = [zoom EXCEPT !.state =
            IF s < zoom.minScale THEN Initial ELSE Moved(clampScale(s), x, y, @.busy)]

-----------------------------------------------------------------------------
(* Fingers and mouse.  A pan begins on a picture that is zoomed in. *)

onTouchStart ==
    \E fingers \in {1, 2} :
        zoom' = [zoom EXCEPT !.state.busy = TRUE,
                             !.pinch = @ \/ fingers = 2,
                             !.pan = @ \/ (fingers = 1 /\ zoom.state.scale > Fit)]

\* Two fingers set scale and place, down to the smallest; one finger the place.
onTouchMove ==
    \/ /\ zoom.pinch
       /\ \E s \in zoom.minScale..MaxScale, x, y \in Places :
            zoom' = [zoom EXCEPT !.state = IF s <= zoom.minScale THEN Moved(s, 0, 0, TRUE)
                                           ELSE Moved(s, x, y, TRUE)]
    \/ /\ zoom.pan /\ zoom.state.scale > Fit
       /\ \E x, y \in Places :
            zoom' = [zoom EXCEPT !.state = Moved(@.scale, x, y, @.busy)]

onTouchEnd ==
    zoom' = [zoom EXCEPT !.pinch = FALSE, !.pan = FALSE,
                         !.state = Moved(@.scale, @.x, @.y, FALSE)]

onMouseDown ==
    /\ zoom.state.scale > Fit
    /\ zoom' = [zoom EXCEPT !.dragging = TRUE, !.pan = TRUE, !.state.busy = TRUE]

\* A drag goes on when the button was let go outside the picture.
onMouseMove ==
    /\ zoom.dragging /\ zoom.pan
    /\ \E x, y \in Places : zoom' = [zoom EXCEPT !.state = Moved(@.scale, x, y, @.busy)]

onMouseUp ==
    zoom' = [zoom EXCEPT !.dragging = FALSE, !.pan = FALSE,
                         !.state = Moved(@.scale, @.x, @.y, FALSE)]

\* The container is turned: the place is kept as it was.
syncLayout == zoom' = [zoom EXCEPT !.wide = ~@]

ZoomNext ==
    \/ reset \/ zoomIn \/ setScale \/ onWheel \/ onTouchStart \/ onTouchMove \/ onTouchEnd
    \/ onMouseDown \/ onMouseMove \/ onMouseUp \/ syncLayout

-----------------------------------------------------------------------------
(* What is drawn, and properties of it. *)

\* Mutant: the place is drawn as it was computed for an earlier container.
DrawnUnclamped == <<effectiveScale(zoom.state.scale), <<zoom.state.x, zoom.state.y>> >>

\* style: scale and place, confined once more to the container of now.
style == <<effectiveScale(zoom.state.scale),
           clampTranslate(zoom.state.x, zoom.state.y, effectiveScale(zoom.state.scale))>>

ZoomTypeOK ==
    /\ zoom.state.scale \in 1..MaxScale
    /\ {zoom.state.x, zoom.state.y} \subseteq (0 - Reach)..Reach

\* A picture larger than its container never shows a bar inside it: whatever was
\* done to it and however the container has been turned since, its edges are at
\* or beyond the container's; a smaller one is centred.
NoGapBesidePicture ==
    LET drawn(side, offset) ==
          LET size == (Edge * style[1]) \div 2
          IN  IF size >= side THEN 2 * Max({offset, 0 - offset}) <= size - side ELSE offset = 0
    IN  drawn(Width, style[2][1]) /\ drawn(Height, style[2][2])

\* With eliminateLetterbox, a picture zoomed in at all covers its container.
CoversWhenZoomed ==
    zoom.cover /\ zoom.state.scale > Fit =>
        (Edge * style[1]) \div 2 >= Max({Width, Height})
=============================================================================
