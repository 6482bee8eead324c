----------------------------- MODULE MCLive_proofs -----------------------------
(* Proofs about the live view: its selection and the job it follows, its     *)
(* controls, and the frames it compares.                                     *)
EXTENDS MCLive, FiniteSetTheorems, SequenceTheorems, TLAPS

-----------------------------------------------------------------------------
(* The controls. *)

Controls ==
    [mobile : BOOLEAN, visible : BOOLEAN, hideTimer : BOOLEAN,
     tap : {"none", "mobile", "desktop"}, recent : BOOLEAN,
     zoomed : BOOLEAN, hint : BOOLEAN, hintTimer : BOOLEAN,
     pulling : BOOLEAN, dist : {"none", "short", "far"},
     isRefreshing : BOOLEAN, refetches : 0..1,
     screen : BOOLEAN, isFullscreen : BOOLEAN, asks : Seq(BOOLEAN), refused : BOOLEAN,
     fab : BOOLEAN, swipeSeen : BOOLEAN]

\* What is shown has its timer, only a mobile window has the overlay's, and a pull
\* is not pulled while it is being read.  A tap of the mobile layout that is still
\* to come finds the overlay of a desktop shown, so that it sets no timer there.
Tidy(c) ==
    /\ c.mobile /\ c.visible => c.hideTimer
    /\ c.hideTimer => c.mobile
    /\ c.mobile \/ c.visible \/ c.tap # "mobile"
    /\ c.hint => c.hintTimer /\ c.zoomed
    /\ c.isRefreshing <=> c.refetches = 1
    /\ c.pulling => ~c.isRefreshing
    /\ c.isFullscreen # c.screen => c.refused

ControlsInv == ctl \in Controls /\ Tidy(ctl)

LEMMA ControlsInitially == ASSUME ControlsInit PROVE ControlsInv
<1>1. PICK mobile, seen \in BOOLEAN :
        ctl = [mobile |-> mobile, visible |-> TRUE, hideTimer |-> mobile, tap |-> "none",
               recent |-> FALSE, zoomed |-> FALSE, hint |-> FALSE, hintTimer |-> FALSE,
               pulling |-> FALSE, dist |-> "none", isRefreshing |-> FALSE, refetches |-> 0,
               screen |-> FALSE, isFullscreen |-> FALSE, asks |-> <<>>, refused |-> FALSE,
               fab |-> FALSE, swipeSeen |-> seen]
  BY DEF ControlsInit
<1>2. <<>> \in Seq(BOOLEAN) /\ 0 \in 0..1
  OBVIOUS
<1>3. ctl \in Controls
  BY <1>1, <1>2 DEF Controls
<1>4. Tidy(ctl)
  BY <1>1 DEF Tidy
<1> QED BY <1>3, <1>4 DEF ControlsInv

\* Zooming changes what is zoomed and its hint.
LEMMA Zooms ==
    ASSUME NEW c \in Controls, Tidy(c), NEW on \in BOOLEAN
    PROVE  LET z == Zoom(c, on)
           IN  /\ z \in Controls /\ Tidy(z)
               /\ z.visible = c.visible /\ z.mobile = c.mobile
<1>1. CASE on = c.zoomed
  BY <1>1 DEF Zoom
<1>2. CASE on # c.zoomed
  <2> DEFINE z == [c EXCEPT !.zoomed = on, !.hint = on, !.hintTimer = on]
  <2>1. Zoom(c, on) = z
    BY <1>2 DEF Zoom
  <2>2. z \in Controls
    BY DEF Controls
  <2>3. /\ z.tap = c.tap /\ z.visible = c.visible /\ z.mobile = c.mobile /\ z.hideTimer = c.hideTimer
        /\ z.isRefreshing = c.isRefreshing /\ z.refetches = c.refetches /\ z.pulling = c.pulling
        /\ z.isFullscreen = c.isFullscreen /\ z.screen = c.screen /\ z.refused = c.refused
        /\ z.hint = on /\ z.hintTimer = on /\ z.zoomed = on
    BY DEF Controls
  <2>4. Tidy(z)
    BY <2>3 DEF Tidy
  <2> QED BY <2>1, <2>2, <2>3, <2>4
<1> QED BY <1>1, <1>2

\* Equal in all that is looked at here but zoom.
Alike(d, c) ==
    /\ d.visible = c.visible /\ d.mobile = c.mobile /\ d.hideTimer = c.hideTimer
    /\ d.isRefreshing = c.isRefreshing /\ d.refetches = c.refetches /\ d.pulling = c.pulling
    /\ d.isFullscreen = c.isFullscreen /\ d.screen = c.screen /\ d.refused = c.refused
    /\ d.tap = "mobile" => d.mobile \/ c.tap = "mobile"
Unzoomed(d, c) == d.hint = c.hint /\ d.hintTimer = c.hintTimer /\ d.zoomed = c.zoomed

LEMMA Untouched ==
    ASSUME NEW c, Tidy(c), NEW d, Alike(d, c), Unzoomed(d, c)
    PROVE  Tidy(d)
BY DEF Tidy, Alike, Unzoomed

\* A tap sets its timer, or zooms.
LEMMA Taps ==
    ASSUME ctl \in Controls, Tidy(ctl), NEW t \in Tapped(ctl)
    PROVE  t \in Controls /\ Tidy(t) /\ t.visible = ctl.visible /\ t.mobile = ctl.mobile
<1> DEFINE c == ctl
<1>0. Layout \in {"none", "mobile", "desktop"} /\ (Layout = "mobile" => c.mobile)
  BY DEF Layout
<1>1. CASE t = [c EXCEPT !.recent = TRUE, !.tap = Layout]
  <2>1. t \in Controls /\ Alike(t, c) /\ Unzoomed(t, c)
    BY <1>0, <1>1 DEF Controls, Alike, Unzoomed
  <2> QED BY <2>1, Untouched DEF Alike
<1>2. CASE t = [Zoom(c, ~c.zoomed) EXCEPT !.tap = "none"]
  <2> DEFINE z == Zoom(c, ~c.zoomed)
  <2>0. (~c.zoomed) \in BOOLEAN
    OBVIOUS
  <2>1. z \in Controls /\ Tidy(z) /\ z.visible = c.visible /\ z.mobile = c.mobile
    BY <2>0, Zooms
  <2>2. t = [z EXCEPT !.tap = "none"]
    BY <1>2
  <2> HIDE DEF z
  <2>3. t \in Controls /\ Alike(t, z) /\ Unzoomed(t, z)
    BY <2>1, <2>2 DEF Controls, Alike, Unzoomed
  <2> QED BY <2>1, <2>3, Untouched DEF Alike
<1> QED BY <1>1, <1>2 DEF Tapped

\* What a step makes of the controls of a desktop: a tap of a mobile layout aside,
\* they stay.
Stays(d) == ctl.visible /\ ~d.visible => d.mobile \/ (ctl.tap = "mobile" /\ d.tap = "none")

LEMMA Kept ==
    ASSUME ControlsInv, ctl' \in Controls, Alike(ctl', ctl), Unzoomed(ctl', ctl)
    PROVE  ControlsInv' /\ Stays(ctl')
BY Untouched DEF ControlsInv, Stays, Alike, Tidy

LEMMA ControlsStep == ASSUME ControlsInv, ControlsNext PROVE ControlsInv' /\ Stays(ctl')
<1>0. ctl \in Controls /\ Tidy(ctl)
  BY DEF ControlsInv
<1>f. /\ ctl.mobile \in BOOLEAN /\ ctl.zoomed \in BOOLEAN /\ ctl.screen \in BOOLEAN
      /\ ctl.refetches \in 0..1 /\ ctl.asks \in Seq(BOOLEAN) /\ ctl.fab \in BOOLEAN
      /\ ctl.pulling \in BOOLEAN /\ ctl.refused \in BOOLEAN /\ ctl.visible \in BOOLEAN
  BY <1>0 DEF Controls
<1>k. ASSUME NEW d \in Controls, Tidy(d), d.visible = ctl.visible, ctl' = d
      PROVE  ControlsInv' /\ Stays(ctl')
  BY <1>k DEF ControlsInv, Stays
<1>1. CASE ResizeWindow
  <2>1. CASE ctl.mobile
    <3>1. ctl' = [ctl EXCEPT !.hideTimer = FALSE, !.mobile = FALSE, !.visible = TRUE]
      <4>1. ctl' = [[ctl EXCEPT !.hideTimer = FALSE] EXCEPT !.mobile = FALSE, !.visible = TRUE]
        BY <1>1, <2>1 DEF ResizeWindow, LeaveLayout
      <4> QED BY <1>0, <4>1 DEF Controls
    <3>2. ctl' \in Controls /\ ctl'.visible
      BY <1>0, <3>1 DEF Controls
    <3>3. Tidy(ctl')
      BY <1>0, <3>1 DEF Controls, Tidy
    <3> QED BY <3>2, <3>3 DEF ControlsInv, Stays
  <2>2. CASE ~ctl.mobile
    <3>0. ctl' = [[ctl EXCEPT !.mobile = TRUE] EXCEPT !.hideTimer = TRUE, !.visible = ~TRUE \/ @]
      BY <1>1, <2>2 DEF ResizeWindow, resetOverlayTimer
    <3>1. ctl' = [ctl EXCEPT !.mobile = TRUE, !.hideTimer = TRUE, !.visible = ctl.visible]
      BY <1>0, <1>f, <3>0 DEF Controls
    <3>2. ctl' \in Controls /\ ctl'.visible = ctl.visible
      BY <1>0, <3>1 DEF Controls
    <3>3. Tidy(ctl')
      BY <1>0, <3>1 DEF Controls, Tidy
    <3> QED BY <3>2, <3>3 DEF ControlsInv, Stays
  <2> QED BY <1>f, <2>1, <2>2
<1>2. CASE HideTimerFires
  <2>1. ctl' = [ctl EXCEPT !.visible = FALSE, !.hideTimer = FALSE] /\ ctl.hideTimer
    BY <1>2 DEF HideTimerFires
  <2>2. ctl' \in Controls /\ ctl'.mobile = ctl.mobile
    BY <1>0, <2>1 DEF Controls
  <2>3. Tidy(ctl')
    BY <1>0, <2>1 DEF Controls, Tidy
  <2> QED BY <1>0, <2>1, <2>2, <2>3 DEF ControlsInv, Stays, Tidy
<1>3. CASE MouseMoves
  <2>1. ctl' = [[ctl EXCEPT !.visible = TRUE] EXCEPT !.hideTimer = FALSE, !.visible = ~FALSE \/ @]
        /\ ~ctl.mobile /\ ~ctl.visible
    BY <1>3 DEF MouseMoves, resetOverlayTimer
  <2>2. ctl' \in Controls
    BY <1>0, <2>1 DEF Controls
  <2>3. Tidy(ctl')
    BY <1>0, <2>1 DEF Controls, Tidy
  <2> QED BY <2>1, <2>2, <2>3 DEF ControlsInv, Stays
<1>4. CASE HintTimerFires
  <2>1. ctl' = [ctl EXCEPT !.hint = FALSE, !.hintTimer = FALSE]
    BY <1>4 DEF HintTimerFires
  <2>2. ctl' \in Controls /\ ctl'.visible = ctl.visible
    BY <1>0, <2>1 DEF Controls
  <2>3. Tidy(ctl')
    BY <1>0, <2>1 DEF Controls, Tidy
  <2> QED BY <1>k, <2>2, <2>3
<1>5. CASE ZoomOtherwise
  <2>1. (~ctl.zoomed) \in BOOLEAN /\ ctl' = Zoom(ctl, ~ctl.zoomed)
    BY <1>5 DEF ZoomOtherwise
  <2> QED BY <1>0, <1>k, <2>1, Zooms
<1>6. CASE TapDelayEnds
  <2>1. ctl' = [ctl EXCEPT !.recent = FALSE]
    BY <1>6 DEF TapDelayEnds
  <2>2. ctl' \in Controls /\ Alike(ctl', ctl) /\ Unzoomed(ctl', ctl)
    BY <1>0, <2>1 DEF Controls, Alike, Unzoomed
  <2> QED BY <2>2, Kept
<1>7. CASE TapTimerFires
  <2> DEFINE fired == [ctl EXCEPT !.tap = "none"]
  <2>1. fired \in Controls /\ Alike(fired, ctl) /\ Unzoomed(fired, ctl) /\ fired.tap = "none"
    BY <1>0 DEF Controls, Alike, Unzoomed
  <2>2. Tidy(fired) /\ fired.visible = ctl.visible
    BY <1>0, <2>1, Untouched DEF Alike
  <2>3. ctl' = IF ctl.tap = "mobile" THEN toggleOverlay(fired) ELSE fired
    BY <1>7 DEF TapTimerFires
  <2> HIDE DEF fired
  <2>4. CASE ctl.tap # "mobile"
    BY <1>k, <2>1, <2>2, <2>3, <2>4
  <2>5. CASE ctl.tap = "mobile" /\ fired.visible
    <3>1. ctl' = [fired EXCEPT !.visible = FALSE]
      BY <2>3, <2>5 DEF toggleOverlay
    <3>2. ctl' \in Controls /\ ctl'.tap = "none"
      BY <2>1, <3>1 DEF Controls
    <3>3. Tidy(ctl')
      BY <2>1, <2>2, <3>1 DEF Controls, Tidy
    <3> QED BY <2>5, <3>2, <3>3 DEF ControlsInv, Stays
  <2>6. CASE ctl.tap = "mobile" /\ ~fired.visible
    <3>0. ctl' = [[fired EXCEPT !.visible = TRUE] EXCEPT !.hideTimer = TRUE, !.visible = ~TRUE \/ @]
      BY <2>3, <2>6 DEF toggleOverlay, resetOverlayTimer
    <3>1. ctl' = [fired EXCEPT !.visible = TRUE, !.hideTimer = TRUE] /\ ctl.mobile \in BOOLEAN
      BY <1>f, <2>1, <3>0 DEF Controls
    <3> QED
      <4>1. ctl' \in Controls
        BY <2>1, <3>1 DEF Controls
      <4>0. fired.mobile
        BY <1>0, <2>1, <2>2, <2>6 DEF Tidy, Alike
      <4>2. Tidy(ctl')
        BY <2>1, <2>2, <3>1, <4>0 DEF Controls, Tidy
      <4> QED BY <2>2, <2>6, <4>1, <4>2 DEF ControlsInv, Stays
  <2> QED BY <2>4, <2>5, <2>6
\* A tap with what else it presses.
<1>t. ASSUME NEW c \in Tapped(ctl), ctl' \in Controls, Alike(ctl', c), Unzoomed(ctl', c)
      PROVE  ControlsInv' /\ Stays(ctl')
  <2>1. c \in Controls /\ Tidy(c) /\ c.visible = ctl.visible
    BY <1>0, Taps
  <2> QED BY <1>k, <1>t, <2>1, Untouched DEF Alike
<1>8. CASE TapImage
  <2>1. PICK c \in Tapped(ctl), open \in {FALSE, ctl.fab} : ctl' = [c EXCEPT !.fab = open]
    BY <1>8 DEF TapImage
  <2>2. c \in Controls /\ open \in BOOLEAN
    BY <1>0, <1>f, Taps
  <2>3. ctl' \in Controls /\ Alike(ctl', c) /\ Unzoomed(ctl', c)
    BY <2>1, <2>2 DEF Controls, Alike, Unzoomed
  <2> QED BY <1>t, <2>3
<1>9. CASE TapKey
  BY <1>0, <1>9, <1>k, Taps DEF TapKey
<1>10. CASE PressFab
  <2>1. PICK c \in Tapped(ctl) : ctl' = [c EXCEPT !.fab = ~@]
    BY <1>10 DEF PressFab
  <2>2. c \in Controls
    BY <1>0, Taps
  <2>3. ctl' \in Controls /\ Alike(ctl', c) /\ Unzoomed(ctl', c)
    BY <2>1, <2>2 DEF Controls, Alike, Unzoomed
  <2> QED BY <1>t, <2>3
<1>11. CASE PressWatch
  <2>1. PICK c \in Tapped(ctl) : ctl' = [c EXCEPT !.fab = FALSE]
    BY <1>11 DEF PressWatch
  <2>2. c \in Controls
    BY <1>0, Taps
  <2>3. ctl' \in Controls /\ Alike(ctl', c) /\ Unzoomed(ctl', c)
    BY <2>1, <2>2 DEF Controls, Alike, Unzoomed
  <2> QED BY <1>t, <2>3
<1>12. CASE SwipeHintEnds
  <2>1. ctl' = [ctl EXCEPT !.swipeSeen = TRUE]
    BY <1>12 DEF SwipeHintEnds
  <2>2. ctl' \in Controls /\ Alike(ctl', ctl) /\ Unzoomed(ctl', ctl)
    BY <1>0, <2>1 DEF Controls, Alike, Unzoomed
  <2> QED BY <2>2, Kept
<1>13. CASE PullStart
  <2>1. PICK pulling \in BOOLEAN :
          ctl' = [ctl EXCEPT !.pulling = pulling] /\ (pulling => ~ctl.isRefreshing)
    <3>1. PICK top \in BOOLEAN : ctl' = [ctl EXCEPT !.pulling = IF MayStart THEN @ \/ top ELSE FALSE]
      BY <1>13 DEF PullStart
    <3>2. (IF MayStart THEN ctl.pulling \/ top ELSE FALSE) \in BOOLEAN
      BY <1>f
    <3> QED BY <3>1, <3>2 DEF MayStart
  <2>2. ctl' \in Controls /\ ctl'.visible = ctl.visible
    BY <1>0, <2>1 DEF Controls
  <2>3. Tidy(ctl')
    BY <1>0, <2>1 DEF Controls, Tidy
  <2> QED BY <1>k, <2>2, <2>3
<1>14. CASE PullMove
  <2>1. PICK dist \in {"short", "far"} : ctl' = [ctl EXCEPT !.dist = dist]
    BY <1>14 DEF PullMove
  <2>2. ctl' \in Controls /\ Alike(ctl', ctl) /\ Unzoomed(ctl', ctl)
    BY <1>0, <2>1 DEF Controls, Alike, Unzoomed
  <2> QED BY <2>2, Kept
<1>15. CASE PullEnd
  <2>0. ctl.pulling /\ ~ctl.isRefreshing /\ ctl.refetches = 0
    BY <1>0, <1>15, <1>f DEF PullEnd, Tidy
  <2>1. CASE ctl.dist = "far"
    <3>1. ctl' = [ctl EXCEPT !.pulling = FALSE, !.isRefreshing = TRUE, !.refetches = 1]
      BY <1>15, <2>0, <2>1 DEF PullEnd
    <3>2. ctl' \in Controls /\ ctl'.visible = ctl.visible
      <4>1. 1 \in 0..1
        OBVIOUS
      <4> QED BY <1>0, <3>1, <4>1 DEF Controls
    <3>3. Tidy(ctl')
      BY <1>0, <3>1 DEF Controls, Tidy
    <3> QED BY <1>k, <3>2, <3>3
  <2>2. CASE ctl.dist # "far"
    <3>1. ctl' = [ctl EXCEPT !.pulling = FALSE, !.dist = "none"]
      BY <1>15, <2>2 DEF PullEnd
    <3>2. ctl' \in Controls /\ ctl'.visible = ctl.visible
      BY <1>0, <3>1 DEF Controls
    <3>3. Tidy(ctl')
      BY <1>0, <3>1 DEF Controls, Tidy
    <3> QED BY <1>k, <3>2, <3>3
  <2> QED BY <2>1, <2>2
<1>16. CASE Refreshed
  <2>1. ctl' = [ctl EXCEPT !.refetches = 0, !.isRefreshing = FALSE, !.dist = "none"]
    <3>1. ctl.refetches - 1 = 0
      BY <1>16, <1>f DEF Refreshed
    <3> QED BY <1>16, <3>1 DEF Refreshed
  <2>2. 0 \in 0..1
    OBVIOUS
  <2>3. ctl' \in Controls /\ ctl'.visible = ctl.visible
    BY <1>0, <2>1, <2>2 DEF Controls
  <2>4. Tidy(ctl')
    BY <1>0, <2>1 DEF Controls, Tidy
  <2> QED BY <1>k, <2>3, <2>4
<1>17. CASE toggleFullscreen
  <2>1. PICK c \in Tapped(ctl) \cup {ctl} : ctl' = [c EXCEPT !.asks = Append(@, ctl.screen)]
    BY <1>17 DEF toggleFullscreen
  <2>2. c \in Controls
    BY <1>0, Taps
  <2>3. Append(c.asks, ctl.screen) \in Seq(BOOLEAN)
    <3>1. c.asks \in Seq(BOOLEAN)
      BY <2>2 DEF Controls
    <3> QED BY <1>f, <3>1
  <2>4. ctl' \in Controls /\ Alike(ctl', c) /\ Unzoomed(ctl', c)
    BY <2>1, <2>2, <2>3 DEF Controls, Alike, Unzoomed
  <2> QED BY <1>t, <2>4, Kept
\* The document changes, and the picture with it.
<1>s. ASSUME NEW c \in Controls, Tidy(c), c.visible = ctl.visible, NEW on \in BOOLEAN
      PROVE  LET d == FullscreenChange(c, on)
             IN  d \in Controls /\ Tidy(d) /\ d.visible = ctl.visible
  <2> DEFINE e == [c EXCEPT !.screen = on, !.isFullscreen = on, !.refused = FALSE]
  <2>1. e \in Controls /\ e.visible = c.visible
    BY DEF Controls
  <2>2. Tidy(e)
    BY <1>s DEF Controls, Tidy
  <2>3. FullscreenChange(c, on) = Zoom(e, on /\ c.zoomed) /\ (on /\ c.zoomed) \in BOOLEAN
    BY DEF FullscreenChange
  <2> HIDE DEF e
  <2> QED BY <1>s, <2>1, <2>2, <2>3, Zooms
<1>18. CASE Answered
  <2> DEFINE was == Head(ctl.asks)
             rest == [ctl EXCEPT !.asks = Tail(@)]
             granted == IF ctl.screen = was THEN FullscreenChange(rest, ~was) ELSE rest
  <2>1. was \in BOOLEAN /\ Tail(ctl.asks) \in Seq(BOOLEAN)
    <3>1. ctl.asks # <<>>
      BY <1>18 DEF Answered
    <3> QED BY <1>f, <3>1, HeadTailProperties
  <2>2. /\ rest \in Controls /\ Alike(rest, ctl) /\ Unzoomed(rest, ctl)
    BY <1>0, <2>1 DEF Controls, Alike, Unzoomed
  <2>3. \/ ctl' = [granted EXCEPT !.isFullscreen = ~was]
        \/ ~was /\ ctl' = [rest EXCEPT !.isFullscreen = TRUE, !.refused = @ \/ ~ctl.screen]
    BY <1>18 DEF Answered
  <2>4. Tidy(rest) /\ rest.visible = ctl.visible /\ rest.screen = ctl.screen
    BY <1>0, <2>2, Untouched DEF Alike
  <2> HIDE DEF was, rest
  <2>5. /\ granted \in Controls /\ Tidy(granted) /\ granted.visible = ctl.visible
        /\ granted.screen = ~was
    <3>1. CASE ctl.screen = was
      <4>1. (~was) \in BOOLEAN
        BY <2>1
      <4>2. LET d == FullscreenChange(rest, ~was)
            IN  d \in Controls /\ Tidy(d) /\ d.visible = ctl.visible
        BY <1>s, <2>2, <2>4, <4>1
      <4>3. FullscreenChange(rest, ~was).screen = ~was
        BY <2>2, <4>1 DEF FullscreenChange, Zoom, Controls
      <4> QED BY <3>1, <4>2, <4>3
    <3>2. CASE ctl.screen # was
      BY <1>f, <2>1, <2>2, <2>4, <3>2
    <3> QED BY <3>1, <3>2
  <2> HIDE DEF granted
  <2>6. CASE ctl' = [granted EXCEPT !.isFullscreen = ~was]
    <3>1. ctl' \in Controls /\ ctl'.visible = ctl.visible
      BY <2>1, <2>5, <2>6 DEF Controls
    <3>2. Tidy(ctl')
      BY <2>1, <2>5, <2>6 DEF Controls, Tidy
    <3> QED BY <1>k, <3>1, <3>2
  <2>7. CASE ctl' = [rest EXCEPT !.isFullscreen = TRUE, !.refused = @ \/ ~ctl.screen]
    <3> DEFINE refused == rest.refused \/ ~ctl.screen
    <3>0. refused \in BOOLEAN
      OBVIOUS
    <3>1. ctl' = [rest EXCEPT !.isFullscreen = TRUE, !.refused = refused]
      BY <2>7
    <3>2. Tidy(ctl')
      BY <1>f, <2>2, <2>4, <2>7 DEF Controls, Tidy
    <3> HIDE DEF refused
    <3>3. ctl' \in Controls /\ ctl'.visible = ctl.visible
      BY <2>2, <2>4, <3>0, <3>1 DEF Controls
    <3> QED BY <1>k, <3>2, <3>3
  <2> QED BY <2>3, <2>6, <2>7
<1>19. CASE LeaveFullscreen
  <2>1. ctl' = FullscreenChange(ctl, FALSE) /\ FALSE \in BOOLEAN
    BY <1>19 DEF LeaveFullscreen
  <2> QED BY <1>0, <1>k, <1>s, <2>1
<1> QED BY <1>1, <1>2, <1>3, <1>4, <1>5, <1>6, <1>7, <1>8, <1>9, <1>10, <1>11, <1>12,
           <1>13, <1>14, <1>15, <1>16, <1>17, <1>18, <1>19 DEF ControlsNext

LEMMA ControlsShow ==
    ASSUME ControlsInv
    PROVE  NothingStaysUp /\ RefreshingIsOneRead /\ FullscreenIsDocument
<1>1. ctl.refetches \in 0..1
  BY DEF ControlsInv, Controls
<1> QED BY <1>1 DEF ControlsInv, Tidy, NothingStaysUp, RefreshingIsOneRead, FullscreenIsDocument

-----------------------------------------------------------------------------
(* The selection. *)

Sectors == {"CONUS", "Mesoscale1", "FULL", "M1", "FLDK", "Japan", "Target"}
Bands == {"GEOCOLOR", "C02", "TrueColor", "B03", "B13"}
GoesSectors == {"CONUS", "Mesoscale1", "FULL", "M1"}
Selections ==
    [satellite : {"", "GOES-19", "Himawari-9"}, sector : Sectors, band : Bands]

\* A GOES satellite comes with the products, which list its bands; what the effects
\* have seen last is what was shown last.  A sector that is not of GOES is there with
\* Himawari, or until its reset.
SelectionInv ==
    /\ selected \in Selections
    /\ products \in BOOLEAN /\ rendered \in BOOLEAN
    /\ monitoring \in BOOLEAN /\ autoFetch \in BOOLEAN
    /\ selected.satellite = "GOES-19" => products
    /\ rendered \/ selected.satellite = "" => resetFor = selected.satellite
    /\ selected.satellite # "Himawari-9" /\ resetFor # "Himawari-9" => selected.sector \in GoesSectors
    /\ GoesBandServable

LEMMA BandsAre ==
    /\ Range(apiBands) = {"GEOCOLOR", "C02"} /\ DOMAIN apiBands = 1..2 /\ Len(apiBands) = 2
    /\ apiBands[1] = "GEOCOLOR" /\ apiBands[2] = "C02"
    /\ \A s : Range(getBandsForSatellite(s)) \subseteq Bands
    /\ \A s : getSectorsForSatellite(s) \subseteq Sectors
    /\ \A s : s # "Himawari-9" => getSectorsForSatellite(s) \subseteq GoesSectors
    /\ GoesSectors = {"CONUS", "Mesoscale1"} \cup PresetSectors /\ GoesSectors \subseteq Sectors
    /\ getSectorsForSatellite("GOES-19") = {"CONUS", "Mesoscale1"}
    /\ allSatellites \subseteq {"GOES-19", "Himawari-9"}
    /\ ~products => allSatellites = {"Himawari-9"}
<1>1. Range(apiBands) = {"GEOCOLOR", "C02"} /\ DOMAIN apiBands = 1..2 /\ Len(apiBands) = 2
      /\ apiBands[1] = "GEOCOLOR" /\ apiBands[2] = "C02"
  BY DEF apiBands, Range
<1>2. Range(<<"TrueColor", "B03", "B13">>) \subseteq Bands
  BY DEF Range, Bands
<1>3. \A s : Range(getBandsForSatellite(s)) \subseteq Bands
  BY <1>1, <1>2 DEF getBandsForSatellite, Bands
<1>4. /\ \A s : getSectorsForSatellite(s) \subseteq Sectors
      /\ \A s : s # "Himawari-9" => getSectorsForSatellite(s) \subseteq GoesSectors
      /\ getSectorsForSatellite("GOES-19") = {"CONUS", "Mesoscale1"}
  BY DEF getSectorsForSatellite, Sectors, GoesSectors, isHimawariSatellite
<1>6. GoesSectors = {"CONUS", "Mesoscale1"} \cup PresetSectors /\ GoesSectors \subseteq Sectors
  BY DEF GoesSectors, PresetSectors, Sectors
<1>5. /\ allSatellites \subseteq {"GOES-19", "Himawari-9"}
      /\ ~products => allSatellites = {"Himawari-9"}
  BY DEF allSatellites, apiSatellites
<1> QED BY <1>1, <1>3, <1>4, <1>5, <1>6

LEMMA SelectionInitially == ASSUME SelectionInit PROVE SelectionInv
BY DEF SelectionInit, SelectionInv, Selections, Sectors, Bands, GoesSectors, GoesBandServable,
       apiSatellites

\* A selection that is shown has yet to be repaired.
LEMMA Shown ==
    ASSUME SelectionInv, NEW s \in Selections, Show(s), products' = products,
           monitoring' \in BOOLEAN, autoFetch' \in BOOLEAN, resetFor' = resetFor,
           s.satellite = "GOES-19" => products,
           s.satellite # "Himawari-9" /\ resetFor # "Himawari-9" => s.sector \in GoesSectors,
           s.satellite = "" => selected.satellite = ""
    PROVE  SelectionInv'
BY DEF Show, SelectionInv, GoesBandServable

\* What the effects leave alone is what the rules allow.
LEMMA Repairs ==
    ASSUME SelectionInv
    PROVE  /\ Repaired \in Selections
           /\ Repaired.satellite = "GOES-19" => products
           /\ Repaired.satellite # "Himawari-9" => Repaired.sector \in GoesSectors
           /\ selected.satellite = "" \/ Repaired.satellite = selected.satellite
           /\ Repaired = selected /\ selected.satellite = "GOES-19" =>
                 /\ selected.band \in {"GEOCOLOR", "C02"}
                 /\ ~(isMesoSector(selected.sector) /\ selected.band = "GEOCOLOR")
<1> DEFINE a == ChooseSatellite(selected, selected)
           b == ValidateBand(selected, a)
           c == MesoHasNoComposite(selected, b)
           d == ResetForSatellite(selected, c)
<1>0. selected \in Selections /\ products \in BOOLEAN
  BY DEF SelectionInv
<1>1. /\ a \in Selections /\ a.band = selected.band /\ a.sector = selected.sector
      /\ a.satellite = "GOES-19" => products
      /\ a.satellite \in {selected.satellite, "GOES-19"}
      /\ selected.satellite # "" => a.satellite = selected.satellite
  BY <1>0 DEF SelectionInv, Selections, ChooseSatellite, defaultSatellite
<1> HIDE DEF a
<1>2. /\ b \in Selections /\ b.sector = selected.sector /\ b.satellite = a.satellite
      /\ IF products /\ ~isHimawariSatellite(selected.satellite) /\ selected.band \notin {"GEOCOLOR", "C02"}
           THEN b.band = "GEOCOLOR" ELSE b.band = selected.band
  BY <1>1, BandsAre DEF Selections, Bands, ValidateBand
<1> HIDE DEF b
<1>3. /\ c \in Selections /\ c.sector = selected.sector /\ c.satellite = a.satellite
      /\ IF isMesoSector(selected.sector) /\ selected.band = "GEOCOLOR"
           THEN c.band = "C02" ELSE c.band = b.band
  BY <1>2 DEF Selections, Bands, MesoHasNoComposite
<1> HIDE DEF c
<1>4. /\ d \in Selections /\ d.satellite = a.satellite
      /\ d = c \/ (d.sector = getDefaultSector(selected.satellite)
                   /\ d.band = getDefaultBand(selected.satellite))
  <2>1. getDefaultSector(selected.satellite) \in {"CONUS", "FLDK"}
        /\ getDefaultBand(selected.satellite) \in {"GEOCOLOR", "TrueColor"}
    BY DEF getDefaultSector, getDefaultBand
  <2> QED BY <1>3, <2>1 DEF Selections, Sectors, Bands, ResetForSatellite
<1>5. Repaired = d
  BY DEF Repaired, a, b, c
<1> HIDE DEF d
<1>6. ASSUME d = selected, selected.satellite = "GOES-19"
      PROVE  /\ selected.band \in {"GEOCOLOR", "C02"}
             /\ ~(isMesoSector(selected.sector) /\ selected.band = "GEOCOLOR")
  <2>1. products /\ ~isHimawariSatellite(selected.satellite)
    BY <1>6 DEF SelectionInv, isHimawariSatellite
  <2>2. CASE d = c
    BY <1>2, <1>3, <1>6, <2>1, <2>2
  <2>3. CASE d.sector = getDefaultSector(selected.satellite)
             /\ d.band = getDefaultBand(selected.satellite)
    BY <1>6, <2>1, <2>3 DEF getDefaultSector, getDefaultBand, isMesoSector
  <2> QED BY <1>4, <2>2, <2>3
<1>7. ASSUME d.satellite # "Himawari-9" PROVE d.sector \in GoesSectors
  <2>1. getDefaultSector(selected.satellite) = "CONUS"
    BY <1>0, <1>1, <1>4, <1>7 DEF Selections, getDefaultSector, isHimawariSatellite
  <2>2. CASE d = c
    <3>1. resetFor # "Himawari-9" => selected.sector \in GoesSectors
      BY <1>0, <1>1, <1>4, <1>7 DEF SelectionInv, Selections
    <3>2. CASE resetFor = "Himawari-9"
      <4>1. selected.satellite \notin {"", resetFor}
        BY <1>0, <1>1, <1>4, <1>7, <3>2 DEF SelectionInv, Selections
      <4>2. d = [c EXCEPT !.sector = getDefaultSector(selected.satellite),
                          !.band = getDefaultBand(selected.satellite)]
        BY <3>2, <4>1 DEF ResetForSatellite, d
      <4> QED BY <1>3, <2>1, <4>2 DEF Selections, GoesSectors
    <3> QED BY <1>3, <2>2, <3>1, <3>2
  <2>3. CASE d.sector = getDefaultSector(selected.satellite)
    BY <2>1, <2>3 DEF GoesSectors
  <2> QED BY <1>4, <2>2, <2>3
<1> QED BY <1>1, <1>4, <1>5, <1>6, <1>7

LEMMA SelectionStep ==
    ASSUME SelectionInv, ProductsArrive \/ ChangeSelection \/ RunSelectionEffects \/ ChangeMode
    PROVE  SelectionInv'
<1>0. /\ selected \in Selections /\ products \in BOOLEAN /\ rendered \in BOOLEAN
      /\ monitoring \in BOOLEAN /\ autoFetch \in BOOLEAN
      /\ selected.satellite = "GOES-19" => products
      /\ rendered \/ selected.satellite = "" => resetFor = selected.satellite
      /\ selected.satellite # "Himawari-9" /\ resetFor # "Himawari-9" => selected.sector \in GoesSectors
  BY DEF SelectionInv
<1>1. CASE ProductsArrive
  BY <1>1 DEF SelectionInv, ProductsArrive, KeepMode, GoesBandServable
<1>2. CASE RunSelectionEffects
  <2>1. selected' = Repaired /\ rendered' = (Repaired = selected) /\ products' = products
        /\ monitoring' = monitoring /\ autoFetch' = autoFetch
        /\ resetFor' = IF selected.satellite = "" THEN resetFor ELSE selected.satellite
    BY <1>2 DEF RunSelectionEffects, KeepMode
  <2>2. GoesBandServable'
    <3>1. ASSUME rendered', selected'.satellite \in apiSatellites
          PROVE  /\ selected'.sector \in GoesSectors /\ selected'.band \in Range(apiBands)
                 /\ ~(isMesoSector(selected'.sector) /\ selected'.band = "GEOCOLOR")
      BY <2>1, <3>1, Repairs, BandsAre DEF apiSatellites
    <3>2. selected'.satellite \in apiSatellites =>
            getSectorsForSatellite(selected'.satellite) \cup PresetSectors = GoesSectors
      BY BandsAre DEF apiSatellites
    <3> QED BY <3>1, <3>2 DEF GoesBandServable
  <2>3. rendered' \/ selected'.satellite = "" => resetFor' = selected'.satellite
    <3>1. selected'.satellite = "" => selected.satellite = ""
      BY <2>1, Repairs
    <3> QED BY <1>0, <2>1, <3>1
  <2> QED BY <1>0, <2>1, <2>2, <2>3, Repairs DEF SelectionInv
<1>3. CASE ChangeMode
  <2>1. UNCHANGED <<selected, products, resetFor, rendered>>
        /\ monitoring' \in BOOLEAN /\ autoFetch' \in BOOLEAN
    BY <1>0, <1>3 DEF ChangeMode, toggleMonitor, stopMonitor, ToggleAutoFetch
  <2> QED BY <2>1 DEF SelectionInv, GoesBandServable
<1>4. CASE ChangeSelection
  <2>0. resetFor = selected.satellite
        /\ (selected.satellite # "Himawari-9" => selected.sector \in GoesSectors)
    BY <1>0, <1>4 DEF ChangeSelection
  <2>1. ASSUME NEW s \in allSatellites, PickSatellite(s) PROVE SelectionInv'
    <3>1. [selected EXCEPT !.satellite = s] \in Selections /\ s # ""
          /\ [selected EXCEPT !.satellite = s].satellite = s
          /\ [selected EXCEPT !.satellite = s].sector = selected.sector
      BY <1>0, BandsAre DEF Selections
    <3>2. Show([selected EXCEPT !.satellite = s]) /\ products /\ products' = products
          /\ monitoring' = monitoring /\ autoFetch' = autoFetch /\ resetFor' = resetFor
      BY <2>1 DEF PickSatellite, KeepMode
    <3> QED BY <1>0, <2>0, <3>1, <3>2, Shown
  <2>2. ASSUME NEW s \in getSectorsForSatellite(selected.satellite), PickSector(s) PROVE SelectionInv'
    <3>1. [selected EXCEPT !.sector = s] \in Selections
          /\ [selected EXCEPT !.sector = s].satellite = selected.satellite
          /\ [selected EXCEPT !.sector = s].sector = s
          /\ (selected.satellite # "Himawari-9" => s \in GoesSectors)
      BY <1>0, <2>2, BandsAre DEF Selections
    <3>2. Show([selected EXCEPT !.sector = s]) /\ products' = products
          /\ monitoring' = monitoring /\ autoFetch' = autoFetch /\ resetFor' = resetFor
      BY <2>2 DEF PickSector, KeepMode
    <3> QED BY <1>0, <3>1, <3>2, Shown
  <2>b. ASSUME NEW b \in Bands, Show([selected EXCEPT !.band = b]),
               products' = products, monitoring' = monitoring, autoFetch' = autoFetch,
               resetFor' = resetFor
        PROVE  SelectionInv'
    <3>1. [selected EXCEPT !.band = b] \in Selections
          /\ [selected EXCEPT !.band = b].satellite = selected.satellite
          /\ [selected EXCEPT !.band = b].sector = selected.sector
      BY <1>0 DEF Selections
    <3> QED BY <1>0, <2>b, <3>1, Shown
  <2>3. ASSUME NEW b \in Range(getBandsForSatellite(selected.satellite)), PickBand(b)
        PROVE  SelectionInv'
    BY <2>3, <2>b, BandsAre DEF PickBand, KeepMode
  <2>4. ASSUME NEW step \in {-1, 1}, Swipe(step) PROVE SelectionInv'
    <3> DEFINE bands == getBandsForSatellite(selected.satellite)
               i == Position(selected.band, bands)
    <3>1. i + step \in DOMAIN bands /\ Show([selected EXCEPT !.band = bands[i + step]])
          /\ products' = products /\ monitoring' = monitoring /\ autoFetch' = autoFetch /\ resetFor' = resetFor
      BY <2>4 DEF Swipe, KeepMode
    <3>2. bands[i + step] \in Bands
      <4>1. bands[i + step] \in Range(bands)
        BY <3>1 DEF Range
      <4> QED BY <4>1, BandsAre
    <3> QED BY <2>b, <3>1, <3>2
  <2>5. ASSUME NEW step \in {-1, 1}, Arrow(step) PROVE SelectionInv'
    <3> DEFINE i == Position(selected.band, apiBands)
               k == IF step = 1 THEN IF i < 2 THEN i + 1 ELSE 1
                                ELSE IF i > 1 THEN i - 1 ELSE 2
    <3>1. i \in 0..2
      <4>1. CASE selected.band \in Range(apiBands)
        <5>1. \E j \in DOMAIN apiBands : apiBands[j] = selected.band
          BY <4>1 DEF Range
        <5>2. i \in DOMAIN apiBands
          BY <4>1, <5>1 DEF Position
        <5> QED BY <5>2, BandsAre
      <4>2. CASE selected.band \notin Range(apiBands)
        BY <4>2 DEF Position
      <4> QED BY <4>1, <4>2
    <3>2. Show([selected EXCEPT !.band = apiBands[k]])
          /\ products' = products /\ monitoring' = monitoring /\ autoFetch' = autoFetch /\ resetFor' = resetFor
      BY <2>5, BandsAre DEF Arrow, KeepMode
    <3> HIDE DEF i
    <3>3. k \in 1..2
      BY <3>1
    <3> HIDE DEF k
    <3>4. apiBands[k] \in Bands
      BY <3>3, BandsAre DEF Bands
    <3> QED BY <2>b, <3>2, <3>4
  <2>6. ASSUME NEW p \in MONITOR_PRESETS, applyPreset(p) PROVE SelectionInv'
    <3> DEFINE satellite == IF p.satellite = "" THEN selected.satellite ELSE p.satellite
               sector == p.sector
               band == IF p.band = "" THEN selected.band ELSE p.band
               s == [satellite |-> satellite, sector |-> sector, band |-> band]
    <3>1. Show(s) /\ products' = products /\ monitoring' = monitoring /\ autoFetch' = autoFetch /\ resetFor' = resetFor
      BY <2>6 DEF applyPreset, KeepMode
    <3>2. /\ s \in Selections
          /\ \/ s.satellite = "Himawari-9"
             \/ s.satellite = selected.satellite /\ s.sector \in GoesSectors
      <4>1. selected.satellite \in {"", "GOES-19", "Himawari-9"} /\ selected.band \in Bands
        BY <1>0 DEF Selections
      <4>2. \/ p.satellite = "" /\ p.sector \in GoesSectors /\ p.band = ""
            \/ p.satellite = "Himawari-9" /\ p.sector \in Sectors /\ p.band \in Bands \ {""}
        <5>1. CASE p \in {[satellite |-> "", sector |-> x, band |-> ""] : x \in PresetSectors}
          <6>1. PICK x \in PresetSectors : p = [satellite |-> "", sector |-> x, band |-> ""]
            BY <5>1
          <6> QED BY <6>1, BandsAre
        <5>2. CASE p \in {[satellite |-> "Himawari-9", sector |-> "Japan", band |-> "TrueColor"],
                          [satellite |-> "Himawari-9", sector |-> "FLDK", band |-> "B13"],
                          [satellite |-> "Himawari-9", sector |-> "Target", band |-> "B03"]}
          <6>1. /\ p.satellite = "Himawari-9" /\ p.sector \in {"Japan", "FLDK", "Target"}
                /\ p.band \in {"TrueColor", "B13", "B03"}
            BY <5>2
          <6> QED BY <6>1 DEF Sectors, Bands
        <5> QED BY <2>6, <5>1, <5>2 DEF MONITOR_PRESETS
      <4>3. /\ satellite \in {"", "GOES-19", "Himawari-9"} /\ sector \in Sectors /\ band \in Bands
            /\ \/ satellite = "Himawari-9"
               \/ satellite = selected.satellite /\ sector \in GoesSectors
        BY <4>1, <4>2, BandsAre
      <4> HIDE DEF satellite, sector, band
      <4> QED BY <4>3 DEF Selections
    <3> HIDE DEF s
    <3> QED BY <1>0, <2>0, <3>1, <3>2, Shown
  <2>7. ASSUME NEW satellite \in allSatellites \cup {selected.satellite},
               NEW sector \in getSectorsForSatellite(selected.satellite) \cup {selected.sector},
               NEW band \in Range(getBandsForSatellite(selected.satellite)) \cup {selected.band},
               startMonitor(satellite, sector, band)
        PROVE  SelectionInv'
    <3> DEFINE s == [satellite |-> satellite, sector |-> sector, band |-> band]
    <3>1. Show(s) /\ products' = products /\ monitoring' = TRUE /\ autoFetch' = TRUE
          /\ resetFor' = resetFor /\ (satellite = selected.satellite \/ products)
      BY <2>7 DEF startMonitor
    <3>2. s \in Selections /\ s.satellite = satellite /\ s.sector = sector
      BY <1>0, BandsAre DEF Selections
    <3>3. /\ satellite = "" => selected.satellite = ""
          /\ selected.satellite # "Himawari-9" => sector \in GoesSectors
      BY <2>0, <2>7, BandsAre
    <3> HIDE DEF s
    <3> QED BY <1>0, <2>0, <3>1, <3>2, <3>3, Shown
  <2> QED BY <1>4, <2>1, <2>2, <2>3, <2>4, <2>5, <2>6, <2>7 DEF ChangeSelection
<1> QED BY <1>1, <1>2, <1>3, <1>4

-----------------------------------------------------------------------------
(* The jobs and the requests for them. *)

JobRows == [for : Selections, at : Nat, status : {"pending"} \cup Ended, own : BOOLEAN]
IsPost(p) ==
    p \in [id : {p.id}, for : Selections, at : Nat, auto : BOOLEAN, cancelled : BOOLEAN]
Own(js) == {j \in DOMAIN js : js[j].own}

JobsInv ==
    /\ scan \in Nat
    /\ jobs \in Seq(JobRows) /\ \A j \in 1..Len(jobs) : jobs[j].at <= scan

\* A request that an effect made and that is not cancelled is for what is shown.
PostsInv ==
    /\ IsFiniteSet(posts)
    /\ \A p \in posts : IsPost(p) /\ p.at <= scan
    /\ \A p \in posts : p.auto /\ ~p.cancelled => p.for = selected

FollowInv ==
    /\ frame \in 0..scan /\ catalogLatest \in 0..scan
    /\ activeJobId \in 0..Len(jobs)
    /\ activeJob \in {"none", "pending"} \cup Ended

FetchInv == JobsInv /\ PostsInv /\ FollowInv /\ Asked <= MaxPosts

\* A set of numbers with a bound has a greatest one.
LEMMA GreatestNumber ==
    ASSUME NEW n \in Nat, NEW T \in SUBSET (0..n), T # {}
    PROVE  \E t \in T : \A u \in T : u <= t
<1> DEFINE D == {k \in Nat : n - k \in T}
<1>1. D # {}
  <2>1. PICK t \in T : TRUE
    OBVIOUS
  <2>2. n - t \in Nat /\ n - (n - t) = t
    BY <2>1
  <2> QED BY <2>1, <2>2
<1>2. \E k \in D : \A m \in D : ~(<<m, k>> \in OpToRel(<, Nat))
  BY <1>1, WFMin, NatLessThanWellFounded
<1>3. PICK k \in D : \A m \in D : ~(m < k)
  BY <1>2 DEF OpToRel
<1>4. ASSUME NEW u \in T PROVE u <= n - k
  <2>1. n - u \in Nat /\ n - (n - u) = u /\ u \in Nat
    BY <1>4
  <2>2. n - u \in D
    BY <1>4, <2>1
  <2>3. ~(n - u < k)
    BY <1>3, <2>2
  <2>4. n \in Nat /\ k \in Nat /\ u \in Nat
    BY <1>3, <2>1
  <2> HIDE DEF D
  <2> QED BY <2>3, <2>4
<1>5. n - k \in T
  BY <1>3
<1> QED BY <1>4, <1>5

LEMMA StoredIsScan == ASSUME JobsInv, NEW s PROVE Stored(s) \in 0..scan
<1> DEFINE T == {jobs[j].at : j \in {i \in DOMAIN jobs :
                   jobs[i].for = s /\ jobs[i].status = "completed"}}
<1>1. T \in SUBSET (0..scan) /\ scan \in Nat
  <2>1. scan \in Nat /\ \A j \in 1..Len(jobs) : jobs[j] \in JobRows /\ jobs[j].at <= scan
    BY DEF JobsInv
  <2>2. DOMAIN jobs = 1..Len(jobs)
    BY DEF JobsInv
  <2>3. \A r \in JobRows : r.at \in Nat
    BY DEF JobRows
  <2>4. \A j \in DOMAIN jobs : jobs[j].at \in 0..scan
    BY <2>1, <2>2, <2>3
  <2>5. \A t \in T : t \in 0..scan
    BY <2>4
  <2> HIDE DEF T
  <2> QED BY <2>1, <2>5
<1>2. CASE T = {}
  <2>1. Stored(s) = 0
    BY <1>2 DEF Stored
  <2> QED BY <1>1, <2>1
<1>3. CASE T # {}
  <2>1. \E t \in T : \A u \in T : u <= t
    BY <1>1, <1>3, GreatestNumber
  <2>2. Stored(s) = CHOOSE t \in T : \A u \in T : u <= t
    BY <1>3 DEF Stored
  <2>3. Stored(s) \in T
    BY <2>1, <2>2
  <2> QED BY <1>1, <2>3
<1> QED BY <1>2, <1>3

LEMMA OwnCounts ==
    ASSUME NEW js \in Seq(JobRows)
    PROVE  IsFiniteSet(Own(js)) /\ Cardinality(Own(js)) \in Nat
<1>1. IsFiniteSet(1..Len(js)) /\ Own(js) \in SUBSET (1..Len(js))
  BY FS_Interval DEF Own
<1>2. IsFiniteSet(Own(js))
  BY <1>1, FS_Subset
<1> QED BY <1>2, FS_CardinalityType

\* A request of an effect that runs again is cancelled, and none is made of it.
LEMMA Depends ==
    ASSUME PostsInv, NEW P \in SUBSET posts, Depend(P), scan' = scan
    PROVE  /\ PostsInv' /\ Cardinality(posts') <= Cardinality(P)
           /\ \A p \in P : p.auto /\ p.cancelled => p \in posts'
<1> DEFINE cancel(p) == [p EXCEPT !.cancelled = p.auto]
           f == [p \in P |-> cancel(p)]
<1>1. posts' = {cancel(p) : p \in P}
  BY DEF Depend
<1>2. \A p \in P : /\ IsPost(cancel(p)) /\ cancel(p).at = p.at
                   /\ cancel(p).auto = p.auto /\ cancel(p).cancelled = p.auto
  BY DEF PostsInv, IsPost
<1>3. \A p \in P : p.auto /\ p.cancelled => cancel(p) = p
  <2> SUFFICES ASSUME NEW p \in P, p.auto, p.cancelled PROVE cancel(p) = p
    OBVIOUS
  <2>1. p \in [id : {p.id}, for : Selections, at : Nat, auto : BOOLEAN, cancelled : BOOLEAN]
    BY DEF PostsInv, IsPost
  <2>2. p.auto = p.cancelled
    BY <2>1
  <2> QED BY <2>1, <2>2
<1> HIDE DEF cancel
<1>4. f \in Surjection(P, posts')
  BY <1>1 DEF Surjection
<1>5. IsFiniteSet(P)
  BY FS_Subset DEF PostsInv
<1>6. IsFiniteSet(posts') /\ Cardinality(posts') <= Cardinality(P)
  BY <1>4, <1>5, FS_Surjection
<1>7. \A p \in posts' : IsPost(p) /\ p.at <= scan /\ (p.auto => p.cancelled)
  BY <1>1, <1>2 DEF PostsInv
<1> QED BY <1>1, <1>3, <1>6, <1>7 DEF PostsInv

\* Without a change of its own, the effect runs again and no more is asked for.
LEMMA DependsOnly ==
    ASSUME FetchInv, Depend(posts), UNCHANGED <<scan, jobs>>, FollowInv'
    PROVE  FetchInv'
<1>1. PostsInv' /\ Cardinality(posts') <= Cardinality(posts)
  BY Depends DEF FetchInv
<1>2. Cardinality(posts') \in Nat /\ Cardinality(posts) \in Nat
  BY <1>1, FS_CardinalityType DEF FetchInv, PostsInv
<1>3. JobsInv' /\ Own(jobs)' = Own(jobs) /\ Cardinality(Own(jobs)) \in Nat
  BY OwnCounts DEF FetchInv, JobsInv, Own
<1>4. MaxPosts \in Nat
  BY LiveFetchAssumption
<1>5. Asked = Cardinality(Own(jobs)) + Cardinality(posts)
      /\ Asked' = Cardinality(Own(jobs)') + Cardinality(posts')
  BY DEF Asked, Own
<1>6. Asked' <= MaxPosts
  <2> DEFINE own == Cardinality(Own(jobs))
             n == Cardinality(posts)
             m == Cardinality(posts')
  <2>1. own \in Nat /\ n \in Nat /\ m \in Nat /\ m <= n
    BY <1>1, <1>2, <1>3
  <2>2. own + n <= MaxPosts
    BY <1>5 DEF FetchInv
  <2>3. Asked' = own + m
    BY <1>3, <1>5
  <2> HIDE DEF own, n, m
  <2> QED BY <1>4, <2>1, <2>2, <2>3
<1> QED BY <1>1, <1>3, <1>6 DEF FetchInv

LEMMA FetchInitially == ASSUME LiveInit PROVE FetchInv
<1>1. /\ scan = 1 /\ posts = {} /\ catalogLatest = 0 /\ frame = 0
      /\ activeJobId = 0 /\ activeJob = "none" /\ jobs \in {<<>>, <<Scheduled>>}
  BY DEF LiveInit, FetchInit
<1>2. Scheduled \in JobRows /\ Scheduled.at = 1 /\ ~Scheduled.own
  BY DEF Scheduled, JobRows, Selections, Sectors, Bands, Ended
<1>3. Len(jobs) \in Nat /\ jobs \in Seq(JobRows) /\ \A j \in 1..Len(jobs) : jobs[j] = Scheduled
  <2>1. CASE jobs = <<>>
    BY <2>1
  <2>2. CASE jobs = <<Scheduled>>
    BY <1>2, <2>2
  <2> QED BY <1>1, <2>1, <2>2
<1>4. JobsInv
  BY <1>1, <1>2, <1>3 DEF JobsInv
<1>5. PostsInv /\ FollowInv
  BY <1>1, <1>3, FS_EmptySet DEF PostsInv, FollowInv
<1>6. Own(jobs) = {}
  BY <1>2, <1>3 DEF Own
<1>7. Asked = 0
  BY <1>1, <1>6, FS_EmptySet DEF Asked, Own
<1> QED BY <1>4, <1>5, <1>7, LiveFetchAssumption DEF FetchInv

\* One more request, of the view that is shown.
LEMMA Asks ==
    ASSUME FetchInv, SelectionInv, selected' = selected, UNCHANGED <<scan, jobs>>,
           NEW at \in 0..scan, NEW auto \in BOOLEAN,
           Asked < MaxPosts, posts' = posts \cup {Post(at, auto)}, FollowInv'
    PROVE  FetchInv'
<1> DEFINE p == Post(at, auto)
<1>0. scan \in Nat /\ at \in Nat /\ at <= scan
  BY DEF FetchInv, JobsInv
<1>1. IsPost(p) /\ p.at = at /\ p.for = selected
  BY <1>0 DEF Post, IsPost, SelectionInv
<1>2. JobsInv' /\ Own(jobs)' = Own(jobs) /\ Cardinality(Own(jobs)) \in Nat
  BY OwnCounts DEF FetchInv, JobsInv, Own
<1> HIDE DEF p
<1>3. IsFiniteSet(posts') /\ Cardinality(posts') <= Cardinality(posts) + 1
      /\ Cardinality(posts) \in Nat /\ Cardinality(posts') \in Nat
  <2>1. IsFiniteSet(posts)
    BY DEF FetchInv, PostsInv
  <2>2. posts' = posts \cup {p}
    BY DEF p
  <2>3. Cardinality(posts) \in Nat
    BY <2>1, FS_CardinalityType
  <2>4. IsFiniteSet(posts')
        /\ Cardinality(posts') = IF p \in posts THEN Cardinality(posts) ELSE Cardinality(posts) + 1
    BY <2>1, <2>2, FS_AddElement
  <2> QED BY <2>3, <2>4
<1>4. PostsInv'
  <2>1. \A q \in posts' : q \in posts \/ q = p
    BY DEF p
  <2> QED BY <1>0, <1>1, <1>3, <2>1 DEF FetchInv, PostsInv
<1>5. Asked = Cardinality(Own(jobs)) + Cardinality(posts)
      /\ Asked' = Cardinality(Own(jobs)') + Cardinality(posts')
  BY DEF Asked, Own
<1>6. Asked' <= MaxPosts
  BY <1>2, <1>3, <1>5, LiveFetchAssumption
<1> QED BY <1>2, <1>4, <1>6 DEF FetchInv

\* Where requests, jobs and the selection stay, they stay as they were.
LEMMA NothingAsked ==
    ASSUME FetchInv, UNCHANGED <<selected, scan, jobs, posts>>, FollowInv'
    PROVE  FetchInv'
BY DEF FetchInv, JobsInv, PostsInv, Asked

\* A request is answered: its job takes its place in the count.
LEMMA JobMade ==
    ASSUME FetchInv, NEW p, PostSucceeds(p)
    PROVE  FetchInv'
<1> DEFINE r == [for |-> p.for, at |-> p.at, status |-> "pending", own |-> TRUE]
<1>0. /\ p \in posts /\ jobs' = Append(jobs, r) /\ scan' = scan /\ selected' = selected
      /\ frame' = frame /\ catalogLatest' = catalogLatest
      /\ IF Ignores(p)
           THEN posts' = posts \ {p} /\ activeJobId' = activeJobId /\ activeJob' = activeJob
           ELSE activeJobId' = Len(jobs') /\ activeJob' = "none" /\ Depend(posts \ {p})
  BY DEF PostSucceeds, selectionVars
<1>1. r \in JobRows /\ r.at <= scan /\ r.own
  BY <1>0 DEF FetchInv, PostsInv, IsPost, JobRows
<1> HIDE DEF r
<1>2. jobs \in Seq(JobRows) /\ scan \in Nat /\ Len(jobs) \in Nat
      /\ \A j \in 1..Len(jobs) : jobs[j].at <= scan
  BY DEF FetchInv, JobsInv
<1>3. /\ jobs' \in Seq(JobRows) /\ Len(jobs') = Len(jobs) + 1
      /\ \A j \in 1..Len(jobs) : jobs'[j] = jobs[j]
      /\ jobs'[Len(jobs) + 1] = r
  BY <1>0, <1>1, <1>2, AppendProperties
<1>4. JobsInv'
  <2>1. \A j \in 1..Len(jobs') : j \in 1..Len(jobs) \/ j = Len(jobs) + 1
    BY <1>2, <1>3
  <2>2. \A j \in 1..Len(jobs') : jobs'[j].at <= scan
    BY <1>1, <1>2, <1>3, <2>1
  <2> QED BY <1>0, <1>2, <1>3, <2>2 DEF JobsInv
<1>5. /\ Cardinality(Own(jobs')) = Cardinality(Own(jobs)) + 1
      /\ Cardinality(Own(jobs)) \in Nat
  <2>1. DOMAIN jobs = 1..Len(jobs) /\ DOMAIN jobs' = 1..(Len(jobs) + 1)
    BY <1>2, <1>3
  <2>2. Own(jobs') = Own(jobs) \cup {Len(jobs) + 1} /\ Len(jobs) + 1 \notin Own(jobs)
    BY <1>1, <1>2, <1>3, <2>1 DEF Own
  <2>3. IsFiniteSet(Own(jobs)) /\ Cardinality(Own(jobs)) \in Nat
    BY <1>2, OwnCounts
  <2> QED BY <2>2, <2>3, FS_AddElement
<1>6. /\ IsFiniteSet(posts \ {p}) /\ Cardinality(posts \ {p}) = Cardinality(posts) - 1
      /\ Cardinality(posts) \in Nat /\ Cardinality(posts \ {p}) \in Nat
  <2>1. IsFiniteSet(posts)
    BY DEF FetchInv, PostsInv
  <2>2. /\ IsFiniteSet(posts \ {p}) /\ Cardinality(posts \ {p}) = Cardinality(posts) - 1
    BY <1>0, <2>1, FS_RemoveElement
  <2> QED BY <2>1, <2>2, FS_CardinalityType
<1>7. PostsInv' /\ Cardinality(posts') <= Cardinality(posts) - 1 /\ Cardinality(posts') \in Nat
  <2>1. PostsInv /\ posts \ {p} \in SUBSET posts
    BY DEF FetchInv
  <2>2. CASE Ignores(p)
    <3>1. posts' = posts \ {p}
      BY <1>0, <2>2
    <3> QED BY <1>0, <1>6, <2>1, <3>1 DEF PostsInv
  <2>3. CASE ~Ignores(p)
    <3>1. PostsInv' /\ Cardinality(posts') <= Cardinality(posts \ {p})
      BY <1>0, <2>1, <2>3, Depends
    <3> QED BY <1>6, <3>1, FS_CardinalityType DEF PostsInv
  <2> QED BY <2>2, <2>3
<1>8. FollowInv'
  BY <1>0, <1>2, <1>3 DEF FetchInv, FollowInv
<1>9. Asked = Cardinality(Own(jobs)) + Cardinality(posts)
      /\ Asked' = Cardinality(Own(jobs')) + Cardinality(posts')
  BY DEF Asked, Own
<1>10. Asked' <= MaxPosts
  BY <1>5, <1>6, <1>7, <1>9, LiveFetchAssumption DEF FetchInv
<1> QED BY <1>4, <1>7, <1>8, <1>10 DEF FetchInv

LEMMA FetchStep == ASSUME SelectionInv, FetchInv, LiveNext PROVE FetchInv'
<1>0. /\ scan \in Nat /\ jobs \in Seq(JobRows) /\ Len(jobs) \in Nat
      /\ frame \in 0..scan /\ catalogLatest \in 0..scan /\ activeJobId \in 0..Len(jobs)
      /\ activeJob \in {"none", "pending"} \cup Ended /\ MaxPosts \in Nat
  BY LiveFetchAssumption DEF FetchInv, JobsInv, FollowInv
<1>s. \A s : Stored(s) \in 0..scan
  BY StoredIsScan DEF FetchInv
<1>n. 0 \in 0..scan /\ 0 \in 0..Len(jobs)
  BY <1>0
<1>1. CASE SelectionMoves
  <2>1. UNCHANGED <<scan, jobs, activeJobId, activeJob>> /\ ChangeKey
    BY <1>1 DEF SelectionMoves, serverVars
  <2>2. CASE selected' = selected
    <3>1. UNCHANGED <<posts, frame, catalogLatest>>
      BY <2>1, <2>2 DEF ChangeKey
    <3>2. FollowInv'
      BY <1>0, <2>1, <3>1 DEF FollowInv
    <3> QED BY <2>1, <2>2, <3>1, <3>2, NothingAsked
  <2>3. CASE selected' # selected
    <3>1. Depend(posts) /\ frame' \in {0, Stored(selected')} /\ catalogLatest' \in {0, catalogLatest}
      BY <2>1, <2>3 DEF ChangeKey
    <3>2. FollowInv'
      BY <1>0, <1>s, <1>n, <2>1, <3>1 DEF FollowInv
    <3> QED BY <2>1, <3>1, <3>2, DependsOnly
  <2> QED BY <2>2, <2>3
<1>2. CASE ModeMoves
  <2>1. Depend(posts) /\ UNCHANGED <<scan, jobs, catalogLatest, frame, activeJobId, activeJob>>
    BY <1>2 DEF ModeMoves, serverVars
  <2> QED BY <1>0, <2>1, DependsOnly DEF FollowInv
<1>3. CASE NewScan
  <2>1. scan' = scan + 1 /\ UNCHANGED <<selected, jobs, posts, catalogLatest, frame, activeJobId, activeJob>>
    BY <1>3 DEF NewScan, selectionVars
  <2>2. JobsInv'
    <3>1. \A j \in 1..Len(jobs) : jobs[j] \in JobRows /\ jobs[j].at <= scan
      BY DEF FetchInv, JobsInv
    <3>2. \A r \in JobRows : r.at \in Nat
      BY DEF JobRows
    <3>3. \A j \in 1..Len(jobs) : jobs[j].at <= scan + 1
      BY <1>0, <3>1, <3>2
    <3> QED BY <1>0, <2>1, <3>3 DEF JobsInv
  <2>3. PostsInv'
    <3>1. \A p \in posts : p.at \in Nat /\ p.at <= scan
      BY DEF FetchInv, PostsInv, IsPost
    <3>2. \A p \in posts : p.at <= scan + 1
      BY <1>0, <3>1
    <3> QED BY <2>1, <3>2 DEF FetchInv, PostsInv
  <2>4. FollowInv'
    <3>1. frame \in 0..(scan + 1) /\ catalogLatest \in 0..(scan + 1)
      BY <1>0
    <3> QED BY <1>0, <2>1, <3>1 DEF FollowInv
  <2>5. Asked' = Asked
    BY <2>1 DEF Asked
  <2> QED BY <2>2, <2>3, <2>4, <2>5 DEF FetchInv
<1>4. ASSUME NEW j \in DOMAIN jobs, JobRuns(j) PROVE FetchInv'
  <2>1. PICK status \in Ended : jobs' = [jobs EXCEPT ![j].status = status]
    BY <1>4 DEF JobRuns
  <2>2. UNCHANGED <<selected, scan, posts, catalogLatest, frame, activeJobId, activeJob>>
    BY <1>4 DEF JobRuns, selectionVars
  <2> DEFINE r == [jobs[j] EXCEPT !.status = status]
  <2>3. jobs[j] \in JobRows /\ j \in 1..Len(jobs)
    BY <1>0
  <2>4. r \in JobRows /\ r.at = jobs[j].at /\ r.own = jobs[j].own
    BY <2>3 DEF JobRows
  <2>5. jobs' = [jobs EXCEPT ![j] = r]
    BY <2>1
  <2> HIDE DEF r
  <2>6. /\ jobs' \in Seq(JobRows) /\ Len(jobs') = Len(jobs)
        /\ \A i \in 1..Len(jobs) : jobs'[i] = IF i = j THEN r ELSE jobs[i]
    BY <1>0, <2>3, <2>4, <2>5, ExceptSeq
  <2>7. \A i \in 1..Len(jobs) : jobs'[i].at = jobs[i].at /\ jobs'[i].own = jobs[i].own
    BY <2>4, <2>6
  <2>8. JobsInv'
    BY <2>2, <2>6, <2>7 DEF FetchInv, JobsInv
  <2>9. Own(jobs') = Own(jobs)
    <3>1. DOMAIN jobs' = 1..Len(jobs) /\ DOMAIN jobs = 1..Len(jobs)
      BY <1>0, <2>6
    <3> QED BY <2>7, <3>1 DEF Own
  <2>10. Asked' = Asked
    BY <2>2, <2>9 DEF Asked, Own
  <2>11. PostsInv' /\ FollowInv'
    BY <2>2, <2>6 DEF FetchInv, PostsInv, FollowInv
  <2> QED BY <2>8, <2>10, <2>11 DEF FetchInv
<1>5. CASE CatalogArrives
  <2>1. Depend(posts) /\ catalogLatest' = scan /\ UNCHANGED <<scan, jobs, frame, activeJobId, activeJob>>
    BY <1>5 DEF CatalogArrives, serverVars
  <2>2. scan \in 0..scan
    BY <1>0
  <2> QED BY <1>0, <2>1, <2>2, DependsOnly DEF FollowInv
<1>6. CASE FrameArrives
  <2>1. /\ Depend(posts) /\ frame' = Stored(selected)
        /\ UNCHANGED <<scan, jobs, catalogLatest, activeJobId, activeJob>>
    BY <1>6 DEF FrameArrives, serverVars
  <2>2. FollowInv'
    BY <1>0, <1>s, <2>1 DEF FollowInv
  <2> QED BY <2>1, <2>2, DependsOnly
<1>7. CASE Poll
  <2>1. /\ activeJobId # 0 /\ activeJob' = jobs[activeJobId].status
        /\ UNCHANGED <<selected, scan, jobs, posts, catalogLatest, frame, activeJobId>>
    BY <1>7 DEF Poll, serverVars, selectionVars
  <2>2. activeJobId \in 1..Len(jobs)
    BY <1>0, <2>1
  <2>3. jobs[activeJobId] \in JobRows
    BY <1>0, <2>2
  <2>4. activeJob' \in {"none", "pending"} \cup Ended
    BY <2>1, <2>3 DEF JobRows
  <2> QED BY <1>0, <2>1, <2>4, NothingAsked DEF FollowInv
<1>8. CASE Release
  <2>1. /\ Depend(posts) /\ activeJobId' = 0 /\ activeJob' = "none"
        /\ UNCHANGED <<scan, jobs, catalogLatest, frame>>
    BY <1>8 DEF Release, serverVars
  <2> QED BY <1>0, <1>n, <2>1, DependsOnly DEF FollowInv
<1>9. CASE fetchNow
  <2>1. /\ Asked < MaxPosts /\ posts' = posts \cup {Post(Target, FALSE)}
        /\ UNCHANGED <<selected, scan, jobs, catalogLatest, frame, activeJobId, activeJob>>
    BY <1>9 DEF fetchNow, serverVars, selectionVars
  <2>2. Target \in 0..scan /\ FollowInv'
    BY <1>0, <2>1 DEF Target, FollowInv
  <2> QED BY <2>1, <2>2, Asks
<1>10. CASE AutoFetchEffect
  <2>1. /\ \/ Asked < MaxPosts /\ posts' = posts \cup {Post(catalogLatest, TRUE)}
           \/ posts' = posts
        /\ UNCHANGED <<selected, scan, jobs, catalogLatest, frame, activeJobId, activeJob>>
    BY <1>10 DEF AutoFetchEffect, serverVars, selectionVars
  <2>2. FollowInv'
    BY <1>0, <2>1 DEF FollowInv
  <2> QED BY <1>0, <2>1, <2>2, Asks, NothingAsked
<1>11. CASE CoolDown
  <2>1. UNCHANGED <<selected, scan, jobs, posts, catalogLatest, frame, activeJobId, activeJob>>
    BY <1>11 DEF CoolDown, serverVars, selectionVars
  <2> QED BY <1>0, <2>1, NothingAsked DEF FollowInv
<1>12. ASSUME NEW p \in posts, PostFails(p) PROVE FetchInv'
  <2>1. /\ posts' = posts \ {p}
        /\ UNCHANGED <<selected, scan, jobs, catalogLatest, frame, activeJobId, activeJob>>
    BY <1>12 DEF PostFails, serverVars, selectionVars
  <2>2. IsFiniteSet(posts)
    BY DEF FetchInv, PostsInv
  <2>3. /\ IsFiniteSet(posts') /\ Cardinality(posts') = Cardinality(posts) - 1
        /\ Cardinality(posts) \in Nat
    BY <2>1, <2>2, FS_RemoveElement, FS_CardinalityType
  <2>4. Own(jobs)' = Own(jobs) /\ Cardinality(Own(jobs)) \in Nat
    BY <1>0, <2>1, OwnCounts DEF Own
  <2>5. Asked = Cardinality(Own(jobs)) + Cardinality(posts)
        /\ Asked' = Cardinality(Own(jobs)') + Cardinality(posts')
    BY DEF Asked, Own
  <2>6. Asked' <= MaxPosts
    BY <1>0, <2>3, <2>4, <2>5 DEF FetchInv
  <2>7. JobsInv' /\ PostsInv' /\ FollowInv'
    BY <2>1, <2>3 DEF FetchInv, JobsInv, PostsInv, FollowInv
  <2> QED BY <2>6, <2>7 DEF FetchInv
<1>13. ASSUME NEW p \in posts, PostSucceeds(p) PROVE FetchInv'
  BY <1>13, JobMade
<1> QED BY <1>1, <1>2, <1>3, <1>4, <1>5, <1>6, <1>7, <1>8, <1>9, <1>10, <1>11, <1>12, <1>13
        DEF LiveNext, FetchNext, FetchQueries, FollowJob

\* What AutoJobOfThisView asks of a step.
FollowsOwn ==
    \A p \in posts : p.auto /\ activeJobId' # activeJobId
                       /\ activeJobId' # 0 /\ p \notin posts'
                     => p.for = selected

LEMMA FollowsOwnStep == ASSUME SelectionInv, FetchInv, LiveNext PROVE FollowsOwn
<1>1. CASE \E q \in posts : PostSucceeds(q)
  <2>1. PICK q \in posts : PostSucceeds(q)
    BY <1>1
  <2>2. SUFFICES ASSUME NEW p \in posts, p.auto, activeJobId' # activeJobId, p \notin posts'
                 PROVE  p.for = selected
    BY DEF FollowsOwn
  <2>3. ~Ignores(q) /\ Depend(posts \ {q}) /\ scan' = scan
    BY <2>1, <2>2 DEF PostSucceeds
  <2>4. \A r \in posts \ {q} : r.auto /\ r.cancelled => r \in posts'
    BY <2>3, Depends DEF FetchInv
  <2>5. ~p.cancelled
    BY <2>2, <2>3, <2>4 DEF Ignores
  <2> QED BY <2>2, <2>5 DEF FetchInv, PostsInv
<1>2. CASE ~\E q \in posts : PostSucceeds(q)
  <2>1. activeJobId' = activeJobId \/ activeJobId' = 0
    BY <1>2 DEF LiveNext, SelectionMoves, ModeMoves, FetchNext, FetchQueries, FollowJob, NewScan,
         CatalogArrives, FrameArrives, Poll, Release, fetchNow, AutoFetchEffect, CoolDown,
         JobRuns, PostFails
  <2> QED BY <2>1 DEF FollowsOwn
<1> QED BY <1>1, <1>2

LEMMA LiveShows ==
    ASSUME SelectionInv, FetchInv PROVE LiveTypeOK /\ GoesBandServable
BY DEF SelectionInv, Selections, Sectors, Bands, FetchInv, FollowInv, LiveTypeOK

-----------------------------------------------------------------------------
(* The frames that are compared. *)

Frames(v) == Seq({v} \X Int)

Comparisons ==
    [view : Views, compareMode : BOOLEAN, failures : Nat,
     cache : [Kinds -> [Views -> Seq(Views \X Int)]],
     fetch : [Kinds -> [Views -> SUBSET Seq(Views \X Int)]]]

\* What is kept or under way for a view is of that view.
CompareInv ==
    /\ scans \in [Views -> Nat]
    /\ cmp \in Comparisons
    /\ \A k \in Kinds, v \in Views :
          cmp.cache[k][v] \in Frames(v) /\ cmp.fetch[k][v] \in SUBSET Frames(v)

LEMMA CompareInitially == ASSUME CompareInit PROVE CompareInv
<1>1. PICK view \in Views :
        cmp = [view |-> view, compareMode |-> FALSE,
               cache |-> [k \in Kinds |-> [v \in Views |-> <<>>]],
               fetch |-> [k \in Kinds |-> [v \in Views |-> {}]],
               failures |-> 0]
  BY DEF CompareInit
<1>2. <<>> \in Seq(Views \X Int) /\ \A v : <<>> \in Frames(v)
  BY DEF Frames
<1>3. cmp \in Comparisons
  BY <1>1, <1>2 DEF Comparisons
<1>4. \A k \in Kinds, v \in Views : cmp.cache[k][v] = <<>> /\ cmp.fetch[k][v] = {}
  BY <1>1
<1> QED BY <1>2, <1>3, <1>4 DEF CompareInv, CompareInit

\* A reading is of the view it was made for.
LEMMA ReadsOwn ==
    ASSUME scans \in [Views -> Nat], NEW v \in Views, NEW k
    PROVE  Read(k, v) \in Frames(v)
<1> DEFINE n == IF k = "latest" THEN 1 ELSE 2
           m == Min({n, scans[v]})
<1>1. n \in Nat /\ scans[v] \in Nat
  OBVIOUS
<1> HIDE DEF n
<1>2. m \in Nat
  <2>1. \E x \in {n, scans[v]} : \A y \in {n, scans[v]} : x <= y
    <3>1. n <= scans[v] \/ scans[v] <= n
      BY <1>1
    <3> QED BY <1>1, <3>1
  <2>2. m \in {n, scans[v]}
    BY <2>1 DEF Min
  <2> QED BY <1>1, <2>2
<1>3. Read(k, v) = [i \in 1..m |-> <<v, scans[v] + 1 - i>>]
  BY DEF Read, Newest, n
<1> HIDE DEF m
<1>4. \A i \in 1..m : <<v, scans[v] + 1 - i>> \in {v} \X Int
  BY <1>1, <1>2
<1>5. Read(k, v) \in [1..m -> {v} \X Int]
  BY <1>3, <1>4
<1> QED BY <1>2, <1>5 DEF Frames

LEMMA FramesAreRows == ASSUME NEW v \in Views PROVE Frames(v) \in SUBSET Seq(Views \X Int)
<1>1. {v} \X Int \subseteq Views \X Int
  OBVIOUS
<1>2. ASSUME NEW s \in Seq({v} \X Int) PROVE s \in Seq(Views \X Int)
  <2>1. Len(s) \in Nat /\ s \in [1..Len(s) -> {v} \X Int]
    OBVIOUS
  <2>2. s \in [1..Len(s) -> Views \X Int]
    BY <1>1, <2>1
  <2> QED BY <2>1, <2>2
<1> QED BY <1>2 DEF Frames

\* One entry of a table of tables is written.
LEMMA Written ==
    ASSUME NEW S, NEW g \in [Kinds -> [Views -> S]], NEW k \in Kinds, NEW v \in Views, NEW e \in S
    PROVE  LET h == [g EXCEPT ![k][v] = e]
           IN  /\ h \in [Kinds -> [Views -> S]]
               /\ h[k][v] = e
               /\ \A l \in Kinds, w \in Views : <<l, w>> # <<k, v>> => h[l][w] = g[l][w]
<1> DEFINE q == [g[k] EXCEPT ![v] = e]
           h == [g EXCEPT ![k] = q]
<1>1. q \in [Views -> S] /\ q[v] = e /\ \A w \in Views : w # v => q[w] = g[k][w]
  OBVIOUS
<1> HIDE DEF q
<1>2. h \in [Kinds -> [Views -> S]] /\ h[k] = q /\ \A l \in Kinds : l # k => h[l] = g[l]
  BY <1>1
<1> HIDE DEF h
<1>3. /\ h[k][v] = e
      /\ \A l \in Kinds, w \in Views : <<l, w>> # <<k, v>> => h[l][w] = g[l][w]
  BY <1>1, <1>2
<1> QED BY <1>2, <1>3 DEF h, q

\* A request is made or taken back.
LEMMA Fetched ==
    ASSUME CompareInv, NEW k \in Kinds, NEW v \in Views, NEW rows \in SUBSET Frames(v),
           NEW failures \in Nat, scans' = scans,
           cmp' = [cmp EXCEPT !.fetch = [cmp.fetch EXCEPT ![k][v] = rows], !.failures = failures]
    PROVE  CompareInv'
<1> DEFINE h == [cmp.fetch EXCEPT ![k][v] = rows]
<1>1. cmp.fetch \in [Kinds -> [Views -> SUBSET Seq(Views \X Int)]]
      /\ rows \in SUBSET Seq(Views \X Int)
  BY FramesAreRows DEF CompareInv, Comparisons
<1>2. /\ h \in [Kinds -> [Views -> SUBSET Seq(Views \X Int)]] /\ h[k][v] = rows
      /\ \A l \in Kinds, w \in Views : <<l, w>> # <<k, v>> => h[l][w] = cmp.fetch[l][w]
  BY <1>1, Written
<1> HIDE DEF h
<1>3. cmp' = [cmp EXCEPT !.fetch = h, !.failures = failures]
  BY DEF h
<1>4. cmp' \in Comparisons /\ cmp'.cache = cmp.cache /\ cmp'.fetch = h
  BY <1>2, <1>3 DEF CompareInv, Comparisons
<1> QED BY <1>2, <1>4 DEF CompareInv

LEMMA CompareStep == ASSUME CompareInv, CompareNext PROVE CompareInv'
<1>0. /\ scans \in [Views -> Nat] /\ cmp \in Comparisons /\ cmp.view \in Views
      /\ cmp.failures \in Nat /\ cmp.compareMode \in BOOLEAN /\ "latest" \in Kinds
      /\ cmp.cache \in [Kinds -> [Views -> Seq(Views \X Int)]]
      /\ cmp.fetch \in [Kinds -> [Views -> SUBSET Seq(Views \X Int)]]
      /\ \A k \in Kinds, v \in Views :
            cmp.cache[k][v] \in Frames(v) /\ cmp.fetch[k][v] \in SUBSET Frames(v)
  BY DEF CompareInv, Comparisons, Kinds
<1>1. CASE StoreScan
  <2>1. PICK v \in Views : scans' = [scans EXCEPT ![v] = @ + 1]
    BY <1>1 DEF StoreScan
  <2>2. scans' \in [Views -> Nat] /\ cmp' = cmp
    BY <1>0, <1>1, <2>1 DEF StoreScan
  <2> QED BY <2>2 DEF CompareInv
<1>2. ASSUME NEW k \in Kinds, scans' = scans,
             cmp' = [cmp EXCEPT !.fetch[k][cmp.view] = {Read(k, cmp.view)}]
      PROVE  CompareInv'
  <2>1. {Read(k, cmp.view)} \in SUBSET Frames(cmp.view)
    BY <1>0, ReadsOwn
  <2> DEFINE h == [cmp.fetch EXCEPT ![k][cmp.view] = {Read(k, cmp.view)}]
  <2>2. cmp' = [cmp EXCEPT !.fetch = h, !.failures = cmp.failures]
    <3>1. cmp' = [cmp EXCEPT !.fetch = h]
      BY <1>2
    <3> HIDE DEF h
    <3> QED BY <1>0, <3>1 DEF Comparisons
  <2>3. cmp.view \in Views /\ cmp.failures \in Nat /\ scans' = scans
    BY <1>0, <1>2
  <2> QED BY <2>1, <2>2, <2>3, Fetched
<1>3. CASE refetch
  BY <1>0, <1>2, <1>3 DEF refetch
<1>4. ASSUME NEW k \in Kinds, Ask(k) PROVE CompareInv'
  BY <1>2, <1>4 DEF Ask
<1>5. CASE ChooseView
  <2>1. PICK v \in Views : cmp' = [cmp EXCEPT !.view = v]
    BY <1>5 DEF ChooseView
  <2>2. cmp' \in Comparisons /\ cmp'.cache = cmp.cache /\ cmp'.fetch = cmp.fetch /\ scans' = scans
    BY <1>0, <1>5, <2>1 DEF ChooseView, Comparisons
  <2> QED BY <1>0, <2>2 DEF CompareInv
<1>6. CASE ToggleCompare
  <2>1. cmp' = [cmp EXCEPT !.compareMode = ~cmp.compareMode] /\ scans' = scans
        /\ (~cmp.compareMode) \in BOOLEAN
    BY <1>6 DEF ToggleCompare
  <2>2. cmp' \in Comparisons /\ cmp'.cache = cmp.cache /\ cmp'.fetch = cmp.fetch
    BY <1>0, <2>1 DEF Comparisons
  <2> QED BY <1>0, <2>1, <2>2 DEF CompareInv
<1>7. ASSUME NEW k \in Kinds, NEW v \in Views, Fail(k, v) PROVE CompareInv'
  <2>1. cmp' = [cmp EXCEPT !.fetch = [cmp.fetch EXCEPT ![k][v] = {}],
                           !.failures = cmp.failures + 1]
        /\ scans' = scans
    BY <1>7 DEF Fail
  <2>2. {} \in SUBSET Frames(v) /\ cmp.failures + 1 \in Nat
    BY <1>0
  <2> QED BY <2>1, <2>2, Fetched
<1>8. ASSUME NEW k \in Kinds, NEW v \in Views, Answer(k, v) PROVE CompareInv'
  <2>1. PICK rows \in cmp.fetch[k][v] :
          cmp' = [cmp EXCEPT !.fetch[k][v] = {},
                             !.cache[k][v] = IF k = "latest" /\ rows = <<>> THEN @ ELSE rows]
    BY <1>8 DEF Answer, Key
  <2> DEFINE kept == IF k = "latest" /\ rows = <<>> THEN cmp.cache[k][v] ELSE rows
             f == [cmp.fetch EXCEPT ![k][v] = {}]
             c == [cmp.cache EXCEPT ![k][v] = kept]
  <2>2. kept \in Frames(v) /\ kept \in Seq(Views \X Int)
    BY <1>0, FramesAreRows
  <2>3. cmp' = [cmp EXCEPT !.fetch = f, !.cache = c]
    BY <1>0, <2>1 DEF Comparisons
  <2> HIDE DEF kept
  <2>4. /\ f \in [Kinds -> [Views -> SUBSET Seq(Views \X Int)]] /\ f[k][v] = {}
        /\ \A l \in Kinds, w \in Views : <<l, w>> # <<k, v>> => f[l][w] = cmp.fetch[l][w]
    BY <1>0, Written
  <2>5. /\ c \in [Kinds -> [Views -> Seq(Views \X Int)]] /\ c[k][v] = kept
        /\ \A l \in Kinds, w \in Views : <<l, w>> # <<k, v>> => c[l][w] = cmp.cache[l][w]
    <3>1. cmp.cache \in [Kinds -> [Views -> Seq(Views \X Int)]] /\ kept \in Seq(Views \X Int)
      BY <1>0, <2>2
    <3> QED BY <3>1, Written
  <2> HIDE DEF f, c
  <2>6. cmp' \in Comparisons /\ cmp'.cache = c /\ cmp'.fetch = f
    BY <1>0, <2>3, <2>4, <2>5 DEF Comparisons
  <2>7. \A l \in Kinds, w \in Views :
           c[l][w] \in Frames(w) /\ f[l][w] \in SUBSET Frames(w)
    <3>1. SUFFICES ASSUME NEW l \in Kinds, NEW w \in Views
                   PROVE  c[l][w] \in Frames(w) /\ f[l][w] \in SUBSET Frames(w)
      OBVIOUS
    <3>2. CASE l = k /\ w = v
      BY <2>2, <2>4, <2>5, <3>2
    <3>3. CASE <<l, w>> # <<k, v>>
      <4>1. c[l][w] = cmp.cache[l][w] /\ f[l][w] = cmp.fetch[l][w]
        BY <2>4, <2>5, <3>3
      <4> QED BY <1>0, <4>1
    <3> QED BY <3>2, <3>3
  <2>8. scans' = scans
    BY <1>8 DEF Answer
  <2> QED BY <1>0, <2>6, <2>7, <2>8 DEF CompareInv
<1> QED BY <1>1, <1>3, <1>4, <1>5, <1>6, <1>7, <1>8 DEF CompareNext

LEMMA SidesShow == ASSUME CompareInv PROVE SidesOfThisView
<1> DEFINE v == cmp.view
<1>1. v \in Views /\ Cached("latest") \in Frames(v) /\ Cached("recent") \in Frames(v)
  BY DEF CompareInv, Comparisons, Cached, Key, Kinds
<1>2. \A s \in Frames(v) : \A i \in 1..Len(s) : s[i] \in {v} \X Int
  BY DEF Frames
<1>3. Current # <<>> => Current[1][1] = v
  <2>1. Current # <<>> => Len(Current) \in Nat /\ 1 \in 1..Len(Current)
    BY <1>1 DEF Current, Frames
  <2> QED BY <1>1, <1>2, <2>1 DEF Current
<1>4. Previous # <<>> => Previous[1][1] = v
  <2>1. ASSUME Len(Cached("recent")) = 2 PROVE Cached("recent")[2] \in {v} \X Int
    BY <1>1, <1>2, <2>1
  <2> QED BY <2>1 DEF Previous
<1> QED BY <1>3, <1>4 DEF SidesOfThisView

-----------------------------------------------------------------------------
(* The three parts side by side: a step of one leaves the others alone. *)

LiveInv == SelectionInv /\ FetchInv /\ ControlsInv /\ CompareInv

LEMMA LiveInitially == ASSUME Init PROVE LiveInv
BY SelectionInitially, FetchInitially, ControlsInitially, CompareInitially
DEF Init, LiveInit, LiveInv

LEMMA LiveStaysAlone ==
    ASSUME LiveInv
    PROVE  /\ UNCHANGED liveVars => SelectionInv' /\ FetchInv'
           /\ UNCHANGED ctl => ControlsInv'
           /\ UNCHANGED cmpVars => CompareInv'
<1>1. ASSUME UNCHANGED liveVars PROVE SelectionInv' /\ FetchInv'
  <2>1. UNCHANGED selectionVars /\ UNCHANGED fetchVars
    BY <1>1 DEF liveVars
  <2>2. SelectionInv'
    BY <2>1 DEF LiveInv, SelectionInv, selectionVars, GoesBandServable
  <2>3. FollowInv'
    BY <2>1 DEF LiveInv, FetchInv, FollowInv, fetchVars
  <2>4. UNCHANGED <<selected, scan, jobs, posts>>
    BY <2>1 DEF fetchVars, selectionVars
  <2> QED BY <2>2, <2>3, <2>4, NothingAsked DEF LiveInv
<1>2. UNCHANGED ctl => ControlsInv'
  BY DEF LiveInv, ControlsInv
<1>3. UNCHANGED cmpVars => CompareInv'
  BY DEF LiveInv, CompareInv, cmpVars
<1> QED BY <1>1, <1>2, <1>3

\* What a step does to each part.
LEMMA LiveStep ==
    ASSUME LiveInv, [Next]_vars
    PROVE  /\ LiveInv'
           /\ [FollowsOwn]_liveVars
           /\ [Stays(ctl')]_ctl
<1>1. CASE focus \in {"select", "fetch"} /\ LiveNext /\ UNCHANGED <<ctl, cmpVars>>
  <2>1. FetchInv' /\ FollowsOwn
    BY <1>1, FetchStep, FollowsOwnStep DEF LiveInv
  <2>2. SelectionInv'
    <3>1. CASE SelectionMoves \/ ModeMoves
      BY <3>1, SelectionStep DEF LiveInv, SelectionMoves, ModeMoves
    <3>2. CASE FetchNext
      <4>1. UNCHANGED selectionVars
        BY <3>2 DEF FetchNext, FetchQueries, FollowJob, NewScan, CatalogArrives, FrameArrives,
             Poll, Release, fetchNow, AutoFetchEffect, CoolDown, JobRuns, PostSucceeds, PostFails
      <4> QED BY <4>1 DEF LiveInv, SelectionInv, selectionVars, GoesBandServable
    <3> QED BY <1>1, <3>1, <3>2 DEF LiveNext
  <2> QED BY <1>1, <2>1, <2>2, LiveStaysAlone DEF LiveInv
<1>2. CASE focus = "controls" /\ ControlsNext /\ UNCHANGED <<liveVars, cmpVars>>
  BY <1>2, ControlsStep, LiveStaysAlone DEF LiveInv
<1>3. CASE focus = "compare" /\ CompareNext /\ UNCHANGED <<liveVars, ctl>>
  BY <1>3, CompareStep, LiveStaysAlone DEF LiveInv
<1>4. CASE UNCHANGED vars
  BY <1>4, LiveStaysAlone DEF LiveInv, vars
<1> QED BY <1>1, <1>2, <1>3, <1>4 DEF Next

LEMMA LiveInvariant == Spec => []LiveInv
<1>1. Init => LiveInv
  BY LiveInitially
<1>2. LiveInv /\ [Next]_vars => LiveInv'
  BY LiveStep
<1> QED BY <1>1, <1>2, PTL DEF Spec

\* The selection, what is shown of it and the job that is followed stay in their
\* types, and no more fetches are asked for than were made.
THEOREM LiveTyped == Spec => []LiveTypeOK
<1>1. LiveInv => LiveTypeOK
  BY LiveShows DEF LiveInv
<1> QED BY <1>1, LiveInvariant, PTL

\* However the satellite, the sector and the band were chosen, monitor presets
\* included, once the effects have run a GOES view has no sector of Himawari, and a
\* band that the API lists and that the sector has, M1 excepted (LiveTab.tsx).
THEOREM BandsCorrect == Spec => []GoesBandServable
<1>1. LiveInv => GoesBandServable
  BY LiveShows DEF LiveInv
<1> QED BY <1>1, LiveInvariant, PTL

\* A job that an effect has asked for is followed by the view it was asked for, in
\* whatever order the selection changes and the requests are answered.
THEOREM AutoJobCorrect == Spec => AutoJobOfThisView
<1>1. LiveInv /\ [Next]_vars => [FollowsOwn]_liveVars
  BY LiveStep
<1> QED BY <1>1, LiveInvariant, PTL DEF Spec, AutoJobOfThisView, FollowsOwn

\* Whatever timers, touches and the browser do, what covers the picture has its timer,
\* one pull reads once, the full-screen button tells the truth, and the controls of a
\* desktop are hidden by a tap alone.
THEOREM ControlsCorrect == Spec => ControlsAreTrue
<1>1. LiveInv => NothingStaysUp /\ RefreshingIsOneRead /\ FullscreenIsDocument
  BY ControlsShow DEF LiveInv
<1>2. LiveInv /\ [Next]_vars =>
        [ctl.visible /\ ~ctl'.visible /\ ~ctl'.mobile => ctl.tap = "mobile" /\ ctl'.tap = "none"]_ctl
  BY LiveStep DEF Stays
<1> QED BY <1>1, <1>2, LiveInvariant, PTL DEF Spec, ControlsAreTrue, HiddenByTapOnly

\* Both sides of the comparison are of the satellite, sector and band that are chosen,
\* whatever was chosen while their answers were under way.
THEOREM SidesCorrect == Spec => []SidesOfThisView
<1>1. LiveInv => SidesOfThisView
  BY SidesShow DEF LiveInv
<1> QED BY <1>1, LiveInvariant, PTL
=============================================================================
