----------------------------- MODULE LiveControls ------------------------------
(***************************************************************************)
(* Fingers, keys and timers of the live view: the overlay with its         *)
(* controls (LiveTab/useLiveOverlay.ts), the tap that is one or half of    *)
(* two (hooks/useDoubleTap.ts), pulling to refresh                         *)
(* (hooks/usePullToRefresh.ts), full screen and the hint about zoom        *)
(* (LiveTab/useZoomState.ts, useLiveHooks.ts) and the round button of      *)
(* small windows (MobileControlsFab.tsx).  A window is mobile or not and   *)
(* may become the other.  How a picture is zoomed is ImageZoom's.          *)
(***************************************************************************)
EXTENDS Integers, Sequences

CONSTANT MaxAsks  \* requests for full screen in flight: a bound
ASSUME ControlsAssumption == MaxAsks \in Nat \ {0}

VARIABLE ctl

\* The effect of useLiveOverlay has run: a mobile window hides the overlay in 5 s.
ControlsInit ==
    \E mobile, seen \in BOOLEAN :
        ctl = [mobile |-> mobile, visible |-> TRUE, hideTimer |-> mobile,
               tap |-> "none",        \* the single tap's timer: the layout it was set in
               recent |-> FALSE,      \* the last tap is less than the delay ago
               zoomed |-> FALSE, hint |-> FALSE, hintTimer |-> FALSE,
               pulling |-> FALSE, dist |-> "none", isRefreshing |-> FALSE, refetches |-> 0,
               screen |-> FALSE,      \* document.fullscreenElement
               isFullscreen |-> FALSE, asks |-> <<>>, refused |-> FALSE,
               fab |-> FALSE, swipeSeen |-> seen]

Layout == IF ctl.mobile THEN "mobile" ELSE "desktop"

-----------------------------------------------------------------------------
(* The overlay. *)

\* resetOverlayTimer as a layout's render has it.
resetOverlayTimer(c, mobile) ==
    [c EXCEPT !.hideTimer = mobile, !.visible = ~mobile \/ @]

\* Mutant: the effect has no cleanup.
LeaveKeepingTimer(c) == c

\* The cleanup of a mobile layout's effect.
LeaveLayout(c) == [c EXCEPT !.hideTimer = FALSE]

\* The window is resized or turned; the hint about swiping is the mobile layout's.
ResizeWindow ==
    LET left == IF ctl.mobile THEN LeaveLayout(ctl) ELSE ctl
    IN  ctl' = IF ctl.mobile THEN [left EXCEPT !.mobile = FALSE, !.visible = TRUE]
               ELSE resetOverlayTimer([left EXCEPT !.mobile = TRUE], TRUE)

HideTimerFires ==
    /\ ctl.hideTimer
    /\ ctl' = [ctl EXCEPT !.visible = FALSE, !.hideTimer = FALSE]

\* toggleOverlay of a mobile layout.
toggleOverlay(c) ==
    IF c.visible THEN [c EXCEPT !.visible = FALSE]
    ELSE resetOverlayTimer([c EXCEPT !.visible = TRUE], TRUE)

\* handleContainerMouseMove.
MouseMoves ==
    /\ ~ctl.mobile /\ ~ctl.visible
    /\ ctl' = resetOverlayTimer([ctl EXCEPT !.visible = TRUE], FALSE)

-----------------------------------------------------------------------------
(* Zoom, as far as the rest depends on it, and its hint. *)

\* The effect of useZoomHint follows a change.
Zoom(c, on) ==
    IF on = c.zoomed THEN c
    ELSE [c EXCEPT !.zoomed = on, !.hint = on, !.hintTimer = on]

HintTimerFires ==
    /\ ctl.hintTimer
    /\ ctl' = [ctl EXCEPT !.hint = FALSE, !.hintTimer = FALSE]

\* Wheel, pinch and the keys + - 0; a change of satellite, sector or band resets.
ZoomOtherwise == ctl' = Zoom(ctl, ~ctl.zoomed)

-----------------------------------------------------------------------------
(* Taps.  The image area hears the clicks of every control inside it, and   *)
(* Enter and Space before the click they make of a control.                 *)

\* A second tap within the delay zooms, except in the millisecond of the first.
\* What runs when the timer fires is what the render at the tap had.
Tapped(c) ==
    {[c EXCEPT !.recent = TRUE, !.tap = Layout]} \cup
    (IF c.recent THEN {[Zoom(c, ~c.zoomed) EXCEPT !.tap = "none"]} ELSE {})

TapDelayEnds == ctl.recent /\ ctl' = [ctl EXCEPT !.recent = FALSE]

TapTimerFires ==
    /\ ctl.tap # "none" /\ ~ctl.recent
    /\ LET fired == [ctl EXCEPT !.tap = "none"]
       IN  ctl' = IF ctl.tap = "mobile" THEN toggleOverlay(fired) ELSE fired

\* A press beside the round button closes its menu unless it has just opened.
TapImage ==
    \E c \in Tapped(ctl), open \in {FALSE, ctl.fab} : ctl' = [c EXCEPT !.fab = open]

\* Enter or Space, or a control of the overlay that is others' business.
TapKey == ctl' \in Tapped(ctl)

\* The round button, and Watch in its menu: neither is there in a zoomed picture.
PressFab ==
    /\ ctl.mobile /\ ~ctl.zoomed
    /\ \E c \in Tapped(ctl) : ctl' = [c EXCEPT !.fab = ~@]

PressWatch ==
    /\ ctl.mobile /\ ~ctl.zoomed /\ ctl.fab
    /\ \E c \in Tapped(ctl) : ctl' = [c EXCEPT !.fab = FALSE]

\* The hint about swiping is over: it is not shown in this browser again.
SwipeHintEnds ==
    /\ ctl.mobile /\ ~ctl.swipeSeen
    /\ ctl' = [ctl EXCEPT !.swipeSeen = TRUE]

-----------------------------------------------------------------------------
(* Pulling to refresh. *)

MayStart == ~ctl.zoomed /\ ~ctl.isRefreshing

\* A touch that begins below the top leaves what an earlier one left.
PullStart ==
    \E top \in BOOLEAN :
        ctl' = [ctl EXCEPT !.pulling = IF MayStart THEN @ \/ top ELSE FALSE]

\* Short of the threshold or beyond it; a finger that goes up changes nothing.
\* A gesture the browser takes over ends without a call: nothing is undone.
PullMove ==
    /\ ctl.pulling
    /\ \E dist \in {"short", "far"} : ctl' = [ctl EXCEPT !.dist = dist]

\* Beyond the threshold the newest frame is read, and the countdown starts anew.
PullEnd ==
    /\ ctl.pulling
    /\ ctl' = IF ctl.dist = "far"
              THEN [ctl EXCEPT !.pulling = FALSE, !.isRefreshing = TRUE, !.refetches = @ + 1]
              ELSE [ctl EXCEPT !.pulling = FALSE, !.dist = "none"]

\* With a frame or without: refetch does not throw.
Refreshed ==
    /\ ctl.refetches > 0
    /\ ctl' = [ctl EXCEPT !.refetches = @ - 1, !.isRefreshing = FALSE, !.dist = "none"]

-----------------------------------------------------------------------------
(* Full screen. *)

\* fullscreenchange.
FullscreenChange(c, on) ==
    Zoom([c EXCEPT !.screen = on, !.isFullscreen = on, !.refused = FALSE], on /\ c.zoomed)

\* The button or the key f: what is asked for follows from the document of now.
toggleFullscreen ==
    /\ Len(ctl.asks) < MaxAsks
    /\ \E c \in Tapped(ctl) \cup {ctl} :
        ctl' = [c EXCEPT !.asks = Append(@, ctl.screen)]

\* The browser grants or refuses; a refusal is tried once more under another name,
\* which few browsers have, and passed over.  To leave is refused when one is out.
Answered ==
    /\ ctl.asks # <<>>
    /\ LET was == Head(ctl.asks)
           rest == [ctl EXCEPT !.asks = Tail(@)]
           granted == IF ctl.screen = was THEN FullscreenChange(rest, ~was) ELSE rest
       IN  \/ ctl' = [granted EXCEPT !.isFullscreen = ~was]
           \/ ~was /\ ctl' = [rest EXCEPT !.isFullscreen = TRUE, !.refused = @ \/ ~ctl.screen]

\* Escape, or whatever else ends it.
LeaveFullscreen == ctl.screen /\ ctl' = FullscreenChange(ctl, FALSE)

ControlsNext ==
    \/ ResizeWindow \/ HideTimerFires \/ MouseMoves \/ HintTimerFires \/ ZoomOtherwise
    \/ TapDelayEnds \/ TapTimerFires \/ TapImage \/ TapKey \/ PressFab \/ PressWatch
    \/ SwipeHintEnds \/ PullStart \/ PullMove \/ PullEnd \/ Refreshed
    \/ toggleFullscreen \/ Answered \/ LeaveFullscreen

-----------------------------------------------------------------------------
(* Properties. *)

\* Nothing that covers the picture stays for good: on a mobile window the overlay
\* has its timer for as long as it is shown, and the hint about zoom has its own
\* for as long as it is shown, which it never is over a picture that is not zoomed.
NothingStaysUp ==
    /\ ctl.mobile /\ ctl.visible => ctl.hideTimer
    /\ ctl.hint => ctl.hintTimer /\ ctl.zoomed

\* The controls of a desktop window are hidden by nothing but a tap that was made
\* while the window was mobile: not by a timer an earlier layout has started.
HiddenByTapOnly ==
    [][ctl.visible /\ ~ctl'.visible /\ ~ctl'.mobile => ctl.tap = "mobile" /\ ctl'.tap = "none"]_ctl

\* "Refreshing..." is shown exactly while one pull's reading is under way.
RefreshingIsOneRead ==
    /\ ctl.refetches <= 1
    /\ ctl.isRefreshing <=> ctl.refetches = 1

\* The button says what the document is, except after the browser has refused full
\* screen: then it says "Exit" until the document changes.
FullscreenIsDocument == ctl.isFullscreen # ctl.screen => ctl.refused
=============================================================================
