----------------------------- MODULE FrameViewers -----------------------------
(***************************************************************************)
(* Looking at frames one by one: components/GoesData/FrameGallery.tsx with *)
(* the viewer and the comparison it opens (ImageViewer.tsx,                *)
(* CompareView.tsx), FramePreviewModal.tsx, which also cuts a rectangle    *)
(* out of a frame and saves it as a preset, AnimationPlayer.tsx, which     *)
(* plays a collection, and MapTab.tsx, which draws a frame on a map.  The  *)
(* frames come and go at the server; what is looked at stays open over a   *)
(* list that moves.                                                        *)
(***************************************************************************)
EXTENDS Requests, SequencesExt

CONSTANTS
    GalleryFrames,  \* frames there can be, the highest number the newest
    PageSize,       \* frames of a page of the gallery (24 in the code)
    Side,           \* largest coordinate of a pointer on a frame
    PlayerFrames    \* frames of the collection that is played
ASSUME ViewersAssumption == {GalleryFrames, PageSize, Side, PlayerFrames} \subseteq Nat \ {0}

VARIABLES
    gallery,  \* the list, and what is looked at
    crop,     \* the preview's rectangle
    rows,     \* the server's frames
    player    \* AnimationPlayer
viewerVars == <<gallery, crop, rows>>

NoRect == <<>>
\* viewer is the frame looked at; preview tells the library, whose frames are
\* looked at in the preview, from the gallery, for good.
ViewersInit ==
    /\ rows = 1..GalleryFrames
    /\ \E preview \in BOOLEAN :
         gallery = [page |-> 1, items |-> <<>>, total |-> 0, viewer |-> 0, preview |-> preview,
                    comparing |-> FALSE, compare |-> <<>>]
    /\ crop = [start |-> NoRect, rect |-> NoRect, dragging |-> FALSE, form |-> FALSE]

totalPages == (gallery.total + PageSize - 1) \div PageSize
Closed == gallery.viewer = 0 /\ ~(gallery.comparing /\ Len(gallery.compare) = 2)
items == gallery.items

-----------------------------------------------------------------------------
(* The gallery and its lists. *)

\* Frames are fetched and deleted elsewhere.
RowsChange ==
    /\ \E f \in 1..GalleryFrames : rows' = (rows \ {f}) \cup ({f} \ rows)
    /\ UNCHANGED <<gallery, crop, reqVars>>

\* The page's query, the first time or again; a frame being looked at stays.
LoadPage ==
    LET newest == NewestFirst(rows)
        first == (gallery.page - 1) * PageSize + 1
    IN  /\ gallery' = [gallery EXCEPT !.total = Cardinality(rows),
              !.items = SubSeq(newest, first, Min({first + PageSize - 1, Len(newest)}))]
        /\ UNCHANGED <<crop, rows, reqVars>>

Turned(page) == [gallery EXCEPT !.page = page, !.items = <<>>, !.total = 0]

\* Another satellite or band: the first page of its list, empty until loaded.
PickFilter ==
    /\ Closed /\ ~gallery.preview
    /\ gallery' = Turned(1)
    /\ UNCHANGED <<crop, rows, reqVars>>

\* The buttons are there when there are pages to turn to: after deletions have left
\* one page, a gallery beyond it stays empty until a filter is picked.
TurnPage ==
    /\ Closed /\ ~gallery.preview /\ totalPages > 1
    /\ \/ gallery.page > 1 /\ gallery' = Turned(gallery.page - 1)
       \/ gallery.page < totalPages /\ gallery' = Turned(gallery.page + 1)
    /\ UNCHANGED <<crop, rows, reqVars>>

\* toggleCompareSelect: the third frame pushes the first one out.
Picked(frames, f) ==
    IF f \in ToSet(frames)
    THEN RemoveAt(frames, CHOOSE i \in DOMAIN frames : frames[i] = f)
    ELSE IF Len(frames) >= 2 THEN <<frames[2], f>> ELSE Append(frames, f)

\* A click on a frame: to compare, to view, or to preview.
ClickFrame ==
    /\ Closed
    /\ \E f \in ToSet(items) :
         gallery' = IF gallery.comparing THEN [gallery EXCEPT !.compare = Picked(@, f)]
                    ELSE [gallery EXCEPT !.viewer = f]
    /\ UNCHANGED <<crop, rows, reqVars>>

\* The button of the compare mode keeps what was picked.
CompareMode ==
    /\ Closed /\ ~gallery.preview
    /\ gallery' = [gallery EXCEPT !.comparing = ~@]
    /\ UNCHANGED <<crop, rows, reqVars>>

CloseComparison ==
    /\ gallery.comparing /\ Len(gallery.compare) = 2
    /\ gallery' = [gallery EXCEPT !.comparing = FALSE, !.compare = <<>>]
    /\ UNCHANGED <<crop, rows, reqVars>>

-----------------------------------------------------------------------------
(* The viewer and the preview. *)

\* Mutant: a frame that is gone counts as the one that took its place.
PlaceTaken == IF \E i \in DOMAIN items : items[i] <= gallery.viewer
              THEN CHOOSE i \in DOMAIN items : /\ items[i] <= gallery.viewer
                                               /\ \A j \in 1..(i - 1) : items[j] > gallery.viewer
              ELSE 0

Position == IF gallery.viewer \in ToSet(items)
            THEN CHOOSE i \in DOMAIN items : items[i] = gallery.viewer ELSE 0

\* Only a frame of the list.
Neighbour(i) == IF i \in DOMAIN items THEN items[i] ELSE gallery.viewer

\* goNext, goPrev of the viewer: a frame that is gone from the list has position
\* 0 here, and goes on with the first.
Navigate ==
    /\ gallery.viewer # 0 /\ ~gallery.preview
    /\ \E step \in {0 - 1, 1} :
         gallery' = [gallery EXCEPT !.viewer = Neighbour(Position + step)]
    /\ UNCHANGED <<crop, rows, reqVars>>

\* The preview stays where it is then.  Its rectangle is kept for the next frame.
NavigatePreview ==
    /\ gallery.preview /\ Position # 0
    /\ \E step \in {0 - 1, 1} :
         gallery' = [gallery EXCEPT !.viewer = Neighbour(Position + step)]
    /\ UNCHANGED <<crop, rows, reqVars>>

CloseViewer ==
    /\ gallery.viewer # 0
    /\ gallery' = [gallery EXCEPT !.viewer = 0]
    /\ crop' = [crop EXCEPT !.start = NoRect, !.rect = NoRect, !.dragging = FALSE, !.form = FALSE]
    /\ reqs' = {[q EXCEPT !.here = FALSE] : q \in reqs}
    /\ UNCHANGED <<rows, sent, left>>

\* Mutant: the pointer is the corner of the rectangle, wherever the drag began.
CornerAt(from, to) == to

Corner(from, to) == <<Min({from[1], to[1]}), Min({from[2], to[2]})>>

Abs(n) == IF n < 0 THEN 0 - n ELSE n
Between(from, to) ==
    <<Corner(from, to)[1], Corner(from, to)[2], Abs(to[1] - from[1]), Abs(to[2] - from[2])>>

\* Mouse down, move, and up or out of the picture; Escape and Clear.
DragCrop ==
    /\ gallery.preview /\ gallery.viewer # 0
    /\ \/ \E p \in (0..Side) \X (0..Side) :
            \/ /\ ~crop.dragging
               /\ crop' = [crop EXCEPT !.start = p, !.rect = NoRect, !.dragging = TRUE]
            \/ crop.dragging /\ crop' = [crop EXCEPT !.rect = Between(crop.start, p)]
       \/ crop.dragging /\ crop' = [crop EXCEPT !.start = NoRect, !.dragging = FALSE]
       \/ crop.rect # NoRect /\ crop' = [crop EXCEPT !.rect = NoRect]
    /\ UNCHANGED <<gallery, rows, reqVars>>

\* A saved preset: here, the whole frame.
applyCropPreset ==
    /\ gallery.preview /\ gallery.viewer # 0
    /\ crop' = [crop EXCEPT !.rect = <<0, 0, Side, Side>>]
    /\ UNCHANGED <<gallery, rows, reqVars>>

\* The form needs a rectangle to be seen, and waits for its request.
SaveCrop ==
    /\ gallery.viewer # 0 /\ crop.rect # NoRect
    /\ \/ crop' = [crop EXCEPT !.form = ~@] /\ UNCHANGED reqVars
       \/ crop.form /\ ~isPending("crop") /\ Send("crop", 0, "none") /\ UNCHANGED crop
    /\ UNCHANGED <<gallery, rows>>

AnswerCrop(q) ==
    /\ q.op = "crop"
    /\ \/ \E state \in {"ok", "failed"} : Respond(q, state) /\ UNCHANGED crop
       \/ /\ Settle(q)
          /\ crop' = [crop EXCEPT !.form = @ /\ ~(q.here /\ q.state = "ok")]
    /\ UNCHANGED <<gallery, rows>>

ViewersNext ==
    \/ RowsChange \/ LoadPage \/ PickFilter \/ TurnPage
    \/ ClickFrame \/ CompareMode \/ CloseComparison
    \/ Navigate \/ NavigatePreview \/ CloseViewer \/ DragCrop \/ applyCropPreset \/ SaveCrop
    \/ \E q \in reqs : AnswerCrop(q)

-----------------------------------------------------------------------------
(* Playing a collection. *)

\* Speeds are left out: a tick is one interval.  index counts from 0; screen is the document's: a window, being made full, full.
PlayerInit == player = [index |-> 0, playing |-> FALSE, loop |-> TRUE, speed |-> 1,
                        fullscreen |-> FALSE, screen |-> "window"]

\* Mutant: the interval keeps ticking at the end without a loop.
KeepsPlaying(atEnd) == player.playing

\* The end is noticed one tick after the last frame was reached.
PlaysOn(atEnd) == player.playing /\ (player.loop \/ ~atEnd)

Tick ==
    /\ player.playing
    /\ LET atEnd == player.index >= PlayerFrames - 1
       IN  player' = [player EXCEPT !.playing = PlaysOn(atEnd),
                        !.index = IF ~atEnd THEN @ + 1 ELSE IF player.loop THEN 0 ELSE @]

Forward(i) == IF i + 1 < PlayerFrames THEN i + 1 ELSE PlayerFrames - 1
Back(i) == IF i > 0 THEN i - 1 ELSE 0

\* Buttons, arrow keys and scrubber stop the playback.
StepTo ==
    \E i \in {Forward(player.index), Back(player.index)} \cup 0..(PlayerFrames - 1) :
        player' = [player EXCEPT !.index = i, !.playing = FALSE]

PlayerButtons ==
    \/ player' = [player EXCEPT !.playing = ~@]
    \/ player' = [player EXCEPT !.loop = ~@]
    \/ player' = [player EXCEPT !.speed = 3 - @]

\* The request may be refused: the player then only looks full.  The browser
\* leaves on its own as well.
toggleFullscreen ==
    player' = [player EXCEPT !.fullscreen = ~@,
                 !.screen = IF ~player.fullscreen /\ @ = "window" THEN "asked"
                            ELSE IF player.fullscreen /\ @ = "full" THEN "leaving" ELSE @]

FullscreenChange ==
    \/ /\ player.screen = "asked"
       /\ \E screen \in {"full", "window"} : player' = [player EXCEPT !.screen = screen]
    \/ /\ player.screen \in {"full", "leaving"}
       /\ player' = [player EXCEPT !.screen = "window", !.fullscreen = FALSE]

\* Escape out of the full screen; otherwise it closes the player, as Close does.
EscapePlayer ==
    player' = IF player.fullscreen THEN [player EXCEPT !.fullscreen = FALSE]
              ELSE [player EXCEPT !.index = 0, !.playing = FALSE, !.loop = TRUE, !.speed = 1]

PlayerNext ==
    Tick \/ StepTo \/ PlayerButtons \/ toggleFullscreen \/ FullscreenChange \/ EscapePlayer

-----------------------------------------------------------------------------
(* The map: the latest frame of the chosen satellite, sector and band is     *)
(* drawn over the ground the sector is known to cover; it is read once per   *)
(* choice and cached.                                                        *)

VARIABLES
    map,        \* the choice, and the frames cached by choice
    overlaying  \* choices whose frame is being read
mapVars == <<map, overlaying>>

\* Two satellites with known ground, and one without.
Satellites == {"GOES-18", "GOES-19", "Himawari-9"}
Sectors == {"FullDisk", "CONUS"}
MapChoices == Satellites \X Sectors

SectorBounds == [c \in {"GOES-18", "GOES-19"} \X Sectors |-> c]
Fallback == <<"GOES-16", "CONUS">>
bounds(choice) == IF choice \in DOMAIN SectorBounds THEN SectorBounds[choice] ELSE Fallback

MapInit ==
    /\ map = [choice |-> <<"GOES-19", "CONUS">>, frames |-> {}, failed |-> {}]
    /\ overlaying = {<<"GOES-19", "CONUS">>}

\* Satellite or sector; a frame that is not cached is read.
ChooseMap ==
    \E choice \in MapChoices :
        /\ choice # map.choice /\ (choice[1] = map.choice[1] \/ choice[2] = map.choice[2])
        /\ map' = [map EXCEPT !.choice = choice]
        /\ overlaying' = IF choice \in {e.key : e \in map.frames} THEN overlaying
                         ELSE overlaying \cup {choice}
        /\ UNCHANGED reqVars

\* Mutant: the frame is kept under the choice of now, whatever it was read for.
KeyOfNow(choice) == map.choice

Key(choice) == choice

\* The answer to one of the reads in flight, in any order; not retried.
OverlayRead(choice) ==
    /\ overlaying' = overlaying \ {choice}
    /\ \/ map' = [map EXCEPT !.frames = {e \in @ : e.key # Key(choice)} \cup
                                          {[key |-> Key(choice), of |-> choice]},
                             !.failed = @ \ {choice}]
       \/ map' = [map EXCEPT !.failed = @ \cup {choice}]
    /\ UNCHANGED reqVars

MapNext == ChooseMap \/ \E choice \in overlaying : OverlayRead(choice)

\* The overlays drawn: none while the frame is read, or after a failure.
Drawn == {e \in map.frames : e.key = map.choice}

-----------------------------------------------------------------------------
(* Properties. *)

\* A comparison is of two frames, each once.
ComparesTwo == Len(gallery.compare) <= 2 /\ IsInjective(gallery.compare)

ViewersTypeOK ==
    /\ Len(items) <= PageSize /\ gallery.page \in 1..GalleryFrames
    /\ gallery.viewer \in 0..GalleryFrames /\ player.index \in 0..(PlayerFrames - 1)
    /\ ComparesTwo
    /\ crop.rect = NoRect \/ /\ \A i \in 1..4 : crop.rect[i] \in 0..Side
                             /\ crop.rect[1] + crop.rect[3] <= Side
                             /\ crop.rect[2] + crop.rect[4] <= Side

\* The viewer's next and previous frames, over a list that frames come to and go
\* from: the step is to a frame of the list as it now is, and passes none of it
\* over.  From a frame that is gone the code starts anew with the newest.
InBetween(f, from, to) == (from < f /\ f < to) \/ (to < f /\ f < from)
Unskipped ==
    LET from == gallery.viewer
        to == gallery'.viewer
    IN  from # 0 /\ to \notin {0, from} =>
          /\ to \in ToSet(items)
          /\ IF from \in ToSet(items) THEN ~\E f \in ToSet(items) : InBetween(f, from, to)
             ELSE ~\E f \in ToSet(items) : f > to
NoFrameSkipped == [][Unskipped]_viewerVars

\* Without a loop, playback comes to its end by itself, and the button with it.
PlaybackEnds == player.playing /\ ~player.loop ~> ~player.playing \/ player.loop

\* Choices and answers may come in any order: the map reads the frame of the
\* choice of now, has failed to, or draws it, over the ground of its sector where
\* that is known.
MapShowsChoice ==
    \/ map.choice \in overlaying \cup map.failed
    \/ Drawn # {} /\ \A e \in Drawn : e.of = map.choice /\ bounds(map.choice) \in {e.of, Fallback}
=============================================================================
