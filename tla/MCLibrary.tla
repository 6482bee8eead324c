------------------------------- MODULE MCLibrary ------------------------------
(* Model-checking instance of the library: browsing, viewing, zooming and    *)
(* playing frames, the map, the uploaded images, the presets of animations   *)
(* and the animations, and the schedule the live view makes.  One of them is *)
(* used in a behaviour; they share the page's requests.                      *)
EXTENDS FrameBrowser, FrameViewers, ImageZoom, ImageShelf, AnimationShelf,
        AutoFetchSchedule

VARIABLE focus  \* the component that is used
vars == <<focus, reqVars, browserVars, viewerVars, zoom, player, shelfVars, mapVars,
          animVars, emptyVars>>

\* One request is left to each but the presets: what they show is large.
Init ==
    /\ focus \in {"browse", "view", "zoom", "play", "shelf", "map",
                 "presets", "films", "schedule"}
    /\ reqs = {} /\ left = FALSE
    /\ sent = IF focus = "presets" THEN 0 ELSE MaxRequests - 1
    /\ BrowserInit /\ ViewersInit /\ ZoomInit /\ PlayerInit /\ ShelfInit /\ MapInit
    /\ AnimInit /\ EmptyInit
    /\ focus # "zoom" => zoom.minScale = 1 /\ zoom.cover
    /\ focus # "view" => gallery.preview

Next ==
    /\ UNCHANGED focus
    /\ \/ /\ focus = "browse" /\ BrowserNext
          /\ UNCHANGED <<viewerVars, zoom, player, shelfVars, mapVars, animVars, emptyVars>>
       \/ /\ focus = "view" /\ ViewersNext
          /\ UNCHANGED <<browserVars, zoom, player, shelfVars, mapVars, animVars, emptyVars>>
       \/ /\ focus = "zoom" /\ ZoomNext
          /\ UNCHANGED <<reqVars, browserVars, viewerVars, player, shelfVars, mapVars, animVars, emptyVars>>
       \/ /\ focus = "play" /\ PlayerNext
          /\ UNCHANGED <<reqVars, browserVars, viewerVars, zoom, shelfVars, mapVars, animVars, emptyVars>>
       \/ /\ focus = "shelf" /\ ShelfNext
          /\ UNCHANGED <<browserVars, viewerVars, zoom, player, mapVars, animVars, emptyVars>>
       \/ /\ focus = "map" /\ MapNext
          /\ UNCHANGED <<browserVars, viewerVars, zoom, player, shelfVars, animVars, emptyVars>>
       \/ /\ \/ focus = "presets" /\ PresetNext
             \/ focus = "films" /\ FilmNext
          /\ UNCHANGED <<browserVars, viewerVars, zoom, player, shelfVars, mapVars, emptyVars>>
       \/ /\ focus = "schedule" /\ EmptyNext
          /\ UNCHANGED <<reqVars, browserVars, viewerVars, zoom, player, shelfVars, mapVars, animVars>>

\* The interval of the player ticks.
Spec == Init /\ [][Next]_vars /\ WF_player(focus = "play" /\ Tick)

\* Types of the state of the library.
LibraryTypeOK == BrowserTypeOK /\ ViewersTypeOK /\ ZoomTypeOK /\ ShelfTypeOK

\* However a picture was zoomed and moved and its container turned, even between a
\* place's computation and its use: no bar inside it, and none beside it if zoomed.
PictureFits == NoGapBesidePicture /\ CoversWhenZoomed

\* Requests overlap, fail and lose their answers: rows still tell what became of
\* their files, lists of presets and animations what is stored, the map the frame
\* that is chosen, and no view is scheduled twice.
PageAsStored == RowsAreTrue /\ ShelfAsStored /\ MapShowsChoice /\ ScheduledOnce
=============================================================================
