----------------------------- MODULE AnimationStudio ----------------------------
(***************************************************************************)
(* The animation page: components/Animation/AnimateTab with its form,      *)
(* chips, batch and preview, within the ErrorBoundary of its route.  The   *)
(* server and the page disagree on two shapes: the preview of a range has  *)
(* no "frames" (models/animation.py, FrameRangePreview), which the page    *)
(* takes the length of, and animations of a range need a "start_time",     *)
(* which the page calls "start_date".                                      *)
(***************************************************************************)
EXTENDS Requests

CONSTANTS
    StudioSatellites, \* SATELLITES
    FirstSatellite,   \* SATELLITES[0]
    MaxItems          \* items of a batch: a bound
ASSUME StudioAssumption ==
    {FirstSatellite, "GOES-19"} \subseteq StudioSatellites /\ MaxItems \in Nat

VARIABLES
    studio,       \* the page
    preview,      \* the session's preview: its range, and whether it was read
    productsRead, \* the products were read
    default       \* the default satellite they name
studioVars == <<studio, preview, productsRead, default>>

\* What chooses the frames.  Bands and sectors are left out: they are chosen as
\* satellites are and, but for a chip, kept when the satellite changes.
Ranges == {"last hour", "other", "cleared"}
DEFAULT_CONFIG == [satellite |-> FirstSatellite, range |-> "last hour"]
Fresh == [page |-> "open", config |-> DEFAULT_CONFIG, chosen |-> "none",
          sourceMode |-> "filters", collectionId |-> "", items |-> 0]
Away == [Fresh EXCEPT !.page = "away"]

StudioInit ==
    /\ studio = Away
    /\ preview = [of |-> {}, state |-> "none"]
    /\ productsRead \in BOOLEAN /\ default \in StudioSatellites

previewEnabled ==
    IF studio.sourceMode = "collection" THEN studio.collectionId # ""
    ELSE studio.config.range # "cleared"

-----------------------------------------------------------------------------
(* Rendering. *)

\* FrameRangePreview takes the length of the frames of what was read.
FrameRangePreview(page, read) ==
    /\ page.page = "open" /\ page.sourceMode = "filters"
    /\ page.config \in read

\* A page that has read the preview of its range is replaced by the error
\* boundary, which reports the error.
ErrorBoundary(page, read) ==
    IF FrameRangePreview(page, read) THEN [Fresh EXCEPT !.page = "crashed"] ELSE page

TakesDefault(page) ==
    IF page.config.satellite = FirstSatellite THEN [page EXCEPT !.config.satellite = default]
    ELSE page

\* The effect that follows the first products, and each mount that has them.
WithDefault(page) == IF page.page = "open" THEN TakesDefault(page) ELSE page

Read == IF preview.state = "read" THEN preview.of ELSE {}
Mounted ==
    LET first == ErrorBoundary(Fresh, Read)
    IN  IF productsRead THEN ErrorBoundary(WithDefault(first), Read) ELSE first

ShowsPage(page) == studio' = ErrorBoundary(page, Read)

-----------------------------------------------------------------------------
(* The page. *)

\* The page is opened, and left: its requests go on unobserved.
OpenStudio ==
    /\ studio.page = "away" /\ studio' = Mounted
    /\ UNCHANGED <<preview, productsRead, default, reqVars>>
LeaveStudio ==
    /\ studio.page # "away" /\ studio' = Away
    /\ Unmount /\ UNCHANGED <<preview, productsRead, default>>

\* "Try Again" mounts the page anew.
handleRetry ==
    /\ studio.page = "crashed" /\ studio' = Mounted
    /\ Unmount /\ UNCHANGED <<preview, productsRead, default>>

ProductsArrive ==
    /\ ~productsRead /\ productsRead' = TRUE
    /\ ShowsPage(WithDefault(studio))
    /\ UNCHANGED <<preview, default, reqVars>>

\* The form of the filters.
updateConfig ==
    /\ studio.page = "open" /\ studio.sourceMode = "filters"
    /\ \/ \E satellite \in StudioSatellites :
            ShowsPage([studio EXCEPT !.config.satellite = satellite, !.chosen = satellite])
       \/ \E range \in Ranges : ShowsPage([studio EXCEPT !.config.range = range])
    /\ UNCHANGED <<preview, productsRead, default, reqVars>>

\* A chip asks for the default satellite the products name, or for GOES-19.
handleQuickStartChip ==
    /\ studio.page = "open"
    /\ LET satellite == IF productsRead THEN default ELSE "GOES-19"
       IN  ShowsPage([studio EXCEPT !.sourceMode = "filters", !.chosen = satellite,
                    !.config = [satellite |-> satellite, range |-> "other"]])
    /\ UNCHANGED <<preview, productsRead, default, reqVars>>

setSourceMode ==
    /\ studio.page = "open"
    /\ \/ \E mode \in {"filters", "collection"} : ShowsPage([studio EXCEPT !.sourceMode = mode])
       \/ /\ studio.sourceMode = "collection"
          /\ \E id \in {"", "kept"} : ShowsPage([studio EXCEPT !.collectionId = id])
    /\ UNCHANGED <<preview, productsRead, default, reqVars>>

\* The preview of the range is read as soon as the range is shown; one in a
\* session, a bound.
AskPreview ==
    /\ studio.page = "open" /\ studio.sourceMode = "filters" /\ previewEnabled
    /\ preview.state = "none"
    /\ preview' = [of |-> {studio.config}, state |-> "asked"]
    /\ UNCHANGED <<studio, productsRead, default, reqVars>>

AnswerPreview ==
    /\ preview.state = "asked"
    /\ \/ preview' = [preview EXCEPT !.state = "read"] /\ studio' = ErrorBoundary(studio, preview.of)
       \/ preview' = [preview EXCEPT !.state = "failed"] /\ UNCHANGED studio
    /\ UNCHANGED <<productsRead, default, reqVars>>

\* Generate Animation: what the preview counted is not in what was read.
Generate ==
    /\ studio.page = "open" /\ previewEnabled /\ ~isPending("generate")
    /\ Send("generate", studio.sourceMode, "none")
    /\ UNCHANGED studioVars

BatchPanel ==
    /\ studio.page = "open"
    /\ \/ /\ studio.items < MaxItems
          /\ studio' = [studio EXCEPT !.items = @ + 1] /\ UNCHANGED reqVars
       \/ /\ studio.items > 0
          /\ studio' = [studio EXCEPT !.items = @ - 1] /\ UNCHANGED reqVars
       \/ /\ studio.items > 0 /\ ~isPending("batch") /\ UNCHANGED studio
          /\ Send("batch", "filters", "none")
    /\ UNCHANGED <<preview, productsRead, default>>

\* The server: a collection may become an animation; a range never does, alone
\* or in a batch, as its request is not understood.  The answer is only told.
ServeAnimation(q) ==
    /\ \E state \in {"failed"} \cup IF q.id = "collection" THEN {"ok"} ELSE {} :
         Respond(q, state)
    /\ UNCHANGED studioVars
AnswerAnimation(q) == Settle(q) /\ UNCHANGED studioVars

StudioNext ==
    \/ OpenStudio \/ LeaveStudio \/ handleRetry \/ ProductsArrive
    \/ updateConfig \/ handleQuickStartChip \/ setSourceMode \/ AskPreview \/ AnswerPreview
    \/ Generate \/ BatchPanel
    \/ \E q \in reqs : ServeAnimation(q) \/ AnswerAnimation(q)

-----------------------------------------------------------------------------
(* Properties. *)

\* Products that come late do not take back the satellite the user has chosen;
\* the first of the list cannot be told from no choice.
ChosenSatelliteKept ==
    studio.page = "open" /\ studio.chosen \notin {"none", FirstSatellite}
        => studio.config.satellite = studio.chosen

\* Previews are drawn: with the answer the tests of the page give it,
\* "{ frames: [], total_count: 10, capture_interval_minutes: 10 }"
\* (test/AnimateTab.test.tsx:89), no range breaks the page.
PreviewIsDrawn == studio.page # "crashed"
=============================================================================
