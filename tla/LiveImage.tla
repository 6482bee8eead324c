-------------------------------- MODULE LiveImage -------------------------------
(***************************************************************************)
(* The picture of the live view: components/GoesData/CdnImage.tsx with the *)
(* cache of liveTabUtils.ts, which remembers the last picture that was     *)
(* loaded for what is looked at.  A picture that does not load gives way   *)
(* to the remembered one, then to a placeholder that tries again.          *)
(***************************************************************************)
EXTENDS Integers

CONSTANT Urls  \* the pictures' addresses, one for each scan
ASSUME ImageAssumption == Urls # {}

VARIABLES
    image,      \* the component: [src, displaySrc, error, loaded, usingCached, dismissed]
    loading,    \* the browser is loading displaySrc
    cached,     \* the remembered address, "none" at first
    reachable   \* the addresses that answer
imageVars == <<image, loading, cached, reachable>>

\* An address, as it is or with the mark of a retry.
Plain(url) == [url |-> url, retried |-> FALSE]
Reset(src) ==
    [src |-> src, displaySrc |-> Plain(src), error |-> FALSE, loaded |-> FALSE,
     usingCached |-> FALSE, dismissed |-> FALSE]

\* The view opens, or has had its picture loaded.
ImageInit ==
    /\ \E src \in Urls :
         \/ image = Reset(src) /\ loading = TRUE /\ cached \in Urls \cup {"none"}
         \/ /\ image = [Reset(src) EXCEPT !.loaded = TRUE]
            /\ loading = FALSE /\ cached = src
    /\ reachable \in SUBSET Urls

\* An address is loaded when it is new to the <img>, and when the <img> is.
Draws(next) ==
    /\ image' = next
    /\ loading' = (~next.error /\ (loading \/ image.error \/ next.displaySrc # image.displaySrc))
    /\ UNCHANGED reachable

\* A newer scan, or another choice that is remembered apart.
NewSource ==
    /\ \E src \in Urls \ {image.src} : Draws(Reset(src))
    /\ UNCHANGED cached

\* The component is mounted again: what is remembered stays.
Remount ==
    /\ image' = Reset(image.src) /\ loading' = TRUE
    /\ UNCHANGED <<cached, reachable>>

\* The source is remembered whenever it was loaded.
handleLoad ==
    /\ loading /\ image.displaySrc.url \in reachable
    /\ image' = [image EXCEPT !.loaded = TRUE] /\ loading' = FALSE
    /\ cached' = IF image.usingCached THEN cached ELSE image.src
    /\ UNCHANGED reachable

TriesTheCache == ~image.usingCached /\ cached # "none"

handleError ==
    /\ loading /\ image.displaySrc.url \notin reachable
    /\ IF TriesTheCache
       THEN LET next == [image EXCEPT !.usingCached = TRUE, !.displaySrc = Plain(cached),
                                      !.error = FALSE, !.loaded = FALSE]
            IN  /\ image' = next
                /\ loading' = (next.displaySrc # image.displaySrc)
                /\ UNCHANGED reachable
       ELSE /\ image' = [image EXCEPT !.error = TRUE] /\ loading' = FALSE
            /\ UNCHANGED reachable
    /\ UNCHANGED cached

Retried == [Reset(image.src) EXCEPT !.displaySrc.retried = TRUE]

\* After 10 s.
AutoRetry ==
    /\ image.error
    /\ Draws(Retried)
    /\ UNCHANGED cached

DismissBanner ==
    /\ image.usingCached /\ ~image.error /\ ~image.dismissed
    /\ Draws([image EXCEPT !.dismissed = TRUE])
    /\ UNCHANGED cached

NetworkTurns ==
    /\ reachable' \in SUBSET Urls \ {reachable}
    /\ UNCHANGED <<image, loading, cached>>

ImageNext ==
    \/ NewSource \/ Remount \/ handleLoad \/ handleError \/ AutoRetry \/ DismissBanner
    \/ NetworkTurns

-----------------------------------------------------------------------------
(* Properties. *)

\* The banner is over the remembered picture and over no other, whatever fails,
\* is tried again or is chosen meanwhile.
BannerMeansCached ==
    IF image.usingCached THEN image.displaySrc = Plain(cached)
    ELSE image.displaySrc.url = image.src

\* The remembered address became what is to be shown while it was on the screen
\* or had just failed: it is not loaded a second time.
NotAskedAgain ==
    /\ ~loading /\ ~image.error /\ image.src = cached
    /\ image.displaySrc = Plain(cached)

\* When all addresses answer at last the picture is shown, but for that case.
ShownWhenReachable ==
    (<>[](reachable = Urls) /\ <>[][~NewSource /\ ~Remount]_imageVars)
        => <>[](image.loaded \/ NotAskedAgain)
=============================================================================
