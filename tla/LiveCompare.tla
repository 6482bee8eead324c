------------------------------ MODULE LiveCompare ------------------------------
(***************************************************************************)
(* Comparing the newest frame with the one before it: the queries of       *)
(* LiveTab/useLiveQueries.ts and what resolveImageUrls, ImagePanelContent  *)
(* and CompareSlider make of them.  The newest frame and the newest two    *)
(* are queries of their own, each with its interval and its cache, which   *)
(* is kept by satellite, sector and band: a view.                          *)
(***************************************************************************)
EXTENDS Integers, Sequences, FiniteSetsExt

CONSTANTS
    Views,
    MaxScans,     \* scans that are stored in the end: a bound
    MaxFailures   \* readings that fail: a bound
ASSUME CompareAssumption == MaxScans \in Nat /\ MaxFailures \in Nat

VARIABLES
    scans,  \* the server's frames: how many there are of each view
    cmp     \* the choice, compare mode, the caches, and the answers under way
cmpVars == <<scans, cmp>>

Kinds == {"latest", "recent"}

CompareInit ==
    /\ scans = [v \in Views |-> 0]
    /\ \E view \in Views :
          cmp = [view |-> view, compareMode |-> FALSE,
                 cache |-> [k \in Kinds |-> [v \in Views |-> <<>>]],
                 fetch |-> [k \in Kinds |-> [v \in Views |-> {}]],
                 failures |-> 0]

-----------------------------------------------------------------------------
(* The server: the newest frame, and the newest two of the list of frames. *)

StoreScan ==
    /\ MapThenSumSet(LAMBDA v : scans[v], Views) < MaxScans
    /\ \E v \in Views : scans' = [scans EXCEPT ![v] = @ + 1]
    /\ UNCHANGED cmp

Newest(v, count) == [i \in 1..Min({count, scans[v]}) |-> <<v, scans[v] + 1 - i>>]
Read(k, v) == Newest(v, IF k = "latest" THEN 1 ELSE 2)

-----------------------------------------------------------------------------
(* The queries. *)

\* queryKey.
Key(k, v) == v
Cached(k) == cmp.cache[k][Key(k, cmp.view)]

\* Mutant: the frames to compare are read when there are none yet, and then no more.
DueOnce(k) == k = "latest" \/ Cached(k) = <<>>

\* The interval; a choice or a toggle that finds the cache stale.
Due(k) == TRUE

\* enabled.
Enabled(k) == k = "latest" \/ cmp.compareMode

\* One request per key.  Asking and reading are one step: what may lie between
\* them is as if it had come before the question.
Ask(k) ==
    /\ Enabled(k) /\ Due(k) /\ cmp.fetch[k][cmp.view] = {}
    /\ cmp' = [cmp EXCEPT !.fetch[k][cmp.view] = {Read(k, cmp.view)}]
    /\ UNCHANGED scans

\* "Refresh now", a pull or the end of a job: the newest frame alone, and an
\* answer that is under way is not waited for.
refetch ==
    /\ cmp' = [cmp EXCEPT !.fetch["latest"][cmp.view] = {Read("latest", cmp.view)}]
    /\ UNCHANGED scans

\* No frame is an error to the query of the newest one: what it had stays.
Answer(k, v) ==
    /\ \E rows \in cmp.fetch[k][v] :
          cmp' = [cmp EXCEPT !.fetch[k][v] = {},
                             !.cache[k][Key(k, v)] =
                                 IF k = "latest" /\ rows = <<>> THEN @ ELSE rows]
    /\ UNCHANGED scans

\* A failure, also after what is retried.
Fail(k, v) ==
    /\ cmp.fetch[k][v] # {} /\ cmp.failures < MaxFailures
    /\ cmp' = [cmp EXCEPT !.fetch[k][v] = {}, !.failures = @ + 1]
    /\ UNCHANGED scans

-----------------------------------------------------------------------------
(* The page. *)

ChooseView ==
    /\ \E v \in Views \ {cmp.view} : cmp' = [cmp EXCEPT !.view = v]
    /\ UNCHANGED scans

\* The button or the key c.
ToggleCompare ==
    /\ cmp' = [cmp EXCEPT !.compareMode = ~@]
    /\ UNCHANGED scans

\* resolveImageUrls: without a frame the picture is from outside, or there is none;
\* without a second one the slider says that there is nothing to compare.
Current == Cached("latest")
Previous == IF cmp.compareMode /\ Len(Cached("recent")) = 2 THEN <<Cached("recent")[2]>> ELSE <<>>

CompareNext ==
    \/ StoreScan \/ refetch \/ ChooseView \/ ToggleCompare
    \/ \E k \in Kinds : Ask(k)
    \/ \E k \in Kinds, v \in Views : Answer(k, v) \/ Fail(k, v)

\* An interval comes again, and what is asked is answered.
CompareFairness ==
    \A k \in Kinds : WF_cmpVars(Ask(k)) /\ WF_cmpVars(Answer(k, cmp.view))

-----------------------------------------------------------------------------
(* Properties. *)

\* Both sides of the slider are of the satellite, sector and band that are chosen,
\* whatever was chosen while their answers were under way.
SidesOfThisView ==
    \A side \in {Current, Previous} : side # <<>> => side[1][1] = cmp.view

\* While one view is compared, the slider comes to show its newest two frames, in
\* their order, although they are read apart and either may be the older reading.
ComparesNewestTwo ==
    \A v \in Views :
        <>[](cmp.compareMode /\ cmp.view = v) =>
            <>[](Current = Newest(v, 1) /\ Current \o Previous = Newest(v, 2))
=============================================================================
