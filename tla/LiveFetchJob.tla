----------------------------- MODULE LiveFetchJob -----------------------------
(***************************************************************************)
(* Fetching from the live view: hooks/useLiveFetchJob.ts with the queries  *)
(* of LiveTab/useLiveQueries.ts and the places of the view that offer      *)
(* "Fetch now".  A fetch is a POST that makes a job on the server; its     *)
(* answer makes the view follow that job by polling until it releases it.  *)
(* Scan times are 1, 2, ...; 0 is none.                                    *)
(***************************************************************************)
EXTENDS Integers, FiniteSets, LiveSelection

CONSTANTS
    MaxScan,  \* scans the satellites make
    MaxPosts  \* fetches the view asks for

ASSUME LiveFetchAssumption == MaxScan \in Nat \ {0} /\ MaxPosts \in Nat \ {0}

VARIABLES
    scan,            \* the newest scan of the satellites
    jobs,            \* the fetch jobs: [for, at, status, own] by id 1, 2, ...
    posts,           \* POSTs without an answer: [id, for, at, auto, cancelled]
    catalogLatest,   \* scan time of the catalogue entry shown
    frame,           \* capture time of the frame shown
    activeJobId,     \* the job followed, 0 for null
    activeJob,       \* its status as last polled, "none" before
    lastAutoFetch,   \* lastAutoFetchTimeRef
    cooled,          \* 30 seconds have passed since lastAutoFetchMsRef
    effectDue,       \* a dependency of the auto-fetch effect has changed
    lastFetchFailed

fetchVars == <<scan, jobs, posts, catalogLatest, frame, activeJobId, activeJob,
               lastAutoFetch, cooled, effectDue, lastFetchFailed>>
serverVars == <<scan, jobs>>
autoVars == <<lastAutoFetch, cooled>>

liveVars == <<selectionVars, fetchVars>>

Ended == {"completed", "completed_partial", "failed", "cancelled"}

\* What a schedule has stored before, as a job that the view does not follow.
Scheduled ==
    [for |-> [satellite |-> "GOES-19", sector |-> "CONUS", band |-> "C02"],
     at |-> 1, status |-> "completed", own |-> FALSE]

FetchInit ==
    /\ scan = 1
    /\ jobs \in {<<>>, <<Scheduled>>}
    /\ posts = {}
    /\ catalogLatest = 0
    /\ frame = 0
    /\ activeJobId = 0
    /\ activeJob = "none"
    /\ lastAutoFetch = 0
    /\ cooled = TRUE
    /\ effectDue = FALSE
    /\ lastFetchFailed = FALSE

Asked == Cardinality({j \in DOMAIN jobs : jobs[j].own}) + Cardinality(posts)

\* A POST for the selection shown; two taps make two of them.
Post(at, auto) ==
    [id |-> CHOOSE i \in 1..MaxPosts : \A p \in posts : p.id # i,
     for |-> selected, at |-> at, auto |-> auto, cancelled |-> FALSE]

\* A dependency of the auto-fetch effect changes: the effect is cleaned up, so
\* that the answer to its POST is ignored, and it runs again.
Depend(newPosts) ==
    /\ posts' = {[p EXCEPT !.cancelled = p.auto] : p \in newPosts}
    /\ effectDue' = TRUE

\* The newest frame a completed job has stored for a selection.
Stored(selection) ==
    LET at == {jobs[j].at : j \in {i \in DOMAIN jobs :
                 jobs[i].for = selection /\ jobs[i].status = "completed"}}
    IN  IF at = {} THEN 0 ELSE CHOOSE t \in at : \A u \in at : u <= t

\* The effect that derives lastFetchFailed from the job polled and the frame.
DeriveFailure(status, newFrame, before) ==
    IF status = "failed" \/ (status = "completed" /\ newFrame = 0) THEN TRUE
    ELSE IF newFrame # 0 THEN FALSE ELSE before

-----------------------------------------------------------------------------
(* The world: scans, and the jobs' runs. *)

NewScan ==
    /\ scan < MaxScan
    /\ scan' = scan + 1
    /\ UNCHANGED <<selectionVars, jobs, posts, catalogLatest, frame, activeJobId,
                   activeJob, autoVars, effectDue, lastFetchFailed>>

JobRuns(j) ==
    /\ jobs[j].status \notin Ended
    /\ \E status \in Ended : jobs' = [jobs EXCEPT ![j].status = status]
    /\ UNCHANGED <<selectionVars, scan, posts, catalogLatest, frame, activeJobId,
                   activeJob, autoVars, effectDue, lastFetchFailed>>

-----------------------------------------------------------------------------
(* The queries, keyed by the selection and polled every refreshInterval. *)

\* The newest scan of the catalogue.
CatalogArrives ==
    /\ selected.satellite # ""
    /\ catalogLatest # scan
    /\ catalogLatest' = scan
    /\ Depend(posts)
    /\ UNCHANGED <<selectionVars, serverVars, frame, activeJobId, activeJob,
                   autoVars, lastFetchFailed>>

\* The newest frame stored, if there is one.
FrameArrives ==
    /\ selected.satellite # ""
    /\ Stored(selected) > frame
    /\ frame' = Stored(selected)
    /\ lastFetchFailed' = DeriveFailure(activeJob, frame', lastFetchFailed)
    /\ Depend(posts)
    /\ UNCHANGED <<selectionVars, serverVars, catalogLatest, activeJobId, activeJob,
                   autoVars>>

\* The queries of another selection: what was cached for it, or nothing yet.
ChangeKey ==
    IF selected' = selected
      THEN UNCHANGED <<posts, effectDue, frame, catalogLatest, lastFetchFailed>>
      ELSE /\ Depend(posts)
           /\ frame' \in {0, Stored(selected')}
           /\ catalogLatest' \in {0, catalogLatest}
           /\ lastFetchFailed' = DeriveFailure(activeJob, frame', FALSE)

\* Every 2 seconds while a job is followed.
Poll ==
    /\ activeJobId # 0
    /\ activeJob # jobs[activeJobId].status
    /\ activeJob' = jobs[activeJobId].status
    /\ lastFetchFailed' = DeriveFailure(activeJob', frame, lastFetchFailed)
    /\ UNCHANGED <<selectionVars, serverVars, posts, catalogLatest, frame,
                   activeJobId, autoVars, effectDue>>

Releases == activeJob \in {"completed", "failed"}

\* Two seconds after the job was seen to end the view lets go of it.
Release ==
    /\ Releases
    /\ activeJobId' = 0
    /\ activeJob' = "none"
    /\ lastFetchFailed' = DeriveFailure("none", frame, lastFetchFailed)
    /\ Depend(posts)
    /\ UNCHANGED <<selectionVars, serverVars, catalogLatest, frame, autoVars>>

-----------------------------------------------------------------------------
(* Asking for a fetch. *)

\* The view has an image: a frame of its own, or one of the CDN.
imageUrl == frame # 0 \/ (selected.satellite \in apiSatellites /\ selected.sector = "CONUS")

\* Without an image: the placeholder of Himawari or of a sector that the CDN
\* does not serve (GeoColor's has no button).
ShowsPlaceholder ==
    /\ ~imageUrl
    /\ isHimawariSatellite(selected.satellite) \/ selected.band # "GEOCOLOR"

\* Over a frame: the banner that it is old or behind the catalogue.
ShowsStaleBanner ==
    /\ frame # 0
    /\ isHimawariSatellite(selected.satellite) \/ selected.band # "GEOCOLOR"

\* Each has a "Fetch now" that waits for the job followed.
OffersFetch == activeJobId = 0 /\ (ShowsPlaceholder \/ ShowsStaleBanner)

Target == IF catalogLatest # 0 THEN catalogLatest ELSE scan

fetchNow ==
    /\ selected.satellite # "" /\ rendered
    /\ OffersFetch
    /\ selected.band # "GEOCOLOR"
    /\ Asked < MaxPosts
    /\ posts' = posts \cup {Post(Target, FALSE)}
    /\ UNCHANGED <<selectionVars, serverVars, catalogLatest, frame, activeJobId,
                   activeJob, autoVars, effectDue, lastFetchFailed>>

shouldAutoFetch ==
    /\ autoFetch /\ catalogLatest # 0 /\ frame # 0 /\ activeJobId = 0
    /\ catalogLatest > frame
    /\ lastAutoFetch # catalogLatest
    /\ cooled

AutoFetchEffect ==
    /\ effectDue /\ rendered
    /\ effectDue' = FALSE
    /\ IF selected.band # "GEOCOLOR" /\ shouldAutoFetch
         THEN /\ Asked < MaxPosts
              /\ lastAutoFetch' = catalogLatest
              /\ cooled' = FALSE
              /\ posts' = posts \cup {Post(catalogLatest, TRUE)}
         ELSE UNCHANGED <<lastAutoFetch, cooled, posts>>
    /\ UNCHANGED <<selectionVars, serverVars, catalogLatest, frame, activeJobId,
                   activeJob, lastFetchFailed>>

CoolDown ==
    /\ ~cooled /\ cooled' = TRUE
    /\ UNCHANGED <<selectionVars, serverVars, posts, catalogLatest, frame,
                   activeJobId, activeJob, lastAutoFetch, effectDue, lastFetchFailed>>

\* Mutant: the answer to a cancelled effect is taken as well.
IgnoresNone(p) == FALSE

\* An auto-fetch whose effect was cleaned up in the meantime is not followed.
Ignores(p) == p.cancelled

\* The satellite has the sector and the band.
Accepts(selection) ==
    /\ selection.sector \in getSectorsForSatellite(selection.satellite)
    /\ selection.band \in Range(getBandsForSatellite(selection.satellite))

\* The job is made and its id answered.
PostSucceeds(p) ==
    /\ p \in posts /\ Accepts(p.for)
    /\ jobs' = Append(jobs, [for |-> p.for, at |-> p.at, status |-> "pending", own |-> TRUE])
    /\ IF Ignores(p)
         THEN /\ posts' = posts \ {p}
              /\ UNCHANGED <<activeJobId, activeJob, effectDue, lastFetchFailed>>
         ELSE /\ activeJobId' = Len(jobs')
              /\ activeJob' = "none"
              /\ lastFetchFailed' = DeriveFailure("none", frame, lastFetchFailed)
              /\ Depend(posts \ {p})
    /\ UNCHANGED <<selectionVars, scan, catalogLatest, frame, autoVars>>

PostFails(p) ==
    /\ p \in posts
    /\ posts' = posts \ {p}
    /\ UNCHANGED <<selectionVars, serverVars, catalogLatest, frame, activeJobId,
                   activeJob, autoVars, effectDue, lastFetchFailed>>

-----------------------------------------------------------------------------

FetchQueries == CatalogArrives \/ FrameArrives
FollowJob == Poll \/ Release

FetchNext ==
    \/ NewScan \/ FetchQueries \/ FollowJob
    \/ fetchNow \/ AutoFetchEffect \/ CoolDown
    \/ \E j \in DOMAIN jobs : JobRuns(j)
    \/ \E p \in posts : PostSucceeds(p) \/ PostFails(p)

\* The selection moves with the queries that depend on it; switching auto-fetch
\* makes its effect run.
SelectionMoves ==
    /\ ProductsArrive \/ ChangeSelection \/ RunSelectionEffects
    /\ ChangeKey
    /\ UNCHANGED <<serverVars, activeJobId, activeJob, autoVars>>

ModeMoves ==
    /\ ChangeMode
    /\ Depend(posts)
    /\ UNCHANGED <<serverVars, catalogLatest, frame, activeJobId, activeJob,
                   autoVars, lastFetchFailed>>

LiveInit == SelectionInit /\ FetchInit
LiveNext == SelectionMoves \/ ModeMoves \/ FetchNext
LiveSpec == LiveInit /\ [][LiveNext]_liveVars

\* Effects run after a render, timers and polls go on, the server answers and
\* its jobs end; users and satellites owe nothing.
LiveFairSpec ==
    /\ LiveSpec
    /\ WF_liveVars(RunSelectionEffects /\ SelectionMoves)
    /\ WF_liveVars(FollowJob)
    /\ WF_liveVars(\E j \in DOMAIN jobs : JobRuns(j))

-----------------------------------------------------------------------------
(* Properties. *)

\* Types of the live view's state.
LiveTypeOK ==
    /\ selected.satellite \in {"", "GOES-19", "Himawari-9"}
    /\ selected.sector \in {"CONUS", "Mesoscale1", "FULL", "M1", "FLDK", "Japan", "Target"}
    /\ selected.band \in {"GEOCOLOR", "C02", "TrueColor", "B03", "B13"}
    /\ products \in BOOLEAN /\ rendered \in BOOLEAN
    /\ monitoring \in BOOLEAN /\ autoFetch \in BOOLEAN
    /\ frame \in 0..scan /\ catalogLatest \in 0..scan
    /\ Asked <= MaxPosts
    /\ activeJobId \in 0..Len(jobs)
    /\ activeJob \in {"none", "pending"} \cup Ended

\* A job that is followed and ends completed or failed is let go of, and the
\* buttons and the auto-fetch that wait for it come back.  One that ends in
\* another way (completed_partial, cancelled) is not let go of: they do not.
EndedJobReleased ==
    \A j \in 1..(MaxPosts + 1) :
        (activeJobId = j /\ jobs[j].status \in {"completed", "failed"})
            ~> activeJobId # j

\* The job an auto-fetch made is followed only by the view it was made for:
\* an answer that comes after the selection has changed is dropped.
AutoJobOfThisView ==
    [][\A p \in posts : p.auto /\ activeJobId' # activeJobId
                          /\ activeJobId' # 0 /\ p \notin posts'
                        => p.for = selected]_liveVars

=============================================================================
