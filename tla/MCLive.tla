-------------------------------- MODULE MCLive --------------------------------
(* Model-checking instance of the live view: what it shows and fetches, its  *)
(* controls, and the frames it compares.  One of them is used in a behaviour.*)
EXTENDS LiveFetchJob, LiveControls, LiveCompare

VARIABLE focus  \* the part that is used
vars == <<focus, liveVars, ctl, cmpVars>>

\* The parts that are not used start in one state.
Init ==
    /\ focus \in {"select", "fetch", "controls", "compare"}
    /\ LiveInit /\ ControlsInit /\ CompareInit
    /\ (jobs = <<>>) = (focus # "fetch")
    /\ focus # "controls" => ctl.mobile /\ ctl.swipeSeen
    /\ focus # "compare" => cmp.view = CHOOSE v \in Views : TRUE

\* Where every choice of a view is tried nothing is fetched; fetches are tried over
\* these, without monitor mode, after a schedule has stored a frame: bounds.
FetchViews ==
    [satellite : {"", "GOES-19"}, sector : {"CONUS", "Mesoscale1"}, band : {"GEOCOLOR", "C02"}]

Next ==
    /\ UNCHANGED focus
    /\ \/ /\ focus \in {"select", "fetch"} /\ LiveNext /\ UNCHANGED <<ctl, cmpVars>>
          /\ IF focus = "select" THEN posts' = {} ELSE selected' \in FetchViews /\ ~monitoring'
       \/ focus = "controls" /\ ControlsNext /\ UNCHANGED <<liveVars, cmpVars>>
       \/ focus = "compare" /\ CompareNext /\ UNCHANGED <<liveVars, ctl>>

\* The live view's own steps and its jobs, as in LiveFairSpec; the readings of
\* the frames that are compared, as in CompareFairness.
Spec ==
    /\ Init /\ [][Next]_vars
    /\ WF_liveVars(focus = "fetch" /\ RunSelectionEffects /\ SelectionMoves)
    /\ WF_liveVars(focus = "fetch" /\ FollowJob)
    /\ WF_liveVars(focus = "fetch" /\ \E j \in DOMAIN jobs : JobRuns(j))
    /\ \A k \in Kinds :
          /\ WF_cmpVars(focus = "compare" /\ Ask(k))
          /\ WF_cmpVars(focus = "compare" /\ Answer(k, cmp.view))

\* The job of an auto-fetch is followed by the view it was made for alone, and a job
\* that completes or fails is let go of: the view does not wait for it for ever, with
\* another made in the meantime or not.  (For one that ends in part or cancelled it
\* does.)
FollowsTheRightJob == AutoJobOfThisView /\ EndedJobReleased

\* Timers, touches and the browser act on the controls in any order: what covers
\* the picture has something that will take it away, a desktop's controls are hidden
\* by no timer, one pull reads once, and the full-screen button tells the truth.
ControlsAreTrue ==
    [](NothingStaysUp /\ RefreshingIsOneRead /\ FullscreenIsDocument) /\ HiddenByTapOnly

\* The comparison is of the view that is chosen, and comes to be of its newest frames.
ComparisonIsOfThisView == []SidesOfThisView /\ ComparesNewestTwo
=============================================================================
