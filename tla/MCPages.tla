-------------------------------- MODULE MCPages -------------------------------
(* Model-checking instance of the pages around the frames: the calls every    *)
(* page makes, the monitor of a job, the settings, the frame around the       *)
(* pages, the errors, the animation page, and the picture of the live view.   *)
(* One of them is used in a behaviour.                                        *)
EXTENDS ResilientMutation, JobMonitor, SettingsPage, AppShell, ErrorReports,
        AnimationStudio, LiveImage

VARIABLE focus  \* the component that is used
vars == <<focus, reqVars, mutationVars, monitorVars, settingsVars, shellVars, reportVars,
          studioVars, imageVars>>

Components == {"calls", "monitor", "settings", "shell", "errors", "studio", "image"}

\* The components that are not used start in one state.
Init ==
    /\ focus \in Components
    /\ RequestsInit /\ MutationInit /\ MonitorInit /\ SettingsInit /\ ShellInit
    /\ ReportsInit /\ StudioInit /\ ImageInit
    /\ focus # "monitor" => job = "pending"
    /\ focus # "settings" => settings = [f \in Fields |-> CHOOSE v \in Valid : TRUE]
    /\ focus # "shell" => system = "dark" /\ server = CHOOSE v \in Versions : TRUE
    /\ focus # "studio" => productsRead /\ default = FirstSatellite
    /\ focus # "image" => image.loaded /\ reachable = Urls
                          /\ image.src = CHOOSE u \in Urls : TRUE

Next ==
    /\ UNCHANGED focus
    /\ \/ /\ focus = "calls" /\ MutationNext
          /\ UNCHANGED <<reqVars, monitorVars, settingsVars, shellVars, reportVars,
                         studioVars, imageVars>>
       \/ /\ focus = "monitor" /\ MonitorNext
          /\ UNCHANGED <<mutationVars, settingsVars, shellVars, reportVars,
                         studioVars, imageVars>>
       \/ /\ focus = "settings" /\ SettingsNext
          /\ UNCHANGED <<mutationVars, monitorVars, shellVars, reportVars,
                         studioVars, imageVars>>
       \/ /\ focus = "shell" /\ ShellNext
          /\ UNCHANGED <<reqVars, mutationVars, monitorVars, settingsVars, reportVars,
                         studioVars, imageVars>>
       \/ /\ focus = "errors" /\ ReportsNext
          /\ UNCHANGED <<reqVars, mutationVars, monitorVars, settingsVars, shellVars,
                         studioVars, imageVars>>
       \/ /\ focus = "studio" /\ StudioNext
          /\ UNCHANGED <<mutationVars, monitorVars, settingsVars, shellVars, reportVars,
                         imageVars>>
       \/ /\ focus = "image" /\ ImageNext
          /\ UNCHANGED <<reqVars, mutationVars, monitorVars, settingsVars, shellVars,
                         reportVars, studioVars>>

\* The fairness that MonitorFairness and ReportsFairness state, and that of a
\* picture: the browser tells how loading it went, and its timer fires.
Spec ==
    /\ Init /\ [][Next]_vars
    /\ WF_<<monitorVars, reqVars>>(focus = "monitor" /\ PollJob)
    /\ WF_<<monitorVars, reqVars>>(focus = "monitor" /\ ServeJob)
    /\ WF_<<monitorVars, reqVars>>(focus = "monitor" /\ AnswerJob)
    /\ WF_<<monitorVars, reqVars>>(focus = "monitor" /\ onmessage)
    /\ WF_reportVars(focus = "errors" /\ AutoRefresh)
    /\ SF_reportVars(focus = "errors" /\ \E r \in dash.reads : ServeErrors(r))
    /\ \A n \in 0..MaxReads :
          WF_reportVars(focus = "errors" /\ \E r \in dash.reads : r.n = n /\ AnswerErrors(r))
    /\ WF_imageVars(focus = "image" /\ (handleLoad \/ handleError))
    /\ WF_imageVars(focus = "image" /\ AutoRetry)

\* A call that is retried, given up, carried out late or let through by a breaker
\* that opens meanwhile makes no job after its answer was stored, and counts once
\* in its breaker.
CallsCountOnce == NoJobAfterAnswer /\ BreakerCountsFailures

\* What a page shows is what it says it is, while that changes under it: a field
\* nobody touched has the stored value, a picture without the banner is the chosen
\* one, and the satellite is the user's choice.
ShownIsTrue == UntouchedAsShown /\ [](BannerMeansCached /\ ChosenSatelliteKept)

\* What was missed, lost or overtaken is made good: the monitor comes to show its
\* job and the dashboard the log, errors that wait are posted, and the picture is
\* shown when its address answers.
PagesCatchUp ==
    MonitorCatchesUp /\ DashboardCatchesUp /\ []QueuedIsFlushed /\ ShownWhenReachable
=============================================================================
