----------------------------- MODULE MCDataPages ------------------------------
(* Model-checking instance of the pages about data: fetching, presets, gaps, *)
(* retention, collections and composites.  One of them is used in a          *)
(* behaviour; they share the page's requests.                                *)
EXTENDS CleanupRules, FetchPresets, GapBackfill, CompositeMaker, CollectionManager,
        FetchWizard

VARIABLE focus  \* the component that is used
vars == <<focus, reqVars, cleanupVars, presetVars, gapVars, makerVars, albumVars, wizard>>

Init ==
    /\ focus \in {"cleanup", "presets", "gaps", "composites", "collections", "fetch"}
    /\ RequestsInit /\ CleanupInit /\ PresetsInit /\ GapsInit /\ MakerInit /\ AlbumInit
    /\ WizardInit
    /\ focus # "cleanup" => cleanup.shown = ruleDb
    /\ focus # "gaps" => gaps.selection = (CHOOSE s \in Selections : TRUE)
                         /\ \A s \in Selections : missing[s]

Next ==
    /\ UNCHANGED focus
    /\ \/ /\ focus = "cleanup" /\ CleanupNext
          /\ UNCHANGED <<presetVars, gapVars, makerVars, albumVars, wizard>>
       \/ /\ focus = "presets" /\ PresetsNext
          /\ UNCHANGED <<cleanupVars, gapVars, makerVars, albumVars, wizard>>
       \/ /\ focus = "gaps" /\ GapsNext
          /\ UNCHANGED <<cleanupVars, presetVars, makerVars, albumVars, wizard>>
       \/ /\ focus = "composites" /\ MakerNext
          /\ UNCHANGED <<cleanupVars, presetVars, gapVars, albumVars, wizard>>
       \/ /\ focus = "collections" /\ AlbumNext
          /\ UNCHANGED <<cleanupVars, presetVars, gapVars, makerVars, wizard>>
       \/ /\ focus = "fetch" /\ WizardNext
          /\ UNCHANGED <<cleanupVars, presetVars, gapVars, makerVars, albumVars>>

\* The server answers and what is polled is polled; users owe nothing.
Fairness ==
    /\ WF_<<makerVars, reqVars>>(focus = "composites" /\ PollComposites)
    /\ WF_<<albumVars, reqVars>>(focus = "collections" /\ AlbumServer)
    /\ WF_<<wizard, reqVars>>(focus = "fetch" /\ WizardServer)
Spec == Init /\ [][Next]_vars /\ Fairness

\* Types of the state of the pages.
DataPagesTypeOK ==
    CleanupTypeOK /\ PresetsTypeOK /\ GapsTypeOK /\ MakerTypeOK /\ AlbumTypeOK /\ WizardTypeOK

\* Whatever is chosen, edited, restored or answered in between, what the pages ask
\* for can be served: sector and band are of the satellite, in presets, composites
\* and fetches, the sector picked for a fetch of Himawari excepted.
RequestsServable == PresetsServable /\ CompositesServable /\ WizardServable

\* What is done in several requests is reported as done only when all of them
\* were: frames added to a new collection, and the fetches of a chip.
ReportsAreTrue == AddedMeansAdded /\ QuickFetchComplete

\* Lists, coverage and frames may be older than what they are used for, and clicks
\* faster than answers: a switch still ends where it was put, a schedule has its
\* preset, a backfill its detection, and the player shows what was asked for last.
LateAnswersDoNoHarm ==
    SwitchTakesEffect /\ SchedulesHavePresets /\ BackfillAfterDetection /\ PlayerOfLastAsked

\* Nothing waits for ever for an answer that was lost or came in another way:
\* composites are seen to end, and the buttons that wait come back.
PagesComeBack == CompositeEndsShown /\ AnimateComesBack /\ ChipsComeBack
=============================================================================
