----------------------------- MODULE FetchWizard ------------------------------
(***************************************************************************)
(* The fetch tab: components/GoesData/FetchTab.  A wizard of three steps   *)
(* that survives a reload, and chips that fetch with one click.            *)
(***************************************************************************)
EXTENDS Requests, Satellites

VARIABLE wizard  \* the tab; stored is its entry in the browser's local storage

\* choice is what the wizard persists: [open, step, satellite, sector, band, image];
\* confirm is the dialog; quick the chip that shows "Fetching..." or "none".
\* accepted is history: the server has accepted a fetch since the page was loaded.
FreshChoice(open) == [open |-> open, step |-> 0, satellite |-> "", sector |-> "CONUS",
                      band |-> "C02", image |-> "single"]
NoChoice == FreshChoice(FALSE)

WizardInit ==
    wizard = [choice |-> NoChoice, confirm |-> FALSE, quick |-> "none",
              stored |-> NoChoice, accepted |-> FALSE]

\* What the lists of the steps offer: bands of the satellite, and whatever the
\* satellite the sectors of /satellite/products, which are those of GOES.  CONUS
\* stands for them all, the initial FullDisk among them, and FLDK for Himawari's.
bandsOf(satellite) == IF isHimawariSatellite(satellite) THEN {"B13"} ELSE {"C02"}
productSectors == {"CONUS"}

\* Mutant: the effect lists the step and the toggle among its dependencies only.
PersistsSteps(before, after) == before.step # after.step \/ before.open # after.open

\* The dependencies of the effect that persists the wizard.
Persists(before, after) == before # after

\* A change of the choice, and the effect after it: a closed wizard stores nothing.
Choose(choice) ==
    wizard' = IF Persists(wizard.choice, choice)
      THEN [wizard EXCEPT !.choice = choice,
                          !.stored = IF choice.open THEN choice ELSE NoChoice]
      ELSE [wizard EXCEPT !.choice = choice]

\* The dialog lies over the page.
Asking == wizard.confirm /\ wizard.choice.open

ProductsDefault ==
    /\ wizard.choice.satellite = ""
    /\ Choose([wizard.choice EXCEPT !.satellite = "GOES-19"])
    /\ UNCHANGED reqVars

\* Mutant: the way back to GOES keeps the sector.
SectorKept(choice, satellite) ==
    [choice EXCEPT !.satellite = satellite,
                   !.sector = IF isHimawariSatellite(satellite) THEN "FLDK" ELSE @,
                   !.band = IF isHimawariSatellite(satellite) THEN "B13" ELSE "C02"]

handleWizardSatellite(choice, satellite) ==
    [choice EXCEPT !.satellite = satellite,
                   !.sector = IF isHimawariSatellite(satellite) THEN "FLDK" ELSE "CONUS",
                   !.band = IF isHimawariSatellite(satellite) THEN "B13" ELSE "C02"]

ToggleAdvanced ==
    /\ ~Asking
    /\ Choose([wizard.choice EXCEPT !.open = ~@])
    /\ UNCHANGED reqVars

\* Mutant: the indicators go one step past the last.
GoPastLastStep ==
    /\ wizard.choice.open /\ ~Asking
    /\ \E step \in 0..3 : Choose([wizard.choice EXCEPT !.step = step])
    /\ UNCHANGED reqVars

GoToStep ==
    /\ wizard.choice.open /\ ~Asking
    /\ \E step \in 0..2 : Choose([wizard.choice EXCEPT !.step = step])
    /\ UNCHANGED reqVars

SatelliteStep ==
    /\ wizard.choice.open /\ wizard.choice.step = 0 /\ ~Asking
    /\ \E s \in {"GOES-19", "Himawari-9"} : Choose(handleWizardSatellite(wizard.choice, s))
    /\ UNCHANGED reqVars

WhatStep ==
    /\ wizard.choice.open /\ wizard.choice.step = 1 /\ ~Asking
    /\ \/ \E s \in productSectors : Choose([wizard.choice EXCEPT !.sector = s])
       \/ \E image \in {"single", "true_color"} : Choose([wizard.choice EXCEPT !.image = image])
       \/ /\ wizard.choice.image = "single"
          /\ \E b \in bandsOf(wizard.choice.satellite) : Choose([wizard.choice EXCEPT !.band = b])
    /\ UNCHANGED reqVars

\* Fetch opens the dialog; the user has brought the two times in order first.
WhenStep ==
    /\ wizard.choice.open /\ wizard.choice.step = 2 /\ ~Asking
    /\ wizard' = [wizard EXCEPT !.confirm = TRUE]
    /\ UNCHANGED reqVars

ConfirmDialog ==
    /\ Asking
    /\ \/ wizard' = [wizard EXCEPT !.confirm = FALSE] /\ UNCHANGED reqVars
       \/ /\ ~isPending("fetch")
          /\ Send("fetch", 0, wizard.choice)
          /\ UNCHANGED wizard

\* A chip posts its fetches one after the other; a preset's is one request.
QuickFetch ==
    /\ ~Asking /\ wizard.quick = "none"
    /\ \E chip \in {"quick", "runPreset"} :
         /\ Send(chip, 0, NoChoice)
         /\ wizard' = [wizard EXCEPT !.quick = chip]

\* The picker's sample of a band; it is refused whatever it asks for.
fetchSample ==
    /\ wizard.choice.open /\ wizard.choice.step = 1 /\ ~Asking
    /\ wizard.choice.image = "single" /\ ~isPending("sample")
    /\ Send("sample", 0, NoChoice)
    /\ UNCHANGED wizard

\* Another tab, or a reload of the page: the wizard starts from what is stored.
Restored == [wizard EXCEPT !.choice = wizard.stored, !.confirm = FALSE, !.quick = "none"]
LeaveFetch == Unmount /\ wizard' = Restored
ReloadFetch ==
    /\ reqs # {} /\ reqs' = {} /\ UNCHANGED <<sent, left>>
    /\ wizard' = [Restored EXCEPT !.accepted = FALSE]

-----------------------------------------------------------------------------

ChipPosts == 2  \* requests of a chip

\* The server takes a sector and, where one is sent, a band of the satellite.
Served(choice) ==
    /\ choice.sector \in IF isHimawariSatellite(choice.satellite) THEN {"FLDK"}
                         ELSE productSectors
    /\ choice.image = "single" => choice.band \in bandsOf(choice.satellite)

\* A sample's request has no times, and is refused.
ServeFetch(q) ==
    /\ q.op # "quick"
    /\ \/ Respond(q, "failed") /\ UNCHANGED wizard
       \/ q.op = "runPreset" /\ Respond(q, "ok") /\ UNCHANGED wizard
       \/ /\ q.op = "fetch" /\ Served(q.val) /\ Respond(q, "ok")
          /\ wizard' = [wizard EXCEPT !.accepted = TRUE]

\* The first request that fails ends the chip.
AfterQuickPost(q, accepted) ==
    IF ~accepted THEN "failed" ELSE IF q.id + 1 = ChipPosts THEN "ok" ELSE "sent"

\* id counts the requests of the chip that were accepted.
ServeQuick(q) ==
    /\ q.op = "quick"
    /\ \E accepted \in BOOLEAN :
         RespondWith(q, AfterQuickPost(q, accepted), IF accepted THEN q.id + 1 ELSE q.id)
    /\ UNCHANGED wizard

\* The finally of quickFetch and runPreset.
ReleasesChip(q) == TRUE

AnswerFetch(q) ==
    /\ Settle(q)
    /\ wizard' = CASE q.op = "fetch" ->
             LET closed == [wizard EXCEPT !.confirm = @ /\ ~q.here]
             IN  IF q.state = "ok" THEN [closed EXCEPT !.stored = NoChoice] ELSE closed
           [] q.op \in {"quick", "runPreset"} /\ q.here /\ ReleasesChip(q) ->
                [wizard EXCEPT !.quick = "none"]
           [] OTHER -> wizard

WizardUser ==
    \/ ToggleAdvanced \/ GoToStep \/ SatelliteStep \/ WhatStep \/ WhenStep \/ ConfirmDialog
    \/ QuickFetch \/ fetchSample \/ LeaveFetch \/ ReloadFetch
WizardServer == \E q \in reqs : ServeFetch(q) \/ ServeQuick(q) \/ AnswerFetch(q)
WizardNext == ProductsDefault \/ WizardUser \/ WizardServer

-----------------------------------------------------------------------------
(* Properties. *)

WizardTypeOK ==
    /\ wizard.choice.step \in 0..2 /\ wizard.choice.satellite \in {"", "GOES-19", "Himawari-9"}
    /\ wizard.confirm \in BOOLEAN /\ wizard.accepted \in BOOLEAN
    /\ wizard.choice.sector \in productSectors \cup {"FLDK"}
    /\ wizard.quick \in {"none", "quick", "runPreset"}

\* A fetch of a single band asks for a band of its satellite, and a fetch of GOES
\* for a sector of GOES, whatever way the wizard went and from whatever it was
\* restored.  For Himawari the picker offers the sectors of GOES all the same
\* (SectorPicker.tsx:33), and the server refuses what it then asks for.
WizardServable ==
    \A q \in reqs : q.op = "fetch" =>
        /\ q.val.image = "single" => q.val.band \in bandsOf(q.val.satellite)
        /\ ~isHimawariSatellite(q.val.satellite) => Served(q.val)

\* A reload, or a return to the tab, brings back the form that is shown and never
\* an earlier one, however answers and changes alternate; an open form is lost
\* only when the server has accepted a fetch (JTN-476 in FetchTab.tsx).  Changes
\* made while that fetch was in flight are lost with it; Cancel clears nothing.
ReloadRestoresWork ==
    /\ wizard.stored \in {NoChoice, wizard.choice}
    /\ wizard.choice.open /\ wizard.stored = NoChoice => wizard.accepted

\* A chip that reports success has had every one of its requests accepted.
QuickFetchComplete == \A q \in reqs : q.op = "quick" /\ q.state = "ok" => q.id = ChipPosts

\* The chips come back, whatever becomes of the requests.
ChipsComeBack == wizard.quick # "none" ~> wizard.quick = "none"
=============================================================================
