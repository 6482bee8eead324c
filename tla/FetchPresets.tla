----------------------------- MODULE FetchPresets -----------------------------
(***************************************************************************)
(* Presets and schedules: components/GoesData/PresetsTab.tsx.  A preset    *)
(* is what to fetch; a schedule runs a preset again and again.  Both are   *)
(* numbered as they are created.                                           *)
(***************************************************************************)
EXTENDS Requests, Satellites

CONSTANT MaxSaved  \* presets, and schedules, ever created
ASSUME PresetsAssumption == MaxSaved \in Nat \ {0}

VARIABLES
    presets,  \* the tab: its forms and what its queries show
    saved     \* the server: [presets, schedules]
presetVars == <<presets, saved>>

Config(satellite, sector, band) == [satellite |-> satellite, sector |-> sector, band |-> band]
NoConfig == Config("", "", "")

formSectors(satellite) == IF isHimawariSatellite(satellite) THEN {"FLDK"} ELSE {"FullDisk", "CONUS"}
formBands(satellite) == IF isHimawariSatellite(satellite) THEN {"B13"} ELSE {"C02"}

resetForm == Config("GOES-19", "FullDisk", "C02")
Deleted(things) == {i \in DOMAIN things : things[i].gone}
Kept(things) == DOMAIN things \ Deleted(things)

\* editing is the preset of the edit form and 0 without one; scheduling the
\* preset chosen in the form of a schedule, 0 before, -1 without a form.
PresetsInit ==
    /\ saved = [presets |-> <<[config |-> resetForm, gone |-> FALSE]>>,
                schedules |-> <<[preset |-> 1, active |-> TRUE, gone |-> FALSE]>>]
    /\ presets = [create |-> FALSE, form |-> resetForm, editing |-> 0, draft |-> NoConfig,
                  scheduling |-> -1, shown |-> saved]

-----------------------------------------------------------------------------
(* The forms. *)

handleSatelliteChange(form, satellite) ==
    Config(satellite, getDefaultSector(satellite),
           IF isHimawariSatellite(satellite) THEN "B13" ELSE "C02")

\* What the three selects of a form make of it.
Edits(form) ==
    {handleSatelliteChange(form, s) : s \in {"GOES-19", "Himawari-9"}}
      \cup {[form EXCEPT !.sector = s] : s \in formSectors(form.satellite)}
      \cup {[form EXCEPT !.band = b] : b \in formBands(form.satellite)}

\* Bound: one form is open at a time.
OthersClosed(form) ==
    /\ form # "create" => ~presets.create
    /\ form # "edit" => presets.editing = 0
    /\ form # "schedule" => presets.scheduling = -1

\* New Preset and Cancel (what Cancel keeps, New Preset resets), and the selects.
PresetForm ==
    /\ \/ OthersClosed("create") /\ \E open \in BOOLEAN :
            presets' = [presets EXCEPT !.create = open, !.form = resetForm]
       \/ presets.create /\ \E form \in Edits(presets.form) :
            presets' = [presets EXCEPT !.form = form]
       \/ presets.editing # 0 /\ \E draft \in Edits(presets.draft) :
            presets' = [presets EXCEPT !.draft = draft]
    /\ UNCHANGED <<saved, reqVars>>

\* The pencil of a row puts what the row shows into the edit form.
EditPreset ==
    /\ \/ presets' = [presets EXCEPT !.editing = 0, !.draft = NoConfig]
       \/ OthersClosed("edit") /\ \E p \in Kept(presets.shown.presets) :
            presets' = [presets EXCEPT !.editing = p, !.draft = presets.shown.presets[p].config]
    /\ UNCHANGED <<saved, reqVars>>

\* New Schedule needs a preset; the select offers those shown.
ScheduleForm ==
    /\ \/ presets' = [presets EXCEPT !.scheduling = -1]
       \/ /\ Kept(presets.shown.presets) # {} /\ OthersClosed("schedule")
          /\ presets' = [presets EXCEPT !.scheduling = IF @ = -1 THEN 0 ELSE @]
       \/ /\ presets.scheduling # -1
          /\ \E p \in Kept(presets.shown.presets) :
               presets' = [presets EXCEPT !.scheduling = p]
    /\ UNCHANGED <<saved, reqVars>>

-----------------------------------------------------------------------------
(* The buttons.  Those of a schedule's form and switch wait for nothing. *)

SavePreset ==
    /\ \/ presets.create /\ ~isPending("createPreset") /\ Send("createPreset", 0, presets.form)
       \/ /\ presets.editing # 0 /\ ~isPending("updatePreset")
          /\ Send("updatePreset", presets.editing, presets.draft)
    /\ UNCHANGED presetVars

PresetButtons(p) ==
    /\ \E op \in {"runPreset", "deletePreset"} : ~isPending(op) /\ Send(op, p, NoConfig)
    /\ UNCHANGED presetVars

createSchedule ==
    /\ presets.scheduling > 0
    /\ Send("createSchedule", presets.scheduling, NoConfig)
    /\ UNCHANGED presetVars

ScheduleButtons(s) ==
    /\ \/ Send("toggleSchedule", s, NoConfig)
       \/ ~isPending("deleteSchedule") /\ Send("deleteSchedule", s, NoConfig)
    /\ UNCHANGED presetVars

LeavePresets ==
    /\ Unmount
    /\ presets' = [presets EXCEPT !.create = FALSE, !.form = resetForm, !.editing = 0,
                                  !.draft = NoConfig, !.scheduling = -1]
    /\ UNCHANGED saved

-----------------------------------------------------------------------------
(* The server and its answers. *)

AcceptsPreset(q) ==
    CASE q.op = "createPreset" -> Len(saved.presets) < MaxSaved
      [] q.op = "createSchedule" -> /\ q.id \in Kept(saved.presets)
                                    /\ Len(saved.schedules) < MaxSaved
      [] q.op \in {"updatePreset", "deletePreset", "runPreset"} -> q.id \in Kept(saved.presets)
      [] OTHER -> q.id \in Kept(saved.schedules)

\* The schedules of a preset go with it.
WithoutPreset(p) ==
    [presets |-> [saved.presets EXCEPT ![p].gone = TRUE],
     schedules |-> [s \in DOMAIN saved.schedules |->
        IF saved.schedules[s].preset = p THEN [saved.schedules[s] EXCEPT !.gone = TRUE]
        ELSE saved.schedules[s]]]

ApplyPreset(q) ==
    CASE q.op = "createPreset" ->
           [saved EXCEPT !.presets = Append(@, [config |-> q.val, gone |-> FALSE])]
      [] q.op = "updatePreset" -> [saved EXCEPT !.presets[q.id].config = q.val]
      [] q.op = "deletePreset" -> WithoutPreset(q.id)
      [] q.op = "createSchedule" ->
           [saved EXCEPT !.schedules = Append(@, [preset |-> q.id, active |-> TRUE, gone |-> FALSE])]
      [] q.op = "toggleSchedule" -> [saved EXCEPT !.schedules[q.id].active = ~@]
      [] q.op = "deleteSchedule" -> [saved EXCEPT !.schedules[q.id].gone = TRUE]
      [] OTHER -> saved

ServePreset(q) ==
    /\ \/ /\ AcceptsPreset(q) /\ saved' = ApplyPreset(q)
          /\ \E state \in {"ok", "failed"} : Respond(q, state)
       \/ Respond(q, "failed") /\ UNCHANGED saved
    /\ UNCHANGED presets

\* A success closes the form of its kind, whatever it shows by now.
AnswerPreset(q) ==
    /\ Settle(q)
    /\ presets' = IF q.state = "failed" \/ ~q.here THEN presets
         ELSE CASE q.op = "createPreset" ->
                     [presets EXCEPT !.create = FALSE, !.form = resetForm]
                [] q.op = "updatePreset" ->
                     [presets EXCEPT !.editing = 0, !.draft = NoConfig]
                [] q.op = "createSchedule" -> [presets EXCEPT !.scheduling = -1]
                [] OTHER -> presets
    /\ UNCHANGED saved

\* The two queries, each on its own.
RefetchPresets ==
    /\ \E part \in {"presets", "schedules"} :
         /\ presets.shown[part] # saved[part]
         /\ presets' = [presets EXCEPT !.shown[part] = saved[part]]
    /\ UNCHANGED <<saved, reqVars>>

PresetsNext ==
    \/ PresetForm \/ EditPreset \/ ScheduleForm \/ SavePreset \/ createSchedule \/ LeavePresets
    \/ \E p \in Kept(presets.shown.presets) : PresetButtons(p)
    \/ \E s \in Kept(presets.shown.schedules) : ScheduleButtons(s)
    \/ \E q \in reqs : ServePreset(q) \/ AnswerPreset(q)
    \/ RefetchPresets

-----------------------------------------------------------------------------
(* Properties. *)

PresetsTypeOK ==
    /\ Len(saved.presets) <= MaxSaved /\ Len(saved.schedules) <= MaxSaved
    /\ presets.editing \in 0..MaxSaved /\ presets.scheduling \in -1..MaxSaved
    /\ presets.create \in BOOLEAN

\* Every preset the page saves can be fetched: its sector and band are of its
\* satellite, through all edits of both forms and the answers between them.
PresetsServable ==
    \A p \in Kept(saved.presets) : LET config == saved.presets[p].config
                                   IN  /\ config.sector \in formSectors(config.satellite)
                                       /\ config.band \in formBands(config.satellite)

\* No schedule is left without its preset, although the page offers presets
\* that were deleted since it fetched its list.
SchedulesHavePresets ==
    \A s \in Kept(saved.schedules) : saved.schedules[s].preset \in Kept(saved.presets)
=============================================================================
