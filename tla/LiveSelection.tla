---------------------------- MODULE LiveSelection ----------------------------
(***************************************************************************)
(* What the live view shows and how the user changes it: satellite, sector *)
(* and band of frontend/src/components/GoesData/LiveTab/LiveTab.tsx, the   *)
(* monitor mode of hooks/useMonitorMode.ts, and the effects that repair a  *)
(* selection after it was changed.                                         *)
(*                                                                         *)
(* A handler sets state; the effects of LiveTab run after the render that  *)
(* follows (RunSelectionEffects), all of them on the values of that        *)
(* render, and may ask for another one.                                    *)
(***************************************************************************)
EXTENDS Sequences, SequencesExt, Satellites

VARIABLES
    selected,   \* what is shown: [satellite, sector, band]
    products,   \* whether GET /satellite/products has answered
    resetFor,   \* the satellite of the last run of the reset effect, "" before
    rendered,   \* whether the effects have run for the present state
    monitoring, \* monitor mode
    autoFetch   \* fetch each new scan without being asked

selectionVars == <<selected, products, resetFor, rendered, monitoring, autoFetch>>

-----------------------------------------------------------------------------
(* The catalogue: one GOES and one Himawari satellite, the sectors and the *)
(* bands that the rules below and the monitor presets tell apart.          *)

getDefaultBand(satellite) == IF isHimawariSatellite(satellite) THEN "TrueColor" ELSE "GEOCOLOR"

apiSatellites == {"GOES-19"}
defaultSatellite == "GOES-19"
apiBands == <<"GEOCOLOR", "C02">>

allSatellites == (IF products THEN apiSatellites ELSE {}) \cup {"Himawari-9"}

\* The lists shown for a satellite: the API's for GOES, constants for Himawari.
getSectorsForSatellite(satellite) ==
    IF isHimawariSatellite(satellite) THEN {"FLDK", "Japan", "Target"}
                                      ELSE {"CONUS", "Mesoscale1"}
getBandsForSatellite(satellite) ==
    IF isHimawariSatellite(satellite) THEN <<"TrueColor", "B03", "B13">> ELSE apiBands

\* The composite exists on GOES for the sectors with CDN images only.
getDisabledBands(satellite, sector) ==
    IF ~isHimawariSatellite(satellite) /\ isMesoSector(sector)
      THEN {getDefaultBand(satellite)} ELSE {}

\* Presets name a sector, and a satellite and band or neither.  No catalogue has
\* the sectors FULL and M1.
PresetSectors == {"CONUS", "FULL", "M1"}
MONITOR_PRESETS ==
    {[satellite |-> "", sector |-> s, band |-> ""] : s \in PresetSectors} \cup
    {[satellite |-> "Himawari-9", sector |-> "Japan", band |-> "TrueColor"],
     [satellite |-> "Himawari-9", sector |-> "FLDK", band |-> "B13"],
     [satellite |-> "Himawari-9", sector |-> "Target", band |-> "B03"]}

-----------------------------------------------------------------------------

SelectionInit ==
    /\ selected = [satellite |-> "", sector |-> "CONUS", band |-> "GEOCOLOR"]
    /\ products = FALSE
    /\ resetFor = ""
    /\ rendered = FALSE
    /\ monitoring = FALSE
    /\ autoFetch = FALSE

Show(selection) ==
    /\ selected' = selection
    /\ rendered' = FALSE

KeepMode == UNCHANGED <<monitoring, autoFetch>>

ProductsArrive ==
    /\ ~products
    /\ products' = TRUE
    /\ rendered' = FALSE
    /\ UNCHANGED <<selected, resetFor>> /\ KeepMode

\* The three pickers of the dock, offered once the products are there.
PickSatellite(satellite) ==
    /\ products
    /\ satellite \in allSatellites \ {selected.satellite}
    /\ Show([selected EXCEPT !.satellite = satellite])
    /\ UNCHANGED <<products, resetFor>> /\ KeepMode

PickSector(sector) ==
    /\ products
    /\ sector \in getSectorsForSatellite(selected.satellite) \ {selected.sector}
    /\ Show([selected EXCEPT !.sector = sector])
    /\ UNCHANGED <<products, resetFor>> /\ KeepMode

PickBand(band) ==
    /\ products
    /\ band \in Range(getBandsForSatellite(selected.satellite))
                  \ getDisabledBands(selected.satellite, selected.sector)
    /\ Show([selected EXCEPT !.band = band])
    /\ UNCHANGED <<products, resetFor>> /\ KeepMode

\* Where a band is in a list of bands, 0 when it is not in it (findIndex).
Position(band, bands) ==
    IF band \in Range(bands) THEN CHOOSE i \in DOMAIN bands : bands[i] = band ELSE 0

\* A swipe goes to the neighbour in the satellite's list and stops at its ends.
Swipe(step) ==
    LET bands == getBandsForSatellite(selected.satellite)
        i == Position(selected.band, bands)
    IN  /\ i > 0 /\ i + step \in DOMAIN bands
        /\ Show([selected EXCEPT !.band = bands[i + step]])
        /\ UNCHANGED <<products, resetFor>> /\ KeepMode

\* The arrow keys walk round the API's list, whatever the satellite is; from a
\* band that is not in it ArrowLeft goes to the last and ArrowRight to the first.
Arrow(step) ==
    LET n == Len(apiBands)
        i == Position(selected.band, apiBands)
    IN  /\ products
        /\ Show([selected EXCEPT !.band =
                   apiBands[IF step = 1 THEN IF i < n THEN i + 1 ELSE 1
                                        ELSE IF i > 1 THEN i - 1 ELSE n]])
        /\ UNCHANGED <<products, resetFor>> /\ KeepMode

\* A preset of the monitor panel, taken over where it names something.
applyPreset(preset) ==
    /\ Show([satellite |-> IF preset.satellite = "" THEN selected.satellite
                                                    ELSE preset.satellite,
             sector |-> preset.sector,
             band |-> IF preset.band = "" THEN selected.band ELSE preset.band])
    /\ UNCHANGED <<products, resetFor>> /\ KeepMode

\* "Start Monitoring" with the panel's form, which follows the view and offers
\* the sectors and bands of the satellite shown with any other satellite.
startMonitor(satellite, sector, band) ==
    /\ ~monitoring
    /\ satellite \in {selected.satellite} \cup (IF products THEN allSatellites ELSE {})
    /\ sector \in getSectorsForSatellite(selected.satellite) \cup {selected.sector}
    /\ band \in Range(getBandsForSatellite(selected.satellite)) \cup {selected.band}
    /\ Show([satellite |-> satellite, sector |-> sector, band |-> band])
    /\ monitoring' = TRUE /\ autoFetch' = TRUE
    /\ UNCHANGED <<products, resetFor>>

toggleMonitor ==
    /\ monitoring' = ~monitoring
    /\ autoFetch' = ~monitoring
    /\ UNCHANGED <<selected, products, resetFor, rendered>>

stopMonitor ==
    /\ monitoring
    /\ monitoring' = FALSE /\ autoFetch' = FALSE
    /\ UNCHANGED <<selected, products, resetFor, rendered>>

\* The switch is disabled for Himawari, GeoColor and mesoscale sectors.
autoFetchDisabled ==
    \/ isHimawariSatellite(selected.satellite)
    \/ selected.band = "GEOCOLOR"
    \/ isMesoSector(selected.sector)

ToggleAutoFetch ==
    /\ ~autoFetchDisabled
    /\ autoFetch' = ~autoFetch
    /\ UNCHANGED <<selected, products, resetFor, rendered, monitoring>>

-----------------------------------------------------------------------------
(* The effects, in the order of the file; each is a selection computed from *)
(* the one that was rendered, and a later one overwrites an earlier one.    *)

ChooseSatellite(now, next) ==
    IF products /\ now.satellite = ""
      THEN [next EXCEPT !.satellite = defaultSatellite] ELSE next

ValidateBand(now, next) ==
    IF /\ products /\ ~isHimawariSatellite(now.satellite)
       /\ now.band \notin Range(apiBands)
      THEN [next EXCEPT !.band = apiBands[1]] ELSE next

\* Mutant: a mesoscale sector falls back on the first band of the list.
MesoHasNoCompositeFirst(now, next) ==
    IF isMesoSector(now.sector) /\ now.band = "GEOCOLOR"
      THEN [next EXCEPT !.band = apiBands[1]] ELSE next

MesoHasNoComposite(now, next) ==
    IF isMesoSector(now.sector) /\ now.band = "GEOCOLOR"
      THEN [next EXCEPT !.band = "C02"] ELSE next

\* Not for the first satellite, which the products chose.
ResetForSatellite(now, next) ==
    IF now.satellite \notin {"", resetFor} /\ resetFor # ""
      THEN [next EXCEPT !.sector = getDefaultSector(now.satellite),
                        !.band = getDefaultBand(now.satellite)]
      ELSE next

Repaired ==
    ResetForSatellite(selected,
        MesoHasNoComposite(selected,
            ValidateBand(selected,
                ChooseSatellite(selected, selected))))

RunSelectionEffects ==
    /\ ~rendered
    /\ selected' = Repaired
    /\ resetFor' = IF selected.satellite = "" THEN resetFor ELSE selected.satellite
    /\ rendered' = (Repaired = selected)
    /\ UNCHANGED products /\ KeepMode

\* What the user does to the selection itself, once the effects of the last
\* change have run: React flushes them before it handles another event.
ChangeSelection ==
    /\ rendered
    /\ \/ \E s \in allSatellites : PickSatellite(s)
       \/ \E s \in getSectorsForSatellite(selected.satellite) : PickSector(s)
       \/ \E b \in Range(getBandsForSatellite(selected.satellite)) : PickBand(b)
       \/ \E step \in {-1, 1} : Swipe(step) \/ Arrow(step)
       \/ \E p \in MONITOR_PRESETS : applyPreset(p)
       \/ \E satellite \in allSatellites \cup {selected.satellite},
             sector \in getSectorsForSatellite(selected.satellite) \cup {selected.sector},
             band \in Range(getBandsForSatellite(selected.satellite)) \cup {selected.band} :
            startMonitor(satellite, sector, band)

ChangeMode == toggleMonitor \/ stopMonitor \/ ToggleAutoFetch

SelectionNext ==
    \/ ProductsArrive \/ ChangeSelection \/ ChangeMode \/ RunSelectionEffects

-----------------------------------------------------------------------------
(* Properties. *)

\* After the effects a GOES view shows a sector of its own, or one that a preset
\* names, and a band that the API lists and that the sector has, by whatever way
\* they came there (the validation, mesoscale and reset effects together).  The
\* effects do not know a mesoscale sector by its name M1 in a preset: that one
\* keeps GEOCOLOR, which it has not.
GoesBandServable ==
    rendered /\ selected.satellite \in apiSatellites =>
        /\ selected.sector \in getSectorsForSatellite(selected.satellite) \cup PresetSectors
        /\ selected.band \in Range(apiBands)
        /\ ~(isMesoSector(selected.sector) /\ selected.band = "GEOCOLOR")
=============================================================================
