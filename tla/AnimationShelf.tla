----------------------------- MODULE AnimationShelf -----------------------------
(***************************************************************************)
(* What the animation page keeps on the server: the presets of             *)
(* components/Animation/AnimationPresets.tsx, the settings they are made   *)
(* of (AnimationSettingsPanel.tsx), and the animations of                  *)
(* AnimateTab/AnimationHistory.tsx.  The page stays open: AnimationStudio  *)
(* has its other parts.                                                    *)
(***************************************************************************)
EXTENDS Requests

CONSTANTS
    PresetNames,          \* what is typed; "" is saved as "Untitled Preset"
    MaxPresets, MaxFilms, \* presets saved, animations made: bounds
    CaptureInterval       \* minutes between frames: captureIntervalMinutes
ASSUME ShelfAssumption ==
    /\ MaxPresets \in Nat /\ MaxFilms \in Nat /\ CaptureInterval \in Nat
    /\ "" \in PresetNames

VARIABLES
    stored,  \* the server: presets and animations by number, and the next numbers
    kept,    \* the page's two queries: what they read, and reads under way
    desk     \* the form of the presets, and the frame rate that is set
animVars == <<stored, kept, desk>>

Nothing == [n \in {} |-> "none"]
Without(rows, n) == [m \in DOMAIN rows \ {n} |-> rows[m]]
With(rows, n, row) == [m \in DOMAIN rows \cup {n} |-> IF m = n THEN row ELSE rows[m]]

Query == [cache |-> Nothing, read |-> FALSE, fetch |-> "idle", answer |-> Nothing]

AnimInit ==
    /\ \E name \in PresetNames \ {""} :
         stored = [presets |-> With(Nothing, 1, [name |-> name, fps |-> 10]), saved |-> 1,
                   films |-> Nothing, made |-> 0]
    /\ kept = [presets |-> Query, films |-> Query, lost |-> FALSE]
    /\ desk = [newName |-> "", editingId |-> 0, editName |-> "", fps |-> 10]

-----------------------------------------------------------------------------
(* The queries. *)

\* A mount, the window's focus; of the animations also an interval of five seconds.
ReadShelf(k) ==
    /\ kept[k].fetch = "idle"
    /\ kept' = [kept EXCEPT ![k].fetch = "asked"]
    /\ UNCHANGED <<stored, desk, reqVars>>

ServeShelf(k) ==
    /\ kept[k].fetch = "asked"
    /\ kept' = [kept EXCEPT ![k].fetch = "answered", ![k].answer = stored[k]]
    /\ UNCHANGED <<stored, desk, reqVars>>

\* lost: the page may know less than it should.
ShelfFails(k) ==
    /\ kept[k].fetch = "asked"
    /\ kept' = [kept EXCEPT ![k].fetch = "idle", !.lost = TRUE]
    /\ UNCHANGED <<stored, desk, reqVars>>

AnswerShelf(k) ==
    /\ kept[k].fetch = "answered"
    /\ kept' = [kept EXCEPT ![k] = [cache |-> @.answer, read |-> TRUE, fetch |-> "idle",
                                    answer |-> Nothing]]
    /\ UNCHANGED <<stored, desk, reqVars>>

\* A read that is under way is given up, but for the first: its answer, which
\* may be older, will do.
InvalidatedShelf(k) ==
    IF kept[k].read \/ kept[k].fetch = "idle"
    THEN [kept EXCEPT ![k].fetch = "asked", ![k].answer = Nothing]
    ELSE [kept EXCEPT !.lost = TRUE]

-----------------------------------------------------------------------------
(* The settings. *)

SPEED_MULTIPLIERS == {1, 2, 5, 10, 30}

\* Rounded, and within what the slider offers.
calcFps(multiplier, intervalMin) ==
    LET rounded == (120 * multiplier + intervalMin) \div (2 * intervalMin)
    IN  IF intervalMin <= 0 THEN 10
        ELSE IF rounded < 1 THEN 1 ELSE IF rounded > 30 THEN 30 ELSE rounded

\* A speed.  The slider sets what a speed could; the other settings are left out.
setFps ==
    /\ \E x \in SPEED_MULTIPLIERS : desk' = [desk EXCEPT !.fps = calcFps(x, CaptureInterval)]
    /\ UNCHANGED <<stored, kept, reqVars>>

-----------------------------------------------------------------------------
(* The presets. *)

\* The page takes over preset.config, which no row of the server has.
Loaded(config, row) == config
handleLoadPreset ==
    /\ \E id \in DOMAIN kept.presets.cache :
         desk' = [desk EXCEPT !.fps = Loaded(@, kept.presets.cache[id])]
    /\ UNCHANGED <<stored, kept, reqVars>>

TypeName ==
    /\ \E name \in PresetNames :
         \/ desk' = [desk EXCEPT !.newName = name]
         \/ desk.editingId # 0 /\ desk' = [desk EXCEPT !.editName = name]
    /\ UNCHANGED <<stored, kept, reqVars>>

\* The pencil and the cross of a row.
setEditingId ==
    /\ \/ \E id \in DOMAIN kept.presets.cache \ {desk.editingId} :
            desk' = [desk EXCEPT !.editingId = id, !.editName = kept.presets.cache[id].name]
       \/ desk.editingId \in DOMAIN kept.presets.cache /\ desk' = [desk EXCEPT !.editingId = 0]
    /\ UNCHANGED <<stored, kept, reqVars>>

\* The buttons.  Renaming has no guard.
SavePreset ==
    /\ ~isPending("save")
    /\ Send("save", 0, [name |-> IF desk.newName = "" THEN "Untitled Preset" ELSE desk.newName,
                        fps |-> desk.fps])
    /\ UNCHANGED animVars
RenamePreset ==
    /\ desk.editingId \in DOMAIN kept.presets.cache
    /\ Send("rename", desk.editingId, [name |-> desk.editName, fps |-> 0])
    /\ UNCHANGED animVars
DropPreset ==
    /\ ~isPending("drop")
    /\ \E id \in DOMAIN kept.presets.cache \ {desk.editingId} :
         Send("drop", id, [name |-> "", fps |-> 0])
    /\ UNCHANGED animVars

\* Names are unique.
NameFree(name, id) == \A p \in DOMAIN stored.presets \ {id} : stored.presets[p].name # name

Changed(q) ==
    CASE q.op = "save" -> [stored EXCEPT !.saved = @ + 1, !.presets = With(@, stored.saved + 1, q.val)]
      [] q.op = "rename" -> [stored EXCEPT !.presets[q.id].name = q.val.name]
      [] q.op = "drop" -> [stored EXCEPT !.presets = Without(@, q.id)]

\* The server does it or refuses; an answer may be lost.
ServePresetChange(q) ==
    /\ q.op \in {"save", "rename", "drop"}
    /\ \/ /\ q.op = "save" => stored.saved < MaxPresets
          /\ q.op # "drop" => NameFree(q.val.name, q.id)
          /\ q.op # "save" => q.id \in DOMAIN stored.presets
          /\ stored' = Changed(q)
          /\ \E state \in {"ok", "failed"} :
               /\ Respond(q, state)
               /\ kept' = [kept EXCEPT !.lost = @ \/ state = "failed"]
       \/ Respond(q, "failed") /\ UNCHANGED <<stored, kept>>
    /\ UNCHANGED desk

\* Success empties the name or closes the editor, whatever they are about by now.
AnswerPresetChange(q) ==
    /\ q.op \in {"save", "rename", "drop"} /\ Settle(q)
    /\ kept' = IF q.state = "ok" THEN InvalidatedShelf("presets") ELSE kept
    /\ desk' = IF q.state # "ok" THEN desk
               ELSE CASE q.op = "save" -> [desk EXCEPT !.newName = ""]
                      [] q.op = "rename" -> [desk EXCEPT !.editingId = 0]
                      [] q.op = "drop" -> desk
    /\ UNCHANGED stored

-----------------------------------------------------------------------------
(* The animations. *)

\* A row may be deleted in whichever status, and again.
DeleteFilm ==
    /\ \E id \in DOMAIN kept.films.cache : Send("film", id, [name |-> "", fps |-> 0])
    /\ UNCHANGED animVars

\* Another page has one made; a worker makes it.
FilmMade ==
    /\ stored.made < MaxFilms
    /\ stored' = [stored EXCEPT !.made = @ + 1, !.films = With(@, stored.made + 1, "pending")]
    /\ UNCHANGED <<kept, desk, reqVars>>
FilmRuns ==
    /\ \E id \in DOMAIN stored.films, status \in {"processing", "completed", "failed"} :
         /\ stored.films[id] = IF status = "processing" THEN "pending" ELSE "processing"
         /\ stored' = [stored EXCEPT !.films[id] = status]
    /\ UNCHANGED <<kept, desk, reqVars>>

ServeFilmDelete(q) ==
    /\ q.op = "film"
    /\ \/ /\ q.id \in DOMAIN stored.films
          /\ stored' = [stored EXCEPT !.films = Without(@, q.id)]
          /\ \E state \in {"ok", "failed"} :
               /\ Respond(q, state)
               /\ kept' = [kept EXCEPT !.lost = @ \/ state = "failed"]
       \/ Respond(q, "failed") /\ UNCHANGED <<stored, kept>>
    /\ UNCHANGED desk

AnswerFilmDelete(q) ==
    /\ q.op = "film" /\ Settle(q)
    /\ kept' = IF q.state = "ok" THEN InvalidatedShelf("films") ELSE kept
    /\ UNCHANGED <<stored, desk>>

Reads(k) == ReadShelf(k) \/ ServeShelf(k) \/ ShelfFails(k) \/ AnswerShelf(k)

PresetNext ==
    \/ Reads("presets")
    \/ setFps \/ handleLoadPreset \/ TypeName \/ setEditingId
    \/ SavePreset \/ RenamePreset \/ DropPreset
    \/ \E q \in reqs : ServePresetChange(q) \/ AnswerPresetChange(q)

FilmNext ==
    \/ Reads("films")
    \/ DeleteFilm \/ FilmMade \/ FilmRuns
    \/ \E q \in reqs : ServeFilmDelete(q) \/ AnswerFilmDelete(q)

-----------------------------------------------------------------------------
(* Properties. *)

Quiet(k) == kept[k].read /\ kept[k].fetch = "idle"

\* When all changes are answered, lists that were read hold what the server has,
\* unless an answer was lost: nothing polls the presets, which only this page
\* changes.  Animations change by themselves, but none that was deleted is shown.
ShelfAsStored ==
    reqs = {} /\ ~kept.lost =>
        /\ Quiet("presets") => kept.presets.cache = stored.presets
        /\ Quiet("films") => DOMAIN kept.films.cache \subseteq DOMAIN stored.films
=============================================================================
