------------------------------ MODULE SettingsPage ------------------------------
(***************************************************************************)
(* The settings: pages/Settings.tsx, with useSettings and                  *)
(* useUpdateSettings of hooks/useApi.ts.  The form starts from the         *)
(* settings that were read, is keyed by them, and is saved as a whole.     *)
(* Other windows change settings too.                                      *)
(***************************************************************************)
EXTENDS Requests

CONSTANTS
    Fields,  \* fields of the form
    Values,  \* what may be entered in one
    Valid    \* what is within the field's range
ASSUME SettingsAssumption == Valid \subseteq Values /\ Valid # {}

VARIABLES
    settings,  \* the server's
    page       \* useSettings' cache and fetch, and the form
settingsVars == <<settings, page>>

Unread == [f \in {} |-> 0]

\* A form: its key, its fields, those touched, what it says and shows as wrong.
SettingsForm(cache) ==
    [key |-> cache, form |-> cache, touched |-> {}, toast |-> FALSE, invalidField |-> "none"]

SettingsInit ==
    /\ settings \in {[f \in Fields |-> v] : v \in Valid}
    /\ page = [cache |-> Unread, answer |-> Unread, asked |-> FALSE, told |-> FALSE,
               tab |-> "config", ui |-> SettingsForm(Unread)]

\* Nothing is done to a form that is about to be replaced.
Shown == page.cache # Unread /\ page.ui.key = page.cache /\ page.tab = "config"

-----------------------------------------------------------------------------
(* Reading. *)

\* useSettings, on entering, on focus, or when a save has invalidated it.
ReadSettings ==
    /\ ~page.asked /\ page.answer = Unread
    /\ page' = [page EXCEPT !.asked = TRUE]
    /\ UNCHANGED <<settings, reqVars>>

ServeSettings ==
    /\ page.asked
    /\ page' = [page EXCEPT !.answer = settings, !.asked = FALSE]
    /\ UNCHANGED <<settings, reqVars>>

\* With the refetch its save is over: it is told to the form that is there.
AnswerSettings ==
    /\ page.answer # Unread
    /\ page' = [page EXCEPT !.cache = page.answer, !.answer = Unread, !.told = FALSE,
                            !.ui.toast = @ \/ (page.told /\ Shown)]
    /\ UNCHANGED <<settings, reqVars>>

\* Mutant: the form that is there stays.
Form(cache) == IF page.ui.key = Unread THEN SettingsForm(cache)
               ELSE [page.ui EXCEPT !.key = cache]

\* The form for settings that differ is another one.
Keyed(cache) == SettingsForm(cache)

\* SettingsPage renders: another form knows nothing of a save that is under way.
RenderForm ==
    /\ page.cache # Unread /\ page.ui.key # page.cache
    /\ page' = [page EXCEPT !.told = FALSE, !.ui = Keyed(page.cache)]
    /\ Unmount /\ UNCHANGED settings

-----------------------------------------------------------------------------
(* The form. *)

\* A tab shows its own content: the form goes with its own.
changeTab ==
    /\ page.cache # Unread /\ page.ui.key = page.cache
    /\ \E tab \in {"config", "data", "system"} \ {page.tab} :
         page' = [page EXCEPT !.tab = tab, !.told = FALSE, !.ui = SettingsForm(page.cache)]
    /\ Unmount /\ UNCHANGED settings

setForm ==
    /\ Shown
    /\ \E f \in Fields, v \in Values :
         page' = [page EXCEPT !.ui.form[f] = v, !.ui.touched = @ \cup {f}]
    /\ UNCHANGED <<settings, reqVars>>

\* handleSave: the first field out of its range is pointed at.
OutOfRange == {f \in Fields : page.ui.form[f] \notin Valid}
handleSave ==
    /\ Shown /\ ~isPending("settings") /\ ~page.told
    /\ IF OutOfRange # {}
       THEN /\ \E f \in OutOfRange : page' = [page EXCEPT !.ui.invalidField = f]
            /\ UNCHANGED reqVars
       ELSE /\ page' = [page EXCEPT !.ui.invalidField = "none"]
            /\ Send("settings", "none", page.ui.form)
    /\ UNCHANGED settings

HideToast ==
    /\ page.ui.toast
    /\ page' = [page EXCEPT !.ui.toast = FALSE]
    /\ UNCHANGED <<settings, reqVars>>

\* PUT /settings stores all, or nothing; the server may find a field wrong too.
ServeSettingsUpdate(q) ==
    /\ q.op = "settings" /\ q.state = "sent"
    /\ \/ settings' = q.val /\ \E state \in {"ok", "failed"} : Respond(q, state)
       \/ Respond(q, "failed") /\ UNCHANGED settings
    /\ UNCHANGED page

extractBackendValidationError(ui) ==
    \E f \in Fields \cup {"none"} : page' = [page EXCEPT !.ui.invalidField = f]

\* A save is over once the settings have been read again.
AnswerUpdate(q) ==
    /\ q.op = "settings" /\ Settle(q)
    /\ IF q.state = "ok"
       THEN page' = [page EXCEPT !.answer = Unread, !.asked = TRUE, !.told = q.here]
       ELSE IF q.here /\ Shown THEN extractBackendValidationError(page.ui) ELSE UNCHANGED page
    /\ UNCHANGED settings

\* Another window saves.
OtherWindow ==
    /\ \E f \in Fields, v \in Valid :
         settings[f] # v /\ settings' = [settings EXCEPT ![f] = v]
    /\ UNCHANGED <<page, reqVars>>

SettingsNext ==
    \/ ReadSettings \/ ServeSettings \/ AnswerSettings \/ RenderForm \/ changeTab \/ setForm
    \/ handleSave \/ HideToast \/ OtherWindow
    \/ \E q \in reqs : ServeSettingsUpdate(q) \/ AnswerUpdate(q)

-----------------------------------------------------------------------------
(* Properties. *)

\* A field the user has not touched is saved as it was last read, so that a save
\* does not undo what the page knows others have changed.
UntouchedAsShown ==
    [][\A q \in reqs' : q.op = "settings" /\ q.n > sent =>
          \A f \in Fields \ page.ui.touched : q.val[f] = page.cache[f]]_<<settingsVars, reqVars>>
=============================================================================
