----------------------------- MODULE GapBackfill ------------------------------
(***************************************************************************)
(* Looking for gaps and filling them: components/GoesData/GapsTab.tsx.  A  *)
(* selection stands for satellite, band and expected interval, the key of  *)
(* the coverage query; the query runs when it is asked to, never by itself.*)
(***************************************************************************)
EXTENDS Requests

CONSTANT Selections  \* what the three controls can be set to
ASSUME GapsAssumption == Selections # {} /\ IsFiniteSet(Selections)

VARIABLES
    gaps,     \* the tab: [selection, dialog, of, coverage, failed]
    missing   \* the server: whether frames of a selection are missing
gapVars == <<gaps, missing>>

\* coverage[s] is the answer cached for s: none, complete or gaps; dialog is the
\* confirmation that is open, none, one gap or all, and of the selection of that gap.
GapsInit ==
    /\ missing \in [Selections -> BOOLEAN]
    /\ \E first \in Selections :
         gaps = [selection |-> first, dialog |-> "none", of |-> first, failed |-> FALSE,
                 coverage |-> [s \in Selections |-> "none"]]

Shown == gaps.coverage[gaps.selection]

\* The controls: another key, another cached answer; an open dialog stays open.
SelectGaps(s) ==
    /\ gaps' = [gaps EXCEPT !.selection = s, !.failed = FALSE]
    /\ UNCHANGED <<missing, reqVars>>

\* Detect Gaps: one lookup of a selection at a time (a second one restarts it).
DetectGaps ==
    /\ ~\E q \in reqs : q.op = "detect" /\ q.id = gaps.selection
    /\ Send("detect", gaps.selection, FALSE)
    /\ UNCHANGED gapVars

\* The buttons of the list of gaps, and Cancel in the confirmation.
OpenBackfill(dialog) ==
    /\ dialog # "none" => Shown = "gaps" /\ ~isPending("backfill")
    /\ gaps' = [gaps EXCEPT !.dialog = dialog,
                            !.of = IF dialog = "one" THEN gaps.selection ELSE @]
    /\ UNCHANGED <<missing, reqVars>>

\* The confirmation is part of the results, and waits for the job before.
OffersBackfill == gaps.dialog # "none" /\ Shown # "none" /\ ~isPending("backfill")

\* One gap or all: the server is asked to fill every gap of the selection.
executeBackfill ==
    /\ OffersBackfill
    /\ Send("backfill", gaps.selection, FALSE)
    /\ UNCHANGED gapVars

LeaveGaps ==
    /\ Unmount
    /\ \E first \in Selections :
         gaps' = [gaps EXCEPT !.selection = first, !.dialog = "none", !.of = first,
                              !.failed = FALSE]
    /\ UNCHANGED missing

-----------------------------------------------------------------------------
(* The server and its answers. *)

\* A detection reads the frames; a backfill makes a job, whose end is its own.
ServeGaps(q) ==
    /\ \E state \in {"ok", "failed"} : Respond(q, state)
    /\ UNCHANGED gapVars

BackfillRuns(s) ==
    /\ missing[s]
    /\ missing' = [missing EXCEPT ![s] = FALSE]
    /\ UNCHANGED <<gaps, reqVars>>

\* A backfill that was accepted closes the dialog and invalidates the coverage,
\* which is disabled as a query: what is cached stays until it is asked for again.
AnswerGaps(q) ==
    /\ Settle(q)
    /\ gaps' = CASE q.op = "detect" /\ q.state = "ok" ->
                      [gaps EXCEPT !.coverage[q.id] = IF missing[q.id] THEN "gaps" ELSE "complete"]
                 [] q.op = "detect" /\ q.state = "failed" ->
                      [gaps EXCEPT !.failed = @ \/ q.id = gaps.selection]
                 [] q.op = "backfill" /\ q.state = "ok" /\ q.here ->
                      [gaps EXCEPT !.dialog = "none"]
                 [] OTHER -> gaps
    /\ UNCHANGED missing

GapsUser ==
    \/ DetectGaps \/ executeBackfill \/ LeaveGaps
    \/ \E s \in Selections : SelectGaps(s)
    \/ \E dialog \in {"none", "one", "all"} : OpenBackfill(dialog)
GapsServer ==
    \/ \E q \in reqs : ServeGaps(q) \/ AnswerGaps(q)
    \/ \E s \in Selections : BackfillRuns(s)
GapsNext == GapsUser \/ GapsServer

-----------------------------------------------------------------------------
(* Properties. *)

GapsTypeOK ==
    /\ gaps.selection \in Selections /\ gaps.of \in Selections
    /\ gaps.dialog \in {"none", "one", "all"}
    /\ gaps.coverage \in [Selections -> {"none", "complete", "gaps"}]

\* A backfill is asked only for a selection whose coverage the page has looked
\* up, although the dialog outlives a change of the selection.
BackfillAfterDetection ==
    \A q \in reqs : q.op = "backfill" => gaps.coverage[q.id] # "none"
=============================================================================
