---------------------------- MODULE AutoFetchSchedule ----------------------------
(***************************************************************************)
(* "Schedule Auto-fetch" of LiveTab/HimawariEmptyState.tsx: a preset is    *)
(* made for the view, then a schedule for the preset.  What is shown in    *)
(* place of a picture is taken away whenever the latest frame is asked for *)
(* again, and comes back without memory of what it has asked for.          *)
(***************************************************************************)
EXTENDS Integers, FiniteSets

CONSTANTS
    Views,    \* sector and band of Himawari-9
    MaxAsks   \* clicks in a session: a bound
ASSUME ScheduleAssumption == MaxAsks \in Nat

VARIABLES
    empty,  \* the empty state: shown or not, its view and the status it shows
    asks,   \* the clicks whose two posts are not both answered
    asked,  \* how many clicks there were
    plan    \* the server's presets and schedules
emptyVars == <<empty, asks, asked, plan>>

Hidden == [view |-> "none", scheduleStatus |-> "idle"]

EmptyInit ==
    /\ empty = Hidden /\ asks = {} /\ asked = 0
    /\ plan = [presets |-> {}, schedules |-> {}]

-----------------------------------------------------------------------------
(* The empty state. *)

\* The latest frame of the view is not there; later it is asked for again, has
\* come, or another view is chosen.
ShowEmpty ==
    /\ empty = Hidden
    /\ \E view \in Views : empty' = [Hidden EXCEPT !.view = view]
    /\ UNCHANGED <<asks, asked, plan>>
HideEmpty ==
    /\ empty # Hidden
    /\ empty' = Hidden
    /\ asks' = {[a EXCEPT !.here = FALSE] : a \in asks}
    /\ UNCHANGED <<asked, plan>>

\* Mutant: a preset the view has already is taken.
TakesThePreset(view) ==
    LET kept == {p \in plan.presets : p.name = view}
    IN  IF kept = {} THEN [step |-> "preset", preset |-> 0]
        ELSE [step |-> "schedule", preset |-> (CHOOSE p \in kept : TRUE).id]

FirstPost(view) == [step |-> "preset", preset |-> 0]

handleScheduleAutoFetch ==
    /\ empty # Hidden /\ empty.scheduleStatus \notin {"loading", "success"}
    /\ asked < MaxAsks /\ asked' = asked + 1
    /\ empty' = [empty EXCEPT !.scheduleStatus = "loading"]
    /\ asks' = asks \cup {[n |-> asked', view |-> empty.view, here |-> TRUE, state |-> "sent",
                           step |-> FirstPost(empty.view).step,
                           preset |-> FirstPost(empty.view).preset]}
    /\ UNCHANGED plan

Becomes(a, next) == asks' = (asks \ {a}) \cup {next}

\* An answer comes: the second post follows the first, also when nothing shows it.
AnswerPost(a) ==
    /\ a.state # "sent"
    /\ IF a.state = "ok" /\ a.step = "preset"
       THEN /\ Becomes(a, [a EXCEPT !.step = "schedule", !.state = "sent"])
            /\ UNCHANGED empty
       ELSE /\ asks' = asks \ {a}
            /\ empty' = IF ~a.here THEN empty
                        ELSE [empty EXCEPT !.scheduleStatus =
                                IF a.state = "ok" THEN "success" ELSE "error"]
    /\ UNCHANGED <<asked, plan>>

-----------------------------------------------------------------------------
(* The server. *)

\* The empty state names its preset after the view, and names are unique; what is done may still
\* be answered with a failure, when the answer is lost or late.
ServePreset(a) ==
    /\ a.step = "preset" /\ a.state = "sent"
    /\ \/ /\ \A p \in plan.presets : p.name # a.view
          /\ plan' = [plan EXCEPT !.presets = @ \cup {[id |-> a.n, name |-> a.view]}]
          /\ \E state \in {"ok", "failed"} : Becomes(a, [a EXCEPT !.state = state, !.preset = a.n])
       \/ Becomes(a, [a EXCEPT !.state = "failed"]) /\ UNCHANGED plan
    /\ UNCHANGED <<empty, asked>>

\* A schedule needs its preset.
ServeSchedule(a) ==
    /\ a.step = "schedule" /\ a.state = "sent"
    /\ \/ /\ \E p \in plan.presets : p.id = a.preset
          /\ plan' = [plan EXCEPT !.schedules = @ \cup {[id |-> a.n, preset |-> a.preset]}]
          /\ \E state \in {"ok", "failed"} : Becomes(a, [a EXCEPT !.state = state])
       \/ Becomes(a, [a EXCEPT !.state = "failed"]) /\ UNCHANGED plan
    /\ UNCHANGED <<empty, asked>>

\* On another page: a preset is deleted, its schedules with it.
DeleteAutoPreset ==
    /\ \E p \in plan.presets :
         plan' = [presets |-> plan.presets \ {p},
                  schedules |-> {s \in plan.schedules : s.preset # p.id}]
    /\ UNCHANGED <<empty, asks, asked>>

\* There too: a preset gets a name of the user's own, or that of a view again.  What
\* else is edited there is left out.
RenameAutoPreset ==
    /\ \E p \in plan.presets, name \in Views \cup {"own"} :
         /\ name = "own" \/ \A q \in plan.presets : q.name # name
         /\ plan' = [plan EXCEPT !.presets = (@ \ {p}) \cup {[p EXCEPT !.name = name]}]
    /\ UNCHANGED <<empty, asks, asked>>

EmptyNext ==
    \/ ShowEmpty \/ HideEmpty \/ handleScheduleAutoFetch \/ DeleteAutoPreset \/ RenameAutoPreset
    \/ \E a \in asks : AnswerPost(a) \/ ServePreset(a) \/ ServeSchedule(a)

-----------------------------------------------------------------------------
(* Properties. *)

NameOf(s) == (CHOOSE p \in plan.presets : p.id = s.preset).name

\* However often the empty state forgets that it has asked, answers are lost and
\* presets are deleted or renamed: no preset is scheduled twice, nor is a view,
\* under the name the empty state gives; a preset of another name is the user's.
ScheduledOnce ==
    \A s, t \in plan.schedules :
        s.preset = t.preset \/ (NameOf(s) = NameOf(t) /\ NameOf(s) # "own") => s = t
=============================================================================
