----------------------------- MODULE CleanupRules -----------------------------
(***************************************************************************)
(* The retention settings: components/GoesData/CleanupTab.tsx.  Rules are  *)
(* numbered as they are created; a rule is active or not, and a manual     *)
(* cleanup applies those that are active when it runs.                     *)
(***************************************************************************)
EXTENDS Requests

CONSTANT MaxRules  \* rules ever created
ASSUME CleanupAssumption == MaxRules \in Nat \ {0}

VARIABLES
    cleanup,  \* the tab: its dialogs and what its queries show
    ruleDb    \* the server's rules: active, inactive or deleted
cleanupVars == <<cleanup, ruleDb>>

\* asked[r] is the state the last click on the switch of rule r asked for,
\* "any" when none is known to count.  The list may be one cached before
\* another window switched the rule.
CleanupInit ==
    /\ ruleDb = <<"active">>
    /\ \E shown \in {<<"active">>, <<"inactive">>} :
         cleanup = [create |-> FALSE, confirm |-> FALSE, preview |-> FALSE,
                    shown |-> shown,
                    asked |-> [r \in 1..MaxRules |-> "any"]]

Listed(rules) == {r \in DOMAIN rules : rules[r] # "deleted"}

-----------------------------------------------------------------------------
(* What the user may do. *)

\* New Rule and its form's Cancel; Run Now and its dialog's Cancel; Preview, a
\* query of that button alone that nothing else refreshes.
OpenDialog ==
    /\ \/ cleanup' = [cleanup EXCEPT !.create = ~@]
       \/ /\ cleanup.confirm \/ ~isPending("run")
          /\ cleanup' = [cleanup EXCEPT !.confirm = ~@]
       \/ cleanup' = [cleanup EXCEPT !.preview = TRUE]
    /\ UNCHANGED <<ruleDb, reqVars>>

\* Create waits for a name, and not for the request before.
createRule ==
    /\ cleanup.create
    /\ Send("create", 0, "active")
    /\ UNCHANGED cleanupVars

\* Mutant: the switches stay enabled while a rule is being toggled.
CanToggleAlways(r) == r \in Listed(cleanup.shown)

CanToggle(r) == r \in Listed(cleanup.shown) /\ ~isPending("toggle")

\* The switch of a rule asks for the opposite of what its row shows.
toggleRule(r) ==
    /\ CanToggle(r)
    /\ LET asked == IF cleanup.shown[r] = "active" THEN "inactive" ELSE "active"
       IN  /\ Send("toggle", r, asked)
           /\ cleanup' = [cleanup EXCEPT !.asked[r] = asked]
    /\ UNCHANGED ruleDb

deleteRule(r) ==
    /\ r \in Listed(cleanup.shown) /\ ~isPending("delete")
    /\ Send("delete", r, "deleted")
    /\ UNCHANGED cleanupVars

runCleanup ==
    /\ cleanup.confirm /\ ~isPending("run")
    /\ Send("run", 0, "none")
    /\ cleanup' = [cleanup EXCEPT !.confirm = FALSE]
    /\ UNCHANGED ruleDb

\* The page is left for another one, and comes back with what it had cached.
LeaveCleanup ==
    /\ Unmount
    /\ cleanup' = [cleanup EXCEPT !.create = FALSE, !.confirm = FALSE]
    /\ UNCHANGED ruleDb

-----------------------------------------------------------------------------
(* The server and its answers. *)

ApplyRule(q) ==
    IF q.op = "create" THEN Append(ruleDb, "active")
    ELSE IF q.op = "run" THEN ruleDb ELSE [ruleDb EXCEPT ![q.id] = q.val]

AcceptsRule(q) ==
    /\ q.op = "create" => Len(ruleDb) < MaxRules
    /\ q.op \in {"toggle", "delete"} => ruleDb[q.id] # "deleted"

\* Also a request that is carried out may fail for the page: its answer is lost.
ServeRule(q) ==
    /\ \/ /\ AcceptsRule(q) /\ ruleDb' = ApplyRule(q)
          /\ \E state \in {"ok", "failed"} : Respond(q, state)
       \/ Respond(q, "failed") /\ UNCHANGED ruleDb
    /\ UNCHANGED cleanup

\* onSuccess and onError: an error only says so; a success invalidates the list.
AnswerRule(q) ==
    /\ Settle(q)
    /\ cleanup' = IF q.state = "ok"
         THEN [cleanup EXCEPT !.create = @ /\ ~(q.op = "create" /\ q.here)]
         ELSE IF q.op = "toggle" THEN [cleanup EXCEPT !.asked[q.id] = "any"] ELSE cleanup
    /\ UNCHANGED ruleDb

\* The rules' query: after an invalidation, or when the window is focused.
RefetchRules ==
    /\ cleanup.shown # ruleDb
    /\ cleanup' = [cleanup EXCEPT !.shown = ruleDb]
    /\ UNCHANGED <<ruleDb, reqVars>>

CleanupUser ==
    \/ OpenDialog \/ createRule \/ runCleanup \/ LeaveCleanup
    \/ \E r \in DOMAIN cleanup.shown : toggleRule(r) \/ deleteRule(r)

CleanupNext ==
    CleanupUser \/ RefetchRules \/ \E q \in reqs : ServeRule(q) \/ AnswerRule(q)

-----------------------------------------------------------------------------
(* Properties. *)

CleanupTypeOK ==
    /\ ruleDb \in Seq({"active", "inactive", "deleted"}) /\ Len(ruleDb) <= MaxRules
    /\ Len(cleanup.shown) <= Len(ruleDb)
    /\ {cleanup.create, cleanup.confirm, cleanup.preview} \subseteq BOOLEAN

\* Once its requests are answered, a rule is in the state that the last click
\* on its switch asked for, however often it was clicked and whatever order the
\* server took the requests in (unless the page was left with one in flight).
SwitchTakesEffect ==
    \A r \in DOMAIN ruleDb :
        \/ left \/ cleanup.asked[r] = "any" \/ ruleDb[r] = "deleted"
        \/ \E q \in reqs : q.op = "toggle" /\ q.id = r
        \/ ruleDb[r] = cleanup.asked[r]
=============================================================================
