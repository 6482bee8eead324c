------------------------------- MODULE ErrorReports ------------------------------
(***************************************************************************)
(* The errors of the front end: utils/errorReporter.ts, which queues them  *)
(* and posts them in batches, the toasts main.tsx shows for them           *)
(* (components/Toast.tsx), and pages/ErrorDashboard.tsx, which lists what  *)
(* the server has recorded, page by page.                                  *)
(***************************************************************************)
EXTENDS Integers, FiniteSets, Sequences

CONSTANTS
    MAX_QUEUE,  \* reports queued between two batches
    MaxErrors,  \* errors of a session: a bound
    MaxReads,   \* lists of the dashboard in flight: a bound
    PerPage     \* errors of a page of the dashboard
ASSUME ReportsAssumption == {MAX_QUEUE, MaxErrors, MaxReads, PerPage} \subseteq Nat \ {0}

VARIABLES
    reporter,  \* [made, queue, flushTimer, running, sending, toasts]
    log,       \* the server's log, newest first
    dash       \* the dashboard: [open, errors, total, page, loading, clearing, reads, asked]
reportVars == <<reporter, log, dash>>

ClosedDash == [open |-> FALSE, errors |-> <<>>, total |-> 0, page |-> 1, loading |-> FALSE,
               clearing |-> "no", reads |-> {}, asked |-> 0]
ReportsInit ==
    /\ reporter = [made |-> 0, queue |-> <<>>, flushTimer |-> FALSE, running |-> FALSE,
                   sending |-> {}, toasts |-> {}]
    /\ log = <<>> /\ dash = ClosedDash

-----------------------------------------------------------------------------
(* The reporter. *)

\* An error is queued if there is room, has the batch scheduled if it is not,
\* and is shown.
reportError ==
    /\ reporter.made < MaxErrors
    /\ reporter' = [reporter EXCEPT
         !.made = @ + 1,
         !.queue = IF Len(@) < MAX_QUEUE THEN Append(@, reporter.made + 1) ELSE @,
         !.running = @ \/ ~reporter.flushTimer, !.flushTimer = TRUE,
         !.toasts = @ \cup {reporter.made + 1}]
    /\ UNCHANGED <<log, dash>>

NoTimer == FALSE

\* flushErrors: each report of the batch is a request of its own.
flushErrors ==
    /\ reporter.running
    /\ reporter' = [reporter EXCEPT
         !.running = FALSE, !.flushTimer = NoTimer, !.queue = <<>>,
         !.sending = @ \cup {reporter.queue[i] : i \in 1..Len(reporter.queue)}]
    /\ UNCHANGED <<log, dash>>

\* A report arrives, or nobody learns that it did not.
PostError(e) ==
    /\ e \in reporter.sending
    /\ reporter' = [reporter EXCEPT !.sending = @ \ {e}]
    /\ log' \in {<<e>> \o log, log}
    /\ UNCHANGED dash

\* A toast has had its time, or was dismissed.
removeToast(e) ==
    /\ e \in reporter.toasts
    /\ reporter' = [reporter EXCEPT !.toasts = @ \ {e}]
    /\ UNCHANGED <<log, dash>>

-----------------------------------------------------------------------------
(* The dashboard. *)

Upper(a, b) == IF a > b THEN a ELSE b
Lower(a, b) == IF a < b THEN a ELSE b
totalPages == Upper(1, (dash.total + PerPage - 1) \div PerPage)
Errors(page) == SubSeq(log, (page - 1) * PerPage + 1, Lower(page * PerPage, Len(log)))

fetchErrors(state, page) ==
    /\ Cardinality(state.reads) < MaxReads
    /\ dash' = [state EXCEPT !.loading = TRUE, !.asked = (@ + 1) % (MaxReads + 1),
                  !.reads = @ \cup {[n |-> state.asked, page |-> page, answered |-> FALSE,
                                     items |-> <<>>, total |-> 0]}]
    /\ UNCHANGED <<reporter, log>>

OpenDashboard == ~dash.open /\ fetchErrors([ClosedDash EXCEPT !.open = TRUE], 1)
LeaveDashboard == dash.open /\ dash' = ClosedDash /\ UNCHANGED <<reporter, log>>

PageOfNow == dash.page

\* The interval and the button.
AutoRefresh == dash.open /\ fetchErrors(dash, PageOfNow)
Refresh == dash.open /\ ~dash.loading /\ fetchErrors(dash, dash.page)

setPage ==
    /\ dash.open /\ totalPages > 1
    /\ \E page \in {Upper(1, dash.page - 1), Lower(totalPages, dash.page + 1)} \ {dash.page} :
         fetchErrors([dash EXCEPT !.page = page], page)

ServeErrors(r) ==
    /\ r \in dash.reads /\ ~r.answered
    /\ dash' = [dash EXCEPT !.reads = (@ \ {r}) \cup {[r EXCEPT
                  !.answered = TRUE, !.items = Errors(r.page), !.total = Len(log)]}]
    /\ UNCHANGED <<reporter, log>>

\* Lists are shown as they come, whichever page is looked at by then.
AnswerErrors(r) ==
    /\ r \in dash.reads /\ r.answered
    /\ dash' = [dash EXCEPT !.reads = @ \ {r}, !.loading = FALSE,
                            !.errors = r.items, !.total = r.total]
    /\ UNCHANGED <<reporter, log>>

\* The list does not come: what is shown stays.
ErrorsFail(r) ==
    /\ r \in dash.reads /\ ~r.answered
    /\ dash' = [dash EXCEPT !.reads = @ \ {r}, !.loading = FALSE]
    /\ UNCHANGED <<reporter, log>>

\* Clear All: asked, carried out or not, answered; a first page is read for it
\* only if another was looked at.
handleClear ==
    /\ dash.open /\ dash.clearing = "no"
    /\ dash' = [dash EXCEPT !.clearing = "asked"]
    /\ UNCHANGED <<reporter, log>>
ServeClear ==
    /\ dash.clearing = "asked"
    /\ \/ log' = <<>> /\ dash' = [dash EXCEPT !.clearing = "done"]
       \/ log' \in {<<>>, log} /\ dash' = [dash EXCEPT !.clearing = "no"]
    /\ UNCHANGED reporter
AnswerClear ==
    /\ dash.clearing = "done"
    /\ LET cleared == [dash EXCEPT !.clearing = "no", !.errors = <<>>, !.total = 0, !.page = 1]
       IN  IF dash.page = 1 THEN dash' = cleared /\ UNCHANGED <<reporter, log>>
           ELSE fetchErrors(cleared, 1)

ReportsNext ==
    \/ reportError \/ flushErrors
    \/ \E e \in 1..MaxErrors : PostError(e) \/ removeToast(e)
    \/ OpenDashboard \/ LeaveDashboard \/ AutoRefresh \/ Refresh \/ setPage
    \/ \E r \in dash.reads : ServeErrors(r) \/ AnswerErrors(r) \/ ErrorsFail(r)
    \/ handleClear \/ ServeClear \/ AnswerClear

\* The interval ticks, lists come and some are read.
ReportsFairness ==
    /\ WF_reportVars(AutoRefresh)
    /\ SF_reportVars(\E r \in dash.reads : ServeErrors(r))
    /\ \A n \in 0..MaxReads : WF_reportVars(\E r \in dash.reads : r.n = n /\ AnswerErrors(r))

-----------------------------------------------------------------------------
(* Properties. *)

\* A report that is queued has a timer running that will post it, whenever it
\* came: before a batch, while one is sent, or after.
QueuedIsFlushed == reporter.queue # <<>> => reporter.running

\* A dashboard that stays open comes to show what there is of the page looked
\* at, in whichever order lists, clearings and pages came before.
DashboardCatchesUp ==
    (<>[][UNCHANGED <<log, dash.page, dash.open, dash.clearing>>]_reportVars
        /\ <>[](dash.open))
        => <>[](dash.errors = Errors(dash.page))
=============================================================================
