-------------------------------- MODULE JobFeed -------------------------------
(***************************************************************************)
(* The lists every page carries.  The jobs: pages/Jobs.tsx with            *)
(* components/Jobs/JobList.tsx, the bar of GoesData/FetchProgressBar.tsx   *)
(* and the toasts of hooks/useJobToasts.ts, read by the queries of         *)
(* hooks/useApi.ts.  The notifications: components/NotificationBell.tsx,   *)
(* of which Layout mounts two that share one query and its cache; the      *)
(* width of the window shows one.  While /ws/status is connected nothing   *)
(* polls.                                                                  *)
(***************************************************************************)
EXTENDS Requests

CONSTANTS
    Ids,       \* jobs, numbered as they are made
    Ends,      \* statuses in which they end
    MaxWork,   \* how often a status is written: a bound
    ListLimit, \* rows of a list of jobs: twenty
    BarLimit,  \* rows of the bar's: ten
    Filters,   \* the filters of the list that are used
    MaxNotes,  \* notifications there are in the end: a bound
    ShownRows  \* rows of their list: the newest ten
ASSUME BellAssumption == MaxNotes \in Nat /\ ShownRows \in Nat \ {0}

VARIABLES
    jobs,   \* the server's jobs: their status, "none" before and "deleted" after
    work,   \* how often a status was written, and how often each job came to an end
    feed,   \* their queries' caches and fetches, and what the page keeps
    toasts, \* how often each was shown
    notes,  \* the server's notifications, oldest first: have they been read?
    bell    \* their query and its cache, and what the bell shows
feedVars == <<jobs, work, feed, toasts>>
bellVars == <<notes, bell>>

Active == {"pending", "processing"}
\* What each list keeps of the jobs it reads.
STATUS_FILTER_MAP ==
    [All |-> Active \cup Ends, Running |-> Active,
     Completed |-> {"completed", "completed_partial"}, Failed |-> {"failed", "cancelled"}]
ASSUME FeedAssumption == /\ Ids \subseteq Nat \ {0} /\ {ListLimit, BarLimit} \subseteq Nat \ {0}
                         /\ MaxWork \in Nat
                         /\ "All" \in Filters /\ Filters \subseteq DOMAIN STATUS_FILTER_MAP
\* The queries: one for each filter of the list, and the bar's.
Keys == Filters \cup {"active-jobs"}

\* The server looks at no filter: a list holds the newest jobs, whatever their status.
Limit(k) == IF k = "active-jobs" THEN BarLimit ELSE ListLimit
There == {j \in Ids : jobs[j] \notin {"none", "deleted"}}
Newest(n) == {j \in There : Cardinality({i \in There : i > j}) < n}
Rows(k) == [j \in Newest(Limit(k)) |-> jobs[j]]
NoJob == 0
NoRows == [j \in {} |-> "none"]

\* The statuses that are announced.
Toasted == {"completed", "failed"}

FeedInit ==
    /\ jobs \in [Ids -> {"none", "processing"} \cup Ends]
    /\ \A j \in There, i \in Ids : i < j => i \in There
    /\ work = [writes |-> 0, ends |-> [j \in Ids |-> [status \in Toasted |-> 0]]]
    /\ \E linked \in BOOLEAN :
         feed = [cache |-> [k \in Keys |-> NoRows], read |-> {}, asked |-> {},
                 answer |-> [k \in Keys |-> NoRows], answered |-> {}, linked |-> linked,
                 filter |-> "All", onPage |-> FALSE, selected |-> NoJob,
                 deleting |-> NoJob, gone |-> {}]
    /\ toasts = [j \in Ids |-> [status \in Toasted |-> 0]]

-----------------------------------------------------------------------------
(* The server: jobs are made and run. *)

Create ==
    /\ \E j \in Ids :
         /\ jobs[j] = "none" /\ \A i \in Ids : i < j => jobs[i] # "none"
         /\ jobs' = [jobs EXCEPT ![j] = "pending"]
    /\ UNCHANGED <<work, feed, toasts, reqVars>>

\* Whoever writes a status looks at none before: a retry or another delivery runs a job
\* again, and what the sweep gave up or the user cancelled may still complete.
Work ==
    /\ work.writes < MaxWork
    /\ \E j \in There, status \in Ends \cup {"processing"} :
         /\ jobs[j] # status
         /\ jobs' = [jobs EXCEPT ![j] = status]
         /\ work' = [writes |-> work.writes + 1,
                     ends |-> IF status \in Toasted
                              THEN [work.ends EXCEPT ![j][status] = @ + 1] ELSE work.ends]
    /\ UNCHANGED <<feed, toasts, reqVars>>

-----------------------------------------------------------------------------
(* The queries. *)

\* useJobToasts has the list of all jobs read on every page, the bar its own.
Mounted == {"All", "active-jobs"} \cup
           IF feed.onPage /\ feed.selected = NoJob THEN {feed.filter} ELSE {}

\* The interval, a remount or the window's focus have a list read; one list at
\* a time, a bound.
FetchJobs(k) ==
    /\ k \in Mounted /\ feed.asked \cup feed.answered = {}
    /\ feed' = [feed EXCEPT !.asked = @ \cup {k}]
    /\ UNCHANGED <<jobs, work, toasts, reqVars>>

\* Mutant: the websocket is not asked.
PollsAnyway == feed.linked

wsGatedRefetchInterval == ~feed.linked

ServeJobs(k) ==
    /\ k \in feed.asked
    /\ feed' = [feed EXCEPT !.asked = @ \ {k}, !.answered = @ \cup {k}, !.answer[k] = Rows(k)]
    /\ UNCHANGED <<jobs, work, toasts, reqVars>>

ReadFails(k) ==
    /\ k \in feed.asked
    /\ feed' = [feed EXCEPT !.asked = @ \ {k}]
    /\ UNCHANGED <<jobs, work, toasts, reqVars>>

Became(old, new, status) == old # new /\ new = status

\* The toasts for a new list of all jobs: those seen in another status before.
useJobToasts(rows) ==
    LET prev == feed.cache["All"]
        Toast(j, status) == /\ "All" \in feed.read /\ j \in DOMAIN rows \cap DOMAIN prev
                            /\ Became(prev[j], rows[j], status)
    IN  [j \in Ids |-> [status \in Toasted |->
           toasts[j][status] + IF Toast(j, status) THEN 1 ELSE 0]]

AnswerJobs(k) ==
    /\ k \in feed.answered
    /\ LET rows == feed.answer[k]
           settled == [feed EXCEPT !.cache[k] = rows, !.read = @ \cup {k},
                                   !.answered = @ \ {k}, !.answer[k] = NoRows]
       IN  IF k # "All" THEN feed' = settled /\ UNCHANGED toasts
           ELSE feed' = settled /\ toasts' = useJobToasts(rows)
    /\ UNCHANGED <<jobs, work, reqVars>>

\* The status websocket connects and closes: StatusSocket.
LinkTurns ==
    /\ feed' = [feed EXCEPT !.linked = ~@]
    /\ UNCHANGED <<jobs, work, toasts, reqVars>>

-----------------------------------------------------------------------------
(* The page of the jobs and the bar. *)

filterJobsByStatus(k, statuses) ==
    {j \in DOMAIN feed.cache[k] : feed.cache[k][j] \in statuses}
displayed == filterJobsByStatus(feed.filter, STATUS_FILTER_MAP[feed.filter])
Bar == filterJobsByStatus("active-jobs", Active)

VisitJobs ==
    /\ feed' = [feed EXCEPT !.onPage = ~@, !.filter = "All", !.selected = NoJob,
                            !.deleting = NoJob]
    /\ Unmount /\ UNCHANGED <<jobs, work, toasts>>

\* The choice of a filter is drawn above the rows only.
SetStatusFilter ==
    /\ feed.onPage /\ feed.selected = NoJob /\ feed.deleting = NoJob /\ displayed # {}
    /\ \E filter \in Filters : feed' = [feed EXCEPT !.filter = filter]
    /\ UNCHANGED <<jobs, work, toasts, reqVars>>

\* A row is opened; handleBack leaves the monitor.
handleSelect ==
    /\ feed.onPage /\ feed.deleting = NoJob
    /\ \E j \in IF feed.selected = NoJob THEN displayed ELSE {NoJob} :
         feed' = [feed EXCEPT !.selected = j, !.filter = "All"]
    /\ UNCHANGED <<jobs, work, toasts, reqVars>>

\* The dialog is asked for, cancelled, or confirmed.  It goes with the list.
DeleteRow ==
    /\ feed.onPage /\ feed.selected = NoJob
    /\ \/ /\ feed.deleting = NoJob
          /\ \E j \in displayed : feed' = [feed EXCEPT !.deleting = j]
          /\ UNCHANGED reqVars
       \/ /\ feed.deleting # NoJob /\ displayed # {}
          /\ feed' = [feed EXCEPT !.deleting = NoJob]
          /\ \/ UNCHANGED reqVars
             \/ ~isPending("job") /\ Send("job", feed.deleting, "none")
    /\ UNCHANGED <<jobs, work, toasts>>

\* Mutant: a fetch that is under way will do.
JoinsFetches ==
    [feed EXCEPT !.asked = @ \cup ((Mounted \cap Filters) \ feed.answered)]

\* The lists that are shown are read again, the bar's is not: from the start, but
\* for one whose first answer is still to come.
Invalidated ==
    LET keys == Mounted \cap Filters
        again == keys \cap feed.read
    IN  [feed EXCEPT !.asked = @ \cup (keys \ (feed.answered \ again)),
                     !.answered = @ \ again,
                     !.answer = [k \in Keys |-> IF k \in again THEN NoRows ELSE @[k]]]

AnswerJobDelete(q) ==
    /\ q.op = "job"
    /\ \/ /\ jobs' = [jobs EXCEPT ![q.id] = "deleted"]
          /\ \E state \in {"ok", "failed"} : Respond(q, state)
          /\ UNCHANGED feed
       \/ Respond(q, "failed") /\ UNCHANGED <<jobs, feed>>
       \/ /\ Settle(q)
          /\ feed' = IF q.state = "ok" THEN [Invalidated EXCEPT !.gone = @ \cup {q.id}]
                     ELSE feed
          /\ UNCHANGED jobs
    /\ UNCHANGED <<work, toasts>>

\* The interval of a list.
Poll(k) == wsGatedRefetchInterval /\ FetchJobs(k)

FeedNext ==
    \/ Create \/ Work \/ LinkTurns \/ VisitJobs \/ SetStatusFilter \/ handleSelect \/ DeleteRow
    \/ \E k \in Keys : FetchJobs(k) \/ ServeJobs(k) \/ ReadFails(k) \/ AnswerJobs(k)
    \/ \E q \in reqs : AnswerJobDelete(q)

\* Intervals tick, lists are read again and again and sometimes with success.
\* Strong fairness: lists wait for each other here only, and reading may fail.
FeedFairness ==
    /\ \A k \in {"All", "active-jobs"} : SF_<<feedVars, reqVars>>(Poll(k))
    /\ \A k \in {"All", "active-jobs"} : SF_<<feedVars, reqVars>>(ServeJobs(k))
    /\ WF_<<feedVars, reqVars>>(\E k \in Keys : ServeJobs(k))
    /\ WF_<<feedVars, reqVars>>(\E k \in Keys : AnswerJobs(k))

-----------------------------------------------------------------------------
(* The bell of the notifications. *)

BellInit ==
    /\ notes = <<>>
    /\ bell = [cache |-> <<>>, fetch |-> "idle", answer |-> <<>>,
               isError |-> FALSE, open |-> FALSE, marked |-> {}]

-----------------------------------------------------------------------------
(* The server of the notifications. *)

\* Whatever writes the table: no code of the application does.
Notify ==
    /\ Len(notes) < MaxNotes
    /\ notes' = Append(notes, FALSE)
    /\ UNCHANGED <<bell, reqVars>>

-----------------------------------------------------------------------------
(* Their query. *)

\* The interval, the window's focus or a mount.  What is under way answers both
\* bells; the interval ticks while the websocket is down, the others whenever.
FetchNotifications ==
    /\ bell.fetch = "idle"
    /\ bell' = [bell EXCEPT !.fetch = "asked"]
    /\ UNCHANGED <<notes, reqVars>>

ServeNotifications ==
    /\ bell.fetch = "asked"
    /\ bell' = [bell EXCEPT !.fetch = "answered", !.answer = notes]
    /\ UNCHANGED <<notes, reqVars>>

\* Nothing is retried at once; what was read before is kept behind the error.
NotificationsFail ==
    /\ bell.fetch # "idle"
    /\ bell' = [bell EXCEPT !.fetch = "idle", !.answer = <<>>, !.isError = TRUE]
    /\ UNCHANGED <<notes, reqVars>>

AnswerNotifications ==
    /\ bell.fetch = "answered"
    /\ bell' = [bell EXCEPT !.fetch = "idle", !.answer = <<>>, !.isError = FALSE,
                            !.cache = bell.answer]
    /\ UNCHANGED <<notes, reqVars>>

-----------------------------------------------------------------------------
(* The bell and its list. *)

\* The button of the bell, or a click beside it.
ToggleOpen ==
    /\ bell' = [bell EXCEPT !.open = ~@]
    /\ UNCHANGED <<notes, reqVars>>

\* The rows: the newest first, and no more than there is room for.
BellRows == IF bell.isError \/ ~bell.open THEN {}
        ELSE {n \in DOMAIN bell.cache : n > Len(bell.cache) - ShownRows}

markRead ==
    /\ \E n \in BellRows : ~bell.cache[n] /\ Send("read", n, "none")
    /\ UNCHANGED bellVars

\* A fetch that is under way is given up: the list that was clicked is there.
RefetchNotifications == [bell EXCEPT !.fetch = "asked", !.answer = <<>>]

ServeMarkRead(q) ==
    /\ q.op = "read"
    /\ \/ notes' = [notes EXCEPT ![q.id] = TRUE] /\ \E state \in {"ok", "failed"} : Respond(q, state)
       \/ UNCHANGED notes /\ Respond(q, "failed")
    /\ UNCHANGED bell

AnswerMarkRead(q) ==
    /\ q.op = "read" /\ Settle(q)
    /\ bell' = IF q.state = "ok" THEN [RefetchNotifications EXCEPT !.marked = @ \cup {q.id}]
               ELSE bell
    /\ UNCHANGED notes

BellNext ==
    \/ Notify \/ FetchNotifications \/ ServeNotifications
    \/ NotificationsFail \/ AnswerNotifications \/ ToggleOpen \/ markRead
    \/ \E q \in reqs : ServeMarkRead(q) \/ AnswerMarkRead(q)

-----------------------------------------------------------------------------
(* Properties. *)

\* An end of a job is announced no more than once, however often it is read and
\* whatever lists are given up or pushed out of sight between: a job that has failed,
\* is run again and fails is announced twice and no more.
ToastedOncePerEnd ==
    \A j \in Ids, status \in Toasted : toasts[j][status] <= work.ends[j][status]

\* A job whose deletion was answered is in no list of all jobs that comes after,
\* also when one was being read meanwhile.
DeletedStaysUnlisted ==
    [][feed'.cache["All"] # feed.cache["All"]
          => feed.gone \cap DOMAIN feed'.cache["All"] = {}]_feedVars

\* While the websocket stays down the list of all jobs comes to hold the newest as
\* they are, and the bar those of the newest that are active.  Older ones are not
\* shown, active though they may be.
ListsCatchUp ==
    (<>[](~feed.linked)) =>
        <>[](/\ feed.cache["All"] = Rows("All")
             /\ Bar = {j \in Newest(BarLimit) : jobs[j] \in Active})

\* A notification that was marked read and answered so is not shown unread again,
\* also when the list was being read meanwhile.
ReadStaysRead ==
    [][bell'.cache # bell.cache => \A n \in bell.marked : n \in DOMAIN bell'.cache
                                       => bell'.cache[n]]_bellVars
=============================================================================
