-------------------------------- MODULE MCShell -------------------------------
(* Model-checking instance of what the pages have running: the status        *)
(* socket, the lists of jobs and notifications whose polling it stops, and   *)
(* the log of a job.  One of them is used in a behaviour.                    *)
EXTENDS StatusSocket, JobFeed, JobLog

CONSTANT PageWork  \* statuses written while the page of the jobs is used: a bound
ASSUME ShellWorkAssumption == PageWork \in Nat

VARIABLE focus  \* the component that is used
vars == <<focus, linkVars, reqVars, feedVars, bellVars, logVars>>

\* The lists of jobs are used twice: while the jobs run, from the other pages, and on
\* their own page.
FeedViews == {"lists", "page"}

\* The components that are not used start in one state.
Init ==
    /\ focus \in {"link", "bell", "log"} \cup FeedViews
    /\ RequestsInit /\ StatusInit /\ FeedInit /\ BellInit /\ LogInit
    /\ focus # "link" => serverUp
    /\ focus \in FeedViews => \A j \in There : jobs[j] = "processing"
    /\ focus = "page" => There = Ids /\ ~feed.linked
    /\ focus \notin FeedViews => jobs = [j \in Ids |-> "none"] /\ feed.linked

\* On the page of the jobs fewer statuses are written, and the socket stays down: a bound.
FeedBound ==
    /\ focus = "lists" => ~feed'.onPage
    /\ focus = "page" => work'.writes <= PageWork /\ ~feed'.linked

Next ==
    /\ UNCHANGED focus
    /\ \/ /\ focus = "link" /\ StatusNext
          /\ UNCHANGED <<reqVars, feedVars, bellVars, logVars>>
       \/ /\ focus \in FeedViews /\ FeedNext /\ FeedBound
          /\ UNCHANGED <<linkVars, bellVars, logVars>>
       \/ /\ focus = "bell" /\ BellNext
          /\ UNCHANGED <<linkVars, feedVars, logVars>>
       \/ /\ focus = "log" /\ LogNext
          /\ UNCHANGED <<linkVars, reqVars, feedVars, bellVars>>

\* The timers and callbacks of the socket; the intervals of the lists and their
\* answers, which FeedFairness states for the lists alone.
Spec ==
    /\ Init /\ [][Next]_vars
    /\ WF_linkVars(focus = "link" /\ Callback)
    /\ \A k \in {"All", "active-jobs"} :
          /\ SF_<<feedVars, reqVars>>(focus \in FeedViews /\ Poll(k))
          /\ SF_<<feedVars, reqVars>>(focus \in FeedViews /\ ServeJobs(k))
    /\ WF_<<feedVars, reqVars>>(focus \in FeedViews /\ \E k \in Keys : ServeJobs(k))
    /\ WF_<<feedVars, reqVars>>(focus \in FeedViews /\ \E k \in Keys : AnswerJobs(k))

\* The status that stops the polling is so, although sockets and timers of earlier
\* listeners are still about: connected is open, reconnecting is trying.
StatusIsTrue == ConnectedIsOpen /\ ReconnectingIsTrying

\* Answers that were under way do not undo what was done: an end of a job is announced
\* once, a deleted job does not come back to the list, a notification that was read
\* is not unread again.
NothingUndone == []ToastedOncePerEnd /\ DeletedStaysUnlisted /\ ReadStaysRead

\* Without the server the status gives up, and then the lists, which poll, catch up.
ShellSettles == GivesUp /\ ListsCatchUp
=============================================================================
