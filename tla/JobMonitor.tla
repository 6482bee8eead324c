------------------------------- MODULE JobMonitor -------------------------------
(***************************************************************************)
(* The page of one job: components/Jobs/JobMonitor.tsx with the socket of  *)
(* hooks/useWebSocket.ts and the query of useJob.  What the socket said    *)
(* goes before what the query read.  The page is mounted anew for each job *)
(* (pages/Jobs.tsx), so that it has one socket at a time.                  *)
(***************************************************************************)
EXTENDS Requests

CONSTANTS
    maxRetries,  \* attempts to open the socket again
    MaxWrites    \* how often the job's status is written: a bound
ASSUME MonitorAssumption == maxRetries \in Nat \ {0} /\ MaxWrites \in Nat

VARIABLES
    job,     \* the server's job: its status, "gone" when it was deleted
    writes,  \* how often it was written
    ws,      \* the page's socket and useWebSocket's refs
    monitor  \* what the page knows
monitorVars == <<job, writes, ws, monitor>>

isActive(status) == status \in {"processing", "pending"}
TERMINAL_STATES == {"completed", "completed_partial", "failed", "cancelled"}
\* The statuses after which the server stops sending.
WriterStops == TERMINAL_STATES \ {"completed_partial"}

NoSocket == [socket |-> "none", retries |-> 0, timer |-> FALSE, terminal |-> TRUE, inbox |-> <<>>]
\* told: the status that the page's sockets were sent last, and that was not lost.
NothingKnown == [wsData |-> "none", told |-> "none", read |-> "none", answer |-> "none",
                 linked |-> FALSE]

MonitorInit ==
    /\ job \in {"pending", "processing", "completed"}
    /\ writes = 0
    /\ ws = NoSocket
    /\ monitor = NothingKnown

-----------------------------------------------------------------------------
(* The job and its messages. *)

\* The server subscribes a socket before it says it is connected.
Subscribed == ws.socket = "open"

Writes == writes < MaxWrites /\ writes' = writes + 1

\* A worker commits a status and publishes it, unless Redis is down.  It looks at no
\* status before: a retry or another delivery runs a job again, and a run that was
\* given up or cancelled may still complete.
JobRuns ==
    /\ Writes
    /\ \E status \in (TERMINAL_STATES \ {"cancelled"}) \cup {"processing"} :
         /\ status # job
         /\ job' = IF job = "gone" THEN job ELSE status
         /\ \/ UNCHANGED <<ws, monitor>>
            \/ /\ Subscribed
               /\ ws' = [ws EXCEPT !.inbox = Append(@, status)]
               /\ monitor' = [monitor EXCEPT !.told = status]
    /\ UNCHANGED reqVars

\* Cancelled from the list of jobs, or given up by the sweep: nothing is published.
StatusWritten ==
    /\ Writes
    /\ isActive(job) /\ job' \in {"cancelled", "failed"}
    /\ UNCHANGED <<ws, monitor, reqVars>>

-----------------------------------------------------------------------------
(* useWebSocket. *)

connectSocket(refs) == IF refs.terminal THEN refs ELSE [refs EXCEPT !.socket = "connecting"]

onopen ==
    /\ ws.socket = "connecting"
    /\ ws' = [ws EXCEPT !.socket = "open", !.retries = 0]
    /\ UNCHANGED <<job, writes, monitor, reqVars>>

\* Mutant: a final status is noted and not shown.
ShowsProgress(status) == IF status \in TERMINAL_STATES THEN monitor.wsData ELSE status

Shows(status) == status

\* After a final status the server sends nothing more and closes the socket, but for
\* one of them.
onmessage ==
    /\ ws.socket = "open" /\ ws.inbox # <<>>
    /\ LET status == Head(ws.inbox)
           last == status \in WriterStops
       IN  /\ monitor' = [monitor EXCEPT !.wsData = Shows(status),
                                         !.told = IF last THEN status ELSE @]
           /\ ws' = [ws EXCEPT !.inbox = IF last THEN <<>> ELSE Tail(@),
                               !.terminal = @ \/ status \in TERMINAL_STATES,
                               !.socket = IF last THEN "closing" ELSE @]
    /\ UNCHANGED <<job, writes, reqVars>>

\* The connection fails; what was on its way is lost.
SocketFails ==
    /\ ws.socket \in {"connecting", "open"}
    /\ ws' = [ws EXCEPT !.socket = "closing", !.inbox = <<>>]
    /\ monitor' = [monitor EXCEPT !.told = IF ws.inbox = <<>> THEN @ ELSE monitor.wsData]
    /\ UNCHANGED <<job, writes, reqVars>>

\* Mutant: only the number of attempts is looked at.
CountsOnly == ws.retries >= maxRetries

StaysClosed == ws.terminal \/ ws.retries >= maxRetries

onclose ==
    /\ ws.socket = "closing"
    /\ ws' = [ws EXCEPT !.socket = "none", !.timer = ~StaysClosed,
                        !.retries = IF StaysClosed THEN @ ELSE @ + 1]
    /\ UNCHANGED <<job, writes, monitor, reqVars>>

Reconnect ==
    /\ ws.timer
    /\ ws' = connectSocket([ws EXCEPT !.timer = FALSE])
    /\ UNCHANGED <<job, writes, monitor, reqVars>>

-----------------------------------------------------------------------------
(* The page. *)

OnPage == ws # NoSocket \/ monitor.read # "none" \/ monitor.answer # "none"

\* A job is opened.
OpenMonitor ==
    /\ ~OnPage
    /\ ws' = connectSocket([NoSocket EXCEPT !.terminal = FALSE])
    /\ monitor' = [NothingKnown EXCEPT !.linked = monitor.linked, !.answer = "asked"]
    /\ UNCHANGED <<job, writes, reqVars>>

\* onBack: the effect's clean-up closes the socket and clears the timer.
onBack == ws' = NoSocket /\ monitor' = [NothingKnown EXCEPT !.linked = monitor.linked] /\ Unmount
LeaveMonitor == OnPage /\ onBack /\ UNCHANGED <<job, writes>>

\* useJob: the first read, an interval while /ws/status is down, or a refetch.
ReadJob ==
    /\ OnPage /\ monitor.answer = "none"
    /\ monitor' = [monitor EXCEPT !.answer = "asked"]
    /\ UNCHANGED <<job, writes, ws, reqVars>>
PollJob == ~monitor.linked /\ ReadJob

\* A job that is gone is not found: what was read is kept.
ServeJob ==
    /\ monitor.answer = "asked"
    /\ monitor' = [monitor EXCEPT !.answer = IF job = "gone" THEN "none" ELSE job]
    /\ UNCHANGED <<job, writes, ws, reqVars>>

AnswerJob ==
    /\ monitor.answer \notin {"none", "asked"}
    /\ monitor' = [monitor EXCEPT !.read = monitor.answer, !.answer = "none"]
    /\ UNCHANGED <<job, writes, ws, reqVars>>

HeartbeatTurns ==
    /\ monitor' = [monitor EXCEPT !.linked = ~@]
    /\ UNCHANGED <<job, writes, ws, reqVars>>

status ==
    IF monitor.wsData # "none" THEN monitor.wsData
    ELSE IF monitor.read # "none" THEN monitor.read ELSE "pending"

\* The buttons.  Cancel sends what Delete sends.
JobActions ==
    /\ OnPage
    /\ \/ isActive(status) /\ Send("cancel", "job", "DELETE")
       \/ Send("delete", "job", "DELETE")
       \/ status = "failed" /\ monitor.read # "none" /\ Send("retry", "job", "POST")
    /\ UNCHANGED monitorVars

ServeAction(q) ==
    /\ q.state = "sent"
    /\ \/ /\ job # "gone" /\ \E state \in {"ok", "failed"} : Respond(q, state)
          /\ job' = IF q.val = "DELETE" THEN "gone" ELSE job
       \/ Respond(q, "failed") /\ UNCHANGED job
    /\ UNCHANGED <<writes, ws, monitor>>

\* Cancelled: the job is read again.  Deleted or retried: whichever job's page is
\* open by then goes back to the list.
AnswerAction(q) ==
    /\ q.state # "sent"
    /\ UNCHANGED <<job, writes>>
    /\ IF q.state = "ok" /\ q.op \in {"delete", "retry"}
       THEN /\ ws' = NoSocket /\ monitor' = [NothingKnown EXCEPT !.linked = monitor.linked]
            /\ reqs' = {[p EXCEPT !.here = FALSE] : p \in reqs \ {q}}
            /\ UNCHANGED <<sent, left>>
       ELSE /\ Settle(q)
            /\ monitor' = IF q.state = "ok" /\ q.here /\ q.op = "cancel"
                          THEN [monitor EXCEPT !.answer = "asked"] ELSE monitor
            /\ UNCHANGED ws

MonitorNext ==
    \/ JobRuns \/ StatusWritten
    \/ onopen \/ onmessage \/ SocketFails \/ onclose \/ Reconnect
    \/ OpenMonitor \/ LeaveMonitor \/ ReadJob \/ ServeJob \/ AnswerJob \/ HeartbeatTurns
    \/ JobActions \/ \E q \in reqs : ServeAction(q) \/ AnswerAction(q)

\* The interval ticks; answers and messages come.
MonitorFairness ==
    /\ WF_<<monitorVars, reqVars>>(PollJob) /\ WF_<<monitorVars, reqVars>>(ServeJob)
    /\ WF_<<monitorVars, reqVars>>(AnswerJob) /\ WF_<<monitorVars, reqVars>>(onmessage)

-----------------------------------------------------------------------------
(* Properties. *)

\* Once the end of the job was told, or the page left, no socket is opened.
NoSocketAfterEnd == ws.terminal => ~ws.timer /\ ws.socket # "connecting"

\* A page that stays open comes to show the status of the job: by its query, which
\* polls, until its socket has told one, and then if that is the job's.  A status
\* that was written without a message after that, or lost, is read and not shown.
MonitorCatchesUp ==
    <>[](OnPage /\ ~monitor.linked /\ monitor.told \in {"none", job})
        => <>[](job # "gone" => status = job)
=============================================================================
