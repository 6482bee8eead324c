--------------------------------- MODULE JobLog ---------------------------------
(***************************************************************************)
(* The log of a job's page: useJobLogs of components/Jobs/JobMonitor.tsx   *)
(* reads what was written once, and the socket of hooks/useWebSocket.ts    *)
(* brings what is written then.  The server opens the socket before it     *)
(* subscribes it; a worker commits a line, then publishes it.              *)
(***************************************************************************)
EXTENDS Integers, Sequences, SequencesExt

CONSTANTS
    LogLimit,            \* lines the page asks for: five hundred
    MaxLines, MaxLosses  \* lines written, and sockets lost: bounds
ASSUME LogAssumption == LogLimit \in Nat \ {0} /\ MaxLines \in Nat /\ MaxLosses \in Nat

VARIABLES
    written,  \* the worker: lines committed, lines published, those Redis dropped
    wire,     \* the page's socket, what is on its way, and how often it was lost
    log       \* the page; upTo: how many lines there were when it read them
logVars == <<written, wire, log>>

Levels == {"info", "error"}
Level(n) == IF n % 2 = 0 THEN "error" ELSE "info"

LogInit ==
    /\ written = [lines |-> 0, published |-> 0, dropped |-> {}]
    /\ wire = [socket |-> "none", inbox |-> <<>>, losses |-> 0]
    /\ log = [history |-> "none", upTo |-> 0, answer |-> 0, historicalLogs |-> <<>>, wsLogs |-> <<>>,
              logFilter |-> "all", followed |-> FALSE]

-----------------------------------------------------------------------------
(* The worker and the server. *)

log_job_sync ==
    /\ written.lines < MaxLines /\ written.published = written.lines
    /\ written' = [written EXCEPT !.lines = @ + 1]
    /\ UNCHANGED <<wire, log>>

Publish ==
    /\ written.published < written.lines
    /\ \/ /\ written' = [written EXCEPT !.published = @ + 1]
          /\ wire' = IF wire.socket = "subscribed"
                     THEN [wire EXCEPT !.inbox = Append(@, written.lines)] ELSE wire
       \/ /\ written' = [written EXCEPT !.published = @ + 1, !.dropped = @ \cup {written.lines}]
          /\ UNCHANGED wire
    /\ UNCHANGED log

SubscribeJob ==
    /\ wire.socket = "open" /\ wire' = [wire EXCEPT !.socket = "subscribed"]
    /\ UNCHANGED <<written, log>>

-----------------------------------------------------------------------------
(* The page. *)

\* The page is opened: the socket connects and the log is asked for.
OpenLog ==
    /\ log.history = "none"
    /\ log' = [log EXCEPT !.history = "asked"]
    /\ wire' = [wire EXCEPT !.socket = "open"]
    /\ UNCHANGED written

\* The socket is lost with what was on its way, and opened again.
LoseWire ==
    /\ wire.socket # "none" /\ wire.losses < MaxLosses
    /\ wire' = [socket |-> "open", inbox |-> <<>>, losses |-> wire.losses + 1]
    /\ log' = [log EXCEPT !.followed = FALSE]
    /\ UNCHANGED written

\* Mutant: without logsRef the lines before are those of the render that connected.
LinesOfRender(lines, n) == <<n>>

\* logsRef.
Entries(lines, n) == Append(lines, n)

onlog ==
    /\ wire.inbox # <<>>
    /\ log' = [log EXCEPT !.wsLogs = Entries(@, Head(wire.inbox))]
    /\ wire' = [wire EXCEPT !.inbox = Tail(@)]
    /\ UNCHANGED written

\* The oldest lines of what is committed by now.  They fit what the socket brings if
\* that is subscribed.
Oldest(lines) == IF lines < LogLimit THEN lines ELSE LogLimit
ServeLog ==
    /\ log.history = "asked"
    /\ \/ log' = [log EXCEPT !.history = "served", !.upTo = written.lines,
                             !.answer = Oldest(written.lines),
                             !.followed = wire.socket = "subscribed"]
       \/ log' = [log EXCEPT !.history = "failed"]
    /\ UNCHANGED <<written, wire>>

AnswerLog ==
    /\ log.history = "served"
    /\ log' = [log EXCEPT !.history = "read", !.historicalLogs = [n \in 1..log.answer |-> n]]
    /\ UNCHANGED <<written, wire>>

\* A line that came both ways is there twice; which lines are shown, of any order.
allLogs == log.historicalLogs \o log.wsLogs
filteredLogs == {n \in ToSet(allLogs) : log.logFilter \in {"all", Level(n)}}

setLogFilter ==
    /\ log.history # "none"
    /\ \E level \in Levels \cup {"all"} : log' = [log EXCEPT !.logFilter = level]
    /\ UNCHANGED <<written, wire>>

LogNext ==
    \/ log_job_sync \/ Publish \/ SubscribeJob
    \/ OpenLog \/ LoseWire \/ onlog \/ ServeLog \/ AnswerLog \/ setLogFilter

-----------------------------------------------------------------------------
(* Properties. *)

\* A log that was read while the socket was subscribed, and has not lost it since,
\* misses no line once all has arrived, but those Redis did not take and those that
\* there were beyond the limit when it was read.
NoLineMissing ==
    log.followed /\ log.history = "read" /\ wire.inbox = <<>> /\ written.published = written.lines
        => \A n \in 1..written.lines :
              \/ n \in written.dropped
              \/ n \in LogLimit + 1 .. log.upTo
              \/ n \in filteredLogs
              \/ log.logFilter \notin {"all", Level(n)}
=============================================================================
