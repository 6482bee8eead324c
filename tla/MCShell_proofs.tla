----------------------------- MODULE MCShell_proofs -----------------------------
(* Proofs about what the pages have running: the status socket, the lists of *)
(* jobs and of notifications, and the log of a job.                          *)
EXTENDS MCShell, TLAPS

-----------------------------------------------------------------------------
(* The status socket. *)

Stores == [status : {"disconnected", "connected", "reconnecting"}, refs : SUBSET Listeners,
           retries : Nat, ws : Nat, timer : Nat, timers : SUBSET Nat, hasConnected : BOOLEAN]

LinkTypeOK ==
    /\ link \in Stores
    /\ sockets \in [1..MaxSockets -> {"free", "connecting", "open", "closing"}]

LinkInv == LinkTypeOK /\ StatusIsTrue

LEMMA LinkInit == ASSUME StatusInit PROVE LinkInv
BY DEF StatusInit, LinkInv, LinkTypeOK, Stores, StatusIsTrue, ConnectedIsOpen, ReconnectingIsTrying

\* Whatever store the new socket is put into: none that was open is lost.
LEMMA ConnectKeeps ==
    ASSUME LinkInv, NEW STATE store, store \in Stores, connect(store),
           store.status = "connected" => link.status = "connected"
    PROVE  LinkInv'
<1> PICK s \in Free : /\ link' = [store EXCEPT !.ws = s]
                      /\ sockets' = [sockets EXCEPT ![s] = "connecting"]
  BY DEF connect
<1>0. s \in 1..MaxSockets /\ sockets[s] = "free" /\ s \in Nat
  BY StatusSocketAssumption DEF Free
<1>1. link' \in Stores /\ link'.status = store.status
  BY <1>0 DEF Stores
<1>2. sockets' \in [1..MaxSockets -> {"free", "connecting", "open", "closing"}]
  BY <1>0 DEF LinkInv, LinkTypeOK
<1>3. ConnectedIsOpen'
  BY <1>0, <1>1, <1>2 DEF LinkInv, LinkTypeOK, StatusIsTrue, ConnectedIsOpen
<1>4. ReconnectingIsTrying'
  BY <1>0, <1>1, <1>2 DEF LinkInv, LinkTypeOK, ReconnectingIsTrying, Live
<1> QED BY <1>1, <1>2, <1>3, <1>4 DEF LinkInv, LinkTypeOK, StatusIsTrue

LEMMA LinkStep == ASSUME LinkInv, [StatusNext]_linkVars PROVE LinkInv'
<1> USE DEF LinkInv, LinkTypeOK
<1>1. ASSUME NEW l \in Listeners, Subscribe(l) PROVE LinkInv'
  <2> DEFINE store == [link EXCEPT !.refs = @ \cup {l}]
  <2>1. store \in Stores /\ store.status = link.status /\ store.timers = link.timers
    BY DEF Stores
  <2>2. CASE link.refs = {}
    <3>1. connect(store) BY <1>1, <2>2 DEF Subscribe
    <3> QED BY <3>1, <2>1, ConnectKeeps
  <2>3. CASE link.refs # {}
    BY <1>1, <2>1, <2>3
       DEF Subscribe, StatusIsTrue, ConnectedIsOpen, ReconnectingIsTrying, Live
  <2> QED BY <2>2, <2>3
<1>2. ASSUME NEW l \in Listeners, Unsubscribe(l) PROVE LinkInv'
  <2> DEFINE store == [link EXCEPT !.refs = @ \ {l}]
  <2>1. store \in Stores /\ store.status = link.status /\ store.timers = link.timers
    BY DEF Stores
  <2>2. CASE store.refs # {}
    BY <1>2, <2>1, <2>2
       DEF Unsubscribe, StatusIsTrue, ConnectedIsOpen, ReconnectingIsTrying, Live
  <2>3. CASE store.refs = {}
    <3>1. link' = Reset(store)
      BY <1>2, <2>3 DEF Unsubscribe
    <3>2. link' \in Stores /\ link'.status = "disconnected"
      BY <3>1, <2>1 DEF Reset, Stores
    <3>3. sockets' \in [1..MaxSockets -> {"free", "connecting", "open", "closing"}]
      BY <1>2, <2>3 DEF Unsubscribe
    <3> QED BY <3>2, <3>3 DEF StatusIsTrue, ConnectedIsOpen, ReconnectingIsTrying
  <2> QED BY <2>2, <2>3
<1>3. ASSUME NEW s \in 1..MaxSockets, Opened(s) PROVE LinkInv'
  BY <1>3 DEF Opened, Stores, StatusIsTrue, ConnectedIsOpen, ReconnectingIsTrying
<1>4. ASSUME NEW s \in 1..MaxSockets, Fails(s) PROVE LinkInv'
  <2>1. sockets' \in [1..MaxSockets -> {"free", "connecting", "open", "closing"}]
    BY <1>4 DEF Fails
  <2>2. sockets'[s] = "closing" /\ link' = link
    BY <1>4 DEF Fails
  <2> QED BY <2>1, <2>2 DEF StatusIsTrue, ConnectedIsOpen, ReconnectingIsTrying, Live
<1>5. ASSUME NEW s \in 1..MaxSockets, Closed(s) PROVE LinkInv'
  <2>1. sockets' \in [1..MaxSockets -> {"free", "connecting", "open", "closing"}]
    BY <1>5 DEF Closed
  <2>2. CASE Retries(link)
    <3>0. PICK t \in FreeTimers :
          link' = [link EXCEPT !.ws = 0, !.status = "reconnecting", !.retries = Attempts(link),
                               !.timer = t, !.timers = @ \cup {t}]
      BY <1>5, <2>2 DEF Closed
    <3>1. t \in Nat
      BY StatusSocketAssumption DEF FreeTimers
    <3>2. link.timers \cup {t} \in SUBSET Nat /\ Attempts(link) \in Nat
      BY <3>1 DEF Stores, Attempts
    <3>3. link' \in Stores /\ link'.status = "reconnecting"
      BY <3>0, <3>1, <3>2 DEF Stores
    <3>4. t \in link'.timers
      BY <3>0 DEF Stores
    <3> QED BY <2>1, <3>3, <3>4 DEF StatusIsTrue, ConnectedIsOpen, ReconnectingIsTrying
  <2>3. CASE ~Retries(link)
    <3>1. link' = [link EXCEPT !.ws = 0, !.status = "disconnected"]
      BY <1>5, <2>3 DEF Closed, GivenUp
    <3>2. link' \in Stores /\ link'.status = "disconnected"
      BY <3>1 DEF Stores
    <3> QED BY <2>1, <3>2 DEF StatusIsTrue, ConnectedIsOpen, ReconnectingIsTrying
  <2> QED BY <2>2, <2>3
<1>6. ASSUME NEW t \in 1..MaxSockets, TimerFires(t) PROVE LinkInv'
  <2> DEFINE store == [link EXCEPT !.timers = @ \ {t}]
  <2>1. store \in Stores /\ store.status = link.status
    BY DEF Stores
  <2>2. connect(store)
    BY <1>6 DEF TimerFires
  <2> QED BY <2>1, <2>2, ConnectKeeps
<1>7. CASE ServerTurns
  BY <1>7 DEF ServerTurns, StatusIsTrue, ConnectedIsOpen, ReconnectingIsTrying, Live
<1>8. CASE UNCHANGED linkVars
  BY <1>8 DEF linkVars, StatusIsTrue, ConnectedIsOpen, ReconnectingIsTrying, Live
<1> QED BY <1>1, <1>2, <1>3, <1>4, <1>5, <1>6, <1>7, <1>8 DEF StatusNext, Callback

-----------------------------------------------------------------------------
(* The log of a job. *)

\* What has reached the page, or is on its way to it.
Arrives(n) ==
    \/ n <= log.answer
    \/ n \in LogLimit + 1 .. log.upTo
    \/ n \in written.dropped
    \/ \E i \in DOMAIN wire.inbox : wire.inbox[i] = n
    \/ \E i \in DOMAIN log.wsLogs : log.wsLogs[i] = n

Writers == [lines : Nat, published : Nat, dropped : SUBSET Nat]
Wires == [socket : {"none", "open", "subscribed"}, inbox : Seq(Nat), losses : Nat]
Logs == [history : {"none", "asked", "served", "failed", "read"}, upTo : Nat, answer : Nat,
         historicalLogs : Seq(Nat), wsLogs : Seq(Nat),
         logFilter : {"info", "error", "all"}, followed : BOOLEAN]

LogTypeOK == written \in Writers /\ wire \in Wires /\ log \in Logs

\* A line is read, dropped, on the wire or shown since the log was read whole.
LogInv ==
    /\ LogTypeOK
    /\ written.lines \in {written.published, written.published + 1}
    /\ log.history = "read" => log.historicalLogs = [n \in 1..log.answer |-> n]
    /\ log.followed => /\ wire.socket = "subscribed" /\ log.history \in {"served", "read"}
                    /\ \A n \in 1..written.published : Arrives(n)

LEMMA LogInvInit == ASSUME LogInit PROVE LogInv
BY DEF LogInit, LogInv, LogTypeOK, Writers, Wires, Logs

\* A concatenation has the elements of both.
LEMMA Concatenated ==
    ASSUME NEW h \in Seq(Nat), NEW w \in Seq(Nat)
    PROVE  ToSet(h \o w) = ToSet(h) \cup ToSet(w)
<1> DEFINE hw == h \o w
<1>1. Len(hw) = Len(h) + Len(w) /\ Len(h) \in Nat /\ Len(w) \in Nat
  OBVIOUS
<1>2. DOMAIN hw = 1..Len(hw) /\ DOMAIN h = 1..Len(h) /\ DOMAIN w = 1..Len(w)
  OBVIOUS
<1>3. \A i \in 1..Len(h) : hw[i] = h[i]
  OBVIOUS
<1>4. \A i \in 1..Len(w) : hw[Len(h) + i] = w[i]
  OBVIOUS
<1> HIDE DEF hw
<1>5. ASSUME NEW i \in DOMAIN hw PROVE hw[i] \in ToSet(h) \cup ToSet(w)
  <2>1. CASE i <= Len(h)
    BY <1>1, <1>2, <1>3, <2>1 DEF ToSet
  <2>2. CASE i > Len(h)
    <3>1. i - Len(h) \in 1..Len(w) /\ Len(h) + (i - Len(h)) = i
      BY <1>1, <1>2, <2>2
    <3>2. hw[i] = w[i - Len(h)]
      BY <1>4, <3>1
    <3> QED BY <1>2, <3>1, <3>2 DEF ToSet
  <2> QED BY <1>1, <1>2, <2>1, <2>2
<1>6. \A i \in DOMAIN h : i \in DOMAIN hw /\ hw[i] = h[i]
  BY <1>1, <1>2, <1>3
<1>7. \A i \in DOMAIN w : Len(h) + i \in DOMAIN hw /\ hw[Len(h) + i] = w[i]
  BY <1>1, <1>2, <1>4
<1>8. ToSet(hw) = ToSet(h) \cup ToSet(w)
  BY <1>5, <1>6, <1>7 DEF ToSet
<1> QED BY <1>8 DEF hw

LEMMA LogShown == LogInv => NoLineMissing
<1> SUFFICES ASSUME LogInv, log.followed, log.history = "read", wire.inbox = <<>>,
                    written.published = written.lines,
                    NEW n \in 1..written.lines, n \notin written.dropped,
                    n \notin LogLimit + 1 .. log.upTo,
                    log.logFilter \in {"all", Level(n)}
             PROVE  n \in filteredLogs
  BY DEF NoLineMissing
<1>1. Arrives(n) /\ n \in Nat
  BY DEF LogInv, LogTypeOK, Writers, Wires, Logs
<1>2. log.historicalLogs \in Seq(Nat) /\ log.wsLogs \in Seq(Nat)
  BY DEF LogInv, LogTypeOK, Writers, Wires, Logs
<1>3. n \in ToSet(log.historicalLogs) \cup ToSet(log.wsLogs)
  <2>1. CASE n <= log.answer
    <3>1. log.historicalLogs = [i \in 1..log.answer |-> i] /\ n \in 1..log.answer
      BY <2>1 DEF LogInv, LogTypeOK, Writers, Wires, Logs
    <3> QED BY <3>1 DEF ToSet
  <2>2. CASE \E i \in DOMAIN log.wsLogs : log.wsLogs[i] = n
    BY <2>2 DEF ToSet
  <2> QED BY <1>1, <2>1, <2>2 DEF Arrives, LogInv, LogTypeOK, Wires
<1>4. n \in ToSet(allLogs)
  BY <1>2, <1>3, Concatenated DEF allLogs
<1> QED BY <1>4 DEF filteredLogs

LEMMA LogStep == ASSUME LogInv, [LogNext]_logVars PROVE LogInv'
<1>0. /\ written \in Writers /\ wire \in Wires /\ log \in Logs
      /\ written.lines \in Nat /\ written.published \in Nat /\ written.dropped \subseteq Nat
      /\ wire.inbox \in Seq(Nat) /\ log.wsLogs \in Seq(Nat) /\ log.answer \in Nat
      /\ written.lines \in {written.published, written.published + 1}
  BY DEF LogInv, LogTypeOK, Writers, Wires, Logs
<1>1. CASE log_job_sync
  <2>1. written' \in Writers /\ written'.lines = written'.published + 1
    BY <1>0, <1>1 DEF log_job_sync, Writers
  <2>2. written'.published = written.published /\ written'.dropped = written.dropped
    BY <1>0, <1>1 DEF log_job_sync, Writers
  <2>3. UNCHANGED <<wire, log>>
    BY <1>1 DEF log_job_sync
  <2> QED BY <2>1, <2>2, <2>3 DEF LogInv, LogTypeOK, Arrives
<1>2. CASE Publish
  <2>1. /\ log' = log /\ written.lines = written.published + 1
        /\ \/ written' = [written EXCEPT !.published = @ + 1]
           \/ written' = [written EXCEPT !.published = @ + 1, !.dropped = @ \cup {written.lines}]
    BY <1>0, <1>2 DEF Publish
  <2>2. /\ written' \in Writers /\ written'.published = written.lines
        /\ written'.lines = written.lines /\ written.dropped \subseteq written'.dropped
    <3>1. written.published + 1 \in Nat /\ written.published + 1 = written.lines
      BY <1>0, <2>1
    <3>2. CASE written' = [written EXCEPT !.published = @ + 1]
      BY <1>0, <3>1, <3>2 DEF Writers
    <3>3. CASE written' = [written EXCEPT !.published = @ + 1, !.dropped = @ \cup {written.lines}]
      <4>1. written.dropped \cup {written.lines} \in SUBSET Nat
        BY <1>0
      <4> QED BY <1>0, <3>1, <3>3, <4>1 DEF Writers
    <3> QED BY <2>1, <3>2, <3>3
  <2>3. wire' \in Wires /\ wire'.socket = wire.socket
    <3>1. Append(wire.inbox, written.lines) \in Seq(Nat)
      BY <1>0
    <3>2. CASE wire' = wire
      BY <1>0, <3>2
    <3>3. CASE wire' = [wire EXCEPT !.inbox = Append(@, written.lines)]
      BY <1>0, <3>1, <3>3 DEF Wires
    <3> QED BY <1>2, <3>2, <3>3 DEF Publish
  <2>4. ASSUME NEW n \in Nat, Arrives(n) PROVE Arrives(n)'
    <3>1. ASSUME NEW i \in DOMAIN wire.inbox PROVE i \in DOMAIN wire'.inbox /\ wire'.inbox[i] = wire.inbox[i]
      <4>1. wire'.inbox = wire.inbox \/ wire'.inbox = Append(wire.inbox, written.lines)
        BY <1>0, <1>2 DEF Publish, Wires
      <4> QED BY <1>0, <4>1
    <3> QED BY <2>1, <2>2, <2>4, <3>1 DEF Arrives
  <2>5. ASSUME log.followed PROVE Arrives(written.lines)'
    <3>1. CASE written' = [written EXCEPT !.published = @ + 1]
               /\ wire' = [wire EXCEPT !.inbox = Append(@, written.lines)]
      <4>1. wire'.inbox = Append(wire.inbox, written.lines)
        BY <1>0, <3>1 DEF Wires
      <4>2. Len(wire.inbox) + 1 \in DOMAIN wire'.inbox
            /\ wire'.inbox[Len(wire.inbox) + 1] = written'.lines
        BY <1>0, <2>2, <4>1
      <4> QED BY <4>2 DEF Arrives
    <3>2. CASE written' = [written EXCEPT !.published = @ + 1, !.dropped = @ \cup {written.lines}]
      <4>1. written'.lines \in written'.dropped
        BY <1>0, <3>2 DEF Writers
      <4> QED BY <4>1 DEF Arrives
    <3>3. wire.socket = "subscribed"
      BY <2>5 DEF LogInv
    <3> QED BY <1>2, <3>1, <3>2, <3>3 DEF Publish
  <2>6. ASSUME log.followed PROVE \A n \in 1..written'.published : Arrives(n)'
    <3> TAKE n \in 1..written'.published
    <3>1. CASE n = written.lines
      BY <2>5, <2>6, <2>2, <3>1 DEF Arrives
    <3>2. CASE n # written.lines
      <4>1. n \in 1..written.published /\ n \in Nat
        BY <1>0, <2>1, <2>2, <3>2
      <4>2. Arrives(n)
        BY <2>6, <4>1 DEF LogInv
      <4> QED BY <2>4, <4>1, <4>2
    <3> QED BY <3>1, <3>2
  <2> QED BY <1>0, <2>1, <2>2, <2>3, <2>6 DEF LogInv, LogTypeOK
<1>3. CASE SubscribeJob
  <2>1. wire' \in Wires /\ wire'.socket = "subscribed" /\ wire'.inbox = wire.inbox
    BY <1>0, <1>3 DEF SubscribeJob, Wires
  <2> QED BY <1>3, <2>1 DEF SubscribeJob, LogInv, LogTypeOK, Arrives
<1>4. CASE OpenLog
  <2>1. wire' \in Wires
    BY <1>0, <1>4 DEF OpenLog, Wires
  <2>2. log' \in Logs /\ log'.history = "asked" /\ log'.followed = log.followed
    BY <1>0, <1>4 DEF OpenLog, Logs
  <2> QED BY <1>4, <2>1, <2>2 DEF OpenLog, LogInv, LogTypeOK
<1>5. CASE LoseWire
  <2>1. wire' \in Wires
    BY <1>0, <1>5 DEF LoseWire, Wires
  <2>2. /\ log' \in Logs /\ log'.followed = FALSE /\ log'.history = log.history
        /\ log'.answer = log.answer /\ log'.upTo = log.upTo /\ log'.historicalLogs = log.historicalLogs
    BY <1>0, <1>5 DEF LoseWire, Logs
  <2> QED BY <1>5, <2>1, <2>2 DEF LoseWire, LogInv, LogTypeOK
<1>6. CASE onlog
  <2>1. /\ Head(wire.inbox) \in Nat /\ Tail(wire.inbox) \in Seq(Nat)
        /\ Append(log.wsLogs, Head(wire.inbox)) \in Seq(Nat)
    BY <1>0, <1>6 DEF onlog
  <2>2. wire' \in Wires /\ wire'.inbox = Tail(wire.inbox) /\ wire'.socket = wire.socket
    BY <1>0, <1>6, <2>1 DEF onlog, Wires
  <2>3. /\ log' \in Logs /\ log'.wsLogs = Append(log.wsLogs, Head(wire.inbox))
        /\ log'.followed = log.followed /\ log'.history = log.history
        /\ log'.answer = log.answer /\ log'.upTo = log.upTo /\ log'.historicalLogs = log.historicalLogs
    BY <1>0, <1>6, <2>1 DEF onlog, Entries, Logs
  <2>4. ASSUME NEW n \in Nat, Arrives(n) PROVE Arrives(n)'
    <3>1. ASSUME NEW i \in DOMAIN wire.inbox, wire.inbox[i] = n PROVE Arrives(n)'
      <4>1. CASE i = 1
        <5>1. Len(log.wsLogs) + 1 \in DOMAIN log'.wsLogs /\ log'.wsLogs[Len(log.wsLogs) + 1] = n
          BY <1>0, <2>1, <2>3, <3>1, <4>1
        <5> QED BY <5>1 DEF Arrives
      <4>2. CASE i # 1
        <5> DEFINE w == wire.inbox
        <5>1. w \in Seq(Nat) /\ i \in 1..Len(w) /\ w # <<>> /\ w[i] = n
          BY <1>0, <1>6, <3>1 DEF onlog
        <5> HIDE DEF w
        <5>2. i - 1 \in DOMAIN Tail(w) /\ Tail(w)[i - 1] = n
          BY <5>1, <4>2
        <5>3. i - 1 \in DOMAIN wire'.inbox /\ wire'.inbox[i - 1] = n
          BY <2>2, <5>2 DEF w
        <5> QED BY <5>3 DEF Arrives
      <4> QED BY <4>1, <4>2
    <3>2. ASSUME NEW i \in DOMAIN log.wsLogs, log.wsLogs[i] = n PROVE Arrives(n)'
      <4>1. i \in DOMAIN log'.wsLogs /\ log'.wsLogs[i] = n
        BY <1>0, <2>1, <2>3, <3>2
      <4> QED BY <4>1 DEF Arrives
    <3>3. CASE n <= log.answer \/ n \in LogLimit + 1 .. log.upTo \/ n \in written.dropped
      BY <1>6, <2>3, <3>3 DEF onlog, Arrives
    <3> QED BY <2>4, <3>1, <3>2, <3>3 DEF Arrives
  <2>5. written' = written
    BY <1>6 DEF onlog
  <2>6. log'.followed => \A n \in 1..written.published : Arrives(n)'
    BY <1>0, <2>3, <2>4 DEF LogInv
  <2> QED BY <2>2, <2>3, <2>5, <2>6 DEF LogInv, LogTypeOK
<1>7. CASE ServeLog
  <2>0. UNCHANGED <<written, wire>> /\ log.history = "asked" /\ log.followed = FALSE
    BY <1>0, <1>7 DEF ServeLog, LogInv, Logs
  <2>1. CASE log' = [log EXCEPT !.history = "served", !.upTo = written.lines,
                                !.answer = Oldest(written.lines),
                                !.followed = wire.socket = "subscribed"]
    <3>0. LogLimit \in Nat /\ Oldest(written.lines) \in Nat
      BY <1>0, LogAssumption DEF Oldest
    <3>1. /\ log' \in Logs /\ log'.history = "served" /\ log'.answer = Oldest(written.lines)
          /\ log'.upTo = written.lines /\ (log'.followed => wire.socket = "subscribed")
      BY <1>0, <2>1, <3>0 DEF Logs
    <3>2. \A n \in 1..written.published : Arrives(n)'
      <4> TAKE n \in 1..written.published
      <4>1. n <= written.lines /\ n \in Nat
        BY <1>0
      <4>2. n <= Oldest(written.lines) \/ n \in LogLimit + 1 .. written.lines
        BY <1>0, <3>0, <4>1 DEF Oldest
      <4> QED BY <3>1, <4>2 DEF Arrives
    <3> QED BY <2>0, <3>1, <3>2 DEF LogInv, LogTypeOK
  <2>2. CASE log' = [log EXCEPT !.history = "failed"]
    <3>1. log' \in Logs /\ log'.history = "failed" /\ log'.followed = FALSE
      BY <1>0, <2>0, <2>2 DEF Logs
    <3> QED BY <2>0, <3>1 DEF LogInv, LogTypeOK
  <2> QED BY <1>7, <2>1, <2>2 DEF ServeLog
<1>8. CASE AnswerLog
  <2>1. [n \in 1..log.answer |-> n] \in Seq(Nat)
    BY <1>0
  <2>2. /\ log' \in Logs /\ log'.history = "read" /\ log'.answer = log.answer /\ log'.upTo = log.upTo
        /\ log'.historicalLogs = [n \in 1..log.answer |-> n]
        /\ log'.followed = log.followed /\ log'.wsLogs = log.wsLogs
    BY <1>0, <1>8, <2>1 DEF AnswerLog, Logs
  <2> QED BY <1>8, <2>2 DEF AnswerLog, LogInv, LogTypeOK, Arrives
<1>9. CASE setLogFilter
  <2>1. PICK level \in Levels \cup {"all"} : log' = [log EXCEPT !.logFilter = level]
    BY <1>9 DEF setLogFilter
  <2>2. /\ log' \in Logs /\ log'.history = log.history /\ log'.answer = log.answer /\ log'.upTo = log.upTo
        /\ log'.historicalLogs = log.historicalLogs
        /\ log'.followed = log.followed /\ log'.wsLogs = log.wsLogs
    BY <1>0, <2>1 DEF Levels, Logs
  <2> QED BY <1>9, <2>2 DEF setLogFilter, LogInv, LogTypeOK, Arrives
<1>10. CASE UNCHANGED logVars
  BY <1>10 DEF logVars, LogInv, LogTypeOK, Arrives
<1> QED BY <1>1, <1>2, <1>3, <1>4, <1>5, <1>6, <1>7, <1>8, <1>9, <1>10 DEF LogNext

-----------------------------------------------------------------------------
(* Requests. *)

IsRequest(q) ==
    q \in [n : {q.n}, op : {q.op}, id : {q.id}, val : {q.val}, state : {q.state}, here : {q.here}]
ReqsTypeOK == \A q \in reqs : IsRequest(q)

\* One request is added, which is still to be served.
LEMMA Sent ==
    ASSUME NEW STATE op, NEW STATE id, NEW STATE val, ReqsTypeOK, Send(op, id, val)
    PROVE  /\ ReqsTypeOK'
           /\ \A r \in reqs' : r \in reqs \/ (r.op = op /\ r.id = id /\ r.state = "sent")
BY DEF Send, ReqsTypeOK, IsRequest

\* One request is replaced by itself with the answer on its way.
LEMMA Responded ==
    ASSUME NEW q \in reqs, NEW state, ReqsTypeOK, Respond(q, state)
    PROVE  /\ ReqsTypeOK'
           /\ \A r \in reqs' : r \in reqs \/ (r.op = q.op /\ r.id = q.id /\ r.state = state)
<1>1. IsRequest(q)
  BY DEF ReqsTypeOK
<1> DEFINE a == [q EXCEPT !.state = state, !.id = q.id]
<1>2. a \in [n : {q.n}, op : {q.op}, id : {q.id}, val : {q.val}, state : {state}, here : {q.here}]
  BY <1>1 DEF IsRequest
<1>3. IsRequest(a) /\ a.op = q.op /\ a.id = q.id /\ a.state = state
  BY <1>2 DEF IsRequest
<1>4. reqs' = (reqs \ {q}) \cup {a}
  BY DEF Respond, RespondWith
<1> HIDE DEF a
<1> QED BY <1>3, <1>4 DEF ReqsTypeOK

\* An answer that is there leaves the others as they are.
LEMMA Settled ==
    ASSUME NEW q \in reqs, ReqsTypeOK, Settle(q)
    PROVE  ReqsTypeOK' /\ reqs' \subseteq reqs
BY DEF Settle, ReqsTypeOK

\* Those in flight when the component goes are answered all the same.
LEMMA Unmounted ==
    ASSUME ReqsTypeOK, Unmount
    PROVE  /\ ReqsTypeOK'
           /\ \A r \in reqs' : \E q \in reqs : r.op = q.op /\ r.id = q.id /\ r.state = q.state
<1>1. ASSUME NEW q \in reqs
      PROVE  /\ IsRequest([q EXCEPT !.here = FALSE])
             /\ [q EXCEPT !.here = FALSE].op = q.op /\ [q EXCEPT !.here = FALSE].id = q.id
             /\ [q EXCEPT !.here = FALSE].state = q.state
  <2>1. [q EXCEPT !.here = FALSE] \in
          [n : {q.n}, op : {q.op}, id : {q.id}, val : {q.val}, state : {q.state}, here : {FALSE}]
    BY DEF ReqsTypeOK, IsRequest
  <2> QED BY <2>1 DEF IsRequest
<1> QED BY <1>1 DEF Unmount, ReqsTypeOK

-----------------------------------------------------------------------------
(* The notifications. *)

Bells == [cache : Seq(BOOLEAN), fetch : {"idle", "asked", "answered"}, answer : Seq(BOOLEAN),
          isError : BOOLEAN, open : BOOLEAN, marked : SUBSET Nat]

\* What was marked is read at the server, and in the answer that is to come.
BellInv ==
    /\ notes \in Seq(BOOLEAN) /\ bell \in Bells /\ ReqsTypeOK
    /\ Len(bell.cache) <= Len(notes) /\ Len(bell.answer) <= Len(notes)
    /\ \A q \in reqs : q.op = "read" => /\ q.id \in 1..Len(notes)
                                        /\ q.state = "ok" => notes[q.id]
    /\ \A n \in bell.marked : n \in 1..Len(notes) /\ notes[n]
    /\ bell.fetch = "answered" =>
          \A n \in bell.marked : n \in 1..Len(bell.answer) => bell.answer[n]

LEMMA BellInvInit == ASSUME RequestsInit, BellInit PROVE BellInv
BY DEF RequestsInit, BellInit, BellInv, Bells, ReqsTypeOK

\* Notifications are added, and turn from unread to read, only.
LEMMA NotesGrow ==
    ASSUME BellInv, BellNext
    PROVE  /\ notes' \in Seq(BOOLEAN) /\ Len(notes) <= Len(notes')
           /\ \A n \in 1..Len(notes) : notes[n] => notes'[n]
<1>0. notes \in Seq(BOOLEAN)
  BY DEF BellInv
<1>1. CASE Notify
  BY <1>0, <1>1 DEF Notify
<1>2. ASSUME NEW q \in reqs, ServeMarkRead(q)
      PROVE  /\ notes' \in Seq(BOOLEAN) /\ Len(notes) <= Len(notes')
             /\ \A n \in 1..Len(notes) : notes[n] => notes'[n]
  <2>1. notes' = notes \/ notes' = [notes EXCEPT ![q.id] = TRUE]
    BY <1>2 DEF ServeMarkRead
  <2>2. CASE notes' = notes
    BY <1>0, <2>2
  <2>3. CASE notes' = [notes EXCEPT ![q.id] = TRUE]
    <3>1. q.id \in 1..Len(notes)
      BY <1>2 DEF ServeMarkRead, BellInv
    <3> QED BY <1>0, <2>3, <3>1
  <2> QED BY <2>1, <2>2, <2>3
<1>3. CASE UNCHANGED notes
  BY <1>0, <1>3
<1> QED
  BY <1>1, <1>2, <1>3 DEF BellNext, FetchNotifications, ServeNotifications, NotificationsFail,
     AnswerNotifications, ToggleOpen, markRead, bellVars, AnswerMarkRead

LEMMA BellStep == ASSUME BellInv, [BellNext]_<<bellVars, reqVars>> PROVE BellInv'
<1>0. /\ notes \in Seq(BOOLEAN) /\ bell \in Bells /\ ReqsTypeOK
      /\ bell.cache \in Seq(BOOLEAN) /\ bell.answer \in Seq(BOOLEAN) /\ <<>> \in Seq(BOOLEAN)
  BY DEF BellInv, Bells
<1>u. CASE UNCHANGED <<bellVars, reqVars>>
  BY <1>u DEF bellVars, reqVars, BellInv, ReqsTypeOK
<1>1. CASE Notify
  <2>1. bell' = bell /\ reqs' = reqs
    BY <1>1 DEF Notify, reqVars
  <2>2. BellNext
    BY <1>1 DEF BellNext
  <2>3. \A n \in 1..Len(notes) : n \in 1..Len(notes')
    BY <1>0, <1>1 DEF Notify
  <2> QED BY <1>0, <2>1, <2>2, <2>3, NotesGrow DEF BellInv, ReqsTypeOK
<1>2. CASE FetchNotifications
  <2>1. bell' \in Bells /\ bell'.fetch = "asked" /\ bell'.marked = bell.marked
        /\ bell'.cache = bell.cache /\ bell'.answer = bell.answer
    BY <1>0, <1>2 DEF FetchNotifications, Bells
  <2> QED BY <1>2, <2>1 DEF FetchNotifications, reqVars, BellInv, ReqsTypeOK
<1>3. CASE ServeNotifications
  <2>1. bell' \in Bells /\ bell'.fetch = "answered" /\ bell'.marked = bell.marked
        /\ bell'.cache = bell.cache /\ bell'.answer = notes
    BY <1>0, <1>3 DEF ServeNotifications, Bells
  <2> QED BY <1>0, <1>3, <2>1 DEF ServeNotifications, reqVars, BellInv, ReqsTypeOK
<1>4. CASE NotificationsFail
  <2>1. bell' \in Bells /\ bell'.fetch = "idle" /\ bell'.marked = bell.marked
        /\ bell'.cache = bell.cache /\ bell'.answer = <<>>
    BY <1>0, <1>4 DEF NotificationsFail, Bells
  <2> QED BY <1>0, <1>4, <2>1 DEF NotificationsFail, reqVars, BellInv, ReqsTypeOK
<1>5. CASE AnswerNotifications
  <2>1. bell' \in Bells /\ bell'.fetch = "idle" /\ bell'.marked = bell.marked
        /\ bell'.cache = bell.answer /\ bell'.answer = <<>>
    BY <1>0, <1>5 DEF AnswerNotifications, Bells
  <2> QED BY <1>0, <1>5, <2>1 DEF AnswerNotifications, reqVars, BellInv, ReqsTypeOK
<1>6. CASE ToggleOpen
  <2>1. bell' \in Bells /\ bell'.fetch = bell.fetch /\ bell'.marked = bell.marked
        /\ bell'.cache = bell.cache /\ bell'.answer = bell.answer
    BY <1>0, <1>6 DEF ToggleOpen, Bells
  <2> QED BY <1>6, <2>1 DEF ToggleOpen, reqVars, BellInv, ReqsTypeOK
<1>7. CASE markRead
  <2>1. PICK n \in BellRows : Send("read", n, "none")
    BY <1>7 DEF markRead
  <2>2. n \in 1..Len(notes)
    BY <1>0, <2>1 DEF BellRows, BellInv
  <2>3. UNCHANGED <<notes, bell>>
    BY <1>7 DEF markRead, bellVars
  <2>4. ReqsTypeOK'
        /\ \A r \in reqs' : r \in reqs \/ (r.op = "read" /\ r.id = n /\ r.state = "sent")
    BY <1>0, <2>1, Sent
  <2> QED BY <2>2, <2>3, <2>4 DEF BellInv
<1>8. ASSUME NEW q \in reqs, ServeMarkRead(q) PROVE BellInv'
  <2>1. BellNext /\ bell' = bell /\ q.op = "read" /\ q.id \in 1..Len(notes)
    BY <1>8 DEF BellNext, ServeMarkRead, BellInv
  <2>2. /\ notes' \in Seq(BOOLEAN) /\ Len(notes) <= Len(notes')
        /\ \A n \in 1..Len(notes) : n \in 1..Len(notes') /\ (notes[n] => notes'[n])
    BY <1>0, <2>1, NotesGrow
  <2>3. PICK state \in {"ok", "failed"} : Respond(q, state) /\ (state = "ok" => notes'[q.id])
    <3>1. CASE notes' = [notes EXCEPT ![q.id] = TRUE] /\ \E state \in {"ok", "failed"} : Respond(q, state)
      <4>1. notes'[q.id]
        BY <1>0, <2>1, <3>1
      <4> QED BY <3>1, <4>1
    <3>2. CASE Respond(q, "failed")
      BY <3>2
    <3> QED BY <1>8, <3>1, <3>2 DEF ServeMarkRead
  <2>4. ReqsTypeOK'
        /\ \A r \in reqs' : r \in reqs \/ (r.op = "read" /\ r.id = q.id /\ r.state = state)
    BY <1>0, <2>1, <2>3, Responded
  <2>5. Len(notes') \in Nat /\ Len(notes) \in Nat /\ Len(bell.cache) \in Nat /\ Len(bell.answer) \in Nat
    BY <1>0, <2>2
  <2> QED BY <2>1, <2>2, <2>3, <2>4, <2>5 DEF BellInv
<1>9. ASSUME NEW q \in reqs, AnswerMarkRead(q) PROVE BellInv'
  <2>1. ReqsTypeOK' /\ reqs' \subseteq reqs /\ notes' = notes
    BY <1>0, <1>9, Settled DEF AnswerMarkRead
  <2>2. CASE q.state = "ok"
    <3>1. q.id \in 1..Len(notes) /\ notes[q.id]
      BY <1>9, <2>2 DEF AnswerMarkRead, BellInv
    <3>2. bell.marked \cup {q.id} \in SUBSET Nat
      BY <1>0, <3>1 DEF Bells
    <3>3. bell' \in Bells /\ bell'.fetch = "asked" /\ bell'.marked = bell.marked \cup {q.id}
          /\ bell'.cache = bell.cache /\ bell'.answer = <<>>
      BY <1>0, <1>9, <2>2, <3>2 DEF AnswerMarkRead, RefetchNotifications, Bells
    <3> QED BY <1>0, <2>1, <3>1, <3>3 DEF BellInv
  <2>3. CASE q.state # "ok"
    BY <1>9, <2>1, <2>3 DEF AnswerMarkRead, BellInv
  <2> QED BY <2>2, <2>3
<1> QED BY <1>u, <1>1, <1>2, <1>3, <1>4, <1>5, <1>6, <1>7, <1>8, <1>9 DEF BellNext

\* The list that is shown changes with an answer only.
LEMMA BellReads ==
    ASSUME BellInv, [BellNext]_<<bellVars, reqVars>>, bell'.cache # bell.cache,
           NEW n \in bell.marked, n \in DOMAIN bell'.cache
    PROVE  bell'.cache[n]
<1>0. bell \in Bells /\ bell.cache \in Seq(BOOLEAN) /\ bell.answer \in Seq(BOOLEAN)
  BY DEF BellInv, Bells
<1>1. AnswerNotifications
  BY <1>0 DEF BellNext, Notify, FetchNotifications, ServeNotifications, NotificationsFail,
     ToggleOpen, markRead, ServeMarkRead, AnswerMarkRead, RefetchNotifications, bellVars, Bells
<1>2. bell'.cache = bell.answer /\ bell.fetch = "answered"
  BY <1>0, <1>1 DEF AnswerNotifications, Bells
<1> QED BY <1>0, <1>2 DEF BellInv

-----------------------------------------------------------------------------
(* The lists of jobs. *)

Statuses == Active \cup Ends \cup {"none", "deleted"}
Lists == UNION {[S -> Statuses] : S \in SUBSET Ids}
Feeds == [cache : [Keys -> Lists], read : SUBSET Keys, asked : SUBSET Keys,
          answer : [Keys -> Lists], answered : SUBSET Keys, linked : BOOLEAN,
          filter : Filters, onPage : BOOLEAN, selected : Ids \cup {NoJob},
          deleting : Ids \cup {NoJob}, gone : SUBSET Ids]

Works == [writes : Nat, ends : [Ids -> [Toasted -> Nat]]]

FeedTypeOK ==
    /\ jobs \in [Ids -> Statuses] /\ work \in Works /\ feed \in Feeds
    /\ toasts \in [Ids -> [Toasted -> Nat]] /\ ReqsTypeOK

\* What is shown of all jobs, and what is about to be.
Shown == feed.cache["All"]
Coming == feed.answer["All"]
IsComing == "All" \in feed.answered

\* A job that is gone is gone at the server and in the answer that is to come; before
\* the list of all jobs is read, none is there to be deleted.
GoneInv ==
    /\ \A q \in reqs : q.op = "job" => q.id \in Ids /\ (q.state = "ok" => jobs[q.id] = "deleted")
    /\ \A j \in feed.gone : jobs[j] = "deleted"
    /\ IsComing => feed.gone \cap DOMAIN Coming = {}
    /\ "All" \notin feed.read => /\ feed.filter = "All" /\ feed.deleting = NoJob
                                /\ Shown = NoRows /\ \A q \in reqs : q.op # "job"

Says(l, j, status) == j \in DOMAIN l /\ l[j] = status
Denies(l, j, status) == j \in DOMAIN l /\ l[j] # status

\* A status that what is shown, or is about to be, does not know of yet.
Due(j, status) ==
    \/ Denies(Shown, j, status) /\ jobs[j] = status
    \/ IsComing /\ Denies(Shown, j, status) /\ Says(Coming, j, status)
    \/ IsComing /\ Denies(Coming, j, status) /\ jobs[j] = status

\* What is due has not been announced.
ToastInv ==
    \A j \in Ids, status \in Toasted :
       /\ toasts[j][status] <= work.ends[j][status]
       /\ Due(j, status) => toasts[j][status] + 1 <= work.ends[j][status]

FeedInv == FeedTypeOK /\ GoneInv /\ ToastInv

LEMMA ListsOfJobs ==
    ASSUME jobs \in [Ids -> Statuses]
    PROVE  NoRows \in Lists /\ \A k \in Keys : Rows(k) \in Lists
<1>1. {} \in SUBSET Ids /\ NoRows \in [{} -> Statuses]
  BY DEF NoRows
<1>2. \A n : Newest(n) \in SUBSET Ids
  BY DEF Newest, There
<1>3. \A k \in Keys : Rows(k) \in [Newest(Limit(k)) -> Statuses]
  BY <1>2 DEF Rows
<1> QED BY <1>1, <1>2, <1>3 DEF Lists

\* A row says what the server's job is, which is there.
LEMMA RowsAreJobs ==
    ASSUME NEW k, NEW j \in DOMAIN Rows(k)
    PROVE  Rows(k)[j] = jobs[j] /\ jobs[j] # "deleted"
BY DEF Rows, Newest, There

LEMMA ListsHoldJobs == ASSUME NEW l \in Lists PROVE DOMAIN l \subseteq Ids
BY DEF Lists

LEMMA FeedInvInit ==
    ASSUME RequestsInit, FeedInit PROVE FeedInv
<1>0. "All" \in Keys /\ "All" \in Filters
  BY FeedAssumption DEF Keys
<1>1. jobs \in [Ids -> Statuses] /\ reqs = {}
  BY DEF FeedInit, Statuses, Active, RequestsInit
<1>2. NoRows \in Lists
  BY <1>1, ListsOfJobs
<1>3. PICK linked \in BOOLEAN :
        feed = [cache |-> [k \in Keys |-> NoRows], read |-> {}, asked |-> {},
                answer |-> [k \in Keys |-> NoRows], answered |-> {}, linked |-> linked,
                filter |-> "All", onPage |-> FALSE, selected |-> NoJob,
                deleting |-> NoJob, gone |-> {}]
  BY DEF FeedInit
<1>4. feed \in Feeds
  BY <1>0, <1>2, <1>3 DEF Feeds
<1>5. toasts = [j \in Ids |-> [status \in Toasted |-> 0]] /\ work.ends = toasts /\ work \in Works
  BY DEF FeedInit, Works
<1>7. \A j \in Ids, status \in Toasted : ~Due(j, status)
  BY <1>0, <1>3 DEF Due, Denies, Shown, IsComing, NoRows
<1>6. feed.answered = {} /\ feed.gone = {} /\ Shown = NoRows /\ feed.filter = "All" /\ feed.deleting = NoJob
  BY <1>0, <1>3 DEF Shown
<1>8. ToastInv
  BY <1>5, <1>7 DEF ToastInv
<1> QED BY <1>1, <1>4, <1>5, <1>6, <1>8
        DEF FeedInv, FeedTypeOK, GoneInv, IsComing, ReqsTypeOK

\* What is written of a job, and counted.
LEMMA WorkTyped ==
    ASSUME work \in Works, jobs \in [Ids -> Statuses], Create \/ Work
    PROVE  /\ work' \in Works
           /\ \A j \in Ids, status \in Toasted :
                /\ work.ends[j][status] <= work'.ends[j][status]
                /\ jobs'[j] = status /\ jobs[j] # status
                     => work'.ends[j][status] = work.ends[j][status] + 1
<1>0. work.writes \in Nat /\ work.ends \in [Ids -> [Toasted -> Nat]]
  BY DEF Works
<1>t. "pending" \notin Toasted /\ "processing" \notin Toasted
  BY DEF Toasted
<1>1. CASE Create
  BY <1>0, <1>1, <1>t DEF Create
<1>2. CASE Work
  <2>1. PICK j \in Ids, s \in Ends \cup {"processing"} :
          /\ jobs[j] # s /\ jobs' = [jobs EXCEPT ![j] = s]
          /\ work' = [writes |-> work.writes + 1,
                      ends |-> IF s \in Toasted THEN [work.ends EXCEPT ![j][s] = @ + 1] ELSE work.ends]
    BY <1>2 DEF Work, There
  <2>2. work'.writes \in Nat
    BY <1>0, <2>1
  <2>3. CASE s \in Toasted
    <3>1. work'.ends = [work.ends EXCEPT ![j][s] = @ + 1]
      BY <2>1, <2>3
    <3>2. work'.ends \in [Ids -> [Toasted -> Nat]]
      BY <1>0, <2>3, <3>1
    <3>3. ASSUME NEW i \in Ids, NEW status \in Toasted
          PROVE  work'.ends[i][status]
                   = IF i = j /\ status = s THEN work.ends[i][status] + 1 ELSE work.ends[i][status]
      BY <1>0, <2>3, <3>1, <3>3
    <3>4. \A i \in Ids, status \in Toasted : work.ends[i][status] \in Nat
      BY <1>0
    <3>5. work' \in Works
      BY <2>1, <2>2, <3>2 DEF Works
    <3> QED BY <2>1, <3>3, <3>4, <3>5
  <2>4. CASE s \notin Toasted
    <3>1. work'.ends = work.ends /\ work' \in Works
      BY <1>0, <2>1, <2>2, <2>4 DEF Works
    <3>2. \A i \in Ids, status \in Toasted : work.ends[i][status] \in Nat
      BY <1>0
    <3> QED BY <2>1, <2>4, <3>1, <3>2
  <2> QED BY <2>3, <2>4
<1> QED BY <1>1, <1>2

LEMMA FeedTyped == ASSUME FeedTypeOK, GoneInv, FeedNext PROVE FeedTypeOK'
<1>0. /\ jobs \in [Ids -> Statuses] /\ feed \in Feeds /\ ReqsTypeOK
      /\ toasts \in [Ids -> [Toasted -> Nat]] /\ work \in Works
      /\ NoRows \in Lists /\ (\A k \in Keys : Rows(k) \in Lists) /\ "All" \in Filters /\ "All" \in Keys
      /\ Filters \subseteq Keys /\ Mounted \subseteq Keys
  BY ListsOfJobs, FeedAssumption DEF FeedTypeOK, Keys, Mounted, Feeds
<1>d. displayed \subseteq Ids
  <2>1. feed.cache[feed.filter] \in Lists
    BY <1>0 DEF Feeds
  <2> QED BY <2>1, ListsHoldJobs DEF displayed, filterJobsByStatus
<1>1. CASE Create \/ Work
  <2>1. PICK j \in Ids, status \in Statuses : jobs' = [jobs EXCEPT ![j] = status]
    BY <1>1 DEF Create, Work, There, Statuses, Active
  <2>2. UNCHANGED <<feed, toasts, reqVars>>
    BY <1>1 DEF Create, Work
  <2> QED BY <1>0, <1>1, <2>1, <2>2, WorkTyped DEF reqVars, FeedTypeOK, ReqsTypeOK
<1>2. CASE LinkTurns
  <2>1. feed' \in Feeds
    BY <1>0, <1>2 DEF LinkTurns, Feeds
  <2> QED BY <1>0, <1>2, <2>1 DEF LinkTurns, reqVars, FeedTypeOK, ReqsTypeOK
<1>3. CASE VisitJobs
  <2>1. feed' \in Feeds
    BY <1>0, <1>3 DEF VisitJobs, Feeds
  <2> QED BY <1>0, <1>3, <2>1, Unmounted DEF VisitJobs, FeedTypeOK
<1>4. CASE SetStatusFilter
  <2>1. feed' \in Feeds
    BY <1>0, <1>4 DEF SetStatusFilter, Feeds
  <2> QED BY <1>0, <1>4, <2>1 DEF SetStatusFilter, reqVars, FeedTypeOK, ReqsTypeOK
<1>5. CASE handleSelect
  <2>1. PICK j \in Ids \cup {NoJob} : feed' = [feed EXCEPT !.selected = j, !.filter = "All"]
    BY <1>d, <1>5 DEF handleSelect
  <2>2. feed' \in Feeds
    BY <1>0, <2>1 DEF Feeds
  <2> QED BY <1>0, <1>5, <2>2 DEF handleSelect, reqVars, FeedTypeOK, ReqsTypeOK
<1>6. CASE DeleteRow
  <2>1. PICK j \in Ids \cup {NoJob} : feed' = [feed EXCEPT !.deleting = j]
    BY <1>d, <1>6 DEF DeleteRow
  <2>2. feed' \in Feeds
    BY <1>0, <2>1 DEF Feeds
  <2>3. ReqsTypeOK'
    <3>1. CASE UNCHANGED reqVars
      BY <1>0, <3>1 DEF reqVars, ReqsTypeOK
    <3>2. CASE Send("job", feed.deleting, "none")
      BY <1>0, <3>2, Sent
    <3> QED BY <1>6, <3>1, <3>2 DEF DeleteRow
  <2> QED BY <1>0, <1>6, <2>2, <2>3 DEF DeleteRow, FeedTypeOK
<1>7. ASSUME NEW k \in Keys, FetchJobs(k) PROVE FeedTypeOK'
  <2>1. feed' \in Feeds
    BY <1>0, <1>7 DEF FetchJobs, Feeds
  <2> QED BY <1>0, <1>7, <2>1 DEF FetchJobs, reqVars, FeedTypeOK, ReqsTypeOK
<1>8. ASSUME NEW k \in Keys, ServeJobs(k) PROVE FeedTypeOK'
  <2>1. feed' \in Feeds
    BY <1>0, <1>8 DEF ServeJobs, Feeds
  <2> QED BY <1>0, <1>8, <2>1 DEF ServeJobs, reqVars, FeedTypeOK, ReqsTypeOK
<1>9. ASSUME NEW k \in Keys, ReadFails(k) PROVE FeedTypeOK'
  <2>1. feed' \in Feeds
    BY <1>0, <1>9 DEF ReadFails, Feeds
  <2> QED BY <1>0, <1>9, <2>1 DEF ReadFails, reqVars, FeedTypeOK, ReqsTypeOK
<1>10. ASSUME NEW k \in Keys, AnswerJobs(k) PROVE FeedTypeOK'
  <2>1. feed' = [feed EXCEPT !.cache[k] = feed.answer[k], !.read = @ \cup {k},
                             !.answered = @ \ {k}, !.answer[k] = NoRows]
    BY <1>10 DEF AnswerJobs
  <2>2. feed' \in Feeds
    BY <1>0, <2>1 DEF Feeds
  <2>3. toasts' \in [Ids -> [Toasted -> Nat]]
    <3>1. toasts' = toasts \/ toasts' = useJobToasts(feed.answer[k])
      BY <1>10 DEF AnswerJobs
    <3>2. useJobToasts(feed.answer[k]) \in [Ids -> [Toasted -> Nat]]
      BY <1>0 DEF useJobToasts, Toasted
    <3> QED BY <1>0, <3>1, <3>2
  <2> QED BY <1>0, <1>10, <2>2, <2>3 DEF AnswerJobs, reqVars, FeedTypeOK, ReqsTypeOK
<1>11. ASSUME NEW q \in reqs, AnswerJobDelete(q) PROVE FeedTypeOK'
  <2>1. q.id \in Ids
    BY <1>11 DEF AnswerJobDelete, GoneInv
  <2>2. jobs' \in [Ids -> Statuses]
    BY <1>0, <1>11 DEF AnswerJobDelete, Statuses
  <2>3. ReqsTypeOK'
    BY <1>0, <1>11, Responded, Settled DEF AnswerJobDelete
  <2>4. feed' \in Feeds
    <3>1. Invalidated \in Feeds
      BY <1>0 DEF Invalidated, Feeds
    <3>2. CASE feed' = [Invalidated EXCEPT !.gone = @ \cup {q.id}]
      BY <2>1, <3>1, <3>2 DEF Feeds
    <3> QED BY <1>0, <1>11, <3>2 DEF AnswerJobDelete
  <2> QED BY <1>0, <1>11, <2>2, <2>3, <2>4 DEF AnswerJobDelete, FeedTypeOK
<1> QED BY <1>1, <1>2, <1>3, <1>4, <1>5, <1>6, <1>7, <1>8, <1>9, <1>10, <1>11 DEF FeedNext

\* What a step does to the list of all jobs: nothing, but that what was to come may
\* be dropped; it is served; or it is shown, and announced.
Kept ==
    /\ Shown' = Shown /\ toasts' = toasts
    /\ IsComing' => IsComing /\ Coming' = Coming
    /\ "All" \in feed'.read <=> "All" \in feed.read
    /\ \/ feed'.gone = feed.gone
       \/ \E q \in reqs : /\ q.op = "job" /\ q.state = "ok"
                          /\ feed'.gone = feed.gone \cup {q.id} /\ ~IsComing'
Served ==
    /\ Shown' = Shown /\ toasts' = toasts /\ Coming' = Rows("All") /\ UNCHANGED <<jobs, work>>
    /\ feed'.gone = feed.gone /\ feed'.read = feed.read
Announcing ==
    /\ IsComing /\ Shown' = Coming /\ ~IsComing' /\ UNCHANGED <<jobs, work>>
    /\ feed'.gone = feed.gone /\ feed'.read = feed.read \cup {"All"}
    /\ toasts' = useJobToasts(Coming)

LEMMA FeedEffect ==
    ASSUME FeedTypeOK, GoneInv, FeedNext
    PROVE  Kept \/ Served \/ Announcing
<1>0. feed \in Feeds /\ "All" \in Keys /\ "All" \in Filters
  BY FeedAssumption DEF FeedTypeOK, Keys
<1>1. CASE Create \/ Work \/ (DeleteRow /\ UNCHANGED feed)
  BY <1>1 DEF Create, Work, DeleteRow, Kept, Shown, IsComing, Coming
<1>2. CASE LinkTurns \/ VisitJobs \/ SetStatusFilter \/ handleSelect \/ DeleteRow
  <2>1. /\ feed'.cache = feed.cache /\ feed'.answer = feed.answer /\ feed'.gone = feed.gone
        /\ feed'.answered = feed.answered /\ feed'.read = feed.read
    BY <1>0, <1>2 DEF LinkTurns, VisitJobs, SetStatusFilter, handleSelect, DeleteRow, Feeds
  <2>2. toasts' = toasts
    BY <1>2 DEF LinkTurns, VisitJobs, SetStatusFilter, handleSelect, DeleteRow
  <2> QED BY <2>1, <2>2 DEF Kept, Shown, IsComing, Coming
<1>3. ASSUME NEW k \in Keys, FetchJobs(k) \/ ReadFails(k) PROVE Kept
  <2>1. /\ feed'.cache = feed.cache /\ feed'.answer = feed.answer /\ feed'.gone = feed.gone
        /\ feed'.answered = feed.answered /\ feed'.read = feed.read
    BY <1>0, <1>3 DEF FetchJobs, ReadFails, Feeds
  <2> QED BY <1>3, <2>1 DEF FetchJobs, ReadFails, Kept, Shown, IsComing, Coming
<1>4. ASSUME NEW k \in Keys, ServeJobs(k) PROVE Kept \/ Served
  <2>1. /\ feed'.cache = feed.cache /\ feed'.answer = [feed.answer EXCEPT ![k] = Rows(k)]
        /\ feed'.gone = feed.gone /\ feed'.answered = feed.answered \cup {k}
        /\ feed'.read = feed.read
    BY <1>0, <1>4 DEF ServeJobs, Feeds
  <2>2. feed.answer \in [Keys -> Lists] /\ toasts' = toasts /\ jobs' = jobs /\ work' = work
    BY <1>0, <1>4 DEF ServeJobs, Feeds
  <2>3. CASE k = "All"
    BY <1>0, <2>1, <2>2, <2>3 DEF Served, Shown, Coming
  <2>4. CASE k # "All"
    BY <1>0, <2>1, <2>2, <2>4 DEF Kept, Shown, Coming, IsComing
  <2> QED BY <2>3, <2>4
<1>5. ASSUME NEW k \in Keys, AnswerJobs(k) PROVE Kept \/ Announcing
  <2>1. /\ feed'.cache = [feed.cache EXCEPT ![k] = feed.answer[k]]
        /\ feed'.answer = [feed.answer EXCEPT ![k] = NoRows]
        /\ feed'.gone = feed.gone /\ feed'.answered = feed.answered \ {k}
        /\ feed'.read = feed.read \cup {k}
    BY <1>0, <1>5 DEF AnswerJobs, Feeds
  <2>2. feed.answer \in [Keys -> Lists] /\ feed.cache \in [Keys -> Lists] /\ jobs' = jobs
        /\ work' = work /\ k \in feed.answered
    BY <1>0, <1>5 DEF AnswerJobs, Feeds
  <2>3. CASE k = "All"
    <3>1. toasts' = useJobToasts(Coming)
      BY <1>5, <2>3 DEF AnswerJobs, Coming
    <3>2. Shown' = Coming /\ IsComing /\ ~IsComing'
      BY <1>0, <2>1, <2>2, <2>3 DEF Shown, Coming, IsComing
    <3> QED BY <2>1, <2>2, <2>3, <3>1, <3>2 DEF Announcing
  <2>4. CASE k # "All"
    <3>1. toasts' = toasts
      BY <1>5, <2>4 DEF AnswerJobs
    <3> QED BY <1>0, <2>1, <2>2, <2>4, <3>1 DEF Kept, Shown, Coming, IsComing
  <2> QED BY <2>3, <2>4
<1>6. ASSUME NEW q \in reqs, AnswerJobDelete(q) PROVE Kept
  <2>0. toasts' = toasts
    BY <1>6 DEF AnswerJobDelete
  <2>1. CASE feed' = feed
    BY <2>0, <2>1 DEF Kept, Shown, Coming, IsComing
  <2>2. CASE q.state = "ok" /\ feed' = [Invalidated EXCEPT !.gone = @ \cup {q.id}]
    <3> DEFINE keys == Mounted \cap Filters
               again == keys \cap feed.read
    <3>1. Invalidated = [feed EXCEPT !.asked = @ \cup (keys \ (feed.answered \ again)),
                                     !.answered = @ \ again,
                                     !.answer = [k \in Keys |-> IF k \in again THEN NoRows ELSE @[k]]]
      BY DEF Invalidated
    <3>2. "All" \in again
      BY <1>0, <1>6 DEF GoneInv, AnswerJobDelete, Mounted
    <3> HIDE DEF again, keys
    <3>3. /\ Invalidated.cache = feed.cache /\ Invalidated.gone = feed.gone
          /\ Invalidated.answered = feed.answered \ again /\ Invalidated.read = feed.read
          /\ DOMAIN Invalidated = DOMAIN feed
      BY <1>0, <3>1 DEF Feeds
    <3>4. /\ feed'.cache = feed.cache /\ feed'.gone = feed.gone \cup {q.id}
          /\ feed'.answered = feed.answered \ again /\ feed'.read = feed.read
      BY <1>0, <2>2, <3>3 DEF Feeds
    <3>5. ~IsComing' /\ Shown' = Shown
      BY <3>2, <3>4 DEF IsComing, Shown
    <3> QED BY <1>6, <2>0, <2>2, <3>4, <3>5 DEF Kept, AnswerJobDelete
  <2> QED BY <1>6, <2>1, <2>2 DEF AnswerJobDelete
<1> QED BY <1>1, <1>2, <1>3, <1>4, <1>5, <1>6 DEF FeedNext

\* A deleted job stays deleted, and every end is counted.
LEMMA EndsAreCounted ==
    ASSUME FeedTypeOK, GoneInv, FeedNext, NEW j \in Ids
    PROVE  /\ jobs[j] = "deleted" => jobs'[j] = "deleted"
           /\ \A status \in Toasted :
                /\ work.ends[j][status] <= work'.ends[j][status]
                /\ jobs'[j] = status /\ jobs[j] # status
                     => work'.ends[j][status] = work.ends[j][status] + 1
<1>0. /\ jobs \in [Ids -> Statuses] /\ work \in Works
      /\ \A status \in Toasted : status # "deleted" /\ work.ends[j][status] \in Nat
  BY DEF FeedTypeOK, Works, Toasted
<1>1. CASE Create \/ Work
  <2>1. jobs[j] = "deleted" => jobs'[j] = "deleted"
    BY <1>0, <1>1 DEF Create, Work, There
  <2> QED BY <1>0, <1>1, <2>1, WorkTyped
<1>2. CASE \E q \in reqs : AnswerJobDelete(q)
  <2>1. work' = work /\ (jobs'[j] = jobs[j] \/ jobs'[j] = "deleted")
    BY <1>0, <1>2 DEF AnswerJobDelete
  <2> QED BY <1>0, <2>1
<1>3. CASE UNCHANGED <<jobs, work>>
  BY <1>0, <1>3
<1> QED
  BY <1>1, <1>2, <1>3 DEF FeedNext, LinkTurns, VisitJobs, SetStatusFilter, handleSelect, DeleteRow,
     FetchJobs, ServeJobs, ReadFails, AnswerJobs

LEMMA GoneStep == ASSUME FeedTypeOK, GoneInv, FeedNext PROVE GoneInv'
<1>0. /\ feed \in Feeds /\ ReqsTypeOK /\ jobs \in [Ids -> Statuses]
      /\ feed.gone \subseteq Ids /\ (Kept \/ Served \/ Announcing)
  BY FeedEffect DEF FeedTypeOK, Feeds
<1>1. \A q \in reqs' : q.op = "job" => q.id \in Ids /\ (q.state = "ok" => jobs'[q.id] = "deleted")
  <2>1. ASSUME NEW q \in reqs, NEW r, r.op = q.op, r.id = q.id, r.state = q.state, r.op = "job"
        PROVE  r.id \in Ids /\ (r.state = "ok" => jobs'[r.id] = "deleted")
    BY <2>1, EndsAreCounted DEF GoneInv
  <2>2. CASE UNCHANGED reqVars
    BY <2>1, <2>2 DEF reqVars
  <2>3. CASE VisitJobs
    BY <1>0, <2>1, <2>3, Unmounted DEF VisitJobs
  <2>4. CASE DeleteRow /\ feed.deleting # NoJob /\ Send("job", feed.deleting, "none")
    <3>1. feed.deleting \in Ids
      BY <1>0, <2>4 DEF Feeds
    <3>2. \A r \in reqs' : r \in reqs \/ (r.op = "job" /\ r.id = feed.deleting /\ r.state = "sent")
      BY <1>0, <2>4, Sent
    <3> QED BY <2>1, <3>1, <3>2
  <2>5. ASSUME NEW q \in reqs, AnswerJobDelete(q)
        PROVE  \A r \in reqs' : r.op = "job" => r.id \in Ids /\ (r.state = "ok" => jobs'[r.id] = "deleted")
    <3>1. q.op = "job" /\ q.id \in Ids
      BY <2>5 DEF AnswerJobDelete, GoneInv
    <3>2. CASE jobs' = [jobs EXCEPT ![q.id] = "deleted"] /\ \E state \in {"ok", "failed"} : Respond(q, state)
      <4>1. jobs'[q.id] = "deleted"
        BY <1>0, <3>1, <3>2
      <4>2. \A r \in reqs' : r \in reqs \/ r.id = q.id
        BY <1>0, <3>2, Responded
      <4> QED BY <2>1, <3>1, <4>1, <4>2
    <3>3. CASE Respond(q, "failed")
      <4>1. \A r \in reqs' : r \in reqs \/ (r.id = q.id /\ r.state = "failed")
        BY <1>0, <3>3, Responded
      <4> QED BY <2>1, <3>1, <4>1
    <3>4. CASE Settle(q)
      BY <1>0, <2>1, <3>4, Settled
    <3> QED BY <2>5, <3>2, <3>3, <3>4 DEF AnswerJobDelete
  <2> QED
    BY <2>2, <2>3, <2>4, <2>5 DEF FeedNext, Create, Work, LinkTurns, SetStatusFilter, handleSelect, DeleteRow,
       FetchJobs, ServeJobs, ReadFails, AnswerJobs
<1>2. \A j \in feed'.gone : jobs'[j] = "deleted"
  BY <1>0, EndsAreCounted DEF GoneInv, Kept, Served, Announcing
<1>3. IsComing' => feed'.gone \cap DOMAIN Coming' = {}
  BY <1>0, RowsAreJobs DEF GoneInv, Kept, Served, Announcing
<1>4. ASSUME "All" \notin feed'.read
      PROVE  /\ feed'.filter = "All" /\ feed'.deleting = NoJob
             /\ Shown' = NoRows' /\ \A q \in reqs' : q.op # "job"
  <2>1. /\ "All" \notin feed.read /\ Shown' = Shown /\ feed.filter = "All" /\ feed.deleting = NoJob
        /\ Shown = NoRows /\ \A q \in reqs : q.op # "job"
    BY <1>0, <1>4 DEF GoneInv, Kept, Served, Announcing
  <2>2. NoRows' = NoRows /\ displayed = {}
    BY <2>1 DEF NoRows, displayed, filterJobsByStatus, Shown
  <2>3. /\ feed'.filter = "All" /\ feed'.deleting = NoJob
    <3>1. CASE SetStatusFilter \/ DeleteRow
      BY <2>1, <2>2, <3>1 DEF SetStatusFilter, DeleteRow
    <3>2. CASE VisitJobs
      BY <1>0, <3>2 DEF VisitJobs, Feeds
    <3>7. CASE handleSelect
      <4>1. PICK j : feed' = [feed EXCEPT !.selected = j, !.filter = "All"]
        BY <3>7 DEF handleSelect
      <4> QED BY <1>0, <2>1, <4>1 DEF Feeds
    <3>3. CASE UNCHANGED feed
      BY <2>1, <3>3
    <3>4. ASSUME NEW k \in Keys, FetchJobs(k) \/ ServeJobs(k) \/ ReadFails(k) \/ AnswerJobs(k)
          PROVE  feed'.filter = "All" /\ feed'.deleting = NoJob
      BY <1>0, <2>1, <3>4 DEF FetchJobs, ServeJobs, ReadFails, AnswerJobs, Feeds
    <3>5. CASE LinkTurns
      BY <1>0, <2>1, <3>5 DEF LinkTurns, Feeds
    <3>6. ASSUME NEW q \in reqs PROVE ~AnswerJobDelete(q)
      BY <2>1 DEF AnswerJobDelete
    <3> QED BY <3>1, <3>2, <3>3, <3>4, <3>5, <3>6, <3>7 DEF FeedNext, Create, Work
  <2>4. \A q \in reqs' : q.op # "job"
    <3>1. CASE VisitJobs
      BY <1>0, <2>1, <3>1, Unmounted DEF VisitJobs
    <3>2. CASE UNCHANGED reqVars
      BY <2>1, <3>2 DEF reqVars
    <3> QED
      BY <2>1, <3>1, <3>2 DEF FeedNext, Create, Work, LinkTurns, SetStatusFilter, handleSelect,
         DeleteRow, FetchJobs, ServeJobs, ReadFails, AnswerJobs, AnswerJobDelete
  <2> QED BY <2>1, <2>2, <2>3, <2>4
<1> QED BY <1>1, <1>2, <1>3, <1>4 DEF GoneInv

LEMMA ToastStep == ASSUME FeedInv, FeedNext PROVE ToastInv'
<1>0. FeedTypeOK /\ GoneInv /\ (Kept \/ Served \/ Announcing)
  BY FeedEffect DEF FeedInv
<1> SUFFICES ASSUME NEW j \in Ids, NEW status \in Toasted
             PROVE  /\ toasts'[j][status] <= work'.ends[j][status]
                    /\ Due(j, status)' => toasts'[j][status] + 1 <= work'.ends[j][status]
  BY DEF ToastInv
<1> DEFINE told == toasts[j][status]
           ends == work.ends[j][status]
<1>1. /\ told \in Nat /\ told <= ends /\ (Due(j, status) => told + 1 <= ends)
      /\ ends \in Nat /\ ends <= ends'
      /\ jobs'[j] = status /\ jobs[j] # status => ends' = ends + 1
  <2>1. told \in Nat /\ ends \in Nat
    BY <1>0 DEF FeedTypeOK, Works
  <2>2. told <= ends /\ (Due(j, status) => told + 1 <= ends)
    BY DEF FeedInv, ToastInv
  <2> QED BY <1>0, <2>1, <2>2, EndsAreCounted
<1>t. ends' \in Nat
  BY <1>0, FeedTyped DEF FeedTypeOK, Works
<1>2. CASE Kept
  <2>1. told' = told
    BY <1>2 DEF Kept
  <2>2. Due(j, status)' => Due(j, status) \/ (jobs'[j] = status /\ jobs[j] # status)
    BY <1>2 DEF Kept, Due, Says, Denies
  <2> HIDE DEF told, ends
  <2>3. told' <= ends' /\ (Due(j, status)' => told' + 1 <= ends')
    BY <1>1, <1>t, <2>1, <2>2
  <2> QED BY <2>3 DEF told, ends
<1>3. CASE Served
  <2>1. told' = told /\ ends' = ends
    BY <1>3 DEF Served
  <2>2. Due(j, status)' => Due(j, status)
    BY <1>3, RowsAreJobs DEF Served, Due, Says, Denies
  <2> HIDE DEF told, ends
  <2>3. told' <= ends' /\ (Due(j, status)' => told' + 1 <= ends')
    BY <1>1, <2>1, <2>2
  <2> QED BY <2>3 DEF told, ends
<1>4. CASE Announcing
  <2>1. ends' = ends /\ (told' = told \/ (told' = told + 1 /\ Denies(Shown, j, status) /\ Says(Coming, j, status)))
    <3>1. ends' = ends
      BY <1>4 DEF Announcing
    <3>2. told' = useJobToasts(Coming)[j][status]
      BY <1>4 DEF Announcing
    <3>3. useJobToasts(Coming)[j][status]
            = told + IF "All" \in feed.read /\ Denies(Shown, j, status) /\ Says(Coming, j, status)
                     THEN 1 ELSE 0
      BY DEF useJobToasts, Became, Shown, Says, Denies
    <3> QED BY <1>1, <3>1, <3>2, <3>3
  <2>2. Due(j, status)' => Due(j, status) /\ ~Says(Coming, j, status)
    BY <1>4 DEF Announcing, Due, Says, Denies
  <2>3. Denies(Shown, j, status) /\ Says(Coming, j, status) => Due(j, status)
    BY <1>4 DEF Announcing, Due
  <2> HIDE DEF told, ends
  <2>4. told' <= ends' /\ (Due(j, status)' => told' + 1 <= ends')
    BY <1>1, <2>1, <2>2, <2>3
  <2> QED BY <2>4 DEF told, ends
<1> QED BY <1>0, <1>2, <1>3, <1>4

LEMMA FeedStep == ASSUME FeedInv, [FeedNext]_<<feedVars, reqVars>> PROVE FeedInv'
<1>1. CASE FeedNext
  BY <1>1, FeedTyped, GoneStep, ToastStep DEF FeedInv
<1>2. CASE UNCHANGED <<feedVars, reqVars>>
  BY <1>2 DEF feedVars, reqVars, FeedInv, FeedTypeOK, GoneInv, ToastInv, Due, Says, Denies, Shown,
     Coming, IsComing, NoRows, ReqsTypeOK
<1> QED BY <1>1, <1>2

\* The list that is shown changes with an answer only.
LEMMA FeedReads ==
    ASSUME FeedInv, FeedNext, Shown' # Shown
    PROVE  feed.gone \cap DOMAIN Shown' = {}
BY FeedEffect DEF FeedInv, GoneInv, Kept, Served, Announcing

-----------------------------------------------------------------------------
(* All of them: one is used, and the others stay as they began. *)

ShellInv ==
    /\ LinkInv /\ LogInv
    /\ focus \in FeedViews \cup {"bell"} \/ reqs = {}
    /\ IF focus \in FeedViews THEN FeedInv ELSE ToastedOncePerEnd
    /\ focus = "bell" => BellInv

LEMMA ShellInit == Init => ShellInv
<1> SUFFICES ASSUME Init PROVE ShellInv
  OBVIOUS
<1>1. reqs = {} /\ FeedInv /\ LinkInv /\ LogInv /\ BellInv
  BY LinkInit, LogInvInit, FeedInvInit, BellInvInit DEF Init, RequestsInit
<1>2. ToastedOncePerEnd
  BY <1>1 DEF FeedInv, ToastInv, ToastedOncePerEnd
<1> QED BY <1>1, <1>2 DEF ShellInv

LEMMA ShellStep == ShellInv /\ [Next]_vars => ShellInv'
<1> SUFFICES ASSUME ShellInv, [Next]_vars PROVE ShellInv'
  OBVIOUS
<1>1. CASE focus = "link" /\ StatusNext /\ UNCHANGED <<focus, reqVars, feedVars, bellVars, logVars>>
  BY <1>1, LinkStep, LogStep DEF ShellInv, feedVars, reqVars, FeedViews, ToastedOncePerEnd
<1>2. CASE focus \in FeedViews /\ FeedNext /\ UNCHANGED <<focus, linkVars, bellVars, logVars>>
  BY <1>2, LinkStep, LogStep, FeedStep DEF ShellInv, FeedViews
<1>3. CASE focus = "bell" /\ BellNext /\ UNCHANGED <<focus, linkVars, feedVars, logVars>>
  BY <1>3, LinkStep, LogStep, BellStep DEF ShellInv, feedVars, FeedViews, ToastedOncePerEnd
<1>4. CASE focus = "log" /\ LogNext /\ UNCHANGED <<focus, linkVars, reqVars, feedVars, bellVars>>
  BY <1>4, LinkStep, LogStep DEF ShellInv, feedVars, reqVars, FeedViews, ToastedOncePerEnd
<1>5. CASE UNCHANGED vars
  BY <1>5, LinkStep, LogStep, FeedStep, BellStep DEF ShellInv, vars, feedVars, reqVars, ToastedOncePerEnd
<1> QED BY <1>1, <1>2, <1>3, <1>4, <1>5 DEF Next

\* Polling is stopped only over a socket that is open, and waiting is for something:
\* for every number of listeners, retries, sockets and timers.
THEOREM StatusCorrect == Spec => []StatusIsTrue
<1>1. ShellInv => StatusIsTrue
  BY DEF ShellInv, LinkInv
<1> QED BY <1>1, ShellInit, ShellStep, PTL DEF Spec

\* A log read behind its subscribed socket misses no line but those beyond the limit
\* of the request, for any number of lines and any limit.
THEOREM LogCorrect == Spec => []NoLineMissing
<1>1. ShellInv => NoLineMissing
  BY LogShown DEF ShellInv
<1> QED BY <1>1, ShellInit, ShellStep, PTL DEF Spec

\* No end is announced twice, however often a job is run again, and what is deleted
\* or read stays so: for any number of jobs, notifications, requests and statuses
\* written, and lists of any length.
THEOREM EndsCorrect == Spec => NothingUndone
<1>1. ShellInv => ToastedOncePerEnd
  BY DEF ShellInv, FeedInv, ToastInv, ToastedOncePerEnd
<1>2. ShellInv /\ [Next]_vars =>
        [feed'.cache["All"] # feed.cache["All"]
           => feed.gone \cap DOMAIN feed'.cache["All"] = {}]_feedVars
  <2> SUFFICES ASSUME ShellInv, [Next]_vars, feedVars' # feedVars, Shown' # Shown
               PROVE  feed.gone \cap DOMAIN Shown' = {}
    BY DEF Shown
  <2>1. focus \in FeedViews /\ FeedNext
    BY DEF Next, vars
  <2> QED BY <2>1, FeedReads DEF ShellInv
<1>3. ShellInv /\ [Next]_vars =>
        [bell'.cache # bell.cache => \A n \in bell.marked : n \in DOMAIN bell'.cache
                                       => bell'.cache[n]]_bellVars
  <2> SUFFICES ASSUME ShellInv, [Next]_vars, bellVars' # bellVars, bell'.cache # bell.cache,
                      NEW n \in bell.marked, n \in DOMAIN bell'.cache
               PROVE  bell'.cache[n]
    OBVIOUS
  <2>1. focus = "bell" /\ BellNext
    BY DEF Next, vars
  <2> QED BY <2>1, BellReads DEF ShellInv
<1> QED
  BY <1>1, <1>2, <1>3, ShellInit, ShellStep, PTL
  DEF Spec, NothingUndone, DeletedStaysUnlisted, ReadStaysRead
=============================================================================
