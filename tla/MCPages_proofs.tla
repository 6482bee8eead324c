----------------------------- MODULE MCPages_proofs -----------------------------
(* Proofs about the pages around the frames: the calls every page makes, the *)
(* monitor of a job, the settings, the frame around the pages, the animation *)
(* page and the picture of the live view.                                    *)
EXTENDS MCPages, TLAPS

-----------------------------------------------------------------------------
(* The calls: retries, keys and breakers. *)

Breakers == [state : {"closed", "open", "half-open"}, failures : Nat, cooled : BOOLEAN]

CallRecords == [n : Nat, mut : Mutations, attempt : Nat,
                phase : {"sent", "ok", "refused", "unavailable"}]
Attempts == [n : Nat, mut : Mutations, attempt : Nat,
             at : {"sent", "missed", "made"}, answered : BOOLEAN]

\* A stored answer has the key of its call, so that an attempt that misses it has
\* looked before it was stored.
KeysOfCalls ==
    /\ calls \in SUBSET CallRecords /\ requests \in SUBSET Attempts /\ made \in Nat
    /\ \A a \in answers : a.key = <<a.call, 0>>
    /\ \A q \in requests : ~q.answered
    /\ NoJobAfterAnswer

\* A breaker that is not closed has counted its threshold.
BreakersInv == breakers \in [Endpoints -> Breakers] /\ BreakerCountsFailures

CallsInv == KeysOfCalls /\ BreakersInv

LEMMA CallsInit == ASSUME MutationInit PROVE CallsInv
BY ResilienceAssumption
   DEF MutationInit, CallsInv, KeysOfCalls, BreakersInv, Breakers, BreakerCountsFailures,
       NoJobAfterAnswer

\* An answer leaves the calls typed, whether or not one waits for it.
LEMMA AnswerType ==
    ASSUME KeysOfCalls, NEW q, NEW phases \in SUBSET {"ok", "refused"}, Answer(q, phases)
    PROVE  /\ calls' \in SUBSET CallRecords
           /\ requests' \in SUBSET Attempts /\ \A r \in requests' : ~r.answered
           /\ made' \in Nat
<1>1. PICK phase \in phases \cup {"unavailable"} :
        calls' = {IF Awaits(c, q) THEN [c EXCEPT !.phase = phase] ELSE c : c \in calls}
  BY DEF Answer
<1>2. \A c \in CallRecords : [c EXCEPT !.phase = phase] \in CallRecords
  BY <1>1 DEF CallRecords
<1>3. calls' \in SUBSET CallRecords
  BY <1>1, <1>2 DEF KeysOfCalls
<1> QED BY <1>3 DEF KeysOfCalls, Answer

\* A handler goes on with the request it has, and what it found in the store.
LEMMA HandleType ==
    ASSUME KeysOfCalls, NEW q, NEW served \in Attempts, ~served.answered, Handle(q, served)
    PROVE  /\ calls' \in SUBSET CallRecords
           /\ requests' \in SUBSET Attempts /\ \A r \in requests' : ~r.answered
           /\ made' \in Nat
BY DEF KeysOfCalls, Handle

\* Whatever the server does with an attempt, and however late.
LEMMA ServedOnce == ASSUME KeysOfCalls, NEW q \in requests, Serve(q) PROVE KeysOfCalls'
<1>q. q \in Attempts /\ ~q.answered
  BY DEF KeysOfCalls
<1>1. ASSUME Refuse(q) \/ ServeDelete(q) PROVE KeysOfCalls'
  <2>1. Answer(q, {"refused"}) \/ Answer(q, {"ok"})
    BY <1>1 DEF Refuse, ServeDelete
  <2>2. UNCHANGED <<answers, jobRows>>
    BY <1>1 DEF Refuse, ServeDelete
  <2> QED BY <2>1, <2>2, AnswerType DEF KeysOfCalls, NoJobAfterAnswer
<1>2. ASSUME LookUp(q) PROVE KeysOfCalls'
  <2> DEFINE missed(known) == [q EXCEPT !.at = "missed", !.answered = known]
  <2>1. UNCHANGED <<answers, jobRows>>
    BY <1>2 DEF LookUp
  <2>2. CASE Answer(q, {"ok"})
    BY <2>1, <2>2, AnswerType DEF KeysOfCalls, NoJobAfterAnswer
  <2>3. CASE /\ ~ \E a \in answers : a.key = idempotencyKey(q)
             /\ Handle(q, missed(\E a \in answers : a.call = q.n))
    <3>1. (\E a \in answers : a.call = q.n) = FALSE
      BY <2>3 DEF KeysOfCalls, idempotencyKey
    <3>2. missed(FALSE) \in Attempts /\ ~missed(FALSE).answered
      BY <1>q DEF Attempts
    <3>3. Handle(q, missed(FALSE))
      BY <2>3, <3>1
    <3> HIDE DEF missed
    <3> QED BY <2>1, <3>2, <3>3, HandleType DEF KeysOfCalls, NoJobAfterAnswer
  <2>4. CASE Handle(q, [q EXCEPT !.at = "missed"])
    <3>1. [q EXCEPT !.at = "missed"] \in Attempts /\ ~[q EXCEPT !.at = "missed"].answered
      BY <1>q DEF Attempts
    <3> QED BY <2>1, <2>4, <3>1, HandleType DEF KeysOfCalls, NoJobAfterAnswer
  <2> QED BY <1>2, <2>2, <2>3, <2>4 DEF LookUp
<1>3. ASSUME CommitJob(q) PROVE KeysOfCalls'
  <2>1. [q EXCEPT !.at = "made"] \in Attempts /\ ~[q EXCEPT !.at = "made"].answered
    BY <1>q DEF Attempts
  <2>2. Handle(q, [q EXCEPT !.at = "made"]) /\ UNCHANGED answers
    BY <1>3 DEF CommitJob
  <2>3. NoJobAfterAnswer'
    BY <1>3, <1>q DEF CommitJob, KeysOfCalls, NoJobAfterAnswer
  <2> QED BY <2>1, <2>2, <2>3, HandleType DEF KeysOfCalls
<1>4. ASSUME StoreAnswer(q) PROVE KeysOfCalls'
  <2>1. Answer(q, {"ok"}) /\ UNCHANGED jobRows
    BY <1>4 DEF StoreAnswer
  <2>2. \A a \in answers' : a.key = <<a.call, 0>>
    BY <1>4 DEF StoreAnswer, KeysOfCalls, idempotencyKey
  <2> QED BY <2>1, <2>2, AnswerType DEF KeysOfCalls, NoJobAfterAnswer
<1> QED BY <1>1, <1>2, <1>3, <1>4 DEF Serve

\* What the client does: it sends attempts that have found nothing yet.
LEMMA ClientSends ==
    ASSUME KeysOfCalls,
           \/ \E m \in Mutations : mutate(m)
           \/ \E c \in calls : TimeOut(c) \/ withBackoff(c) \/ End(c)
    PROVE  KeysOfCalls'
<1>0. \A c \in CallRecords : Request(c) \in Attempts /\ ~Request(c).answered
  BY DEF Request, CallRecords, Attempts
<1>1. ASSUME NEW m \in Mutations, mutate(m) PROVE KeysOfCalls'
  <2> DEFINE c == [n |-> made + 1, mut |-> m, attempt |-> 1, phase |-> "sent"]
  <2>1. c \in CallRecords
    BY DEF KeysOfCalls, CallRecords
  <2>2. /\ calls' = calls \cup {c} /\ requests' = requests \cup {Request(c)}
        /\ made' = made + 1 /\ UNCHANGED <<answers, jobRows>>
    BY <1>1 DEF mutate
  <2> HIDE DEF c
  <2> QED BY <1>0, <2>1, <2>2 DEF KeysOfCalls, NoJobAfterAnswer
<1>2. ASSUME NEW c \in calls, TimeOut(c) PROVE KeysOfCalls'
  <2>1. [c EXCEPT !.phase = "unavailable"] \in CallRecords
    BY DEF KeysOfCalls, CallRecords
  <2> QED BY <1>2, <2>1 DEF TimeOut, serverVars, KeysOfCalls, NoJobAfterAnswer
<1>3. ASSUME NEW c \in calls, withBackoff(c) PROVE KeysOfCalls'
  <2> DEFINE again == [c EXCEPT !.phase = "sent", !.attempt = @ + 1]
  <2>1. again \in CallRecords
    <3>1. c \in CallRecords
      BY DEF KeysOfCalls
    <3>2. c.attempt + 1 \in Nat
      BY <3>1 DEF CallRecords
    <3> QED BY <3>1, <3>2 DEF CallRecords
  <2>2. /\ calls' = (calls \ {c}) \cup {again} /\ requests' = requests \cup {Request(again)}
        /\ UNCHANGED <<made, answers, jobRows>>
    BY <1>3 DEF withBackoff
  <2> HIDE DEF again
  <2> QED BY <1>0, <2>1, <2>2 DEF KeysOfCalls, NoJobAfterAnswer
<1>4. ASSUME NEW c \in calls, End(c) PROVE KeysOfCalls'
  BY <1>4 DEF End, serverVars, KeysOfCalls, NoJobAfterAnswer
<1> QED BY <1>1, <1>2, <1>3, <1>4

\* Every outcome leaves a breaker closed exactly below its threshold.
LEMMA OutcomeCounted ==
    ASSUME NEW b \in Breakers, b.state = "closed" <=> b.failures < FailureThreshold,
           NEW r \in {maybeTransitionToHalfOpen(b), recordSuccess(b), recordFailure(b)}
    PROVE  r \in Breakers /\ (r.state = "closed" <=> r.failures < FailureThreshold)
<1>0. FailureThreshold \in Nat \ {0}
  BY ResilienceAssumption
<1>1. CASE r = maybeTransitionToHalfOpen(b)
  BY <1>0, <1>1 DEF maybeTransitionToHalfOpen, Breakers
<1>2. CASE r = recordSuccess(b)
  BY <1>0, <1>2 DEF recordSuccess, Breakers
<1>3. CASE r = recordFailure(b)
  BY <1>0, <1>3 DEF recordFailure, Breakers
<1> QED BY <1>1, <1>2, <1>3

\* What is done to a breaker, by a call that begins or ends or by time.
LEMMA BreakersStep ==
    ASSUME BreakersInv,
           \/ \E m \in Mutations : mutate(m)
           \/ \E c \in calls : End(c)
           \/ \E e \in Endpoints : CoolDown(e)
    PROVE  BreakersInv'
<1>0. breakers \in [Endpoints -> Breakers]
  BY DEF BreakersInv
<1>b. ASSUME NEW e, NEW b \in Breakers, breakers' = [breakers EXCEPT ![e] = b],
             b.state = "closed" <=> b.failures < FailureThreshold
      PROVE  BreakersInv'
  BY <1>0, <1>b DEF BreakersInv, BreakerCountsFailures
<1>e. \A e \in Endpoints :
        /\ breakers[e] \in Breakers
        /\ breakers[e].state = "closed" <=> breakers[e].failures < FailureThreshold
  BY <1>0 DEF BreakersInv, BreakerCountsFailures
<1>1. ASSUME NEW m \in Mutations, mutate(m) PROVE BreakersInv'
  <2> DEFINE b == maybeTransitionToHalfOpen(breakers[m.endpoint])
  <2>1. m.endpoint \in Endpoints
    <3>1. CASE m = useCreateJob
      BY <3>1 DEF useCreateJob, Endpoints
    <3>2. ASSUME NEW id \in Jobs, m = useDeleteJob(id) PROVE m.endpoint \in Endpoints
      BY <3>2 DEF useDeleteJob, Endpoints
    <3> QED BY <3>1, <3>2 DEF Mutations
  <2>2. b \in Breakers /\ (b.state = "closed" <=> b.failures < FailureThreshold)
    BY <1>e, <2>1, OutcomeCounted
  <2>3. breakers' = [breakers EXCEPT ![m.endpoint] = b]
    BY <1>1 DEF mutate
  <2> HIDE DEF b
  <2> QED BY <1>b, <2>2, <2>3
<1>2. ASSUME NEW c \in calls, End(c) PROVE BreakersInv'
  <2> DEFINE e == c.mut.endpoint
             b == IF c.phase = "ok" THEN recordSuccess(breakers[e]) ELSE recordFailure(breakers[e])
  <2>1. breakers' = [breakers EXCEPT ![e] = b]
    BY <1>2 DEF End
  <2>2. CASE e \in Endpoints
    <3>1. b \in Breakers /\ (b.state = "closed" <=> b.failures < FailureThreshold)
      BY <1>e, <2>2, OutcomeCounted
    <3> HIDE DEF b, e
    <3> QED BY <1>b, <2>1, <3>1
  <2>3. CASE e \notin Endpoints
    <3>1. breakers' = breakers
      BY <1>0, <2>1, <2>3
    <3> QED BY <3>1 DEF BreakersInv, BreakerCountsFailures
  <2> QED BY <2>2, <2>3
<1>3. ASSUME NEW e \in Endpoints, CoolDown(e) PROVE BreakersInv'
  <2> DEFINE b == [breakers[e] EXCEPT !.cooled = TRUE]
  <2>1. b \in Breakers /\ (b.state = "closed" <=> b.failures < FailureThreshold)
    BY <1>e DEF Breakers
  <2>2. breakers' = [breakers EXCEPT ![e] = b]
    BY <1>3 DEF CoolDown, b
  <2> HIDE DEF b
  <2> QED BY <1>b, <2>1, <2>2
<1> QED BY <1>1, <1>2, <1>3

LEMMA CallsStep == ASSUME CallsInv, [MutationNext]_mutationVars PROVE CallsInv'
<1>u. ASSUME UNCHANGED breakers PROVE BreakersInv'
  BY <1>u DEF CallsInv, BreakersInv, BreakerCountsFailures
<1>1. ASSUME (\E m \in Mutations : mutate(m)) \/ (\E c \in calls : End(c)) PROVE CallsInv'
  BY <1>1, ClientSends, BreakersStep DEF CallsInv
<1>2. ASSUME \E c \in calls : TimeOut(c) \/ withBackoff(c) PROVE CallsInv'
  <2>1. UNCHANGED breakers
    BY <1>2 DEF TimeOut, withBackoff
  <2> QED BY <1>2, <1>u, <2>1, ClientSends DEF CallsInv
<1>3. ASSUME NEW q \in requests, Serve(q) PROVE CallsInv'
  <2>1. UNCHANGED breakers
    BY <1>3 DEF Serve, Refuse, ServeDelete, LookUp, CommitJob, StoreAnswer, Answer, Handle
  <2> QED BY <1>3, <1>u, <2>1, ServedOnce DEF CallsInv
<1>4. ASSUME NEW e \in Endpoints, CoolDown(e) PROVE CallsInv'
  <2>1. KeysOfCalls'
    BY <1>4 DEF CoolDown, serverVars, CallsInv, KeysOfCalls, NoJobAfterAnswer
  <2> QED BY <1>4, <2>1, BreakersStep DEF CallsInv
<1>5. CASE UNCHANGED mutationVars
  BY <1>u, <1>5 DEF mutationVars, serverVars, CallsInv, KeysOfCalls, NoJobAfterAnswer
<1> QED BY <1>1, <1>2, <1>3, <1>4, <1>5 DEF MutationNext

-----------------------------------------------------------------------------
(* The monitor of a job. *)

JobStatuses == TERMINAL_STATES \cup {"pending", "processing", "gone"}
Sockets == [socket : {"none", "connecting", "open", "closing"}, retries : Nat,
            timer : BOOLEAN, terminal : BOOLEAN, inbox : Seq(JobStatuses)]

\* The timer runs only while there is no socket.
SocketInv ==
    /\ job \in JobStatuses /\ ws \in Sockets
    /\ ws.timer => ws.socket = "none"
    /\ NoSocketAfterEnd

LEMMA SocketInit == ASSUME MonitorInit PROVE SocketInv
BY DEF MonitorInit, SocketInv, JobStatuses, TERMINAL_STATES, Sockets, NoSocket, NoSocketAfterEnd

LEMMA SocketStep == ASSUME SocketInv, [MonitorNext]_<<monitorVars, reqVars>> PROVE SocketInv'
<1>0. job \in JobStatuses /\ ws \in Sockets /\ ws.inbox \in Seq(JobStatuses)
  BY DEF SocketInv, Sockets
<1>n. ASSUME ws' = NoSocket, job' = job PROVE SocketInv'
  BY <1>n, <1>0 DEF SocketInv, Sockets, NoSocket, NoSocketAfterEnd
<1>u. ASSUME ws' = ws, job' \in JobStatuses PROVE SocketInv'
  BY <1>u, <1>0 DEF SocketInv, NoSocketAfterEnd
<1>1. CASE JobRuns
  <2>1. PICK s \in JobStatuses :
          /\ job' \in {job, s}
          /\ ws' = ws \/ ws' = [ws EXCEPT !.inbox = Append(@, s)]
    BY <1>1 DEF JobRuns, JobStatuses
  <2>2. Append(ws.inbox, s) \in Seq(JobStatuses)
    BY <1>0
  <2>3. CASE ws' = [ws EXCEPT !.inbox = Append(@, s)]
    BY <1>0, <2>1, <2>2, <2>3 DEF SocketInv, Sockets, NoSocketAfterEnd
  <2> QED BY <1>0, <1>u, <2>1, <2>3
<1>12. CASE StatusWritten
  BY <1>u, <1>12 DEF StatusWritten, JobStatuses, TERMINAL_STATES
<1>2. CASE onopen
  BY <1>0, <1>2 DEF onopen, SocketInv, Sockets, NoSocketAfterEnd
<1>3. CASE onmessage
  <2>1. Tail(ws.inbox) \in Seq(JobStatuses) /\ <<>> \in Seq(JobStatuses)
        /\ ws.socket = "open" /\ job' = job
    BY <1>0, <1>3 DEF onmessage
  <2>2. PICK inbox \in Seq(JobStatuses), socket \in {"open", "closing"}, terminal \in BOOLEAN :
          ws' = [ws EXCEPT !.inbox = inbox, !.terminal = terminal, !.socket = socket]
    <3>1. ws.terminal \in BOOLEAN
      BY <1>0 DEF Sockets
    <3>2. CASE Head(ws.inbox) \in WriterStops
      BY <1>3, <2>1, <3>1, <3>2 DEF onmessage
    <3>3. CASE Head(ws.inbox) \notin WriterStops
      BY <1>3, <2>1, <3>1, <3>3 DEF onmessage
    <3> QED BY <3>2, <3>3
  <2> QED BY <1>0, <2>1, <2>2 DEF SocketInv, Sockets, NoSocketAfterEnd
<1>4. CASE SocketFails
  <2>1. <<>> \in Seq(JobStatuses)
    OBVIOUS
  <2> QED BY <1>0, <1>4, <2>1 DEF SocketFails, SocketInv, Sockets, NoSocketAfterEnd
<1>5. CASE onclose
  <2>1. job' = job /\ ws.socket = "closing" /\ ws.retries + 1 \in Nat
    BY <1>0, <1>5 DEF onclose, Sockets
  <2>2. CASE StaysClosed
    <3>1. ws' = [ws EXCEPT !.socket = "none", !.timer = FALSE, !.retries = ws.retries]
      BY <1>5, <2>2 DEF onclose
    <3> QED BY <1>0, <2>1, <3>1 DEF SocketInv, Sockets, NoSocketAfterEnd
  <2>3. CASE ~StaysClosed
    <3>1. ws' = [ws EXCEPT !.socket = "none", !.timer = TRUE, !.retries = ws.retries + 1]
      BY <1>5, <2>3 DEF onclose
    <3>2. ~ws.terminal
      BY <2>3 DEF StaysClosed
    <3> QED BY <1>0, <2>1, <3>1, <3>2 DEF SocketInv, Sockets, NoSocketAfterEnd
  <2> QED BY <2>2, <2>3
<1>6. CASE Reconnect
  BY <1>0, <1>6 DEF Reconnect, connectSocket, SocketInv, Sockets, NoSocketAfterEnd
<1>7. CASE OpenMonitor
  <2> DEFINE opened == [NoSocket EXCEPT !.terminal = FALSE]
  <2>1. NoSocket \in Sockets /\ NoSocket.timer = FALSE
    BY DEF NoSocket, Sockets
  <2>2. opened \in Sockets /\ opened.terminal = FALSE /\ opened.timer = FALSE
    BY <2>1 DEF Sockets
  <2>3. ws' = connectSocket(opened) /\ job' = job
    BY <1>7 DEF OpenMonitor
  <2> HIDE DEF opened
  <2>4. /\ ws' = [opened EXCEPT !.socket = "connecting"]
        /\ ws' \in Sockets /\ ws'.timer = FALSE /\ ws'.terminal = FALSE
    BY <2>2, <2>3 DEF connectSocket, Sockets
  <2> QED BY <1>0, <2>3, <2>4 DEF SocketInv, NoSocketAfterEnd
<1>8. CASE LeaveMonitor
  BY <1>n, <1>8 DEF LeaveMonitor, onBack
<1>9. ASSUME NEW q \in reqs, ServeAction(q) PROVE SocketInv'
  BY <1>0, <1>u, <1>9 DEF ServeAction, JobStatuses
<1>10. ASSUME NEW q \in reqs, AnswerAction(q) PROVE SocketInv'
  BY <1>0, <1>n, <1>u, <1>10 DEF AnswerAction
<1>11. CASE ReadJob \/ ServeJob \/ AnswerJob \/ HeartbeatTurns \/ JobActions \/ UNCHANGED monitorVars
  BY <1>0, <1>u, <1>11 DEF ReadJob, ServeJob, AnswerJob, HeartbeatTurns, JobActions, monitorVars
<1> QED
  BY <1>1, <1>2, <1>3, <1>4, <1>5, <1>6, <1>7, <1>8, <1>9, <1>10, <1>11, <1>12
     DEF MonitorNext

-----------------------------------------------------------------------------
(* The requests the pages share. *)

IsRequest(q) ==
    q \in [n : {q.n}, op : {q.op}, id : {q.id}, val : {q.val}, state : {q.state}, here : BOOLEAN]

ReqsTypeOK == sent \in Nat /\ \A q \in reqs : IsRequest(q) /\ q.n \in Nat /\ q.n <= sent

Same(r, q) == r.n = q.n /\ r.op = q.op /\ r.val = q.val

\* A step leaves of the requests what they ask for, and adds at most one, of ops.
Follows(ops) ==
    /\ ReqsTypeOK' /\ sent <= sent'
    /\ \A r \in reqs' : (\E q \in reqs : Same(r, q)) \/ (r.op \in ops /\ r.n > sent)

LEMMA Idle == ASSUME ReqsTypeOK, UNCHANGED reqVars, NEW ops PROVE Follows(ops)
BY DEF reqVars, ReqsTypeOK, Follows, Same

LEMMA Sends ==
    ASSUME NEW op, NEW STATE id, NEW STATE val, ReqsTypeOK, Send(op, id, val), NEW ops, op \in ops
    PROVE  /\ Follows(ops)
           /\ \A r \in reqs' : r \in reqs \/ (r.op = op /\ r.val = val /\ r.n > sent)
<1> DEFINE a == [n |-> sent', op |-> op, id |-> id, val |-> val, state |-> "sent", here |-> TRUE]
<1>1. reqs' = reqs \cup {a} /\ sent' = sent + 1
  BY DEF Send
<1>2. IsRequest(a) /\ a.n = sent' /\ a.op = op /\ a.val = val
  BY DEF IsRequest
<1>3. sent' \in Nat /\ sent' > sent /\ sent <= sent'
  BY <1>1 DEF ReqsTypeOK
<1> HIDE DEF a
<1>4. ReqsTypeOK'
  BY <1>1, <1>2, <1>3 DEF ReqsTypeOK
<1> QED BY <1>1, <1>2, <1>3, <1>4 DEF Follows, Same

LEMMA Responds ==
    ASSUME NEW q \in reqs, NEW state, ReqsTypeOK, Respond(q, state), NEW ops PROVE Follows(ops)
<1> DEFINE a == [q EXCEPT !.state = state, !.id = q.id]
<1>1. IsRequest(q) /\ q.n \in Nat /\ q.n <= sent
  BY DEF ReqsTypeOK
<1>2. a \in [n : {q.n}, op : {q.op}, id : {q.id}, val : {q.val}, state : {state}, here : BOOLEAN]
  BY <1>1 DEF IsRequest
<1>3. IsRequest(a) /\ Same(a, q)
  BY <1>2 DEF IsRequest, Same
<1>4. reqs' = (reqs \ {q}) \cup {a} /\ sent' = sent
  BY DEF Respond, RespondWith
<1> HIDE DEF a
<1>5. a.n \in Nat /\ a.n <= sent
  BY <1>1, <1>3 DEF Same
<1>6. ReqsTypeOK'
  BY <1>3, <1>4, <1>5 DEF ReqsTypeOK
<1> QED BY <1>3, <1>4, <1>6 DEF Follows, Same, ReqsTypeOK

LEMMA Settles ==
    ASSUME NEW q \in reqs, ReqsTypeOK, Settle(q), NEW ops PROVE Follows(ops)
BY DEF Settle, Follows, Same, ReqsTypeOK

\* The page goes, with some of its requests unobserved and some forgotten.
LEMMA Unmounts ==
    ASSUME ReqsTypeOK, NEW S \in SUBSET reqs, sent' = sent,
           reqs' = {[q EXCEPT !.here = FALSE] : q \in S}, NEW ops
    PROVE  Follows(ops)
<1>1. ASSUME NEW q \in reqs
      PROVE  IsRequest([q EXCEPT !.here = FALSE]) /\ Same([q EXCEPT !.here = FALSE], q)
  <2>1. [q EXCEPT !.here = FALSE] \in
          [n : {q.n}, op : {q.op}, id : {q.id}, val : {q.val}, state : {q.state}, here : {FALSE}]
    BY DEF ReqsTypeOK, IsRequest
  <2> QED BY <2>1 DEF IsRequest, Same
<1>2. \A r \in reqs' : \E q \in reqs : IsRequest(r) /\ Same(r, q)
  BY <1>1
<1>3. ReqsTypeOK'
  BY <1>2 DEF ReqsTypeOK, Same
<1> QED BY <1>2, <1>3 DEF Follows, ReqsTypeOK

LEMMA MonitorFollows ==
    ASSUME ReqsTypeOK, MonitorNext PROVE Follows({"cancel", "delete", "retry"})
<1> DEFINE ops == {"cancel", "delete", "retry"}
<1>1. CASE JobActions
  BY <1>1, Sends DEF JobActions
<1>2. CASE LeaveMonitor
  BY <1>2, Unmounts DEF LeaveMonitor, onBack, Unmount
<1>3. ASSUME NEW q \in reqs, ServeAction(q) PROVE Follows(ops)
  BY <1>3, Responds DEF ServeAction
<1>4. ASSUME NEW q \in reqs, AnswerAction(q) PROVE Follows(ops)
  <2>1. CASE Settle(q)
    BY <2>1, Settles
  <2>2. CASE reqs' = {[p EXCEPT !.here = FALSE] : p \in reqs \ {q}} /\ sent' = sent
    BY <2>2, Unmounts
  <2> QED BY <1>4, <2>1, <2>2 DEF AnswerAction
<1>5. CASE UNCHANGED reqVars
  BY <1>5, Idle
<1> QED
  BY <1>1, <1>2, <1>3, <1>4, <1>5 DEF MonitorNext, JobRuns, StatusWritten, onopen, onmessage, SocketFails, onclose,
     Reconnect, OpenMonitor, ReadJob, ServeJob, AnswerJob, HeartbeatTurns

LEMMA StudioFollows ==
    ASSUME ReqsTypeOK, StudioNext PROVE Follows({"generate", "batch"})
<1> DEFINE ops == {"generate", "batch"}
<1>1. CASE Generate
  BY <1>1, Sends DEF Generate
<1>2. CASE BatchPanel
  BY <1>2, Sends, Idle DEF BatchPanel
<1>3. CASE LeaveStudio \/ handleRetry
  BY <1>3, Unmounts DEF LeaveStudio, handleRetry, Unmount
<1>4. ASSUME NEW q \in reqs, ServeAnimation(q) PROVE Follows(ops)
  BY <1>4, Responds DEF ServeAnimation
<1>5. ASSUME NEW q \in reqs, AnswerAnimation(q) PROVE Follows(ops)
  BY <1>5, Settles DEF AnswerAnimation
<1>6. CASE UNCHANGED reqVars
  BY <1>6, Idle
<1> QED
  BY <1>1, <1>2, <1>3, <1>4, <1>5, <1>6 DEF StudioNext, OpenStudio, ProductsArrive, updateConfig,
     handleQuickStartChip, setSourceMode, AskPreview, AnswerPreview

-----------------------------------------------------------------------------
(* The settings. *)

Forms == [Fields -> Values]
Uis == [key : Forms \cup {Unread}, form : Forms \cup {Unread}, touched : SUBSET Fields,
        toast : BOOLEAN, invalidField : Fields \cup {"none"}]
SettingsPages == [cache : Forms \cup {Unread}, answer : Forms \cup {Unread}, asked : BOOLEAN,
                  told : BOOLEAN, tab : {"config", "data", "system"}, ui : Uis]

\* A form is that of its key where it is not touched; it is saved as it is.
SettingsInv ==
    /\ settings \in Forms /\ page \in SettingsPages
    /\ page.ui.key # Unread =>
         /\ page.ui.form \in Forms
         /\ \A f \in Fields \ page.ui.touched : page.ui.form[f] = page.ui.key[f]
    /\ \A q \in reqs : q.op = "settings" => q.val \in Forms

LEMMA SettingsInitially == ASSUME RequestsInit, SettingsInit PROVE SettingsInv
<1>1. settings \in Forms
  BY SettingsAssumption DEF SettingsInit, Forms
<1>2. page = [cache |-> Unread, answer |-> Unread, asked |-> FALSE, told |-> FALSE,
              tab |-> "config", ui |-> SettingsForm(Unread)]
  BY DEF SettingsInit
<1>3. SettingsForm(Unread) \in Uis
  BY DEF SettingsForm, Uis
<1>4. page \in SettingsPages /\ page.ui = SettingsForm(Unread)
  BY <1>2, <1>3 DEF SettingsPages
<1> QED BY <1>1, <1>4 DEF SettingsInv, SettingsForm, RequestsInit

\* The form for settings that were read is as they are.
LEMMA FormOf ==
    ASSUME NEW c \in Forms
    PROVE  LET ui == SettingsForm(c)
           IN  ui \in Uis /\ ui.key = c /\ ui.form = c /\ ui.touched = {}
BY DEF SettingsForm, Uis

LEMMA SettingsStep ==
    ASSUME SettingsInv, ReqsTypeOK, SettingsNext
    PROVE  SettingsInv' /\ Follows({"settings"})
<1> DEFINE ops == {"settings"}
           Vals == \A q \in reqs' : q.op = "settings" => q.val \in Forms
<1>0. settings \in Forms /\ page \in SettingsPages /\ page.ui \in Uis
  BY DEF SettingsInv, SettingsPages
<1>i. ASSUME UNCHANGED reqVars PROVE Follows(ops) /\ Vals
  BY <1>i, Idle DEF SettingsInv, reqVars
<1>v. ASSUME \A r \in reqs' : \E q \in reqs : Same(r, q) PROVE Vals
  BY <1>v DEF SettingsInv, Same
<1>k. ASSUME page' \in SettingsPages, page'.ui.key = page.ui.key, page'.ui.form = page.ui.form,
             page'.ui.touched = page.ui.touched, settings' \in Forms, Vals
      PROVE  SettingsInv'
  BY <1>k DEF SettingsInv
<1>1. CASE ReadSettings
  <2>1. page' \in SettingsPages /\ page'.ui = page.ui
    BY <1>0, <1>1 DEF ReadSettings, SettingsPages
  <2> QED BY <1>0, <1>1, <1>i, <1>k, <2>1 DEF ReadSettings
<1>2. CASE ServeSettings
  <2>1. page' \in SettingsPages /\ page'.ui = page.ui
    BY <1>0, <1>2 DEF ServeSettings, SettingsPages
  <2> QED BY <1>0, <1>2, <1>i, <1>k, <2>1 DEF ServeSettings
<1>3. CASE AnswerSettings
  <2> DEFINE ui == [page.ui EXCEPT !.toast = @ \/ (page.told /\ Shown)]
  <2>1. /\ ui \in Uis /\ ui.key = page.ui.key /\ ui.form = page.ui.form
        /\ ui.touched = page.ui.touched
    BY <1>0 DEF Uis, SettingsPages
  <2>2. page' = [page EXCEPT !.cache = page.answer, !.answer = Unread, !.told = FALSE, !.ui = ui]
    BY <1>3 DEF AnswerSettings
  <2> HIDE DEF ui
  <2>3. page' \in SettingsPages /\ page'.ui = ui
    BY <1>0, <2>1, <2>2 DEF SettingsPages
  <2> QED BY <1>0, <1>3, <1>i, <1>k, <2>1, <2>3 DEF AnswerSettings
<1>4. CASE RenderForm
  <2>1. page.cache \in Forms
    BY <1>0, <1>4 DEF RenderForm, SettingsPages
  <2>2. page' = [page EXCEPT !.told = FALSE, !.ui = SettingsForm(page.cache)]
    BY <1>4 DEF RenderForm, Keyed
  <2>3. page' \in SettingsPages /\ page'.ui = SettingsForm(page.cache)
    BY <1>0, <2>1, <2>2, FormOf DEF SettingsPages
  <2>4. reqs' = {[q EXCEPT !.here = FALSE] : q \in reqs} /\ sent' = sent
    BY <1>4 DEF RenderForm, Unmount
  <2>5. Follows({}) /\ Follows(ops)
    BY <2>4, Unmounts
  <2>6. Vals
    BY <2>5, <1>v DEF Follows
  <2> QED BY <1>0, <1>4, <2>1, <2>3, <2>5, <2>6, FormOf DEF RenderForm, SettingsInv
<1>5. CASE changeTab
  <2>1. page.cache \in Forms
    BY <1>0, <1>5 DEF changeTab, SettingsPages
  <2>2. PICK tab \in {"config", "data", "system"} :
          page' = [page EXCEPT !.tab = tab, !.told = FALSE, !.ui = SettingsForm(page.cache)]
    BY <1>5 DEF changeTab
  <2>3. page' \in SettingsPages /\ page'.ui = SettingsForm(page.cache)
    BY <1>0, <2>1, <2>2, FormOf DEF SettingsPages
  <2>4. reqs' = {[q EXCEPT !.here = FALSE] : q \in reqs} /\ sent' = sent
    BY <1>5 DEF changeTab, Unmount
  <2>5. Follows({}) /\ Follows(ops)
    BY <2>4, Unmounts
  <2>6. Vals
    BY <2>5, <1>v DEF Follows
  <2> QED BY <1>0, <1>5, <2>1, <2>3, <2>5, <2>6, FormOf DEF changeTab, SettingsInv
<1>6. CASE setForm
  <2>1. PICK f \in Fields, v \in Values :
          page' = [page EXCEPT !.ui.form[f] = v, !.ui.touched = @ \cup {f}]
    BY <1>6 DEF setForm
  <2> DEFINE form == [page.ui.form EXCEPT ![f] = v]
             ui == [page.ui EXCEPT !.form = form, !.touched = @ \cup {f}]
  <2>2. page.ui.form \in Forms
    BY <1>6 DEF setForm, Shown, SettingsInv
  <2>3. form \in Forms /\ \A g \in Fields \ {f} : form[g] = page.ui.form[g]
    BY <2>2 DEF Forms
  <2>4. page' = [page EXCEPT !.ui = ui]
    BY <1>0, <2>1 DEF SettingsPages, Uis
  <2> HIDE DEF form
  <2>5. /\ ui \in Uis /\ ui.key = page.ui.key /\ ui.form = form
        /\ ui.touched = page.ui.touched \cup {f}
    BY <1>0, <2>3 DEF Uis
  <2> HIDE DEF ui
  <2>6. page' \in SettingsPages /\ page'.ui = ui
    BY <1>0, <2>4, <2>5 DEF SettingsPages
  <2> QED BY <1>0, <1>6, <1>i, <2>3, <2>5, <2>6 DEF setForm, SettingsInv
<1>7. CASE handleSave
  <2>1. PICK g \in Fields \cup {"none"} : page' = [page EXCEPT !.ui.invalidField = g]
    BY <1>7 DEF handleSave, OutOfRange
  <2> DEFINE ui == [page.ui EXCEPT !.invalidField = g]
  <2>2. page' = [page EXCEPT !.ui = ui]
    BY <1>0, <2>1 DEF SettingsPages, Uis
  <2>3. /\ ui \in Uis /\ ui.key = page.ui.key /\ ui.form = page.ui.form
        /\ ui.touched = page.ui.touched
    BY <1>0 DEF Uis
  <2> HIDE DEF ui
  <2>4. page' \in SettingsPages /\ page'.ui = ui
    BY <1>0, <2>2, <2>3 DEF SettingsPages
  <2>5. Follows(ops) /\ Vals
    <3>1. CASE Send("settings", "none", page.ui.form)
      <4>1. page.ui.form \in Forms
        BY <1>7 DEF handleSave, Shown, SettingsInv
      <4>2. /\ Follows(ops)
            /\ \A r \in reqs' : r \in reqs \/ (r.op = "settings" /\ r.val = page.ui.form /\ r.n > sent)
        BY <3>1, Sends
      <4> QED BY <4>1, <4>2 DEF SettingsInv
    <3> QED BY <1>7, <1>i, <3>1 DEF handleSave
  <2> QED BY <1>0, <1>7, <1>k, <2>3, <2>4, <2>5 DEF handleSave
<1>8. CASE HideToast
  <2> DEFINE ui == [page.ui EXCEPT !.toast = FALSE]
  <2>2. page' = [page EXCEPT !.ui = ui]
    BY <1>0, <1>8 DEF HideToast, SettingsPages, Uis
  <2>3. /\ ui \in Uis /\ ui.key = page.ui.key /\ ui.form = page.ui.form
        /\ ui.touched = page.ui.touched
    BY <1>0 DEF Uis
  <2> HIDE DEF ui
  <2>4. page' \in SettingsPages /\ page'.ui = ui
    BY <1>0, <2>2, <2>3 DEF SettingsPages
  <2> QED BY <1>0, <1>8, <1>i, <1>k, <2>3, <2>4 DEF HideToast
<1>9. CASE OtherWindow
  <2>1. settings' \in Forms
    BY <1>0, <1>9, SettingsAssumption DEF OtherWindow, Forms
  <2> QED BY <1>0, <1>9, <1>i, <1>k, <2>1 DEF OtherWindow
<1>10. ASSUME NEW q \in reqs, ServeSettingsUpdate(q) PROVE SettingsInv' /\ Follows(ops)
  <2>1. settings' \in Forms /\ page' = page
    BY <1>0, <1>10 DEF ServeSettingsUpdate, SettingsInv
  <2>2. Follows({}) /\ Follows(ops)
    BY <1>10, Responds DEF ServeSettingsUpdate
  <2>3. Vals
    BY <2>2, <1>v DEF Follows
  <2> QED BY <1>0, <1>k, <2>1, <2>2, <2>3
<1>11. ASSUME NEW q \in reqs, AnswerUpdate(q) PROVE SettingsInv' /\ Follows(ops)
  <2>1. Follows({}) /\ Follows(ops) /\ settings' = settings
    BY <1>11, Settles DEF AnswerUpdate
  <2>2. Vals
    BY <2>1, <1>v DEF Follows
  <2>3. CASE page' = [page EXCEPT !.answer = Unread, !.asked = TRUE, !.told = q.here]
    <3>0. q.here \in BOOLEAN
      BY DEF ReqsTypeOK, IsRequest
    <3>1. page' \in SettingsPages /\ page'.ui = page.ui
      BY <1>0, <2>3, <3>0 DEF SettingsPages
    <3> QED BY <1>0, <1>k, <2>1, <2>2, <3>1
  <2>4. ASSUME NEW g \in Fields \cup {"none"}, page' = [page EXCEPT !.ui.invalidField = g] PROVE SettingsInv'
    <3> DEFINE ui == [page.ui EXCEPT !.invalidField = g]
    <3>2. page' = [page EXCEPT !.ui = ui]
      BY <1>0, <2>4 DEF SettingsPages, Uis
    <3>3. /\ ui \in Uis /\ ui.key = page.ui.key /\ ui.form = page.ui.form
          /\ ui.touched = page.ui.touched
      BY <1>0 DEF Uis
    <3> HIDE DEF ui
    <3>4. page' \in SettingsPages /\ page'.ui = ui
      BY <1>0, <3>2, <3>3 DEF SettingsPages
    <3> QED BY <1>0, <1>k, <2>1, <2>2, <3>3, <3>4
  <2>5. CASE page' = page
    BY <1>0, <1>k, <2>1, <2>2, <2>5
  <2> QED BY <1>11, <2>1, <2>3, <2>4, <2>5 DEF AnswerUpdate, extractBackendValidationError
<1> QED
  BY <1>1, <1>2, <1>3, <1>4, <1>5, <1>6, <1>7, <1>8, <1>9, <1>10, <1>11 DEF SettingsNext

\* A new request saves what the form shows, which is what was read where it is not touched.
LEMMA SettingsSaves ==
    ASSUME SettingsInv, ReqsTypeOK, SettingsNext, NEW r \in reqs', r.op = "settings", r.n > sent
    PROVE  \A f \in Fields \ page.ui.touched : r.val[f] = page.cache[f]
<1>0. ASSUME \E q \in reqs : Same(r, q) PROVE FALSE
  BY <1>0 DEF Same, ReqsTypeOK
<1>1. CASE Send("settings", "none", page.ui.form) /\ Shown
  <2>1. r \in reqs \/ r.val = page.ui.form
    BY <1>1, Sends
  <2>2. page.ui.key = page.cache /\ page.ui.key # Unread
    BY <1>1 DEF Shown
  <2> QED BY <1>0, <2>1, <2>2 DEF SettingsInv, Same
<1>2. CASE UNCHANGED reqVars
  BY <1>0, <1>2 DEF reqVars, Same
<1>3. CASE changeTab \/ RenderForm
  <2>1. Follows({})
    BY <1>3, Unmounts DEF changeTab, RenderForm, Unmount
  <2> QED BY <1>0, <2>1 DEF Follows
<1>4. ASSUME NEW q \in reqs, ServeSettingsUpdate(q) PROVE FALSE
  <2>1. Follows({})
    BY <1>4, Responds DEF ServeSettingsUpdate
  <2> QED BY <1>0, <2>1 DEF Follows
<1>5. ASSUME NEW q \in reqs, AnswerUpdate(q) PROVE FALSE
  <2>1. Follows({})
    BY <1>5, Settles DEF AnswerUpdate
  <2> QED BY <1>0, <2>1 DEF Follows
<1> QED
  BY <1>1, <1>2, <1>3, <1>4, <1>5 DEF SettingsNext, handleSave, ReadSettings, ServeSettings,
     AnswerSettings, setForm, HideToast, OtherWindow

-----------------------------------------------------------------------------
(* The frame around the pages. *)

IsShell(s) ==
    s \in [path : {s.path}, back : {s.back}, theme : {s.theme}, version : Nat,
           answer : {s.answer}, showWhatsNew : {s.showWhatsNew}, drawerOpen : {s.drawerOpen},
           moreOpen : {s.moreOpen}, help : {s.help}, pending : {s.pending}, timer : {s.timer}]
Minors == {Minor(v) : v \in Versions}

\* What a load was told is of the minor version last seen, and a version whose news
\* opened is not above that one.
NewsInv ==
    /\ IsShell(shell) /\ server \in Versions
    /\ stored \in [theme : {stored.theme}, lastSeen : Nat]
    /\ stored.lastSeen <= server
    /\ shell.version # Unseen => /\ shell.version <= server
                                 /\ Minor(shell.version) = Minor(stored.lastSeen)
    /\ popups \in [Minors -> Nat]
    /\ \A m \in Minors : popups[m] = 0 \/ (popups[m] = 1 /\ m <= Minor(stored.lastSeen))

LEMMA MinorGrows ==
    ASSUME NEW v \in Nat, NEW w \in Nat, v <= w
    PROVE  Minor(v) \in Nat /\ Minor(w) \in Nat /\ Minor(v) <= Minor(w)
BY DEF Minor

LEMMA VersionsAreNat == Versions \subseteq Nat /\ Minors \subseteq Nat
<1>1. Versions \subseteq Nat
  BY ShellAssumption
<1> QED BY <1>1, MinorGrows DEF Minors

LEMMA LoadedIsShell == \A path : IsShell(Loaded(path)) /\ Loaded(path).version = Unseen
BY DEF IsShell, Loaded, Unseen

LEMMA NewsInit == ASSUME ShellInit PROVE NewsInv
<1>1. popups = [m \in Minors |-> 0] /\ server \in Versions
  BY DEF ShellInit, Minors
<1>2. stored = [theme |-> system, lastSeen |-> Unseen] /\ shell = Loaded("/")
  BY DEF ShellInit
<1> QED BY <1>1, <1>2, LoadedIsShell, VersionsAreNat DEF NewsInv, Unseen

\* The steps that change neither what was seen nor the count.
LEMMA NewsKept ==
    ASSUME NewsInv, UNCHANGED popups, server' \in Versions, server <= server',
           IsShell(shell'), shell'.version \in {shell.version, Unseen},
           stored' \in [theme : {stored'.theme}, lastSeen : {stored.lastSeen}]
    PROVE  NewsInv'
<1>1. /\ server \in Nat /\ server' \in Nat /\ stored.lastSeen \in Nat
      /\ stored'.lastSeen = stored.lastSeen /\ shell.version \in Nat
  BY VersionsAreNat DEF NewsInv, IsShell
<1> QED BY <1>1 DEF NewsInv

LEMMA Visited ==
    ASSUME NEW STATE s, NEW path, IsShell(s), Visit(s, path)
    PROVE  /\ IsShell(shell') /\ shell'.version = s.version
           /\ UNCHANGED <<stored, server, popups>>
<1>1. PICK to, back : shell' = [s EXCEPT !.path = to, !.back = back, !.timer = FALSE]
  BY DEF Visit, IsShell
<1> QED BY <1>1 DEF Visit, IsShell

LEMMA NewsStep == ASSUME NewsInv, [ShellNext]_shellVars PROVE NewsInv'
<1>0. /\ IsShell(shell) /\ shell.version \in Nat /\ server \in Versions /\ server \in Nat
      /\ stored \in [theme : {stored.theme}, lastSeen : {stored.lastSeen}]
      /\ stored.lastSeen \in Nat /\ shell \in {shell}
  BY VersionsAreNat DEF NewsInv, IsShell
<1>k. ASSUME UNCHANGED <<stored, server, popups>>, IsShell(shell'), shell'.version = shell.version
      PROVE  NewsInv'
  BY <1>0, <1>k, NewsKept
<1>v. ASSUME NEW STATE s, NEW path, IsShell(s), s.version = shell.version, Visit(s, path)
      PROVE  NewsInv'
  BY <1>v, <1>k, Visited
<1>1. CASE Reload
  <2>1. stored' \in [theme : {stored'.theme}, lastSeen : {stored.lastSeen}]
    BY <1>0, <1>1 DEF Reload
  <2> QED BY <1>0, <1>1, <2>1, NewsKept, LoadedIsShell DEF Reload
<1>2. CASE toggleTheme
  <2>1. stored' \in [theme : {stored'.theme}, lastSeen : {stored.lastSeen}]
    BY <1>0, <1>2 DEF toggleTheme
  <2>2. IsShell(shell') /\ shell'.version = shell.version
    BY <1>0, <1>2 DEF toggleTheme, IsShell
  <2> QED BY <1>0, <1>2, <2>1, <2>2, NewsKept DEF toggleTheme
<1>3. CASE Upgrade
  <2>1. server' \in Versions /\ server <= server'
    BY <1>0, <1>3, VersionsAreNat DEF Upgrade
  <2> QED BY <1>0, <1>3, <2>1, NewsKept DEF Upgrade
<1>4. CASE fetchVersion
  <2>1. CASE /\ Minor(stored.lastSeen) # Minor(server)
             /\ shell' = [shell EXCEPT !.answer = "none", !.version = server, !.showWhatsNew = TRUE]
             /\ stored' = [stored EXCEPT !.lastSeen = server]
             /\ popups' = [popups EXCEPT ![Minor(server)] = @ + 1]
             /\ UNCHANGED server
    <3>1. IsShell(shell') /\ shell'.version = server
      BY <1>0, <2>1 DEF IsShell
    <3>2. stored' \in [theme : {stored'.theme}, lastSeen : Nat] /\ stored'.lastSeen = server
      BY <1>0, <2>1
    <3>3. /\ Minor(stored.lastSeen) \in Nat /\ Minor(server) \in Minors /\ Minor(server) \in Nat
          /\ Minor(stored.lastSeen) < Minor(server)
      BY <1>0, <2>1, MinorGrows DEF NewsInv, Minors
    <3>4. popups[Minor(server)] = 0
      BY <3>3 DEF NewsInv
    <3>5. popups' \in [Minors -> Nat] /\ popups'[Minor(server)] = 1
          /\ \A m \in Minors \ {Minor(server)} : popups'[m] = popups[m]
      BY <2>1, <3>3, <3>4 DEF NewsInv
    <3>6. \A m \in Minors : popups'[m] = 0 \/ (popups'[m] = 1 /\ m <= Minor(server))
      BY <3>3, <3>5, VersionsAreNat DEF NewsInv
    <3> QED BY <1>0, <2>1, <3>1, <3>2, <3>5, <3>6 DEF NewsInv
  <2>2. CASE /\ Minor(stored.lastSeen) = Minor(server)
             /\ shell' = [shell EXCEPT !.answer = "none", !.version = server]
             /\ UNCHANGED <<stored, popups, server>>
    <3>1. IsShell(shell') /\ shell'.version = server
      BY <1>0, <2>2 DEF IsShell
    <3> QED BY <1>0, <2>2, <3>1 DEF NewsInv
  <2>3. CASE shell' = [shell EXCEPT !.answer = "none"] /\ UNCHANGED <<stored, popups, server>>
    <3>1. IsShell(shell') /\ shell'.version = shell.version
      BY <1>0, <2>3 DEF IsShell
    <3> QED BY <1>k, <2>3, <3>1
  <2> QED
    BY <1>4, <2>1, <2>2, <2>3 DEF fetchVersion, isSignificantVersionBump, SeenAtOnce
<1>5. CASE CloseWhatsNew
  <2>1. IsShell(shell') /\ shell'.version = shell.version
    BY <1>0, <1>5 DEF CloseWhatsNew, IsShell
  <2>2. CASE shell.version = Unseen
    BY <1>5, <1>k, <2>1, <2>2 DEF CloseWhatsNew
  <2>3. CASE shell.version # Unseen
    <3>1. stored' \in [theme : {stored'.theme}, lastSeen : Nat] /\ stored'.lastSeen = shell.version
      BY <1>0, <1>5, <2>3 DEF CloseWhatsNew
    <3>2. Minor(stored'.lastSeen) = Minor(stored.lastSeen) /\ stored'.lastSeen <= server
      BY <2>3, <3>1 DEF NewsInv
    <3>3. UNCHANGED <<server, popups>>
      BY <1>5 DEF CloseWhatsNew
    <3> QED BY <2>1, <3>1, <3>2, <3>3 DEF NewsInv
  <2> QED BY <2>2, <2>3
<1>6. CASE SidebarLink \/ AddressBar
  BY <1>0, <1>6, <1>v DEF SidebarLink, AddressBar
<1>7. CASE Drawer
  <2> DEFINE s == [shell EXCEPT !.drawerOpen = FALSE]
  <2>1. IsShell(s) /\ s.version = shell.version
    BY <1>0 DEF IsShell
  <2> HIDE DEF s
  <2>2. ASSUME shell' = [shell EXCEPT !.drawerOpen = ~@] PROVE IsShell(shell') /\ shell'.version = shell.version
    BY <1>0, <2>2 DEF IsShell
  <2>3. ASSUME NEW path, Visit(s, path) PROVE NewsInv'
    BY <1>v, <2>1, <2>3
  <2> QED BY <1>7, <1>k, <2>2, <2>3 DEF Drawer, s
<1>8. CASE BottomNav
  <2> DEFINE s == [shell EXCEPT !.moreOpen = FALSE]
  <2>1. IsShell(s) /\ s.version = shell.version
    BY <1>0 DEF IsShell
  <2> HIDE DEF s
  <2>2. ASSUME shell' = [shell EXCEPT !.moreOpen = ~@] PROVE IsShell(shell') /\ shell'.version = shell.version
    BY <1>0, <2>2 DEF IsShell
  <2>3. ASSUME NEW path, Visit(s, path) PROVE NewsInv'
    BY <1>v, <2>1, <2>3
  <2> QED BY <1>8, <1>k, <2>2, <2>3 DEF BottomNav, s
<1>9. CASE PressDestination
  <2> DEFINE s == [shell EXCEPT !.pending = FALSE]
  <2>1. IsShell(s) /\ s.version = shell.version
    BY <1>0 DEF IsShell
  <2> HIDE DEF s
  <2>3. ASSUME NEW path, Visit(s, path) PROVE NewsInv'
    BY <1>v, <2>1, <2>3
  <2> QED BY <1>9, <2>3 DEF PressDestination, s
<1>10. CASE Back
  <2>1. PICK to, back : shell' = [shell EXCEPT !.path = to, !.timer = FALSE, !.back = back]
    BY <1>10 DEF Back
  <2>2. IsShell(shell') /\ shell'.version = shell.version
    BY <1>0, <2>1 DEF IsShell
  <2> QED BY <1>10, <1>k, <2>2 DEF Back
<1>11. CASE ShowChangelog \/ PressG \/ SequenceTimeout \/ PressHelp
  <2>1. IsShell(shell') /\ shell'.version = shell.version
    BY <1>0, <1>11 DEF IsShell, ShowChangelog, PressG, SequenceTimeout, PressHelp
  <2> QED
    BY <1>11, <1>k, <2>1 DEF ShowChangelog, PressG, SequenceTimeout, PressHelp
<1>12. CASE SystemTurns \/ UNCHANGED shellVars
  BY <1>0, <1>12, <1>k DEF SystemTurns, shellVars
<1> QED
  BY <1>1, <1>2, <1>3, <1>4, <1>5, <1>6, <1>7, <1>8, <1>9, <1>10, <1>11, <1>12 DEF ShellNext

-----------------------------------------------------------------------------
(* The animation page. *)

Configs == [satellite : StudioSatellites, range : Ranges]
Studios ==
    [page : {"open", "away", "crashed"}, config : Configs,
     chosen : StudioSatellites \cup {"none"}, sourceMode : {"filters", "collection"},
     collectionId : {"", "kept"}, items : Nat]

\* A page that shows the satellite its user has chosen.
Keeps(p) ==
    /\ p \in Studios
    /\ p.page = "open" /\ p.chosen \notin {"none", FirstSatellite} => p.config.satellite = p.chosen

StudioInv == Keeps(studio) /\ default \in StudioSatellites

LEMMA FreshKeeps == Keeps(Fresh) /\ Keeps(Away) /\ Keeps([Fresh EXCEPT !.page = "crashed"])
<1>1. DEFAULT_CONFIG \in Configs
  BY StudioAssumption DEF DEFAULT_CONFIG, Configs, Ranges
<1>2. Fresh \in Studios /\ Fresh.chosen = "none"
  BY <1>1 DEF Fresh, Studios
<1> QED BY <1>2 DEF Keeps, Away, Studios

LEMMA BoundaryKeeps ==
    ASSUME NEW p, Keeps(p), NEW read PROVE Keeps(ErrorBoundary(p, read))
BY FreshKeeps DEF ErrorBoundary

\* The default takes the place of the first of the list alone.
LEMMA DefaultKeeps ==
    ASSUME NEW p, Keeps(p), default \in StudioSatellites PROVE Keeps(WithDefault(p))
<1>1. CASE WithDefault(p) = p
  BY <1>1
<1>2. CASE /\ WithDefault(p) = [p EXCEPT !.config.satellite = default]
           /\ p.page = "open" /\ p.config.satellite = FirstSatellite
  <2>1. [p.config EXCEPT !.satellite = default] \in Configs
    BY DEF Keeps, Studios, Configs
  <2>2. WithDefault(p) = [p EXCEPT !.config = [p.config EXCEPT !.satellite = default]]
    BY <1>2 DEF Keeps, Studios
  <2> QED BY <1>2, <2>1, <2>2 DEF Keeps, Studios
<1> QED BY <1>1, <1>2 DEF WithDefault, TakesDefault

LEMMA MountedKeeps == ASSUME default \in StudioSatellites PROVE Keeps(Mounted)
<1>1. Keeps(ErrorBoundary(Fresh, Read))
  BY FreshKeeps, BoundaryKeeps
<1>2. Keeps(ErrorBoundary(WithDefault(ErrorBoundary(Fresh, Read)), Read))
  BY <1>1, DefaultKeeps, BoundaryKeeps
<1> QED BY <1>1, <1>2 DEF Mounted

LEMMA StudioStep == ASSUME StudioInv, [StudioNext]_studioVars PROVE StudioInv'
<1>0. Keeps(studio) /\ studio \in Studios /\ default \in StudioSatellites
  BY DEF StudioInv, Keeps
<1>s. ASSUME NEW p, Keeps(p), ShowsPage(p), default' = default PROVE StudioInv'
  BY <1>0, <1>s, BoundaryKeeps DEF ShowsPage, StudioInv
<1>1. CASE OpenStudio \/ handleRetry
  BY <1>0, <1>1, MountedKeeps DEF OpenStudio, handleRetry, StudioInv
<1>2. CASE LeaveStudio
  BY <1>0, <1>2, FreshKeeps DEF LeaveStudio, StudioInv
<1>3. CASE ProductsArrive
  BY <1>0, <1>3, <1>s, DefaultKeeps DEF ProductsArrive
<1>4. CASE updateConfig
  <2>1. ASSUME NEW s \in StudioSatellites,
               ShowsPage([studio EXCEPT !.config.satellite = s, !.chosen = s]), default' = default
        PROVE  StudioInv'
    <3> DEFINE c == [studio.config EXCEPT !.satellite = s]
               p == [studio EXCEPT !.config.satellite = s, !.chosen = s]
    <3>1. c \in Configs /\ c.satellite = s
      BY <1>0 DEF Studios, Configs
    <3>2. p = [studio EXCEPT !.config = c, !.chosen = s]
      BY <1>0 DEF Studios
    <3>3. ShowsPage(p)
      BY <2>1
    <3> HIDE DEF c, p
    <3>4. Keeps(p)
      BY <1>0, <3>1, <3>2 DEF Keeps, Studios
    <3> QED BY <1>s, <2>1, <3>3, <3>4
  <2>2. ASSUME NEW range \in Ranges, ShowsPage([studio EXCEPT !.config.range = range]),
               default' = default
        PROVE  StudioInv'
    <3> DEFINE c == [studio.config EXCEPT !.range = range]
               p == [studio EXCEPT !.config.range = range]
    <3>1. c \in Configs /\ c.satellite = studio.config.satellite
      BY <1>0 DEF Studios, Configs
    <3>2. p = [studio EXCEPT !.config = c]
      BY <1>0 DEF Studios
    <3>3. ShowsPage(p)
      BY <2>2
    <3> HIDE DEF c, p
    <3>4. Keeps(p)
      BY <1>0, <3>1, <3>2 DEF Keeps, Studios
    <3> QED BY <1>s, <2>2, <3>3, <3>4
  <2> QED BY <1>4, <2>1, <2>2 DEF updateConfig
<1>5. CASE handleQuickStartChip
  <2> DEFINE satellite == IF productsRead THEN default ELSE "GOES-19"
             c == [satellite |-> satellite, range |-> "other"]
             p == [studio EXCEPT !.sourceMode = "filters", !.chosen = satellite, !.config = c]
  <2>1. satellite \in StudioSatellites
    BY <1>0, StudioAssumption
  <2>2. ShowsPage(p) /\ default' = default
    BY <1>5 DEF handleQuickStartChip
  <2> HIDE DEF satellite
  <2>3. c \in Configs /\ c.satellite = satellite
    BY <2>1 DEF Configs, Ranges
  <2> HIDE DEF c
  <2>4. Keeps(p)
    BY <1>0, <2>1, <2>3 DEF Keeps, Studios
  <2> QED BY <1>s, <2>2, <2>4
<1>6. CASE setSourceMode
  <2>1. ASSUME NEW mode \in {"filters", "collection"} PROVE Keeps([studio EXCEPT !.sourceMode = mode])
    BY <1>0 DEF Keeps, Studios
  <2>2. ASSUME NEW id \in {"", "kept"} PROVE Keeps([studio EXCEPT !.collectionId = id])
    BY <1>0 DEF Keeps, Studios
  <2> QED BY <1>6, <1>s, <2>1, <2>2 DEF setSourceMode
<1>7. CASE AnswerPreview
  BY <1>0, <1>7, BoundaryKeeps DEF AnswerPreview, StudioInv
<1>8. CASE BatchPanel
  <2>1. ASSUME NEW items \in Nat PROVE Keeps([studio EXCEPT !.items = items])
    BY <1>0 DEF Keeps, Studios
  <2>2. studio.items \in Nat
    BY <1>0 DEF Studios
  <2>3. studio.items + 1 \in Nat /\ (studio.items > 0 => studio.items - 1 \in Nat)
    BY <2>2
  <2>4. PICK items \in Nat : studio' = [studio EXCEPT !.items = items] \/ studio' = studio
    BY <1>8, <2>2, <2>3 DEF BatchPanel
  <2> QED BY <1>0, <1>8, <2>1, <2>4 DEF BatchPanel, StudioInv
<1>9. CASE UNCHANGED <<studio, default>>
  BY <1>0, <1>9 DEF StudioInv
<1> QED
  BY <1>1, <1>2, <1>3, <1>4, <1>5, <1>6, <1>7, <1>8, <1>9 DEF StudioNext, AskPreview, Generate,
     ServeAnimation, AnswerAnimation, studioVars

-----------------------------------------------------------------------------
(* The picture of the live view. *)

Addresses == [url : Urls, retried : BOOLEAN]
Images == [src : Urls, displaySrc : Addresses, error : BOOLEAN, loaded : BOOLEAN,
           usingCached : BOOLEAN, dismissed : BOOLEAN]

ImageInv == image \in Images /\ cached \in Urls \cup {"none"} /\ BannerMeansCached

\* The picture of an address that is not the remembered one, as it is or tried again.
LEMMA ResetIsImage ==
    ASSUME NEW src \in Urls
    PROVE  LET tried == [Reset(src) EXCEPT !.displaySrc.retried = TRUE]
               shown == [Reset(src) EXCEPT !.loaded = TRUE]
           IN  \A i \in {Reset(src), tried, shown} :
                 i \in Images /\ ~i.usingCached /\ i.displaySrc.url = i.src
<1>1. Plain(src) \in Addresses /\ Plain(src).url = src
  BY DEF Plain, Addresses
<1>2. Reset(src) \in Images /\ ~Reset(src).usingCached /\ Reset(src).src = src
      /\ Reset(src).displaySrc = Plain(src)
  BY <1>1 DEF Reset, Images
<1> DEFINE address == [Plain(src) EXCEPT !.retried = TRUE]
<1>3. address \in Addresses /\ address.url = src
  BY <1>1 DEF Addresses
<1>4. [Reset(src) EXCEPT !.displaySrc.retried = TRUE] = [Reset(src) EXCEPT !.displaySrc = address]
  BY <1>2 DEF Images
<1> HIDE DEF address
<1>5. [Reset(src) EXCEPT !.displaySrc = address] \in Images
      /\ ~[Reset(src) EXCEPT !.displaySrc = address].usingCached
      /\ [Reset(src) EXCEPT !.displaySrc = address].displaySrc.url
           = [Reset(src) EXCEPT !.displaySrc = address].src
  BY <1>2, <1>3 DEF Images
<1>6. [Reset(src) EXCEPT !.loaded = TRUE] \in Images
      /\ ~[Reset(src) EXCEPT !.loaded = TRUE].usingCached
      /\ [Reset(src) EXCEPT !.loaded = TRUE].displaySrc.url
           = [Reset(src) EXCEPT !.loaded = TRUE].src
  BY <1>1, <1>2 DEF Images
<1> QED BY <1>1, <1>2, <1>4, <1>5, <1>6

LEMMA ImageInitially == ASSUME ImageInit PROVE ImageInv
BY ResetIsImage DEF ImageInit, ImageInv, BannerMeansCached

LEMMA ImageStep == ASSUME ImageInv, [ImageNext]_imageVars PROVE ImageInv'
<1>0. image \in Images /\ image.src \in Urls /\ cached \in Urls \cup {"none"} /\ BannerMeansCached
  BY DEF ImageInv, Images
<1>d. ASSUME image' \in Images, UNCHANGED cached, image'.usingCached = image.usingCached,
             image'.displaySrc = image.displaySrc, image'.src = image.src
      PROVE  ImageInv'
  BY <1>0, <1>d DEF ImageInv, BannerMeansCached, Plain
<1>1. CASE NewSource \/ Remount \/ AutoRetry
  <2>1. PICK src \in Urls : image' \in {Reset(src), [Reset(src) EXCEPT !.displaySrc.retried = TRUE]}
    BY <1>0, <1>1 DEF NewSource, Remount, AutoRetry, Draws, Retried
  <2>2. cached' = cached
    BY <1>1 DEF NewSource, Remount, AutoRetry
  <2> QED BY <1>0, <2>1, <2>2, ResetIsImage DEF ImageInv, BannerMeansCached
<1>2. CASE handleLoad
  BY <1>0, <1>2 DEF handleLoad, ImageInv, BannerMeansCached, Images
<1>3. CASE handleError
  <2>1. CASE TriesTheCache
    <3>1. Plain(cached) \in Addresses
      BY <1>0, <2>1 DEF TriesTheCache, Plain, Addresses
    <3>2. /\ image' = [image EXCEPT !.usingCached = TRUE, !.displaySrc = Plain(cached),
                                    !.error = FALSE, !.loaded = FALSE]
          /\ cached' = cached
      BY <1>3, <2>1 DEF handleError
    <3>3. image' \in Images /\ image'.usingCached /\ image'.displaySrc = Plain(cached)
      BY <1>0, <3>1, <3>2 DEF Images
    <3> QED BY <1>0, <3>2, <3>3 DEF ImageInv, BannerMeansCached, Plain
  <2>2. CASE image' = [image EXCEPT !.error = TRUE] /\ cached' = cached
    BY <1>0, <1>d, <2>2 DEF Images
  <2> QED BY <1>3, <2>1, <2>2 DEF handleError
<1>4. CASE DismissBanner
  BY <1>0, <1>d, <1>4 DEF DismissBanner, Draws, Images
<1>5. CASE NetworkTurns \/ UNCHANGED imageVars
  BY <1>0, <1>5 DEF NetworkTurns, imageVars, ImageInv, BannerMeansCached
<1> QED BY <1>1, <1>2, <1>3, <1>4, <1>5 DEF ImageNext

-----------------------------------------------------------------------------
(* The pages together. *)

PagesInv ==
    /\ CallsInv /\ SocketInv /\ NewsInv /\ StudioInv /\ ImageInv
    /\ ReqsTypeOK /\ SettingsInv

LEMMA PagesInit == Init => PagesInv
<1> SUFFICES ASSUME Init PROVE PagesInv
  OBVIOUS
<1>1. ReqsTypeOK
  BY DEF Init, RequestsInit, ReqsTypeOK
<1>2. StudioInv
  BY FreshKeeps DEF Init, StudioInit, StudioInv
<1>3. CallsInv /\ SocketInv
  BY CallsInit, SocketInit DEF Init
<1>4. NewsInv /\ ImageInv /\ SettingsInv
  BY NewsInit, ImageInitially, SettingsInitially DEF Init
<1> QED BY <1>1, <1>2, <1>3, <1>4 DEF PagesInv

\* What the requests of other pages do to the settings' is nothing.
LEMMA OthersKeepSettings ==
    ASSUME SettingsInv, ReqsTypeOK, NEW ops, "settings" \notin ops, Follows(ops),
           UNCHANGED settingsVars
    PROVE  /\ SettingsInv' /\ ReqsTypeOK'
           /\ ~ \E r \in reqs' : r.op = "settings" /\ r.n > sent
<1>1. \A r \in reqs' : r.op = "settings" => \E q \in reqs : Same(r, q)
  BY DEF Follows
<1>2. \A q \in reqs : q.n \in Nat /\ q.n <= sent /\ sent \in Nat
  BY DEF ReqsTypeOK
<1>3. \A r \in reqs' : r.op = "settings" => r.val \in Forms /\ ~(r.n > sent)
  BY <1>1, <1>2 DEF SettingsInv, Same
<1>4. UNCHANGED <<settings, page>> /\ ReqsTypeOK'
  BY DEF settingsVars, Follows
<1> QED BY <1>3, <1>4 DEF SettingsInv

LEMMA PagesStep == PagesInv /\ [Next]_vars => PagesInv'
<1> SUFFICES ASSUME PagesInv, [Next]_vars PROVE PagesInv'
  OBVIOUS
<1> USE DEF PagesInv
<1>c. UNCHANGED mutationVars => CallsInv'
  BY CallsStep
<1>m. UNCHANGED <<monitorVars, reqVars>> => SocketInv'
  BY SocketStep
<1>w. UNCHANGED monitorVars => SocketInv'
  BY DEF SocketInv, NoSocketAfterEnd, monitorVars
<1>s. UNCHANGED shellVars => NewsInv'
  BY NewsStep
<1>a. UNCHANGED studioVars => StudioInv'
  BY StudioStep
<1>i. UNCHANGED imageVars => ImageInv'
  BY ImageStep
<1>r. UNCHANGED <<reqVars, settingsVars>> => ReqsTypeOK' /\ SettingsInv'
  <2>1. UNCHANGED reqVars => Follows({})
    BY Idle
  <2> QED BY <2>1, OthersKeepSettings
<1>1. CASE /\ MutationNext
           /\ UNCHANGED <<reqVars, monitorVars, settingsVars, shellVars, studioVars, imageVars>>
  BY <1>1, <1>w, <1>s, <1>a, <1>i, <1>r, CallsStep
<1>2. CASE /\ MonitorNext
           /\ UNCHANGED <<mutationVars, settingsVars, shellVars, studioVars, imageVars>>
  <2>1. ReqsTypeOK' /\ SettingsInv'
    BY <1>2, MonitorFollows, OthersKeepSettings
  <2> QED BY <1>2, <1>c, <1>s, <1>a, <1>i, <2>1, SocketStep
<1>3. CASE /\ SettingsNext
           /\ UNCHANGED <<mutationVars, monitorVars, shellVars, studioVars, imageVars>>
  <2>1. ReqsTypeOK' /\ SettingsInv'
    BY <1>3, SettingsStep DEF Follows
  <2> QED BY <1>3, <1>c, <1>w, <1>s, <1>a, <1>i, <2>1
<1>4. CASE /\ ShellNext
           /\ UNCHANGED <<reqVars, mutationVars, monitorVars, settingsVars, studioVars, imageVars>>
  BY <1>4, <1>c, <1>w, <1>a, <1>i, <1>r, NewsStep
<1>5. CASE UNCHANGED <<reqVars, mutationVars, monitorVars, settingsVars, shellVars, studioVars,
                       imageVars>>
  BY <1>5, <1>c, <1>w, <1>s, <1>a, <1>i, <1>r
<1>6. CASE /\ StudioNext
           /\ UNCHANGED <<mutationVars, monitorVars, settingsVars, shellVars, imageVars>>
  <2>1. ReqsTypeOK' /\ SettingsInv'
    BY <1>6, StudioFollows, OthersKeepSettings
  <2> QED BY <1>6, <1>c, <1>w, <1>s, <1>i, <2>1, StudioStep
<1>7. CASE /\ ImageNext
           /\ UNCHANGED <<reqVars, mutationVars, monitorVars, settingsVars, shellVars, studioVars>>
  BY <1>7, <1>c, <1>w, <1>s, <1>a, <1>r, ImageStep
<1> QED BY <1>1, <1>2, <1>3, <1>4, <1>5, <1>6, <1>7 DEF Next, vars

-----------------------------------------------------------------------------
(* What follows. *)

\* No attempt of a call makes a job once an answer to the call is stored, whatever
\* is given up, lost or served late, and a breaker counts every outcome once, for
\* any jobs, number of calls and retries and any threshold.
THEOREM CallsCorrect == Spec => []CallsCountOnce
<1>1. PagesInv => CallsCountOnce
  BY DEF PagesInv, CallsInv, KeysOfCalls, BreakersInv, CallsCountOnce
<1> QED BY <1>1, PagesInit, PagesStep, PTL DEF Spec

\* No socket is opened, nor a timer left to open one, after the end of a job was
\* told, whatever is lost and however often the socket fails.
THEOREM SocketCorrect == Spec => []NoSocketAfterEnd
<1>1. PagesInv => NoSocketAfterEnd
  BY DEF PagesInv, SocketInv
<1> QED BY <1>1, PagesInit, PagesStep, PTL DEF Spec

\* The news of a version opens once, for any versions and any number of reloads.
THEOREM NewsCorrect == Spec => []NewsOncePerVersion
<1>1. PagesInv => NewsOncePerVersion
  <2>1. PagesInv => DOMAIN popups = Minors /\ \A m \in Minors : popups[m] <= 1
    BY DEF PagesInv, NewsInv
  <2> QED BY <2>1 DEF NewsOncePerVersion
<1> QED BY <1>1, PagesInit, PagesStep, PTL DEF Spec

\* A field nobody touched is saved as it was read, the banner is over the remembered
\* picture alone, and the chosen satellite stays, for any fields, pictures and satellites.
THEOREM ShownCorrect == Spec => ShownIsTrue
<1>1. PagesInv => BannerMeansCached /\ ChosenSatelliteKept
  BY DEF PagesInv, ImageInv, StudioInv, Keeps, ChosenSatelliteKept
<1>2. PagesInv /\ [Next]_vars =>
        [\A q \in reqs' : q.op = "settings" /\ q.n > sent =>
           \A f \in Fields \ page.ui.touched : q.val[f] = page.cache[f]]_<<settingsVars, reqVars>>
  <2> SUFFICES ASSUME PagesInv, [Next]_vars, NEW r \in reqs', r.op = "settings", r.n > sent
               PROVE  \A f \in Fields \ page.ui.touched : r.val[f] = page.cache[f]
    OBVIOUS
  <2> USE DEF PagesInv
  <2>1. CASE SettingsNext
    BY <2>1, SettingsSaves
  <2>2. CASE MonitorNext /\ UNCHANGED settingsVars
    BY <2>2, MonitorFollows, OthersKeepSettings
  <2>3. CASE StudioNext /\ UNCHANGED settingsVars
    BY <2>3, StudioFollows, OthersKeepSettings
  <2>4. CASE UNCHANGED <<reqVars, settingsVars>>
    <3>1. Follows({})
      BY <2>4, Idle
    <3> QED BY <2>4, <3>1, OthersKeepSettings
  <2> QED BY <2>1, <2>2, <2>3, <2>4 DEF Next, vars
<1> QED
  BY <1>1, <1>2, PagesInit, PagesStep, PTL DEF Spec, ShownIsTrue, UntouchedAsShown
=============================================================================
