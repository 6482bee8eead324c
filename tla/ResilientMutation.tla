--------------------------- MODULE ResilientMutation ---------------------------
(***************************************************************************)
(* The resilience of the mutations of hooks/useApi.ts: useResilientMutation *)
(* runs a call through the in-flight tracker, the endpoint's breaker and    *)
(* the retries of utils/mutationResilience.ts, in this order.  Two hooks    *)
(* stand for all: the deletion of a job and its creation, which carries an  *)
(* idempotency key.  A request that timed out is served all the same, so     *)
(* that two attempts of a call may be in their handlers together.            *)
(***************************************************************************)
EXTENDS Integers, FiniteSets

CONSTANTS
    Jobs,              \* ids of jobs to delete
    FailureThreshold,  \* consecutive failed calls that open a breaker
    MaxRetries,        \* attempts of a call, the first one included
    MaxCalls           \* calls of a session: a bound
ASSUME ResilienceAssumption ==
    {FailureThreshold, MaxRetries, MaxCalls} \subseteq Nat \ {0}

VARIABLES
    breakers,  \* the registry: a breaker for each endpoint
    calls,     \* the calls in flight
    made,      \* how many were let through
    requests,  \* attempts on their way or in their handlers, also given-up ones
    answers,   \* the server's store of answers, by idempotency key
    jobRows,   \* the server's jobs, by the attempt that made them
    gone       \* jobs that were deleted
serverVars == <<requests, answers, jobRows, gone>>
mutationVars == <<breakers, calls, made, serverVars>>

Endpoints == {"DELETE /jobs", "POST /jobs"}

useDeleteJob(id) == [endpoint |-> "DELETE /jobs", on |-> id]
useCreateJob == [endpoint |-> "POST /jobs", on |-> "params"]
Mutations == {useDeleteJob(id) : id \in Jobs} \cup {useCreateJob}

MutationInit ==
    /\ breakers = [e \in Endpoints |->
                      [state |-> "closed", failures |-> 0, cooled |-> FALSE]]
    /\ calls = {} /\ made = 0 /\ requests = {} /\ answers = {} /\ jobRows = {} /\ gone = {}

-----------------------------------------------------------------------------
(* The breaker of an endpoint: cooled says its cooldown has elapsed. *)

maybeTransitionToHalfOpen(b) ==
    IF b.state = "open" /\ b.cooled THEN [b EXCEPT !.state = "half-open"] ELSE b

recordSuccess(b) == [state |-> "closed", failures |-> 0, cooled |-> FALSE]

\* Also a call that was let through earlier may fail while the breaker is open:
\* its cooldown starts again.
recordFailure(b) ==
    LET failures == b.failures + 1
    IN  IF b.state = "half-open" \/ failures >= FailureThreshold
        THEN [state |-> "open", failures |-> failures, cooled |-> FALSE]
        ELSE [b EXCEPT !.failures = failures]

CoolDown(e) ==
    /\ breakers[e].state = "open" /\ ~breakers[e].cooled
    /\ breakers' = [breakers EXCEPT ![e].cooled = TRUE]
    /\ UNCHANGED <<calls, made, serverVars>>

-----------------------------------------------------------------------------
(* A call. *)

\* InFlightTracker: a call with the key of one in flight is a duplicate.
inFlight(m) == \E c \in calls : c.mut = m

\* An attempt's request.  answered: history, whether an answer to the call was
\* in the store when the handler looked for one.
Request(c) == [n |-> c.n, attempt |-> c.attempt, mut |-> c.mut,
               at |-> "sent", answered |-> FALSE]

\* mutate(): a duplicate and a call to an open breaker are thrown back.
mutate(m) ==
    LET b == maybeTransitionToHalfOpen(breakers[m.endpoint])
        c == [n |-> made + 1, mut |-> m, attempt |-> 1, phase |-> "sent"]
    IN  /\ ~inFlight(m) /\ b.state # "open" /\ made < MaxCalls
        /\ made' = made + 1
        /\ breakers' = [breakers EXCEPT ![m.endpoint] = b]
        /\ calls' = calls \cup {c} /\ requests' = requests \cup {Request(c)}
        /\ UNCHANGED <<answers, jobRows, gone>>

\* The client's 30 s pass first.  One given-up request at a time: a bound.
Awaits(c, q) == c.n = q.n /\ c.attempt = q.attempt /\ c.phase = "sent"
GivenUp == {q \in requests : ~ \E c \in calls : Awaits(c, q)}

TimeOut(c) ==
    /\ c.phase = "sent" /\ GivenUp = {}
    /\ calls' = (calls \ {c}) \cup {[c EXCEPT !.phase = "unavailable"]}
    /\ UNCHANGED <<breakers, made, serverVars>>

\* withBackoff: no answer and 5xx are retried, after a delay.
withBackoff(c) ==
    LET again == [c EXCEPT !.phase = "sent", !.attempt = @ + 1]
    IN  /\ c.phase = "unavailable" /\ c.attempt < MaxRetries
        /\ calls' = (calls \ {c}) \cup {again}
        /\ requests' = requests \cup {Request(again)}
        /\ UNCHANGED <<breakers, made, answers, jobRows, gone>>

\* CircuitBreaker.run ends: it counts calls, not attempts, and every error.
Ended(c) ==
    \/ c.phase \in {"ok", "refused"}
    \/ c.phase = "unavailable" /\ c.attempt = MaxRetries

End(c) ==
    /\ Ended(c)
    /\ calls' = calls \ {c}
    /\ breakers' = [breakers EXCEPT ![c.mut.endpoint] =
                      IF c.phase = "ok" THEN recordSuccess(@) ELSE recordFailure(@)]
    /\ UNCHANGED <<made, serverVars>>

-----------------------------------------------------------------------------
(* The server.  An answer may be lost on its way: no answer is "unavailable". *)

Answer(q, phases) ==
    /\ requests' = requests \ {q}
    /\ \E phase \in phases \cup {"unavailable"} :
          calls' = {IF Awaits(c, q) THEN [c EXCEPT !.phase = phase] ELSE c : c \in calls}
    /\ UNCHANGED <<breakers, made>>

Handle(q, served) ==
    /\ requests' = (requests \ {q}) \cup {served}
    /\ UNCHANGED <<breakers, calls, made>>

\* A request is lost, or the server refuses it (422, 429) or breaks down.
Refuse(q) ==
    /\ q.at = "sent" /\ Answer(q, {"refused"})
    /\ UNCHANGED <<answers, jobRows, gone>>

\* A deleted job cannot be deleted again: 404, which is not retried.
ServeDelete(q) ==
    /\ q.mut.endpoint = "DELETE /jobs" /\ q.mut.on \notin gone
    /\ gone' = gone \cup {q.mut.on}
    /\ Answer(q, {"ok"})
    /\ UNCHANGED <<answers, jobRows>>

\* Mutant: each attempt draws a key.
KeyOfAttempt(q) == <<q.n, q.attempt>>

\* attachIdempotencyKey: drawn once, before the retries.
idempotencyKey(q) == <<q.n, 0>>

\* create_job first looks for the answer of an earlier attempt.  Redis errors
\* count as finding none.
LookUp(q) ==
    /\ q.mut.endpoint = "POST /jobs" /\ q.at = "sent"
    /\ \/ /\ \E a \in answers : a.key = idempotencyKey(q)
          /\ Answer(q, {"ok"})
       \/ /\ ~ \E a \in answers : a.key = idempotencyKey(q)
          /\ Handle(q, [q EXCEPT !.at = "missed",
                                 !.answered = \E a \in answers : a.call = q.n])
       \/ Handle(q, [q EXCEPT !.at = "missed"])
    /\ UNCHANGED <<answers, jobRows, gone>>

\* The row is committed, then the task is sent.
CommitJob(q) ==
    /\ q.at = "missed"
    /\ jobRows' = jobRows \cup {[call |-> q.n, attempt |-> q.attempt, answered |-> q.answered]}
    /\ Handle(q, [q EXCEPT !.at = "made"])
    /\ UNCHANGED <<answers, gone>>

\* The broker refuses, and the row stays; or the answer is stored for the key,
\* SET NX, unless Redis errs.
StoreAnswer(q) ==
    /\ q.at = "made"
    /\ \/ UNCHANGED answers /\ Answer(q, {"ok"})
       \/ /\ ~ \E a \in answers : a.key = idempotencyKey(q)
          /\ answers' = answers \cup {[key |-> idempotencyKey(q), call |-> q.n]}
          /\ Answer(q, {"ok"})
    /\ UNCHANGED <<jobRows, gone>>

Serve(q) == Refuse(q) \/ ServeDelete(q) \/ LookUp(q) \/ CommitJob(q) \/ StoreAnswer(q)

MutationNext ==
    \/ \E m \in Mutations : mutate(m)
    \/ \E c \in calls : TimeOut(c) \/ withBackoff(c) \/ End(c)
    \/ \E q \in requests : Serve(q)
    \/ \E e \in Endpoints : CoolDown(e)

-----------------------------------------------------------------------------
(* Properties. *)

\* Once the answer to a call is stored, no attempt of it that comes to the
\* store afterwards makes another job, though the client retries what it gave
\* up.  It may be that a call makes two jobs: when its attempts are in their
\* handlers together (look-up and store are apart), when the handler failed
\* after its commit, and when Redis was away at the look-up or the store.
NoJobAfterAnswer == \A r \in jobRows : ~r.answered

\* A breaker lets calls through exactly until a run of failures is as long as
\* its threshold, also when calls end out of order and probes fail.
BreakerCountsFailures ==
    \A e \in Endpoints :
        breakers[e].state = "closed" <=> breakers[e].failures < FailureThreshold
=============================================================================
