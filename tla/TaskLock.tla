------------------------------- MODULE TaskLock -------------------------------
(***************************************************************************)
(* The distributed lock with_idempotency of backend/app/tasks/helpers.py   *)
(* for one key: a Redis key set with NX and EX, without an owner token,    *)
(* deleted after a body that returns and left to expire after one that     *)
(* raises.  The deliveries are the Celery task runs that use the key; each *)
(* is killed by the hard time limit of celery_app.py at the latest.        *)
(* Time passes in ticks.                                                   *)
(***************************************************************************)
EXTENDS Integers, FiniteSets

CONSTANTS
    Deliveries,                  \* task runs that contend for the key
    TASK_IDEMPOTENCY_TTL_SECONDS,\* life of the Redis key
    task_time_limit              \* hard kill of a task run

TTL == TASK_IDEMPOTENCY_TTL_SECONDS

ASSUME LockAssumption ==
    /\ TTL \in Nat \ {0}
    /\ task_time_limit \in Nat \ {0}
    /\ task_time_limit <= TTL

VARIABLES
    ttl,     \* what is left of the key's life, 0 when there is no key
    pc,      \* where each delivery is
    age,     \* ticks since the delivery asked for the lock
    opened   \* whether a delivery has gone in without the lock: the helper
             \* fails open when Redis does not answer

vars == <<ttl, pc, age, opened>>

\* "body": in the caller's block, "leaving": the block returned and the key is
\* not deleted yet, "skipped": acquired is False and the caller returns.
Places == {"out", "body", "leaving", "skipped"}

Running(d) == pc[d] \in {"body", "leaving"}

TypeOK ==
    /\ ttl \in 0..TTL
    /\ pc \in [Deliveries -> Places]
    /\ age \in [Deliveries -> 0..task_time_limit - 1]
    /\ opened \in BOOLEAN

Init ==
    /\ ttl = 0
    /\ pc = [d \in Deliveries |-> "out"]
    /\ age = [d \in Deliveries |-> 0]
    /\ opened = FALSE

Move(d, place) == pc' = [pc EXCEPT ![d] = place]

EnterBody(d) ==
    /\ Move(d, "body")
    /\ age' = [age EXCEPT ![d] = 0]

\* Out of the context manager; nothing of the delivery is remembered.
GoOut(d) ==
    /\ Move(d, "out")
    /\ age' = [age EXCEPT ![d] = 0]
    /\ UNCHANGED opened

\* Mutant: GET then SET instead of SET NX, that is no test at all when two
\* deliveries ask together.
AcquireWithoutNX(d) ==
    /\ pc[d] = "out"
    /\ ttl' = TTL
    /\ EnterBody(d)
    /\ UNCHANGED opened

\* SET key NX EX ttl succeeds.
Acquire(d) ==
    /\ pc[d] = "out"
    /\ ttl = 0
    /\ ttl' = TTL
    /\ EnterBody(d)
    /\ UNCHANGED opened

\* The key is there: acquired is False, the caller returns, nothing is released.
Skip(d) ==
    /\ pc[d] = "out"
    /\ ttl > 0
    /\ Move(d, "skipped")
    /\ UNCHANGED <<ttl, age, opened>>

Return(d) ==
    /\ pc[d] = "skipped"
    /\ GoOut(d)
    /\ UNCHANGED ttl

\* Redis cannot be reached: the helper fails open.
FailOpen(d) ==
    /\ pc[d] = "out"
    /\ EnterBody(d)
    /\ opened' = TRUE
    /\ UNCHANGED ttl

BodyReturns(d) ==
    /\ pc[d] = "body"
    /\ Move(d, "leaving")
    /\ UNCHANGED <<ttl, age, opened>>

\* Mutant: the key is deleted by a delivery that was refused, too.
ReleaseBySkipped(d) ==
    /\ pc[d] \in {"leaving", "skipped"}
    /\ ttl' = 0
    /\ GoOut(d)

\* DELETE key, whoever set it.
Release(d) ==
    /\ pc[d] = "leaving"
    /\ ttl' = 0
    /\ GoOut(d)

\* DELETE fails: the error is logged and the key stays.
ReleaseFails(d) ==
    /\ pc[d] = "leaving"
    /\ GoOut(d)
    /\ UNCHANGED ttl

\* The body raises, or the process is lost on its way: the key stays.
Raise(d) ==
    /\ Running(d)
    /\ GoOut(d)
    /\ UNCHANGED ttl

\* Mutant: a run may live one tick longer than its key.
OverdueLate(d) == Running(d) /\ age[d] + 1 > task_time_limit

Overdue(d) == Running(d) /\ age[d] + 1 >= task_time_limit

\* Mutant: the key is set without EX and never expires.
ExpireNever == UNCHANGED ttl

\* Redis counts the key's life down and drops it at 0.
Expire == ttl' = IF ttl > 0 THEN ttl - 1 ELSE 0

\* Time passes: the key gets older, and a run that reaches the hard limit is
\* killed.  A run is older than its lock, so it is killed before the lock it
\* took at its start can have expired, even when the two limits are equal.
Tick ==
    /\ Expire
    /\ pc' = [d \in Deliveries |-> IF Overdue(d) THEN "out" ELSE pc[d]]
    /\ age' = [d \in Deliveries |->
                 IF ~Running(d) \/ Overdue(d) THEN 0 ELSE age[d] + 1]
    /\ UNCHANGED opened

Step(d) ==
    \/ Acquire(d) \/ Skip(d) \/ Return(d) \/ FailOpen(d)
    \/ BodyReturns(d) \/ Release(d) \/ ReleaseFails(d) \/ Raise(d)

Next == Tick \/ \E d \in Deliveries : Step(d)

Spec == Init /\ [][Next]_vars

\* Time passes, whatever the deliveries do.
FairSpec == Spec /\ WF_vars(Tick)

-----------------------------------------------------------------------------
(* Properties. *)

\* Two deliveries are never in the body together, and none is in it while
\* another has still to delete the key, as long as none went in without the
\* lock: with_idempotency is a lock although the key carries no owner.
GrantedAlone ==
    ~opened => \A d, e \in Deliveries : Running(d) /\ Running(e) => d = e

\* A running delivery's key outlives it: what is left of the key covers what
\* is left of the hard time limit (TASK_IDEMPOTENCY_TTL_SECONDS against
\* task_time_limit).  This is the strengthening GrantedAlone rests on.
KeyOutlivesRun ==
    ~opened => \A d \in Deliveries : Running(d) => ttl + age[d] >= TTL

\* A key never blocks its window for good: a lock that a failed, killed or
\* disconnected run left behind expires.
LockIsTemporary == []<>(ttl = 0)

\* The lock implements the mutual exclusion its callers are written for, until
\* a delivery goes in without it.
holders == IF opened THEN {} ELSE {d \in Deliveries : Running(d)}
Mutex == INSTANCE TaskMutex WITH inside <- holders
MutexSpec == Mutex!Spec
=============================================================================
