---------------------------- MODULE CircuitBreaker ----------------------------
(***************************************************************************)
(* The S3 circuit breaker of backend/app/circuit_breaker.py as it is used  *)
(* by services/goes_fetcher.py: the threads of one process that run        *)
(* _retry_s3_operation against one shared breaker.                         *)
(*                                                                         *)
(* A step is one region under the breaker's lock.  allow_request is two of *)
(* them (the state property, then the half-open slot), and between the two *)
(* any other thread may record an outcome.                                 *)
(***************************************************************************)
EXTENDS Integers, FiniteSets

CONSTANTS
    Threads,            \* threads of the process that call S3
    failure_threshold,  \* failures without a success that open the breaker
    half_open_max_calls,\* calls let through while HALF_OPEN
    max_retries,        \* S3_MAX_RETRIES, attempts of one operation
    Errors              \* kinds of exception an attempt can raise

ErrorKinds == {"transient", "client", "unlisted"}

ASSUME BreakerAssumption ==
    /\ failure_threshold \in Nat \ {0}
    /\ half_open_max_calls \in Nat \ {0}
    /\ max_retries \in Nat \ {0}
    /\ Errors \subseteq ErrorKinds

VARIABLES
    state,           \* _state
    failure_count,   \* _failure_count, where all counts from the threshold
                     \* on are one: the code only compares it with that
    cooled,          \* recovery_timeout has passed since _last_failure_time
    half_open_calls, \* _half_open_calls
    pc,              \* where each thread is in _retry_s3_operation
    attempt,         \* the attempt each thread is at
    s3up,            \* whether S3 answers
    lost             \* a call has ended without a record, since the process started

breaker == <<state, failure_count, cooled, half_open_calls>>
vars == <<state, failure_count, cooled, half_open_calls, pc, attempt, s3up, lost>>

States == {"CLOSED", "OPEN", "HALF_OPEN"}

TypeOK ==
    /\ state \in States
    /\ failure_count \in 0..failure_threshold
    /\ cooled \in BOOLEAN
    /\ half_open_calls \in 0..half_open_max_calls
    /\ pc \in [Threads -> {"idle", "saw_half_open", "calling"}]
    /\ attempt \in [Threads -> 1..max_retries]
    /\ s3up \in BOOLEAN
    /\ lost \in BOOLEAN

Init ==
    /\ state = "CLOSED"
    /\ failure_count = 0
    /\ cooled = TRUE
    /\ half_open_calls = 0
    /\ pc = [t \in Threads |-> "idle"]
    /\ attempt = [t \in Threads |-> 1]
    /\ s3up = TRUE
    /\ lost = FALSE

-----------------------------------------------------------------------------
(* The operations of the breaker. *)

\* Mutant: the time that has passed is not looked at.
neverHalfOpen == state

\* The state property: an OPEN breaker whose timeout has passed becomes
\* HALF_OPEN with all its slots free (ReadState).
observed == IF state = "OPEN" /\ cooled THEN "HALF_OPEN" ELSE state

\* Mutant: the slots are not freed when the breaker becomes HALF_OPEN.
ReadStateKeepsSlots ==
    /\ state' = observed
    /\ UNCHANGED <<failure_count, cooled, half_open_calls>>

ReadState ==
    /\ state' = observed
    /\ half_open_calls' = IF state # observed THEN 0 ELSE half_open_calls
    /\ UNCHANGED <<failure_count, cooled>>

\* Mutant: one slot too many.
slotFreeOffByOne == half_open_calls <= half_open_max_calls

\* The second region of allow_request: it looks at the slots only, not at
\* the state it saw before.
slotFree == half_open_calls < half_open_max_calls

\* Mutant: the failures before the outage still count after the recovery.
RecordSuccessKeepsCount ==
    /\ state' = IF state = "HALF_OPEN" THEN "CLOSED" ELSE state
    /\ failure_count' = IF state = "HALF_OPEN" THEN failure_count ELSE 0
    /\ UNCHANGED <<cooled, half_open_calls>>

\* Mutant: any success closes the breaker.
RecordSuccessAlwaysCloses ==
    /\ state' = "CLOSED"
    /\ failure_count' = 0
    /\ UNCHANGED <<cooled, half_open_calls>>

record_success ==
    /\ state' = IF state = "HALF_OPEN" THEN "CLOSED" ELSE state
    /\ failure_count' = 0
    /\ UNCHANGED <<cooled, half_open_calls>>

atThreshold == failure_count + 1 >= failure_threshold

record_failure ==
    /\ failure_count' = IF atThreshold THEN failure_threshold
                                       ELSE failure_count + 1
    /\ cooled' = FALSE
    /\ state' = IF state = "HALF_OPEN" \/ atThreshold THEN "OPEN" ELSE state
    /\ UNCHANGED half_open_calls

-----------------------------------------------------------------------------
(* One thread in _retry_s3_operation. *)

Go(t, where) == pc' = [pc EXCEPT ![t] = where]

\* allow_request reads the state: CLOSED lets the call through, OPEN raises
\* CircuitBreakerOpen, HALF_OPEN goes on to the slots.
Ask(t) ==
    /\ pc[t] = "idle"
    /\ ReadState
    /\ Go(t, CASE observed = "CLOSED"    -> "calling"
               [] observed = "HALF_OPEN" -> "saw_half_open"
               [] observed = "OPEN"      -> "idle")
    /\ UNCHANGED <<attempt, s3up, lost>>

TakeSlot(t) ==
    /\ pc[t] = "saw_half_open"
    /\ slotFree
    /\ half_open_calls' = half_open_calls + 1
    /\ Go(t, "calling")
    /\ UNCHANGED <<state, failure_count, cooled, attempt, s3up, lost>>

NoSlot(t) ==
    /\ pc[t] = "saw_half_open"
    /\ ~slotFree
    /\ Go(t, "idle")
    /\ UNCHANGED <<breaker, attempt, s3up, lost>>

\* The operation ends; the next one starts at its first attempt.
Finish(t) ==
    /\ Go(t, "idle")
    /\ attempt' = [attempt EXCEPT ![t] = 1]
    /\ UNCHANGED s3up

Succeed(t) ==
    /\ pc[t] = "calling"
    /\ s3up
    /\ record_success
    /\ Finish(t)
    /\ UNCHANGED lost

\* A connection error, a timeout or a throttling code with attempts left:
\* sleep and try again; nothing is recorded.
RetryLater(t) ==
    /\ pc[t] = "calling"
    /\ ~s3up /\ "transient" \in Errors
    /\ attempt[t] < max_retries
    /\ attempt' = [attempt EXCEPT ![t] = @ + 1]
    /\ UNCHANGED <<breaker, pc, s3up, lost>>

\* The last transient error, or a ClientError that is not worth a retry.
Fail(t) ==
    /\ pc[t] = "calling"
    /\ ~s3up
    /\ \/ "transient" \in Errors /\ attempt[t] = max_retries
       \/ "client" \in Errors
    /\ record_failure
    /\ Finish(t)
    /\ UNCHANGED lost

\* An exception that is in neither except clause (the soft time limit of the
\* task, a connection that closes while the answer is read): it leaves
\* _retry_s3_operation without a word to the breaker, whether S3 is up or not.
Unlisted(t) ==
    /\ pc[t] = "calling"
    /\ "unlisted" \in Errors
    /\ Finish(t)
    /\ lost' = TRUE
    /\ UNCHANGED breaker

RecoveryTimeout ==
    /\ ~cooled
    /\ cooled' = TRUE
    /\ UNCHANGED <<state, failure_count, half_open_calls, pc, attempt, s3up, lost>>

\* The service outside.
Outage == s3up /\ s3up' = FALSE /\ UNCHANGED <<breaker, pc, attempt, lost>>
Heal == ~s3up /\ s3up' = TRUE /\ UNCHANGED <<breaker, pc, attempt, lost>>

Step(t) ==
    \/ Ask(t) \/ TakeSlot(t) \/ NoSlot(t)
    \/ Succeed(t) \/ RetryLater(t) \/ Fail(t) \/ Unlisted(t)

Next ==
    \/ \E t \in Threads : Step(t)
    \/ RecoveryTimeout
    \/ Outage
    \/ Heal

Spec == Init /\ [][Next]_vars

\* Callers keep coming (the beat schedule and the pages that poll), a call
\* returns, and the clock runs.
FairSpec ==
    /\ Spec
    /\ WF_vars(RecoveryTimeout)
    /\ \A t \in Threads : WF_vars(Step(t))

-----------------------------------------------------------------------------
(* Properties. *)

\* A closed breaker has failures left before it trips: neither a recovery nor
\* a race of late outcomes leaves it closed on a spent count, where the first
\* new failure would open it (record_success and record_failure together).
ClosedBelowThreshold ==
    state = "CLOSED" => failure_count < failure_threshold

\* When the half-open slots are all taken, a call is in flight whose outcome
\* will take the breaker out of HALF_OPEN: it never waits for nobody, as long
\* as every call has been recorded (allow_request hands out slots, only
\* record_* and a new timeout free them).
ProbeInFlight ==
    ~lost /\ state = "HALF_OPEN" /\ ~slotFree => \E t \in Threads : pc[t] = "calling"

\* The late success of a call that was admitted before the trip does not
\* reopen the traffic: from OPEN the way back goes through HALF_OPEN
\* (record_success tests the state before it closes the breaker).
RecoveryIsTested == [][state = "OPEN" => state' # "CLOSED"]_vars

\* Once S3 answers for good the breaker ends up closed and stays so, if no
\* call was lost on it.
Recovers == []~lost /\ <>[]s3up => <>[](state = "CLOSED")

\* The same whatever the calls end in, which is what "CLOSED (normal) -> OPEN
\* (failing, reject calls) -> HALF_OPEN (test one call)" promises
\* (circuit_breaker.py:3).
HealsWithS3 == <>[]s3up => <>[](state = "CLOSED")

=============================================================================
