------------------------ MODULE CircuitBreaker_proofs ------------------------
(***************************************************************************)
(* Proofs about the S3 circuit breaker, for any number of threads, any     *)
(* threshold and any number of half-open slots.                            *)
(***************************************************************************)
EXTENDS CircuitBreaker, TLAPS

-----------------------------------------------------------------------------
(* The type invariant. *)

LEMMA InitType == Init => TypeOK
<1> SUFFICES ASSUME Init PROVE TypeOK
  OBVIOUS
<1>1. /\ state \in States
      /\ failure_count \in 0..failure_threshold
      /\ half_open_calls \in 0..half_open_max_calls
  BY BreakerAssumption DEF Init, States
<1>2. /\ pc \in [Threads -> {"idle", "saw_half_open", "calling"}]
      /\ attempt \in [Threads -> 1..max_retries]
  BY BreakerAssumption DEF Init
<1>3. cooled \in BOOLEAN /\ s3up \in BOOLEAN /\ lost \in BOOLEAN
  BY DEF Init
<1> QED BY <1>1, <1>2, <1>3 DEF TypeOK

LEMMA NextType == TypeOK /\ [Next]_vars => TypeOK'
<1> SUFFICES ASSUME TypeOK, [Next]_vars PROVE TypeOK'
  OBVIOUS
<1> USE BreakerAssumption DEF TypeOK, States
<1>1. ASSUME NEW t \in Threads, Ask(t) PROVE TypeOK'
  <2>1. observed \in States
    BY DEF observed
  <2>2. (CASE observed = "CLOSED" -> "calling"
           [] observed = "HALF_OPEN" -> "saw_half_open"
           [] observed = "OPEN" -> "idle") \in {"idle", "saw_half_open", "calling"}
    BY <2>1
  <2> QED BY <1>1, <2>1, <2>2 DEF Ask, ReadState, Go
<1>2. ASSUME NEW t \in Threads, TakeSlot(t) PROVE TypeOK'
  BY <1>2 DEF TakeSlot, slotFree, Go
<1>3. ASSUME NEW t \in Threads, NoSlot(t) PROVE TypeOK'
  BY <1>3 DEF NoSlot, Go, breaker
<1>4. ASSUME NEW t \in Threads, Succeed(t) PROVE TypeOK'
  BY <1>4 DEF Succeed, Finish, Go, record_success
<1>5. ASSUME NEW t \in Threads, RetryLater(t) PROVE TypeOK'
  BY <1>5 DEF RetryLater, breaker
<1>6. ASSUME NEW t \in Threads, Fail(t) PROVE TypeOK'
  <2>1. failure_count' \in 0..failure_threshold
    BY <1>6 DEF Fail, record_failure, atThreshold
  <2>2. state' \in States /\ cooled' \in BOOLEAN /\ half_open_calls' = half_open_calls
    BY <1>6 DEF Fail, record_failure
  <2>3. /\ pc' \in [Threads -> {"idle", "saw_half_open", "calling"}]
        /\ attempt' \in [Threads -> 1..max_retries]
        /\ s3up' = s3up /\ lost' = lost
    BY <1>6 DEF Fail, Finish, Go
  <2> QED BY <2>1, <2>2, <2>3
<1>7. ASSUME NEW t \in Threads, Unlisted(t) PROVE TypeOK'
  BY <1>7 DEF Unlisted, Finish, Go, breaker
<1>8. ASSUME RecoveryTimeout \/ Outage \/ Heal PROVE TypeOK'
  BY <1>8 DEF RecoveryTimeout, Outage, Heal, breaker
<1>9. CASE UNCHANGED vars
  BY <1>9 DEF vars
<1> QED BY <1>1, <1>2, <1>3, <1>4, <1>5, <1>6, <1>7, <1>8, <1>9 DEF Next, Step

\* Every reachable state of the breaker is well typed; in particular the
\* half-open calls never exceed half_open_max_calls, however the unlocked
\* gap of allow_request is interleaved.
THEOREM TypeCorrect == Spec => []TypeOK
<1>1. Init => TypeOK
  BY InitType
<1>2. TypeOK /\ [Next]_vars => TypeOK'
  BY NextType
<1> QED BY <1>1, <1>2, PTL DEF Spec

-----------------------------------------------------------------------------
(* A closed breaker is below its threshold. *)

LEMMA NextBelow ==
  TypeOK /\ ClosedBelowThreshold /\ [Next]_vars => ClosedBelowThreshold'
<1> SUFFICES ASSUME TypeOK, ClosedBelowThreshold, [Next]_vars
             PROVE ClosedBelowThreshold'
  OBVIOUS
<1> USE BreakerAssumption DEF TypeOK, States, ClosedBelowThreshold
<1>1. ASSUME NEW t \in Threads, Ask(t) PROVE ClosedBelowThreshold'
  BY <1>1 DEF Ask, ReadState, observed
<1>2. ASSUME NEW t \in Threads, Succeed(t) PROVE ClosedBelowThreshold'
  BY <1>2 DEF Succeed, record_success
<1>3. ASSUME NEW t \in Threads, Fail(t) PROVE ClosedBelowThreshold'
  BY <1>3 DEF Fail, record_failure, atThreshold
<1>4. ASSUME NEW t \in Threads,
             TakeSlot(t) \/ NoSlot(t) \/ RetryLater(t) \/ Unlisted(t)
      PROVE ClosedBelowThreshold'
  BY <1>4 DEF TakeSlot, NoSlot, RetryLater, Unlisted, breaker
<1>5. ASSUME RecoveryTimeout \/ Outage \/ Heal PROVE ClosedBelowThreshold'
  BY <1>5 DEF RecoveryTimeout, Outage, Heal, breaker
<1>6. CASE UNCHANGED vars
  BY <1>6 DEF vars
<1> QED BY <1>1, <1>2, <1>3, <1>4, <1>5, <1>6 DEF Next, Step

\* After any history of trips, recoveries and late outcomes a CLOSED breaker
\* tolerates at least one more failure (record_success clears the count in the
\* same lock region that closes the breaker).
THEOREM BelowThreshold == Spec => []ClosedBelowThreshold
<1>1. Init => ClosedBelowThreshold
  BY BreakerAssumption DEF Init, ClosedBelowThreshold
<1>2. TypeOK /\ ClosedBelowThreshold /\ [Next]_vars => ClosedBelowThreshold'
  BY NextBelow
<1> QED BY <1>1, <1>2, TypeCorrect, PTL DEF Spec

-----------------------------------------------------------------------------
(* Nobody waits for a probe that is not there. *)

\* ProbeInFlight is not inductive: a slot may be taken one at a time, so the
\* invariant has to speak of the first slot and not of the last.
TakenByACall ==
  ~lost /\ state = "HALF_OPEN" /\ half_open_calls > 0
    => \E t \in Threads : pc[t] = "calling"

LEMMA NextTaken ==
  TypeOK /\ TakenByACall /\ [Next]_vars => TakenByACall'
<1> SUFFICES ASSUME TypeOK, TakenByACall, [Next]_vars PROVE TakenByACall'
  OBVIOUS
<1> USE BreakerAssumption DEF TypeOK, States, TakenByACall
<1>1. ASSUME NEW t \in Threads, Ask(t) PROVE TakenByACall'
  <2>1. CASE state = observed
    <3>1. ASSUME NEW u \in Threads, pc[u] = "calling" PROVE pc'[u] = "calling"
      BY <1>1, <3>1 DEF Ask, Go
    <3> QED BY <1>1, <2>1, <3>1 DEF Ask, ReadState
  <2>2. CASE state # observed
    BY <1>1, <2>2 DEF Ask, ReadState
  <2> QED BY <2>1, <2>2
<1>2. ASSUME NEW t \in Threads, TakeSlot(t) PROVE TakenByACall'
  BY <1>2 DEF TakeSlot, Go
<1>3. ASSUME NEW t \in Threads, NoSlot(t) PROVE TakenByACall'
  BY <1>3 DEF NoSlot, Go, breaker
<1>4. ASSUME NEW t \in Threads, Succeed(t) PROVE TakenByACall'
  BY <1>4 DEF Succeed, record_success
<1>5. ASSUME NEW t \in Threads, Fail(t) PROVE TakenByACall'
  BY <1>5 DEF Fail, record_failure, atThreshold
<1>6. ASSUME NEW t \in Threads, RetryLater(t) PROVE TakenByACall'
  BY <1>6 DEF RetryLater, breaker
<1>7. ASSUME NEW t \in Threads, Unlisted(t) PROVE TakenByACall'
  BY <1>7 DEF Unlisted
<1>8. ASSUME RecoveryTimeout \/ Outage \/ Heal PROVE TakenByACall'
  BY <1>8 DEF RecoveryTimeout, Outage, Heal, breaker
<1>9. CASE UNCHANGED vars
  BY <1>9 DEF vars
<1> QED BY <1>1, <1>2, <1>3, <1>4, <1>5, <1>6, <1>7, <1>8, <1>9 DEF Next, Step

\* As long as every call has been recorded, a HALF_OPEN breaker without a free
\* slot has a call in flight that will report.  The condition is needed:
\* MCCircuitBreaker_unlisted shows the wedged breaker without it.
THEOREM ProbeIsInFlight == Spec => []ProbeInFlight
<1>1. Init => TakenByACall
  BY DEF Init, TakenByACall
<1>2. TypeOK /\ TakenByACall /\ [Next]_vars => TakenByACall'
  BY NextTaken
<1>3. TypeOK /\ TakenByACall => ProbeInFlight
  BY BreakerAssumption DEF TypeOK, TakenByACall, ProbeInFlight, slotFree
<1> QED BY <1>1, <1>2, <1>3, TypeCorrect, PTL DEF Spec

-----------------------------------------------------------------------------
(* The way back from OPEN. *)

\* No step of any thread takes the breaker from OPEN to CLOSED: a late success
\* does not end an outage that is still being waited out.
THEOREM TestedRecovery == Spec => RecoveryIsTested
<1>1. ASSUME TypeOK, [Next]_vars, state = "OPEN" PROVE state' # "CLOSED"
  <2> USE <1>1 DEF TypeOK, States
  <2>1. ASSUME NEW t \in Threads, Ask(t) PROVE state' # "CLOSED"
    BY <2>1 DEF Ask, ReadState, observed
  <2>2. ASSUME NEW t \in Threads, Succeed(t) PROVE state' # "CLOSED"
    BY <2>2 DEF Succeed, record_success
  <2>3. ASSUME NEW t \in Threads, Fail(t) PROVE state' # "CLOSED"
    BY <2>3 DEF Fail, record_failure, atThreshold
  <2>4. ASSUME NEW t \in Threads,
               TakeSlot(t) \/ NoSlot(t) \/ RetryLater(t) \/ Unlisted(t)
        PROVE  state' # "CLOSED"
    BY <2>4 DEF TakeSlot, NoSlot, RetryLater, Unlisted, breaker
  <2>5. ASSUME RecoveryTimeout \/ Outage \/ Heal PROVE state' # "CLOSED"
    BY <2>5 DEF RecoveryTimeout, Outage, Heal, breaker
  <2>6. CASE UNCHANGED vars
    BY <2>6 DEF vars
  <2> QED BY <2>1, <2>2, <2>3, <2>4, <2>5, <2>6 DEF Next, Step
<1>2. TypeOK /\ [Next]_vars => [state = "OPEN" => state' # "CLOSED"]_vars
  BY <1>1
<1> QED BY <1>2, TypeCorrect, PTL DEF Spec, RecoveryIsTested

=============================================================================
