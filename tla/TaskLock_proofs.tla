--------------------------- MODULE TaskLock_proofs ---------------------------
(***************************************************************************)
(* Proofs about the task lock, for any number of deliveries and any limits *)
(* with task_time_limit <= TASK_IDEMPOTENCY_TTL_SECONDS.                   *)
(***************************************************************************)
EXTENDS TaskLock, TLAPS

\* GrantedAlone is not inductive: whether a second delivery is refused depends
\* on the key still being there, which is what KeyOutlivesRun says.
IInv == TypeOK /\ GrantedAlone /\ KeyOutlivesRun

LEMMA InitIInv == Init => IInv
<1> SUFFICES ASSUME Init PROVE IInv
  OBVIOUS
<1>1. ttl \in 0..TTL /\ age \in [Deliveries -> 0..task_time_limit - 1]
  BY LockAssumption DEF Init, TTL
<1>2. pc \in [Deliveries -> Places] /\ opened \in BOOLEAN
  BY DEF Init, Places
<1>3. \A d \in Deliveries : ~Running(d)
  BY DEF Init, Running
<1> QED BY <1>1, <1>2, <1>3 DEF IInv, TypeOK, GrantedAlone, KeyOutlivesRun

\* While a delivery runs the key is there, if none went in without it.
LEMMA KeyIsThere ==
  ASSUME IInv, ~opened, NEW d \in Deliveries, Running(d)
  PROVE  ttl > 0
BY LockAssumption DEF IInv, TypeOK, KeyOutlivesRun, TTL

LEMMA TypeStep ==
  ASSUME TypeOK, [Next]_vars
  PROVE  TypeOK'
<1> USE LockAssumption DEF TypeOK, Places, TTL
<1>1. ASSUME NEW d \in Deliveries, Step(d) PROVE TypeOK'
  <2>0. 0 \in 0..task_time_limit - 1 /\ 0 \in 0..TTL /\ TTL \in 0..TTL
    OBVIOUS
  <2>1. CASE Acquire(d)
    BY <2>0, <2>1 DEF Acquire, EnterBody, Move
  <2>2. CASE FailOpen(d)
    BY <2>2 DEF FailOpen, EnterBody, Move
  <2>3. CASE Skip(d) \/ BodyReturns(d)
    BY <2>3 DEF Skip, BodyReturns, Move
  <2>4. CASE Return(d) \/ Release(d) \/ ReleaseFails(d) \/ Raise(d)
    <3>1. GoOut(d) /\ (ttl' = ttl \/ ttl' = 0)
      BY <2>4 DEF Return, Release, ReleaseFails, Raise
    <3>2. pc' \in [Deliveries -> Places] /\ age' \in [Deliveries -> 0..task_time_limit - 1]
      BY <2>0, <3>1 DEF GoOut, Move
    <3> QED BY <2>0, <3>1, <3>2 DEF GoOut
  <2> QED BY <1>1, <2>1, <2>2, <2>3, <2>4 DEF Step
<1>2. CASE Tick
  <2>1. ttl' \in 0..TTL
    BY <1>2 DEF Tick, Expire
  <2>2. \A d \in Deliveries : Running(d) /\ ~Overdue(d) => age[d] + 1 \in 0..task_time_limit - 1
    BY DEF Overdue
  <2>3. age' \in [Deliveries -> 0..task_time_limit - 1]
    BY <1>2, <2>2 DEF Tick
  <2>4. pc' \in [Deliveries -> Places] /\ opened' \in BOOLEAN
    BY <1>2 DEF Tick
  <2> QED BY <2>1, <2>3, <2>4
<1>3. CASE UNCHANGED vars
  BY <1>3 DEF vars
<1> QED BY <1>1, <1>2, <1>3 DEF Next

\* The inductive step.  The interesting cases are Acquire, which KeyIsThere
\* forbids while anyone runs, and Release, which may only delete the key of
\* the delivery that leaves because no other one runs.
LEMMA NextIInv ==
  ASSUME IInv, [Next]_vars
  PROVE  IInv'
<1>0. TypeOK'
  BY TypeStep DEF IInv
<1>a. SUFFICES ASSUME ~opened, ~opened' PROVE GrantedAlone' /\ KeyOutlivesRun'
  <2>1. CASE opened'
    BY <1>0, <2>1 DEF IInv, GrantedAlone, KeyOutlivesRun
  <2>2. CASE ~opened'
    <3>1. ~opened
      BY <2>2 DEF Next, Step, vars, Acquire, Skip, Return, FailOpen, BodyReturns,
                  Release, ReleaseFails, Raise, Tick, GoOut
    <3> QED BY <1>0, <2>2, <3>1 DEF IInv
  <2> QED BY <2>1, <2>2
<1> USE <1>a
<1> USE LockAssumption DEF IInv, TypeOK, GrantedAlone, KeyOutlivesRun, Running, Places, TTL
<1>1. ASSUME NEW d \in Deliveries, Acquire(d) PROVE GrantedAlone' /\ KeyOutlivesRun'
  <2>1. \A e \in Deliveries : ~Running(e)
    BY <1>1, KeyIsThere DEF Acquire
  <2> QED BY <1>1, <2>1 DEF Acquire, EnterBody, Move
<1>2. ASSUME NEW d \in Deliveries, Skip(d) PROVE GrantedAlone' /\ KeyOutlivesRun'
  BY <1>2 DEF Skip, Move
<1>3. ASSUME NEW d \in Deliveries, Return(d) PROVE GrantedAlone' /\ KeyOutlivesRun'
  BY <1>3 DEF Return, GoOut, Move
<1>4. ASSUME NEW d \in Deliveries, BodyReturns(d) PROVE GrantedAlone' /\ KeyOutlivesRun'
  BY <1>4 DEF BodyReturns, Move
<1>5. ASSUME NEW d \in Deliveries, Release(d) PROVE GrantedAlone' /\ KeyOutlivesRun'
  <2>1. \A e \in Deliveries : ~Running(e)'
    BY <1>5 DEF Release, GoOut, Move
  <2> QED BY <2>1
<1>6. ASSUME NEW d \in Deliveries, Raise(d) \/ ReleaseFails(d)
      PROVE  GrantedAlone' /\ KeyOutlivesRun'
  BY <1>6 DEF Raise, ReleaseFails, GoOut, Move
<1>7. ASSUME NEW d \in Deliveries, FailOpen(d) PROVE FALSE
  BY <1>7 DEF FailOpen
<1>8. CASE Tick
  <2>1. ASSUME NEW d \in Deliveries, Running(d)'
        PROVE  Running(d) /\ age'[d] = age[d] + 1 /\ ttl' = ttl - 1
    <3>1. Running(d) /\ ~Overdue(d)
      BY <1>8, <2>1 DEF Tick
    <3>2. ttl > 0
      BY <3>1, KeyIsThere
    <3> QED BY <1>8, <3>1, <3>2 DEF Tick, Expire
  <2> QED BY <1>0, <2>1
<1>9. CASE UNCHANGED vars
  BY <1>9 DEF vars
<1> QED BY <1>0, <1>1, <1>2, <1>3, <1>4, <1>5, <1>6, <1>7, <1>8, <1>9 DEF Next, Step

LEMMA Invariance == Spec => []IInv
<1>1. IInv /\ [Next]_vars => IInv'
  BY NextIInv
<1> QED BY <1>1, InitIInv, PTL DEF Spec

-----------------------------------------------------------------------------

\* The lock's state stays well typed, whether Redis answers or not: in
\* particular no run reaches the hard limit, and no key outlives its TTL.
THEOREM TypeCorrect == Spec => []TypeOK
<1>1. Init => TypeOK
  BY InitIInv DEF IInv
<1>2. TypeOK /\ [Next]_vars => TypeOK'
  BY TypeStep
<1> QED BY <1>1, <1>2, PTL DEF Spec

\* A key always outlives the run that set it, because the hard time limit of
\* celery_app.py is not longer than the TTL of helpers.py.
THEOREM KeyCoversRun == Spec => []KeyOutlivesRun
BY Invariance, PTL DEF IInv

\* Until a delivery goes in without the lock, two deliveries of one key are never in the body
\* together, although the key has no owner token and DELETE is unconditional.
THEOREM MutualExclusion == Spec => []GrantedAlone
<1>1. IInv => GrantedAlone
  BY DEF IInv
<1> QED BY <1>1, Invariance, PTL

-----------------------------------------------------------------------------
(* with_idempotency implements TaskMutex. *)

LEMMA RefinesStep ==
  ASSUME IInv, [Next]_vars
  PROVE  [Mutex!Next]_holders
<1> USE DEF Mutex!Next, Mutex!Enter, Mutex!Leave
<1>0. CASE opened
  <2>1. opened'
    BY <1>0 DEF Next, Step, vars, Acquire, Skip, Return, FailOpen, BodyReturns,
                Release, ReleaseFails, Raise, Tick, GoOut
  <2>2. holders' = holders
    BY <1>0, <2>1 DEF holders
  <2> QED BY <2>2
<1>a. SUFFICES ASSUME ~opened PROVE [Mutex!Next]_holders
  BY <1>0
<1>b. \A d, e \in holders : d = e
  BY <1>a DEF holders, IInv, GrantedAlone
<1>c. ASSUME holders' \subseteq holders PROVE [Mutex!Next]_holders
  <2>1. CASE holders' = holders
    BY <2>1
  <2>2. CASE holders' # holders
    <3>1. PICK d \in holders : d \notin holders'
      BY <1>c, <2>2
    <3>2. holders = {d}
      BY <3>1, <1>b
    <3>3. holders' = {}
      BY <1>c, <3>1, <3>2
    <3>4. d \in Deliveries
      BY <3>1 DEF holders
    <3> QED BY <3>2, <3>3, <3>4
  <2> QED BY <2>1, <2>2
<1>1. ASSUME NEW d \in Deliveries, Acquire(d) PROVE [Mutex!Next]_holders
  <2>1. holders = {}
    BY <1>1, <1>a, KeyIsThere DEF Acquire, holders
  <2>2. ~opened'
    BY <1>1, <1>a DEF Acquire
  <2>3. holders' = {d}
    BY <1>1, <1>a, <2>1, <2>2 DEF Acquire, EnterBody, Move, Running, holders, IInv, TypeOK
  <2> QED BY <2>1, <2>3
<1>2. ASSUME NEW d \in Deliveries, Skip(d) \/ Return(d) \/ BodyReturns(d)
      PROVE  [Mutex!Next]_holders
  <2>1. holders' = holders
    BY <1>2 DEF Skip, Return, BodyReturns, GoOut, Move, Running, holders, IInv, TypeOK
  <2> QED BY <2>1
<1>3. ASSUME NEW d \in Deliveries, Release(d) \/ ReleaseFails(d) \/ Raise(d)
      PROVE  [Mutex!Next]_holders
  <2>1. holders' \subseteq holders
    BY <1>3 DEF Release, ReleaseFails, Raise, GoOut, Move, Running, holders, IInv, TypeOK
  <2> QED BY <2>1, <1>c
<1>4. ASSUME NEW d \in Deliveries, FailOpen(d) PROVE [Mutex!Next]_holders
  <2>1. holders' = {}
    BY <1>4 DEF FailOpen, holders
  <2> QED BY <2>1, <1>c
<1>5. CASE Tick
  <2>1. holders' \subseteq holders
    BY <1>5 DEF Tick, Running, holders, IInv, TypeOK
  <2> QED BY <2>1, <1>c
<1>6. CASE UNCHANGED vars
  <2>1. holders' = holders
    BY <1>6 DEF vars, Running, holders
  <2> QED BY <2>1
<1> QED BY <1>1, <1>2, <1>3, <1>4, <1>5, <1>6 DEF Next, Step

\* Every behaviour of the Redis lock is one of the abstract mutual exclusion,
\* in which the deliveries that are inside leave when one fails open.
THEOREM ImplementsMutex == Spec => MutexSpec
<1>1. Init => Mutex!Init
  BY DEF Init, Mutex!Init, Running, holders
<1>2. IInv /\ [Next]_vars => [Mutex!Next]_holders
  BY RefinesStep
<1> QED BY <1>1, <1>2, Invariance, PTL DEF Spec, MutexSpec, Mutex!Spec

=============================================================================
