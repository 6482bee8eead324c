------------------------- MODULE JobLifecycle_proofs -------------------------
(***************************************************************************)
(* Proofs about the life of fetch jobs, for any number of jobs and windows *)
(* and every combination of faults and users.                              *)
(***************************************************************************)
EXTENDS JobLifecycle, TLAPS

-----------------------------------------------------------------------------
(* The type invariant. *)

LEMMA InitType == Init => TypeOK
BY JobsAssumption DEF Init, TypeOK, Statuses, RunPlaces

LEMMA CreateType ==
  ASSUME TypeOK, NEW j \in Jobs, Create(j)
  PROVE  TypeOK'
<1> USE DEF TypeOK, rowVars, brokerVars, keyVars, userVars, Creator, Message, SetStatus
<1> Statuses = Statuses \cup {"pending"}
  BY DEF Statuses, Active
<1>1. CASE FlushAndDispatch(j)
  BY <1>1 DEF FlushAndDispatch
<1>2. CASE CommitCreated(j)
  BY <1>2 DEF CommitCreated
<1>3. CASE Rollback(j)
  BY <1>3 DEF Rollback
<1>4. CASE InsertPreset(j)
  BY <1>4 DEF InsertPreset
<1>5. CASE DispatchPreset(j)
  BY <1>5 DEF DispatchPreset
<1>6. CASE DispatchRefused(j)
  BY <1>6 DEF DispatchRefused
<1> QED BY <1>1, <1>2, <1>3, <1>4, <1>5, <1>6 DEF Create

\* A write of the worker keeps the row's columns typed, whether or not the row
\* is there.
LEMMA UpdateType ==
  ASSUME TypeOK, NEW j \in Jobs, NEW s \in Statuses, _update_job_db(j, s)
  PROVE  status' \in [Jobs -> Statuses] /\ quiet' \in [Jobs -> BOOLEAN]
BY DEF TypeOK, _update_job_db, SetStatus

LEMMA WorkType ==
  ASSUME TypeOK, NEW j \in Jobs, Work(j) \/ Mishap(j) \/ ReportProgress(j)
  PROVE  TypeOK'
<1> USE DEF TypeOK, rowVars, brokerVars, keyVars, userVars, Go, Message, RunPlaces
<1>0. {"processing", "completed", "completed_partial", "failed"} \subseteq Statuses
  BY DEF Statuses, Active, Terminal
<1>1. CASE DiscardRevoked(j)
  BY <1>1 DEF DiscardRevoked
<1>2. CASE Deliver(j)
  BY <1>2 DEF Deliver
<1>3. CASE AcquireLock(j)
  <2>1. StillOpen(j) \in SUBSET Windows
    BY DEF StillOpen
  <2> QED BY <1>3, <2>1 DEF AcquireLock, Enter
<1>3a. CASE ProceedWithoutKey(j)
  <2>1. Window[j] \in Windows
    BY JobsAssumption
  <2>2. lock' \in [Windows -> BOOLEAN]
    BY <1>3a DEF ProceedWithoutKey
  <2> QED BY <1>3a, <2>1, <2>2 DEF ProceedWithoutKey, Enter
<1>4. CASE Deduplicate(j)
  BY <1>0, <1>4, UpdateType DEF Deduplicate
<1>5. CASE MarkProcessing(j)
  BY <1>0, <1>5, UpdateType DEF MarkProcessing, Present
<1>6. CASE StoreFrames(j)
  BY <1>6 DEF StoreFrames
<1>7. CASE NothingFetched(j)
  BY <1>7 DEF NothingFetched
<1>8. CASE FetchRaises(j)
  BY <1>8 DEF FetchRaises
<1>9. CASE FinalUpdate(j)
  <2>1. PICK s \in Statuses : _update_job_db(j, s)
    BY <1>0, <1>9 DEF FinalUpdate
  <2> QED BY <1>9, <2>1, UpdateType DEF FinalUpdate
<1>10. CASE ReleaseLock(j)
  BY <1>10 DEF ReleaseLock
<1>11. CASE Acknowledge(j)
  BY <1>11, JobsAssumption DEF Acknowledge
<1>12. CASE HandleFailure(j)
  <2>1. _update_job_db(j, "failed")
    BY <1>12 DEF HandleFailure
  <2>2. status' \in [Jobs -> Statuses] /\ quiet' \in [Jobs -> BOOLEAN]
    BY <1>0, <2>1, UpdateType
  <2>3. msg' \in [Jobs -> {"none", "queued", "held"}]
    BY <1>12 DEF HandleFailure
  <2>4. retries' \in [Jobs -> 0..MaxRetries]
    BY <1>12, JobsAssumption DEF HandleFailure
  <2>5. run' \in [Jobs -> RunPlaces]
    BY <1>12 DEF HandleFailure
  <2> QED BY <1>12, <2>2, <2>3, <2>4, <2>5 DEF HandleFailure
<1>13. CASE Terminate(j)
  BY <1>13 DEF Terminate, Stop
<1>14. CASE Crash(j)
  BY <1>14, JobsAssumption DEF Crash, Stop
<1>15. CASE HardTimeout(j)
  BY <1>15 DEF HardTimeout, Stop
<1>16. CASE ReportProgress(j)
  BY <1>16 DEF ReportProgress
<1> QED BY <1>1, <1>2, <1>3, <1>3a, <1>4, <1>5, <1>6, <1>7, <1>8, <1>9, <1>10,
           <1>11, <1>12, <1>13, <1>14, <1>15, <1>16 DEF Work, Mishap

LEMMA UserType ==
  ASSUME TypeOK, NEW j \in Jobs, CancelRead(j) \/ DeleteRead(j) \/ UserStep(j)
  PROVE  TypeOK'
<1> USE DEF TypeOK, rowVars, brokerVars, keyVars, SetStatus, Revoke
<1>0. {"cancelled", "deleted"} \subseteq Statuses
  BY DEF Statuses, Terminal
<1>1. CASE CancelRead(j)
  BY <1>1 DEF CancelRead
<1>2. CASE CancelUpdate(j)
  BY <1>0, <1>2 DEF CancelUpdate
<1>3. CASE CancelRevoke(j)
  BY <1>3 DEF CancelRevoke
<1>4. CASE DeleteRead(j)
  BY <1>4 DEF DeleteRead
<1>5. CASE DeleteCommit(j)
  BY <1>0, <1>5 DEF DeleteCommit
<1> QED BY <1>1, <1>2, <1>3, <1>4, <1>5 DEF UserStep

LEMMA SweepType ==
  ASSUME TypeOK,
         Sweep \/ (\E j \in Jobs : BecomeQuiet(j)) \/ (\E w \in Windows : LockExpires(w))
  PROVE  TypeOK'
<1> USE DEF TypeOK, rowVars, brokerVars, keyVars, userVars
<1>0. "failed" \in Statuses
  BY DEF Statuses, Terminal
<1>1. CASE SelectProcessing
  BY <1>1 DEF SelectProcessing, Select, staleProcessing
<1>2. CASE SelectPending
  BY <1>2 DEF SelectPending, Select, stalePending
<1>3. CASE SweepCommit
  <2>1. status' \in [Jobs -> Statuses]
    BY <1>0, <1>3 DEF SweepCommit, FailPicked
  <2>2. quiet' \in [Jobs -> BOOLEAN]
    BY <1>3 DEF SweepCommit, FailPicked
  <2>3. sweep' \in [at: {"idle", "processing", "between", "pending"},
                    picked: SUBSET Jobs]
    BY <1>3 DEF SweepCommit, FailPicked
  <2> QED BY <1>3, <2>1, <2>2, <2>3 DEF SweepCommit
<1>4. ASSUME NEW j \in Jobs, BecomeQuiet(j) PROVE TypeOK'
  BY <1>4 DEF BecomeQuiet
<1>5. ASSUME NEW w \in Windows, LockExpires(w) PROVE TypeOK'
  BY <1>5 DEF LockExpires
<1> QED BY <1>1, <1>2, <1>3, <1>4, <1>5 DEF Sweep

LEMMA NextType == TypeOK /\ [Next]_vars => TypeOK'
<1> SUFFICES ASSUME TypeOK, [Next]_vars PROVE TypeOK'
  OBVIOUS
<1>1. CASE UNCHANGED vars
  BY <1>1 DEF vars, TypeOK
<1> QED BY <1>1, CreateType, WorkType, UserType, SweepType DEF Next

\* Every reachable state of the jobs, the broker, the workers and the sweep is
\* well typed.
THEOREM TypeCorrect == Spec => []TypeOK
<1> QED BY InitType, NextType, PTL DEF Spec

-----------------------------------------------------------------------------
(* One fetch per window at a time. *)

\* FetchExclusive is not inductive: a second run is kept out by the key, so the
\* invariant must say that a run inside the block has its key set, unless the
\* window has been opened.
KeyHeld ==
  \A j \in Jobs : run[j] \in Critical /\ Window[j] \notin opened => lock[Window[j]]

IInv == TypeOK /\ KeyHeld /\ FetchExclusive

\* A step that moves no run into the block and clears no key keeps both parts.
LEMMA Undisturbed ==
  ASSUME IInv,
         \A j \in Jobs : run'[j] \in Critical => run[j] \in Critical,
         lock' = lock, opened' = opened
  PROVE  KeyHeld' /\ FetchExclusive'
BY DEF IInv, KeyHeld, FetchExclusive

\* The window is empty, or it is opened and stays so: the first run that enters
\* an empty window with the key closes it again.
LEMMA AcquireExclusive ==
  ASSUME IInv, NEW j \in Jobs, AcquireLock(j)
  PROVE  KeyHeld' /\ FetchExclusive'
<1> USE JobsAssumption
<1>1. /\ lock' = [lock EXCEPT ![Window[j]] = TRUE]
      /\ run' = [run EXCEPT ![j] = "locked"]
      /\ opened' = StillOpen(j)
      /\ ~lock[Window[j]]
  BY DEF AcquireLock, Enter, Go
<1>2. lock' \in [Windows -> BOOLEAN] /\ run \in [Jobs -> RunPlaces]
      /\ lock \in [Windows -> BOOLEAN]
  BY <1>1 DEF IInv, TypeOK
<1>3. \A w \in Windows : w # Window[j] => (w \in opened' <=> w \in opened)
  BY <1>1 DEF StillOpen
<1>4. \A i \in Jobs : i # j => run'[i] = run[i]
  BY <1>1, <1>2
<1>5. Window[j] \notin opened' => \A i \in Jobs : Window[i] = Window[j] => run[i] \notin Critical
  BY <1>1 DEF StillOpen, IInv, KeyHeld
<1>6. KeyHeld'
  <2> SUFFICES ASSUME NEW i \in Jobs, run'[i] \in Critical, Window[i] \notin opened'
               PROVE  lock'[Window[i]]
    BY DEF KeyHeld
  <2>1. CASE Window[i] = Window[j]
    BY <2>1, <1>1, <1>2
  <2>2. CASE Window[i] # Window[j]
    BY <2>2, <1>1, <1>2, <1>3, <1>4 DEF IInv, KeyHeld
  <2> QED BY <2>1, <2>2
<1>7. FetchExclusive'
  <2> SUFFICES ASSUME NEW i \in Jobs, NEW k \in Jobs,
                      run'[i] \in Critical, run'[k] \in Critical,
                      Window[i] = Window[k], Window[k] \notin opened'
               PROVE  i = k
    BY DEF FetchExclusive
  <2>1. CASE Window[k] = Window[j]
    BY <2>1, <1>4, <1>5
  <2>2. CASE Window[k] # Window[j]
    BY <2>2, <1>3, <1>4 DEF IInv, FetchExclusive
  <2> QED BY <2>1, <2>2
<1> QED BY <1>6, <1>7

\* A run that the lock's Redis lets in opens its window, and touches no other.
LEMMA ProceedExclusive ==
  ASSUME IInv, NEW j \in Jobs, ProceedWithoutKey(j)
  PROVE  KeyHeld' /\ FetchExclusive'
<1> USE JobsAssumption
<1>1. /\ run' = [run EXCEPT ![j] = "locked"]
      /\ opened' = opened \cup {Window[j]}
  BY DEF ProceedWithoutKey, Enter, Go
<1>2. run \in [Jobs -> RunPlaces] /\ lock \in [Windows -> BOOLEAN]
  BY DEF IInv, TypeOK
<1>3. \A w \in Windows : w # Window[j] => lock'[w] = lock[w]
  BY <1>2 DEF ProceedWithoutKey
<1>4. \A i \in Jobs : Window[i] # Window[j] => run'[i] = run[i]
  BY <1>1, <1>2
<1> QED BY <1>1, <1>3, <1>4 DEF IInv, KeyHeld, FetchExclusive

LEMMA NextExclusive ==
  ASSUME IInv, [Next]_vars
  PROVE  KeyHeld' /\ FetchExclusive'
<1> USE JobsAssumption DEF Critical
<1>1. ASSUME NEW j \in Jobs, AcquireLock(j) \/ ProceedWithoutKey(j)
      PROVE  KeyHeld' /\ FetchExclusive'
  BY <1>1, AcquireExclusive, ProceedExclusive
<1>2. ASSUME NEW j \in Jobs, ReleaseLock(j) PROVE KeyHeld' /\ FetchExclusive'
  <2>1. \A i \in Jobs : Window[i] = Window[j] /\ i # j /\ Window[j] \notin opened
                          => run[i] \notin Critical
    BY <1>2 DEF ReleaseLock, IInv, FetchExclusive
  <2>2. /\ lock' = [lock EXCEPT ![Window[j]] = FALSE] \/ lock' = lock
        /\ run' = [run EXCEPT ![j] = "done"]
        /\ opened' = opened
    BY <1>2 DEF ReleaseLock, Go
  <2> QED BY <2>1, <2>2 DEF IInv, TypeOK, KeyHeld, FetchExclusive
<1>3. ASSUME NEW w \in Windows, LockExpires(w) PROVE KeyHeld' /\ FetchExclusive'
  <2>1. /\ lock' = [lock EXCEPT ![w] = FALSE]
        /\ run' = run /\ opened' = opened
        /\ w \in opened \/ \A j \in Jobs : Window[j] = w => run[j] \notin Critical
    BY <1>3 DEF LockExpires
  <2> QED BY <2>1 DEF IInv, TypeOK, KeyHeld, FetchExclusive
<1>4. ASSUME NEW j \in Jobs,
             \/ DiscardRevoked(j) \/ Deliver(j) \/ Deduplicate(j)
             \/ MarkProcessing(j) \/ StoreFrames(j) \/ NothingFetched(j)
             \/ FetchRaises(j) \/ FinalUpdate(j) \/ Acknowledge(j)
             \/ HandleFailure(j) \/ Terminate(j) \/ Mishap(j)
      PROVE  KeyHeld' /\ FetchExclusive'
  <2>1. lock' = lock /\ opened' = opened
    BY <1>4 DEF DiscardRevoked, Deliver, Deduplicate, MarkProcessing, StoreFrames,
         NothingFetched, FetchRaises, FinalUpdate, Acknowledge, HandleFailure,
         Terminate, Mishap, Crash, HardTimeout, Stop, keyVars
  <2>2. \/ run' = run
        \/ \E place \in RunPlaces :
             /\ run' = [run EXCEPT ![j] = place]
             /\ place \in Critical => run[j] \in Critical
    BY <1>4 DEF DiscardRevoked, Deliver, Deduplicate, MarkProcessing, StoreFrames,
         NothingFetched, FetchRaises, FinalUpdate, Acknowledge, HandleFailure,
         Terminate, Mishap, Crash, HardTimeout, Stop, Go, RunPlaces
  <2>3. \A i \in Jobs : run'[i] \in Critical => run[i] \in Critical
    BY <2>2 DEF IInv, TypeOK
  <2> QED BY <2>1, <2>3, Undisturbed
<1>5. ASSUME \/ \E j \in Jobs : \/ Create(j) \/ CancelRead(j) \/ DeleteRead(j)
                              \/ UserStep(j) \/ ReportProgress(j) \/ BecomeQuiet(j)
             \/ Sweep
             \/ UNCHANGED vars
      PROVE  KeyHeld' /\ FetchExclusive'
  <2>1. run' = run /\ lock' = lock /\ opened' = opened
    BY <1>5 DEF Create, FlushAndDispatch, CommitCreated, Rollback, InsertPreset,
         DispatchPreset, DispatchRefused, CancelRead, DeleteRead, UserStep,
         CancelUpdate, CancelRevoke, DeleteCommit, ReportProgress, BecomeQuiet,
         Sweep, SelectProcessing, SelectPending, Select, SweepCommit, vars, keyVars
  <2> QED BY <2>1, Undisturbed
<1> QED BY <1>1, <1>2, <1>3, <1>4, <1>5 DEF Next, Work

\* At most one run per window is inside the lock, for any number of jobs and
\* whatever fails: failures, lost workers, lost acknowledgements, terminations,
\* deletions and failed DELETEs included; and after a run that Redis let in
\* without the key, again as soon as the window has been empty.  It rests on
\* the key not expiring under the run that set it, which LockExpires takes from
\* TaskLock_proofs!KeyCoversRun.
THEOREM OneFetchPerWindow == Spec => []FetchExclusive
<1>1. Init => IInv
  BY InitType DEF Init, IInv, KeyHeld, FetchExclusive, Critical
<1>2. IInv /\ [Next]_vars => IInv'
  BY NextType, NextExclusive DEF IInv
<1>3. IInv => FetchExclusive
  BY DEF IInv
<1> QED BY <1>1, <1>2, <1>3, PTL DEF Spec

-----------------------------------------------------------------------------
(* What may happen to the status of a row. *)

\* A row that its creator has not committed yet is visible to nobody, so that
\* no delete request has read it either.
Uncommitted ==
  \A j \in Jobs : creator[j] \in {"new", "sent"} => status[j] = "absent" /\ ~deleting[j]

RInv == TypeOK /\ Uncommitted

\* How one step changes the status of one job: the creator makes it pending,
\* a worker writes a present row, a cancel an active one, a delete any, and
\* the sweep fails present ones.
Changes(j) ==
  \/ /\ status[j] = "absent" /\ status'[j] = "pending"
     /\ creator'[j] \notin {"new", "sent"}
  \/ Present(j) /\ status'[j] \in {"processing", "completed", "completed_partial", "failed"}
  \/ status[j] \in Active /\ status'[j] = "cancelled"
  \/ deleting[j] /\ status'[j] = "deleted"
  \/ status'[j] = status[j]

LEMMA UpdateChanges ==
  ASSUME TypeOK, NEW j \in Jobs, _update_job_db(j, "processing") \/ _update_job_db(j, "completed")
           \/ _update_job_db(j, "completed_partial") \/ _update_job_db(j, "failed"),
         NEW i \in Jobs
  PROVE  Changes(i)
BY DEF TypeOK, Changes, _update_job_db, SetStatus

LEMMA NextChanges ==
  ASSUME RInv, [Next]_vars, NEW i \in Jobs
  PROVE  Changes(i)
<1> USE DEF RInv, TypeOK, rowVars
<1>1. ASSUME NEW j \in Jobs, CommitCreated(j) \/ InsertPreset(j) PROVE Changes(i)
  <2>1. /\ status[j] = "absent" /\ status' = [status EXCEPT ![j] = "pending"]
        /\ creator'[j] \notin {"new", "sent"}
    BY <1>1 DEF CommitCreated, InsertPreset, SetStatus, Uncommitted, Creator
  <2> QED BY <2>1 DEF Changes
<1>2. ASSUME NEW j \in Jobs,
             Deduplicate(j) \/ MarkProcessing(j) \/ FinalUpdate(j) \/ HandleFailure(j)
      PROVE  Changes(i)
  BY <1>2, UpdateChanges DEF Deduplicate, MarkProcessing, FinalUpdate, HandleFailure
<1>3. ASSUME NEW j \in Jobs, CancelUpdate(j) PROVE Changes(i)
  BY <1>3 DEF CancelUpdate, SetStatus, Changes
<1>4. ASSUME NEW j \in Jobs, DeleteCommit(j) PROVE Changes(i)
  BY <1>4 DEF DeleteCommit, SetStatus, Changes
<1>5. ASSUME SweepCommit PROVE Changes(i)
  BY <1>5 DEF SweepCommit, FailPicked, Changes
<1>6. ASSUME NEW j \in Jobs,
             \/ FlushAndDispatch(j) \/ Rollback(j) \/ DispatchPreset(j) \/ DispatchRefused(j)
             \/ DiscardRevoked(j) \/ Deliver(j) \/ AcquireLock(j) \/ ProceedWithoutKey(j) \/ StoreFrames(j)
             \/ NothingFetched(j) \/ FetchRaises(j) \/ ReleaseLock(j) \/ Acknowledge(j)
             \/ Terminate(j) \/ Crash(j) \/ HardTimeout(j) \/ ReportProgress(j)
             \/ CancelRead(j) \/ CancelRevoke(j) \/ DeleteRead(j) \/ BecomeQuiet(j)
      PROVE  status' = status
  BY <1>6 DEF FlushAndDispatch, Rollback, DispatchPreset, DispatchRefused,
       DiscardRevoked, Deliver, AcquireLock, ProceedWithoutKey, Enter, StoreFrames,
       NothingFetched, FetchRaises, ReleaseLock, Acknowledge, Terminate, Crash, HardTimeout, Stop,
       ReportProgress, CancelRead, CancelRevoke, DeleteRead, BecomeQuiet
<1>7. ASSUME SelectProcessing \/ SelectPending \/ (\E w \in Windows : LockExpires(w))
             \/ UNCHANGED vars
      PROVE  status' = status
  BY <1>7 DEF SelectProcessing, SelectPending, Select, LockExpires, vars
<1> HIDE DEF RInv, TypeOK, rowVars
<1> QED BY <1>1, <1>2, <1>3, <1>4, <1>5, <1>6, <1>7
        DEF Next, Create, Work, Mishap, UserStep, Sweep, Changes

\* The creator of a job only moves on, and a delete request begins on a row
\* that is there.
LEMMA NextCreator ==
  ASSUME RInv, [Next]_vars, NEW i \in Jobs
  PROVE  /\ creator'[i] \in {"new", "sent"} => creator[i] \in {"new", "sent"}
         /\ deleting'[i] => deleting[i] \/ Present(i)
<1> USE DEF RInv, TypeOK, userVars
<1>1. ASSUME NEW j \in Jobs, Create(j)
      PROVE  /\ creator'[i] \in {"new", "sent"} => creator[i] \in {"new", "sent"}
             /\ deleting' = deleting
  BY <1>1 DEF Create, FlushAndDispatch, CommitCreated, Rollback, InsertPreset,
       DispatchPreset, DispatchRefused, Creator
<1>2. ASSUME NEW j \in Jobs, DeleteRead(j) \/ DeleteCommit(j)
      PROVE  creator' = creator /\ (deleting'[i] => deleting[i] \/ Present(i))
  BY <1>2 DEF DeleteRead, DeleteCommit
<1>3. ASSUME NEW j \in Jobs,
             \/ Work(j) \/ Mishap(j) \/ ReportProgress(j) \/ BecomeQuiet(j)
             \/ CancelRead(j) \/ CancelUpdate(j) \/ CancelRevoke(j)
      PROVE  creator' = creator /\ deleting' = deleting
  BY <1>3 DEF Work, Mishap, DiscardRevoked, Deliver, AcquireLock,
       ProceedWithoutKey, Enter, Deduplicate,
       MarkProcessing, StoreFrames, NothingFetched, FetchRaises, FinalUpdate,
       ReleaseLock, Acknowledge, HandleFailure, Terminate, Crash, HardTimeout,
       Stop, ReportProgress, BecomeQuiet, CancelRead, CancelUpdate, CancelRevoke
<1>4. ASSUME Sweep \/ (\E w \in Windows : LockExpires(w)) \/ UNCHANGED vars
      PROVE  creator' = creator /\ deleting' = deleting
  BY <1>4 DEF Sweep, SelectProcessing, SelectPending, Select, SweepCommit,
       LockExpires, vars
<1> HIDE DEF RInv, TypeOK, userVars
<1> QED BY <1>1, <1>2, <1>3, <1>4 DEF Next, UserStep

LEMMA NextRInv == RInv /\ [Next]_vars => RInv'
<1> SUFFICES ASSUME RInv, [Next]_vars PROVE RInv'
  OBVIOUS
<1>1. TypeOK'
  BY NextType DEF RInv
<1>2. ASSUME NEW i \in Jobs, creator'[i] \in {"new", "sent"}
      PROVE  status'[i] = "absent" /\ ~deleting'[i]
  <2>1. creator[i] \in {"new", "sent"}
    BY <1>2, NextCreator
  <2>2. status[i] = "absent" /\ ~deleting[i]
    BY <2>1 DEF RInv, Uncommitted
  <2>3. Changes(i)
    BY NextChanges
  <2>4. status'[i] = "absent"
    BY <1>2, <2>2, <2>3 DEF Changes, Present, Active, Terminal
  <2>5. ~deleting'[i]
    BY <2>2, NextCreator DEF Present, Active, Terminal
  <2> QED BY <2>4, <2>5
<1> QED BY <1>1, <1>2 DEF RInv, Uncommitted

LEMMA RowInvariance == Spec => []RInv
<1>1. Init => RInv
  BY InitType DEF Init, RInv, Uncommitted
<1> QED BY <1>1, NextRInv, PTL DEF Spec

\* A cancel request never turns a finished or deleted job into a cancelled
\* one, however long ago it read the row: the status test and the write of
\* cancel_job are one statement.
THEOREM CancelIsGuarded == Spec => CancelsOnlyActive
<1>1. ASSUME RInv, [Next]_vars
      PROVE  \A j \in Jobs : status[j] # "cancelled" /\ status'[j] = "cancelled"
                               => status[j] \in Active
  BY <1>1, NextChanges DEF Changes
<1>2. RInv /\ [Next]_vars
        => [\A j \in Jobs : status[j] # "cancelled" /\ status'[j] = "cancelled"
                              => status[j] \in Active]_vars
  BY <1>1
<1> QED BY <1>2, RowInvariance, PTL DEF Spec, CancelsOnlyActive

\* No update of a worker, a cancel request or a sweep brings a deleted row back.
THEOREM DeletedIsFinal == Spec => DeletedStaysDeleted
<1>1. ASSUME RInv, [Next]_vars
      PROVE  \A j \in Jobs : status[j] = "deleted" => status'[j] = "deleted"
  BY <1>1, NextChanges DEF Changes, Present, Active, Terminal
<1>2. RInv /\ [Next]_vars
        => [\A j \in Jobs : status[j] = "deleted" => status'[j] = "deleted"]_vars
  BY <1>1
<1> QED BY <1>2, RowInvariance, PTL DEF Spec, DeletedStaysDeleted

=============================================================================
