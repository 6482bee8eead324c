----------------------------- MODULE JobLifecycle -----------------------------
(***************************************************************************)
(* The life of GOES fetch jobs: the row in the jobs table, the request or  *)
(* beat task that creates it, the Celery message, the worker that runs     *)
(* fetch_goes_data, the user who cancels or deletes, and the stale-job     *)
(* sweep of the API process.  They share the row, the broker and the lock  *)
(* of the fetch window, and each of them commits on its own.               *)
(*                                                                         *)
(* The lock is TaskLock seen from the jobs: a key per window that is left  *)
(* behind by a run that fails or dies, and that does not expire under a    *)
(* run (TaskLock_proofs, KeyCoversRun).                                    *)
(***************************************************************************)
EXTENDS Integers, FiniteSets

CONSTANTS
    Jobs,
    Windows,     \* lock keys: satellite, sector, band and time range
    Window,      \* the window each job fetches
    Origin,      \* who creates each job
    Faults,      \* what may go wrong
    Actors,      \* who is at work besides the creators and the workers
    MaxRetries,  \* max_retries of the task
    MaxLosses    \* bound on worker losses and lost acknowledgements

Origins == {"fetch", "schedule", "preset"}

FaultKinds ==
    {"dispatch",   \* the broker refuses the message
     "rollback",   \* the creating transaction is rolled back after dispatch
     "error",      \* the fetch raises
     "retryable",  \* the fetch raises a type listed in autoretry_for
     "crash",      \* the worker process is lost
     "timeout",    \* the hard time limit kills the run
     "lost_ack",   \* a finished message is delivered again
     "redis",      \* a call to the lock's Redis raises
     "revoke"}     \* the revoke broadcast fails

ASSUME JobsAssumption ==
    /\ Window \in [Jobs -> Windows]
    /\ Origin \in [Jobs -> Origins]
    /\ Faults \subseteq FaultKinds
    /\ Actors \subseteq {"cancel", "delete", "sweep"}
    /\ MaxRetries \in Nat
    /\ MaxLosses \in Nat

VARIABLES
    status,   \* committed status of the row; "absent" before, "deleted" after
    task_id,  \* whether the row's task_id is set
    quiet,    \* the row is past its stale cutoff: without a write for 30 minutes
              \* when processing, created an hour ago when pending
    frames,   \* whether GoesFrame rows of the job are committed
    creator,  \* the transaction that creates the job
    msg,      \* the job's message: none, queued or held by a worker
    retries,  \* retries of the message
    losses,   \* how many losses have happened
    revoked,  \* whether the workers know the task as revoked
    run,      \* where the job's run is in fetch_goes_data
    lock,     \* the idempotency key of each window
    opened,   \* history: windows that a run has entered without the key since
              \* they were last entered empty
    cancel,   \* the cancel request on each job and the task_id it has read
    deleting, \* whether a delete request has read the row
    sweep     \* the stale-job sweep and the rows it has selected

rowVars == <<status, task_id, quiet>>
brokerVars == <<msg, retries, losses, revoked>>
keyVars == <<lock, opened>>
userVars == <<cancel, deleting>>
vars == <<status, task_id, quiet, frames, creator, msg, retries, losses,
          revoked, run, lock, opened, cancel, deleting, sweep>>

Active == {"pending", "processing"}
Terminal == {"completed", "completed_partial", "failed", "cancelled"}
Statuses == Active \cup Terminal \cup {"absent", "deleted"}
RunPlaces == {"idle", "begin", "locked", "fetching", "stored", "empty",
              "failing", "failing_retry", "release", "skipped", "done"}
\* The places in which a run is inside its with_idempotency block.
Critical == {"locked", "fetching", "stored", "empty", "failing",
             "failing_retry", "release"}

Present(j) == status[j] \in Active \cup Terminal

TypeOK ==
    /\ status \in [Jobs -> Statuses]
    /\ task_id \in [Jobs -> BOOLEAN]
    /\ quiet \in [Jobs -> BOOLEAN]
    /\ frames \in [Jobs -> BOOLEAN]
    /\ creator \in [Jobs -> {"new", "inserted", "sent", "done"}]
    /\ msg \in [Jobs -> {"none", "queued", "held"}]
    /\ retries \in [Jobs -> 0..MaxRetries]
    /\ losses \in 0..MaxLosses
    /\ revoked \in [Jobs -> BOOLEAN]
    /\ run \in [Jobs -> RunPlaces]
    /\ lock \in [Windows -> BOOLEAN]
    /\ opened \in SUBSET Windows
    /\ cancel \in [Jobs -> {"none", "read", "read_task", "won_task"}]
    /\ deleting \in [Jobs -> BOOLEAN]
    /\ sweep \in [at: {"idle", "processing", "between", "pending"},
                  picked: SUBSET Jobs]

Init ==
    /\ status = [j \in Jobs |-> "absent"]
    /\ task_id = [j \in Jobs |-> FALSE]
    /\ quiet = [j \in Jobs |-> FALSE]
    /\ frames = [j \in Jobs |-> FALSE]
    /\ creator = [j \in Jobs |-> "new"]
    /\ msg = [j \in Jobs |-> "none"]
    /\ retries = [j \in Jobs |-> 0]
    /\ losses = 0
    /\ revoked = [j \in Jobs |-> FALSE]
    /\ run = [j \in Jobs |-> "idle"]
    /\ lock = [w \in Windows |-> FALSE]
    /\ opened = {}
    /\ cancel = [j \in Jobs |-> "none"]
    /\ deleting = [j \in Jobs |-> FALSE]
    /\ sweep = [at |-> "idle", picked |-> {}]

-----------------------------------------------------------------------------
(* The row and the broker. *)

\* A committed write of the status; onupdate renews updated_at.
SetStatus(j, s) ==
    /\ status' = [status EXCEPT ![j] = s]
    /\ quiet' = [quiet EXCEPT ![j] = FALSE]

\* Mutant: the update creates the row when it finds none.
UpsertJobDb(j, s) == SetStatus(j, s)

\* _update_job_db with a status: unconditional, but only if the row is there.
_update_job_db(j, s) ==
    IF Present(j) THEN SetStatus(j, s) ELSE UNCHANGED <<status, quiet>>

Go(j, place) == run' = [run EXCEPT ![j] = place]
Message(j, m) == msg' = [msg EXCEPT ![j] = m]
Creator(j, c) == creator' = [creator EXCEPT ![j] = c]

-----------------------------------------------------------------------------
(* Who creates a job. *)

\* POST /fetch and check_schedules flush the row, which nobody else sees yet,
\* and send the message before they commit.
FlushAndDispatch(j) ==
    /\ creator[j] = "new"
    /\ Origin[j] \in {"fetch", "schedule"}
    /\ Creator(j, "sent")
    /\ Message(j, "queued")
    /\ UNCHANGED <<rowVars, frames, retries, losses, revoked, run, keyVars,
                   userVars, sweep>>

\* Only POST /fetch stores the task id with the row.
CommitCreated(j) ==
    /\ creator[j] = "sent"
    /\ Creator(j, "done")
    /\ SetStatus(j, "pending")
    /\ task_id' = [task_id EXCEPT ![j] = Origin[j] = "fetch"]
    /\ UNCHANGED <<frames, brokerVars, run, keyVars, userVars, sweep>>

\* The commit fails, or a later schedule of the same pass raises: the message
\* is out and the row is gone.
Rollback(j) ==
    /\ "rollback" \in Faults
    /\ creator[j] = "sent"
    /\ Creator(j, "done")
    /\ UNCHANGED <<rowVars, frames, brokerVars, run, keyVars, userVars, sweep>>

\* POST /fetch-presets/{id}/run commits the row first and then dispatches.
InsertPreset(j) ==
    /\ creator[j] = "new"
    /\ Origin[j] = "preset"
    /\ Creator(j, "inserted")
    /\ SetStatus(j, "pending")
    /\ UNCHANGED <<task_id, frames, brokerVars, run, keyVars, userVars, sweep>>

DispatchPreset(j) ==
    /\ creator[j] = "inserted"
    /\ Creator(j, "done")
    /\ Message(j, "queued")
    /\ UNCHANGED <<rowVars, frames, retries, losses, revoked, run, keyVars,
                   userVars, sweep>>

\* The broker refuses: the first two roll the row back, the third leaves it.
DispatchRefused(j) ==
    /\ "dispatch" \in Faults
    /\ \/ creator[j] = "new" /\ Origin[j] # "preset"
       \/ creator[j] = "inserted"
    /\ Creator(j, "done")
    /\ UNCHANGED <<rowVars, frames, brokerVars, run, keyVars, userVars, sweep>>

Create(j) ==
    \/ FlushAndDispatch(j) \/ CommitCreated(j) \/ Rollback(j)
    \/ InsertPreset(j) \/ DispatchPreset(j) \/ DispatchRefused(j)

-----------------------------------------------------------------------------
(* The worker. *)

DiscardRevoked(j) ==
    /\ msg[j] = "queued" /\ run[j] = "idle"
    /\ revoked[j]
    /\ Message(j, "none")
    /\ UNCHANGED <<rowVars, frames, creator, retries, losses, revoked, run,
                   keyVars, userVars, sweep>>

Deliver(j) ==
    /\ msg[j] = "queued" /\ run[j] = "idle"
    /\ ~revoked[j]
    /\ Message(j, "held")
    /\ Go(j, "begin")
    /\ UNCHANGED <<rowVars, frames, creator, retries, losses, revoked, keyVars,
                   userVars, sweep>>

\* The run enters its block, holding the key or (redis error) not.
Enter(j, windows) ==
    /\ run[j] = "begin"
    /\ opened' = windows
    /\ Go(j, "locked")
    /\ UNCHANGED <<rowVars, frames, creator, brokerVars, userVars, sweep>>

\* The windows still overlapped by a run without the key, if the one of j is
\* entered now.
StillOpen(j) ==
    IF \E i \in Jobs : run[i] \in Critical /\ Window[i] = Window[j]
      THEN opened ELSE opened \ {Window[j]}

\* Mutant: the key is taken without looking whether it is held.
AcquireBlindly(j) ==
    /\ lock' = [lock EXCEPT ![Window[j]] = TRUE]
    /\ Enter(j, StillOpen(j))

AcquireLock(j) ==
    /\ ~lock[Window[j]]
    /\ lock' = [lock EXCEPT ![Window[j]] = TRUE]
    /\ Enter(j, StillOpen(j))

\* SET raises: the run proceeds as if it had the key (with_idempotency fails
\* open).  The SET may have been carried out all the same.
ProceedWithoutKey(j) ==
    /\ "redis" \in Faults
    /\ lock' \in {lock, [lock EXCEPT ![Window[j]] = TRUE]}
    /\ Enter(j, opened \cup {Window[j]})

\* The window is locked: the job is reported as completed.
Deduplicate(j) ==
    /\ run[j] = "begin"
    /\ lock[Window[j]]
    /\ _update_job_db(j, "completed")
    /\ Go(j, "skipped")
    /\ UNCHANGED <<task_id, frames, creator, brokerVars, keyVars, userVars, sweep>>

MarkProcessing(j) ==
    /\ run[j] = "locked"
    /\ _update_job_db(j, "processing")
    /\ task_id' = [task_id EXCEPT ![j] = @ \/ Present(j)]
    /\ Go(j, "fetching")
    /\ UNCHANGED <<frames, creator, brokerVars, keyVars, userVars, sweep>>

\* on_progress writes progress and message, never the status.  It renews
\* updated_at, which does not count for a pending row.
ReportProgress(j) ==
    /\ run[j] = "fetching"
    /\ status[j] = "processing" /\ quiet[j]
    /\ quiet' = [quiet EXCEPT ![j] = FALSE]
    /\ UNCHANGED <<status, task_id, frames, creator, brokerVars, run, keyVars,
                   userVars, sweep>>

\* _create_fetch_records: one commit for all frames.  Its foreign key to the
\* job needs a row that is committed and not deleted.
StoreFrames(j) ==
    /\ run[j] = "fetching"
    /\ Present(j)
    /\ frames' = [frames EXCEPT ![j] = TRUE]
    /\ Go(j, "stored")
    /\ UNCHANGED <<rowVars, creator, brokerVars, keyVars, userVars, sweep>>

\* No frame is available, or every download failed.
NothingFetched(j) ==
    /\ run[j] = "fetching"
    /\ Go(j, "empty")
    /\ UNCHANGED <<rowVars, frames, creator, brokerVars, keyVars, userVars, sweep>>

FetchRaises(j) ==
    /\ run[j] = "fetching"
    /\ \/ (~Present(j) \/ "error" \in Faults) /\ Go(j, "failing")
       \/ "retryable" \in Faults /\ Go(j, "failing_retry")
    /\ UNCHANGED <<rowVars, frames, creator, brokerVars, keyVars, userVars, sweep>>

\* The last update of a run that did not raise (_build_status_message).
FinalUpdate(j) ==
    /\ \/ /\ run[j] = "stored"
          /\ \E s \in {"completed", "completed_partial"} : _update_job_db(j, s)
       \/ run[j] = "empty" /\ _update_job_db(j, "failed")
    /\ Go(j, "release")
    /\ UNCHANGED <<task_id, frames, creator, brokerVars, keyVars, userVars, sweep>>

\* The key is deleted by its name, whoever has set it.  A DELETE that raises is
\* only logged and leaves the key to expire.
ReleaseLock(j) ==
    /\ run[j] = "release"
    /\ \/ lock' = [lock EXCEPT ![Window[j]] = FALSE]
       \/ "redis" \in Faults /\ UNCHANGED lock
    /\ Go(j, "done")
    /\ UNCHANGED <<rowVars, frames, creator, brokerVars, opened, userVars, sweep>>

\* task_acks_late: the message is acknowledged when the task has returned.
Acknowledge(j) ==
    /\ run[j] \in {"done", "skipped"}
    /\ Go(j, "idle")
    /\ \/ Message(j, "none") /\ UNCHANGED losses
       \/ /\ "lost_ack" \in Faults /\ losses < MaxLosses
          /\ losses' = losses + 1
          /\ Message(j, "queued")
    /\ UNCHANGED <<rowVars, frames, creator, retries, revoked, keyVars, userVars,
                   sweep>>

\* Mutant: one retry too many.
HandleFailureExtraRetry(j) ==
    /\ run[j] \in {"failing", "failing_retry"}
    /\ _update_job_db(j, "failed")
    /\ Go(j, "idle")
    /\ IF run[j] = "failing_retry" /\ retries[j] <= MaxRetries
         THEN /\ Message(j, "queued")
              /\ retries' = [retries EXCEPT ![j] = @ + 1]
         ELSE Message(j, "none") /\ UNCHANGED retries
    /\ UNCHANGED <<task_id, frames, creator, losses, revoked, keyVars, userVars,
                   sweep>>

\* _handle_fetch_failure, then the exception leaves the task: the lock stays,
\* and Celery queues a retry for the types of autoretry_for.
HandleFailure(j) ==
    /\ run[j] \in {"failing", "failing_retry"}
    /\ _update_job_db(j, "failed")
    /\ Go(j, "idle")
    /\ IF run[j] = "failing_retry" /\ retries[j] < MaxRetries
         THEN /\ Message(j, "queued")
              /\ retries' = [retries EXCEPT ![j] = @ + 1]
         ELSE Message(j, "none") /\ UNCHANGED retries
    /\ UNCHANGED <<task_id, frames, creator, losses, revoked, keyVars, userVars,
                   sweep>>

\* The run ends where it is, with the lock as it is.
Stop(j, m) ==
    /\ Go(j, "idle")
    /\ Message(j, m)
    /\ UNCHANGED <<rowVars, frames, creator, retries, revoked, keyVars, userVars,
                   sweep>>

\* task_reject_on_worker_lost: the message of a lost worker is requeued.
Crash(j) ==
    /\ "crash" \in Faults
    /\ run[j] # "idle"
    /\ losses < MaxLosses
    /\ losses' = losses + 1
    /\ Stop(j, "queued")

\* The hard time limit; the message counts as acknowledged.
HardTimeout(j) ==
    /\ "timeout" \in Faults
    /\ run[j] \in Critical
    /\ Stop(j, "none")
    /\ UNCHANGED losses

\* SIGTERM from revoke(terminate=True) reaches the worker.
Terminate(j) ==
    /\ revoked[j]
    /\ run[j] # "idle"
    /\ Stop(j, "none")
    /\ UNCHANGED losses

\* A key that no run stands behind expires.  In an opened window it may be
\* another run's key that a run stands beside.
LockExpires(w) ==
    /\ lock[w]
    /\ w \in opened \/ \A j \in Jobs : Window[j] = w => run[j] \notin Critical
    /\ lock' = [lock EXCEPT ![w] = FALSE]
    /\ UNCHANGED <<rowVars, frames, creator, brokerVars, run, opened, userVars,
                   sweep>>

Work(j) ==
    \/ DiscardRevoked(j) \/ Deliver(j) \/ AcquireLock(j)
    \/ ProceedWithoutKey(j) \/ Deduplicate(j)
    \/ MarkProcessing(j) \/ StoreFrames(j) \/ NothingFetched(j)
    \/ FetchRaises(j) \/ FinalUpdate(j) \/ ReleaseLock(j) \/ Acknowledge(j)
    \/ HandleFailure(j) \/ Terminate(j)

Mishap(j) == Crash(j) \/ HardTimeout(j)

-----------------------------------------------------------------------------
(* Users. *)

\* cancel_job reads the row and refuses one that is not active.
CancelRead(j) ==
    /\ "cancel" \in Actors
    /\ cancel[j] = "none"
    /\ status[j] \in Active
    /\ cancel' = [cancel EXCEPT ![j] = IF task_id[j] THEN "read_task" ELSE "read"]
    /\ UNCHANGED <<rowVars, frames, creator, brokerVars, run, keyVars, deleting,
                   sweep>>

\* Mutant: the status read before is trusted, the UPDATE has no status guard.
CancelUnguarded(j) ==
    /\ cancel[j] \in {"read", "read_task"}
    /\ SetStatus(j, "cancelled")
    /\ cancel' = [cancel EXCEPT ![j] = IF @ = "read_task" THEN "won_task" ELSE "none"]
    /\ UNCHANGED <<task_id, frames, creator, brokerVars, run, keyVars, deleting,
                   sweep>>

\* UPDATE .. WHERE status IN (pending, processing); 404 or 409 if it hits no
\* row.  Without a task id there is nothing to revoke.
CancelUpdate(j) ==
    /\ cancel[j] \in {"read", "read_task"}
    /\ IF status[j] \in Active
         THEN /\ SetStatus(j, "cancelled")
              /\ cancel' = [cancel EXCEPT ![j] =
                              IF @ = "read_task" THEN "won_task" ELSE "none"]
         ELSE /\ cancel' = [cancel EXCEPT ![j] = "none"]
              /\ UNCHANGED <<status, quiet>>
    /\ UNCHANGED <<task_id, frames, creator, brokerVars, run, keyVars, deleting,
                   sweep>>

\* revoke(task_id, terminate=True), or the broker error that is only logged.
Revoke(j) ==
    \/ revoked' = [revoked EXCEPT ![j] = TRUE]
    \/ "revoke" \in Faults /\ UNCHANGED revoked

CancelRevoke(j) ==
    /\ cancel[j] = "won_task"
    /\ Revoke(j)
    /\ cancel' = [cancel EXCEPT ![j] = "none"]
    /\ UNCHANGED <<rowVars, frames, creator, msg, retries, losses, run, keyVars,
                   deleting, sweep>>

\* delete_job and bulk_delete_jobs read the row and revoke its task.
DeleteRead(j) ==
    /\ "delete" \in Actors
    /\ Present(j) /\ ~deleting[j]
    /\ deleting' = [deleting EXCEPT ![j] = TRUE]
    /\ IF task_id[j] /\ status[j] \in Active THEN Revoke(j) ELSE UNCHANGED revoked
    /\ UNCHANGED <<rowVars, frames, creator, msg, retries, losses, run, keyVars,
                   cancel, sweep>>

\* The row goes, with its frames if delete_files is asked for.  Deleting a row
\* that is already gone is no error.
DeleteCommit(j) ==
    /\ deleting[j]
    /\ deleting' = [deleting EXCEPT ![j] = FALSE]
    /\ SetStatus(j, "deleted")
    /\ \E keep \in BOOLEAN : frames' = [frames EXCEPT ![j] = @ /\ keep]
    /\ UNCHANGED <<task_id, creator, brokerVars, run, keyVars, cancel, sweep>>

UserStep(j) == CancelUpdate(j) \/ CancelRevoke(j) \/ DeleteCommit(j)

-----------------------------------------------------------------------------
(* The stale-job sweep: two passes, each SELECT, UPDATE by id, commit. *)

\* Time passes without a write to the row.
BecomeQuiet(j) ==
    /\ "sweep" \in Actors
    /\ status[j] \in Active
    /\ ~quiet[j]
    /\ quiet' = [quiet EXCEPT ![j] = TRUE]
    /\ UNCHANGED <<status, task_id, frames, creator, brokerVars, run, keyVars,
                   userVars, sweep>>

\* Mutant: only pending jobs that have a task are swept.
stalePendingSwapped == {j \in Jobs : status[j] = "pending" /\ quiet[j] /\ task_id[j]}

staleProcessing == {j \in Jobs : status[j] = "processing" /\ quiet[j]}
stalePending == {j \in Jobs : status[j] = "pending" /\ quiet[j] /\ ~task_id[j]}

\* A pass that finds nothing commits nothing.
Select(jobs, at, otherwise) ==
    /\ sweep' = IF jobs = {} THEN [at |-> otherwise, picked |-> {}]
                             ELSE [at |-> at, picked |-> jobs]
    /\ UNCHANGED <<rowVars, frames, creator, brokerVars, run, keyVars, userVars>>

SelectProcessing ==
    /\ "sweep" \in Actors
    /\ sweep.at = "idle"
    /\ Select(staleProcessing, "processing", "between")

SelectPending ==
    /\ sweep.at = "between"
    /\ Select(stalePending, "pending", "idle")

\* The flush updates every selected row by id, whatever its status is by now;
\* if one is gone it raises StaleDataError, nothing is committed and the rest
\* of the sweep is skipped.
FailPicked ==
    IF \A j \in sweep.picked : Present(j)
      THEN /\ status' = [j \in Jobs |->
                          IF j \in sweep.picked THEN "failed" ELSE status[j]]
           /\ quiet' = [j \in Jobs |-> quiet[j] /\ j \notin sweep.picked]
           /\ sweep' = [at |-> IF sweep.at = "processing" THEN "between" ELSE "idle",
                        picked |-> {}]
      ELSE /\ sweep' = [at |-> "idle", picked |-> {}]
           /\ UNCHANGED <<status, quiet>>

SweepCommit ==
    /\ sweep.at \in {"processing", "pending"}
    /\ FailPicked
    /\ UNCHANGED <<task_id, frames, creator, brokerVars, run, keyVars, userVars>>

Sweep == SelectProcessing \/ SelectPending \/ SweepCommit

-----------------------------------------------------------------------------

Next ==
    \/ \E j \in Jobs : \/ Create(j) \/ Work(j) \/ Mishap(j)
                       \/ CancelRead(j) \/ DeleteRead(j) \/ UserStep(j)
                       \/ ReportProgress(j) \/ BecomeQuiet(j)
    \/ \E w \in Windows : LockExpires(w)
    \/ Sweep

Spec == Init /\ [][Next]_vars

\* A request that has begun ends; Celery delivers, and a run ends (by itself or
\* by its time limits); time passes; the sweep runs every five minutes.  A
\* mishap, a user request and the expiry of a lock are never owed.
FairSpec ==
    /\ Spec
    /\ WF_vars(Sweep)
    /\ \A j \in Jobs :
        /\ WF_vars(Create(j)) /\ WF_vars(Work(j)) /\ WF_vars(UserStep(j))
        /\ WF_vars(BecomeQuiet(j))

-----------------------------------------------------------------------------
(* Properties. *)

\* One fetch per window at a time, as long as the lock is there: two runs of
\* jobs for the same satellite, sector, band and time range are both inside
\* with_idempotency only while a run overlaps that Redis let in without the
\* key, or one that this run's DELETE let in after it.  As soon as the window
\* has been empty the lock excludes again, through failures, crashes,
\* redeliveries, terminations, failed DELETEs and expiring keys.
FetchExclusive ==
    \A i, j \in Jobs :
        /\ run[i] \in Critical /\ run[j] \in Critical
        /\ Window[i] = Window[j] /\ Window[j] \notin opened
        => i = j

\* A cancel wins only over a job that is active at the moment of its UPDATE,
\* even when the job finished, failed or was deleted after the request read it
\* (the guarded UPDATE of cancel_job).
CancelsOnlyActive ==
    [][\A j \in Jobs : status[j] # "cancelled" /\ status'[j] = "cancelled"
                         => status[j] \in Active]_vars

\* A deleted job does not come back, whoever still works for it: the worker's
\* updates, the cancel request and a sweep that has read the row all find
\* nothing to write.
DeletedStaysDeleted ==
    [][\A j \in Jobs : status[j] = "deleted" => status'[j] = "deleted"]_vars

\* Every job settles: from some time on it is neither pending nor processing,
\* whatever was lost on the way (the run's own last update, or the sweep).
EventuallySettled == \A j \in Jobs : <>[](status[j] \notin Active)
=============================================================================
