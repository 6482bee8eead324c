# Verification of the satellite processor

TLA+ modules, TLC instances and TLAPS proofs about the satellite processor: a FastAPI
service that fetches GOES and Himawari imagery from public S3 buckets, stores the frames
and renders composites, animations and videos in Celery workers, and a React front end
that shows, schedules and manages them. The modules are translated from the code. `app/`
stands for `backend/app/`, `fe/` for `frontend/src/`.

## 1. The system

### The back end

| Part | Code | State | Operations |
|---|---|---|---|
| S3 circuit breaker | `app/circuit_breaker.py`, `_retry_s3_operation` in `app/services/goes_fetcher.py` | one breaker per process: state, failure count, time of the last failure, half-open calls | ask, take a half-open slot, record success or failure, retry |
| Task lock | `with_idempotency` in `app/tasks/helpers.py` | a Redis key per fetch window, with a life | SET NX EX, DELETE, expiry; fails open |
| Job lifecycle | `app/routers/jobs.py`, `goes_fetch.py`, `scheduling.py`, `app/tasks/fetch_task.py`, `scheduling_tasks.py`, `app/services/stale_jobs.py`, `app/celery_app.py` | a row in `jobs`, a Celery message, the worker's run, the window's lock | create, dispatch, run, retry, cancel, delete, sweep |
| Request idempotency | `app/idempotency.py` | a cached response per key | look up, store once |
| Cache-aside | `app/services/cache.py` | cached query results | get or compute, invalidate by pattern |
| Job events | `_publish_progress`, `app/main.py` | pub/sub channels, sockets, connections per address | publish, subscribe, forward |
| Schedules, retention, frame store | `check_schedules`, `run_cleanup`, `goes_frames.py`, `goes_collections.py`, `share.py` | due times, rules, frame rows, files, share links | launch, store, collect, share, delete, clean up |
| Processing, animations, composites | `app/tasks/processing.py`, `animation_tasks.py`, `composite_task.py` | an artefact row and a job row, directories | stage, render, finalise, retry |
| Himawari fetch, gap detection | `himawari_fetch_task.py`, `gap_detector.py` | segments of a scan; frame rows | download, assemble; find and fill gaps |
| Processing core | `satellite_processor/core` | processing and cancelled flags, worker pool | run stages, cancel |

A request handler or the beat task `check_schedules` writes a `jobs` row and sends a
Celery message; the broker is Redis with late acknowledgement, so a message outlives a lost
worker. The worker takes the window's key in Redis, calls S3 through the breaker, commits
frame rows that refer to the job by a foreign key, and writes the job's status with
unconditional updates. Three others write the same row: `cancel_job` (a guarded UPDATE),
the deletions, and `_stale_job_checker` in the API process (select, then update by id).
Nothing spans two of these stores in one transaction.

### The front end

Pages keep three kinds of state: their own, caches of queries they share
(`@tanstack/react-query`), and what outlives them (`localStorage`, the server). They send
requests whose answers come in any order or not at all, and read lists at intervals that
stop while `/ws/status` is connected.

| Part | Code under `fe/` | What is hard |
|---|---|---|
| Calls, monitor of a job, log, lists of jobs, bell, sockets | `utils/mutationResilience.ts`, `hooks/`, `components/Jobs/`, `components/ConnectionStatus.tsx`, `NotificationBell.tsx` | retries and late answers, sockets and timers that outlive their listeners, two sources for one status |
| Layout, settings, errors | `components/Layout.tsx`, `pages/Settings.tsx`, `utils/errorReporter.ts`, `pages/ErrorDashboard.tsx` | reloads, other windows, forms over data that is read again |
| Live view | `components/GoesData/LiveTab/`, `hooks/useLiveFetchJob.ts`, `CdnImage.tsx` | effects that repair one another's state, answers for an earlier choice, timers and gestures |
| Library | `components/GoesData/Browse*`, `FrameGallery.tsx`, viewers, `hooks/useImageZoom.ts`, `MapTab.tsx`, `components/Upload/` | deletions and next pages that overlap, viewers over a list that changes, geometry |
| Data pages | `CleanupTab`, `PresetsTab`, `GapsTab`, `CompositesTab`, `CollectionsTab`, `FetchTab/` | forms that are edited while they are sent, stale lists, several requests for one deed |
| Animation | `components/Animation/` | answers of another shape than expected, lists over overlapping changes |

### What makes each part correct

* Breaker: a closed breaker is below its threshold; an open one is reopened only through a
  test call; a half-open one always has that test call in flight; it recovers when S3 does.
* Lock: it excludes, although anyone may delete it; it covers the run; it is never for good.
* Jobs: one fetch per window; a cancel takes only active jobs; the deleted stay deleted;
  every job settles.
* Pages: what they ask for can be served; what they report is so; what was lost, missed or
  overtaken is made good; what has ended stays ended; what waits comes back.
* Not modelled yet: one response per idempotency key at the server (its store is a part of
  `ResilientMutation`); no value computed before an
  invalidation is cached after it; every row has its file; an artefact and its job agree.

`PROJECT.json` lists the forty gravest hazards at their lines, each with the properties that
cover it or a note why none does; section 6 has the others.

## 2. Modules

### Back end

`CircuitBreaker`: `state` and `half_open_calls` are the fields of the class.
`failure_count` is cut at the threshold, since the code only compares it with that. `cooled`
says that `recovery_timeout` has passed since the last failure. Per thread, `pc` and
`attempt` are the place and attempt in `_retry_s3_operation`; `s3up` is the environment.
`Ask` is the first lock region of `allow_request` (the `state` property, with its move to
HALF_OPEN), `TakeSlot` and `NoSlot` the second; `Succeed`, `RetryLater`, `Fail` and
`Unlisted` are how one attempt ends: with a value, with an exception that is retried, with
one that is recorded and raised, with one that no `except` clause lists. `lost` remembers
whether the last ever happened: the properties that need every outcome recorded say so.

`TaskLock` and the abstract `TaskMutex`: `ttl` is what is left of the key (0: there is
none); per delivery, `pc` is the place in the context manager, `age` the time since it
asked. Each Redis call is one action: `Acquire`, `Skip`, `FailOpen`, `Release`,
`ReleaseFails`; `BodyReturns` and `Raise` are the ways out of the caller's block. `Tick`
lets time pass: the key gets older and a run that reaches `task_time_limit` is killed. The
code has both limits at 3600 s; a run's hard limit starts with the task, before the SET, so
the run is killed no later than its key expires, and the model keeps that order at equality.
`opened` remembers that the helper has failed open once; until then the deliveries in their
block or about to delete the key (`holders`) refine `TaskMutex`'s `inside`.

`JobLifecycle`:

| Variable | Stands for |
|---|---|
| `status`, `task_id`, `quiet` | the committed row: status ("absent" before the commit, "deleted" after), whether `task_id` is set, whether it is past its stale cutoff |
| `frames` | frame rows of the job are committed |
| `creator` | the creating transaction: new, inserted (preset), sent, done |
| `msg`, `retries`, `losses`, `revoked` | the Celery message and what the workers know of it |
| `run` | the place in `fetch_goes_data` |
| `lock` | the key of each window |
| `cancel`, `deleting`, `sweep` | what those requests and the sweep have read and not yet written |

A step is one commit, one broker call or one Redis call. `Origin` says who creates a job:
`FlushAndDispatch`, `CommitCreated`, `Rollback` for the request and the beat task (they
differ in who stores the task id), `InsertPreset`, `DispatchPreset` for the preset endpoint,
`DispatchRefused` for a broker that is away. The worker's steps follow the task from
`Deliver` to `Acknowledge` or `HandleFailure`; `Deduplicate` is the branch for a locked
window. `Faults` and `Actors` choose what may go wrong and who is there. `_update_job_db` is
the unguarded write that does nothing when the row is missing; `StoreFrames` needs the row
(foreign key); `FailPicked` writes all selected rows or, if one is gone, none. `LockExpires`
takes no key of a run inside its block, which is what `TaskLock_proofs!KeyCoversRun` proves
of the lock. A worker that has its message may still meet a Redis error: `ProceedWithoutKey`
is the SET that raises and lets the run in without the key, and `ReleaseLock` may leave the
key behind. `opened` remembers the windows this happened to until they are entered empty.

### Front end

`Requests` is what the pages share: a request is sent, served (or refused), and answered,
three steps apart and in any order among requests; the page may be left in between. Server
actions that the pages meet are mapped to the routes they stand for. `Satellites` has the
sectors of satellites (`utils/sectorHelpers.ts`).

| Module | Models |
|---|---|
| `ResilientMutation` | the in-flight tracker, breaker, retries and idempotency keys of every mutation; attempts that were given up are served all the same, and `create_job` is the three steps it takes: `LookUp`, `CommitJob`, `StoreAnswer` |
| `JobMonitor`, `JobLog` | the page of a job: its socket with reconnections, its query, its buttons, and the writers of its status that publish it (`JobRuns`) or do not (`StatusWritten`); the oldest lines, which are read, and the lines pushed |
| `JobFeed` | the lists of jobs, the bar, the toasts, the bell: caches, intervals, deletions, jobs that are made, run, end and are run again; a list is the newest of the jobs (`Newest`), as the server reads them |
| `StatusSocket` | the store of `/ws/status`: listeners, sockets and timers, the forgotten ones included |
| `SettingsPage`, `AppShell`, `ErrorReports` | the form over settings other windows change; theme, news, drawer, keys, routes over reloads; batches, toasts and the dashboard of errors |
| `AnimationStudio`, `AnimationShelf` | the animation page and what it keeps on the server |
| `LiveSelection`, `LiveFetchJob` | satellite, sector and band with the effects that repair them, monitor presets with the sectors they name; the jobs the live view makes, follows and lets go |
| `LiveImage`, `LiveControls`, `LiveCompare` | the picture and the remembered one; overlay, taps, pulling, full screen, hints; the two frames compared |
| `AutoFetchSchedule` | the schedule the live view makes in two posts, over presets that are deleted and renamed |
| `FrameBrowser`, `FrameViewers` | the list read page by page, one request for each page, while frames are deleted and come; a read in flight is replaced when the list has data and joined when it has none; gallery, viewer, comparison, crop rectangle, player, frames on the map |
| `ImageZoom`, `ImageShelf` | zooming and panning; uploads and their rows |
| `CleanupRules`, `FetchPresets`, `GapBackfill`, `CompositeMaker`, `CollectionManager`, `FetchWizard` | the pages about data |

An action is one event handler, effect, timer, callback or answer with everything it
changes; a render is what is computed from the state. Mutated operators used to test the
properties stand beside the operators they mutate, marked "Mutant".

### Instances

`CircuitBreaker` and `TaskLock` are instances by their `.cfg` files, which list small sets;
`MCJobLifecycle` gives its constants values by definitions. The front end's components are
composed into five instances. Each of them has a variable `focus` that
never changes: a behaviour uses the component it names and the others stand still, in one
initial state. Two components that are large have two such uses with bounds of their own:
`MCLive` chooses (`select`) over all views without fetching and fetches (`fetch`) over the
views of `FetchViews`, and `MCShell` uses the lists of jobs from the other pages (`lists`,
where the statuses change most) and on their own (`page`, with `PageWork` statuses and no
socket). The components of an instance share the page's requests and nothing else
(in `MCLive`: not even these), so interleaving them would multiply states without adding a
behaviour of any of them. The parts of a property that is a conjunction are stated and
commented in the component's module.

## 3. Runs

Every run explores its whole state space; nothing is cut off but by the named bounds.

| Run | Instance | Properties |
|---|---|---|
| `breaker` | 3 threads, threshold 3, 1 slot, 3 attempts, all exceptions, S3 up and down, fairness | `TypeOK`, `ClosedBelowThreshold`, `ProbeInFlight`, `RecoveryIsTested`, `Recovers` |
| `breaker_wedged` | 2 threads, all exceptions, fairness | **violated**: `HealsWithS3` |
| `lock` | 3 deliveries, key life = time limit = 5, Redis up and down, fairness | `TypeOK`, `KeyOutlivesRun`, refinement `MutexSpec`, `LockIsTemporary` |
| `jobs` | 2 jobs (request and schedule) for one window, failing, retried and lost runs, Redis errors at the lock, a canceller | `TypeOK`, `FetchExclusive`, `CancelsOnlyActive` |
| `jobs_settle` | a preset job and a scheduled job, losses of workers, messages and transactions, deletions and the sweep, fairness | `DeletedStaysDeleted`, `EventuallySettled` |
| `jobs_stuck` | 1 requested job, no fault at all, sweep, fairness | **violated**: `EventuallySettled` |
| `data_pages` | six pages, 2 requests each | `DataPagesTypeOK`, `RequestsServable`, `ReportsAreTrue`, `LateAnswersDoNoHarm`, `ReloadRestoresWork`, `PagesComeBack` |
| `library` | browsing, viewing, zooming, playing, uploads, map, presets and animations, schedule | `LibraryTypeOK`, `ListIsFirstPages`, `NoFrameSkipped`, `PictureFits`, `PageAsStored`, `PlaybackEnds` |
| `live` | the view with its job, the controls, the comparison of two views | `LiveTypeOK`, `GoesBandServable`, `FollowsTheRightJob`, `ControlsAreTrue`, `ComparisonIsOfThisView` |
| `pages` | calls, monitor, settings, layout, errors, animation page, live picture | `CallsCountOnce`, `NoSocketAfterEnd`, `NewsOncePerVersion`, `ShownIsTrue`, `PagesCatchUp` |
| `pages_preview` | the same | **violated**: `PreviewIsDrawn` |
| `shell` | status socket, lists of jobs, bell, log | `StatusIsTrue`, `NoLineMissing`, `NothingUndone`, `ShellSettles` |

The violated ones state what the repository says of itself; the counterexamples:

* `breaker_wedged`: a test call ends in an exception that `_retry_s3_operation` does not list
  (the soft time limit, for one). No outcome is recorded, the slot stays taken, HALF_OPEN has
  no time-out, and every call is rejected from then on although S3 answers.
* `jobs_stuck`: the worker is done before `POST /fetch` commits. Its updates find no row; the
  commit then writes `pending` with a task id, and the pending sweep wants rows without one.
* `pages_preview`: `FrameRangePreview` reads the length of `data.frames`, which the answer of
  the server does not have; the error boundary replaces the animation page.

**Bounds.** `max_retries` of the breaker's callers and `MaxRetries` of task and page are the
code's own limits, scaled down. Three threads are what the breaker's races take: one late
success, one late failure and one caller that has read a state. `MaxLosses` bounds how often
a worker, a message, an acknowledgement or a socket is lost. Two jobs are enough for
exclusion, which is about pairs; `jobs_settle` takes no retries, which `jobs` has. Five ticks
of key life let a run be young, old and killed with another key taken in between. Two
requests are what overlap takes, and each page's hazards are about pairs of requests; what
shares the other constants of a page (rules, presets, composites, collections, frames, files)
comes in twos or threes, so that one can be deleted or overtaken while another is shown. Page
sizes and the limits of lists are one or two where the code has 10 to 500, and there is always
one row more than the limit: three composites over a list of two (`CompositePage`), two jobs
over lists of one (`ListLimit`, `BarLimit`), four lines over a log of two (`LogLimit`), a
frame that comes after the list was read (`FrameCount`). Three written statuses (`MaxWork`)
let a job end, run again and end again; two (`MaxWrites`) let its monitor be told one and miss
the next; two fetches (`MaxPosts`) let the live view make one while it follows another. The
idempotency store needs two attempts of one call and another call. Scales are in halves up to 3, and the
container is two pictures wide or two high. Comparison: two views, three scans, one failed
reading.

**Deadlock** is not checked in `jobs` and `jobs_stuck` (without or after the sweep, settled
and acknowledged jobs leave nothing to do) nor in `data_pages`, `library`, `live`, `pages` and
`pages_preview` (a bounded session of requests, scans and errors ends). The others check it.

**Fairness.** Breaker: callers keep coming (the beat schedule and polling pages), an S3 call
returns (it has read and connect time-outs), the clock runs. Lock: time passes. Jobs: a
request that began ends, Celery delivers, a run ends by itself or by its limits, a request
that has read goes on to write, time passes, and the sweep loop of `app/main.py` runs every
five minutes. Front end: intervals and timers fire, effects run, requests are answered or
fail, the browser calls back. Lists of jobs and errors need strong fairness for the interval
and its answer, because leaving and invalidating disable them now and then; the comparison
does with weak fairness, as its readings fail a bounded number of times. Users, faults,
expiring keys and the server's recovery are never owed: where recovery matters it is the
premise of the property (`Recovers`, `ShownWhenReachable`, `GivesUp`, `ListsCatchUp`).

## 4. Proofs

All for every value of the constants that the modules' `ASSUME`s allow, and without any
hypothesis on the environment: the history variables `lost` and `opened` say in the
properties themselves from when on they are off.

| Theorem | Argument |
|---|---|
| `CircuitBreaker_proofs!TypeCorrect` | inductive as it stands; the bound on the half-open calls survives the gap in `allow_request` because the second region tests it again under the lock |
| `BelowThreshold` | with the type invariant: a success sets the count to 0, only a failure that finds it below the threshold leaves the breaker closed |
| `ProbeIsInFlight` | the property speaks of the last slot and is not inductive; the invariant speaks of the first: as long as nothing was lost, as soon as any slot is taken some thread is calling, kept because whoever stops calling records its outcome and thereby leaves HALF_OPEN |
| `TestedRecovery` | an action property: the only step into CLOSED starts in HALF_OPEN |
| `TaskLock_proofs!TypeCorrect` | inductive as it stands |
| `KeyCoversRun`, `MutualExclusion` | inductive invariant: types and, until the lock first fails open, at most one delivery in the block whose age and the key's remaining life cover the whole life. The last part says that the key of a running delivery has not expired, hence nobody else gets SET NX, hence nobody but the holder deletes the key |
| `ImplementsMutex` | initial states map to initial states; `Acquire` maps to entering, the ends of the body to leaving, a `Tick` or a `FailOpen` to leaving or a stutter, all others to a stutter; entering needs the invariant |
| `JobLifecycle_proofs!TypeCorrect` | inductive; the retry bound needs the test in `HandleFailure` |
| `OneFetchPerWindow` | inductive invariant `IInv`: types and, in every window not `opened`, every run inside its block has the window's key set (`KeyHeld`), and exclusion. Exclusion alone is not inductive: a second run could enter a window whose holder's key is gone. A window is closed again by the first run that enters it empty, whatever key was left behind |
| `CancelIsGuarded`, `DeletedIsFinal` | action properties, one lemma per writer of `status` |
| `MCShell_proofs!StatusCorrect` | `LinkInv`: "connected" is about the newest of any number of sockets, and what "reconnecting" waits for (the socket or a timer) exists as long as anything listens or tries; closes of replaced sockets are what it must survive |
| `MCShell_proofs!LogCorrect` | `LogInv`: what was written is what the page has, then what travels to it, in order; a line the read page overlaps with is in both, and what was read are the oldest lines up to the limit |
| `MCShell_proofs!EndsCorrect` | `FeedInv` and `BellInv`: lists in flight and cached hold nothing that was deleted before they were read; as for the toasts, an end that the shown or the coming list does not know of yet (`Due`) has been counted and not announced, which a second end of the same job does not disturb; then two action properties. The proof is of `FeedNext`, not of its bounds |
| `MCPages_proofs!CallsCorrect` | `CallsInv`: an answer is stored under the key of its call, the same for each attempt, so that a handler that looks for it finds it however late it comes; a breaker is closed exactly below its threshold |
| `MCPages_proofs!SocketCorrect` | `SocketInv`: the timer runs only without a socket |
| `MCPages_proofs!NewsCorrect` | `NewsInv`: what the load was told is of the minor version last seen, versions grow, and a version whose news opened is not above the one last seen. Closing the dialog stores an older patch, hence minors and not versions |
| `MCPages_proofs!ShownCorrect` | `SettingsInv`: a form equals its key where it is untouched, and with `ReqsTypeOK` a request of a new number is one of this step; `StudioInv`: only the first of the list gives way to the default; `ImageInv` |
| `MCLibrary_proofs!LibraryTyped` | with the other invariants; the places of a picture stay in reach because whatever a gesture asks for is confined (`Clamped`, `Confined`) |
| `ListCorrect` | `BrowserInv`: a stale list that is shown is being fetched, and unless a deletion is carried out that the page has not heard of, three things are first pages of what the server has: what was read so far, what a page is being added to, what passes for fresh. The property speaks of the third alone; the answers in flight are what makes it inductive. `astray`, a history variable of the lists, names the four ways out: a page asked for during a refetch, a first read that a deletion met and joined, a deletion whose answer was lost, a frame that came since |
| `StepsCorrect` | an action property from `ViewersInv`: the list is the newest first, without a frame twice, and the viewer's position is looked up in the list as it is at the step |
| `PictureCorrect` | from the types alone, by arithmetic over halves: what is drawn is confined anew to the container of now, at the scale it is drawn at (`ZoomFits`) |
| `StoredCorrect` | `ShelfInv`: running batches are runs of files that do not meet, each at its own row or in a slot that a later batch has taken (`taken`), and no other row is of a file of theirs; `AnimInv`: a cache that is quiet, and an answer on its way, is what is stored; `MapInv`: a cached frame is kept under the choice it is of, and the choice of now is read, failed or drawn; `ScheduleInv`: a number is asked with once, a preset's number is its ask's, and a name of a view is that of one preset at a time |
| `MCDataPages_proofs!ServableCorrect` | `PresetsInv`: forms, drafts, requests on their way and saved rows all fit, for each is copied whole from one that does; `MakerInv`: the same from form to request to row; `WizardInv`: every step of the wizard chooses a band of the satellite and, for GOES, a sector of GOES, and what is stored is such a choice |
| `ReportsCorrect` | `AlbumInv`: an addition that succeeded names a collection there is, which is never empty again; `WizardInv`: a chip's request counts its posts and succeeds only at the last |
| `LateAnswersCorrect` | `CleanupInv`: until the page is left with a request in flight, one switch is under way at a time and it is to what was asked for last, and one that succeeded stands in its rule unless that was deleted (`SwitchInv`), which the property alone does not say; `PresetsInv`: schedules of a deleted preset go with it; `GapsInv`: what was looked up stays known; `AlbumInv`: the one load of frames in flight that the page still waits for is the last that was asked for |
| `ReloadCorrect`, `DataPagesTyped` | with `WizardInv`, by which the stored form is the shown one or none, and the types in the others; a row is written over a row (`RowPut`) or after the last (`RowAdded`) |
| `MCLive_proofs!BandsCorrect` | `SelectionInv`: a GOES satellite comes with the products that list its bands, and a sector that no list has came from a preset. The four effects compute from the values of one render and overwrite each other (`Repairs`); they have run only when the last result is what was rendered, and then none of them had anything to repair |
| `AutoJobCorrect`, `LiveTyped` | `FetchInv`: a request that the auto-fetch effect made and that is not cancelled is for what is shown, since whatever changes the selection also runs the effect again, which cancels (`Depends`); the fetches asked for are counted over requests and jobs, and an answer moves one from the former to the latter (`JobMade`). The first is the half of `FollowsTheRightJob` that is no liveness |
| `ControlsCorrect` | `ControlsInv`: what is shown has its timer, only a mobile window has the overlay's, and a tap of the mobile layout that is still to come finds a desktop's controls shown. The last part is what makes it inductive: else that tap would show them there and start the overlay's timer, which then hides what no tap has hidden |
| `SidesCorrect` | `CompareInv`: what each query keeps, or has under way, for a view is of that view. The half of `ComparisonIsOfThisView` that is no liveness |

The instances of the front end are proved about as a whole: an invariant is the conjunction
of one per component, a step of the component in focus keeps its own part, and what it does
to the shared requests is bounded by `Follows` (it leaves what requests ask for and adds one
at most, of its own kinds). TLC checked `ShellInv`, `PagesInv`, `LibraryInv`, `DataPagesInv`
and `LiveInv` on the instances' runs before they were proved.

Only model-checked: the liveness properties, which rest on fairness and are out of the
prover's reach (`PagesCatchUp` and `ShellSettles` among them, and the liveness halves of
`FollowsTheRightJob` and `ComparisonIsOfThisView`), and the violations, which are
counterexamples. Every safety property of a passing run is proved.

## 5. Where the code and its own texts or parts disagree

Met while translating; not runs of their own, because the models follow the code and the
properties above are stated so that these do not break them.

| Code | What happens |
|---|---|
| `app/tasks/helpers.py:112` | a worker's status update overwrites `cancelled` |
| `app/services/stale_jobs.py:38` | a job that ended between the sweep's SELECT and UPDATE becomes `failed` |
| `app/tasks/fetch_task.py:346` | a redelivered message finds its own lost run's lock and reports a completed duplicate |
| `fe/hooks/useApi.ts:136` | a deletion that was carried out and whose answer was lost is retried and refused |
| `fe/utils/mutationResilience.ts:29` | "a retried mutation with the same key will be a no-op on the backend": look-up (`app/routers/jobs.py:191`), commit (`:205`) and store (`:231`) are apart, so an attempt that was given up and its retry may both miss and make two rows, as may a handler that fails after its commit. `NoJobAfterAnswer` is what is left |
| `fe/utils/mutationResilience.ts:190` | a half-open breaker lets every call through until one has ended, not one probe |
| `fe/components/ConnectionStatus.tsx:78` | the last listener leaves with a forgotten timer running: it opens a socket nobody closes |
| `fe/components/NotificationBell.tsx:35` | polling stops while the status socket is up, which pushes no notifications |
| `fe/components/Jobs/JobMonitor.tsx:391` | Cancel sends the deletion: the job goes with its files |
| `fe/components/Jobs/JobMonitor.tsx:373` | a cancellation (`app/routers/jobs.py:303`) and the sweeps (`app/services/stale_jobs.py:36`) publish nothing, and the page prefers what the socket said last: the older status stays until it is left. `MonitorCatchesUp` leaves this out |
| `fe/components/Jobs/JobMonitor.tsx:348` | the oldest 500 lines of a log are read; on a longer one those between them and the first that is pushed are missing |
| `fe/hooks/useApi.ts:88`, `fe/components/GoesData/FetchProgressBar.tsx:32` | lists of jobs are the newest twenty, the bar's the newest ten of any status, for the server does not look at `?status=` (`app/routers/jobs.py:238`): an older job that is active shows nowhere |
| `fe/hooks/useLiveFetchJob.ts:62` | a job that ends `completed_partial` or `cancelled`, or is deleted, is never let go of: buttons and auto-fetch wait for ever |
| `fe/components/GoesData/FetchTab/FetchTab.tsx:31` | the stored form is said to be cleared when the dialog is cancelled; Cancel (`:387`) clears nothing |
| `fe/components/GoesData/SectorPicker.tsx:33`, `FetchTab/WhatStep.tsx:73` | for Himawari the sectors of GOES are offered and sent, which the server refuses; a recipe of Himawari is said to fetch B01, B02 and B03, and the server's recipe of that name has the bands of GOES (`app/routers/goes_fetch.py:50`) |
| `fe/components/GoesData/CompositesTab.tsx:98` | the newest twenty composites are listed (`app/routers/goes_browse.py:91`) and there is no next page: the end of an older one is never shown |
| `fe/components/GoesData/FrameGallery.tsx:195` | when deletions leave fewer pages than the one looked at, the gallery stays beyond its last page, empty, and without buttons when one page is left |
| `fe/components/Jobs/JobList.tsx:84` | a filter without jobs hides the choice of the filter |
| `fe/components/MobileBottomNav.tsx:47` | drawer and sheet stay open when the browser goes back |
| `fe/components/Animation/AnimateTab/AnimateTab.tsx:97`, `:165` | Load takes `preset.config`, which no answer has; animations of a range are asked for with `start_date` where the server requires `start_time` |
| `fe/components/GoesData/BrowseTab.tsx:261` | Animate asks for a tab that the page does not have |
| `fe/components/GoesData/BandPicker.tsx:89` | a band's sample is asked for with a request the server always refuses |
| `fe/components/GoesData/monitorPresets.ts:8` | presets name sectors (`FULL`, `M1`, `Japan`, `Target`) that neither lists nor server know; `M1` is not known for a mesoscale sector and keeps GEOCOLOR, and the sector of a Himawari preset is thrown away by the reset effect when the satellite changes with it |
| `fe/components/GoesData/LiveTab/useLiveHooks.ts:92` | the arrow keys show a GOES band on a Himawari view |
| `fe/components/GoesData/LiveTab/useZoomState.ts:65` | refused full screen still sets the flag |
| `fe/hooks/useDoubleTap.ts:25`, `usePullToRefresh.ts:77`, `LiveTab/LiveImageArea.tsx:236` | a tap's timer outlives the mobile layout; a cancelled touch leaves its distance; clicks on controls are taps of the picture |
| `fe/components/Upload/UploadZone.tsx:23`, `:43` | resetting the index is said to keep it in step with the rows; a batch dropped on a running one empties the rows, and the running one writes into the slots of the later |
| `fe/components/GoesData/PresetsTab.tsx:191` | a preset of the live view may be renamed: its name is free again, and the view can be scheduled a second time |

## 6. Not modelled, why, and the plan

Left out for good: image arithmetic, NetCDF and segment decoding, file and command-line
formats, display, generated types, logging, metrics and configuration; they hold no state
the properties are about. Components that no route mounts, `OverviewTab` among them, and with it the
`fetch-prefill` event of `FetchTab.tsx:157` that nothing else dispatches. The tabs of the data page (one
address, one actor) and the socket of the monitor mode (a smaller `StatusSocket`). The S3
listing and the frame records of a fetch are one step each in `JobLifecycle`, as its
properties do not look inside them; `PATCH /jobs/{id}` (`app/routers/jobs.py:270`), which no
page calls; a container the zoom has not measured; deletions among the frames compared.

Hazards that no module covers yet:

* `app/main.py:487`, `:483`, `:442`: events published before the subscription are lost; a
  connection is counted before the `try`; the writer does not stop at `completed_partial`.
* `app/tasks/scheduling_tasks.py:209`, `:198`, `app/routers/goes_frames.py:393`: files go
  before rows are committed; frames join a collection after the protected ids were read; a
  share link's foreign key refuses rows whose files are gone.
* `app/tasks/processing.py:251`, `helpers.py:100`: attempts that will be retried remove the
  staging directory; the throttle remembers a former attempt's progress.
* `app/tasks/composite_task.py:275`, `animation_tasks.py:290`, `app/routers/animations.py:353`:
  committed then sent one by one; two transactions for one end; look-up and store apart.
* `satellite_processor/core/processor.py:293`: starting clears a cancel that came just before.
* Front end: buttons without guard (`CleanupTab.tsx:397`, `JobMonitor.tsx:398`,
  `FetchTab.tsx:226`) whose repetition acts twice; forms that a late success closes
  (`PresetsTab.tsx:78`, `AnimationPresets.tsx:61`, `CollectionsTab.tsx:93`); selections that
  survive their filter (`BrowseTab.tsx:105`).

Planned, the most important first:

1. `FrameStore`: rows, files, collections, share links, cleanup and bulk deletion. Invariants:
   rows have files except under a deletion in progress; protected frames stay.
2. `IdempotencyKey`, an implementation of an abstract write-once register, and `CacheAside`.
3. `JobEvents` with the statuses of `JobLifecycle`, and the count of connections.
4. `ProcessTask` with its staging directory, `AnimationTask` and composites with their pairs
   of rows, `Schedules`.
