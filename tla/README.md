# Verification of the Open Climate Service

This directory specifies the protocols of the Open Climate Service (OCS) in TLA+, checks them with
TLC on small instances and proves the main safety theorems with TLAPS. Paths below are relative to
`src/open_climate_service/` unless they begin with `docs/`.

## 1. The system

OCS is one Python server process over a data directory. During a restart two processes can share
that directory for a while, so state on disk is shared between processes and state in memory is
not. Work that takes long runs on pool threads as *jobs*; everything else reacts to requests, to
the end of a job, or to a clock.

| Component | State it keeps | Operations | Hard part |
|---|---|---|---|
| Native jobs (`jobs/service.py`, `jobs/store.py`) | `jobs.json`; in memory futures, retry timers, watched jobs, event consumer | create, run, retry, cancel, recover, take over, shut down | two processes over one store, a crash between any two writes, cancellation racing every step |
| Job slots (`shared/compute.py`) | one semaphore for native and openEO jobs | acquire with a stop condition, release | every way out of an attempt must give the slot back |
| Leases and index locks (`shared/persistence.py`) | lock files, dropped by the OS when a process dies | try, release | exclusivity across processes |
| openEO batch jobs (`openeo/jobs.py`) | a `jobs.json` of its own; publication intent and outcome on the record; result files | create, start (again), cancel, run, retry, recover, publish a managed dataset | a commit to another store and a job record must agree after a crash |
| Event log (`jobs/events.py`) | nothing of its own: the events on both kinds of job records | read all, read since | there is no cursor, and writes land later than their stamps |
| Workflow automation (`automation/service.py`) | activations, delivery boundaries, configuration | consume, replay, hand off, reconcile | events come more than once; the configuration changes at a restart while jobs go on |
| Pipelines (`pipelines/`) | runs, handled and skipped updates, checkpoint, mode | decide, run, hand off, approve, reconcile, edit | three threads decide on what they read without a lock |
| Export delivery (`exports/delivery.py`, `reservations.py`, `retention.py`) | reservations, links on the source, delivery jobs | submit, send, resume | a crash between reserving, enqueueing and linking; a POST that may have arrived |
| Export rendering (`exports/service.py`, `shared/provenance.py`) | the evidence of an execution | aggregate, declare, check, drop | incomplete periods hidden by a second aggregation |
| Ingestion (`ingestions/services.py`) | artifact index, managed stores, rollback branches, markers | plan, ingest, swap, roll back, collect | directory swaps and rollbacks interrupted by a kill |
| Streaming ingest (`streaming/orchestrator.py`) | rolling window of fetches | fetch, commit, cancel | ordered commits of parallel fetches |
| Sync planning (`ingestions/sync_engine.py`) | none: reads record, template and source | plan, execute, answer | what is compared must be what the execution changes |
| Scheduler (`scheduler/`) | stored schedules, the clock's jobs, stamp, error | reload, refuse, restore, check | a list another process changes during a reload |
| Feature collections (`features/`) | versioned files, the record, `.superseded` markers | refresh, roll back, prune, read | a reader holds a path that a refresh supersedes |
| Period arithmetic (`shared/time.py`) | none | pure functions | dekads, ISO weeks, leap years, cut-off ranges |

How they interact: requests, the scheduler and automation create jobs; a job's worker writes its
outcome and its events in one store write and then calls the event consumers, workflow automation
first and pipelines after it; these create further openEO jobs, whose end calls the finished
listeners, which submit deliveries as native jobs. At startup `main.py` recovers native jobs, loads
the triggers, sets the consumers and the listeners, recovers openEO jobs, completes publications,
reconciles deliveries, runs the pipelines' startup pass and replays the event log before the server
answers requests and the clock starts.

What makes each component correct:

- Jobs: one execution at a time, final statuses stay final, attempts are charged for failures,
  every accepted job ends, its events reach the consumer, a cancellation wins or is refused.
- Publication: a commit that landed is registered and announced once; a cancelled job publishes
  nothing.
- Automation and pipelines: every update is run once or listed as skipped, none from before the
  automation began; the checkpoint passes no undecided update.
- Delivery: one delivery per key, of the result that was submitted, sent once whatever crashes; what
  it is said to have become is what the destination confirmed.
- Ingestion: what readers are given only grows, is replaced whole or is put back; a success is
  recorded and leaves no debris of the store.
- Indexes: nothing stored is lost, and readers and caches show it.
- Sync: what it calls current is current; a plan is carried out as meant.
- Scheduler: what the status describes is what the clock runs; a change reaches the clock.
- Features: a reader that resolved a record finds its file.
- Exports: no period is published that the data does not cover to its last day.

The hazards behind these properties are listed with their lines in `PROJECT.json`.

## 2. Modules

| Module | Models | Composed in |
|---|---|---|
| `NativeJobs`, abstract `JobLifecycle` | native jobs, slots, leases | `MCNativeJobs`, `MCNativeJobsOverlap` |
| `OpenEOJobs`, abstract `PublicationLedger` | openEO jobs and publication | `MCOpenEOJobs`, `MCOpenEOJobsRerun`, `MCOpenEOJobsOverlap` |
| `EventLog`, `WorkflowTriggers`, `PipelineUpdates` | the log and its two consumers | `UpdateFlow`, checked by `MCUpdateFlow` |
| `ExportDelivery`, `PipelineDeliveries`, `TriggerDeliveries` | the submission of deliveries and its callers | `DeliveryFlow`, checked by `MCDeliveries` |
| `ChunkedSend`, abstract `ImportLedger` | the inside of a delivery job | `MCDeliveries` |
| `StreamingIngest`, `ManagedStore`, abstract `StoreLedger` | an ingest | `MCStores` |
| `RecordIndex` | the JSON indexes and the artifact cache | `MCStores` |
| `Periods`, `PeriodCalendar`, `ExportPeriods` | period arithmetic and the checks of exports | `MCStores` |
| `Scheduler`, `FeatureCollections`, `SyncPlanning` | one component each | `MCBackground` |
| `NativeJobsProofs`, `OpenEOJobsProofs`, `UpdateFlowProofs`, `DeliveryFlowProofs`, `ChunkedSendProofs`, `ManagedStoreProofs`, `RecordIndexProofs`, `BackgroundProofs` | theorems (section 9) | |

An action is one atomic step of the code: a store write under its lock, a section of a mutex, a
lease or semaphore operation, a rename, an external call, or a read that a later decision rests on.
A crash may come before any step; it drops everything of the process but its writes. Operators with
a comment `Mutant:` are plausible bugs of the definition that follows; `PROJECT.json` says which
property each one breaks.

Where one configuration checks several components that share no state, a variable `focus` chooses
one of them at the start (or one kind of trouble) and the others rest. That is a bound like any
other: the behaviours of a focus are exactly the component's own.

## 3. Native jobs

**`NativeJobs`.** Shared: `status`, `attempt`, `cancel` (`jobs.json`) and `lease`. Per process:
`mode` (the lifespan of `main.py`), `todo` (the recovery snapshot), `queue` and `registered` (the
executor and `_futures`), `timers`, `firing` (timers popped and not yet enqueued), `watched`, `free`
and `foreign` (the slot semaphore and the openEO jobs that hold slots). Per thread: `pc`, `job`, `due`.
`failures` and `handed` are histories that only properties read. Workers run
`_run_job`/`_execute_job`, watchers `_watch_for_takeover`, the main thread `recover_pending_jobs` and
the startup sequence, handlers `_create_and_enqueue`, `record_completed_job` and
`request_cancellation`.

**`JobLifecycle`** is what a record promises with no process or thread in it; `NativeJobs`
implements it under the mapping at its end (`ImplementsLifecycle`).

| Run | Instance | Shows |
|---|---|---|
| `native_single` | 1 process; 1 job of 2 attempts beside an openEO job, or 2 jobs; 1 slot, up to 3 starts | types, the slots and the charged attempts add up (`CountsAreRight`), every job ends and its events are consumed, refinement of `JobLifecycle` |
| `native_overlap` | 2 processes, 1 job of 2 attempts, two watchers in one of them, 3 starts | exclusive execution, failures within the budget, final statuses, one custodian per process that is never dropped |

Bounds. `MaxStarts` bounds process starts, and with it crashes and shutdowns; two are needed for one
restart, three for a restart of each kind around an overlap. Two attempts give a retry and a last
failure. One job is enough for the overlap because jobs interact only through threads and slots,
which `native_single` covers with two. Deadlock is not checked: an idle server with no starts left
stops. The watcher threads of one process are interchangeable, hence the symmetry of
`native_overlap`, which checks no liveness.

Fairness. Threads the operating system schedules make progress, a process function returns or
raises, timers fire, an openEO job returns its slot, and a server that is down is started again while
the bound allows. Each is weak fairness of one thread's step. Nothing forces a request, a shutdown
or a crash.

Two disagreements need two processes. A job that waits for a slot can be cancelled by a write of the
other process; the waiting worker then alternates between the check and a refused slot for ever,
holding the lease and a pool thread. And a worker that wins the lease of a job whose owner died starts
over a RUNNING record without recovering it, so the interrupted attempt stays charged, although the
docstring of `_watch_for_takeover` says an abandoned job is recovered exactly as at startup: the
charged attempts count the failures with one process (`native_single`), and with two only
`FailuresWithinBudget` holds.

## 4. openEO batch jobs and managed publication

**`OpenEOJobs`** has the processes, threads and granularity of `NativeJobs`. On disk: `rec`, the
record of each job in `openeo/jobs.json` (status, attempt, cancel flag, `waiting` for a `retry_at`
in the future, `publishing`, the publication `pub` and the events), `history`, the commits of the
dataset's store, and its `writer` lock. A commit is the job and attempt its message names; an
ingestion's commit names no job. An event and a snapshot are both the position of their commit. Per
process: `mode`, `todo`, the executor's `queue`, `registered` (`_futures`), `timers`, `firing`,
`watched`. Per thread: `pc`, `job`, `due` and `seen` (the locals `rerun`, `known` and
`started.attempt` of `_execute`). `runs` and `dispatched` are histories.

The publication protocol, step by step: `PlanPublication` (writer lock, intent, head of the store),
`EnterPublication` (the gate: `publishing` and `committing` in one write, or cancelled), `Commit` (the
store), `CompletePublication` (outcome and event in one write), `FinishAttempt`, `Notify`. Any of
them can raise, and the process can die between any two. Whoever then finds `committing`
(`CompleteAfterFailure`, `ResolvePending`, `RecoverCommitting`, `RecoverFailed`) looks for the commit
under the writer lock and completes it, or clears the publication.

**`PublicationLedger`** states what this is for: per job, commits that landed, events recorded, and
whether cancellation is asked for. A commit lands only when every earlier one is recorded and no
cancellation is asked for; a cancellation is accepted only when nothing is unrecorded.

| Run | Instance | Shows |
|---|---|---|
| `openeo_triggered` | 1 process, 3 starts; a triggered job of 2 attempts that publishes, with 1 ingestion, or a cancellable one that writes files | the job ends, its event is delivered |
| `openeo_rerun` | 1 process, 2 starts; a triggered job with cancellation and 2 runs, by one user with a restart or by two without, or 2 users' jobs on one dataset and 2 pool threads | types, the gate, own commits only, one commit per run (`PublicationSound`), refinement of the ledger, a result stands until another run is asked for or its publication is completed (`ResultsStand`) |
| `openeo_overlap` | 2 processes, a triggered publishing job, cancellation, 2 starts | execution and recovery are exclusive, the backoff is kept, a result stands across processes (`OverlapIsSafe`) |
| `openeo_lost_rerun` | 1 process, 1 job, 1 start | violated: a re-run requested before the ended run's worker is unregistered is dropped by `_enqueue` and stays QUEUED until the next start |

Bounds. The constraint `OneJob` keeps the two jobs of `openeo_triggered` apart, `OneOrTwo` the two
parts of `openeo_rerun`: a job that is run again has one pool thread, and a second user only before the
server stops; two jobs are run once each and are interchangeable, hence the symmetry. A commit needs one crash to be left unresolved and a second to interrupt its recovery, hence
3 starts. `MaxRuns` is the number of runs a user may ask for; with two, a re-run meets the commit of
the run before with the same attempt number in its message. One ingestion is enough to put a foreign
commit between an attempt's own and the head. Liveness is checked without re-runs, and without
cancellation of a publishing job that retries, because there it fails (below). `ResultsStand` is about
FINISHED and ERROR only: CANCELED does not stand, with two users or with two processes (below).

Fairness is as in `NativeJobs`: weak fairness of each thread's step, of a timer that is due, of a
backoff passing, of an ingestion giving the writer lock back, of a restart within the bound. One
strong fairness is added, on a watcher's recovery of an unresolved commit: it polls for ever, and
each poll may find the dataset locked or its registration failing; the fairness says that the
dependency is transient, as the docstring of `_watch_for_recovery` does.

Simplifications. The wait for a slot ends (`NativeJobs` checks the semaphore). Recovery's read of a
record and the write it leads to are one step: it holds the lease, so only a cancel flag can be
written in between, and every such write keeps the flag. `cancel_job`'s first read, which only
refuses early, is joined with the section under the lock. A timer does not fire while `retry_at` lies
ahead, but may requeue its job after another process has moved `retry_at`. Every publication asks to be
published. A graph's result is saved in one step unless it is managed. Update and deletion of a job
are not modelled here; `DeliveryFlow` has the deletion of a source.

Further disagreements met while modelling, each a counterexample of the model in the instance named:

- A cancellation refused because a commit is unresolved has already stopped the retry timer, so the
  retry that would complete the commit never comes (cancellation of a publishing job with retries).
- An event recorded by completing an earlier run's commit is not dispatched when the re-run fails
  (`openeo_rerun` with its events followed to the consumer).
- A publishing job interrupted before its commit is run again whatever its budget
  (`openeo/jobs.py:517-526`), so `max_attempts` does not bound it.
- With two processes, a job cancelled in one can still be started by the other, whose start mutation
  does not look at the status, over CANCELED. A re-run with an unresolved commit and a recovery that
  requeues it late lead to the same in one process.
- It takes no restart either, only two users of one job. `start_job` reads the status
  (`openeo/jobs.py:752`) and writes QUEUED without looking again (`:757-769`). A client reads `created`;
  the trigger claims the job and writes QUEUED; the client's request writes QUEUED again and enqueues;
  another client cancels, which takes the future out of the queue, while the trigger's own enqueueing
  puts it back; a worker reads QUEUED under the lease, the cancellation writes `canceled`, and the
  worker's start mutation (`:994`) overwrites it: the cancelled job runs and may finish
  (`docs/openeo.md:177-180`). What does hold, in both runs with two requests or two processes and for
  every value of the constants, is that a *result* stands (`ResultsStand`).
- A cancelled job may keep a commit whose outcome is never recorded. A worker reads the cancellation flag
  in `_schedule_retry` (`openeo/jobs.py:923`); before it acts on it, another request records the
  cancellation, the job is run again, which resets the flag, and a second worker takes the new run up to
  a commit whose registration fails into a retry; the first worker then disarms the *new* timer and
  cancels the job, because the mutation (`:934-945`) looks only for QUEUED. The comment at `:766` says an
  earlier cancellation must not cancel the new attempt, the docstring at `:1165-1167` and
  `docs/openeo.md:182-188` that no cancellation overtakes a commit. It needs a second worker while the
  first is between the two steps. If the mutation asked for the flag again, TLC finds the job's status
  right too. `PublicationSound` therefore says of an unresolved commit that the gate is closed and no
  cancellation is flagged, and nothing of the status.
- A completed publication does not lead to FINISHED: `_recover_failed_publication` completes an ERROR
  job's publication in one write and finishes the job in another (`openeo/jobs.py:1153`); a stop
  between the two leaves it ERROR, and later starts look only at committing publications.

## 5. Dataset updates, workflow triggers and pipelines

**`EventLog`** has the life of an update: its job is open, takes its time, writes its event, and its
worker hands it to the consumers. A native job takes `completed_at` before its write and is unfinished
in the store until then; an openEO job takes the time inside the write. Readers read one store after
the other. **`WorkflowTriggers`** starts one openEO job per update and trigger, live or by the replay;
the id is deterministic, starting is a claim. **`PipelineUpdates`** decides each update of a pipeline
with policy `on_update`: run, skipped, or none of its business, on a record read without the lock and
read again under it; a startup pass goes through the log from the checkpoint and moves it.
**`UpdateFlow`** puts the two on one log, in the process of `main.py`, with crashes and restarts.

Run `updates` (a native and an openEO update, two workflows, one trigger, 2 starts, 2 edits, 1 failing
call, a clock of 4): no update is run twice nor one from before a trigger was configured
(`DecidedOnce`), the checkpoint and the replay pass over none (`NothingMissed`), a run prepared before a
pause, an edit or going live never reaches the record (`RunsAreCurrent`), and every stored update is
settled in the end (`UpdatesSettle`). Focuses: edits, failures and time during the startup pass, or the
trigger.

Bounds and assumptions. Two updates, one of each kind, are what the reading order of the log tells
apart. Time is in ticks; `WriteDelay` ≤ `Margin` is the assumption the code's margin makes on openEO
writes. Weak fairness of a process that is down, of startup, and of some thread with something to do;
jobs finish. Operators' edits and crashes need not happen. Not modelled: the cap of 50 skipped
updates, pruning of runs, runs an operator starts by hand.

Observations. A triggered job a client deletes is created and run again by the next replay. A trigger
removed from the configuration and added again keeps its first activation, so updates from in between
are replayed. An update decided while its dataset is renamed is skipped, as documented.

## 6. Deliveries

**`ExportDelivery`** is the submission of a delivery under the submission lock: find or reserve the
key, create the native job, link it to the source; a crash may fall between any two, and the source
may be deleted or run again. **`PipelineDeliveries`** has the three threads that hand a pipeline run's
result off (the completion, the recovery pass, the operator), with holds while paused, retries up to
`MAX_DELIVERY_ATTEMPTS`, Send again and Acknowledge. **`TriggerDeliveries`** has the delivery a
triggered job owes, stamped with the mode in which it finished, across processes with different
configurations. **`DeliveryFlow`** composes them in the server's life. **`ChunkedSend`** is the inside
of one delivery job: intents before POSTs, checkpoints, tasks to poll, restarts; it implements
**`ImportLedger`** (each chunk is handed over at most once, success only for what was taken whole).

Run `deliveries` (one source with two results; 3 keys' worth of jobs; restarts, failures, re-runs and
requests by focus; 2 chunks, 2 restarts, 1 failing checkpoint write): a job that sends holds the
source's lease and sends what was submitted (`SentIsSubmitted`); a key owns its job, nothing is sent
again unless an operator asks, a listed delivery is not repeated (`SentOnce`); a run is called
delivered only when a delivery of its kind was confirmed, and nothing finished in a dry run is imported
live (`KnownForWhatItIs`); `SendsOnce`, the refinement of `ImportLedger`; deliveries that are owed are
handed off and sends end (`DeliveriesSettle`).

Run `delivery_outcome` is violated: `docs/web_interface.md:248` says the delivery job's outcome is
recorded on the run. In the counterexample the first delivery of a run has failed; the recovery pass
and the operator's Send again both read the run; the operator records the failure and hands off a
second round, which resets the outcome; then the pass, still holding the first round's, writes it into
the run (`_refresh_delivery_result`, `_update_run`, which writes single fields): the run shows the first
delivery's outcome for the second, and never asks for the second's. The same single-field writes have
another effect, which the property does not see and the model reaches too: a thread that read the run
while it had to wait writes `held`, or one whose hand-off failed writes `awaiting`, over another's
`submitted`; the pass asks only submitted runs for their outcome, so it is not looked up until an
operator asks. `DeliveriesSettle` does not see it either. Another gap, found with two processes: a job finished by the old
process after the new one's `reconcile_deliveries` is not delivered until another start
(`main.py:229`, `openeo/jobs.py:530-580`); `OwedIsSubmitted` excepts it (`late`).

Simplifications: one source; verification of a manifest is one step; bindings and approvals of live
runs, and the tails of retention, are left out; a client's arbitrary keys are one key; a POST that
arrives after a crash is covered by `PostLost`. Fairness: weak, of some thread with something to do;
destinations and operators owe nothing. The constraint `Within` gives each behaviour the trouble of its
focus; requests of operators meet live runs, the ones that wait for them.

## 7. Data at rest: stores, indexes, exports

**`ManagedStore`** is `_create_streaming_artifact` from the recovery of an interrupted swap to the
release of the writer lock, over `disk` (the store and the directories beside it, with their data,
rollback branch and unreachable objects), the pending `marker` and the artifact `records`. An append
commits to the store under a branch; a prepend or overwrite builds beside it and swaps by two renames;
any step may fail and be rolled back, the rollback may fail, and the process may be killed before any
step. **`StreamingIngest`** is the rolling window inside it. **`StoreLedger`** is the promise to
readers. **`RecordIndex`** is a JSON index in the three ways the code keeps one (replaced whole; locked
but written in place; read without the lock and cached by `stat`).

**`Periods`** has the functions of `shared/time.py`, a day being its ordinal; **`PeriodCalendar`**
states what they promise one another on a day; **`ExportPeriods`** is a graph that loads a cube and
aggregates it (`openeo/execution.py`, `aggregate_dekads`), the evidence each step leaves, and the checks
of an export (`exports/service.py`).

Run `stores` checks four focuses. *Store* (3 periods, 3 ingests of three scopes, 2 failing steps, 1 kill): readers'
data only grows, is replaced whole or put back (`KeepsPublished`, the refinement of `StoreLedger`); an
ingest ends as it says, a success recorded and the store without debris that could be removed, a
failure without trace in the data (`EndsAsItSays`); what a rollback left is freed in the end unless its
mark is lost (`FailedIsFreed`). *Index* (2 threads in one
process or two, 2 updates, 1 kill): nothing stored is lost, readers get whole and current indexes, the
cache misses no write of its own process (`IndexHolds`). *Export* (13 axes around a leap February and a
new year, up to 2 aggregations, 20 exports): no period is published that the data does not cover, none
dropped that it does, but for the chains excepted below (`ExportsAreWhole`). *Calendar* (408 days, from December of 2019 to January of 2021): ids follow one another and sort,
ranges are covered, labels and bounds agree, tilings are true, cadences are recognised (`DaysHold`).

Bounds. Three periods give a store a first, middle and last; three ingests give a failed or killed one
something before and after; the scopes are the middle period, all three (which of a store that holds
only the middle is a prepend that appends too) and an overwrite of the first two, so that each of the
three ways to write is met after each other; the third meets one trouble at most, the ones before it all (`Troubled`). Two threads and two updates suffice for a lost update. The axes are those
whose periods have unequal lengths. Fairness: the ingest in progress and maintenance go on
(`WF` of `Progress`); kills and failures need not happen.

What the properties of this run leave out, by name, because it goes wrong:

- `IndexHolds` promises of an index written in place, and of the cache, only as long as the file was
  there from the start and nobody was killed. `ensure_store` (`ingestions/services.py:220-224`,
  `openeo/jobs.py:111-114`, `openeo/workflows.py:30-33`) checks and then writes without the lock, so it
  can truncate an index another thread just created and wrote. Unlocked readers of `records.json` may
  meet a truncated file. A kill between truncation and write loses those indexes; `jobs/store.py:114-120`
  fixes this only for native jobs. Another process's write of the same size within one tick of the
  file's time is not noticed by the cache (`services.py:2133-2153`).
- `ExportsAreWhole` excepts the chains with a step that aggregates over an empty bin, or that takes a cube
  without a stamped cadence for another than it is or to a period it does not tile (`cube.sound`,
  `GuessedWell`). There the docstring `exports/service.py:353-355`, that a chain of aggregations loses
  nothing, is false: when a whole intermediate period has no stamp the resample makes an empty bin for it, the
  next step counts the bin as present, and only labels with a stamp are ever listed as incomplete.
  `aggregate_dekads` judges by the day of the month only, so a single monthly stamp passes as a dekad.
- `IdsAreThePeriods` excepts one kind of range. `monthly_period_ids` promises nothing for a start after
  the end (`shared/time.py:237-240`) and gives the month for a range that is inverted inside one (`:268`).
  Of dekads, and of any other inverted range, nothing is what comes.
- `NothingLeftBehind` speaks of the store, not of a replacement. The pyramid of a replacement is built at
  `<store>.icechunk.replacement.rebuild` and swapped in by two renames of its own
  (`services.py:1926-1937`), which leave `.replacement.retired` between them (`draft` and `spare` in the
  model). A kill there leaves them, and no later success, recovery (`:1660`) or sweep (`:1684`) removes
  them, although `:1606-1612` and `:1677-1678` say that what a killed rebuild leaves is removed. The `.replacement` of a
  killed overwrite stays until the next overwrite, its `.retired` until the next swap. What an ingest
  could not remove is excepted too: its branch, and what its recovery found (`untidy`).
- `FailedIsFreed` excepts a lost mark, of which there are three (`MarkLost`): it cannot be written
  (`services.py:1745-1748` logs an `OSError`), a kill comes between `delete_branch` and the end of the
  write, or a kill comes between the renames of a later swap, after which the sweep finds an overdue
  marker without a store and unlinks it (`:1768-1770`). The garbage then stays until another rollback,
  contrary to `:1777-1782`.

Failures that are modelled: fetches, commits, normalization and both its swaps, registration, each
rename and removal of a rollback, the reset, the removal of a branch, the collection, the mark, and the
removal of a rebuild, of the retired store and of the replacement. Assumed to succeed: the rename by
which the recovery restores a store, the removal of `.failed` there, and the removal of a build's own
partial copy after it raised (`shutil.rmtree` with `ignore_errors`).

- `_store_artifact_record` returns an older record after an overwrite that narrows the dataset
  (`services.py:2491, 1351, 395`): the "latest" record need not be the last one.

Not modelled: static and timeless ingests, climatologies, thumbnails, publication flags, the expiry of
snapshots, checkpoints of a cursor, refresh of sizes, a partially written session, hours. A second
writer is refused by the lock and changes nothing.

## 8. Behind the requests: scheduler, features, syncs

**`Scheduler`**: `store` (schedules.json, its revision standing for bytes and stamp), `service` (what is
listed and should run, stamp, error), `clock` (APScheduler's jobs), `reload` (under its lock),
`requests`, and the `syncs` that checks submit. **`FeatureCollections`**: refreshes under the
collection lock write a file of their own, switch the record and let older files age behind a marker;
readers resolve, then open. **`SyncPlanning`**: plan, execution and answer of a sync while the source
publishes, rolls and brings out releases.

Run `background` (focuses clock, checks, features, plans; 2 datasets and 2 writes and refusals and
starts; 2 threads, 3 files and 1 kill; 4 periods and 2 changes): the clock runs of a schedule what the
status shows (`StatusIsTheClock`, but for the stray ones below), a dataset has one unfinished scheduled sync (`OneScheduledSync`), a change answered
without an error is in force and every stored change reaches the clock (`ChangesReachTheClock`);
readers find their file (`ReadersFindTheirFile`), nobody's published collection is taken (`NothingTaken`);
what a sync answers is so, a plan for a release is not refused, and a sync shortens nothing while it
is alone (`PlansHold`). Fairness: the watch of the
clock's process runs.

Run `sync_release` is violated: `docs/adding_custom_datasets.md:318` says the next sync after a new
release is declared rewrites the dataset, but an append in between stamps the record with the new release
over periods of the old one, and the sync calls it current.

Observations. A reload that failed keeps the old stamp, so a file repaired to the very same bytes leaves
`reload_error` (`scheduler/service.py:272, 324-328`; `docs/scheduled_sync.md:97, 111`); a change the
clock refused is not tried again until the store changes (`service.py:299`); after the clock refused
the previous schedules too, the schedules known then are astray (`service.astray` in the model): the
status says that the clock may run settings the list does not show, and each is astray until a reload that
knows of it succeeds. One that is deleted before is outside `known` for every later reload, so its job
fires on under a status without an error, although `service.py:261-264` says a job never keeps firing
with a configuration the status no longer describes; `StatusIsTheClock` leaves exactly these out. A plan
that meets another ingest can shorten a dataset by a release rewrite (`sync_engine.py:224`,
`docs/managed_data_api_guide.md:647`), hence `run.alone` for rewrites (an append shortens nothing whatever
comes between); a release plan is never refused for its periods, but a period that the source has forgotten
since, or that was never published, fails at its fetch (`streaming/orchestrator.py:258-263`), as
`sync_engine.py:246-252` says of unpublished revisions, and the dataset is then as it was; a killed append
whose last period is committed is "already current" though its record is behind; a temporal or
unversioned plan may be refused at its execution.

Simplifications. One process runs the clock, its start is one step, one check per schedule runs at a
time (`max_instances=1`), enabling and disabling the scheduler, results and the heartbeat are left out.
The collection lock is in-process, as in the code; the grace period is longer than a reader takes
between its two steps; one collection. The ingest a sync asks for is one step.

## 9. Proofs

TLAPS proves the following for every value of the constants: any number of processes, threads, jobs,
attempts, starts, files, threads of an index, chunks, updates, triggers and workflows. The only assumptions are the named ones of the
modules: the kinds of threads are disjoint and have a home process, bounds are natural numbers, sets
that are counted are finite, the pipelines' margin covers an openEO write. Every invariant below was checked by TLC on a run's instance before it was
proved.

**Native jobs** (`NativeJobsProofs`).

- `TypeOK`; `ExecutionIsExclusive`, `FailuresWithinBudget`, `TerminalIsFinal`. None of the three is
  inductive. `IInv` adds why they hold: `LeaseInv`, whoever decides about an execution holds the job's
  lease; `RunInv`, a job on its way to an attempt has no result yet; `CancelInv`, the one writer
  without a lease, a cancel request, raised the flag before, and the start mutation refuses a flagged
  job; `BudgetInv`, a running job has an attempt charged that has not failed.
- `CustodyKept`: within a process an unfinished job is in one hand and no hand drops it. `CustodyInv` says
  which hands there are (queue, timer, fired timer, watcher, recovery list, and the threads at certain
  places), that there is at most one, and that `_enqueue_job` and `_watch_for_takeover`, which refuse a
  job they believe cared for, are never wrong about it. Every action moves at most one job of one process
  from one hand to another.
- `SlotsAddUp`: free slots, foreign ones and the workers that hold one make up the limit. The set of
  holders is finite because it grows one by one, which is why the invariant says so.
- `LeasesAreWork`: a lease names a thread that is at work on the job.
- `CountsAreRight` and `ImplementsLifecycle`, under `OneServer`: one process serves the data directory at
  a time. That is not a convenience. With two, a worker that wins a dead owner's lease starts over a
  RUNNING record, so the interrupted attempt stays charged, and the abstract job would begin twice
  (section 3). With one, what the record calls RUNNING is either executed now or still to be
  recovered, and that is the invariant `RunningIsAccounted` which makes the attempt recovery gives back
  the interrupted one.

**openEO jobs** (`OpenEOJobsProofs`).

- `TypeOK`, and `OverlapIsSafe` from `LockInv`: who works on a job holds its lease, the writer lock is with
  a worker exactly while it saves, a job on its way to an attempt has its backoff behind it. Its third
  part, `ResultsStand`, needs `StandInv` as well: a job whose lease a thread holds to run it, or to record how
  it went, has not ended with a result, except one in ERROR whose publication that thread just completed.
- `PublicationSound` for any number of users, runs and jobs on one dataset. `PubInv` says at each place
  of the save, the reconciliation and the recovery what the thread knows of the record and of the
  store: an event names a commit of the job, a commit without an event is the one a publication still
  committing made, and the base of a plan lies before it. `DueInv` counts: a job has no
  more commits than runs were asked for, and wherever a commit may still come it has one fewer, or
  the one it has is the one its own search is going to find. The four together (`JobsInv`) are inductive; none is alone, since a
  re-run resets what a run before left, and only the lock and the due work say nobody is at it.
- `ImplementsLedger`: every step commits, records, asks or runs as `PublicationLedger` does, or
  leaves it alone.

**Updates** (`UpdateFlowProofs`). `TypeOK`, `DecidedOnce`, `NothingMissed` and `RunsAreCurrent` of the two
consumers on one log, from `FlowInv`, which has three parts.

- `LogInv`: an openEO job's write comes within `WriteDelay` of its stamp, a native job was created before
  it took its time, and no openEO job writes while native jobs are recovered.
- `PipeInv`: why the checkpoint may pass what it passes. `Ahead` says that nothing unfinished can still
  write an update from before it. `Covered` says of each stored update during the startup pass that it is
  still to be decided, settled, being decided, kept for the next start, or not before the bound; when
  the list is empty and the checkpoint moves a margin before the bound, only settled ones are
  behind it. The proof needs `Margin` ≥ `WriteDelay`, and that no operator edits before the process
  serves. `PreparedInv` ties a prepared run to the revision it was prepared for, which makes the
  comparison under the lock enough.
- `TrigInv`: `ActivationInv`, a trigger never configured has no job and nothing due, and what was stored
  before its first start stays without either; `ReplayInv`, what each of the two reads of the replay has
  made due, so that a process that serves owes nothing.

**Deliveries and who asks for them** (`DeliveryFlowProofs`). `SentIsSubmitted`, `SentOnce` and
`KnownForWhatItIs`, and the types of everything `MCDeliveries` composes, for any clients, actors, exports,
rounds of a pipeline, crashes and starts. `IInv` says along which line each holds.

- `ExpInv`: the execution lease of the source is with the delivery that runs, and with none else; while
  it is, the source is the finished version that was submitted. Reservations are one per key and one per
  job, a job exists only with its reservation, and a submission between its steps knows of its key what
  the lock lets it rely on: nothing reserved, reserved and not created, created and not linked.
- `KindInv`, `OwnerInv`: a key tells who handed off and for which round, so a key of a later round is unused.
- `RunInv`: an actor holds a run of a round not later than the pipeline's, and what it observed of a
  job is what the destination confirmed. `act.again`, a redelivery, is of a round that has a later one.
- `TrigInv`: what a thread holds as due is due still, in a mode in which that version of the source was
  finished, and its source lists no delivery, or only the one its key already has.

**Delivery** (`ChunkedSendProofs`). `SendsOnce`, the refinement of `ImportLedger`: for any payload, number
of restarts and failing checkpoints DHIS2 is handed each chunk at most once and only a payload taken
whole is a success. `SendInv` relates a chunk's checkpoint, the worker's place and what DHIS2 has: a
chunk without an intent on record was never handed over.

**Managed stores** (`ManagedStoreProofs`). `EndsAsItSays` and the refinement `KeepsPublished`, for any
requests, periods, fetches in parallel, ingests, failures and kills. `StoreInv` follows an ingest.

- `EarlyInv`, before the plan: every store is of an earlier ingest, and what the recovery has passed is put
  right (a retired store has its target beside it, no branch is left). `PlanInv`, `StreamInv`: what
  the plan may ask for, and that what is fetched and waits lines up behind what is committed, period by
  period.
- `UpdateInv`, while it writes: one directory, always the same for a place, holds the store as it was found,
  grown by at most what this ingest committed, and another, if any, the new one. A rename moves one of
  them, a kill between two leaves both, and the recovery looks for the old one first; so what is
  put back is what was found.
- `TidyInv`, `EndInv`: what an end may count on. A success has a record of its periods, and of the store
  itself no rejected copy, partial rebuild or branch but what could not be removed; a failure whose rollback did not break off left the store as it was
  found or, where the fetch had not ended, grown by what it committed.
- `Between` adds the one fact the refinement needs beside it: no target while the two renames of a swap
  are under way.

Every step is then a step of `StoreLedger` (begin, grow, replace, put back, end) or leaves it alone; the
lemmas `AroundSteps`, `InPlaceSteps` and `MovingSteps` say which steps are which.

**Indexes** (`RecordIndexProofs`). `IndexHolds` for any number of threads, processes, updates, clock ticks
and kills: without condition of an index that is replaced whole; of the two kinds written in place, and of
the cache, on the condition that the file was there from the start and nobody was killed. `IndexInv` says that while a promise holds
(`Promised`), the file is what the holder of the lock read or wrote, it is never behind what was told to
be stored, nobody is about to create it, and a key kept by the cache is no newer than the process's own
writes; equal counts then mean nothing was written since.

**Scheduler, features and syncs** (`BackgroundProofs`). `StatusIsTheClock` and `OneScheduledSync`, and the safety
half of `ChangesReachTheClock`: an answered change was given to the clock. `SchedInv` has a part for
each: the plan in the reload against what is listed and on the clock, the revision a waiting request
may be answered with, and the check that is clear to submit. `ReadersFindTheirFile` and `NothingTaken`
from `FeatInv`: a file goes through four hands in one direction, the record's, superseded and unmarked,
young, old; only an old one is deleted, and it becomes old when nobody reads it. What a refresh may
still put back counts as the record's until it lets go of the lock. `PlansHold`, for any number of periods,
changes of the source and other ingests: `PlanningInv` says of a plan what it was made of (`Feasible`:
nothing a source has is taken back but for its beginning, so a plan without periods of its own still
reaches where it said, and one for a release has all the periods it rewrites), and that a sync which is
alone and fresh would plan the same again. What it leaves then reaches the end asked for, or the end
of the source, so the next plan does nothing (`NothingLeft`).

The types of everything that `MCStores` and `MCBackground` check side by side are theorems of those modules'
specifications (`MCTypesHold`, `BackgroundTypes`); for exports the invariant `ExportInv` adds that the
evidence is a sequence of entries whose labels the types say nothing of.

Lemmas that hold of the operators (queues without a job, frames of a step that leaves some variables
alone, counting one more holder) come first and are cited by name; the proof that a step preserves an
invariant has one lemma per action or group of actions.

Only model-checked: `ExportsAreWhole` and `DaysHold`, about the period arithmetic, because a proof about
`PeriodIds`, the calendar's table or the folds of `ExportPeriods` would need induction over data, which
no installed prover can instantiate; and liveness under fairness (`EveryJobEnds`, `EventsReachConsumer`,
`UpdatesSettle`, `DeliveriesSettle`, `FailedIsFreed`, the second half of `ChangesReachTheClock`), where
`ENABLED` is out of reach.

## 10. Not modelled

- Rendering, HTTP parsing, pages, the STAC catalogue, templates of datasets, configuration, plugins and
  the numbers that processes compute. They keep no state that two actors share; where they matter, their
  outcome is a choice in a model. These are most of the lines of the repository (a third of the
  package is pages, catalogue, plugins and schemas), which is why the map cannot cover
  much more of it faithfully than it does.
- The cycle check and the graph of automations, migration of the layout, tiles and thumbnails: sequential
  code over state of its own.
- Deletion of a native or openEO job while a watcher works with its files (`openeo/jobs.py:723`; a delivery
  that works with them is modelled), a store write that raises inside the failure path (`jobs/service.py:646`) and the other hazards listed without
  a property in `PROJECT.json`, each with its reason.
- Files are abstracted to the records in them. That a rename and an index replacement are atomic, and
  that the operating system drops a dead process's locks, is assumed.
