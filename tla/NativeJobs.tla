----------------------------- MODULE NativeJobs -----------------------------
(***************************************************************************)
(* The native job runtime (jobs/service.py, jobs/store.py) with the job    *)
(* slots of shared/compute.py and the execution lease of                   *)
(* shared/persistence.py.                                                  *)
(*                                                                         *)
(* Several server processes may share one data directory: that is what an  *)
(* overlapping restart looks like.  jobs.json and the lease files are      *)
(* shared; everything else a process knows is lost when it exits.  A       *)
(* process runs pool threads, one takeover watcher thread per watched job, *)
(* retry timers, request handlers, and its main thread, which recovers the *)
(* store before the server answers requests.                               *)
(*                                                                         *)
(* One action is one critical section of the code: one store mutation      *)
(* (under the index lock), one section of JobService._lock, one lease or   *)
(* semaphore operation, or one read a later decision rests on.             *)
(***************************************************************************)
EXTENDS Naturals, Sequences, FiniteSets

CONSTANTS
    Jobs,          \* job ids
    Procs,         \* operating-system processes that can run the server
    Workers,       \* pool threads, of all processes
    Watchers,      \* takeover watcher threads, of all processes
    Mains,         \* main threads, one per process
    Handlers,      \* request threads, of all processes
    Home,          \* the process of each thread
    Slots,         \* CLIMATE_SERVICE_MAX_CONCURRENT_JOBS
    MaxAttempts,   \* max_attempts of every job
    OpenEORuns,    \* bound: how often an openEO job of a process takes a slot
    MaxStarts,     \* bound: process starts in one behaviour
    NoThread,      \* nobody holds the lease
    NoJob          \* an idle thread has no job

Threads == Workers \cup Watchers \cup Mains \cup Handlers

ASSUME ThreadAssumption ==
    /\ Home \in [Threads -> Procs]
    /\ NoThread \notin Threads
    /\ NoJob \notin Jobs
    /\ Workers \cap (Watchers \cup Mains \cup Handlers) = {}
    /\ Watchers \cap (Mains \cup Handlers) = {}
    /\ Mains \cap Handlers = {}

ASSUME BoundAssumption ==
    /\ Slots \in Nat \ {0}
    /\ MaxAttempts \in Nat \ {0}
    /\ OpenEORuns \in Nat
    /\ MaxStarts \in Nat

VARIABLES
    status, attempt, cancel,    \* jobs.json: JobRecord.status, .attempt, .cancel_requested
    lease,                      \* the thread holding a job's lease file
    mode,                       \* where a process is in its life
    todo,                       \* the startup snapshot still to recover
    queue,                      \* the executor's work queue
    registered,                 \* JobService._futures that are not done
    timers,                     \* JobService._retry_timers
    firing,                     \* timers popped by _retry_due, not yet enqueued
    watched,                    \* JobService._watched
    free,                       \* the slot semaphore
    foreign,                    \* slots held by openEO jobs
    openeo,                     \* openEO runs left (bound)
    starts,                     \* process starts so far (bound)
    pc, job,                    \* where a thread is, and the job it works on
    due,                        \* its local watch_for_takeover / retry_after / requeue
    failures,                   \* history: attempts of a job that raised
    handed                      \* history: jobs whose events the consumer was given

stored   == <<status, attempt, cancel>>
service  == <<queue, registered, timers, firing, watched>>
slots    == <<free, foreign, openeo>>
life     == <<mode, todo, starts>>
local    == <<pc, job, due>>
history  == <<failures, handed>>
vars     == <<stored, lease, service, slots, life, local, history>>

Pending  == {"ACCEPTED", "RUNNING", "RETRYING"}
Terminal == {"SUCCESSFUL", "FAILED", "CANCELLED"}
Modes    == {"down", "starting", "replaying", "serving", "stopping", "closed"}

IsPending(j)   == status[j] \in Pending
IsTerminal(j)  == status[j] \in Terminal
Stopping(p)    == mode[p] \in {"stopping", "closed"}
HasConsumer(p) == mode[p] \in {"replaying", "serving"}
Queued(p, j)   == \E i \in DOMAIN queue[p] : queue[p][i] = j

(* _is_pre_execution_cancellation *)
PreCancelled(j) == cancel[j] /\ status[j] \in {"ACCEPTED", "RETRYING"}

(* The should_stop argument of JobSlots.acquire. *)
ShouldStop(t) == Stopping(Home[t]) \/ cancel[job[t]]

Init ==
    /\ status = [j \in Jobs |-> "none"]
    /\ attempt = [j \in Jobs |-> 0]
    /\ cancel = [j \in Jobs |-> FALSE]
    /\ lease = [j \in Jobs |-> NoThread]
    /\ mode = [p \in Procs |-> "down"]
    /\ todo = [p \in Procs |-> {}]
    /\ queue = [p \in Procs |-> <<>>]
    /\ registered = [p \in Procs |-> {}]
    /\ timers = [p \in Procs |-> {}]
    /\ firing = [p \in Procs |-> {}]
    /\ watched = [p \in Procs |-> {}]
    /\ free = [p \in Procs |-> Slots]
    /\ foreign = [p \in Procs |-> 0]
    /\ openeo = [p \in Procs |-> OpenEORuns]
    /\ starts = 0
    /\ pc = [t \in Threads |-> "idle"]
    /\ job = [t \in Threads |-> NoJob]
    /\ due = [t \in Threads |-> "none"]
    /\ failures = [j \in Jobs |-> 0]
    /\ handed = {}

-----------------------------------------------------------------------------
(* Thread steps, and the helpers of the service that several of them call. *)

At(t, l)   == pc[t] = l
Goto(t, l) == pc' = [pc EXCEPT ![t] = l] /\ UNCHANGED <<job, due>>
Return(t)  == /\ pc' = [pc EXCEPT ![t] = "idle"]
              /\ job' = [job EXCEPT ![t] = NoJob]
              /\ due' = [due EXCEPT ![t] = "none"]
Leave(t, l, d) == /\ pc' = [pc EXCEPT ![t] = l]
                  /\ due' = [due EXCEPT ![t] = d]
                  /\ UNCHANGED job

SetStatus(j, s) == status' = [status EXCEPT ![j] = s] /\ UNCHANGED <<attempt, cancel>>

(* _enqueue_job.  A job whose future is not done is not queued twice; once *)
(* the executor is shut down, submit raises.                               *)
Enqueue(p, j) ==
    /\ IF j \in registered[p] \/ mode[p] = "closed"
       THEN UNCHANGED <<queue, registered>>
       ELSE /\ queue' = [queue EXCEPT ![p] = Append(@, j)]
            /\ registered' = [registered EXCEPT ![p] = @ \cup {j}]
    /\ UNCHANGED watched

-----------------------------------------------------------------------------
(* Request handlers. *)

(* _create_and_enqueue: the record first, the executor second. *)
Create(h, j) ==
    /\ At(h, "idle") /\ mode[Home[h]] = "serving"
    /\ status[j] = "none"
    /\ SetStatus(j, "ACCEPTED")
    /\ pc' = [pc EXCEPT ![h] = "created"]
    /\ job' = [job EXCEPT ![h] = j]
    /\ UNCHANGED <<due, lease, service, slots, life, history>>

EnqueueCreated(h) ==
    /\ At(h, "created")
    /\ Enqueue(Home[h], job[h])
    /\ Return(h)
    /\ UNCHANGED <<stored, lease, timers, firing, slots, life, history>>

(* record_completed_job: work done inside a request is recorded as a       *)
(* successful job, and its events are consumed like a queued job's.        *)
RecordCompleted(h, j) ==
    /\ At(h, "idle") /\ mode[Home[h]] = "serving"
    /\ status[j] = "none"
    /\ status' = [status EXCEPT ![j] = "SUCCESSFUL"]
    /\ attempt' = [attempt EXCEPT ![j] = 1]
    /\ pc' = [pc EXCEPT ![h] = "consumeInline"]
    /\ job' = [job EXCEPT ![h] = j]
    /\ UNCHANGED <<cancel, due, lease, service, slots, life, history>>

ConsumeInline(h) ==
    /\ At(h, "consumeInline")
    /\ handed' = IF HasConsumer(Home[h]) THEN handed \cup {job[h]} ELSE handed
    /\ Return(h)
    /\ UNCHANGED <<stored, lease, service, slots, life, failures>>

(* request_cancellation: the flag, then a branch on the status the flag    *)
(* write returned.                                                         *)
RequestCancel(h, j) ==
    /\ At(h, "idle") /\ mode[Home[h]] = "serving"
    /\ IsPending(j)
    /\ cancel' = [cancel EXCEPT ![j] = TRUE]
    /\ IF status[j] = "RUNNING"
       THEN UNCHANGED local
       ELSE /\ pc' = [pc EXCEPT ![h] = IF status[j] = "RETRYING" THEN "popTimer" ELSE "cancelFuture"]
            /\ job' = [job EXCEPT ![h] = j]
            /\ UNCHANGED due
    /\ UNCHANGED <<status, attempt, lease, service, slots, life, history>>

PopTimer(h) ==
    LET p == Home[h] IN
    /\ At(h, "popTimer")
    /\ timers' = [timers EXCEPT ![p] = @ \ {job[h]}]
    /\ IF job[h] \in timers[p] THEN Goto(h, "writeCancelled") ELSE Return(h)
    /\ UNCHANGED <<stored, lease, queue, registered, firing, watched, slots, life, history>>

(* future.cancel() succeeds while no worker has picked the future up. *)
CancelFuture(h) ==
    LET p == Home[h] IN
    /\ At(h, "cancelFuture")
    /\ IF job[h] \in registered[p] /\ Queued(p, job[h])
       THEN /\ registered' = [registered EXCEPT ![p] = @ \ {job[h]}]
            /\ Goto(h, "writeCancelled")
       ELSE UNCHANGED registered /\ Return(h)
    /\ UNCHANGED <<stored, lease, queue, timers, firing, watched, slots, life, history>>

WriteCancelled(h) ==
    /\ At(h, "writeCancelled")
    /\ SetStatus(job[h], "CANCELLED")
    /\ Return(h)
    /\ UNCHANGED <<lease, service, slots, life, history>>

-----------------------------------------------------------------------------
(* Pool threads: _run_job and _execute_job. *)

(* A cancelled future is popped from the queue and skipped. *)
PickUp(t) ==
    LET p == Home[t] IN
    /\ At(t, "idle") /\ queue[p] # <<>>
    /\ queue' = [queue EXCEPT ![p] = Tail(@)]
    /\ IF Head(queue[p]) \in registered[p]
       THEN /\ pc' = [pc EXCEPT ![t] = "picked"]
            /\ job' = [job EXCEPT ![t] = Head(queue[p])]
            /\ UNCHANGED due
       ELSE UNCHANGED local
    /\ UNCHANGED <<stored, lease, registered, timers, firing, watched, slots, life, history>>

(* Mutant: the lease is a shared lock, so a second process wins it too. *)
TryLeaseShared(t) ==
    /\ At(t, "picked")
    /\ lease' = [lease EXCEPT ![job[t]] = t]
    /\ Goto(t, "leased")
    /\ UNCHANGED <<stored, service, slots, life, history>>

TryLease(t) ==
    /\ At(t, "picked")
    /\ IF lease[job[t]] = NoThread
       THEN /\ lease' = [lease EXCEPT ![job[t]] = t]
            /\ Goto(t, "leased")
       ELSE UNCHANGED lease /\ Leave(t, "pop", "watch")
    /\ UNCHANGED <<stored, service, slots, life, history>>

(* Mutant: the record is trusted as it was when the job was queued. *)
ReadNothingUnderLease(t) ==
    /\ At(t, "leased")
    /\ Goto(t, "check")
    /\ UNCHANGED <<stored, lease, service, slots, life, history>>

(* The re-read under the lease: a terminal job never runs again. *)
ReadUnderLease(t) ==
    /\ At(t, "leased")
    /\ Goto(t, IF IsPending(job[t]) THEN "check" ELSE "unlease")
    /\ UNCHANGED <<stored, lease, service, slots, life, history>>

(* Head of the loop of _execute_job. *)
CheckCancelled(t) ==
    /\ At(t, "check")
    /\ IF PreCancelled(job[t])
       THEN SetStatus(job[t], "CANCELLED") /\ Goto(t, "unlease")
       ELSE UNCHANGED stored /\ Goto(t, "slot")
    /\ UNCHANGED <<lease, service, slots, life, history>>

(* Mutant: an off-by-one in the semaphore. *)
SlotWonTooMany(t) ==
    LET p == Home[t] IN
    /\ At(t, "slot") /\ ~ShouldStop(t)
    /\ free' = [free EXCEPT ![p] = @ - 1]
    /\ Goto(t, "won")
    /\ UNCHANGED <<stored, lease, service, foreign, openeo, life, history>>

(* JobSlots.acquire.  A slot won while should_stop holds is given straight *)
(* back, so it is never seen taken.                                        *)
SlotWon(t) ==
    LET p == Home[t] IN
    /\ At(t, "slot") /\ ~ShouldStop(t)
    /\ free[p] > 0
    /\ free' = [free EXCEPT ![p] = @ - 1]
    /\ Goto(t, "won")
    /\ UNCHANGED <<stored, lease, service, foreign, openeo, life, history>>

SlotRefused(t) ==
    /\ At(t, "slot") /\ ShouldStop(t)
    /\ Goto(t, "refused")
    /\ UNCHANGED <<stored, lease, service, slots, life, history>>

(* Mutant: a cancelled job that was refused a slot waits for one again. *)
AfterRefusalWaits(t) ==
    /\ At(t, "refused")
    /\ Goto(t, IF Stopping(Home[t]) THEN "unlease" ELSE "slot")
    /\ UNCHANGED <<stored, lease, service, slots, life, history>>

(* Refused: a stopping service leaves the job for the next start, a        *)
(* cancelled job goes back to the check that records it.                   *)
AfterRefusal(t) ==
    /\ At(t, "refused")
    /\ Goto(t, IF Stopping(Home[t]) THEN "unlease" ELSE "check")
    /\ UNCHANGED <<stored, lease, service, slots, life, history>>

(* Mutant: the cancellation check is not repeated in the start mutation. *)
StartAttemptUnchecked(t) ==
    LET j == job[t] IN
    /\ At(t, "won")
    /\ status' = [status EXCEPT ![j] = "RUNNING"]
    /\ attempt' = [attempt EXCEPT ![j] = @ + 1]
    /\ Goto(t, "run")
    /\ UNCHANGED <<cancel, lease, service, slots, life, history>>

(* Mutant: the slot is not given back when the cancellation wins. *)
StartAttemptLeaky(t) ==
    LET j == job[t] IN
    /\ At(t, "won")
    /\ IF cancel[j]
       THEN UNCHANGED stored /\ Goto(t, "check")
       ELSE /\ status' = [status EXCEPT ![j] = "RUNNING"]
            /\ attempt' = [attempt EXCEPT ![j] = @ + 1]
            /\ UNCHANGED cancel
            /\ Goto(t, "run")
    /\ UNCHANGED <<lease, service, slots, life, history>>

(* The start mutation re-checks the cancellation flag in the same write. *)
StartAttempt(t) ==
    LET j == job[t] IN
    /\ At(t, "won")
    /\ IF cancel[j]
       THEN /\ free' = [free EXCEPT ![Home[t]] = @ + 1]
            /\ UNCHANGED stored
            /\ Goto(t, "check")
       ELSE /\ status' = [status EXCEPT ![j] = "RUNNING"]
            /\ attempt' = [attempt EXCEPT ![j] = @ + 1]
            /\ UNCHANGED <<cancel, free>>
            /\ Goto(t, "run")
    /\ UNCHANGED <<lease, service, foreign, openeo, life, history>>

(* _run_attempt: the process function returns, stops cooperatively because *)
(* it saw the flag, or raises.                                             *)
Succeed(t) ==
    /\ At(t, "run")
    /\ SetStatus(job[t], "SUCCESSFUL")
    /\ Goto(t, "consume")
    /\ UNCHANGED <<lease, service, slots, life, history>>

(* _consume_events, after the events are durable and without any lock. *)
ConsumeEvents(t) ==
    /\ At(t, "consume")
    /\ handed' = IF HasConsumer(Home[t]) THEN handed \cup {job[t]} ELSE handed
    /\ Goto(t, "releaseSlot")
    /\ UNCHANGED <<stored, lease, service, slots, life, failures>>

StopCooperatively(t) ==
    /\ At(t, "run") /\ cancel[job[t]]
    /\ SetStatus(job[t], "CANCELLED")
    /\ Goto(t, "releaseSlot")
    /\ UNCHANGED <<lease, service, slots, life, history>>

Fail(t) ==
    LET j == job[t]
        retry == attempt[j] < MaxAttempts IN
    /\ At(t, "run")
    /\ SetStatus(j, IF retry THEN "RETRYING" ELSE "FAILED")
    /\ failures' = [failures EXCEPT ![j] = @ + 1]
    /\ Leave(t, "releaseSlot", IF retry THEN "retry" ELSE "none")
    /\ UNCHANGED <<lease, service, slots, life, handed>>

ReleaseSlot(t) ==
    /\ At(t, "releaseSlot")
    /\ free' = [free EXCEPT ![Home[t]] = @ + 1]
    /\ Goto(t, "unlease")
    /\ UNCHANGED <<stored, lease, service, foreign, openeo, life, history>>

ReleaseLease(t) ==
    /\ At(t, "unlease")
    /\ lease' = [lease EXCEPT ![job[t]] = NoThread]
    /\ Goto(t, "pop")
    /\ UNCHANGED <<stored, service, slots, life, history>>

(* The finally of _run_job: only now may the job be enqueued again. *)
PopFuture(t) ==
    /\ At(t, "pop")
    /\ registered' = [registered EXCEPT ![Home[t]] = @ \ {job[t]}]
    /\ IF due[t] = "none" THEN Return(t) ELSE Leave(t, due[t], "none")
    /\ UNCHANGED <<stored, lease, queue, timers, firing, watched, slots, life, history>>

(* _schedule_retry: the timer, then a look at a cancellation that arrived  *)
(* before the timer existed.                                               *)
ScheduleRetry(t) ==
    LET p == Home[t] IN
    /\ At(t, "retry")
    /\ IF Stopping(p)
       THEN UNCHANGED timers /\ Return(t)
       ELSE /\ timers' = [timers EXCEPT ![p] = @ \cup {job[t]}]
            /\ Goto(t, "armed")
    /\ UNCHANGED <<stored, lease, queue, registered, firing, watched, slots, life, history>>

RecheckCancelled(t) ==
    /\ At(t, "armed")
    /\ IF cancel[job[t]] THEN Goto(t, "retryNow") ELSE Return(t)
    /\ UNCHANGED <<stored, lease, service, slots, life, history>>

(* Mutant: the requeue for a cancellation leaves the timer armed. *)
RetryNowArmed(t) ==
    /\ At(t, "retryNow")
    /\ firing' = [firing EXCEPT ![Home[t]] = @ \cup {job[t]}]
    /\ Return(t)
    /\ UNCHANGED <<stored, lease, queue, registered, timers, watched, slots, life, history>>

(* _retry_due(cancel_timer=True) and, with TimerFires, _retry_due. *)
RetryNow(t) ==
    LET p == Home[t] IN
    /\ At(t, "retryNow")
    /\ timers' = [timers EXCEPT ![p] = @ \ {job[t]}]
    /\ firing' = [firing EXCEPT ![p] = IF job[t] \in timers[p] THEN @ \cup {job[t]} ELSE @]
    /\ Return(t)
    /\ UNCHANGED <<stored, lease, queue, registered, watched, slots, life, history>>

TimerFires(p, j) ==
    /\ j \in timers[p]
    /\ timers' = [timers EXCEPT ![p] = @ \ {j}]
    /\ firing' = [firing EXCEPT ![p] = @ \cup {j}]
    /\ UNCHANGED <<stored, lease, queue, registered, watched, slots, life, local, history>>

EnqueueRetry(p, j) ==
    /\ j \in firing[p]
    /\ firing' = [firing EXCEPT ![p] = @ \ {j}]
    /\ Enqueue(p, j)
    /\ UNCHANGED <<stored, lease, timers, slots, life, local, history>>

-----------------------------------------------------------------------------
(* Takeover watchers, and the recovery they share with the main thread. *)

(* _watch_for_takeover, called by a worker or by the main thread. *)
StartWatcher(t) ==
    LET p == Home[t] IN
    /\ At(t, "watch")
    /\ IF Stopping(p) \/ job[t] \in watched[p]
       THEN UNCHANGED watched /\ Return(t)
       ELSE \E w \in Watchers :
                /\ Home[w] = p /\ At(w, "idle")
                /\ watched' = [watched EXCEPT ![p] = @ \cup {job[t]}]
                /\ pc' = [pc EXCEPT ![w] = "watching", ![t] = "idle"]
                /\ job' = [job EXCEPT ![w] = job[t], ![t] = NoJob]
                /\ due' = [due EXCEPT ![t] = "none"]
    /\ UNCHANGED <<stored, lease, queue, registered, timers, firing, slots, life, history>>

WatcherLease(w) ==
    /\ At(w, "watching") /\ ~Stopping(Home[w])
    /\ lease[job[w]] = NoThread
    /\ lease' = [lease EXCEPT ![job[w]] = w]
    /\ Goto(w, "recover")
    /\ UNCHANGED <<stored, service, slots, life, history>>

WatcherStops(w) ==
    /\ At(w, "watching") /\ Stopping(Home[w])
    /\ Goto(w, "leaving")
    /\ UNCHANGED <<stored, lease, service, slots, life, history>>

(* Mutant: an interrupted attempt stays counted. *)
RecoverCounted(t) ==
    LET j == job[t] IN
    /\ At(t, "recover")
    /\ \/ /\ ~IsPending(j)
          /\ UNCHANGED stored
          /\ Leave(t, "recovered", "none")
       \/ /\ IsPending(j)
          /\ SetStatus(j, IF cancel[j] THEN "CANCELLED" ELSE "ACCEPTED")
          /\ Leave(t, "recovered", IF cancel[j] THEN "none" ELSE "requeue")
    /\ UNCHANGED <<lease, service, slots, life, history>>

(* Mutant: recovery gives an attempt back whatever the job was doing. *)
RecoverGenerous(t) ==
    LET j == job[t] IN
    /\ At(t, "recover")
    /\ \/ /\ ~IsPending(j)
          /\ UNCHANGED stored
          /\ Leave(t, "recovered", "none")
       \/ /\ IsPending(j) /\ cancel[j]
          /\ SetStatus(j, "CANCELLED")
          /\ Leave(t, "recovered", "none")
       \/ /\ IsPending(j) /\ ~cancel[j]
          /\ status' = [status EXCEPT ![j] = "ACCEPTED"]
          /\ attempt' = [attempt EXCEPT ![j] = IF @ > 0 THEN @ - 1 ELSE 0]
          /\ UNCHANGED cancel
          /\ Leave(t, "recovered", "requeue")
    /\ UNCHANGED <<lease, service, slots, life, history>>

(* _recover, under the lease.  An attempt that was interrupted is not      *)
(* counted against the budget.  Its read and its write are one step: only  *)
(* a cancel flag can come between them, and the write keeps it, as if it   *)
(* had been raised just after.                                             *)
Recover(t) ==
    LET j == job[t] IN
    /\ At(t, "recover")
    /\ \/ /\ ~IsPending(j)
          /\ UNCHANGED stored
          /\ Leave(t, "recovered", "none")
       \/ /\ IsPending(j) /\ cancel[j]
          /\ SetStatus(j, "CANCELLED")
          /\ Leave(t, "recovered", "none")
       \/ /\ IsPending(j) /\ ~cancel[j]
          /\ IF status[j] = "RUNNING"
             THEN /\ status' = [status EXCEPT ![j] = "ACCEPTED"]
                  /\ attempt' = [attempt EXCEPT ![j] = IF @ > 0 THEN @ - 1 ELSE 0]
                  /\ UNCHANGED cancel
             ELSE UNCHANGED stored
          /\ Leave(t, "recovered", "requeue")
    /\ UNCHANGED <<lease, service, slots, life, history>>

ReleaseRecovered(t) ==
    /\ At(t, "recovered")
    /\ lease' = [lease EXCEPT ![job[t]] = NoThread]
    /\ IF t \in Watchers
       THEN Leave(t, IF due[t] = "requeue" /\ ~Stopping(Home[t]) THEN "discard" ELSE "leaving", "none")
       ELSE IF due[t] = "requeue" THEN Leave(t, "requeue", "none") ELSE Return(t)
    /\ UNCHANGED <<stored, service, slots, life, history>>

(* Mutant: the watcher stays registered while it enqueues the job. *)
WatcherKeeps(w) ==
    /\ At(w, "discard")
    /\ Goto(w, "requeue")
    /\ UNCHANGED <<stored, lease, service, slots, life, history>>

WatcherDiscards(w) ==
    /\ At(w, "discard")
    /\ watched' = [watched EXCEPT ![Home[w]] = @ \ {job[w]}]
    /\ Goto(w, "requeue")
    /\ UNCHANGED <<stored, lease, queue, registered, timers, firing, slots, life, history>>

EnqueueRecovered(t) ==
    /\ At(t, "requeue")
    /\ Enqueue(Home[t], job[t])
    /\ IF t \in Watchers THEN Goto(t, "leaving") ELSE Return(t)
    /\ UNCHANGED <<stored, lease, timers, firing, slots, life, history>>

(* The finally of watch(): discards whatever is registered by then. *)
WatcherLeaves(w) ==
    /\ At(w, "leaving")
    /\ watched' = [watched EXCEPT ![Home[w]] = @ \ {job[w]}]
    /\ Return(w)
    /\ UNCHANGED <<stored, lease, queue, registered, timers, firing, slots, life, history>>

-----------------------------------------------------------------------------
(* The process: startup, replay, shutdown, exit, crash. *)

(* Mutant: only jobs found RUNNING are recovered. *)
StartProcessRunningOnly(p) ==
    /\ mode[p] = "down" /\ starts < MaxStarts
    /\ mode' = [mode EXCEPT ![p] = "starting"]
    /\ todo' = [todo EXCEPT ![p] = {j \in Jobs : status[j] = "RUNNING"}]
    /\ starts' = starts + 1
    /\ UNCHANGED <<stored, lease, service, slots, local, history>>

(* recover_pending_jobs reads the records once and works through them. *)
StartProcess(p) ==
    /\ mode[p] = "down" /\ starts < MaxStarts
    /\ mode' = [mode EXCEPT ![p] = "starting"]
    /\ todo' = [todo EXCEPT ![p] = {j \in Jobs : IsPending(j)}]
    /\ starts' = starts + 1
    /\ UNCHANGED <<stored, lease, service, slots, local, history>>

RecoverNext(m, j) ==
    LET p == Home[m] IN
    /\ At(m, "idle") /\ mode[p] = "starting" /\ j \in todo[p]
    /\ todo' = [todo EXCEPT ![p] = @ \ {j}]
    /\ job' = [job EXCEPT ![m] = j]
    /\ IF lease[j] = NoThread
       THEN lease' = [lease EXCEPT ![j] = m] /\ pc' = [pc EXCEPT ![m] = "recover"]
       ELSE UNCHANGED lease /\ pc' = [pc EXCEPT ![m] = "watch"]
    /\ UNCHANGED <<stored, service, slots, mode, starts, due, history>>

(* The consumer is installed once every job is recovered ... *)
InstallConsumer(m) ==
    LET p == Home[m] IN
    /\ At(m, "idle") /\ mode[p] = "starting" /\ todo[p] = {}
    /\ mode' = [mode EXCEPT ![p] = "replaying"]
    /\ UNCHANGED <<stored, lease, service, slots, todo, starts, local, history>>

(* Mutant: the server starts without replaying persisted events. *)
ReplayNothing(m) ==
    LET p == Home[m] IN
    /\ mode[p] = "replaying"
    /\ mode' = [mode EXCEPT ![p] = "serving"]
    /\ UNCHANGED <<stored, lease, service, slots, todo, starts, local, history>>

(* ... and then every event a successful job persisted is replayed to it. *)
Replay(m) ==
    LET p == Home[m] IN
    /\ mode[p] = "replaying"
    /\ mode' = [mode EXCEPT ![p] = "serving"]
    /\ handed' = handed \cup {j \in Jobs : status[j] = "SUCCESSFUL"}
    /\ UNCHANGED <<stored, lease, service, slots, todo, starts, local, failures>>

(* The lifespan's shutdown: no consumer, the stop event, no timers. *)
Shutdown(p) ==
    /\ mode[p] = "serving" /\ starts < MaxStarts
    /\ mode' = [mode EXCEPT ![p] = "stopping"]
    /\ timers' = [timers EXCEPT ![p] = {}]
    /\ UNCHANGED <<stored, lease, queue, registered, firing, watched, slots, todo, starts, local, history>>

(* executor.shutdown(wait=False, cancel_futures=True) *)
CloseExecutor(p) ==
    /\ mode[p] = "stopping"
    /\ mode' = [mode EXCEPT ![p] = "closed"]
    /\ queue' = [queue EXCEPT ![p] = <<>>]
    /\ registered' = [registered EXCEPT ![p] = {j \in @ : ~Queued(p, j)}]
    /\ UNCHANGED <<stored, lease, timers, firing, watched, slots, todo, starts, local, history>>

(* What the death of a process leaves: the operating system drops its      *)
(* leases, and nothing volatile survives.                                  *)
Die(p) ==
    /\ mode' = [mode EXCEPT ![p] = "down"]
    /\ lease' = [j \in Jobs |-> IF lease[j] \in Threads /\ Home[lease[j]] = p THEN NoThread ELSE lease[j]]
    /\ todo' = [todo EXCEPT ![p] = {}]
    /\ queue' = [queue EXCEPT ![p] = <<>>]
    /\ registered' = [registered EXCEPT ![p] = {}]
    /\ timers' = [timers EXCEPT ![p] = {}]
    /\ firing' = [firing EXCEPT ![p] = {}]
    /\ watched' = [watched EXCEPT ![p] = {}]
    /\ free' = [free EXCEPT ![p] = Slots]
    /\ foreign' = [foreign EXCEPT ![p] = 0]
    /\ pc' = [t \in Threads |-> IF Home[t] = p THEN "idle" ELSE pc[t]]
    /\ job' = [t \in Threads |-> IF Home[t] = p THEN NoJob ELSE job[t]]
    /\ due' = [t \in Threads |-> IF Home[t] = p THEN "none" ELSE due[t]]
    /\ UNCHANGED <<stored, openeo, starts, history>>

(* The interpreter joins the pool threads and then exits, taking the       *)
(* daemon threads (watchers, timers) with it.                              *)
Exit(p) ==
    /\ mode[p] = "closed"
    /\ \A t \in Workers : Home[t] = p => At(t, "idle")
    /\ Die(p)

Crash(p) ==
    /\ mode[p] # "down" /\ starts < MaxStarts
    /\ Die(p)

(* openEO jobs of the process share the slots. *)
OpenEOTakesSlot(p) ==
    /\ HasConsumer(p) /\ openeo[p] > 0 /\ free[p] > 0
    /\ free' = [free EXCEPT ![p] = @ - 1]
    /\ foreign' = [foreign EXCEPT ![p] = @ + 1]
    /\ openeo' = [openeo EXCEPT ![p] = @ - 1]
    /\ UNCHANGED <<stored, lease, service, life, local, history>>

OpenEOReturnsSlot(p) ==
    /\ foreign[p] > 0
    /\ free' = [free EXCEPT ![p] = @ + 1]
    /\ foreign' = [foreign EXCEPT ![p] = @ - 1]
    /\ UNCHANGED <<stored, lease, service, openeo, life, local, history>>

-----------------------------------------------------------------------------
HandlerStep(h) ==
    \/ EnqueueCreated(h) \/ ConsumeInline(h)
    \/ PopTimer(h) \/ CancelFuture(h) \/ WriteCancelled(h)

ExecutionEnds(t) == Succeed(t) \/ StopCooperatively(t) \/ Fail(t)

WorkerStep(t) ==
    \/ PickUp(t) \/ TryLease(t) \/ ReadUnderLease(t) \/ CheckCancelled(t)
    \/ SlotWon(t) \/ SlotRefused(t) \/ AfterRefusal(t) \/ StartAttempt(t)
    \/ ExecutionEnds(t) \/ ConsumeEvents(t) \/ ReleaseSlot(t) \/ ReleaseLease(t)
    \/ PopFuture(t) \/ ScheduleRetry(t) \/ RecheckCancelled(t) \/ RetryNow(t)
    \/ StartWatcher(t)

RecoveryStep(t) == Recover(t) \/ ReleaseRecovered(t) \/ EnqueueRecovered(t)

WatcherStep(w) ==
    WatcherLease(w) \/ WatcherStops(w) \/ RecoveryStep(w) \/ WatcherDiscards(w) \/ WatcherLeaves(w)

MainStep(m) ==
    \/ \E j \in Jobs : RecoverNext(m, j)
    \/ RecoveryStep(m) \/ StartWatcher(m) \/ InstallConsumer(m) \/ Replay(m)

TimerStep(p, j) == TimerFires(p, j) \/ EnqueueRetry(p, j)

Request == \E h \in Handlers, j \in Jobs : Create(h, j) \/ RecordCompleted(h, j) \/ RequestCancel(h, j)

ProcessStep(p) ==
    \/ StartProcess(p) \/ Shutdown(p) \/ CloseExecutor(p) \/ Exit(p) \/ Crash(p)
    \/ OpenEOTakesSlot(p) \/ OpenEOReturnsSlot(p)

Next ==
    \/ Request
    \/ \E h \in Handlers : HandlerStep(h)
    \/ \E t \in Workers : WorkerStep(t)
    \/ \E w \in Watchers : WatcherStep(w)
    \/ \E m \in Mains : MainStep(m)
    \/ \E p \in Procs, j \in Jobs : TimerStep(p, j)
    \/ \E p \in Procs : ProcessStep(p)

Spec == Init /\ [][Next]_vars

(* Threads the operating system schedules make progress, a process         *)
(* function returns or raises in the end, timers fire, an openEO job gives *)
(* its slot back, and a server that went down is started again while the   *)
(* bound allows.  Nothing forces a request, a shutdown or a crash.         *)
Fairness ==
    /\ \A h \in Handlers : WF_vars(HandlerStep(h))
    /\ \A t \in Workers : WF_vars(WorkerStep(t))
    /\ \A w \in Watchers : WF_vars(WatcherStep(w))
    /\ \A m \in Mains : WF_vars(MainStep(m))
    /\ \A p \in Procs, j \in Jobs : WF_vars(TimerStep(p, j))
    /\ \A p \in Procs : /\ WF_vars(StartProcess(p))
                        /\ WF_vars(CloseExecutor(p) \/ Exit(p))
                        /\ WF_vars(OpenEOReturnsSlot(p))

FairSpec == Spec /\ Fairness

-----------------------------------------------------------------------------
(* Properties. *)

HandlerAt == {"idle", "created", "consumeInline", "popTimer", "cancelFuture", "writeCancelled"}
HoldsSlot == {"won", "run", "consume", "releaseSlot"}
WorkerLeased == HoldsSlot \cup {"leased", "check", "slot", "refused", "unlease"}
WorkerAt  == WorkerLeased \cup {"idle", "picked", "pop", "retry", "armed", "retryNow", "watch"}
WatcherAt == {"idle", "watching", "recover", "recovered", "discard", "requeue", "leaving"}
MainAt    == {"idle", "watch", "recover", "recovered", "requeue"}

StoreType ==
    /\ status \in [Jobs -> {"none"} \cup Pending \cup Terminal]
    /\ attempt \in [Jobs -> Nat]
    /\ cancel \in [Jobs -> BOOLEAN]
    /\ lease \in [Jobs -> Threads \cup {NoThread}]
    /\ failures \in [Jobs -> Nat]
    /\ handed \in SUBSET Jobs

ServiceType ==
    /\ mode \in [Procs -> Modes]
    /\ starts \in Nat
    /\ todo \in [Procs -> SUBSET Jobs]
    /\ queue \in [Procs -> Seq(Jobs)]
    /\ registered \in [Procs -> SUBSET Jobs]
    /\ timers \in [Procs -> SUBSET Jobs]
    /\ firing \in [Procs -> SUBSET Jobs]
    /\ watched \in [Procs -> SUBSET Jobs]

SlotsType ==
    /\ free \in [Procs -> Nat]
    /\ foreign \in [Procs -> Nat]
    /\ openeo \in [Procs -> Nat]

ThreadType ==
    /\ pc \in [Threads -> HandlerAt \cup WorkerAt \cup WatcherAt \cup MainAt]
    /\ job \in [Threads -> Jobs \cup {NoJob}]
    /\ due \in [Threads -> {"none", "watch", "retry", "requeue"}]
    /\ \A t \in Threads : pc[t] # "idle" => job[t] \in Jobs
    /\ \A t \in Workers : pc[t] \in WorkerAt /\ due[t] # "requeue"
    /\ \A w \in Watchers : pc[w] \in WatcherAt
    /\ \A m \in Mains : pc[m] \in MainAt
    /\ \A h \in Handlers : pc[h] \in HandlerAt

(* Every variable has its type: jobs.json holds a known status and an      *)
(* attempt count, a lease has one holder at most, the semaphore never goes *)
(* below zero, and each thread is at a step of the function it runs with a *)
(* job in hand.                                                            *)
TypeOK == StoreType /\ ServiceType /\ SlotsType /\ ThreadType

(* A job executes in at most one thread of one process: whoever runs an    *)
(* attempt is the one holder of the job's lease, and the record says       *)
(* RUNNING for as long as the process function runs, across restarts that  *)
(* overlap, takeovers, retries and cancellations.                          *)
ExecutionIsExclusive ==
    \A t \in Workers : pc[t] = "run" =>
        /\ status[job[t]] = "RUNNING"
        /\ lease[job[t]] = t
        /\ \A u \in Workers \ {t} : ~(pc[u] = "run" /\ job[u] = job[t])

(* The attempt count of a job that waits to run is the number of attempts  *)
(* that really failed, within max_attempts: an attempt a crash or restart  *)
(* interrupted is given back, however often recovery runs.                 *)
BudgetCountsFailures ==
    \A j \in Jobs :
        /\ status[j] \in {"ACCEPTED", "RETRYING"} => attempt[j] = failures[j] /\ failures[j] < MaxAttempts
        /\ status[j] = "RUNNING" => attempt[j] = failures[j] + 1 /\ failures[j] < MaxAttempts
        /\ status[j] = "FAILED" => failures[j] = MaxAttempts

(* However many processes share the store, a job never fails more often    *)
(* than max_attempts allows, and recovery never gives back an attempt that *)
(* really failed.                                                          *)
FailuresWithinBudget ==
    \A j \in Jobs :
        /\ failures[j] <= MaxAttempts
        /\ status[j] \in {"ACCEPTED", "RETRYING"} => failures[j] <= attempt[j] /\ failures[j] < MaxAttempts
        /\ status[j] = "RUNNING" => failures[j] < attempt[j] /\ failures[j] < MaxAttempts

(* No slot is lost or given back twice: the semaphore and the holders add  *)
(* up to the configured limit whatever way an attempt ended.               *)
SlotsBalanced ==
    \A p \in Procs :
        free[p] + foreign[p] + Cardinality({t \in Workers : Home[t] = p /\ pc[t] \in HoldsSlot}) = Slots

(* What one server counts is right: attempts and slots alike. *)
CountsAreRight == BudgetCountsFailures /\ SlotsBalanced

(* The inductive invariant behind ExecutionIsExclusive, TerminalIsFinal    *)
(* and FailuresWithinBudget.  Whoever decides about a job's execution      *)
(* holds its lease; ...                                                    *)
LeaseInv ==
    /\ \A t \in Workers : pc[t] \in WorkerLeased => lease[job[t]] = t
    /\ \A t \in Watchers \cup Mains : pc[t] \in {"recover", "recovered"} => lease[job[t]] = t

(* ... a job under way to an attempt has no result yet; ... *)
RunInv ==
    \A t \in Workers :
        /\ pc[t] = "run" => status[job[t]] = "RUNNING"
        /\ pc[t] \in {"check", "slot", "refused", "won"} => status[job[t]] \in Pending \cup {"CANCELLED"}

(* ... a request that may still write CANCELLED set the flag before, which *)
(* keeps every worker from starting the job; ...                           *)
CancelInv ==
    /\ \A j \in Jobs : status[j] = "CANCELLED" => cancel[j]
    /\ \A h \in Handlers : pc[h] \in {"popTimer", "cancelFuture", "writeCancelled"} =>
          cancel[job[h]] /\ status[job[h]] \in {"ACCEPTED", "RETRYING", "CANCELLED"}

(* ... and the budget holds, from a record that has not failed yet. *)
BudgetInv ==
    /\ \A j \in Jobs : status[j] = "none" => failures[j] = 0
    /\ FailuresWithinBudget

IInv == LeaseInv /\ RunInv /\ CancelInv /\ BudgetInv

(* Who, in process p, will see to job j: its future, a worker on it, a     *)
(* retry timer, a watcher, or a thread about to write or enqueue it.       *)
Custodians(p, j) ==
    {t \in Threads : /\ Home[t] = p /\ job[t] = j
                     /\ pc[t] \in WorkerLeased \cup {"picked", "pop", "retry", "watch", "created",
                                  "writeCancelled", "watching", "recover", "recovered", "discard", "requeue"}}
    \cup {q \in {"queued"} : Queued(p, j) /\ j \in registered[p]}
    \cup {q \in {"timer"} : j \in timers[p]}
    \cup {q \in {"firing"} : j \in firing[p]}
    \cup {q \in {"todo"} : j \in todo[p]}

(* Within a process a job has one custodian at most: it is never queued    *)
(* while a worker, timer or watcher still has it, and never watched twice. *)
SingleCustody ==
    \A p \in Procs, j \in Jobs : Cardinality(Custodians(p, j)) <= 1

(* A process that answers for an unfinished job keeps answering for it:    *)
(* custody passes from worker to timer to watcher and back without a gap,  *)
(* until the job is terminal or the process shuts down or dies.            *)
NeverAbandoned ==
    [][\A p \in Procs, j \in Jobs :
          Custodians(p, j) # {} /\ Custodians(p, j)' = {} =>
              IsTerminal(j)' \/ Stopping(p)' \/ mode'[p] = "down"]_vars

(* A process's unfinished jobs are in one hand each, at every moment. *)
CustodyKept == []SingleCustody /\ NeverAbandoned

(* A terminal status is final, in every process: no late worker, recovery, *)
(* takeover or cancellation rewrites it.                                   *)
TerminalIsFinal ==
    [][\A j \in Jobs : IsTerminal(j) => status'[j] = status[j]]_vars

(* Every job that was accepted ends, through retries, crashes and restarts,*)
(* and the events of one that succeeded reach the consumer, even when the  *)
(* process stopped between persisting and consuming them.                  *)
EveryJobEnds ==
    \A j \in Jobs : IsPending(j) ~> (IsTerminal(j) /\ (status[j] = "SUCCESSFUL" => j \in handed))

(* What the record of a job promises, whoever processes it. *)
Lifecycle == INSTANCE JobLifecycle WITH
    state <- [j \in Jobs |-> IF status[j] \in {"ACCEPTED", "RETRYING"} THEN "waiting"
                             ELSE IF status[j] = "RUNNING" THEN "running" ELSE status[j]],
    failed <- failures,
    asked <- cancel

(* Every behaviour of the service is one of the abstract job lifecycle. *)
ImplementsLifecycle == Lifecycle!Spec

=============================================================================
