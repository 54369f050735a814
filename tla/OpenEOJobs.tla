----------------------------- MODULE OpenEOJobs -----------------------------
(***************************************************************************)
(* The openEO batch job runtime (openeo/jobs.py) with the publication      *)
(* protocol of a managed dataset.                                          *)
(*                                                                         *)
(* A job that saves into a managed dataset commits to the dataset's store, *)
(* which is not the job store: a crash can fall between the two.  The job  *)
(* record therefore carries its publication: planned before the store is   *)
(* touched, committing from the cancellation gate on, completed with the   *)
(* event once the commit is registered.  Whoever finds it committing looks *)
(* for the job's own commit in the store's history.                        *)
(*                                                                         *)
(* Processes, leases, the executor, retry timers, takeover watchers and    *)
(* the granularity of actions are as in NativeJobs; the slot semaphore,    *)
(* modelled there, is a wait that ends.  All managed jobs publish the same *)
(* dataset, which ingestions and syncs write too, under one writer lock.   *)
(***************************************************************************)
EXTENDS Naturals, Sequences, FiniteSets

CONSTANTS
    Jobs,          \* job ids
    Triggered,     \* those created by a workflow trigger
    Managed,       \* those whose process graph saves into the managed dataset
    Cancellable,   \* those a user asks to cancel
    Procs,         \* operating-system processes that can run the server
    Workers,       \* pool threads, of all processes
    Watchers,      \* takeover watcher threads, of all processes
    Mains,         \* main threads, one per process
    Handlers,      \* request threads, of all processes
    Home,          \* the process of each thread
    MaxAttempts,   \* max_attempts of a triggered job; another job has one
    MaxRuns,       \* bound: runs asked of one job
    MaxStarts,     \* bound: process starts in one behaviour
    MaxIngests,    \* bound: writes of the dataset by ingestions and syncs
    NoThread,      \* nobody holds the lock
    NoJob,         \* an idle thread has no job
    Ingest         \* an ingestion or sync as holder of the writer lock

Threads == Workers \cup Watchers \cup Mains \cup Handlers

ASSUME ThreadAssumption ==
    /\ Home \in [Threads -> Procs]
    /\ NoThread \notin Threads \cup {Ingest}
    /\ Ingest \notin Threads
    /\ Workers \cap (Watchers \cup Mains \cup Handlers) = {}
    /\ Watchers \cap (Mains \cup Handlers) = {}
    /\ Mains \cap Handlers = {}

ASSUME JobAssumption ==
    /\ Triggered \subseteq Jobs /\ Managed \subseteq Jobs /\ Cancellable \subseteq Jobs
    /\ NoJob \notin Jobs

ASSUME BoundAssumption ==
    /\ MaxAttempts \in Nat \ {0}
    /\ MaxRuns \in Nat /\ MaxStarts \in Nat /\ MaxIngests \in Nat

VARIABLES
    rec,                        \* jobs.json: the record of each job
    history,                    \* the commits of the dataset's store, oldest first
    writer, ingests,            \* who holds its writer lock; writes by ingestions (bound)
    lease,                      \* the thread holding a job's execution lease
    mode, todo, starts,         \* a process's life; its snapshot to recover; starts (bound)
    queue, registered,          \* the executor's queue; OpenEOJobService._futures not done
    timers, firing,             \* _retry_timers; those _retry_due popped, not yet enqueued
    watched,                    \* _watched
    pc, job,                    \* where a thread is, and the job it works on
    due,                        \* its local watch / retry_after / requeue / finished
    seen,                       \* its locals rerun, known and started.attempt
    runs,                       \* history: runs asked of a job (bound)
    dispatched                  \* history: events the consumer was given

dataset == <<history, writer, ingests>>
life    == <<mode, todo, starts>>
service == <<queue, registered, timers, firing, watched>>
local   == <<pc, job, due, seen>>
ghosts  == <<runs, dispatched>>
vars    == <<rec, dataset, lease, life, service, local, ghosts>>

Active == {"queued", "running"}
Ended  == {"finished", "error", "canceled"}
Modes  == {"down", "recovering", "reconciling", "replaying", "serving", "stopping", "closed"}

NoPub  == [state |-> "none", base |-> 0, tag |-> 0, snap |-> 0]
NoSeen == [rerun |-> FALSE, known |-> {}, attempt |-> 0]

(* max_attempts *)
Budget(j)      == IF j \in Triggered THEN MaxAttempts ELSE 1
IsActive(j)    == rec[j].status \in Active
IsEnded(j)     == rec[j].status \in Ended
Stopping(p)    == mode[p] \in {"stopping", "closed"}
HasConsumer(p) == mode[p] \in {"recovering", "reconciling", "replaying", "serving"}
Queued(p, j)   == \E i \in DOMAIN queue[p] : queue[p][i] = j

(* _commit_pending *)
CommitPending(j) == rec[j].pub.state = "committing"

Init ==
    /\ rec = [j \in Jobs |-> [status |-> "none", attempt |-> 0, cancel |-> FALSE, waiting |-> FALSE,
                              publishing |-> FALSE, pub |-> NoPub, events |-> {}]]
    /\ history = <<>> /\ writer = NoThread /\ ingests = 0
    /\ lease = [j \in Jobs |-> NoThread]
    /\ mode = [p \in Procs |-> "down"]
    /\ todo = [p \in Procs |-> {}]
    /\ starts = 0
    /\ queue = [p \in Procs |-> <<>>]
    /\ registered = [p \in Procs |-> {}]
    /\ timers = [p \in Procs |-> {}]
    /\ firing = [p \in Procs |-> {}]
    /\ watched = [p \in Procs |-> {}]
    /\ pc = [t \in Threads |-> "idle"]
    /\ job = [t \in Threads |-> NoJob]
    /\ due = [t \in Threads |-> "none"]
    /\ seen = [t \in Threads |-> NoSeen]
    /\ runs = [j \in Jobs |-> 0]
    /\ dispatched = [j \in Jobs |-> {}]

-----------------------------------------------------------------------------
(* Thread steps, and the helpers of the service that several of them call. *)

At(t, l)   == pc[t] = l
Goto(t, l) == pc' = [pc EXCEPT ![t] = l] /\ UNCHANGED <<job, due, seen>>
Leave(t, l, d) == /\ pc' = [pc EXCEPT ![t] = l]
                  /\ due' = [due EXCEPT ![t] = d]
                  /\ UNCHANGED <<job, seen>>
Begin(t, l, j) == /\ pc' = [pc EXCEPT ![t] = l]
                  /\ job' = [job EXCEPT ![t] = j]
                  /\ UNCHANGED <<due, seen>>
Return(t)  == /\ pc' = [pc EXCEPT ![t] = "idle"]
              /\ job' = [job EXCEPT ![t] = NoJob]
              /\ due' = [due EXCEPT ![t] = "none"]
              /\ seen' = [seen EXCEPT ![t] = NoSeen]

(* store_update_job: a record takes the place of the one before it. *)
Save(j, r) == rec' = [rec EXCEPT ![j] = r]

(* _enqueue.  A job whose future is not done is not queued twice; once the *)
(* executor is shut down, submit raises.                                   *)
Enqueue(p, j) ==
    /\ IF j \in registered[p] \/ mode[p] = "closed"
       THEN UNCHANGED <<queue, registered>>
       ELSE /\ queue' = [queue EXCEPT ![p] = Append(@, j)]
            /\ registered' = [registered EXCEPT ![p] = @ \cup {j}]
    /\ UNCHANGED watched

(* Mutant: any commit above the base is taken for the attempt's own. *)
CommittedSnapshotAny(j) ==
    LET own == {i \in DOMAIN history : i > rec[j].pub.base}
    IN  IF own = {} THEN 0 ELSE CHOOSE i \in own : \A k \in own : k <= i

(* Mutant: the search does not stop at the base. *)
CommittedSnapshotEver(j) ==
    LET own == {i \in DOMAIN history : history[i] = [job |-> j, tag |-> rec[j].pub.tag]}
    IN  IF own = {} THEN 0 ELSE CHOOSE i \in own : \A k \in own : k <= i

(* committed_snapshot: the newest commit above the base whose message      *)
(* names this job and attempt; 0 when there is none.                       *)
CommittedSnapshot(j) ==
    LET own == {i \in DOMAIN history : /\ i > rec[j].pub.base
                                       /\ history[i] = [job |-> j, tag |-> rec[j].pub.tag]}
    IN  IF own = {} THEN 0 ELSE CHOOSE i \in own : \A k \in own : k <= i

(* complete_managed_publication: outcome and event in one write. *)
Complete(j, i) ==
    Save(j, [rec[j] EXCEPT !.pub = [@ EXCEPT !.state = "completed", !.snap = i], !.events = @ \cup {i}])

(* The two ways _reconcile_commit resolves a committing publication.  It   *)
(* holds the writer lock meanwhile, and raises when it cannot take it or   *)
(* when the dataset cannot be registered.                                  *)
ReconcileFinds(j) ==
    /\ CommitPending(j) /\ writer = NoThread
    /\ CommittedSnapshot(j) # 0
    /\ Complete(j, CommittedSnapshot(j))

ReconcileFindsNothing(j) ==
    /\ CommitPending(j) /\ writer = NoThread
    /\ CommittedSnapshot(j) = 0
    /\ Save(j, [rec[j] EXCEPT !.pub = NoPub, !.publishing = FALSE])

(* _finish *)
Finish(j) ==
    Save(j, IF rec[j].cancel
            THEN [rec[j] EXCEPT !.status = "canceled"]
            ELSE [rec[j] EXCEPT !.status = "finished", !.publishing = FALSE])

(* _dispatch_events: without a consumer the events wait for a replay. *)
Dispatch(t, events) ==
    /\ dispatched' = IF HasConsumer(Home[t])
                     THEN [dispatched EXCEPT ![job[t]] = @ \cup events] ELSE dispatched
    /\ UNCHANGED runs

-----------------------------------------------------------------------------
(* Request handlers. *)

CreateJob(h, j) ==
    /\ At(h, "idle") /\ mode[Home[h]] = "serving"
    /\ j \notin Triggered /\ rec[j].status = "none"
    /\ Save(j, [rec[j] EXCEPT !.status = "created"])
    /\ UNCHANGED <<dataset, lease, life, service, local, ghosts>>

(* create_triggered_job: the event may come again, and finds the job it    *)
(* created.                                                                *)
CreateTriggered(h, j) ==
    /\ At(h, "idle") /\ mode[Home[h]] = "serving"
    /\ j \in Triggered
    /\ IF rec[j].status = "none" THEN Save(j, [rec[j] EXCEPT !.status = "created"]) ELSE UNCHANGED rec
    /\ Begin(h, "claim", j)
    /\ UNCHANGED <<dataset, lease, life, service, ghosts>>

(* start_triggered_job: only one claim of a created job succeeds. *)
Claim(h) ==
    LET j == job[h] IN
    /\ At(h, "claim")
    /\ IF rec[j].status = "created"
       THEN /\ Save(j, [rec[j] EXCEPT !.status = "queued"])
            /\ runs' = [runs EXCEPT ![j] = @ + 1]
            /\ Goto(h, "enqueue")
       ELSE UNCHANGED <<rec, runs>> /\ Return(h)
    /\ UNCHANGED <<dataset, lease, life, service, dispatched>>

(* The result lease of a job is held from the read to the enqueueing. *)
ResultLeased(j) == \E h \in Handlers : job[h] = j /\ pc[h] \in {"restart", "restarted"}

(* start_job: an active job is refused or left alone ... *)
StartRead(h, j) ==
    /\ At(h, "idle") /\ mode[Home[h]] = "serving"
    /\ ~ResultLeased(j) /\ runs[j] < MaxRuns
    /\ rec[j].status \in {"created"} \cup Ended
    /\ Begin(h, "restart", j)
    /\ UNCHANGED <<rec, dataset, lease, life, service, ghosts>>

(* ... and any other is queued with a fresh budget.  The write does not    *)
(* look at the status again.                                               *)
StartWrite(h) ==
    LET j == job[h] IN
    /\ At(h, "restart")
    /\ Save(j, [rec[j] EXCEPT !.status = "queued", !.attempt = 0,
                            !.waiting = FALSE, !.cancel = FALSE])
    /\ runs' = [runs EXCEPT ![j] = @ + 1]
    /\ Goto(h, "restarted")
    /\ UNCHANGED <<dataset, lease, life, service, dispatched>>

EnqueueRequested(h) ==
    /\ pc[h] \in {"enqueue", "restarted"}
    /\ Enqueue(Home[h], job[h])
    /\ Return(h)
    /\ UNCHANGED <<rec, dataset, lease, life, timers, firing, ghosts>>

(* future.cancel(): the executor passes over it.  A job is queued once.    *)
Without(q, j) ==
    LET at == {i \in DOMAIN q : q[i] = j}
    IN  IF at = {} THEN q
        ELSE [i \in 1..(Len(q) - 1) |-> IF \E k \in at : k <= i THEN q[i + 1] ELSE q[i]]

(* cancel_job: stop the future or the retry timer under the service's      *)
(* lock.  The read before it only refuses early; a job that ends in        *)
(* between has neither.                                                    *)
CancelWaiting(h, j) ==
    LET p == Home[h]
        unstarted == j \in registered[p] /\ Queued(p, j) IN
    /\ At(h, "idle") /\ mode[p] = "serving"
    /\ j \in Cancellable /\ IsActive(j)
    /\ queue' = [queue EXCEPT ![p] = Without(@, j)]
    /\ registered' = [registered EXCEPT ![p] = IF unstarted THEN @ \ {j} ELSE @]
    /\ timers' = [timers EXCEPT ![p] = @ \ {j}]
    /\ pc' = [pc EXCEPT ![h] = "cancel"]
    /\ job' = [job EXCEPT ![h] = j]
    /\ due' = [due EXCEPT ![h] = IF unstarted \/ j \in timers[p] THEN "before" ELSE "none"]
    /\ UNCHANGED <<rec, dataset, lease, life, firing, watched, seen, ghosts>>

(* Mutant: a job past the gate accepts the request. *)
CancelWriteAlways(h) ==
    LET j == job[h] IN
    /\ At(h, "cancel")
    /\ IF ~IsActive(j) THEN UNCHANGED rec
       ELSE IF due[h] = "before" /\ rec[j].status = "queued"
       THEN Save(j, [rec[j] EXCEPT !.status = "canceled"])
       ELSE Save(j, [rec[j] EXCEPT !.cancel = TRUE])
    /\ Return(h)
    /\ UNCHANGED <<dataset, lease, life, service, ghosts>>

(* The store mutation decides: refused once the job ended or publishes,    *)
(* at once when nothing had started, else by a flag.                       *)
CancelWrite(h) ==
    LET j == job[h] IN
    /\ At(h, "cancel")
    /\ IF ~IsActive(j) \/ rec[j].publishing THEN UNCHANGED rec
       ELSE IF due[h] = "before" /\ rec[j].status = "queued"
       THEN Save(j, [rec[j] EXCEPT !.status = "canceled"])
       ELSE Save(j, [rec[j] EXCEPT !.cancel = TRUE])
    /\ Return(h)
    /\ UNCHANGED <<dataset, lease, life, service, ghosts>>

-----------------------------------------------------------------------------
(* Pool threads: _run_job, _execute_in_slot and _execute. *)

PickUp(t) ==
    LET p == Home[t] IN
    /\ At(t, "idle") /\ queue[p] # <<>>
    /\ queue' = [queue EXCEPT ![p] = Tail(@)]
    /\ Begin(t, "picked", Head(queue[p]))
    /\ UNCHANGED <<rec, dataset, lease, life, registered, timers, firing, watched, ghosts>>

(* Mutant: the lease is a shared lock, so a second process wins it too. *)
TryLeaseShared(t) ==
    /\ At(t, "picked")
    /\ lease' = [lease EXCEPT ![job[t]] = t]
    /\ Goto(t, "leased")
    /\ UNCHANGED <<rec, dataset, life, service, ghosts>>

TryLease(t) ==
    /\ At(t, "picked")
    /\ IF lease[job[t]] = NoThread
       THEN lease' = [lease EXCEPT ![job[t]] = t] /\ Goto(t, "leased")
       ELSE UNCHANGED lease /\ Leave(t, "pop", "watch")
    /\ UNCHANGED <<rec, dataset, life, service, ghosts>>

(* Mutant: a job queued before its backoff passed runs at once. *)
ReadUnderLeaseEarly(t) ==
    /\ At(t, "leased")
    /\ Goto(t, IF rec[job[t]].status = "queued" THEN "slot" ELSE "unlease")
    /\ UNCHANGED <<rec, dataset, lease, life, service, ghosts>>

(* Mutant: the status is not looked at again under the lease. *)
ReadUnderLeaseAny(t) ==
    /\ At(t, "leased")
    /\ IF rec[job[t]].waiting THEN Leave(t, "unlease", "retry") ELSE Goto(t, "slot")
    /\ UNCHANGED <<rec, dataset, lease, life, service, ghosts>>

(* The re-read under the lease: another process may have finished or       *)
(* cancelled the job, or its backoff may not have passed.                  *)
ReadUnderLease(t) ==
    LET r == rec[job[t]] IN
    /\ At(t, "leased")
    /\ IF r.status = "queued" /\ r.waiting
       THEN Leave(t, "unlease", "retry")
       ELSE Goto(t, IF r.status = "queued" THEN "slot" ELSE "unlease")
    /\ UNCHANGED <<rec, dataset, lease, life, service, ghosts>>

(* _execute_in_slot: the wait ends with a slot, with a cancellation (which *)
(* _execute records), or with the shutdown, which leaves the job QUEUED.   *)
WaitForSlot(t) ==
    /\ At(t, "slot")
    /\ Goto(t, IF Stopping(Home[t]) THEN "unlease" ELSE "read")
    /\ UNCHANGED <<rec, dataset, lease, life, service, ghosts>>

(* The head of _execute: the record decides whether to run, what of it is  *)
(* an earlier run's, and which events are known.                           *)
ReadRecord(t) ==
    LET j == job[t] IN
    /\ At(t, "read")
    /\ IF rec[j].cancel
       THEN /\ Save(j, [rec[j] EXCEPT !.status = "canceled"])
            /\ Goto(t, "unlease")
       ELSE /\ seen' = [seen EXCEPT ![t] = [rerun |-> rec[j].attempt = 0, known |-> rec[j].events, attempt |-> 0]]
            /\ pc' = [pc EXCEPT ![t] = "start"]
            /\ UNCHANGED <<rec, job, due>>
    /\ UNCHANGED <<dataset, lease, life, service, ghosts>>

(* Mutant: every attempt starts without the publication of the last one. *)
StartAttemptFresh(t) ==
    LET j == job[t] IN
    /\ At(t, "start")
    /\ Save(j, [rec[j] EXCEPT !.status = "running", !.attempt = @ + 1, !.waiting = FALSE,
                            !.publishing = FALSE, !.pub = NoPub])
    /\ seen' = [seen EXCEPT ![t].attempt = rec[j].attempt + 1]
    /\ pc' = [pc EXCEPT ![t] = "clear"]
    /\ UNCHANGED <<job, due, dataset, lease, life, service, ghosts>>

(* The start mutation.  A publication left committing is kept, with its    *)
(* refusal of cancellations, until it is resolved; only the holder of the  *)
(* lease changes it, so it is the one just read.                           *)
StartAttempt(t) ==
    LET j == job[t] IN
    /\ At(t, "start")
    /\ Save(j, [rec[j] EXCEPT !.status = "running", !.attempt = @ + 1, !.waiting = FALSE,
                            !.publishing = CommitPending(j),
                            !.pub = IF CommitPending(j) THEN @ ELSE NoPub])
    /\ seen' = [seen EXCEPT ![t].attempt = rec[j].attempt + 1]
    /\ pc' = [pc EXCEPT ![t] = IF CommitPending(j) THEN "resolve" ELSE "clear"]
    /\ UNCHANGED <<job, due, dataset, lease, life, service, ghosts>>

(* A retry whose commit landed is finished by completing it; a re-run      *)
(* completes it and computes afresh.                                       *)
ResolvePending(t) ==
    /\ At(t, "resolve")
    /\ \/ ReconcileFinds(job[t]) /\ Goto(t, IF seen[t].rerun THEN "clear" ELSE "finish")
       \/ ReconcileFindsNothing(job[t]) /\ Goto(t, "clear")
    /\ UNCHANGED <<dataset, lease, life, service, ghosts>>

ClearOutput(t) ==
    /\ At(t, "clear")
    /\ Save(job[t], [rec[job[t]] EXCEPT !.publishing = FALSE, !.pub = NoPub])
    /\ Goto(t, "compute")
    /\ UNCHANGED <<dataset, lease, life, service, ghosts>>

(* The graph ran and its result is saved outside the managed store. *)
SavePlain(t) ==
    /\ At(t, "compute") /\ job[t] \notin Managed
    /\ Goto(t, "finish")
    /\ UNCHANGED <<rec, dataset, lease, life, service, ghosts>>

(* _plan_publication, under the writer lock: the intent, with the head of  *)
(* the store before the write and a commit message naming job and attempt. *)
PlanPublication(t) ==
    LET j == job[t] IN
    /\ At(t, "compute") /\ j \in Managed
    /\ writer = NoThread
    /\ writer' = t
    /\ Save(j, [rec[j] EXCEPT !.pub = [state |-> "planned", base |-> Len(history),
                                        tag |-> rec[j].attempt, snap |-> 0]])
    /\ Goto(t, "gate")
    /\ UNCHANGED <<history, ingests, lease, life, service, ghosts>>

(* Mutant: the gate does not refuse later cancellations. *)
EnterPublicationOpen(t) ==
    LET j == job[t] IN
    /\ At(t, "gate")
    /\ IF rec[j].cancel
       THEN writer' = NoThread /\ UNCHANGED rec /\ Goto(t, "cancelled")
       ELSE /\ Save(j, [rec[j] EXCEPT !.pub = [@ EXCEPT !.state = "committing"]])
            /\ UNCHANGED writer
            /\ Goto(t, "commit")
    /\ UNCHANGED <<history, ingests, lease, life, service, ghosts>>

(* _enter_publication: one write decides between cancelling and publishing.*)
EnterPublication(t) ==
    LET j == job[t] IN
    /\ At(t, "gate")
    /\ IF rec[j].cancel
       THEN writer' = NoThread /\ UNCHANGED rec /\ Goto(t, "cancelled")
       ELSE /\ Save(j, [rec[j] EXCEPT !.publishing = TRUE, !.pub = [@ EXCEPT !.state = "committing"]])
            /\ UNCHANGED writer
            /\ Goto(t, "commit")
    /\ UNCHANGED <<history, ingests, lease, life, service, ghosts>>

(* The store's commit. *)
Commit(t) ==
    /\ At(t, "commit")
    /\ history' = Append(history, [job |-> job[t], tag |-> rec[job[t]].pub.tag])
    /\ Goto(t, "complete")
    /\ UNCHANGED <<rec, writer, ingests, lease, life, service, ghosts>>

(* Registration and complete_managed_publication, then the writer lock.    *)
CompletePublication(t) ==
    /\ At(t, "complete")
    /\ Complete(job[t], Len(history))
    /\ writer' = NoThread
    /\ Goto(t, "finish")
    /\ UNCHANGED <<history, ingests, lease, life, service, ghosts>>

(* Any of these steps can raise: the graph, a busy writer lock, a refused  *)
(* plan, the commit, the registration, or the resolution of a pending one. *)
Raise(t) ==
    /\ pc[t] \in {"resolve", "compute", "gate", "commit", "complete"}
    /\ writer' = IF writer = t THEN NoThread ELSE writer
    /\ Goto(t, "failing")
    /\ UNCHANGED <<rec, history, ingests, lease, life, service, ghosts>>

(* A running computation notices the flag. *)
NoticeCancel(t) ==
    /\ At(t, "compute") /\ rec[job[t]].cancel
    /\ Goto(t, "cancelled")
    /\ UNCHANGED <<rec, dataset, lease, life, service, ghosts>>

RecordCancelled(t) ==
    /\ At(t, "cancelled")
    /\ Save(job[t], [rec[job[t]] EXCEPT !.status = "canceled", !.publishing = FALSE, !.pub = NoPub])
    /\ Goto(t, "unlease")
    /\ UNCHANGED <<dataset, lease, life, service, ghosts>>

FinishAttempt(t) ==
    /\ At(t, "finish")
    /\ Finish(job[t])
    /\ Goto(t, IF rec'[job[t]].status = "finished" THEN "notify" ELSE "unlease")
    /\ UNCHANGED <<dataset, lease, life, service, ghosts>>

(* _after_finished with the events this attempt produced, under the lease. *)
Notify(t) ==
    /\ At(t, "notify")
    /\ Dispatch(t, rec[job[t]].events \ seen[t].known)
    /\ Goto(t, "unlease")
    /\ UNCHANGED <<rec, dataset, lease, life, service>>

(* _complete_after_failure: a commit that landed is completed if it can be.*)
CompleteAfterFailure(t) ==
    LET j == job[t] IN
    /\ At(t, "failing")
    /\ \/ /\ Goto(t, IF rec[j].pub.state = "completed" THEN "finish" ELSE "failed")
          /\ UNCHANGED rec
       \/ ReconcileFinds(j) /\ Goto(t, "finish")
       \/ ReconcileFindsNothing(j) /\ Goto(t, "failed")
    /\ UNCHANGED <<dataset, lease, life, service, ghosts>>

(* _record_failure: a transient error within the budget is retried after a *)
(* backoff; a permanent one, and the last, are final.                      *)
RecordFailure(t) ==
    LET j == job[t] IN
    /\ At(t, "failed")
    /\ \/ /\ seen[t].attempt < Budget(j) /\ rec[j].cancel
          /\ Save(j, [rec[j] EXCEPT !.status = "canceled"])
          /\ Goto(t, "unlease")
       \/ /\ seen[t].attempt < Budget(j) /\ ~rec[j].cancel
          /\ Save(j, [rec[j] EXCEPT !.status = "queued", !.waiting = TRUE,
                                  !.publishing = CommitPending(j)])
          /\ Leave(t, "unlease", "retry")
       \/ /\ Save(j, [rec[j] EXCEPT !.status = "error", !.publishing = CommitPending(j)])
          /\ Goto(t, "unlease")
    /\ UNCHANGED <<dataset, lease, life, service, ghosts>>

ReleaseLease(t) ==
    /\ At(t, "unlease")
    /\ lease' = [lease EXCEPT ![job[t]] = NoThread]
    /\ Goto(t, "pop")
    /\ UNCHANGED <<rec, dataset, life, service, ghosts>>

(* Mutant: the finished worker stays registered. *)
PopFutureKept(t) ==
    /\ At(t, "pop")
    /\ IF due[t] = "none" THEN Return(t) ELSE Leave(t, due[t], "none")
    /\ UNCHANGED <<rec, dataset, lease, life, service, ghosts>>

PopFuture(t) ==
    /\ At(t, "pop")
    /\ registered' = [registered EXCEPT ![Home[t]] = @ \ {job[t]}]
    /\ IF due[t] = "none" THEN Return(t) ELSE Leave(t, due[t], "none")
    /\ UNCHANGED <<rec, dataset, lease, life, queue, timers, firing, watched, ghosts>>

-----------------------------------------------------------------------------
(* Backoff: _schedule_retry, called by a worker after its attempt and by a *)
(* recovery under the lease.                                               *)

EndRetry(t) == IF t \in Workers THEN Return(t) ELSE Leave(t, "recovered", "none")

ScheduleRetry(t) ==
    LET p == Home[t] IN
    /\ At(t, "retry")
    /\ IF Stopping(p)
       THEN UNCHANGED timers /\ EndRetry(t)
       ELSE timers' = [timers EXCEPT ![p] = @ \cup {job[t]}] /\ Goto(t, "armed")
    /\ UNCHANGED <<rec, dataset, lease, life, queue, registered, firing, watched, ghosts>>

(* A cancellation that found no timer to stop is applied now ... *)
RecheckCancelled(t) ==
    /\ At(t, "armed")
    /\ IF rec[job[t]].cancel THEN Goto(t, "disarm") ELSE EndRetry(t)
    /\ UNCHANGED <<rec, dataset, lease, life, service, ghosts>>

(* ... by _cancel_pending_retry, unless the timer fired meanwhile. *)
Disarm(t) ==
    LET p == Home[t] IN
    /\ At(t, "disarm")
    /\ timers' = [timers EXCEPT ![p] = @ \ {job[t]}]
    /\ IF job[t] \in timers[p] THEN Goto(t, "disarmed") ELSE EndRetry(t)
    /\ UNCHANGED <<rec, dataset, lease, life, queue, registered, firing, watched, ghosts>>

CancelDisarmed(t) ==
    LET j == job[t] IN
    /\ At(t, "disarmed")
    /\ IF rec[j].status = "queued" THEN Save(j, [rec[j] EXCEPT !.status = "canceled"]) ELSE UNCHANGED rec
    /\ EndRetry(t)
    /\ UNCHANGED <<dataset, lease, life, service, ghosts>>

(* _retry_due.  The timer fires once the backoff has passed, and requeues  *)
(* the job later: another process may have moved retry_at meanwhile.       *)
TimerFires(p, j) ==
    /\ j \in timers[p] /\ ~rec[j].waiting
    /\ timers' = [timers EXCEPT ![p] = @ \ {j}]
    /\ firing' = [firing EXCEPT ![p] = @ \cup {j}]
    /\ UNCHANGED <<rec, dataset, lease, life, queue, registered, watched, local, ghosts>>

EnqueueRetry(p, j) ==
    /\ j \in firing[p]
    /\ firing' = [firing EXCEPT ![p] = @ \ {j}]
    /\ Enqueue(p, j)
    /\ UNCHANGED <<rec, dataset, lease, life, timers, local, ghosts>>

(* retry_at passes. *)
BackoffPasses(j) ==
    /\ rec[j].waiting
    /\ Save(j, [rec[j] EXCEPT !.waiting = FALSE])
    /\ UNCHANGED <<dataset, lease, life, service, local, ghosts>>

-----------------------------------------------------------------------------
(* Recovery, by the main thread at startup and by takeover watchers.  A    *)
(* read and the write it leads to are one step: under the lease only a     *)
(* cancel flag can come between, and every write keeps it.                 *)

(* Mutant: an attempt is given back even to a job that had not started. *)
RecoverRefunds(t) ==
    /\ At(t, "recover") /\ IsActive(job[t]) /\ rec[job[t]].pub.state = "none"
    /\ Save(job[t], [rec[job[t]] EXCEPT !.status = "queued", !.attempt = @ - 1])
    /\ Leave(t, "recovered", "requeue")
    /\ UNCHANGED <<dataset, lease, life, service, ghosts>>

(* _recover on a job that is not publishing. *)
Recover(t) ==
    LET j == job[t]
        r == rec[j]
        unpublished == r.status = "queued" \/ (r.status = "running" /\ r.pub.state = "none") IN
    /\ At(t, "recover")
    /\ \/ /\ ~IsActive(j)
          /\ UNCHANGED rec
          /\ Leave(t, "recovered", "none")
       \/ /\ unpublished /\ r.cancel
          /\ Save(j, [rec[j] EXCEPT !.status = "canceled"])
          /\ Leave(t, "recovered", "none")
       \/ /\ r.status = "queued" /\ ~r.cancel
          /\ UNCHANGED rec
          /\ IF r.waiting THEN Leave(t, "retry", "none") ELSE Leave(t, "recovered", "requeue")
       \/ /\ r.status = "running" /\ unpublished /\ ~r.cancel
          /\ j \in Triggered /\ r.attempt < Budget(j)
          /\ Save(j, [rec[j] EXCEPT !.status = "queued", !.publishing = FALSE])
          /\ Leave(t, "recovered", "requeue")
       \/ /\ r.status = "running" /\ unpublished /\ ~r.cancel
          /\ ~(j \in Triggered /\ r.attempt < Budget(j))
          /\ Save(j, [rec[j] EXCEPT !.status = "error", !.publishing = FALSE])
          /\ Leave(t, "recovered", "none")
    /\ UNCHANGED <<dataset, lease, life, service, ghosts>>

(* Mutant: an interrupted commit is taken for one that never happened. *)
RecoverCommittingBlind(t) ==
    LET j == job[t] IN
    /\ At(t, "recover") /\ rec[j].status = "running" /\ CommitPending(j)
    /\ Save(j, [rec[j] EXCEPT !.pub = NoPub, !.publishing = FALSE])
    /\ Goto(t, "unpublished")
    /\ UNCHANGED <<dataset, lease, life, service, ghosts>>

(* _recover_publication on an interrupted commit: found, or nothing was    *)
(* published.                                                              *)
RecoverCommitting(t) ==
    LET j == job[t] IN
    /\ At(t, "recover") /\ rec[j].status = "running"
    /\ \/ ReconcileFinds(j) /\ Goto(t, "recover")
       \/ ReconcileFindsNothing(j) /\ Goto(t, "unpublished")
    /\ UNCHANGED <<dataset, lease, life, service, ghosts>>

(* It, or the recovery of an ERROR job, raises: the lease is given back    *)
(* and a watcher tries again.                                              *)
DeferRecovery(t) ==
    LET j == job[t] IN
    /\ \/ At(t, "recover") /\ rec[j].status = "running" /\ CommitPending(j)
       \/ At(t, "recoverFailed") /\ rec[j].status = "error" /\ CommitPending(j)
    /\ lease' = [lease EXCEPT ![j] = NoThread]
    /\ Leave(t, IF t \in Watchers THEN "watching" ELSE "watch", "none")
    /\ UNCHANGED <<rec, dataset, life, service, ghosts>>

(* Mutant: an interrupted publication that never committed ends the job. *)
RecoverUnpublishedKept(t) ==
    LET j == job[t] IN
    /\ \/ At(t, "unpublished")
       \/ At(t, "recover") /\ rec[j].status = "running" /\ rec[j].pub.state = "planned"
    /\ Save(j, [rec[j] EXCEPT !.pub = NoPub, !.publishing = FALSE])
    /\ IF rec[j].cancel THEN Leave(t, "recover", "none") ELSE Leave(t, "recovered", "requeue")
    /\ UNCHANGED <<dataset, lease, life, service, ghosts>>

(* Nothing was published: the job runs again whatever its attempts, unless *)
(* it was cancelled, which _recover then records.                          *)
RecoverUnpublished(t) ==
    LET j == job[t] IN
    /\ \/ At(t, "unpublished")
       \/ At(t, "recover") /\ rec[j].status = "running" /\ rec[j].pub.state = "planned"
    /\ IF rec[j].cancel
       THEN /\ Save(j, [rec[j] EXCEPT !.pub = NoPub, !.publishing = FALSE])
            /\ Leave(t, "recover", "none")
       ELSE /\ Save(j, [rec[j] EXCEPT !.pub = NoPub, !.publishing = FALSE, !.status = "queued"])
            /\ Leave(t, "recovered", "requeue")
    /\ UNCHANGED <<dataset, lease, life, service, ghosts>>

(* Mutant: a job whose publication completed is run again. *)
RecoverCompletedRepeats(t) ==
    LET j == job[t] IN
    /\ At(t, "recover") /\ rec[j].status = "running" /\ rec[j].pub.state = "completed"
    /\ Save(j, [rec[j] EXCEPT !.pub = NoPub, !.publishing = FALSE, !.status = "queued"])
    /\ Leave(t, "recovered", "requeue")
    /\ UNCHANGED <<dataset, lease, life, service, ghosts>>

(* Completed, now or before the crash: the job is finished, not run again. *)
RecoverCompleted(t) ==
    LET j == job[t] IN
    /\ At(t, "recover") /\ rec[j].status = "running" /\ rec[j].pub.state = "completed"
    /\ Finish(j)
    /\ Leave(t, IF rec'[j].status = "finished" THEN "announce" ELSE "recovered", "none")
    /\ UNCHANGED <<dataset, lease, life, service, ghosts>>

(* _recover_failed_publication: an ERROR job whose commit is unresolved.   *)
RecoverFailed(t) ==
    LET j == job[t] IN
    /\ At(t, "recoverFailed")
    /\ \/ /\ rec[j].status # "error" \/ ~CommitPending(j)
          /\ UNCHANGED rec
          /\ Leave(t, "recovered", "none")
       \/ rec[j].status = "error" /\ ReconcileFinds(j) /\ Goto(t, "finishFailed")
       \/ rec[j].status = "error" /\ ReconcileFindsNothing(j) /\ Leave(t, "recovered", "none")
    /\ UNCHANGED <<dataset, lease, life, service, ghosts>>

FinishFailed(t) ==
    /\ At(t, "finishFailed")
    /\ Finish(job[t])
    /\ Leave(t, "recovered", "announce")
    /\ UNCHANGED <<dataset, lease, life, service, ghosts>>

(* _after_finished with the publication's event: under the lease after     *)
(* RecoverCompleted, without it after FinishFailed.                        *)
Announce(t) ==
    LET j == job[t] IN
    /\ At(t, "announce")
    /\ Dispatch(t, {rec[j].pub.snap} \cap rec[j].events)
    /\ IF lease[j] = t THEN Leave(t, "recovered", "none")
       ELSE IF t \in Watchers THEN Leave(t, "leaving", "none") ELSE Return(t)
    /\ UNCHANGED <<rec, dataset, lease, life, service>>

ReleaseRecovered(t) ==
    /\ At(t, "recovered")
    /\ lease' = [lease EXCEPT ![job[t]] = NoThread]
    /\ IF due[t] = "announce" THEN Leave(t, "announce", "none")
       ELSE IF t \in Watchers
       THEN Leave(t, IF due[t] = "requeue" /\ ~Stopping(Home[t]) THEN "discard" ELSE "leaving", "none")
       ELSE IF due[t] = "requeue" THEN Leave(t, "requeue", "none") ELSE Return(t)
    /\ UNCHANGED <<rec, dataset, life, service, ghosts>>

EnqueueRecovered(t) ==
    /\ At(t, "requeue")
    /\ Enqueue(Home[t], job[t])
    /\ IF t \in Watchers THEN Goto(t, "leaving") ELSE Return(t)
    /\ UNCHANGED <<rec, dataset, lease, life, timers, firing, ghosts>>

(* _watch_for_recovery *)
StartWatcher(t) ==
    LET p == Home[t] IN
    /\ At(t, "watch")
    /\ IF Stopping(p) \/ job[t] \in watched[p]
       THEN UNCHANGED watched /\ Return(t)
       ELSE \E w \in Watchers :
                /\ Home[w] = p /\ At(w, "idle")
                /\ watched' = [watched EXCEPT ![p] = @ \cup {job[t]}]
                /\ pc' = [pc EXCEPT ![w] = "watching", ![t] = "idle"]
                /\ job' = [job EXCEPT ![w] = job[t], ![t] = NoJob]
                /\ due' = [due EXCEPT ![t] = "none"]
                /\ seen' = [seen EXCEPT ![t] = NoSeen]
    /\ UNCHANGED <<rec, dataset, lease, life, queue, registered, timers, firing, ghosts>>

WatcherLease(w) ==
    /\ At(w, "watching") /\ ~Stopping(Home[w])
    /\ lease[job[w]] = NoThread
    /\ lease' = [lease EXCEPT ![job[w]] = w]
    /\ Goto(w, IF rec[job[w]].status = "error" THEN "recoverFailed" ELSE "recover")
    /\ UNCHANGED <<rec, dataset, life, service, ghosts>>

WatcherStops(w) ==
    /\ At(w, "watching") /\ Stopping(Home[w])
    /\ Goto(w, "leaving")
    /\ UNCHANGED <<rec, dataset, lease, life, service, ghosts>>

WatcherDiscards(w) ==
    /\ At(w, "discard")
    /\ watched' = [watched EXCEPT ![Home[w]] = @ \ {job[w]}]
    /\ Goto(w, "requeue")
    /\ UNCHANGED <<rec, dataset, lease, life, queue, registered, timers, firing, ghosts>>

WatcherLeaves(w) ==
    /\ At(w, "leaving")
    /\ watched' = [watched EXCEPT ![Home[w]] = @ \ {job[w]}]
    /\ Return(w)
    /\ UNCHANGED <<rec, dataset, lease, life, queue, registered, timers, firing, ghosts>>

-----------------------------------------------------------------------------
(* The process: the lifespan of main.py. *)

(* The consumer is set by now; recover_pending_jobs reads the records once *)
(* and works through them.                                                 *)
StartProcess(p) ==
    /\ mode[p] = "down" /\ starts < MaxStarts
    /\ mode' = [mode EXCEPT ![p] = "recovering"]
    /\ todo' = [todo EXCEPT ![p] = {j \in Jobs : IsActive(j)}]
    /\ starts' = starts + 1
    /\ UNCHANGED <<rec, dataset, lease, service, local, ghosts>>

(* The next job of recover_pending_jobs or of reconcile_publications. *)
RecoverNext(m, j) ==
    LET p == Home[m]
        step == IF mode[p] = "recovering" THEN "recover" ELSE "recoverFailed" IN
    /\ At(m, "idle") /\ mode[p] \in {"recovering", "reconciling"} /\ j \in todo[p]
    /\ todo' = [todo EXCEPT ![p] = @ \ {j}]
    /\ IF lease[j] = NoThread
       THEN lease' = [lease EXCEPT ![j] = m] /\ Begin(m, step, j)
       ELSE UNCHANGED lease /\ Begin(m, "watch", j)
    /\ UNCHANGED <<rec, dataset, mode, starts, service, ghosts>>

BeginReconciling(m) ==
    LET p == Home[m] IN
    /\ At(m, "idle") /\ mode[p] = "recovering" /\ todo[p] = {}
    /\ mode' = [mode EXCEPT ![p] = "reconciling"]
    /\ todo' = [todo EXCEPT ![p] = {j \in Jobs : rec[j].status = "error" /\ CommitPending(j)}]
    /\ UNCHANGED <<rec, dataset, lease, starts, service, local, ghosts>>

BeginReplay(m) ==
    LET p == Home[m] IN
    /\ At(m, "idle") /\ mode[p] = "reconciling" /\ todo[p] = {}
    /\ mode' = [mode EXCEPT ![p] = "replaying"]
    /\ UNCHANGED <<rec, dataset, lease, todo, starts, service, local, ghosts>>

(* The replay reaches a job an event created before the last stop. *)
ReplayClaim(m, j) ==
    /\ At(m, "idle") /\ mode[Home[m]] = "replaying"
    /\ j \in Triggered /\ rec[j].status = "created"
    /\ Save(j, [rec[j] EXCEPT !.status = "queued"])
    /\ runs' = [runs EXCEPT ![j] = @ + 1]
    /\ Begin(m, "requeue", j)
    /\ UNCHANGED <<dataset, lease, life, service, dispatched>>

(* Mutant: the server starts without replaying persisted events. *)
ReplayNothing(m) ==
    /\ At(m, "idle") /\ mode[Home[m]] = "replaying"
    /\ \A j \in Triggered : rec[j].status # "created"
    /\ mode' = [mode EXCEPT ![Home[m]] = "serving"]
    /\ UNCHANGED <<rec, dataset, lease, todo, starts, service, local, ghosts>>

(* Every persisted event is replayed, whatever became of its job since. *)
Replay(m) ==
    /\ At(m, "idle") /\ mode[Home[m]] = "replaying"
    /\ \A j \in Triggered : rec[j].status # "created"
    /\ mode' = [mode EXCEPT ![Home[m]] = "serving"]
    /\ dispatched' = [j \in Jobs |-> dispatched[j] \cup rec[j].events]
    /\ UNCHANGED <<rec, dataset, lease, todo, starts, service, local, runs>>

(* No consumer, the stop event, no timers; then the executor. *)
Shutdown(p) ==
    /\ mode[p] = "serving" /\ starts < MaxStarts
    /\ mode' = [mode EXCEPT ![p] = "stopping"]
    /\ timers' = [timers EXCEPT ![p] = {}]
    /\ UNCHANGED <<rec, dataset, lease, todo, starts, queue, registered, firing, watched, local, ghosts>>

CloseExecutor(p) ==
    /\ mode[p] = "stopping"
    /\ mode' = [mode EXCEPT ![p] = "closed"]
    /\ queue' = [queue EXCEPT ![p] = <<>>]
    /\ registered' = [registered EXCEPT ![p] = {j \in @ : ~Queued(p, j)}]
    /\ UNCHANGED <<rec, dataset, lease, todo, starts, timers, firing, watched, local, ghosts>>

(* What the death of a process leaves: the operating system drops its      *)
(* locks, and nothing volatile survives.                                   *)
Die(p) ==
    LET Dead == {t \in Threads : Home[t] = p} IN
    /\ mode' = [mode EXCEPT ![p] = "down"]
    /\ lease' = [j \in Jobs |-> IF lease[j] \in Dead THEN NoThread ELSE lease[j]]
    /\ writer' = IF writer \in Dead THEN NoThread ELSE writer
    /\ todo' = [todo EXCEPT ![p] = {}]
    /\ queue' = [queue EXCEPT ![p] = <<>>]
    /\ registered' = [registered EXCEPT ![p] = {}]
    /\ timers' = [timers EXCEPT ![p] = {}]
    /\ firing' = [firing EXCEPT ![p] = {}]
    /\ watched' = [watched EXCEPT ![p] = {}]
    /\ pc' = [t \in Threads |-> IF t \in Dead THEN "idle" ELSE pc[t]]
    /\ job' = [t \in Threads |-> IF t \in Dead THEN NoJob ELSE job[t]]
    /\ due' = [t \in Threads |-> IF t \in Dead THEN "none" ELSE due[t]]
    /\ seen' = [t \in Threads |-> IF t \in Dead THEN NoSeen ELSE seen[t]]
    /\ UNCHANGED <<rec, history, ingests, starts, ghosts>>

(* The interpreter joins the pool threads and then exits. *)
Exit(p) ==
    /\ mode[p] = "closed"
    /\ \A t \in Workers : Home[t] = p => At(t, "idle")
    /\ Die(p)

Crash(p) ==
    /\ mode[p] # "down" /\ starts < MaxStarts
    /\ Die(p)

(* An ingestion or sync writes the dataset under the same lock. *)
IngestBegins ==
    /\ writer = NoThread /\ ingests < MaxIngests
    /\ writer' = Ingest
    /\ ingests' = ingests + 1
    /\ UNCHANGED <<rec, history, lease, life, service, local, ghosts>>

IngestEnds ==
    /\ writer = Ingest
    /\ writer' = NoThread
    /\ history' \in {history, Append(history, [job |-> NoJob, tag |-> 0])}
    /\ UNCHANGED <<rec, ingests, lease, life, service, local, ghosts>>

-----------------------------------------------------------------------------
Request ==
    \E h \in Handlers, j \in Jobs :
        CreateJob(h, j) \/ CreateTriggered(h, j) \/ StartRead(h, j) \/ CancelWaiting(h, j)

HandlerStep(h) == Claim(h) \/ StartWrite(h) \/ EnqueueRequested(h) \/ CancelWrite(h)

RetryStep(t) == ScheduleRetry(t) \/ RecheckCancelled(t) \/ Disarm(t) \/ CancelDisarmed(t)

AttemptStep(t) ==
    \/ ReadRecord(t) \/ StartAttempt(t) \/ ResolvePending(t) \/ ClearOutput(t)
    \/ SavePlain(t) \/ PlanPublication(t) \/ EnterPublication(t) \/ Commit(t)
    \/ CompletePublication(t) \/ Raise(t) \/ NoticeCancel(t) \/ RecordCancelled(t)
    \/ FinishAttempt(t) \/ Notify(t) \/ CompleteAfterFailure(t) \/ RecordFailure(t)

WorkerStep(t) ==
    \/ PickUp(t) \/ TryLease(t) \/ ReadUnderLease(t) \/ WaitForSlot(t) \/ AttemptStep(t)
    \/ ReleaseLease(t) \/ PopFuture(t) \/ RetryStep(t) \/ StartWatcher(t)

(* The recovery steps that find the writer lock free. *)
Reconciles(t) == RecoverCommitting(t) \/ RecoverFailed(t)

RecoveryStep(t) ==
    \/ Recover(t) \/ Reconciles(t) \/ DeferRecovery(t) \/ RecoverUnpublished(t)
    \/ RecoverCompleted(t) \/ FinishFailed(t) \/ Announce(t)
    \/ ReleaseRecovered(t) \/ EnqueueRecovered(t) \/ RetryStep(t)

WatcherStep(w) ==
    WatcherLease(w) \/ WatcherStops(w) \/ RecoveryStep(w) \/ WatcherDiscards(w) \/ WatcherLeaves(w)

MainStep(m) ==
    \/ \E j \in Jobs : RecoverNext(m, j) \/ ReplayClaim(m, j)
    \/ RecoveryStep(m) \/ StartWatcher(m)
    \/ BeginReconciling(m) \/ BeginReplay(m) \/ Replay(m)

TimerStep(p, j) == TimerFires(p, j) \/ EnqueueRetry(p, j)

ProcessStep(p) == StartProcess(p) \/ Shutdown(p) \/ CloseExecutor(p) \/ Exit(p) \/ Crash(p)

Next ==
    \/ Request
    \/ \E h \in Handlers : HandlerStep(h)
    \/ \E t \in Workers : WorkerStep(t)
    \/ \E w \in Watchers : WatcherStep(w)
    \/ \E m \in Mains : MainStep(m)
    \/ \E p \in Procs, j \in Jobs : TimerStep(p, j)
    \/ \E j \in Jobs : BackoffPasses(j)
    \/ \E p \in Procs : ProcessStep(p)
    \/ IngestBegins \/ IngestEnds

Spec == Init /\ [][Next]_vars

(* As in NativeJobs; besides, an ingestion gives the writer lock back and  *)
(* a backoff passes.  A recovery that is tried again and again finds its   *)
(* transient dependency available in the end: the one strong fairness.     *)
Fairness ==
    /\ \A h \in Handlers : WF_vars(HandlerStep(h))
    /\ \A t \in Workers : WF_vars(WorkerStep(t))
    /\ \A w \in Watchers : WF_vars(WatcherStep(w)) /\ SF_vars(Reconciles(w))
    /\ \A m \in Mains : WF_vars(MainStep(m))
    /\ \A p \in Procs, j \in Jobs : WF_vars(TimerStep(p, j))
    /\ \A j \in Jobs : WF_vars(BackoffPasses(j))
    /\ \A p \in Procs : WF_vars(StartProcess(p)) /\ WF_vars(CloseExecutor(p) \/ Exit(p))
    /\ WF_vars(IngestEnds)

FairSpec == Spec /\ Fairness

-----------------------------------------------------------------------------
(* Properties. *)

HandlerAt == {"idle", "claim", "enqueue", "restart", "restarted", "cancel"}
Attempting == {"start", "resolve", "clear", "compute", "gate", "commit", "complete", "finish",
               "notify", "cancelled", "failing", "failed"}
WorkerLeased == Attempting \cup {"leased", "slot", "read", "unlease"}
RetryAt   == {"retry", "armed", "disarm", "disarmed"}
WorkerAt  == WorkerLeased \cup RetryAt \cup {"idle", "picked", "pop", "watch"}
Recovering == {"recover", "unpublished", "recoverFailed", "finishFailed", "recovered"}
WatcherAt == Recovering \cup RetryAt \cup {"idle", "watching", "announce", "discard", "requeue", "leaving"}
MainAt    == Recovering \cup RetryAt \cup {"idle", "watch", "announce", "requeue"}

PubType == [state : {"none", "planned", "committing", "completed"}, base : Nat, tag : Nat, snap : Nat]
RecType == [status : {"none", "created"} \cup Active \cup Ended, attempt : Nat, cancel : BOOLEAN,
            waiting : BOOLEAN, publishing : BOOLEAN, pub : PubType, events : SUBSET Nat]
SeenType == [rerun : BOOLEAN, known : SUBSET Nat, attempt : Nat]

StoreType ==
    /\ rec \in [Jobs -> RecType]
    /\ history \in Seq([job : Jobs \cup {NoJob}, tag : Nat])
    /\ writer \in Workers \cup {NoThread, Ingest}
    /\ ingests \in Nat
    /\ lease \in [Jobs -> Threads \cup {NoThread}]

ServiceType ==
    /\ mode \in [Procs -> Modes]
    /\ todo \in [Procs -> SUBSET Jobs]
    /\ starts \in Nat
    /\ queue \in [Procs -> Seq(Jobs)]
    /\ registered \in [Procs -> SUBSET Jobs]
    /\ timers \in [Procs -> SUBSET Jobs]
    /\ firing \in [Procs -> SUBSET Jobs]
    /\ watched \in [Procs -> SUBSET Jobs]

ThreadType ==
    /\ pc \in [Threads -> HandlerAt \cup WorkerAt \cup WatcherAt \cup MainAt]
    /\ job \in [Threads -> Jobs \cup {NoJob}]
    /\ due \in [Threads -> {"none", "watch", "retry", "requeue", "announce", "before"}]
    /\ seen \in [Threads -> SeenType]
    /\ \A t \in Threads : pc[t] # "idle" => job[t] \in Jobs
    /\ \A t \in Workers : pc[t] \in WorkerAt /\ due[t] \in {"none", "watch", "retry"}
    /\ \A w \in Watchers : pc[w] \in WatcherAt
    /\ \A m \in Mains : pc[m] \in MainAt
    /\ \A h \in Handlers : pc[h] \in HandlerAt

GhostType ==
    /\ runs \in [Jobs -> Nat]
    /\ dispatched \in [Jobs -> SUBSET Nat]

(* Every variable has its type: a record holds a known status and a        *)
(* publication in a known state, a lock has one holder at most, and each   *)
(* thread is at a step of the function it runs with a job in hand.         *)
TypeOK == StoreType /\ ServiceType /\ ThreadType /\ GhostType

(* The commits of a job in the dataset's store. *)
Commits(j) == {i \in DOMAIN history : history[i].job = j}

(* A job executes an attempt, or is recovered, in at most one thread of    *)
(* one process, and the writer lock is with a thread inside its save.      *)
ExecutionIsExclusive ==
    /\ \A t, u \in Threads :
          (t # u /\ pc[t] \in Attempting \cup Recovering /\ pc[u] \in Attempting \cup Recovering)
              => job[t] # job[u]
    /\ \A t \in Workers : (writer = t) <=> pc[t] \in {"gate", "commit", "complete"}

(* The cancellation gate: while a commit may have happened and is not      *)
(* resolved, through failures, retries, restarts and re-runs, the job      *)
(* refuses cancellations and carries no accepted one (_enter_publication,  *)
(* cancel_job).                                                            *)
GateExcludesCancel ==
    \A j \in Jobs : CommitPending(j) => rec[j].publishing /\ ~rec[j].cancel

(* An event names a commit of its own job, and a completed publication the *)
(* commit its own attempt made above the base it planned with, whatever    *)
(* else was committed to the store meanwhile (committed_snapshot).         *)
EventsAreOwnCommits ==
    \A j \in Jobs :
        /\ rec[j].events \subseteq Commits(j)
        /\ rec[j].pub.state = "completed" =>
              /\ rec[j].pub.snap \in rec[j].events /\ rec[j].pub.snap > rec[j].pub.base
              /\ history[rec[j].pub.snap].tag = rec[j].pub.tag

(* A run that was asked for, by a user or by an event however often it is  *)
(* delivered, commits at most once: a retry or a recovery completes the    *)
(* existing commit rather than computing and committing again.             *)
OneCommitPerRun == \A j \in Jobs : Cardinality(Commits(j)) <= runs[j]

(* A publication, whatever befalls its job, is the job's own, at most one  *)
(* to a run, and past cancelling once it may have happened.                *)
PublicationSound == GateExcludesCancel /\ EventsAreOwnCommits /\ OneCommitPerRun

(* No process runs a job before its backoff has passed (_run_job's second  *)
(* look at retry_at), even if its timer fired early or in another process. *)
BackoffRespected ==
    [][\A j \in Jobs : rec'[j].status = "running" /\ rec[j].status # "running" => ~rec[j].waiting]_vars

(* A job that finished or failed stays so until another run of it is asked  *)
(* for, or its pending publication is completed: no late worker, timer,     *)
(* recovery or cancellation, of this process or another, rewrites a result  *)
(* (_run_job and _recover read again under the lease).  Nothing of the kind *)
(* is said of CANCELED: the start mutation writes over it (:994), against   *)
(* docs/openeo.md:177-180.                                                  *)
Results == {"finished", "error"}

ResultsStand ==
    [][\A j \in Jobs : rec[j].status \in Results /\ rec'[j].status # rec[j].status =>
          \/ runs'[j] > runs[j]
          \/ rec[j].status = "error" /\ rec'[j].status = "finished" /\ rec[j].pub.state = "completed"]_vars

(* Processes that overlap neither run a job at once, nor one before its     *)
(* time, nor one that another has ended with a result.                      *)
OverlapIsSafe == []ExecutionIsExclusive /\ BackoffRespected /\ ResultsStand

(* Every job that was queued ends, through retries, crashes and restarts.  *)
EveryJobEnds == \A j \in Jobs : IsActive(j) ~> IsEnded(j)

(* The event of a commit reaches the consumer, also when the process       *)
(* stopped between persisting and dispatching it.                          *)
EventsReachConsumer ==
    \A j \in Jobs : rec[j].events # {} ~> rec[j].events \subseteq dispatched[j]

(* What the publication protocol promises of a job and its commits. *)
Ledger == INSTANCE PublicationLedger WITH
    landed <- [j \in Jobs |-> Cardinality(Commits(j))],
    recorded <- [j \in Jobs |-> Cardinality(rec[j].events)],
    asked <- [j \in Jobs |-> rec[j].cancel]

(* Every behaviour of the runtime keeps the ledger: no commit is lost, and *)
(* none follows a cancellation.                                            *)
ImplementsLedger == Ledger!Spec

=============================================================================
