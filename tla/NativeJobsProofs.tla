-------------------------- MODULE NativeJobsProofs --------------------------
(***************************************************************************)
(* Types and safety of the native job runtime, for any number of           *)
(* processes, threads and jobs, any max_attempts and any slot limit:       *)
(* executions are exclusive, terminal statuses are final, and failures     *)
(* stay within the budget.  The inductive invariant is IInv: the lease a   *)
(* worker or a recovering thread holds keeps every other writer of a       *)
(* status away, and the one writer without a lease, a cancel request,      *)
(* raised the flag before it writes.                                       *)
(*                                                                         *)
(* Then what becomes of a job: it is never let go of, the slots add up,    *)
(* and its record is that of an abstract job.                              *)
(***************************************************************************)
EXTENDS NativeJobs, FiniteSetTheorems, TLAPS

(* The threads a requirement about "any other thread" ranges over. *)
LEMMA ThreadKinds ==
    /\ Workers \subseteq Threads /\ Watchers \subseteq Threads
    /\ Mains \subseteq Threads /\ Handlers \subseteq Threads
    /\ \A t \in Threads : t # NoThread /\ Home[t] \in Procs
    /\ \A t \in Workers : t \notin Watchers /\ t \notin Mains /\ t \notin Handlers
    /\ \A t \in Watchers : t \notin Workers /\ t \notin Mains /\ t \notin Handlers
    /\ \A t \in Mains : t \notin Workers /\ t \notin Watchers /\ t \notin Handlers
    /\ \A t \in Handlers : t \notin Workers /\ t \notin Watchers /\ t \notin Mains
BY ThreadAssumption DEF Threads

(* The first states have the types. *)
LEMMA InitType == Init => TypeOK
<1> SUFFICES ASSUME Init PROVE TypeOK
  OBVIOUS
<1>1. StoreType
  BY DEF Init, StoreType
<1>2. ServiceType
  BY DEF Init, ServiceType, Modes
<1>3. SlotsType
  BY BoundAssumption DEF Init, SlotsType
<1>4. ThreadType
  BY ThreadKinds DEF Init, ThreadType, HandlerAt, WorkerAt, WatcherAt, MainAt
<1> QED BY <1>1, <1>2, <1>3, <1>4 DEF TypeOK

-----------------------------------------------------------------------------
(* Frames: what an action leaves alone keeps its type. *)

LEMMA StoreFrame ==
    ASSUME StoreType, UNCHANGED <<stored, lease, history>> PROVE StoreType'
BY DEF StoreType, stored, history

LEMMA ServiceFrame ==
    ASSUME ServiceType, UNCHANGED <<service, life>> PROVE ServiceType'
BY DEF ServiceType, service, life

LEMMA SlotsFrame ==
    ASSUME SlotsType, UNCHANGED slots PROVE SlotsType'
BY DEF SlotsType, slots

LEMMA ThreadFrame ==
    ASSUME ThreadType, UNCHANGED local PROVE ThreadType'
BY DEF ThreadType, local

(* A step of one thread to a place its kind of thread can be at. *)
MayBeAt(t, l) ==
    /\ l \in HandlerAt \cup WorkerAt \cup WatcherAt \cup MainAt
    /\ t \in Workers => l \in WorkerAt
    /\ t \in Watchers => l \in WatcherAt
    /\ t \in Mains => l \in MainAt
    /\ t \in Handlers => l \in HandlerAt

LEMMA MoveType ==
    ASSUME ThreadType, NEW t \in Threads, NEW l, NEW k, NEW d,
           MayBeAt(t, l), k \in Jobs \/ (k = NoJob /\ l = "idle"),
           d \in {"none", "watch", "retry", "requeue"}, t \in Workers => d # "requeue",
           pc' = [pc EXCEPT ![t] = l], job' = [job EXCEPT ![t] = k], due' = [due EXCEPT ![t] = d]
    PROVE  ThreadType'
BY ThreadKinds DEF ThreadType, MayBeAt

LEMMA GotoType ==
    ASSUME ThreadType, NEW t \in Threads, NEW l, MayBeAt(t, l), pc[t] # "idle", Goto(t, l)
    PROVE  ThreadType'
<1>1. /\ job[t] \in Jobs /\ job' = [job EXCEPT ![t] = job[t]]
      /\ due[t] \in {"none", "watch", "retry", "requeue"} /\ (t \in Workers => due[t] # "requeue")
      /\ due' = [due EXCEPT ![t] = due[t]] /\ pc' = [pc EXCEPT ![t] = l]
  BY DEF Goto, ThreadType
<1> QED BY <1>1, MoveType

LEMMA LeaveType ==
    ASSUME ThreadType, NEW t \in Threads, NEW l, NEW d, MayBeAt(t, l), pc[t] # "idle",
           d \in {"none", "watch", "retry", "requeue"}, t \in Workers => d # "requeue", Leave(t, l, d)
    PROVE  ThreadType'
<1>1. /\ job[t] \in Jobs /\ job' = [job EXCEPT ![t] = job[t]]
      /\ pc' = [pc EXCEPT ![t] = l] /\ due' = [due EXCEPT ![t] = d]
  BY DEF Leave, ThreadType
<1> QED BY <1>1, MoveType

LEMMA ReturnType ==
    ASSUME ThreadType, NEW t \in Threads, Return(t) PROVE ThreadType'
<1>1. MayBeAt(t, "idle")
  BY DEF MayBeAt, HandlerAt, WorkerAt, WatcherAt, MainAt
<1> QED BY <1>1, MoveType DEF Return

(* Another job's status changes to a status there is. *)
LEMMA SetStatusType ==
    ASSUME StoreType, NEW j \in Jobs, NEW s \in Pending \cup Terminal, SetStatus(j, s),
           UNCHANGED <<lease, history>>
    PROVE  StoreType'
BY DEF StoreType, SetStatus, history

LEMMA EnqueueType ==
    ASSUME ServiceType, NEW p \in Procs, NEW j \in Jobs, Enqueue(p, j),
           timers' \in [Procs -> SUBSET Jobs], firing' \in [Procs -> SUBSET Jobs], UNCHANGED life
    PROVE  ServiceType'
<1>1. CASE UNCHANGED <<queue, registered>>
  BY <1>1 DEF Enqueue, ServiceType, life
<1>2. CASE /\ queue' = [queue EXCEPT ![p] = Append(queue[p], j)]
           /\ registered' = [registered EXCEPT ![p] = registered[p] \cup {j}]
  <2>1. Append(queue[p], j) \in Seq(Jobs)
    BY DEF ServiceType
  <2>2. registered[p] \cup {j} \in SUBSET Jobs
    BY DEF ServiceType
  <2> QED BY <1>2, <2>1, <2>2 DEF Enqueue, ServiceType, life
<1> QED BY <1>1, <1>2 DEF Enqueue

-----------------------------------------------------------------------------
(* Handlers keep the types. *)
LEMMA HandlerType ==
    ASSUME TypeOK, NEW h \in Handlers, NEW j \in Jobs,
           Create(h, j) \/ RecordCompleted(h, j) \/ RequestCancel(h, j) \/ HandlerStep(h)
    PROVE  TypeOK'
<1> h \in Threads /\ Home[h] \in Procs /\ (pc[h] # "idle" => job[h] \in Jobs)
  BY ThreadKinds DEF TypeOK, ThreadType
<1>a. \A l \in HandlerAt : MayBeAt(h, l)
  BY ThreadKinds DEF MayBeAt
<1> USE DEF TypeOK
<1>1. CASE Create(h, j)
  <2>1. StoreType'
    BY <1>1 DEF Create, SetStatus, StoreType, Pending, history
  <2>2. ThreadType'
    <3>1. due' = [due EXCEPT ![h] = due[h]] /\ due[h] \in {"none", "watch", "retry", "requeue"}
      BY <1>1 DEF Create, ThreadType
    <3> QED BY <1>1, <1>a, <3>1, MoveType, ThreadKinds DEF Create, HandlerAt
  <2> QED BY <1>1, <2>1, <2>2, ServiceFrame, SlotsFrame DEF Create
<1>2. CASE RecordCompleted(h, j)
  <2>1. StoreType'
    BY <1>2 DEF RecordCompleted, StoreType, Terminal, history
  <2>2. ThreadType'
    <3>1. due' = [due EXCEPT ![h] = due[h]] /\ due[h] \in {"none", "watch", "retry", "requeue"}
      BY <1>2 DEF RecordCompleted, ThreadType
    <3> QED BY <1>2, <1>a, <3>1, MoveType, ThreadKinds DEF RecordCompleted, HandlerAt
  <2> QED BY <1>2, <2>1, <2>2, ServiceFrame, SlotsFrame DEF RecordCompleted
<1>3. CASE RequestCancel(h, j)
  <2>1. StoreType'
    BY <1>3 DEF RequestCancel, StoreType, history
  <2>2. ThreadType'
    <3>1. CASE status[j] = "RUNNING"
      BY <1>3, <3>1, ThreadFrame DEF RequestCancel
    <3>2. CASE status[j] # "RUNNING"
      <4>1. due' = [due EXCEPT ![h] = due[h]] /\ due[h] \in {"none", "watch", "retry", "requeue"}
        BY <1>3, <3>2 DEF RequestCancel, ThreadType
      <4>2. PICK l \in {"popTimer", "cancelFuture"} : pc' = [pc EXCEPT ![h] = l]
        BY <1>3, <3>2 DEF RequestCancel
      <4>3. MayBeAt(h, l) /\ (h \in Workers => due[h] # "requeue")
        BY <1>a, ThreadKinds DEF HandlerAt
      <4> QED BY <1>3, <3>2, <4>1, <4>2, <4>3, MoveType DEF RequestCancel
    <3> QED BY <3>1, <3>2
  <2> QED BY <1>3, <2>1, <2>2, ServiceFrame, SlotsFrame DEF RequestCancel
<1>4. CASE EnqueueCreated(h)
  <2>1. ServiceType'
    BY <1>4, EnqueueType DEF EnqueueCreated, At, ServiceType
  <2> QED BY <1>4, <2>1, ReturnType, StoreFrame, SlotsFrame DEF EnqueueCreated
<1>5. CASE ConsumeInline(h)
  <2>1. StoreType'
    BY <1>5 DEF ConsumeInline, StoreType, stored, At
  <2> QED BY <1>5, <2>1, ReturnType, ServiceFrame, SlotsFrame DEF ConsumeInline
<1>6. CASE PopTimer(h)
  <2>1. ServiceType'
    BY <1>6 DEF PopTimer, ServiceType, life
  <2>2. ThreadType'
    BY <1>6, <1>a, ReturnType, GotoType DEF PopTimer, At, HandlerAt
  <2> QED BY <1>6, <2>1, <2>2, StoreFrame, SlotsFrame DEF PopTimer
<1>7. CASE CancelFuture(h)
  <2>1. ServiceType'
    <3>1. registered' = registered \/ registered' = [registered EXCEPT ![Home[h]] = @ \ {job[h]}]
      BY <1>7 DEF CancelFuture
    <3> QED BY <1>7, <3>1 DEF CancelFuture, ServiceType, life
  <2>2. ThreadType'
    BY <1>7, <1>a, ReturnType, GotoType DEF CancelFuture, At, HandlerAt
  <2> QED BY <1>7, <2>1, <2>2, StoreFrame, SlotsFrame DEF CancelFuture
<1>8. CASE WriteCancelled(h)
  <2>1. StoreType'
    BY <1>8, SetStatusType DEF WriteCancelled, Terminal, At
  <2> QED BY <1>8, <2>1, ReturnType, ServiceFrame, SlotsFrame DEF WriteCancelled
<1> QED BY <1>1, <1>2, <1>3, <1>4, <1>5, <1>6, <1>7, <1>8 DEF HandlerStep

(* A watcher may be started by a worker or by the main thread. *)
LEMMA StartWatcherType ==
    ASSUME TypeOK, NEW t \in Workers \cup Mains, StartWatcher(t)
    PROVE  TypeOK'
<1> t \in Threads /\ Home[t] \in Procs /\ t \notin Watchers
  BY ThreadKinds
<1> job[t] \in Jobs
  BY DEF StartWatcher, At, TypeOK, ThreadType
<1> USE DEF TypeOK
<1>1. CASE UNCHANGED watched /\ Return(t)
  <2>1. ServiceType'
    BY <1>1 DEF StartWatcher, ServiceType, life
  <2> QED BY <1>1, <2>1, ReturnType, StoreFrame, SlotsFrame DEF StartWatcher
<1>2. CASE \E w \in Watchers :
              /\ Home[w] = Home[t] /\ At(w, "idle")
              /\ watched' = [watched EXCEPT ![Home[t]] = @ \cup {job[t]}]
              /\ pc' = [pc EXCEPT ![w] = "watching", ![t] = "idle"]
              /\ job' = [job EXCEPT ![w] = job[t], ![t] = NoJob]
              /\ due' = [due EXCEPT ![t] = "none"]
  <2>1. ServiceType'
    BY <1>2 DEF StartWatcher, ServiceType, life
  <2>2. ThreadType'
    <3>1. PICK w \in Watchers :
              /\ pc' = [pc EXCEPT ![w] = "watching", ![t] = "idle"]
              /\ job' = [job EXCEPT ![w] = job[t], ![t] = NoJob]
              /\ due' = [due EXCEPT ![t] = "none"]
      BY <1>2
    <3>2. w \in Threads /\ w \notin Workers /\ w \notin Mains /\ w \notin Handlers
      BY ThreadKinds
    <3> QED BY <3>1, <3>2, ThreadKinds DEF ThreadType, WatcherAt, WorkerAt, MainAt, HandlerAt
  <2> QED BY <1>2, <2>1, <2>2, StoreFrame, SlotsFrame DEF StartWatcher
<1> QED BY <1>1, <1>2 DEF StartWatcher

(* Pool threads keep the types. *)
LEMMA WorkerType ==
    ASSUME TypeOK, NEW t \in Workers, WorkerStep(t)
    PROVE  TypeOK'
<1> t \in Threads /\ Home[t] \in Procs /\ (pc[t] # "idle" => job[t] \in Jobs)
  BY ThreadKinds DEF TypeOK, ThreadType
<1>a. \A l \in WorkerAt : MayBeAt(t, l)
  BY ThreadKinds DEF MayBeAt
<1> USE DEF TypeOK
<1>1. CASE PickUp(t)
  <2>1. ServiceType'
    <3>1. queue[Home[t]] \in Seq(Jobs) /\ queue[Home[t]] # <<>>
      BY <1>1 DEF PickUp, ServiceType
    <3>2. Tail(queue[Home[t]]) \in Seq(Jobs)
      BY <3>1
    <3> QED BY <1>1, <3>2 DEF PickUp, ServiceType, life
  <2>2. ThreadType'
    <3>1. Head(queue[Home[t]]) \in Jobs
      BY <1>1 DEF PickUp, ServiceType
    <3>2. CASE UNCHANGED local
      BY <3>2, ThreadFrame
    <3>3. CASE /\ pc' = [pc EXCEPT ![t] = "picked"] /\ UNCHANGED due
               /\ job' = [job EXCEPT ![t] = Head(queue[Home[t]])]
      <4>1. due' = [due EXCEPT ![t] = due[t]] /\ due[t] \in {"none", "watch", "retry", "requeue"} /\ due[t] # "requeue"
        BY <3>3 DEF ThreadType
      <4> QED BY <1>a, <3>1, <3>3, <4>1, MoveType DEF WorkerAt
    <3> QED BY <1>1, <3>2, <3>3 DEF PickUp
  <2> QED BY <1>1, <2>1, <2>2, StoreFrame, SlotsFrame DEF PickUp
<1>2. CASE TryLease(t)
  <2>1. StoreType'
    <3>1. lease' = lease \/ lease' = [lease EXCEPT ![job[t]] = t]
      BY <1>2 DEF TryLease
    <3> QED BY <1>2, <3>1 DEF TryLease, StoreType, stored, history
  <2>2. ThreadType'
    BY <1>2, <1>a, GotoType, LeaveType DEF TryLease, At, WorkerAt, WorkerLeased, HoldsSlot
  <2> QED BY <1>2, <2>1, <2>2, ServiceFrame, SlotsFrame DEF TryLease
<1>3. CASE ReadUnderLease(t)
  <2>1. ThreadType'
    BY <1>3, <1>a, GotoType DEF ReadUnderLease, At, WorkerAt, WorkerLeased, HoldsSlot
  <2> QED BY <1>3, <2>1, StoreFrame, ServiceFrame, SlotsFrame DEF ReadUnderLease
<1>4. CASE CheckCancelled(t)
  <2>1. StoreType'
    BY <1>4, SetStatusType, StoreFrame DEF CheckCancelled, At, Terminal
  <2>2. ThreadType'
    BY <1>4, <1>a, GotoType DEF CheckCancelled, At, WorkerAt, WorkerLeased, HoldsSlot
  <2> QED BY <1>4, <2>1, <2>2, ServiceFrame, SlotsFrame DEF CheckCancelled
<1>5. CASE SlotWon(t)
  <2>1. SlotsType'
    BY <1>5 DEF SlotWon, SlotsType
  <2>2. ThreadType'
    BY <1>5, <1>a, GotoType DEF SlotWon, At, WorkerAt, WorkerLeased, HoldsSlot
  <2> QED BY <1>5, <2>1, <2>2, StoreFrame, ServiceFrame DEF SlotWon
<1>6. CASE SlotRefused(t)
  <2>1. ThreadType'
    BY <1>6, <1>a, GotoType DEF SlotRefused, At, WorkerAt, WorkerLeased, HoldsSlot
  <2> QED BY <1>6, <2>1, StoreFrame, ServiceFrame, SlotsFrame DEF SlotRefused
<1>7. CASE AfterRefusal(t)
  <2>1. ThreadType'
    BY <1>7, <1>a, GotoType DEF AfterRefusal, At, WorkerAt, WorkerLeased, HoldsSlot
  <2> QED BY <1>7, <2>1, StoreFrame, ServiceFrame, SlotsFrame DEF AfterRefusal
<1>8. CASE StartAttempt(t)
  <2>1. StoreType'
    <3>1. CASE UNCHANGED stored
      BY <1>8, <3>1, StoreFrame DEF StartAttempt
    <3>2. CASE /\ status' = [status EXCEPT ![job[t]] = "RUNNING"] /\ UNCHANGED cancel
               /\ attempt' = [attempt EXCEPT ![job[t]] = attempt[job[t]] + 1]
      BY <1>8, <3>2 DEF StartAttempt, StoreType, Pending, history, At
    <3> QED BY <1>8, <3>1, <3>2 DEF StartAttempt
  <2>2. SlotsType'
    <3>1. free' = free \/ free' = [free EXCEPT ![Home[t]] = free[Home[t]] + 1]
      BY <1>8 DEF StartAttempt
    <3> QED BY <1>8, <3>1 DEF StartAttempt, SlotsType
  <2>3. ThreadType'
    BY <1>8, <1>a, GotoType DEF StartAttempt, At, WorkerAt, WorkerLeased, HoldsSlot
  <2> QED BY <1>8, <2>1, <2>2, <2>3, ServiceFrame DEF StartAttempt
<1>9. CASE Succeed(t)
  <2>1. StoreType'
    BY <1>9, SetStatusType DEF Succeed, At, Terminal
  <2>2. ThreadType'
    BY <1>9, <1>a, GotoType DEF Succeed, At, WorkerAt, WorkerLeased, HoldsSlot
  <2> QED BY <1>9, <2>1, <2>2, ServiceFrame, SlotsFrame DEF Succeed
<1>10. CASE StopCooperatively(t)
  <2>1. StoreType'
    BY <1>10, SetStatusType DEF StopCooperatively, At, Terminal
  <2>2. ThreadType'
    BY <1>10, <1>a, GotoType DEF StopCooperatively, At, WorkerAt, WorkerLeased, HoldsSlot
  <2> QED BY <1>10, <2>1, <2>2, ServiceFrame, SlotsFrame DEF StopCooperatively
<1>11. CASE Fail(t)
  <2>1. StoreType'
    <3>1. PICK s \in {"RETRYING", "FAILED"} : status' = [status EXCEPT ![job[t]] = s]
      BY <1>11 DEF Fail, SetStatus
    <3> QED BY <1>11, <3>1 DEF Fail, SetStatus, StoreType, Pending, Terminal, At
  <2>2. ThreadType'
    BY <1>11, <1>a, GotoType, LeaveType DEF Fail, At, WorkerAt, WorkerLeased, HoldsSlot
  <2> QED BY <1>11, <2>1, <2>2, ServiceFrame, SlotsFrame DEF Fail
<1>12. CASE ConsumeEvents(t)
  <2>1. StoreType'
    BY <1>12 DEF ConsumeEvents, StoreType, stored, At
  <2>2. ThreadType'
    BY <1>12, <1>a, GotoType DEF ConsumeEvents, At, WorkerAt, WorkerLeased, HoldsSlot
  <2> QED BY <1>12, <2>1, <2>2, ServiceFrame, SlotsFrame DEF ConsumeEvents
<1>13. CASE ReleaseSlot(t)
  <2>1. SlotsType'
    BY <1>13 DEF ReleaseSlot, SlotsType
  <2>2. ThreadType'
    BY <1>13, <1>a, GotoType DEF ReleaseSlot, At, WorkerAt, WorkerLeased, HoldsSlot
  <2> QED BY <1>13, <2>1, <2>2, StoreFrame, ServiceFrame DEF ReleaseSlot
<1>14. CASE ReleaseLease(t)
  <2>1. StoreType'
    BY <1>14 DEF ReleaseLease, StoreType, stored, history
  <2>2. ThreadType'
    BY <1>14, <1>a, GotoType DEF ReleaseLease, At, WorkerAt, WorkerLeased, HoldsSlot
  <2> QED BY <1>14, <2>1, <2>2, ServiceFrame, SlotsFrame DEF ReleaseLease
<1>15. CASE PopFuture(t)
  <2>1. ServiceType'
    BY <1>15 DEF PopFuture, ServiceType, life
  <2>2. ThreadType'
    BY <1>15, <1>a, ReturnType, LeaveType DEF PopFuture, At, WorkerAt, WorkerLeased, HoldsSlot, ThreadType
  <2> QED BY <1>15, <2>1, <2>2, StoreFrame, SlotsFrame DEF PopFuture
<1>16. CASE ScheduleRetry(t)
  <2>1. ServiceType'
    <3>1. timers' = timers \/ timers' = [timers EXCEPT ![Home[t]] = timers[Home[t]] \cup {job[t]}]
      BY <1>16 DEF ScheduleRetry
    <3>2. timers[Home[t]] \cup {job[t]} \in SUBSET Jobs
      BY <1>16 DEF ScheduleRetry, ServiceType, At
    <3> QED BY <1>16, <3>1, <3>2 DEF ScheduleRetry, ServiceType, life
  <2>2. ThreadType'
    BY <1>16, <1>a, GotoType, ReturnType DEF ScheduleRetry, At, WorkerAt, WorkerLeased, HoldsSlot
  <2> QED BY <1>16, <2>1, <2>2, StoreFrame, SlotsFrame DEF ScheduleRetry
<1>17. CASE RecheckCancelled(t)
  <2>1. ThreadType'
    BY <1>17, <1>a, GotoType, ReturnType DEF RecheckCancelled, At, WorkerAt, WorkerLeased, HoldsSlot
  <2> QED BY <1>17, <2>1, StoreFrame, ServiceFrame, SlotsFrame DEF RecheckCancelled
<1>18. CASE RetryNow(t)
  <2>1. ServiceType'
    BY <1>18 DEF RetryNow, ServiceType, life, At
  <2>2. ThreadType'
    BY <1>18, ReturnType DEF RetryNow
  <2> QED BY <1>18, <2>1, <2>2, StoreFrame, SlotsFrame DEF RetryNow
<1>19. CASE StartWatcher(t)
  BY <1>19, StartWatcherType
<1> QED BY <1>1, <1>2, <1>3, <1>4, <1>5, <1>6, <1>7, <1>8, <1>9, <1>10, <1>11, <1>12, <1>13, <1>14, <1>15, <1>16, <1>17, <1>18, <1>19
   DEF WorkerStep, ExecutionEnds

(* Recovery, by the main thread or a watcher, keeps the types. *)
LEMMA RecoveryType ==
    ASSUME TypeOK, NEW t \in Watchers \cup Mains, RecoveryStep(t)
    PROVE  TypeOK'
<1> t \in Threads /\ Home[t] \in Procs /\ (pc[t] # "idle" => job[t] \in Jobs) /\ t \notin Workers
  BY ThreadKinds DEF TypeOK, ThreadType
<1>a. \A l \in {"idle", "recovered", "requeue"} : MayBeAt(t, l)
  BY ThreadKinds DEF MayBeAt, WatcherAt, MainAt
<1>b. t \in Watchers => \A l \in WatcherAt : MayBeAt(t, l)
  BY ThreadKinds DEF MayBeAt
<1> USE DEF TypeOK
<1>1. CASE Recover(t)
  <2>1. PICK d \in {"none", "requeue"} : Leave(t, "recovered", d)
    BY <1>1 DEF Recover
  <2>2. ThreadType'
    BY <1>1, <1>a, <2>1, LeaveType DEF Recover, At
  <2>3. job[t] \in Jobs
    BY <1>1 DEF Recover, At
  <2>4. StoreType'
    <3>1. CASE UNCHANGED stored
      BY <1>1, <3>1, StoreFrame DEF Recover
    <3>2. CASE SetStatus(job[t], "CANCELLED")
      BY <1>1, <2>3, <3>2, SetStatusType DEF Recover, Terminal
    <3>3. CASE /\ status' = [status EXCEPT ![job[t]] = "ACCEPTED"] /\ UNCHANGED cancel
               /\ attempt' = [attempt EXCEPT ![job[t]] = IF @ > 0 THEN @ - 1 ELSE 0]
      <4>1. (IF attempt[job[t]] > 0 THEN attempt[job[t]] - 1 ELSE 0) \in Nat
        BY <2>3 DEF StoreType
      <4> QED BY <1>1, <2>3, <3>3, <4>1 DEF Recover, StoreType, Pending, history
    <3> QED BY <1>1, <3>1, <3>2, <3>3 DEF Recover
  <2> QED BY <1>1, <2>2, <2>4, ServiceFrame, SlotsFrame DEF Recover
<1>2. CASE ReleaseRecovered(t)
  <2>1. ThreadType'
    BY <1>2, <1>a, <1>b, ReturnType, LeaveType DEF ReleaseRecovered, At, WatcherAt
  <2>2. StoreType'
    BY <1>2 DEF ReleaseRecovered, StoreType, stored, history
  <2> QED BY <1>2, <2>1, <2>2, ServiceFrame, SlotsFrame DEF ReleaseRecovered
<1>3. CASE EnqueueRecovered(t)
  <2>1. ThreadType'
    BY <1>3, <1>b, ReturnType, GotoType DEF EnqueueRecovered, At, WatcherAt
  <2>2. ServiceType'
    BY <1>3, EnqueueType DEF EnqueueRecovered, At, ServiceType
  <2> QED BY <1>3, <2>1, <2>2, StoreFrame, SlotsFrame DEF EnqueueRecovered
<1> QED BY <1>1, <1>2, <1>3 DEF RecoveryStep

(* Watchers keep the types. *)
LEMMA WatcherType ==
    ASSUME TypeOK, NEW w \in Watchers, WatcherStep(w)
    PROVE  TypeOK'
<1> w \in Threads /\ Home[w] \in Procs /\ (pc[w] # "idle" => job[w] \in Jobs)
  BY ThreadKinds DEF TypeOK, ThreadType
<1>a. \A l \in WatcherAt : MayBeAt(w, l)
  BY ThreadKinds DEF MayBeAt
<1>1. CASE WatcherLease(w)
  <2>1. ThreadType'
    BY <1>1, <1>a, GotoType DEF WatcherLease, At, WatcherAt, TypeOK
  <2>2. StoreType'
    BY <1>1 DEF WatcherLease, StoreType, stored, history, TypeOK
  <2> QED BY <1>1, <2>1, <2>2, ServiceFrame, SlotsFrame DEF WatcherLease, TypeOK
<1>2. CASE WatcherStops(w)
  <2>1. ThreadType'
    BY <1>2, <1>a, GotoType DEF WatcherStops, At, WatcherAt, TypeOK
  <2> QED BY <1>2, <2>1, StoreFrame, ServiceFrame, SlotsFrame DEF WatcherStops, TypeOK
<1>3. CASE RecoveryStep(w)
  BY <1>3, RecoveryType
<1>4. CASE WatcherDiscards(w)
  <2>1. ThreadType'
    BY <1>4, <1>a, GotoType DEF WatcherDiscards, At, WatcherAt, TypeOK
  <2>2. ServiceType'
    BY <1>4 DEF WatcherDiscards, ServiceType, life, TypeOK
  <2> QED BY <1>4, <2>1, <2>2, StoreFrame, SlotsFrame DEF WatcherDiscards, TypeOK
<1>5. CASE WatcherLeaves(w)
  <2>1. ServiceType'
    BY <1>5 DEF WatcherLeaves, ServiceType, life, TypeOK
  <2> QED BY <1>5, <2>1, ReturnType, StoreFrame, SlotsFrame DEF WatcherLeaves, TypeOK
<1> QED BY <1>1, <1>2, <1>3, <1>4, <1>5 DEF WatcherStep

(* The main thread keeps the types. *)
LEMMA MainType ==
    ASSUME TypeOK, NEW m \in Mains, MainStep(m)
    PROVE  TypeOK'
<1> m \in Threads /\ Home[m] \in Procs
  BY ThreadKinds
<1>a. \A l \in MainAt : MayBeAt(m, l)
  BY ThreadKinds DEF MayBeAt
<1> USE DEF TypeOK
<1>1. CASE \E j \in Jobs : RecoverNext(m, j)
  <2>1. PICK j \in Jobs : RecoverNext(m, j)
    BY <1>1
  <2>2. PICK l \in {"recover", "watch"} : pc' = [pc EXCEPT ![m] = l]
    BY <2>1 DEF RecoverNext
  <2>3. due' = [due EXCEPT ![m] = due[m]] /\ due[m] \in {"none", "watch", "retry", "requeue"}
    BY <2>1 DEF RecoverNext, ThreadType
  <2>4. ThreadType'
    BY <1>a, <2>1, <2>2, <2>3, MoveType, ThreadKinds DEF RecoverNext, MainAt
  <2>5. StoreType'
    <3>1. lease' = lease \/ lease' = [lease EXCEPT ![j] = m]
      BY <2>1 DEF RecoverNext
    <3> QED BY <2>1, <3>1 DEF RecoverNext, StoreType, stored, history
  <2>6. ServiceType'
    BY <2>1 DEF RecoverNext, ServiceType, service
  <2> QED BY <2>1, <2>4, <2>5, <2>6, SlotsFrame DEF RecoverNext
<1>2. CASE RecoveryStep(m)
  BY <1>2, RecoveryType
<1>3. CASE StartWatcher(m)
  BY <1>3, StartWatcherType
<1>4. CASE InstallConsumer(m)
  <2>1. ServiceType'
    BY <1>4 DEF InstallConsumer, ServiceType, service, Modes
  <2> QED BY <1>4, <2>1, StoreFrame, SlotsFrame, ThreadFrame DEF InstallConsumer
<1>5. CASE Replay(m)
  <2>1. ServiceType'
    BY <1>5 DEF Replay, ServiceType, service, Modes
  <2>2. StoreType'
    BY <1>5 DEF Replay, StoreType, stored
  <2> QED BY <1>5, <2>1, <2>2, SlotsFrame, ThreadFrame DEF Replay
<1> QED BY <1>1, <1>2, <1>3, <1>4, <1>5 DEF MainStep

(* What a dead process leaves behind has its type. *)
LEMMA DieType ==
    ASSUME TypeOK, NEW p \in Procs, Die(p) PROVE TypeOK'
<1> USE DEF TypeOK
<1>1. StoreType'
  BY DEF Die, StoreType, stored, history
<1>2. ServiceType'
  <2>1. <<>> \in Seq(Jobs)
    OBVIOUS
  <2> QED BY <2>1 DEF Die, ServiceType, Modes
<1>3. SlotsType'
  BY BoundAssumption DEF Die, SlotsType
<1>4. ThreadType'
  BY ThreadKinds DEF Die, ThreadType, WatcherAt, WorkerAt, MainAt, HandlerAt
<1> QED BY <1>1, <1>2, <1>3, <1>4

(* Process steps keep the types. *)
LEMMA ProcessType ==
    ASSUME TypeOK, NEW p \in Procs, ProcessStep(p)
    PROVE  TypeOK'
<1> USE DEF TypeOK
<1>1. CASE StartProcess(p)
  <2>1. ServiceType'
    BY <1>1 DEF StartProcess, ServiceType, service, Modes
  <2> QED BY <1>1, <2>1, StoreFrame, SlotsFrame, ThreadFrame DEF StartProcess
<1>2. CASE Shutdown(p)
  <2>1. ServiceType'
    BY <1>2 DEF Shutdown, ServiceType, Modes
  <2> QED BY <1>2, <2>1, StoreFrame, SlotsFrame, ThreadFrame DEF Shutdown
<1>3. CASE CloseExecutor(p)
  <2>1. <<>> \in Seq(Jobs) /\ {j \in registered[p] : ~Queued(p, j)} \in SUBSET Jobs
    BY DEF ServiceType
  <2>2. ServiceType'
    BY <1>3, <2>1 DEF CloseExecutor, ServiceType, Modes
  <2> QED BY <1>3, <2>2, StoreFrame, SlotsFrame, ThreadFrame DEF CloseExecutor
<1>4. CASE Exit(p) \/ Crash(p)
  BY <1>4, DieType DEF Exit, Crash
<1>5. CASE OpenEOTakesSlot(p)
  <2>1. SlotsType'
    BY <1>5 DEF OpenEOTakesSlot, SlotsType
  <2> QED BY <1>5, <2>1, StoreFrame, ServiceFrame, ThreadFrame DEF OpenEOTakesSlot
<1>6. CASE OpenEOReturnsSlot(p)
  <2>1. SlotsType'
    BY <1>6 DEF OpenEOReturnsSlot, SlotsType
  <2> QED BY <1>6, <2>1, StoreFrame, ServiceFrame, ThreadFrame DEF OpenEOReturnsSlot
<1> QED BY <1>1, <1>2, <1>3, <1>4, <1>5, <1>6 DEF ProcessStep

(* Timers keep the types. *)
LEMMA TimerType ==
    ASSUME TypeOK, NEW p \in Procs, NEW j \in Jobs, TimerStep(p, j)
    PROVE  TypeOK'
<1> USE DEF TypeOK
<1>1. CASE TimerFires(p, j)
  <2>1. ServiceType'
    BY <1>1 DEF TimerFires, ServiceType, life
  <2> QED BY <1>1, <2>1, StoreFrame, SlotsFrame, ThreadFrame DEF TimerFires
<1>2. CASE EnqueueRetry(p, j)
  <2>1. ServiceType'
    BY <1>2, EnqueueType DEF EnqueueRetry, ServiceType
  <2> QED BY <1>2, <2>1, StoreFrame, SlotsFrame, ThreadFrame DEF EnqueueRetry
<1> QED BY <1>1, <1>2 DEF TimerStep

LEMMA StutterType == ASSUME TypeOK, UNCHANGED vars PROVE TypeOK'
BY StoreFrame, ServiceFrame, SlotsFrame, ThreadFrame DEF TypeOK, vars

(* Type correctness: every variable of the runtime keeps its type. *)
THEOREM TypeCorrect == Spec => []TypeOK
<1>1. Init => TypeOK
  BY InitType
<1>2. TypeOK /\ [Next]_vars => TypeOK'
  <2> SUFFICES ASSUME TypeOK, [Next]_vars PROVE TypeOK'
    OBVIOUS
  <2>1. CASE Request
    BY <2>1, HandlerType DEF Request
  <2>2. CASE \E h \in Handlers : HandlerStep(h)
    <3>1. CASE \E j \in Jobs : TRUE
      BY <2>2, <3>1, HandlerType
    <3>2. CASE ~ \E j \in Jobs : TRUE
      <4>1. PICK h \in Handlers : HandlerStep(h)
        BY <2>2
      <4>2. h \in Threads /\ pc[h] # "idle"
        BY <4>1, ThreadKinds DEF HandlerStep, EnqueueCreated, ConsumeInline, PopTimer, CancelFuture, WriteCancelled, At
      <4> QED BY <3>2, <4>2 DEF TypeOK, ThreadType
    <3> QED BY <3>1, <3>2
  <2>3. CASE \E t \in Workers : WorkerStep(t)
    BY <2>3, WorkerType
  <2>4. CASE \E w \in Watchers : WatcherStep(w)
    BY <2>4, WatcherType
  <2>5. CASE \E m \in Mains : MainStep(m)
    BY <2>5, MainType
  <2>6. CASE \E p \in Procs, j \in Jobs : TimerStep(p, j)
    BY <2>6, TimerType
  <2>7. CASE \E p \in Procs : ProcessStep(p)
    BY <2>7, ProcessType
  <2>8. CASE UNCHANGED vars
    BY <2>8, StutterType
  <2> QED BY <2>1, <2>2, <2>3, <2>4, <2>5, <2>6, <2>7, <2>8 DEF Next
<1> QED BY <1>1, <1>2, PTL DEF Spec

-----------------------------------------------------------------------------
(* Frames. *)

(* A step of one thread leaves every other thread where it was. *)
OnlyMoves(t) == \A u \in Threads \ {t} : pc'[u] = pc[u] /\ job'[u] = job[u]

LEMMA MoveFacts ==
    ASSUME ThreadType, NEW t \in Threads
    PROVE  /\ \A l : Goto(t, l) => OnlyMoves(t) /\ pc'[t] = l /\ job'[t] = job[t]
           /\ \A l, d : Leave(t, l, d) => OnlyMoves(t) /\ pc'[t] = l /\ job'[t] = job[t]
           /\ Return(t) => OnlyMoves(t) /\ pc'[t] = "idle"
           /\ UNCHANGED local => OnlyMoves(t) /\ pc'[t] = pc[t] /\ job'[t] = job[t]
BY DEF ThreadType, Goto, Leave, Return, OnlyMoves, local

LEMMA LeaseFrame == ASSUME LeaseInv, UNCHANGED <<lease, local>> PROVE LeaseInv'
BY DEF LeaseInv, local

LEMMA RunFrame == ASSUME RunInv, UNCHANGED <<stored, local>> PROVE RunInv'
BY DEF RunInv, stored, local

LEMMA CancelFrame ==
    ASSUME CancelInv, UNCHANGED stored, \A h \in Handlers : pc'[h] = pc[h] /\ job'[h] = job[h]
    PROVE  CancelInv'
BY DEF CancelInv, stored

LEMMA BudgetFrame == ASSUME BudgetInv, UNCHANGED <<stored, failures>> PROVE BudgetInv'
BY DEF BudgetInv, FailuresWithinBudget, stored


(* Handlers. *)
LEMMA HandlerSafe ==
    ASSUME TypeOK, IInv, NEW h \in Handlers, NEW j \in Jobs,
           Create(h, j) \/ RecordCompleted(h, j) \/ RequestCancel(h, j) \/ HandlerStep(h)
    PROVE  IInv'
<1> h \in Threads
  BY ThreadKinds
<1>a. OnlyMoves(h) => \A t \in Workers \cup Watchers \cup Mains : pc'[t] = pc[t] /\ job'[t] = job[t]
  BY ThreadKinds DEF OnlyMoves
<1> USE ThreadKinds DEF TypeOK, StoreType, ThreadType, At, IInv
<1>1. CASE Create(h, j)
  <2>0. OnlyMoves(h) /\ pc'[h] = "created" /\ job'[h] = j
    BY <1>1 DEF Create, OnlyMoves
  <2>1. LeaseInv'
    BY <1>1, <1>a, <2>0 DEF Create, LeaseInv
  <2>2. RunInv'
    BY <1>1, <1>a, <2>0 DEF Create, RunInv, SetStatus, Pending, WorkerAt, WorkerLeased, HoldsSlot
  <2>3. CancelInv'
    BY <1>1, <2>0 DEF Create, CancelInv, SetStatus, OnlyMoves, HandlerAt
  <2>4. BudgetInv'
    BY <1>1, BoundAssumption DEF Create, BudgetInv, FailuresWithinBudget, SetStatus, history
  <2> QED BY <2>1, <2>2, <2>3, <2>4
<1>2. CASE RecordCompleted(h, j)
  <2>0. OnlyMoves(h) /\ pc'[h] = "consumeInline" /\ job'[h] = j
    BY <1>2 DEF RecordCompleted, OnlyMoves
  <2>1. LeaseInv'
    BY <1>2, <1>a, <2>0 DEF RecordCompleted, LeaseInv
  <2>2. RunInv'
    BY <1>2, <1>a, <2>0 DEF RecordCompleted, RunInv, Pending, WorkerAt, WorkerLeased, HoldsSlot
  <2>3. CancelInv'
    BY <1>2, <2>0 DEF RecordCompleted, CancelInv, OnlyMoves, HandlerAt
  <2>4. BudgetInv'
    BY <1>2, BoundAssumption DEF RecordCompleted, BudgetInv, FailuresWithinBudget, history
  <2> QED BY <2>1, <2>2, <2>3, <2>4
<1>3. CASE RequestCancel(h, j)
  <2>0. OnlyMoves(h) /\ (IF status[j] = "RUNNING" THEN pc'[h] = pc[h] /\ job'[h] = job[h]
                         ELSE pc'[h] \in {"popTimer", "cancelFuture"} /\ job'[h] = j)
    BY <1>3 DEF RequestCancel, OnlyMoves, local
  <2>1. LeaseInv'
    BY <1>3, <1>a, <2>0 DEF RequestCancel, LeaseInv
  <2>2. RunInv'
    BY <1>3, <1>a, <2>0 DEF RequestCancel, RunInv
  <2>3. CancelInv'
    BY <1>3, <2>0 DEF RequestCancel, CancelInv, OnlyMoves, IsPending, Pending
  <2>4. BudgetInv'
    BY <1>3 DEF RequestCancel, BudgetInv, FailuresWithinBudget, history
  <2> QED BY <2>1, <2>2, <2>3, <2>4
<1>4. CASE EnqueueCreated(h) \/ ConsumeInline(h) \/ PopTimer(h) \/ CancelFuture(h)
  <2>0. /\ OnlyMoves(h) /\ UNCHANGED <<stored, lease, failures>>
        /\ \/ pc'[h] = "idle"
           \/ pc'[h] = "writeCancelled" /\ pc[h] \in {"popTimer", "cancelFuture"} /\ job'[h] = job[h]
    BY <1>4, MoveFacts DEF EnqueueCreated, ConsumeInline, PopTimer, CancelFuture, history
  <2>1. LeaseInv'
    BY <1>a, <2>0 DEF LeaseInv
  <2>2. RunInv'
    BY <1>a, <2>0 DEF RunInv, stored
  <2>3. CancelInv'
    BY <2>0 DEF CancelInv, OnlyMoves, stored
  <2> QED BY <2>0, <2>1, <2>2, <2>3, BudgetFrame
<1>5. CASE WriteCancelled(h)
  <2>0. /\ OnlyMoves(h) /\ pc'[h] = "idle" /\ job[h] \in Jobs
        /\ cancel[job[h]] /\ status[job[h]] \in {"ACCEPTED", "RETRYING", "CANCELLED"}
    BY <1>5, MoveFacts DEF WriteCancelled, CancelInv
  <2>1. LeaseInv'
    BY <1>5, <1>a, <2>0 DEF WriteCancelled, LeaseInv
  <2>2. RunInv'
    BY <1>5, <1>a, <2>0 DEF WriteCancelled, RunInv, SetStatus, Pending, WorkerAt, WorkerLeased, HoldsSlot
  <2>3. CancelInv'
    BY <1>5, <2>0 DEF WriteCancelled, CancelInv, SetStatus, OnlyMoves, HandlerAt
  <2>4. BudgetInv'
    BY <1>5, <2>0 DEF WriteCancelled, BudgetInv, FailuresWithinBudget, SetStatus, history
  <2> QED BY <2>1, <2>2, <2>3, <2>4
<1> QED BY <1>1, <1>2, <1>3, <1>4, <1>5 DEF HandlerStep

(* A worker's move that writes nothing: it stays leased only if it was, and *)
(* comes nearer to an attempt only with a job that may still run.           *)
LEMMA QuietMoveSafe ==
    ASSUME TypeOK, IInv, NEW t \in Workers, OnlyMoves(t), UNCHANGED <<stored, lease, failures>>,
           pc'[t] \in WorkerLeased => pc[t] \in WorkerLeased /\ job'[t] = job[t],
           pc'[t] # "run",
           pc'[t] \in {"check", "slot", "refused", "won"} =>
               job'[t] = job[t] /\ (pc[t] \in {"check", "slot", "refused", "won"} \/ IsPending(job[t]))
    PROVE  IInv'
<1>1. \A u \in Watchers \cup Mains \cup Handlers : pc'[u] = pc[u] /\ job'[u] = job[u]
  BY ThreadKinds DEF OnlyMoves
<1>2. \A u \in Workers \ {t} : pc'[u] = pc[u] /\ job'[u] = job[u]
  BY ThreadKinds DEF OnlyMoves
<1>3. LeaseInv'
  BY <1>1, <1>2 DEF IInv, LeaseInv
<1>4. RunInv'
  BY <1>2 DEF IInv, RunInv, stored, IsPending
<1>5. CancelInv'
  BY <1>1, CancelFrame DEF IInv
<1> QED BY <1>3, <1>4, <1>5, BudgetFrame DEF IInv

(* Starting a watcher moves two threads, neither of which decides anything. *)
LEMMA StartWatcherSafe ==
    ASSUME TypeOK, IInv, NEW t \in Workers \cup Mains, StartWatcher(t)
    PROVE  IInv'
<1>1. /\ \A u \in Workers : pc'[u] = "idle" \/ (pc'[u] = pc[u] /\ job'[u] = job[u])
      /\ \A u \in Watchers : pc'[u] = "watching" \/ (pc'[u] = pc[u] /\ job'[u] = job[u])
      /\ \A u \in Mains : pc'[u] = "idle" \/ (pc'[u] = pc[u] /\ job'[u] = job[u])
      /\ \A u \in Handlers : pc'[u] = pc[u] /\ job'[u] = job[u]
  BY ThreadKinds DEF StartWatcher, Return, TypeOK, ThreadType
<1>2. UNCHANGED <<stored, lease, failures>>
  BY DEF StartWatcher, history
<1>3. LeaseInv'
  BY <1>1, <1>2 DEF IInv, LeaseInv, WorkerLeased, HoldsSlot
<1>4. RunInv'
  BY <1>1, <1>2 DEF IInv, RunInv, stored
<1> QED BY <1>1, <1>2, <1>3, <1>4, CancelFrame, BudgetFrame DEF IInv

(* Pool threads. *)
LEMMA WorkerSafe ==
    ASSUME TypeOK, IInv, NEW t \in Workers, WorkerStep(t)
    PROVE  IInv'
<1> t \in Threads /\ (pc[t] # "idle" => job[t] \in Jobs)
  BY ThreadKinds DEF TypeOK, ThreadType
<1>a. OnlyMoves(t) => \A u \in Watchers \cup Mains \cup Handlers : pc'[u] = pc[u] /\ job'[u] = job[u]
  BY ThreadKinds DEF OnlyMoves
<1>b. OnlyMoves(t) => \A u \in Workers \ {t} : pc'[u] = pc[u] /\ job'[u] = job[u]
  BY ThreadKinds DEF OnlyMoves
<1>c. ThreadType
  BY DEF TypeOK
<1> USE DEF At
<1>1. CASE PickUp(t)
  <2>1. OnlyMoves(t) /\ pc'[t] \in {"picked", "idle"} /\ UNCHANGED <<stored, lease, failures>>
    BY <1>1, <1>c DEF PickUp, OnlyMoves, ThreadType, local, history
  <2> QED BY <2>1, QuietMoveSafe DEF WorkerLeased, HoldsSlot
<1>2. CASE TryLease(t)
  <2>1. CASE lease[job[t]] = NoThread
    <3>1. OnlyMoves(t) /\ pc'[t] = "leased" /\ job'[t] = job[t] /\ lease' = [lease EXCEPT ![job[t]] = t]
      BY <1>2, <1>c, <2>1, MoveFacts DEF TryLease
    <3>2. LeaseInv'
      BY <1>2, <1>a, <1>b, <2>1, <3>1, ThreadKinds
         DEF TryLease, IInv, LeaseInv, TypeOK, StoreType
    <3>3. RunInv'
      BY <1>2, <1>b, <3>1 DEF TryLease, IInv, RunInv, stored
    <3>4. CancelInv'
      BY <1>2, <1>a, <3>1, CancelFrame DEF TryLease, IInv
    <3> QED BY <1>2, <3>2, <3>3, <3>4, BudgetFrame DEF TryLease, IInv, history
  <2>2. CASE lease[job[t]] # NoThread
    <3>1. OnlyMoves(t) /\ pc'[t] = "pop" /\ UNCHANGED <<stored, lease, failures>>
      BY <1>2, <1>c, <2>2, MoveFacts DEF TryLease, history
    <3> QED BY <3>1, QuietMoveSafe DEF WorkerLeased, HoldsSlot
  <2> QED BY <2>1, <2>2
<1>3. CASE ReadUnderLease(t)
  <2>1. /\ OnlyMoves(t) /\ job'[t] = job[t] /\ UNCHANGED <<stored, lease, failures>> /\ pc[t] = "leased"
        /\ pc'[t] = "unlease" \/ (pc'[t] = "check" /\ IsPending(job[t]))
    BY <1>3, <1>c, MoveFacts DEF ReadUnderLease, history
  <2> QED BY <2>1, QuietMoveSafe DEF WorkerLeased, HoldsSlot
<1>4. CASE CheckCancelled(t)
  <2>1. CASE PreCancelled(job[t])
    <3>1. OnlyMoves(t) /\ pc[t] = "check" /\ pc'[t] = "unlease" /\ job'[t] = job[t] /\ SetStatus(job[t], "CANCELLED")
      BY <1>4, <1>c, <2>1, MoveFacts DEF CheckCancelled
    <3>2. LeaseInv'
      BY <1>4, <1>a, <1>b, <3>1 DEF CheckCancelled, IInv, LeaseInv, WorkerLeased
    <3>3. RunInv'
      BY <1>4, <1>b, <2>1, <3>1 DEF CheckCancelled, IInv, RunInv, SetStatus, PreCancelled, TypeOK, StoreType, ThreadType,
         Pending, WorkerAt, WorkerLeased, HoldsSlot
    <3>4. CancelInv'
      BY <1>4, <1>a, <2>1, <3>1 DEF CheckCancelled, IInv, CancelInv, SetStatus, PreCancelled, TypeOK, StoreType,
         ThreadType
    <3>5. BudgetInv'
      BY <1>4, <2>1, <3>1 DEF CheckCancelled, IInv, BudgetInv, FailuresWithinBudget, SetStatus, PreCancelled, history,
         TypeOK, StoreType
    <3> QED BY <3>2, <3>3, <3>4, <3>5 DEF IInv
  <2>2. CASE ~PreCancelled(job[t])
    <3>1. /\ OnlyMoves(t) /\ pc[t] = "check" /\ pc'[t] = "slot" /\ job'[t] = job[t]
          /\ UNCHANGED <<stored, lease, failures>>
      BY <1>4, <1>c, <2>2, MoveFacts DEF CheckCancelled, history
    <3> QED BY <3>1, QuietMoveSafe DEF WorkerLeased, HoldsSlot
  <2> QED BY <2>1, <2>2
<1>5. CASE SlotWon(t) \/ SlotRefused(t) \/ AfterRefusal(t)
  <2>1. /\ OnlyMoves(t) /\ job'[t] = job[t] /\ UNCHANGED <<stored, lease, failures>>
        /\ pc[t] \in {"slot", "refused"} /\ pc'[t] \in {"won", "refused", "unlease", "check"}
    BY <1>5, <1>c, MoveFacts DEF SlotWon, SlotRefused, AfterRefusal, history
  <2> QED BY <2>1, QuietMoveSafe DEF WorkerLeased, HoldsSlot
<1>6. CASE StartAttempt(t)
  <2>1. CASE cancel[job[t]]
    <3>1. /\ OnlyMoves(t) /\ pc[t] = "won" /\ pc'[t] = "check" /\ job'[t] = job[t]
          /\ UNCHANGED <<stored, lease, failures>>
      BY <1>6, <1>c, <2>1, MoveFacts DEF StartAttempt, history
    <3> QED BY <3>1, QuietMoveSafe DEF WorkerLeased, HoldsSlot
  <2>2. CASE ~cancel[job[t]]
    <3>1. /\ OnlyMoves(t) /\ pc[t] = "won" /\ pc'[t] = "run" /\ job'[t] = job[t] /\ UNCHANGED <<cancel, lease, failures>>
          /\ status' = [status EXCEPT ![job[t]] = "RUNNING"]
          /\ attempt' = [attempt EXCEPT ![job[t]] = @ + 1]
      BY <1>6, <1>c, <2>2, MoveFacts DEF StartAttempt, history
    <3>2. status[job[t]] \in Pending
      BY <2>2, <3>1 DEF IInv, RunInv, CancelInv
    <3>3. LeaseInv'
      BY <1>a, <1>b, <3>1 DEF IInv, LeaseInv, WorkerLeased, HoldsSlot
    <3>4. RunInv'
      BY <1>b, <3>1, <3>2 DEF IInv, RunInv, Pending, TypeOK, StoreType, ThreadType, WorkerAt, WorkerLeased, HoldsSlot
    <3>5. CancelInv'
      BY <1>a, <2>2, <3>1, <3>2 DEF IInv, CancelInv, TypeOK, StoreType, ThreadType
    <3>6. BudgetInv'
      BY <3>1, <3>2 DEF IInv, BudgetInv, FailuresWithinBudget, Pending, TypeOK, StoreType
    <3> QED BY <3>3, <3>4, <3>5, <3>6 DEF IInv
  <2> QED BY <2>1, <2>2
<1>7. CASE Succeed(t) \/ StopCooperatively(t)
  <2>1. PICK s \in {"SUCCESSFUL", "CANCELLED"} :
          /\ SetStatus(job[t], s) /\ (s = "CANCELLED" => cancel[job[t]]) /\ UNCHANGED <<lease, failures>>
          /\ OnlyMoves(t) /\ pc[t] = "run" /\ pc'[t] \in {"consume", "releaseSlot"} /\ job'[t] = job[t]
    BY <1>7, <1>c, MoveFacts DEF Succeed, StopCooperatively, history
  <2>2. status[job[t]] = "RUNNING" /\ lease[job[t]] = t
    BY <2>1 DEF IInv, RunInv, LeaseInv, WorkerLeased, HoldsSlot
  <2>3. LeaseInv'
    BY <1>a, <1>b, <2>1 DEF IInv, LeaseInv, WorkerLeased, HoldsSlot
  <2>4. RunInv'
    <3>1. \A u \in Workers \ {t} : pc[u] \in WorkerLeased => job[u] # job[t]
      BY <2>2 DEF IInv, LeaseInv
    <3>2. \A u \in Workers \ {t} : pc[u] \in WorkerLeased => status'[job[u]] = status[job[u]]
      BY <2>1, <3>1 DEF SetStatus, TypeOK, StoreType
    <3> QED BY <1>b, <2>1, <3>2 DEF IInv, RunInv, WorkerLeased, HoldsSlot
  <2>5. CancelInv'
    BY <1>a, <2>1, <2>2 DEF IInv, CancelInv, SetStatus, TypeOK, StoreType, ThreadType
  <2>6. BudgetInv'
    BY <2>1, <2>2 DEF IInv, BudgetInv, FailuresWithinBudget, SetStatus, TypeOK, StoreType
  <2> QED BY <2>3, <2>4, <2>5, <2>6 DEF IInv
<1>8. CASE Fail(t)
  <2>1. /\ SetStatus(job[t], IF attempt[job[t]] < MaxAttempts THEN "RETRYING" ELSE "FAILED")
        /\ failures' = [failures EXCEPT ![job[t]] = @ + 1] /\ UNCHANGED lease
        /\ OnlyMoves(t) /\ pc[t] = "run" /\ pc'[t] = "releaseSlot" /\ job'[t] = job[t]
    BY <1>8, <1>c, MoveFacts DEF Fail
  <2>2. status[job[t]] = "RUNNING" /\ lease[job[t]] = t
    BY <2>1 DEF IInv, RunInv, LeaseInv, WorkerLeased, HoldsSlot
  <2>3. LeaseInv'
    BY <1>a, <1>b, <2>1 DEF IInv, LeaseInv, WorkerLeased, HoldsSlot
  <2>4. RunInv'
    <3>1. \A u \in Workers \ {t} : pc[u] \in WorkerLeased => job[u] # job[t]
      BY <2>2 DEF IInv, LeaseInv
    <3>2. \A u \in Workers \ {t} : pc[u] \in WorkerLeased => status'[job[u]] = status[job[u]]
      BY <2>1, <3>1 DEF SetStatus, TypeOK, StoreType
    <3> QED BY <1>b, <2>1, <3>2 DEF IInv, RunInv, WorkerLeased, HoldsSlot
  <2>5. CancelInv'
    BY <1>a, <2>1, <2>2 DEF IInv, CancelInv, SetStatus, TypeOK, StoreType, ThreadType
  <2>6. BudgetInv'
    <3>1. failures[job[t]] < attempt[job[t]] /\ failures[job[t]] < MaxAttempts
      BY <2>1, <2>2 DEF IInv, BudgetInv, FailuresWithinBudget
    <3> QED BY <2>1, <2>2, <3>1, BoundAssumption DEF IInv, BudgetInv, FailuresWithinBudget, SetStatus, TypeOK, StoreType
  <2> QED BY <2>3, <2>4, <2>5, <2>6 DEF IInv
<1>9. CASE ConsumeEvents(t) \/ ReleaseSlot(t)
  <2>1. /\ OnlyMoves(t) /\ job'[t] = job[t] /\ UNCHANGED <<stored, lease, failures>>
        /\ pc[t] \in {"consume", "releaseSlot"} /\ pc'[t] \in {"releaseSlot", "unlease"}
    BY <1>9, <1>c, MoveFacts DEF ConsumeEvents, ReleaseSlot, history
  <2> QED BY <2>1, QuietMoveSafe DEF WorkerLeased, HoldsSlot
<1>10. CASE ReleaseLease(t)
  <2>1. OnlyMoves(t) /\ pc[t] = "unlease" /\ pc'[t] = "pop" /\ lease' = [lease EXCEPT ![job[t]] = NoThread]
    BY <1>10, <1>c, MoveFacts DEF ReleaseLease
  <2>2. LeaseInv'
    <3>1. lease[job[t]] = t
      BY <2>1 DEF IInv, LeaseInv, WorkerLeased
    <3> QED BY <1>a, <1>b, <2>1, <3>1, ThreadKinds DEF IInv, LeaseInv, WorkerLeased, HoldsSlot, TypeOK, StoreType
  <2>3. RunInv'
    BY <1>10, <1>b, <2>1 DEF ReleaseLease, IInv, RunInv, stored
  <2>4. CancelInv'
    BY <1>10, <1>a, <2>1, CancelFrame DEF ReleaseLease, IInv
  <2> QED BY <1>10, <2>2, <2>3, <2>4, BudgetFrame DEF ReleaseLease, IInv, history
<1>11. CASE PopFuture(t) \/ ScheduleRetry(t) \/ RecheckCancelled(t) \/ RetryNow(t)
  <2>1. due[t] \in {"none", "watch", "retry"}
    BY <1>c DEF ThreadType
  <2>2. OnlyMoves(t) /\ UNCHANGED <<stored, lease, failures>> /\ pc'[t] \in {"idle", "watch", "retry", "armed", "retryNow"}
    BY <1>11, <1>c, <2>1, MoveFacts DEF PopFuture, ScheduleRetry, RecheckCancelled, RetryNow, history
  <2> QED BY <2>2, QuietMoveSafe DEF WorkerLeased, HoldsSlot
<1>12. CASE StartWatcher(t)
  BY <1>12, StartWatcherSafe
<1> QED BY <1>1, <1>2, <1>3, <1>4, <1>5, <1>6, <1>7, <1>8, <1>9, <1>10, <1>11, <1>12
   DEF WorkerStep, ExecutionEnds

(* A recovering thread's move that writes nothing but perhaps its own lease. *)
LEMMA QuietRecoverySafe ==
    ASSUME TypeOK, IInv, NEW t \in Watchers \cup Mains, OnlyMoves(t), UNCHANGED <<stored, failures>>,
           \A j \in Jobs : lease'[j] = lease[j] \/ lease[j] \in {NoThread, t},
           pc'[t] \in {"recover", "recovered"} => lease'[job'[t]] = t
    PROVE  IInv'
<1>1. \A u \in Workers \cup Handlers : u # t /\ pc'[u] = pc[u] /\ job'[u] = job[u]
  BY ThreadKinds DEF OnlyMoves
<1>2. LeaseInv'
  <2>1. \A u \in Workers : pc'[u] \in WorkerLeased => lease'[job'[u]] = u
    BY <1>1, ThreadKinds DEF IInv, LeaseInv, TypeOK, ThreadType, WorkerLeased, HoldsSlot
  <2>2. \A u \in Watchers \cup Mains : u # t /\ pc'[u] \in {"recover", "recovered"} => lease'[job'[u]] = u
    BY ThreadKinds DEF IInv, LeaseInv, TypeOK, ThreadType, OnlyMoves
  <2> QED BY <2>1, <2>2 DEF LeaseInv
<1>3. RunInv'
  BY <1>1 DEF IInv, RunInv, stored
<1> QED BY <1>1, <1>2, <1>3, CancelFrame, BudgetFrame DEF IInv

(* Recovery rewrites the record of the job it holds, and no worker has it. *)
LEMMA RecoverSafe ==
    ASSUME TypeOK, IInv, NEW t \in Watchers \cup Mains, Recover(t)
    PROVE  IInv'
<1> t \in Threads /\ t \notin Workers /\ t \notin Handlers
  BY ThreadKinds
<1> DEFINE j == job[t]
<1>1. /\ pc[t] = "recover" /\ lease[j] = t /\ j \in Jobs
  BY DEF Recover, At, IInv, LeaseInv, TypeOK, ThreadType
<1>2. OnlyMoves(t) /\ pc'[t] = "recovered" /\ job'[t] = j /\ UNCHANGED <<lease, failures>>
  BY MoveFacts DEF Recover, TypeOK, history
<1>3. CASE UNCHANGED stored
  BY <1>1, <1>2, <1>3, QuietRecoverySafe
<1>4. CASE ~UNCHANGED stored
  <2>1. /\ \A k \in Jobs \ {j} : status'[k] = status[k] /\ attempt'[k] = attempt[k]
        /\ status[j] \in Pending /\ UNCHANGED cancel
        /\ \/ cancel[j] /\ status'[j] = "CANCELLED"
           \/ ~cancel[j] /\ status[j] = "RUNNING" /\ status'[j] = "ACCEPTED" /\ (attempt[j] > 0 => attempt'[j] = attempt[j] - 1)
    BY <1>1, <1>4 DEF Recover, SetStatus, IsPending, TypeOK, StoreType, stored
  <2>2. \A u \in Workers \cup Handlers : pc'[u] = pc[u] /\ job'[u] = job[u]
    BY <1>2, ThreadKinds DEF OnlyMoves
  <2>3. LeaseInv'
    BY <1>1, <1>2, <2>2, ThreadKinds DEF IInv, LeaseInv, OnlyMoves
  <2>4. RunInv'
    <3>1. \A u \in Workers : pc[u] \in WorkerLeased => job[u] # j /\ job[u] \in Jobs
      BY <1>1, ThreadKinds DEF IInv, LeaseInv, TypeOK, ThreadType, WorkerLeased, HoldsSlot
    <3> QED BY <2>1, <2>2, <3>1 DEF IInv, RunInv, WorkerLeased, HoldsSlot
  <2>5. CancelInv'
    BY <2>1, <2>2, ThreadKinds DEF IInv, CancelInv, TypeOK, ThreadType, StoreType
  <2>6. BudgetInv'
    BY <1>1, <1>2, <2>1 DEF IInv, BudgetInv, FailuresWithinBudget, TypeOK, StoreType, Pending
  <2> QED BY <2>3, <2>4, <2>5, <2>6 DEF IInv
<1> QED BY <1>3, <1>4

LEMMA RecoveryStepSafe ==
    ASSUME TypeOK, IInv, NEW t \in Watchers \cup Mains, RecoveryStep(t)
    PROVE  IInv'
<1> t \in Threads /\ ThreadType
  BY ThreadKinds DEF TypeOK
<1>1. CASE Recover(t)
  BY <1>1, RecoverSafe
<1>2. CASE ReleaseRecovered(t)
  <2>1. /\ OnlyMoves(t) /\ UNCHANGED <<stored, failures>> /\ pc[t] = "recovered" /\ job[t] \in Jobs
        /\ pc'[t] \in {"discard", "leaving", "requeue", "idle"} /\ lease' = [lease EXCEPT ![job[t]] = NoThread]
    BY <1>2, MoveFacts DEF ReleaseRecovered, At, ThreadType, history
  <2>2. lease[job[t]] = t
    BY <2>1 DEF IInv, LeaseInv
  <2> QED BY <2>1, <2>2, QuietRecoverySafe DEF TypeOK, StoreType
<1>3. CASE EnqueueRecovered(t)
  <2>1. OnlyMoves(t) /\ UNCHANGED <<stored, lease, failures>> /\ pc'[t] \in {"leaving", "idle"}
    BY <1>3, MoveFacts DEF EnqueueRecovered, history
  <2> QED BY <2>1, QuietRecoverySafe
<1> QED BY <1>1, <1>2, <1>3 DEF RecoveryStep

(* Watchers. *)
LEMMA WatcherSafe ==
    ASSUME TypeOK, IInv, NEW w \in Watchers, WatcherStep(w)
    PROVE  IInv'
<1> w \in Threads /\ ThreadType
  BY ThreadKinds DEF TypeOK
<1>1. CASE WatcherLease(w)
  <2>1. /\ OnlyMoves(w) /\ UNCHANGED <<stored, failures>> /\ pc'[w] = "recover" /\ job'[w] = job[w] /\ job[w] \in Jobs
        /\ lease[job[w]] = NoThread /\ lease' = [lease EXCEPT ![job[w]] = w]
    BY <1>1, MoveFacts DEF WatcherLease, At, ThreadType, history
  <2> QED BY <2>1, QuietRecoverySafe DEF TypeOK, StoreType
<1>2. CASE WatcherStops(w) \/ WatcherDiscards(w) \/ WatcherLeaves(w)
  <2>1. OnlyMoves(w) /\ UNCHANGED <<stored, lease, failures>> /\ pc'[w] \in {"leaving", "requeue", "idle"}
    BY <1>2, MoveFacts DEF WatcherStops, WatcherDiscards, WatcherLeaves, history
  <2> QED BY <2>1, QuietRecoverySafe
<1>3. CASE RecoveryStep(w)
  BY <1>3, RecoveryStepSafe
<1> QED BY <1>1, <1>2, <1>3 DEF WatcherStep

(* Main threads. *)
LEMMA MainSafe ==
    ASSUME TypeOK, IInv, NEW m \in Mains, MainStep(m)
    PROVE  IInv'
<1> m \in Threads /\ ThreadType
  BY ThreadKinds DEF TypeOK
<1>1. CASE \E j \in Jobs : RecoverNext(m, j)
  <2>1. PICK j \in Jobs : RecoverNext(m, j)
    BY <1>1
  <2>2. OnlyMoves(m) /\ UNCHANGED <<stored, failures>> /\ job'[m] = j
    BY <2>1 DEF RecoverNext, OnlyMoves, ThreadType, history
  <2>3. \/ pc'[m] = "watch" /\ lease' = lease
        \/ pc'[m] = "recover" /\ lease[j] = NoThread /\ lease' = [lease EXCEPT ![j] = m]
    BY <2>1 DEF RecoverNext, ThreadType
  <2> QED BY <2>2, <2>3, QuietRecoverySafe DEF TypeOK, StoreType
<1>2. CASE RecoveryStep(m)
  BY <1>2, RecoveryStepSafe
<1>3. CASE StartWatcher(m)
  BY <1>3, StartWatcherSafe
<1>4. CASE InstallConsumer(m) \/ Replay(m)
  <2>1. UNCHANGED <<stored, lease, local, failures>>
    BY <1>4 DEF InstallConsumer, Replay, history
  <2> QED BY <2>1, LeaseFrame, RunFrame, CancelFrame, BudgetFrame DEF IInv, local
<1> QED BY <1>1, <1>2, <1>3, <1>4 DEF MainStep

(* The death of a process frees its leases and stops its threads. *)
LEMMA DieSafe ==
    ASSUME TypeOK, IInv, NEW p \in Procs, Die(p)
    PROVE  IInv'
<1>1. /\ \A t \in Threads : Home[t] = p => pc'[t] = "idle"
      /\ \A t \in Threads : Home[t] # p => pc'[t] = pc[t] /\ job'[t] = job[t]
      /\ \A j \in Jobs : lease[j] \in Threads /\ Home[lease[j]] # p => lease'[j] = lease[j]
      /\ UNCHANGED <<stored, failures>>
  BY DEF Die, history
<1>2. LeaseInv'
  BY <1>1, ThreadKinds DEF IInv, LeaseInv, TypeOK, ThreadType, WorkerLeased, HoldsSlot
<1>3. RunInv'
  BY <1>1, ThreadKinds DEF IInv, RunInv, stored
<1>4. CancelInv'
  BY <1>1, ThreadKinds DEF IInv, CancelInv, stored
<1> QED BY <1>1, <1>2, <1>3, <1>4, BudgetFrame DEF IInv

LEMMA ProcessSafe ==
    ASSUME TypeOK, IInv, NEW p \in Procs, ProcessStep(p)
    PROVE  IInv'
<1>1. CASE Exit(p) \/ Crash(p)
  BY <1>1, DieSafe DEF Exit, Crash
<1>2. CASE ~(Exit(p) \/ Crash(p))
  <2>1. UNCHANGED <<stored, lease, local, failures>>
    BY <1>2 DEF ProcessStep, StartProcess, Shutdown, CloseExecutor, OpenEOTakesSlot, OpenEOReturnsSlot, history
  <2> QED BY <2>1, LeaseFrame, RunFrame, CancelFrame, BudgetFrame DEF IInv, local
<1> QED BY <1>1, <1>2

(* Every step keeps the inductive invariant. *)
LEMMA StepSafe == ASSUME TypeOK, IInv, [Next]_vars PROVE IInv'
<1>1. CASE Request
  BY <1>1, HandlerSafe DEF Request
<1>2. CASE \E h \in Handlers : HandlerStep(h)
  <2>1. PICK h \in Handlers : HandlerStep(h)
    BY <1>2
  <2>2. pc[h] # "idle" /\ h \in Threads
    BY <2>1, ThreadKinds DEF HandlerStep, EnqueueCreated, ConsumeInline, PopTimer, CancelFuture, WriteCancelled, At
  <2>3. job[h] \in Jobs
    BY <2>2 DEF TypeOK, ThreadType
  <2> QED BY <2>1, <2>3, HandlerSafe
<1>3. CASE \E t \in Workers : WorkerStep(t)
  BY <1>3, WorkerSafe
<1>4. CASE \E w \in Watchers : WatcherStep(w)
  BY <1>4, WatcherSafe
<1>5. CASE \E m \in Mains : MainStep(m)
  BY <1>5, MainSafe
<1>6. CASE \E p \in Procs, j \in Jobs : TimerStep(p, j)
  <2>1. UNCHANGED <<stored, lease, local, failures>>
    BY <1>6 DEF TimerStep, TimerFires, EnqueueRetry, history
  <2> QED BY <2>1, LeaseFrame, RunFrame, CancelFrame, BudgetFrame DEF IInv, local
<1>7. CASE \E p \in Procs : ProcessStep(p)
  BY <1>7, ProcessSafe
<1>8. CASE UNCHANGED vars
  <2>1. UNCHANGED <<stored, lease, local, failures>>
    BY <1>8 DEF vars, history
  <2> QED BY <2>1, LeaseFrame, RunFrame, CancelFrame, BudgetFrame DEF IInv, local
<1> QED BY <1>1, <1>2, <1>3, <1>4, <1>5, <1>6, <1>7, <1>8 DEF Next

LEMMA InitSafe == Init => IInv
BY ThreadKinds, BoundAssumption DEF Init, IInv, LeaseInv, RunInv, CancelInv, BudgetInv, FailuresWithinBudget,
   WorkerLeased, HoldsSlot, Pending

(* The invariant holds of every reachable state. *)
THEOREM InvariantHolds == Spec => []IInv
<1>1. TypeOK /\ IInv /\ [Next]_vars => IInv'
  BY StepSafe
<1> QED BY <1>1, InitSafe, TypeCorrect, PTL DEF Spec

(* Executions are exclusive: two threads, of whatever processes, never run *)
(* the same job at once, and the record says RUNNING while one does.       *)
THEOREM ExclusiveExecution == Spec => []ExecutionIsExclusive
<1>1. IInv /\ TypeOK => ExecutionIsExclusive
  BY DEF IInv, LeaseInv, RunInv, ExecutionIsExclusive, WorkerLeased, HoldsSlot
<1> QED BY <1>1, InvariantHolds, TypeCorrect, PTL

(* However many processes share the store and however often they restart,  *)
(* a job fails at most max_attempts times.                                 *)
THEOREM BoundedFailures == Spec => []FailuresWithinBudget
<1>1. IInv => FailuresWithinBudget
  BY DEF IInv, BudgetInv
<1> QED BY <1>1, InvariantHolds, PTL

(* The steps that write a status. *)
StatusStep ==
    \/ \E h \in Handlers, j \in Jobs : Create(h, j) \/ RecordCompleted(h, j)
    \/ \E h \in Handlers : WriteCancelled(h)
    \/ \E t \in Workers : CheckCancelled(t) \/ StartAttempt(t) \/ ExecutionEnds(t)
    \/ \E t \in Watchers \cup Mains : Recover(t)

LEMMA StatusSteps == [Next]_vars => StatusStep \/ UNCHANGED status
<1> SUFFICES ASSUME [Next]_vars, ~StatusStep PROVE UNCHANGED status
  OBVIOUS
<1>1. CASE Request
  BY <1>1 DEF Request, StatusStep, RequestCancel
<1>2. CASE \E h \in Handlers : HandlerStep(h)
  BY <1>2 DEF HandlerStep, EnqueueCreated, ConsumeInline, PopTimer, CancelFuture, StatusStep, stored
<1>3. CASE \E t \in Workers : WorkerStep(t)
  BY <1>3 DEF WorkerStep, StatusStep, stored, PickUp, TryLease, ReadUnderLease, SlotWon, SlotRefused, AfterRefusal,
     ConsumeEvents, ReleaseSlot, ReleaseLease, PopFuture, ScheduleRetry, RecheckCancelled, RetryNow, StartWatcher
<1>4. CASE \E w \in Watchers : WatcherStep(w)
  BY <1>4 DEF WatcherStep, RecoveryStep, StatusStep, stored, WatcherLease, WatcherStops, ReleaseRecovered,
     EnqueueRecovered, WatcherDiscards, WatcherLeaves
<1>5. CASE \E m \in Mains : MainStep(m)
  BY <1>5 DEF MainStep, RecoveryStep, StatusStep, stored, RecoverNext, StartWatcher, InstallConsumer, Replay,
     ReleaseRecovered, EnqueueRecovered
<1>6. CASE \E p \in Procs, j \in Jobs : TimerStep(p, j)
  BY <1>6 DEF TimerStep, TimerFires, EnqueueRetry, stored
<1>7. CASE \E p \in Procs : ProcessStep(p)
  BY <1>7 DEF ProcessStep, StartProcess, Shutdown, CloseExecutor, Exit, Crash, Die, OpenEOTakesSlot,
     OpenEOReturnsSlot, stored
<1>8. CASE UNCHANGED vars
  BY <1>8 DEF vars, stored
<1> QED BY <1>1, <1>2, <1>3, <1>4, <1>5, <1>6, <1>7, <1>8 DEF Next

LEMMA FinalStep ==
    ASSUME TypeOK, IInv, [Next]_vars, NEW j \in Jobs, IsTerminal(j)
    PROVE  status'[j] = status[j]
<1> USE DEF TypeOK, StoreType, IsTerminal, Terminal
<1>1. CASE UNCHANGED status
  BY <1>1
<1>2. CASE \E h \in Handlers, k \in Jobs : Create(h, k) \/ RecordCompleted(h, k)
  BY <1>2 DEF Create, RecordCompleted, SetStatus
<1>3. CASE \E h \in Handlers : WriteCancelled(h)
  <2>1. PICK h \in Handlers : WriteCancelled(h)
    BY <1>3
  <2>2. status[job[h]] \in {"ACCEPTED", "RETRYING", "CANCELLED"}
    BY <2>1 DEF WriteCancelled, At, IInv, CancelInv
  <2> QED BY <2>1, <2>2 DEF WriteCancelled, SetStatus
<1>4. CASE \E t \in Workers : CheckCancelled(t)
  BY <1>4 DEF CheckCancelled, PreCancelled, SetStatus, stored
<1>5. CASE \E t \in Workers : StartAttempt(t)
  <2>1. PICK t \in Workers : StartAttempt(t)
    BY <1>5
  <2>2. CASE cancel[job[t]]
    BY <2>1, <2>2 DEF StartAttempt, stored
  <2>3. CASE ~cancel[job[t]]
    <3>1. job[t] \in Jobs /\ status[job[t]] \in Pending \cup {"CANCELLED"}
      BY <2>1, ThreadKinds DEF StartAttempt, At, IInv, RunInv, ThreadType
    <3>2. status[job[t]] \in Pending
      BY <2>3, <3>1 DEF IInv, CancelInv
    <3> QED BY <2>1, <2>3, <3>2 DEF StartAttempt, Pending
  <2> QED BY <2>2, <2>3
<1>6. CASE \E t \in Workers : ExecutionEnds(t)
  <2>1. PICK t \in Workers : ExecutionEnds(t)
    BY <1>6
  <2>2. status[job[t]] = "RUNNING"
    BY <2>1 DEF ExecutionEnds, Succeed, StopCooperatively, Fail, At, IInv, RunInv
  <2> QED BY <2>1, <2>2 DEF ExecutionEnds, Succeed, StopCooperatively, Fail, SetStatus
<1>7. CASE \E t \in Watchers \cup Mains : Recover(t)
  BY <1>7 DEF Recover, IsPending, Pending, SetStatus, stored
<1> QED BY StatusSteps, <1>1, <1>2, <1>3, <1>4, <1>5, <1>6, <1>7 DEF StatusStep

(* A terminal status is final, whichever process or thread writes next. *)
THEOREM TerminalStays == Spec => TerminalIsFinal
<1>1. TypeOK /\ IInv /\ [Next]_vars => [\A j \in Jobs : IsTerminal(j) => status'[j] = status[j]]_vars
  BY FinalStep
<1> QED BY <1>1, InvariantHolds, TypeCorrect, PTL DEF Spec, TerminalIsFinal

-----------------------------------------------------------------------------
(***************************************************************************)
(* Custody in the native job runtime: within a process an unfinished job   *)
(* is in one hand, and no hand lets it drop.  Again for any number of      *)
(* processes, threads and jobs.                                            *)
(*                                                                         *)
(* A hand is a thread that works on the job, or a place where the job      *)
(* waits for one.  Every action moves at most one job of one process from  *)
(* one hand to another, so the argument is: the one hand there was gives   *)
(* up, and one other takes over.  What has to be known besides is that     *)
(* _enqueue_job and _watch_for_takeover, which refuse a job they believe   *)
(* is already taken care of, are never wrong about it.                     *)
(***************************************************************************)
Working    == WorkerLeased \cup {"picked", "pop"}
Waiting    == {"retry", "watch"}
Taking     == {"watching", "recover", "recovered", "discard"}
HandAt     == Working \cup Waiting \cup Taking \cup {"created", "writeCancelled", "requeue"}
Shelves    == {"queued", "timer", "firing", "todo"}

Has(t, p, j) == Home[t] = p /\ job[t] = j /\ pc[t] \in HandAt

Kept(s, p, j) ==
    \/ s = "queued" /\ Queued(p, j) /\ j \in registered[p]
    \/ s = "timer" /\ j \in timers[p]
    \/ s = "firing" /\ j \in firing[p]
    \/ s = "todo" /\ j \in todo[p]

NoHands(p, j) ==
    /\ \A t \in Threads : ~Has(t, p, j)
    /\ \A s \in Shelves : ~Kept(s, p, j)

(* One hand at most has a job of a process. *)
OneHand(p, j) ==
    /\ \A t, u \in Threads : Has(t, p, j) /\ Has(u, p, j) => t = u
    /\ \A r, s \in Shelves : Kept(r, p, j) /\ Kept(s, p, j) => r = s
    /\ \A t \in Threads, s \in Shelves : ~(Has(t, p, j) /\ Kept(s, p, j))

(* Nobody has a job that is not recorded, or one of a process that is down. *)
HandsAreReal(p, j) ==
    status[j] = "none" \/ mode[p] = "down" => NoHands(p, j) /\ ~Queued(p, j)

(* What is left in the queue of a cancelled future is of no use to anybody *)
(* but the request that cancelled it.                                      *)
StaleIsDead(p, j) ==
    Queued(p, j) /\ j \notin registered[p] =>
        /\ \A t \in Threads : Has(t, p, j) => pc[t] = "writeCancelled"
        /\ \A s \in Shelves : ~Kept(s, p, j)

(* A registered future is queued, or a worker is on it ... *)
FutureIsLive(p, j) ==
    j \in registered[p] =>
        Queued(p, j) \/ \E t \in Workers : Has(t, p, j) /\ pc[t] \in Working

(* ... and a watched job has a watcher, or needs none any more. *)
WatchIsLive(p, j) ==
    j \in watched[p] =>
        \E w \in Watchers :
            /\ Home[w] = p /\ job[w] = j
            /\ \/ pc[w] \in Taking
               \/ pc[w] = "leaving" /\ (IsTerminal(j) \/ Stopping(p))

(* Whoever is about to drop a job has a reason. *)
DropsWithReason(p, j) ==
    /\ \A t \in Workers : Has(t, p, j) /\ pc[t] \in {"consume", "releaseSlot", "unlease", "pop"} =>
          due[t] \in Waiting \/ IsTerminal(j) \/ Stopping(p)
    /\ \A t \in Watchers \cup Mains : Has(t, p, j) /\ pc[t] = "recovered" => due[t] = "requeue" \/ IsTerminal(j)

CustodyOf(p, j) ==
    /\ OneHand(p, j) /\ HandsAreReal(p, j) /\ StaleIsDead(p, j)
    /\ FutureIsLive(p, j) /\ WatchIsLive(p, j) /\ DropsWithReason(p, j)

(* A job is queued once. *)
QueuedOnce ==
    \A p \in Procs : \A i, k \in DOMAIN queue[p] : queue[p][i] = queue[p][k] => i = k

CustodyInv == QueuedOnce /\ \A p \in Procs, j \in Jobs : CustodyOf(p, j)

-----------------------------------------------------------------------------
(* Lemmas about the work queue. *)

InSeq(q, j) == \E i \in DOMAIN q : q[i] = j
Once(q) == \A i, k \in DOMAIN q : q[i] = q[k] => i = k

LEMMA AppendFacts ==
    ASSUME NEW q \in Seq(Jobs), NEW j \in Jobs
    PROVE  /\ \A k : InSeq(Append(q, j), k) <=> k = j \/ InSeq(q, k)
           /\ Once(q) /\ ~InSeq(q, j) => Once(Append(q, j))
<1>1. /\ DOMAIN q = 1..Len(q) /\ Len(q) \in Nat /\ DOMAIN Append(q, j) = 1..(Len(q) + 1)
      /\ \A i \in 1..Len(q) : Append(q, j)[i] = q[i]
      /\ Append(q, j)[Len(q) + 1] = j
  OBVIOUS
<1>2. 1..(Len(q) + 1) = (1..Len(q)) \cup {Len(q) + 1}
  BY <1>1
<1> HIDE DEF InSeq
<1> QED BY <1>1, <1>2 DEF InSeq, Once

LEMMA TailFacts ==
    ASSUME NEW q \in Seq(Jobs), q # <<>>
    PROVE  /\ InSeq(q, Head(q))
           /\ \A k : k # Head(q) => (InSeq(Tail(q), k) <=> InSeq(q, k))
           /\ Once(q) => Once(Tail(q)) /\ ~InSeq(Tail(q), Head(q))
<1>1. /\ DOMAIN q = 1..Len(q) /\ Len(q) \in Nat /\ Len(q) > 0 /\ Head(q) = q[1]
      /\ DOMAIN Tail(q) = 1..(Len(q) - 1)
      /\ \A i \in 1..(Len(q) - 1) : Tail(q)[i] = q[i + 1]
  OBVIOUS
<1>2. \A i \in 2..Len(q) : i - 1 \in 1..(Len(q) - 1) /\ Tail(q)[i - 1] = q[i]
  BY <1>1
<1>3. InSeq(q, Head(q))
  BY <1>1 DEF InSeq
<1>4. ASSUME NEW k, k # Head(q) PROVE InSeq(Tail(q), k) <=> InSeq(q, k)
  <2>1. ASSUME InSeq(Tail(q), k) PROVE InSeq(q, k)
    <3>1. PICK i \in 1..(Len(q) - 1) : q[i + 1] = k
      BY <1>1, <2>1 DEF InSeq
    <3>2. i + 1 \in 1..Len(q)
      BY <1>1
    <3> QED BY <1>1, <3>1, <3>2 DEF InSeq
  <2>2. ASSUME InSeq(q, k) PROVE InSeq(Tail(q), k)
    <3>1. PICK i \in 1..Len(q) : q[i] = k
      BY <1>1, <2>2 DEF InSeq
    <3>2. i \in 2..Len(q)
      BY <1>1, <1>4, <3>1
    <3> QED BY <1>1, <1>2, <3>1, <3>2 DEF InSeq
  <2> QED BY <2>1, <2>2
<1>5. ASSUME Once(q) PROVE Once(Tail(q)) /\ ~InSeq(Tail(q), Head(q))
  <2>1. \A i \in 1..(Len(q) - 1) : i + 1 \in 1..Len(q) /\ i + 1 # 1
    BY <1>1
  <2> QED BY <1>1, <1>5, <2>1 DEF Once, InSeq
<1> QED BY <1>3, <1>4, <1>5

(* _enqueue_job for a job nobody has queued or registered. *)
LEMMA EnqueueFacts ==
    ASSUME ServiceType, QueuedOnce, NEW p \in Procs, NEW j \in Jobs, Enqueue(p, j),
           ~Queued(p, j), j \notin registered[p]
    PROVE  /\ QueuedOnce'
           /\ \A q \in Procs, k \in Jobs : q # p \/ k # j =>
                 (Queued(q, k)' <=> Queued(q, k)) /\ (k \in registered'[q] <=> k \in registered[q])
           /\ mode[p] = "closed" => ~Queued(p, j)' /\ j \notin registered'[p]
           /\ mode[p] # "closed" => Queued(p, j)' /\ j \in registered'[p]
<1> USE DEF ServiceType
<1>1. \A q \in Procs : queue[q] \in Seq(Jobs) /\ Once(queue[q])
  BY DEF QueuedOnce, Once
<1>2. \A q \in Procs : \A k : (Queued(q, k) <=> InSeq(queue[q], k)) /\ (Queued(q, k)' <=> InSeq(queue'[q], k))
  BY DEF Queued, InSeq
<1>3. CASE mode[p] = "closed"
  <2>1. UNCHANGED <<queue, registered>>
    BY <1>3 DEF Enqueue
  <2> QED BY <1>3, <2>1 DEF Queued, QueuedOnce
<1>4. CASE mode[p] # "closed"
  <2>1. /\ queue'[p] = Append(queue[p], j) /\ \A q \in Procs \ {p} : queue'[q] = queue[q]
        /\ registered'[p] = registered[p] \cup {j} /\ \A q \in Procs \ {p} : registered'[q] = registered[q]
    BY <1>4 DEF Enqueue
  <2>2. /\ \A k : InSeq(queue'[p], k) <=> k = j \/ InSeq(queue[p], k)
        /\ Once(queue'[p])
    BY <1>1, <1>2, <2>1, AppendFacts
  <2>3. \A q \in Procs : Once(queue'[q])
    BY <1>1, <2>1, <2>2
  <2>4. QueuedOnce'
    BY <2>3 DEF QueuedOnce, Once
  <2> QED BY <1>2, <1>4, <2>1, <2>2, <2>4
<1> QED BY <1>3, <1>4

-----------------------------------------------------------------------------
(* One job of one process at a time. *)

(* No hand lets a job drop without a reason. *)
Care(p, j) ==
    NoHands(p, j)' => NoHands(p, j) \/ IsTerminal(j)' \/ Stopping(p)' \/ mode'[p] = "down"

Cared == \A p \in Procs, j \in Jobs : Care(p, j)

Busy(t, j) == job[t] = j /\ pc[t] \in HandAt \cup {"leaving"}

(* A step that has nothing to do with a job of a process. *)
Untouched(p, j) ==
    /\ Stopping(p) => Stopping(p)'
    /\ mode'[p] = "down" => mode[p] = "down"
    /\ \A t \in Threads : Home[t] = p =>
          \/ pc'[t] = pc[t] /\ job'[t] = job[t] /\ due'[t] = due[t]
          \/ ~Busy(t, j) /\ ~Busy(t, j)'
    /\ Queued(p, j)' <=> Queued(p, j)
    /\ j \in registered'[p] <=> j \in registered[p]
    /\ j \in timers'[p] <=> j \in timers[p]
    /\ j \in firing'[p] <=> j \in firing[p]
    /\ j \in todo'[p] <=> j \in todo[p]
    /\ j \in watched'[p] <=> j \in watched[p]

(* Records are not forgotten, and terminal ones stay terminal. *)
StatusGrows ==
    \A j \in Jobs : /\ status'[j] = "none" => status[j] = "none"
                    /\ IsTerminal(j) => IsTerminal(j)'

LEMMA SameHands ==
    ASSUME NEW p \in Procs, NEW j \in Jobs, Untouched(p, j)
    PROVE  /\ \A t \in Threads : Has(t, p, j)' <=> Has(t, p, j)
           /\ \A s \in Shelves : Kept(s, p, j)' <=> Kept(s, p, j)
           /\ \A t \in Threads : Has(t, p, j) => pc'[t] = pc[t] /\ due'[t] = due[t]
<1>1. ASSUME NEW t \in Threads
      PROVE  (Has(t, p, j)' <=> Has(t, p, j)) /\ (Has(t, p, j) => pc'[t] = pc[t] /\ due'[t] = due[t])
  BY DEF Untouched, Has, Busy
<1>2. ASSUME NEW s \in Shelves PROVE Kept(s, p, j)' <=> Kept(s, p, j)
  BY DEF Untouched, Kept
<1> QED BY <1>1, <1>2

LEMMA UntouchedKeeps ==
    ASSUME NEW p \in Procs, NEW j \in Jobs, Untouched(p, j), StatusGrows, CustodyOf(p, j)
    PROVE  CustodyOf(p, j)' /\ Care(p, j)
<1>1. /\ \A t \in Threads : Has(t, p, j)' <=> Has(t, p, j)
      /\ \A s \in Shelves : Kept(s, p, j)' <=> Kept(s, p, j)
      /\ \A t \in Threads : Has(t, p, j) => pc'[t] = pc[t] /\ due'[t] = due[t]
  BY SameHands
<1>2. /\ Queued(p, j)' <=> Queued(p, j)
      /\ j \in registered'[p] <=> j \in registered[p]
      /\ j \in watched'[p] <=> j \in watched[p]
      /\ Stopping(p) => Stopping(p)'
      /\ mode'[p] = "down" => mode[p] = "down"
  BY DEF Untouched
<1>3. /\ status'[j] = "none" => status[j] = "none"
      /\ IsTerminal(j) => IsTerminal(j)'
  BY DEF StatusGrows
<1>4. OneHand(p, j)'
  BY <1>1 DEF CustodyOf, OneHand
<1>5. HandsAreReal(p, j)'
  BY <1>1, <1>2, <1>3 DEF CustodyOf, HandsAreReal, NoHands
<1>6. StaleIsDead(p, j)'
  BY <1>1, <1>2 DEF CustodyOf, StaleIsDead
<1>7. FutureIsLive(p, j)'
  BY <1>1, <1>2, ThreadKinds DEF CustodyOf, FutureIsLive
<1>8. WatchIsLive(p, j)'
  <2>1. ASSUME NEW w \in Watchers, Home[w] = p, job[w] = j, pc[w] \in Taking \cup {"leaving"}
        PROVE  job'[w] = j /\ pc'[w] = pc[w]
    BY <2>1, ThreadKinds DEF Untouched, Busy, HandAt
  <2> QED BY <1>2, <1>3, <2>1 DEF CustodyOf, WatchIsLive
<1>9. DropsWithReason(p, j)'
  BY <1>1, <1>2, <1>3, ThreadKinds DEF CustodyOf, DropsWithReason
<1>10. Care(p, j)
  BY <1>1 DEF Care, NoHands
<1> QED BY <1>4, <1>5, <1>6, <1>7, <1>8, <1>9, <1>10 DEF CustodyOf

(* A step touches one job of one process. *)
TouchesOnly(p, j) == \A q \in Procs, k \in Jobs : q # p \/ k # j => Untouched(q, k)

LEMMA OnePair ==
    ASSUME CustodyInv, StatusGrows, QueuedOnce', NEW p \in Procs, NEW j \in Jobs, TouchesOnly(p, j),
           CustodyOf(p, j)', Care(p, j)
    PROVE  CustodyInv' /\ Cared
BY UntouchedKeeps DEF CustodyInv, Cared, TouchesOnly

LEMMA NoPair ==
    ASSUME CustodyInv, StatusGrows, QueuedOnce', \A p \in Procs, j \in Jobs : Untouched(p, j)
    PROVE  CustodyInv' /\ Cared
BY UntouchedKeeps DEF CustodyInv, Cared

(* A thread's step leaves every other thread as it was. *)
OthersStay(t) == \A u \in Threads \ {t} : pc'[u] = pc[u] /\ job'[u] = job[u] /\ due'[u] = due[u]

LEMMA StepFacts ==
    ASSUME ThreadType, NEW t \in Threads
    PROVE  /\ \A l : Goto(t, l) => OthersStay(t) /\ pc'[t] = l /\ job'[t] = job[t] /\ due'[t] = due[t]
           /\ \A l, d : Leave(t, l, d) => OthersStay(t) /\ pc'[t] = l /\ job'[t] = job[t] /\ due'[t] = d
           /\ Return(t) => OthersStay(t) /\ pc'[t] = "idle" /\ job'[t] = NoJob /\ due'[t] = "none"
           /\ UNCHANGED local => OthersStay(t) /\ pc'[t] = pc[t] /\ job'[t] = job[t] /\ due'[t] = due[t]
BY DEF ThreadType, Goto, Leave, Return, OthersStay, local

LEMMA HandPlaces ==
    /\ HandAt \cap {"idle", "leaving", "consumeInline", "popTimer", "cancelFuture", "armed", "retryNow"} = {}
    /\ Working \subseteq HandAt /\ Waiting \subseteq HandAt /\ Taking \subseteq HandAt
    /\ Working \cap Taking = {} /\ Waiting \cap Working = {} /\ Waiting \cap Taking = {}
BY DEF HandAt, Working, Waiting, Taking, WorkerLeased, HoldsSlot

(* A thread goes on with the job it has. *)
LEMMA GoesOn ==
    ASSUME TypeOK, CustodyInv, StatusGrows, NEW t \in Threads, OthersStay(t), UNCHANGED <<service, life>>,
           NEW p \in Procs, p = Home[t], NEW j \in Jobs, j = job[t],
           pc[t] \in HandAt \ {"writeCancelled"}, job'[t] = job[t], pc'[t] \in HandAt,
           t \in Workers /\ pc[t] \in Working => pc'[t] \in Working,
           t \in Watchers /\ pc[t] \in Taking => pc'[t] \in Taking,
           t \in Workers /\ pc'[t] \in {"consume", "releaseSlot", "unlease", "pop"} =>
               due'[t] \in Waiting \/ IsTerminal(j)' \/ Stopping(p),
           t \in Watchers \cup Mains /\ pc'[t] = "recovered" => due'[t] = "requeue" \/ IsTerminal(j)'
    PROVE  CustodyInv' /\ Cared
<1>2. TouchesOnly(p, j)
  BY DEF TouchesOnly, Untouched, Busy, OthersStay, service, life, Stopping, Queued
<1>3. CustodyOf(p, j) /\ Has(t, p, j) /\ Has(t, p, j)'
  BY DEF CustodyInv, Has
<1>4. /\ \A u \in Threads : Has(u, p, j)' <=> Has(u, p, j)
      /\ \A u \in Threads : u # t /\ Has(u, p, j) => pc'[u] = pc[u] /\ due'[u] = due[u]
      /\ \A s \in Shelves : Kept(s, p, j)' <=> Kept(s, p, j)
      /\ Queued(p, j)' <=> Queued(p, j)
      /\ UNCHANGED <<registered, watched, mode>>
      /\ Stopping(p)' <=> Stopping(p)
  BY <1>3 DEF Has, Kept, Queued, OthersStay, service, life, Stopping
<1>5. OneHand(p, j)' /\ HandsAreReal(p, j)'
  BY <1>3, <1>4 DEF CustodyOf, OneHand, HandsAreReal, NoHands, StatusGrows
<1>6. StaleIsDead(p, j)'
  BY <1>3, <1>4 DEF CustodyOf, StaleIsDead
<1>7. FutureIsLive(p, j)'
  BY <1>3, <1>4, ThreadKinds DEF CustodyOf, FutureIsLive
<1>8. WatchIsLive(p, j)'
  <2>1. ASSUME NEW w \in Watchers, Home[w] = p, job[w] = j, pc[w] \in Taking \cup {"leaving"}
        PROVE  job'[w] = j /\ (pc'[w] = pc[w] \/ (pc[w] \in Taking /\ pc'[w] \in Taking))
    <3>1. w \in Threads
      BY ThreadKinds
    <3>2. CASE w # t
      BY <2>1, <3>1, <3>2 DEF OthersStay
    <3>3. CASE w = t
      BY <2>1, <3>3, HandPlaces
    <3> QED BY <3>2, <3>3
  <2>2. IsTerminal(j) => IsTerminal(j)'
    BY DEF StatusGrows
  <2> QED BY <1>3, <1>4, <2>1, <2>2 DEF CustodyOf, WatchIsLive
<1>9. DropsWithReason(p, j)'
  <2>1. IsTerminal(j) => IsTerminal(j)'
    BY DEF StatusGrows
  <2> QED BY <1>3, <1>4, <2>1, ThreadKinds DEF CustodyOf, DropsWithReason
<1>10. Care(p, j)
  BY <1>3, <1>4 DEF Care, NoHands
<1>11. QueuedOnce'
  BY DEF CustodyInv, QueuedOnce, service
<1> QED BY <1>2, <1>5, <1>6, <1>7, <1>8, <1>9, <1>10, <1>11, OnePair DEF CustodyOf

(* A thread lets go of a job that needs nobody any more. *)
LEMMA LetsGo ==
    ASSUME TypeOK, CustodyInv, StatusGrows, NEW t \in Threads, OthersStay(t), UNCHANGED <<service, life>>,
           NEW p \in Procs, p = Home[t], NEW j \in Jobs, j = job[t],
           pc[t] \in HandAt \ Working, pc'[t] \in {"idle", "leaving"}, job'[t] \notin Jobs \ {j},
           t \in Watchers => pc'[t] = "leaving" /\ job'[t] = j,
           IsTerminal(j)' \/ Stopping(p)
    PROVE  CustodyInv' /\ Cared
<1>1. Stopping(p) <=> Stopping(p)'
  BY DEF life, Stopping
<1>2. TouchesOnly(p, j)
  BY DEF TouchesOnly, Untouched, Busy, OthersStay, service, life, Stopping, Queued
<1>3. CustodyOf(p, j) /\ Has(t, p, j)
  BY DEF CustodyInv, Has
<1>4. /\ \A u \in Threads : ~Has(u, p, j)'
      /\ \A s \in Shelves : ~Kept(s, p, j)'
      /\ Queued(p, j)' <=> Queued(p, j)
      /\ UNCHANGED <<registered, watched, mode>>
  <2>1. \A u \in Threads \ {t} : ~Has(u, p, j)
    BY <1>3 DEF CustodyOf, OneHand
  <2>2. \A s \in Shelves : ~Kept(s, p, j)
    BY <1>3 DEF CustodyOf, OneHand
  <2>3. ~Has(t, p, j)'
    BY HandPlaces DEF Has
  <2> QED BY <2>1, <2>2, <2>3 DEF Has, Kept, Queued, OthersStay, service, life
<1>5. OneHand(p, j)' /\ StaleIsDead(p, j)' /\ DropsWithReason(p, j)'
  BY <1>4, ThreadKinds DEF OneHand, StaleIsDead, DropsWithReason
<1>6. HandsAreReal(p, j)'
  BY <1>3, <1>4 DEF CustodyOf, HandsAreReal, NoHands, StatusGrows
<1>7. FutureIsLive(p, j)'
  BY <1>3, <1>4, ThreadKinds DEF CustodyOf, FutureIsLive, OneHand
<1>8. WatchIsLive(p, j)'
  <2>1. ASSUME NEW w \in Watchers, Home[w] = p, job[w] = j, pc[w] \in Taking \cup {"leaving"}
        PROVE  job'[w] = j /\ (pc'[w] = pc[w] \/ pc'[w] = "leaving")
    <3>1. w \in Threads
      BY ThreadKinds
    <3> QED BY <2>1, <3>1 DEF OthersStay
  <2> QED BY <1>1, <1>3, <1>4, <2>1 DEF CustodyOf, WatchIsLive, StatusGrows
<1>9. Care(p, j)
  BY <1>1 DEF Care
<1>10. QueuedOnce'
  BY DEF CustodyInv, QueuedOnce, service
<1> QED BY <1>2, <1>5, <1>6, <1>7, <1>8, <1>9, <1>10, OnePair DEF CustodyOf

(* A thread that has no job in hand. *)
LEMMA StaysAside ==
    ASSUME CustodyInv, StatusGrows, NEW t \in Threads, OthersStay(t), UNCHANGED <<service, life>>,
           pc[t] \notin HandAt \cup {"leaving"}, pc'[t] \notin HandAt \cup {"leaving"}
    PROVE  CustodyInv' /\ Cared
<1>1. \A p \in Procs, j \in Jobs : Untouched(p, j)
  BY DEF Untouched, Busy, OthersStay, service, life, Stopping, Queued
<1>2. QueuedOnce'
  BY DEF CustodyInv, QueuedOnce, service
<1> QED BY <1>1, <1>2, NoPair

(* _enqueue_job is called for jobs that are neither queued nor registered: *)
(* it refuses nobody.                                                      *)
LEMMA NotYetQueued ==
    ASSUME NEW p \in Procs, NEW j \in Jobs, CustodyOf(p, j),
           \/ Kept("firing", p, j)
           \/ \E t \in Threads : Has(t, p, j) /\ pc[t] \notin Working \cup {"writeCancelled"}
    PROVE  ~Queued(p, j) /\ j \notin registered[p]
<1>1. ~(Queued(p, j) /\ j \notin registered[p])
  BY DEF CustodyOf, StaleIsDead, Shelves
<1>2. ~Kept("queued", p, j)
  BY DEF CustodyOf, OneHand, Shelves
<1>3. ~\E t \in Workers : Has(t, p, j) /\ pc[t] \in Working
  BY ThreadKinds DEF CustodyOf, OneHand, Shelves
<1> QED BY <1>1, <1>2, <1>3 DEF CustodyOf, FutureIsLive, Kept

(* The hand that enqueues a job gives it to the queue.                     *)
LEMMA Enqueued ==
    ASSUME TypeOK, CustodyInv, StatusGrows, NEW p \in Procs, NEW j \in Jobs, Enqueue(p, j), UNCHANGED life,
           ~NoHands(p, j), ~Queued(p, j), j \notin registered[p],
           \A t \in Threads : ~Has(t, p, j)', j \notin timers'[p], j \notin firing'[p], j \notin todo'[p],
           \A t \in Threads : Has(t, p, j) => pc[t] \notin Taking,
           \A w \in Watchers : pc[w] = "leaving" => pc'[w] = pc[w] /\ job'[w] = job[w]
    PROVE  CustodyOf(p, j)' /\ Care(p, j) /\ QueuedOnce'
<1>1. /\ QueuedOnce'
      /\ mode[p] = "closed" => ~Queued(p, j)' /\ j \notin registered'[p]
      /\ mode[p] # "closed" => Queued(p, j)' /\ j \in registered'[p]
  BY EnqueueFacts DEF CustodyInv, TypeOK
<1>2. CustodyOf(p, j) /\ mode' = mode /\ watched' = watched
  BY DEF CustodyInv, life, Enqueue
<1>3. \A s \in Shelves : Kept(s, p, j)' <=> s = "queued" /\ mode[p] # "closed"
  BY <1>1 DEF Kept, Shelves
<1>4. OneHand(p, j)' /\ StaleIsDead(p, j)' /\ DropsWithReason(p, j)' /\ FutureIsLive(p, j)'
  BY <1>1, <1>3, ThreadKinds DEF OneHand, StaleIsDead, DropsWithReason, FutureIsLive
<1>5. HandsAreReal(p, j)'
  BY <1>2 DEF CustodyOf, HandsAreReal, StatusGrows
<1>6. WatchIsLive(p, j)'
  <2>1. ASSUME NEW w \in Watchers, Home[w] = p, job[w] = j, pc[w] \in Taking PROVE FALSE
    BY <2>1, ThreadKinds, HandPlaces DEF Has
  <2> QED BY <1>2, <2>1 DEF CustodyOf, WatchIsLive, StatusGrows, Stopping
<1>7. Care(p, j)
  BY <1>2, <1>3 DEF Care, NoHands, Stopping, Shelves
<1> QED BY <1>1, <1>4, <1>5, <1>6, <1>7 DEF CustodyOf

-----------------------------------------------------------------------------
(* Request handlers. *)

LEMMA CreateCustody ==
    ASSUME TypeOK, CustodyInv, StatusGrows, NEW h \in Handlers, NEW j \in Jobs, Create(h, j)
    PROVE  CustodyInv' /\ Cared
<1> h \in Threads /\ h \notin Workers /\ h \notin Watchers /\ h \notin Mains
  BY ThreadKinds
<1>1. PICK p \in Procs : p = Home[h]
  BY ThreadKinds
<1>2. /\ OthersStay(h) /\ pc[h] = "idle" /\ pc'[h] = "created" /\ job'[h] = j /\ UNCHANGED <<service, life>>
      /\ status[j] = "none" /\ status'[j] = "ACCEPTED" /\ mode[p] = "serving"
  BY <1>1 DEF Create, SetStatus, At, OthersStay, TypeOK, ThreadType, StoreType
<1>3. TouchesOnly(p, j)
  BY <1>1, <1>2, HandPlaces DEF TouchesOnly, Untouched, Busy, OthersStay, service, life, Stopping, Queued
<1>4. CustodyOf(p, j) /\ NoHands(p, j) /\ ~Queued(p, j)
  BY <1>2 DEF CustodyInv, CustodyOf, HandsAreReal
<1>5. /\ \A u \in Threads : Has(u, p, j)' <=> u = h
      /\ \A s \in Shelves : ~Kept(s, p, j)'
      /\ ~Queued(p, j)' /\ UNCHANGED <<registered, watched, mode>>
  BY <1>1, <1>2, <1>4 DEF NoHands, Has, Kept, Queued, OthersStay, service, life, HandAt
<1>6. OneHand(p, j)' /\ HandsAreReal(p, j)' /\ StaleIsDead(p, j)' /\ DropsWithReason(p, j)'
  BY <1>2, <1>5, ThreadKinds DEF OneHand, HandsAreReal, StaleIsDead, DropsWithReason
<1>7. FutureIsLive(p, j)'
  BY <1>4, <1>5, ThreadKinds DEF CustodyOf, FutureIsLive, NoHands
<1>8. WatchIsLive(p, j)'
  <2>1. j \notin watched[p]
    <3>1. ~IsTerminal(j) /\ ~Stopping(p)
      BY <1>2 DEF IsTerminal, Terminal, Stopping
    <3>2. ASSUME NEW w \in Watchers, Home[w] = p, job[w] = j, pc[w] \in Taking PROVE FALSE
      BY <1>4, <3>2, ThreadKinds, HandPlaces DEF NoHands, Has
    <3> QED BY <1>4, <3>1, <3>2 DEF CustodyOf, WatchIsLive
  <2> QED BY <1>5, <2>1 DEF WatchIsLive
<1>9. Care(p, j)
  BY <1>5 DEF Care, NoHands
<1>10. QueuedOnce'
  BY <1>2 DEF CustodyInv, QueuedOnce, service
<1> QED BY <1>3, <1>6, <1>7, <1>8, <1>9, <1>10, OnePair DEF CustodyOf

LEMMA EnqueueCreatedCustody ==
    ASSUME TypeOK, CustodyInv, StatusGrows, NEW h \in Handlers, EnqueueCreated(h)
    PROVE  CustodyInv' /\ Cared
<1> h \in Threads /\ h \notin Workers /\ h \notin Watchers /\ h \notin Mains /\ ThreadType
  BY ThreadKinds DEF TypeOK
<1>1. pc[h] = "created" /\ Enqueue(Home[h], job[h]) /\ OthersStay(h) /\ pc'[h] = "idle" /\ job'[h] = NoJob
      /\ UNCHANGED <<timers, firing, life>> /\ job[h] \in Jobs
  BY StepFacts DEF EnqueueCreated, At, ThreadType
<1>2. PICK p \in Procs, j \in Jobs : p = Home[h] /\ j = job[h]
  BY <1>1, ThreadKinds
<1>3. Has(h, p, j) /\ CustodyOf(p, j)
  BY <1>1, <1>2 DEF Has, HandAt, CustodyInv
<1>4. ~Queued(p, j) /\ j \notin registered[p]
  BY <1>1, <1>3, NotYetQueued DEF Working, WorkerLeased, HoldsSlot
<1>5. /\ \A u \in Threads : ~Has(u, p, j)'
      /\ \A u \in Threads : Has(u, p, j) => pc[u] \notin Taking
      /\ j \notin timers'[p] /\ j \notin firing'[p] /\ j \notin todo'[p]
  BY <1>1, <1>3, HandPlaces DEF CustodyOf, OneHand, Has, Kept, Shelves, OthersStay, life, Taking
<1>6. \A w \in Watchers : pc'[w] = pc[w] /\ job'[w] = job[w]
  BY <1>1, ThreadKinds DEF OthersStay
<1>7. CustodyOf(p, j)' /\ Care(p, j) /\ QueuedOnce'
  BY <1>1, <1>2, <1>3, <1>4, <1>5, <1>6, Enqueued DEF NoHands
<1>8. TouchesOnly(p, j)
  BY <1>1, <1>2, <1>4, EnqueueFacts, HandPlaces
     DEF TouchesOnly, Untouched, Busy, OthersStay, life, Stopping, Enqueue, CustodyInv, TypeOK
<1> QED BY <1>7, <1>8, OnePair

(* Steps of a request that take the job from a timer or from the queue.    *)
LEMMA TakesOver ==
    ASSUME TypeOK, CustodyInv, StatusGrows, NEW h \in Handlers, NEW p \in Procs, NEW j \in Jobs,
           p = Home[h], OthersStay(h), pc[h] \notin HandAt, pc'[h] = "writeCancelled", job'[h] = j,
           TouchesOnly(p, j), UNCHANGED <<queue, firing, watched, life>>, NEW s \in {"queued", "timer"}, Kept(s, p, j),
           s = "queued" => j \notin registered'[p] /\ timers' = timers,
           s = "timer" => j \notin timers'[p] /\ registered' = registered
    PROVE  CustodyInv' /\ Cared
<1> h \in Threads /\ h \notin Workers /\ h \notin Watchers /\ h \notin Mains
  BY ThreadKinds
<1>1. CustodyOf(p, j)
  BY DEF CustodyInv
<1>2. /\ \A u \in Threads : ~Has(u, p, j)
      /\ \A r \in Shelves : r # s => ~Kept(r, p, j)
  BY <1>1 DEF CustodyOf, OneHand, Shelves
<1>3. /\ \A u \in Threads : Has(u, p, j)' <=> u = h
      /\ Queued(p, j)' <=> Queued(p, j)
      /\ mode' = mode /\ (j \in registered'[p] => j \in registered[p])
  BY <1>2 DEF Has, HandAt, OthersStay, Queued, life
<1>4. \A r \in Shelves : ~Kept(r, p, j)'
  <2>1. s = "queued" => ~Kept("timer", p, j) /\ ~Kept("firing", p, j) /\ ~Kept("todo", p, j)
    BY <1>2 DEF Shelves
  <2>2. s = "timer" => ~Kept("queued", p, j) /\ ~Kept("firing", p, j) /\ ~Kept("todo", p, j)
    BY <1>2 DEF Shelves
  <2> QED BY <1>3, <2>1, <2>2 DEF Kept, Shelves, life
<1>5. OneHand(p, j)' /\ StaleIsDead(p, j)' /\ DropsWithReason(p, j)'
  BY <1>3, <1>4, ThreadKinds DEF OneHand, StaleIsDead, DropsWithReason
<1>6. HandsAreReal(p, j)'
  BY <1>1, <1>3 DEF CustodyOf, HandsAreReal, NoHands, StatusGrows, Shelves
<1>7. FutureIsLive(p, j)'
  BY <1>1, <1>2, <1>3, ThreadKinds DEF CustodyOf, FutureIsLive
<1>8. WatchIsLive(p, j)'
  <2>1. \A w \in Watchers : pc'[w] = pc[w] /\ job'[w] = job[w]
    BY ThreadKinds DEF OthersStay
  <2> QED BY <1>1, <1>3, <2>1 DEF CustodyOf, WatchIsLive, StatusGrows, Stopping
<1>9. Care(p, j)
  BY <1>3 DEF Care, NoHands
<1>10. QueuedOnce'
  BY DEF CustodyInv, QueuedOnce
<1> QED BY <1>5, <1>6, <1>7, <1>8, <1>9, <1>10, OnePair DEF CustodyOf

LEMMA HandlerCustody ==
    ASSUME TypeOK, CustodyInv, StatusGrows, NEW h \in Handlers, NEW k \in Jobs,
           Create(h, k) \/ RecordCompleted(h, k) \/ RequestCancel(h, k) \/ HandlerStep(h)
    PROVE  CustodyInv' /\ Cared
<1> h \in Threads /\ h \notin Workers /\ h \notin Watchers /\ h \notin Mains /\ ThreadType
  BY ThreadKinds DEF TypeOK
<1> USE DEF At
<1>1. CASE Create(h, k)
  BY <1>1, CreateCustody
<1>2. CASE RecordCompleted(h, k) \/ RequestCancel(h, k)
  <2>1. OthersStay(h) /\ pc[h] = "idle" /\ pc'[h] \in {"idle", "consumeInline", "popTimer", "cancelFuture"}
        /\ UNCHANGED <<service, life>>
    BY <1>2 DEF RecordCompleted, RequestCancel, OthersStay, ThreadType, local
  <2> QED BY <2>1, StaysAside, HandPlaces
<1>3. CASE EnqueueCreated(h)
  BY <1>3, EnqueueCreatedCustody
<1>4. CASE ConsumeInline(h)
  <2>1. OthersStay(h) /\ pc[h] = "consumeInline" /\ pc'[h] = "idle" /\ UNCHANGED <<service, life>>
    BY <1>4, StepFacts DEF ConsumeInline
  <2> QED BY <2>1, StaysAside, HandPlaces
<1>5. CASE PopTimer(h)
  <2>1. pc[h] = "popTimer" /\ job[h] \in Jobs /\ OthersStay(h)
        /\ UNCHANGED <<queue, registered, firing, watched, life>>
        /\ timers' = [timers EXCEPT ![Home[h]] = @ \ {job[h]}]
    BY <1>5, StepFacts DEF PopTimer, ThreadType
  <2>2. PICK p \in Procs, j \in Jobs : p = Home[h] /\ j = job[h]
    BY <2>1, ThreadKinds
  <2>3. CASE j \in timers[p]
    <3>1. pc'[h] = "writeCancelled" /\ job'[h] = j
      BY <1>5, <2>2, <2>3, StepFacts DEF PopTimer
    <3>2. TouchesOnly(p, j)
      BY <2>1, <2>2, <3>1, HandPlaces
         DEF TouchesOnly, Untouched, Busy, OthersStay, life, Stopping, Queued, TypeOK, ServiceType
    <3>3. Kept("timer", p, j) /\ j \notin timers'[p]
      BY <2>1, <2>2, <2>3 DEF Kept, TypeOK, ServiceType
    <3> QED BY <2>1, <2>2, <3>1, <3>2, <3>3, TakesOver, HandPlaces
  <2>4. CASE j \notin timers[p]
    <3>1. pc'[h] = "idle"
      BY <1>5, <2>2, <2>4, StepFacts DEF PopTimer
    <3>2. UNCHANGED service
      BY <2>1, <2>2, <2>4 DEF TypeOK, ServiceType, service
    <3> QED BY <2>1, <3>1, <3>2, StaysAside, HandPlaces
  <2> QED BY <2>3, <2>4
<1>6. CASE CancelFuture(h)
  <2>1. pc[h] = "cancelFuture" /\ job[h] \in Jobs /\ OthersStay(h)
        /\ UNCHANGED <<queue, timers, firing, watched, life>>
    BY <1>6, StepFacts DEF CancelFuture, ThreadType
  <2>2. PICK p \in Procs, j \in Jobs : p = Home[h] /\ j = job[h]
    BY <2>1, ThreadKinds
  <2>3. CASE j \in registered[p] /\ Queued(p, j)
    <3>1. pc'[h] = "writeCancelled" /\ job'[h] = j /\ registered' = [registered EXCEPT ![p] = @ \ {j}]
      BY <1>6, <2>2, <2>3, StepFacts DEF CancelFuture
    <3>2. TouchesOnly(p, j)
      BY <2>1, <2>2, <3>1, HandPlaces
         DEF TouchesOnly, Untouched, Busy, OthersStay, life, Stopping, Queued, TypeOK, ServiceType
    <3>3. Kept("queued", p, j) /\ j \notin registered'[p]
      BY <2>3, <3>1 DEF Kept, TypeOK, ServiceType
    <3> QED BY <2>1, <2>2, <3>1, <3>2, <3>3, TakesOver, HandPlaces
  <2>4. CASE ~(j \in registered[p] /\ Queued(p, j))
    <3>1. pc'[h] = "idle" /\ UNCHANGED registered
      BY <1>6, <2>2, <2>4, StepFacts DEF CancelFuture
    <3> QED BY <2>1, <3>1, StaysAside, HandPlaces DEF service
  <2> QED BY <2>3, <2>4
<1>7. CASE WriteCancelled(h)
  <2>1. pc[h] = "writeCancelled" /\ job[h] \in Jobs /\ OthersStay(h) /\ pc'[h] = "idle" /\ job'[h] = NoJob
        /\ UNCHANGED <<service, life>> /\ status'[job[h]] = "CANCELLED"
    BY <1>7, StepFacts DEF WriteCancelled, ThreadType, SetStatus, TypeOK, StoreType
  <2>2. PICK p \in Procs, j \in Jobs : p = Home[h] /\ j = job[h]
    BY <2>1, ThreadKinds
  <2>3. IsTerminal(j)'
    BY <2>1, <2>2 DEF IsTerminal, Terminal
  <2>4. pc[h] \in HandAt \ Working /\ job'[h] \notin Jobs
    BY <2>1, ThreadAssumption DEF HandAt, Working, WorkerLeased, HoldsSlot
  <2> QED BY <2>1, <2>2, <2>3, <2>4, LetsGo
<1> QED BY <1>1, <1>2, <1>3, <1>4, <1>5, <1>6, <1>7 DEF HandlerStep

-----------------------------------------------------------------------------
(* Pool threads and timers. *)

LEMMA PickUpCustody ==
    ASSUME TypeOK, CustodyInv, StatusGrows, NEW t \in Workers, PickUp(t)
    PROVE  CustodyInv' /\ Cared
<1> t \in Threads /\ t \notin Watchers /\ t \notin Mains /\ ThreadType /\ ServiceType
  BY ThreadKinds DEF TypeOK
<1>1. PICK p \in Procs : p = Home[t]
  BY ThreadKinds
<1>2. queue[p] \in Seq(Jobs) /\ queue[p] # <<>>
  BY <1>1 DEF PickUp, ServiceType
<1>3. PICK j \in Jobs : j = Head(queue[p])
  BY <1>2
<1>4. /\ queue' = [queue EXCEPT ![p] = Tail(@)] /\ pc[t] = "idle" /\ OthersStay(t)
      /\ UNCHANGED <<registered, timers, firing, watched, life>>
      /\ IF j \in registered[p] THEN pc'[t] = "picked" /\ job'[t] = j
                                 ELSE UNCHANGED local
  BY <1>1, <1>3 DEF PickUp, At, OthersStay, ThreadType, local
<1>5. /\ QueuedOnce' /\ Queued(p, j) /\ ~Queued(p, j)'
      /\ \A q \in Procs, k \in Jobs : q # p \/ k # j => (Queued(q, k)' <=> Queued(q, k))
  <2>1. \A q \in Procs : \A k : (Queued(q, k) <=> InSeq(queue[q], k)) /\ (Queued(q, k)' <=> InSeq(queue'[q], k))
    BY DEF Queued, InSeq
  <2>2. queue'[p] = Tail(queue[p]) /\ \A q \in Procs \ {p} : queue'[q] = queue[q]
    BY <1>4 DEF ServiceType
  <2>3. \A q \in Procs : Once(queue[q])
    BY DEF CustodyInv, QueuedOnce, Once
  <2>4. /\ InSeq(queue[p], j)
        /\ \A k : k # j => (InSeq(queue'[p], k) <=> InSeq(queue[p], k))
        /\ Once(queue'[p]) /\ ~InSeq(queue'[p], j)
    BY <1>2, <1>3, <2>2, <2>3, TailFacts
  <2>5. \A q \in Procs : Once(queue'[q])
    BY <2>2, <2>3, <2>4
  <2>6. QueuedOnce'
    BY <2>5 DEF QueuedOnce, Once
  <2> QED BY <2>1, <2>2, <2>4, <2>6
<1>6. TouchesOnly(p, j)
  BY <1>1, <1>4, <1>5, HandPlaces DEF TouchesOnly, Untouched, Busy, OthersStay, life, Stopping, local
<1>7. CustodyOf(p, j) /\ mode' = mode
  BY <1>4 DEF CustodyInv, life
<1>8. WatchIsLive(p, j)'
  <2>1. \A w \in Watchers : pc'[w] = pc[w] /\ job'[w] = job[w]
    BY <1>4, ThreadKinds DEF OthersStay
  <2> QED BY <1>4, <1>7, <2>1 DEF CustodyOf, WatchIsLive, StatusGrows, Stopping
<1>9. CASE j \in registered[p]
  <2>1. Kept("queued", p, j)
    BY <1>5, <1>9 DEF Kept
  <2>2. /\ \A u \in Threads : ~Has(u, p, j)
        /\ \A s \in Shelves : s # "queued" => ~Kept(s, p, j)
    BY <1>7, <2>1 DEF CustodyOf, OneHand, Shelves
  <2>3. \A u \in Threads : Has(u, p, j)' <=> u = t
    BY <1>1, <1>4, <1>9, <2>2 DEF Has, OthersStay, HandAt, Working
  <2>4. \A s \in Shelves : ~Kept(s, p, j)'
    BY <1>4, <1>5, <2>2 DEF Kept, life, Shelves
  <2>5. OneHand(p, j)' /\ StaleIsDead(p, j)'
    BY <1>5, <2>3, <2>4 DEF OneHand, StaleIsDead
  <2>6. DropsWithReason(p, j)'
    BY <1>4, <1>9, <2>3, ThreadKinds DEF DropsWithReason
  <2>7. HandsAreReal(p, j)'
    BY <1>5, <1>7 DEF CustodyOf, HandsAreReal, StatusGrows
  <2>8. FutureIsLive(p, j)'
    BY <1>4, <1>9, <2>3 DEF FutureIsLive, Working
  <2>9. Care(p, j)
    BY <2>3 DEF Care, NoHands
  <2> QED BY <1>5, <1>6, <1>8, <2>5, <2>6, <2>7, <2>8, <2>9, OnePair DEF CustodyOf
<1>10. CASE j \notin registered[p]
  <2>1. /\ \A u \in Threads : pc'[u] = pc[u] /\ job'[u] = job[u] /\ due'[u] = due[u]
        /\ \A s \in Shelves : Kept(s, p, j)' <=> Kept(s, p, j)
    BY <1>4, <1>5, <1>10 DEF OthersStay, local, Kept, life, Shelves
  <2>2. \A u \in Threads : Has(u, p, j)' <=> Has(u, p, j)
    BY <2>1 DEF Has
  <2>3. OneHand(p, j)' /\ StaleIsDead(p, j)' /\ FutureIsLive(p, j)' /\ Care(p, j)
    BY <1>4, <1>5, <1>7, <1>10, <2>1, <2>2 DEF CustodyOf, OneHand, StaleIsDead, FutureIsLive, Care, NoHands
  <2>4. HandsAreReal(p, j)'
    BY <1>5, <1>7, <2>1, <2>2 DEF CustodyOf, HandsAreReal, StatusGrows, NoHands
  <2>5. DropsWithReason(p, j)'
    BY <1>7, <2>1, <2>2, ThreadKinds DEF CustodyOf, DropsWithReason, StatusGrows, Stopping
  <2> QED BY <1>5, <1>6, <1>8, <2>3, <2>4, <2>5, OnePair DEF CustodyOf
<1> QED BY <1>9, <1>10

(* The future is popped only when nothing is left to do under it.          *)
LEMMA PopFutureCustody ==
    ASSUME TypeOK, CustodyInv, StatusGrows, NEW t \in Workers, PopFuture(t)
    PROVE  CustodyInv' /\ Cared
<1> t \in Threads /\ t \notin Watchers /\ t \notin Mains /\ ThreadType /\ ServiceType
  BY ThreadKinds DEF TypeOK
<1>1. /\ pc[t] = "pop" /\ job[t] \in Jobs /\ OthersStay(t) /\ UNCHANGED <<queue, timers, firing, watched, life>>
      /\ registered' = [registered EXCEPT ![Home[t]] = @ \ {job[t]}]
      /\ IF due[t] = "none" THEN pc'[t] = "idle" /\ job'[t] = NoJob
         ELSE pc'[t] = due[t] /\ pc'[t] \in Waiting /\ job'[t] = job[t]
  BY StepFacts DEF PopFuture, At, ThreadType, Waiting
<1>2. PICK p \in Procs, j \in Jobs : p = Home[t] /\ j = job[t]
  BY <1>1, ThreadKinds
<1>3. CustodyOf(p, j) /\ Has(t, p, j)
  BY <1>1, <1>2 DEF CustodyInv, Has, HandAt, Working
<1>4. TouchesOnly(p, j)
  BY <1>1, <1>2, ThreadAssumption, HandPlaces
     DEF TouchesOnly, Untouched, Busy, OthersStay, life, Stopping, Queued, ServiceType
<1>5. /\ ~Queued(p, j)
      /\ \A u \in Threads : Has(u, p, j) => u = t
      /\ \A s \in Shelves : ~Kept(s, p, j)
  <2>1. /\ \A u \in Threads : Has(u, p, j) => u = t
        /\ \A s \in Shelves : ~Kept(s, p, j)
    BY <1>3 DEF CustodyOf, OneHand
  <2>2. ~Queued(p, j) \/ j \in registered[p]
    BY <1>1, <1>3 DEF CustodyOf, StaleIsDead
  <2> QED BY <2>1, <2>2 DEF Kept, Shelves
<1>6. /\ \A u \in Threads : Has(u, p, j)' <=> u = t /\ due[t] # "none"
      /\ \A s \in Shelves : ~Kept(s, p, j)'
      /\ ~Queued(p, j)' /\ j \notin registered'[p] /\ mode' = mode /\ watched' = watched
  BY <1>1, <1>2, <1>5, HandPlaces DEF Has, Kept, Queued, OthersStay, life, Shelves, ServiceType
<1>7. OneHand(p, j)' /\ StaleIsDead(p, j)' /\ FutureIsLive(p, j)'
  BY <1>6 DEF OneHand, StaleIsDead, FutureIsLive
<1>8. DropsWithReason(p, j)'
  BY <1>1, <1>6, ThreadKinds DEF DropsWithReason, Waiting
<1>9. HandsAreReal(p, j)'
  BY <1>3, <1>6 DEF CustodyOf, HandsAreReal, NoHands, StatusGrows
<1>10. WatchIsLive(p, j)'
  <2>1. \A w \in Watchers : pc'[w] = pc[w] /\ job'[w] = job[w]
    BY <1>1, ThreadKinds DEF OthersStay
  <2> QED BY <1>3, <1>6, <2>1 DEF CustodyOf, WatchIsLive, StatusGrows, Stopping
<1>11. Care(p, j)
  <2>1. due[t] = "none" => IsTerminal(j) \/ Stopping(p)
    BY <1>1, <1>3 DEF CustodyOf, DropsWithReason, Waiting
  <2> QED BY <1>6, <2>1 DEF Care, NoHands, StatusGrows, Stopping
<1>12. QueuedOnce'
  BY <1>1 DEF CustodyInv, QueuedOnce
<1> QED BY <1>4, <1>7, <1>8, <1>9, <1>10, <1>11, <1>12, OnePair DEF CustodyOf

LEMMA ScheduleRetryCustody ==
    ASSUME TypeOK, CustodyInv, StatusGrows, NEW t \in Workers, ScheduleRetry(t)
    PROVE  CustodyInv' /\ Cared
<1> t \in Threads /\ t \notin Watchers /\ t \notin Mains /\ ThreadType /\ ServiceType
  BY ThreadKinds DEF TypeOK
<1>1. /\ pc[t] = "retry" /\ job[t] \in Jobs /\ OthersStay(t)
      /\ UNCHANGED <<queue, registered, firing, watched, life>>
      /\ IF Stopping(Home[t]) THEN UNCHANGED timers /\ pc'[t] = "idle" /\ job'[t] = NoJob
         ELSE timers' = [timers EXCEPT ![Home[t]] = @ \cup {job[t]}] /\ pc'[t] = "armed" /\ job'[t] = job[t]
  BY StepFacts DEF ScheduleRetry, At, ThreadType
<1>2. PICK p \in Procs, j \in Jobs : p = Home[t] /\ j = job[t]
  BY <1>1, ThreadKinds
<1>3. CASE Stopping(p)
  <2>1. pc[t] \in HandAt \ Working /\ pc'[t] = "idle" /\ job'[t] \notin Jobs /\ UNCHANGED <<service, life>>
    BY <1>1, <1>2, <1>3, ThreadAssumption, HandPlaces DEF Waiting, service
  <2> QED BY <1>1, <1>2, <1>3, <2>1, LetsGo
<1>4. CASE ~Stopping(p)
  <2>1. CustodyOf(p, j) /\ Has(t, p, j)
    BY <1>1, <1>2, HandPlaces DEF CustodyInv, Has, Waiting
  <2>2. TouchesOnly(p, j)
    BY <1>1, <1>2, <1>4, HandPlaces
       DEF TouchesOnly, Untouched, Busy, OthersStay, life, Stopping, Queued, ServiceType
  <2>3. /\ \A u \in Threads : Has(u, p, j) => u = t
        /\ \A s \in Shelves : ~Kept(s, p, j)
    BY <2>1 DEF CustodyOf, OneHand
  <2>4. ~Queued(p, j) /\ j \notin registered[p]
    BY <1>1, <2>1, NotYetQueued, HandPlaces DEF Waiting, Working, WorkerLeased, HoldsSlot
  <2>5. /\ \A u \in Threads : ~Has(u, p, j)'
        /\ \A s \in Shelves : Kept(s, p, j)' <=> s = "timer"
        /\ ~Queued(p, j)' /\ j \notin registered'[p] /\ mode' = mode /\ watched' = watched
    <3>1. \A u \in Threads : ~Has(u, p, j)'
      BY <1>1, <1>2, <1>4, <2>3, HandPlaces DEF Has, OthersStay
    <3>2. j \in timers'[p] /\ UNCHANGED <<queue, registered, firing, watched, mode, todo>>
      BY <1>1, <1>2, <1>4 DEF life, ServiceType
    <3>3. j \notin firing[p] /\ j \notin todo[p]
      BY <2>3 DEF Kept, Shelves
    <3> QED BY <2>4, <3>1, <3>2, <3>3 DEF Kept, Queued, Shelves
  <2>6. OneHand(p, j)' /\ StaleIsDead(p, j)' /\ FutureIsLive(p, j)'
    BY <2>5 DEF OneHand, StaleIsDead, FutureIsLive
  <2>7. DropsWithReason(p, j)'
    BY <2>5, ThreadKinds DEF DropsWithReason
  <2>8. HandsAreReal(p, j)'
    BY <2>1, <2>5 DEF CustodyOf, HandsAreReal, NoHands, StatusGrows
  <2>9. WatchIsLive(p, j)'
    <3>1. \A w \in Watchers : pc'[w] = pc[w] /\ job'[w] = job[w]
      BY <1>1, ThreadKinds DEF OthersStay
    <3> QED BY <2>1, <2>5, <3>1 DEF CustodyOf, WatchIsLive, StatusGrows, Stopping
  <2>10. Care(p, j)
    BY <2>5 DEF Care, NoHands, Shelves
  <2>11. QueuedOnce'
    BY <1>1 DEF CustodyInv, QueuedOnce
  <2> QED BY <2>2, <2>6, <2>7, <2>8, <2>9, <2>10, <2>11, OnePair DEF CustodyOf
<1> QED BY <1>3, <1>4

(* Nobody's hands move, though a thread without a job in hand may.         *)
HandsStill ==
    \A u \in Threads :
        \/ pc'[u] = pc[u] /\ job'[u] = job[u] /\ due'[u] = due[u]
        \/ pc[u] \notin HandAt \cup {"leaving"} /\ pc'[u] \notin HandAt \cup {"leaving"}

(* A timer is due: _retry_due takes the job from it.                       *)
LEMMA TimerDue ==
    ASSUME TypeOK, CustodyInv, StatusGrows, HandsStill, NEW p \in Procs, NEW j \in Jobs, j \in timers[p],
           timers' = [timers EXCEPT ![p] = @ \ {j}], firing' = [firing EXCEPT ![p] = @ \cup {j}],
           UNCHANGED <<queue, registered, watched, life>>
    PROVE  CustodyInv' /\ Cared
<1>1. TouchesOnly(p, j)
  BY DEF TouchesOnly, Untouched, Busy, HandsStill, life, Stopping, Queued, TypeOK, ServiceType
<1>2. CustodyOf(p, j) /\ Kept("timer", p, j)
  BY DEF CustodyInv, Kept
<1>3. /\ \A u \in Threads : ~Has(u, p, j)
      /\ \A s \in Shelves : s # "timer" => ~Kept(s, p, j)
  BY <1>2 DEF CustodyOf, OneHand, Shelves
<1>4. /\ \A u \in Threads : ~Has(u, p, j)'
      /\ \A s \in Shelves : Kept(s, p, j)' <=> s = "firing"
      /\ Queued(p, j)' <=> Queued(p, j)
      /\ mode' = mode
  BY <1>3 DEF Has, Kept, Queued, HandsStill, life, Shelves, TypeOK, ServiceType
<1>5. OneHand(p, j)'
  BY <1>4 DEF OneHand
<1>6. StaleIsDead(p, j)'
  BY <1>2, <1>4 DEF CustodyOf, StaleIsDead, Shelves
<1>7. FutureIsLive(p, j)'
  BY <1>2, <1>3, <1>4, ThreadKinds DEF CustodyOf, FutureIsLive
<1>8. DropsWithReason(p, j)'
  BY <1>4, ThreadKinds DEF DropsWithReason
<1>9. HandsAreReal(p, j)'
  BY <1>2, <1>4 DEF CustodyOf, HandsAreReal, NoHands, StatusGrows, Shelves
<1>10. WatchIsLive(p, j)'
  <2>1. ASSUME NEW w \in Watchers, pc[w] \in Taking \cup {"leaving"} PROVE pc'[w] = pc[w] /\ job'[w] = job[w]
    BY <2>1, ThreadKinds, HandPlaces DEF HandsStill
  <2> QED BY <1>2, <1>4, <2>1 DEF CustodyOf, WatchIsLive, StatusGrows, Stopping
<1>11. Care(p, j)
  BY <1>4 DEF Care, NoHands, Shelves
<1>12. QueuedOnce'
  BY DEF CustodyInv, QueuedOnce
<1> QED BY <1>1, <1>5, <1>6, <1>7, <1>8, <1>9, <1>10, <1>11, <1>12, OnePair DEF CustodyOf

LEMMA RetryNowCustody ==
    ASSUME TypeOK, CustodyInv, StatusGrows, NEW t \in Workers, RetryNow(t)
    PROVE  CustodyInv' /\ Cared
<1> t \in Threads /\ ThreadType
  BY ThreadKinds DEF TypeOK
<1>1. pc[t] = "retryNow" /\ job[t] \in Jobs /\ OthersStay(t) /\ pc'[t] = "idle"
      /\ UNCHANGED <<queue, registered, watched, life>>
  BY StepFacts DEF RetryNow, At, ThreadType
<1>2. PICK p \in Procs, j \in Jobs : p = Home[t] /\ j = job[t]
  BY <1>1, ThreadKinds
<1>3. HandsStill
  BY <1>1, HandPlaces DEF HandsStill, OthersStay
<1>4. CASE j \in timers[p]
  BY <1>1, <1>2, <1>3, <1>4, TimerDue DEF RetryNow
<1>5. CASE j \notin timers[p]
  <2>1. UNCHANGED service
    BY <1>1, <1>2, <1>5 DEF RetryNow, TypeOK, ServiceType, service
  <2> QED BY <1>1, <2>1, StaysAside, HandPlaces
<1> QED BY <1>4, <1>5

LEMMA TimerCustody ==
    ASSUME TypeOK, CustodyInv, StatusGrows, NEW p \in Procs, NEW j \in Jobs, TimerStep(p, j)
    PROVE  CustodyInv' /\ Cared
<1>1. HandsStill /\ \A t \in Threads : pc'[t] = pc[t] /\ job'[t] = job[t] /\ due'[t] = due[t]
  BY DEF TimerStep, TimerFires, EnqueueRetry, HandsStill, local
<1>2. CASE TimerFires(p, j)
  BY <1>1, <1>2, TimerDue DEF TimerFires
<1>3. CASE EnqueueRetry(p, j)
  <2>1. /\ j \in firing[p] /\ firing' = [firing EXCEPT ![p] = @ \ {j}] /\ Enqueue(p, j)
        /\ UNCHANGED <<timers, life>>
    BY <1>3 DEF EnqueueRetry
  <2>2. CustodyOf(p, j) /\ Kept("firing", p, j)
    BY <2>1 DEF CustodyInv, Kept
  <2>3. ~Queued(p, j) /\ j \notin registered[p]
    BY <2>2, NotYetQueued
  <2>4. /\ \A t \in Threads : ~Has(t, p, j)
        /\ \A s \in Shelves : s # "firing" => ~Kept(s, p, j)
    BY <2>2 DEF CustodyOf, OneHand, Shelves
  <2>5. /\ \A t \in Threads : ~Has(t, p, j)'
        /\ j \notin timers'[p] /\ j \notin firing'[p] /\ j \notin todo'[p]
    BY <1>1, <2>1, <2>4 DEF Has, Kept, Shelves, life, TypeOK, ServiceType
  <2>6. ~NoHands(p, j)
    BY <2>2 DEF NoHands, Shelves
  <2>7. CustodyOf(p, j)' /\ Care(p, j) /\ QueuedOnce'
    BY <1>1, <2>1, <2>3, <2>4, <2>5, <2>6, Enqueued, ThreadKinds
  <2>8. TouchesOnly(p, j)
    <3>1. \A q \in Procs, k \in Jobs : q # p \/ k # j =>
             (Queued(q, k)' <=> Queued(q, k)) /\ (k \in registered'[q] <=> k \in registered[q])
      BY <2>1, <2>3, EnqueueFacts DEF CustodyInv, TypeOK
    <3>2. /\ UNCHANGED <<timers, watched, mode, todo>>
          /\ \A q \in Procs, k \in Jobs : q # p \/ k # j => (k \in firing'[q] <=> k \in firing[q])
      BY <2>1 DEF life, Enqueue, TypeOK, ServiceType
    <3> QED BY <1>1, <3>1, <3>2 DEF TouchesOnly, Untouched, Stopping
  <2> QED BY <2>7, <2>8, OnePair
<1> QED BY <1>2, <1>3 DEF TimerStep

(* A watcher is started, or there is one already, or none is wanted.       *)
LEMMA StartWatcherCustody ==
    ASSUME TypeOK, CustodyInv, StatusGrows, NEW t \in Workers \cup Mains, StartWatcher(t)
    PROVE  CustodyInv' /\ Cared
<1> t \in Threads /\ t \notin Watchers /\ ThreadType /\ ServiceType
  BY ThreadKinds DEF TypeOK
<1>1. pc[t] = "watch" /\ job[t] \in Jobs /\ UNCHANGED <<queue, registered, timers, firing, life>>
  BY DEF StartWatcher, At, ThreadType
<1>2. PICK p \in Procs, j \in Jobs : p = Home[t] /\ j = job[t]
  BY <1>1, ThreadKinds
<1>3. CustodyOf(p, j) /\ Has(t, p, j)
  BY <1>1, <1>2, HandPlaces DEF CustodyInv, Has, Waiting
<1>4. CASE Stopping(p) \/ j \in watched[p]
  <2>1. OthersStay(t) /\ pc'[t] = "idle" /\ job'[t] = NoJob /\ UNCHANGED <<service, life>>
    BY <1>1, <1>2, <1>4, StepFacts DEF StartWatcher, service
  <2>2. IsTerminal(j) \/ Stopping(p)
    <3>1. ASSUME NEW w \in Watchers, Home[w] = p, job[w] = j, pc[w] \in Taking PROVE FALSE
      <4>1. w \in Threads /\ w # t /\ Has(w, p, j)
        BY <3>1, ThreadKinds, HandPlaces DEF Has
      <4> QED BY <1>3, <4>1 DEF CustodyOf, OneHand
    <3> QED BY <1>3, <1>4, <3>1 DEF CustodyOf, WatchIsLive
  <2> QED BY <1>1, <1>2, <2>1, <2>2, LetsGo, ThreadAssumption, HandPlaces DEF StatusGrows, Waiting
<1>5. CASE ~(Stopping(p) \/ j \in watched[p])
  <2>1. PICK w \in Watchers :
          /\ Home[w] = p /\ pc[w] = "idle" /\ watched' = [watched EXCEPT ![p] = @ \cup {j}]
          /\ pc' = [pc EXCEPT ![w] = "watching", ![t] = "idle"]
          /\ job' = [job EXCEPT ![w] = j, ![t] = NoJob]
          /\ due' = [due EXCEPT ![t] = "none"]
    BY <1>2, <1>5 DEF StartWatcher, At
  <2>2. w \in Threads /\ w # t /\ pc'[w] = "watching" /\ job'[w] = j /\ pc'[t] = "idle"
        /\ \A u \in Threads \ {t, w} : pc'[u] = pc[u] /\ job'[u] = job[u] /\ due'[u] = due[u]
    BY <2>1, ThreadKinds DEF ThreadType
  <2>3. TouchesOnly(p, j)
    BY <1>1, <1>2, <2>1, <2>2, HandPlaces
       DEF TouchesOnly, Untouched, Busy, life, Stopping, Queued, ServiceType
  <2>4. /\ \A u \in Threads : Has(u, p, j) => u = t
        /\ \A s \in Shelves : ~Kept(s, p, j)
    BY <1>3 DEF CustodyOf, OneHand
  <2>5. ~Queued(p, j) /\ j \notin registered[p]
    BY <1>1, <1>3, NotYetQueued, HandPlaces DEF Waiting, Working, WorkerLeased, HoldsSlot
  <2>6. /\ \A u \in Threads : Has(u, p, j)' <=> u = w
        /\ \A s \in Shelves : ~Kept(s, p, j)'
        /\ ~Queued(p, j)' /\ j \notin registered'[p] /\ mode' = mode
    <3>1. Has(w, p, j)' /\ ~Has(t, p, j)'
      BY <2>1, <2>2, HandPlaces DEF Has, Taking
    <3>2. \A u \in Threads \ {t, w} : ~Has(u, p, j)'
      BY <2>2, <2>4 DEF Has
    <3> QED BY <1>1, <2>4, <2>5, <3>1, <3>2 DEF Kept, Queued, life
  <2>7. OneHand(p, j)' /\ StaleIsDead(p, j)' /\ FutureIsLive(p, j)'
    BY <2>6 DEF OneHand, StaleIsDead, FutureIsLive
  <2>8. DropsWithReason(p, j)'
    BY <2>2, <2>6, ThreadKinds DEF DropsWithReason
  <2>9. HandsAreReal(p, j)'
    BY <1>3, <2>6 DEF CustodyOf, HandsAreReal, NoHands, StatusGrows
  <2>10. WatchIsLive(p, j)'
    BY <2>1, <2>2 DEF WatchIsLive, Taking
  <2>11. Care(p, j)
    BY <2>2, <2>6 DEF Care, NoHands
  <2>12. QueuedOnce'
    BY <1>1 DEF CustodyInv, QueuedOnce
  <2> QED BY <2>3, <2>7, <2>8, <2>9, <2>10, <2>11, <2>12, OnePair DEF CustodyOf
<1> QED BY <1>4, <1>5

(* A worker's step from picking the job up to releasing its lease. *)
WorksOn(t) ==
    \/ TryLease(t) \/ ReadUnderLease(t) \/ CheckCancelled(t) \/ SlotWon(t) \/ SlotRefused(t) \/ AfterRefusal(t)
    \/ StartAttempt(t) \/ ExecutionEnds(t) \/ ConsumeEvents(t) \/ ReleaseSlot(t) \/ ReleaseLease(t)

LEMMA WorksOnCustody ==
    ASSUME TypeOK, CustodyInv, StatusGrows, NEW t \in Workers, WorksOn(t)
    PROVE  CustodyInv' /\ Cared
<1> t \in Threads /\ t \notin Watchers /\ t \notin Mains /\ ThreadType
  BY ThreadKinds DEF TypeOK
<1> USE DEF At
<1>1. /\ OthersStay(t) /\ UNCHANGED <<service, life>> /\ job'[t] = job[t]
      /\ pc[t] \in WorkerLeased \cup {"picked"} /\ pc'[t] \in Working
  BY StepFacts DEF WorksOn, TryLease, ReadUnderLease, CheckCancelled, SlotWon, SlotRefused, AfterRefusal, StartAttempt,
     ExecutionEnds, Succeed, StopCooperatively, Fail, ConsumeEvents, ReleaseSlot, ReleaseLease, Working, WorkerLeased,
     HoldsSlot
<1>2. pc[t] # "idle" /\ job[t] \in Jobs /\ pc[t] \in HandAt \ {"writeCancelled"} /\ pc[t] \in Working
  BY <1>1 DEF ThreadType, WorkerLeased, HoldsSlot, Working, HandAt
<1>3. PICK p \in Procs, j \in Jobs : p = Home[t] /\ j = job[t]
  BY <1>2, ThreadKinds
<1>4. CustodyOf(p, j) /\ Has(t, p, j)
  BY <1>2, <1>3 DEF CustodyInv, Has
<1>5. status[j] # "none"
  BY <1>4 DEF CustodyOf, HandsAreReal, NoHands
<1>6. pc'[t] \in {"consume", "releaseSlot", "unlease", "pop"} =>
          due'[t] \in Waiting \/ IsTerminal(j)' \/ Stopping(p)
  <2>1. CASE TryLease(t)
    BY <2>1, StepFacts DEF TryLease, Waiting
  <2>2. CASE ReadUnderLease(t)
    <3>1. IsPending(j) \/ IsTerminal(j)
      BY <1>5 DEF IsPending, IsTerminal, TypeOK, StoreType
    <3> QED BY <1>3, <2>2, <3>1, StepFacts DEF ReadUnderLease, StatusGrows
  <2>3. CASE CheckCancelled(t)
    BY <1>3, <2>3, StepFacts DEF CheckCancelled, SetStatus, IsTerminal, Terminal, TypeOK, StoreType
  <2>4. CASE SlotWon(t) \/ SlotRefused(t) \/ StartAttempt(t)
    BY <2>4, StepFacts DEF SlotWon, SlotRefused, StartAttempt
  <2>5. CASE AfterRefusal(t)
    BY <1>3, <2>5, StepFacts DEF AfterRefusal
  <2>6. CASE Succeed(t) \/ StopCooperatively(t)
    BY <1>3, <2>6 DEF Succeed, StopCooperatively, SetStatus, IsTerminal, Terminal, TypeOK, StoreType
  <2>7. CASE Fail(t)
    BY <1>3, <2>7, StepFacts DEF Fail, SetStatus, IsTerminal, Terminal, TypeOK, StoreType, Waiting
  <2>8. CASE ConsumeEvents(t) \/ ReleaseSlot(t) \/ ReleaseLease(t)
    <3>1. pc[t] \in {"consume", "releaseSlot", "unlease"} /\ due'[t] = due[t]
      BY <2>8, StepFacts DEF ConsumeEvents, ReleaseSlot, ReleaseLease
    <3>2. due[t] \in Waiting \/ IsTerminal(j) \/ Stopping(p)
      BY <1>4, <3>1 DEF CustodyOf, DropsWithReason
    <3> QED BY <3>1, <3>2 DEF StatusGrows
  <2> QED BY <2>1, <2>2, <2>3, <2>4, <2>5, <2>6, <2>7, <2>8 DEF WorksOn, ExecutionEnds
<1> QED BY <1>1, <1>2, <1>3, <1>6, GoesOn, HandPlaces

LEMMA WorkerCustody ==
    ASSUME TypeOK, CustodyInv, StatusGrows, NEW t \in Workers, WorkerStep(t)
    PROVE  CustodyInv' /\ Cared
<1>1. CASE WorksOn(t)
  BY <1>1, WorksOnCustody
<1>2. CASE PickUp(t) \/ PopFuture(t) \/ ScheduleRetry(t) \/ RetryNow(t) \/ StartWatcher(t)
  BY <1>2, PickUpCustody, PopFutureCustody, ScheduleRetryCustody, RetryNowCustody, StartWatcherCustody
<1>3. CASE RecheckCancelled(t)
  <2>1. t \in Threads /\ OthersStay(t) /\ pc[t] = "armed" /\ pc'[t] \in {"retryNow", "idle"}
        /\ UNCHANGED <<service, life>>
    BY <1>3, StepFacts, ThreadKinds DEF RecheckCancelled, At, TypeOK
  <2> QED BY <2>1, StaysAside, HandPlaces
<1> QED BY <1>1, <1>2, <1>3 DEF WorkerStep, WorksOn

-----------------------------------------------------------------------------
(* Recovery, watchers and the main thread. *)

LEMMA RecoveryCustody ==
    ASSUME TypeOK, CustodyInv, StatusGrows, NEW t \in Watchers \cup Mains, RecoveryStep(t)
    PROVE  CustodyInv' /\ Cared
<1> t \in Threads /\ t \notin Workers /\ ThreadType
  BY ThreadKinds DEF TypeOK
<1> USE DEF At
<1>1. pc[t] \in {"recover", "recovered", "requeue"} /\ job[t] \in Jobs
  BY DEF RecoveryStep, Recover, ReleaseRecovered, EnqueueRecovered, ThreadType
<1>2. PICK p \in Procs, j \in Jobs : p = Home[t] /\ j = job[t]
  BY <1>1, ThreadKinds
<1>3. pc[t] \in HandAt \ ({"writeCancelled"} \cup Working)
  BY <1>1 DEF HandAt, Taking, Working, WorkerLeased, HoldsSlot
<1>4. CustodyOf(p, j) /\ Has(t, p, j)
  BY <1>2, <1>3 DEF CustodyInv, Has
<1>5. CASE Recover(t)
  <2>1. OthersStay(t) /\ pc'[t] = "recovered" /\ job'[t] = job[t] /\ UNCHANGED <<service, life>>
    BY <1>5, StepFacts DEF Recover
  <2>2. status[j] # "none"
    BY <1>4 DEF CustodyOf, HandsAreReal, NoHands
  <2>3. due'[t] = "requeue" \/ IsTerminal(j)'
    <3>1. CASE ~IsPending(j)
      BY <2>2, <3>1 DEF IsPending, IsTerminal, TypeOK, StoreType, StatusGrows
    <3>2. CASE IsPending(j) /\ cancel[j]
      BY <1>2, <1>5, <3>2 DEF Recover, SetStatus, IsTerminal, Terminal, TypeOK, StoreType
    <3>3. CASE IsPending(j) /\ ~cancel[j]
      BY <1>2, <1>5, <3>3, StepFacts DEF Recover
    <3> QED BY <3>1, <3>2, <3>3
  <2>4. pc'[t] \in HandAt /\ pc'[t] \in Taking
    BY <2>1 DEF HandAt, Taking
  <2> QED BY <1>2, <1>3, <2>1, <2>3, <2>4, GoesOn
<1>6. CASE ReleaseRecovered(t)
  <2>0. pc[t] = "recovered" /\ OthersStay(t) /\ UNCHANGED <<service, life>>
    BY <1>6, StepFacts DEF ReleaseRecovered
  <2>1. due[t] = "requeue" \/ IsTerminal(j)
    BY <1>4, <2>0 DEF CustodyOf, DropsWithReason
  <2>2. CASE due[t] = "requeue" /\ (t \in Watchers => ~Stopping(p))
    <3>1. pc'[t] \in {"discard", "requeue"} /\ job'[t] = job[t] /\ (t \in Watchers => pc'[t] = "discard")
      BY <1>2, <1>6, <2>2, StepFacts DEF ReleaseRecovered
    <3>2. pc'[t] \in HandAt /\ (t \in Watchers => pc'[t] \in Taking)
      BY <3>1 DEF HandAt, Taking
    <3> QED BY <1>2, <1>3, <2>0, <3>1, <3>2, GoesOn
  <2>3. CASE ~(due[t] = "requeue" /\ (t \in Watchers => ~Stopping(p)))
    <3>1. /\ pc'[t] \in {"idle", "leaving"} /\ job'[t] \in {NoJob, j}
          /\ t \in Watchers => pc'[t] = "leaving" /\ job'[t] = j
      BY <1>2, <1>6, <2>3, StepFacts DEF ReleaseRecovered
    <3>2. IsTerminal(j)' \/ Stopping(p)
      BY <2>1, <2>3 DEF StatusGrows
    <3> QED BY <1>2, <1>3, <2>0, <3>1, <3>2, LetsGo, ThreadAssumption
  <2> QED BY <2>2, <2>3
<1>7. CASE EnqueueRecovered(t)
  <2>1. /\ pc[t] = "requeue" /\ Enqueue(p, j) /\ OthersStay(t) /\ pc'[t] \in {"idle", "leaving"} /\ job'[t] \in {NoJob, j}
        /\ UNCHANGED <<timers, firing, life>>
    BY <1>2, <1>7, StepFacts DEF EnqueueRecovered
  <2>2. ~Queued(p, j) /\ j \notin registered[p]
    BY <1>3, <1>4, NotYetQueued
  <2>3. /\ \A u \in Threads : ~Has(u, p, j)'
        /\ \A u \in Threads : Has(u, p, j) => pc[u] \notin Taking
        /\ j \notin timers'[p] /\ j \notin firing'[p] /\ j \notin todo'[p]
    <3>1. \A u \in Threads : Has(u, p, j) => u = t
      BY <1>4 DEF CustodyOf, OneHand
    <3>2. \A s \in Shelves : ~Kept(s, p, j)
      BY <1>4 DEF CustodyOf, OneHand
    <3>3. \A u \in Threads : ~Has(u, p, j)'
      BY <2>1, <3>1, HandPlaces DEF Has, OthersStay
    <3>4. j \notin timers'[p] /\ j \notin firing'[p] /\ j \notin todo'[p]
      BY <2>1, <3>2 DEF Kept, Shelves, life
    <3> QED BY <2>1, <3>1, <3>3, <3>4 DEF Taking
  <2>4. \A w \in Watchers : pc[w] = "leaving" => pc'[w] = pc[w] /\ job'[w] = job[w]
    BY <2>1, ThreadKinds DEF OthersStay
  <2>5. ~NoHands(p, j)
    BY <1>4 DEF NoHands
  <2>6. CustodyOf(p, j)' /\ Care(p, j) /\ QueuedOnce'
    BY <2>1, <2>2, <2>3, <2>4, <2>5, Enqueued
  <2>7. TouchesOnly(p, j)
    <3>1. \A q \in Procs, k \in Jobs : q # p \/ k # j =>
             (Queued(q, k)' <=> Queued(q, k)) /\ (k \in registered'[q] <=> k \in registered[q])
      BY <2>1, <2>2, EnqueueFacts DEF CustodyInv, TypeOK
    <3> QED BY <1>2, <2>1, <3>1, ThreadAssumption
        DEF TouchesOnly, Untouched, Busy, OthersStay, life, Stopping, Enqueue
  <2> QED BY <2>6, <2>7, OnePair
<1> QED BY <1>5, <1>6, <1>7 DEF RecoveryStep

LEMMA WatcherDiscardsCustody ==
    ASSUME TypeOK, CustodyInv, StatusGrows, NEW w \in Watchers, WatcherDiscards(w)
    PROVE  CustodyInv' /\ Cared
<1> w \in Threads /\ w \notin Workers /\ w \notin Mains /\ ThreadType /\ ServiceType
  BY ThreadKinds DEF TypeOK
<1>1. /\ pc[w] = "discard" /\ job[w] \in Jobs /\ OthersStay(w) /\ pc'[w] = "requeue" /\ job'[w] = job[w]
      /\ watched' = [watched EXCEPT ![Home[w]] = @ \ {job[w]}]
      /\ UNCHANGED <<queue, registered, timers, firing, life>>
  BY StepFacts DEF WatcherDiscards, At, ThreadType
<1>2. PICK p \in Procs, j \in Jobs : p = Home[w] /\ j = job[w]
  BY <1>1, ThreadKinds
<1>3. TouchesOnly(p, j)
  BY <1>1, <1>2 DEF TouchesOnly, Untouched, Busy, OthersStay, life, Stopping, Queued, ServiceType
<1>4. CustodyOf(p, j) /\ Has(w, p, j) /\ Has(w, p, j)'
  BY <1>1, <1>2 DEF CustodyInv, Has, HandAt, Taking
<1>5. /\ \A u \in Threads : Has(u, p, j)' <=> Has(u, p, j)
      /\ \A u \in Threads : Has(u, p, j) => u = w
      /\ \A s \in Shelves : Kept(s, p, j)' <=> Kept(s, p, j)
      /\ Queued(p, j)' <=> Queued(p, j)
      /\ j \notin watched'[p] /\ UNCHANGED <<registered, mode>>
  BY <1>1, <1>2, <1>4 DEF CustodyOf, OneHand, Has, Kept, Queued, OthersStay, life, ServiceType
<1>6. OneHand(p, j)' /\ HandsAreReal(p, j)' /\ WatchIsLive(p, j)'
  BY <1>4, <1>5 DEF CustodyOf, OneHand, HandsAreReal, NoHands, StatusGrows, WatchIsLive
<1>7. StaleIsDead(p, j)'
  BY <1>1, <1>4, <1>5 DEF CustodyOf, StaleIsDead
<1>8. FutureIsLive(p, j)'
  BY <1>4, <1>5, ThreadKinds DEF CustodyOf, FutureIsLive
<1>9. DropsWithReason(p, j)'
  BY <1>1, <1>5, ThreadKinds DEF DropsWithReason
<1>10. Care(p, j)
  BY <1>4 DEF Care, NoHands
<1>11. QueuedOnce'
  BY <1>1 DEF CustodyInv, QueuedOnce
<1> QED BY <1>3, <1>6, <1>7, <1>8, <1>9, <1>10, <1>11, OnePair DEF CustodyOf

LEMMA WatcherLeavesCustody ==
    ASSUME TypeOK, CustodyInv, StatusGrows, NEW w \in Watchers, WatcherLeaves(w)
    PROVE  CustodyInv' /\ Cared
<1> w \in Threads /\ w \notin Workers /\ w \notin Mains /\ ThreadType /\ ServiceType
  BY ThreadKinds DEF TypeOK
<1>1. /\ pc[w] = "leaving" /\ job[w] \in Jobs /\ OthersStay(w) /\ pc'[w] = "idle"
      /\ watched' = [watched EXCEPT ![Home[w]] = @ \ {job[w]}] /\ job'[w] = NoJob
      /\ UNCHANGED <<queue, registered, timers, firing, life>>
  BY StepFacts DEF WatcherLeaves, At, ThreadType
<1>2. PICK p \in Procs, j \in Jobs : p = Home[w] /\ j = job[w]
  BY <1>1, ThreadKinds
<1>3. TouchesOnly(p, j)
  BY <1>1, <1>2, ThreadAssumption DEF TouchesOnly, Untouched, Busy, OthersStay, life, Stopping, Queued, ServiceType
<1>4. CustodyOf(p, j)
  BY DEF CustodyInv
<1>5. /\ \A u \in Threads : Has(u, p, j)' <=> Has(u, p, j)
      /\ \A u \in Threads : Has(u, p, j) => pc'[u] = pc[u] /\ due'[u] = due[u]
      /\ \A s \in Shelves : Kept(s, p, j)' <=> Kept(s, p, j)
      /\ Queued(p, j)' <=> Queued(p, j)
      /\ j \notin watched'[p] /\ UNCHANGED <<registered, mode>>
  BY <1>1, <1>2, HandPlaces DEF Has, Kept, Queued, OthersStay, life, ServiceType
<1>6. OneHand(p, j)' /\ HandsAreReal(p, j)' /\ WatchIsLive(p, j)' /\ StaleIsDead(p, j)'
  BY <1>4, <1>5 DEF CustodyOf, OneHand, HandsAreReal, NoHands, StatusGrows, WatchIsLive, StaleIsDead
<1>7. FutureIsLive(p, j)'
  BY <1>4, <1>5, ThreadKinds DEF CustodyOf, FutureIsLive
<1>8. DropsWithReason(p, j)'
  BY <1>4, <1>5, ThreadKinds DEF CustodyOf, DropsWithReason, StatusGrows, Stopping
<1>9. Care(p, j)
  BY <1>5 DEF Care, NoHands
<1>10. QueuedOnce'
  BY <1>1 DEF CustodyInv, QueuedOnce
<1> QED BY <1>3, <1>6, <1>7, <1>8, <1>9, <1>10, OnePair DEF CustodyOf

LEMMA WatcherCustody ==
    ASSUME TypeOK, CustodyInv, StatusGrows, NEW w \in Watchers, WatcherStep(w)
    PROVE  CustodyInv' /\ Cared
<1> w \in Threads /\ w \notin Workers /\ w \notin Mains /\ ThreadType
  BY ThreadKinds DEF TypeOK
<1>1. CASE WatcherLease(w) \/ WatcherStops(w)
  <2>1. pc[w] = "watching" /\ job[w] \in Jobs /\ OthersStay(w) /\ job'[w] = job[w] /\ UNCHANGED <<service, life>>
        /\ \/ pc'[w] = "recover"
           \/ pc'[w] = "leaving" /\ Stopping(Home[w])
    BY <1>1, StepFacts DEF WatcherLease, WatcherStops, At, ThreadType
  <2>2. PICK p \in Procs, j \in Jobs : p = Home[w] /\ j = job[w]
    BY <2>1, ThreadKinds
  <2>3. pc[w] \in HandAt \ ({"writeCancelled"} \cup Working)
    BY <2>1 DEF HandAt, Taking, Working, WorkerLeased, HoldsSlot
  <2>4. CASE pc'[w] = "recover"
    <3>1. pc'[w] \in HandAt /\ pc'[w] \in Taking
      BY <2>4 DEF HandAt, Taking
    <3> QED BY <2>1, <2>2, <2>3, <2>4, <3>1, GoesOn
  <2>5. CASE pc'[w] = "leaving" /\ Stopping(Home[w])
    BY <2>1, <2>2, <2>3, <2>5, LetsGo
  <2> QED BY <2>1, <2>4, <2>5
<1>2. CASE RecoveryStep(w)
  BY <1>2, RecoveryCustody
<1>3. CASE WatcherDiscards(w) \/ WatcherLeaves(w)
  BY <1>3, WatcherDiscardsCustody, WatcherLeavesCustody
<1> QED BY <1>1, <1>2, <1>3 DEF WatcherStep

LEMMA RecoverNextCustody ==
    ASSUME TypeOK, CustodyInv, StatusGrows, NEW m \in Mains, NEW j \in Jobs, RecoverNext(m, j)
    PROVE  CustodyInv' /\ Cared
<1> m \in Threads /\ m \notin Workers /\ m \notin Watchers /\ ThreadType /\ ServiceType
  BY ThreadKinds DEF TypeOK
<1>1. PICK p \in Procs : p = Home[m]
  BY ThreadKinds
<1>2. /\ pc[m] = "idle" /\ OthersStay(m) /\ pc'[m] \in {"recover", "watch"} /\ job'[m] = j /\ j \in todo[p]
      /\ todo' = [todo EXCEPT ![p] = @ \ {j}] /\ UNCHANGED <<service, mode>>
  BY <1>1 DEF RecoverNext, At, OthersStay, ThreadType
<1>3. TouchesOnly(p, j)
  BY <1>1, <1>2, HandPlaces DEF TouchesOnly, Untouched, Busy, OthersStay, service, Stopping, Queued, ServiceType
<1>4. CustodyOf(p, j) /\ Kept("todo", p, j)
  BY <1>2 DEF CustodyInv, Kept
<1>5. /\ \A u \in Threads : ~Has(u, p, j)
      /\ \A s \in Shelves : s # "todo" => ~Kept(s, p, j)
  BY <1>4 DEF CustodyOf, OneHand, Shelves
<1>6. /\ \A u \in Threads : Has(u, p, j)' <=> u = m
      /\ \A s \in Shelves : ~Kept(s, p, j)'
      /\ Queued(p, j)' <=> Queued(p, j)
      /\ UNCHANGED <<registered, watched>>
  <2>1. Has(m, p, j)'
    BY <1>1, <1>2 DEF Has, HandAt, Waiting, Taking
  <2>2. \A u \in Threads \ {m} : ~Has(u, p, j)'
    BY <1>2, <1>5 DEF Has, OthersStay
  <2> QED BY <1>2, <1>5, <2>1, <2>2 DEF Kept, Queued, service, Shelves, ServiceType
<1>7. OneHand(p, j)' /\ DropsWithReason(p, j)'
  BY <1>2, <1>6, ThreadKinds DEF OneHand, DropsWithReason
<1>8. HandsAreReal(p, j)'
  BY <1>2, <1>4 DEF CustodyOf, HandsAreReal, NoHands, StatusGrows, Shelves
<1>9. StaleIsDead(p, j)'
  BY <1>4, <1>6 DEF CustodyOf, StaleIsDead, Shelves
<1>10. FutureIsLive(p, j)'
  BY <1>4, <1>5, <1>6, ThreadKinds DEF CustodyOf, FutureIsLive
<1>11. WatchIsLive(p, j)'
  <2>1. \A w \in Watchers : pc'[w] = pc[w] /\ job'[w] = job[w]
    BY <1>2, ThreadKinds DEF OthersStay
  <2> QED BY <1>2, <1>4, <1>6, <2>1 DEF CustodyOf, WatchIsLive, StatusGrows, Stopping
<1>12. Care(p, j)
  BY <1>6 DEF Care, NoHands
<1>13. QueuedOnce'
  BY <1>2 DEF CustodyInv, QueuedOnce, service
<1> QED BY <1>3, <1>7, <1>8, <1>9, <1>10, <1>11, <1>12, <1>13, OnePair DEF CustodyOf

LEMMA MainCustody ==
    ASSUME TypeOK, CustodyInv, StatusGrows, NEW m \in Mains, MainStep(m)
    PROVE  CustodyInv' /\ Cared
<1>1. CASE \E j \in Jobs : RecoverNext(m, j)
  BY <1>1, RecoverNextCustody
<1>2. CASE RecoveryStep(m) \/ StartWatcher(m)
  BY <1>2, RecoveryCustody, StartWatcherCustody
<1>3. CASE InstallConsumer(m) \/ Replay(m)
  <2>1. /\ UNCHANGED <<service, todo, local>>
        /\ \A p \in Procs : mode'[p] = mode[p] \/ (mode[p] \in {"starting", "replaying"} /\ mode'[p] # "down")
    BY <1>3 DEF InstallConsumer, Replay, TypeOK, ServiceType
  <2>2. \A p \in Procs, j \in Jobs : Untouched(p, j)
    BY <2>1 DEF Untouched, Stopping, Queued, service, local
  <2>3. QueuedOnce'
    BY <2>1 DEF CustodyInv, QueuedOnce, service
  <2> QED BY <2>2, <2>3, NoPair
<1> QED BY <1>1, <1>2, <1>3 DEF MainStep

-----------------------------------------------------------------------------
(* The process. *)

LEMMA StartProcessCustody ==
    ASSUME TypeOK, CustodyInv, StatusGrows, NEW p \in Procs, StartProcess(p)
    PROVE  CustodyInv' /\ Cared
<1>1. /\ mode[p] = "down" /\ mode' = [mode EXCEPT ![p] = "starting"]
      /\ todo' = [todo EXCEPT ![p] = {j \in Jobs : IsPending(j)}]
      /\ UNCHANGED <<stored, service, local>>
  BY DEF StartProcess
<1>2. ASSUME NEW q \in Procs \ {p}, NEW k \in Jobs PROVE CustodyOf(q, k)' /\ Care(q, k)
  <2>1. Untouched(q, k)
    BY <1>1 DEF Untouched, Stopping, Queued, service, local, TypeOK, ServiceType
  <2> QED BY <2>1, UntouchedKeeps DEF CustodyInv
<1>3. ASSUME NEW j \in Jobs PROVE CustodyOf(p, j)' /\ Care(p, j)
  <2>1. CustodyOf(p, j) /\ NoHands(p, j) /\ ~Queued(p, j)
    BY <1>1 DEF CustodyInv, CustodyOf, HandsAreReal
  <2>2. /\ \A u \in Threads : ~Has(u, p, j)'
        /\ \A s \in Shelves : Kept(s, p, j)' <=> s = "todo" /\ IsPending(j)
        /\ ~Queued(p, j)' /\ UNCHANGED <<registered, watched>>
    BY <1>1, <2>1 DEF NoHands, Has, Kept, Queued, service, local, Shelves, TypeOK, ServiceType
  <2>3. OneHand(p, j)' /\ DropsWithReason(p, j)' /\ StaleIsDead(p, j)'
    BY <2>2, ThreadKinds DEF OneHand, DropsWithReason, StaleIsDead
  <2>4. HandsAreReal(p, j)'
    <3>1. status'[j] = "none" => ~IsPending(j)
      BY <1>1 DEF IsPending, Pending, stored
    <3>2. mode'[p] # "down"
      BY <1>1 DEF TypeOK, ServiceType
    <3> QED BY <2>2, <3>1, <3>2 DEF HandsAreReal, NoHands
  <2>5. FutureIsLive(p, j)'
    BY <2>1, <2>2, ThreadKinds DEF CustodyOf, FutureIsLive, NoHands
  <2>6. WatchIsLive(p, j)'
    <3>1. \A w \in Watchers : pc'[w] = pc[w] /\ job'[w] = job[w]
      BY <1>1, ThreadKinds DEF local
    <3>2. ~Stopping(p)
      BY <1>1 DEF Stopping
    <3> QED BY <2>1, <2>2, <3>1, <3>2 DEF CustodyOf, WatchIsLive, StatusGrows
  <2>7. Care(p, j)
    BY <2>1 DEF Care
  <2> QED BY <2>3, <2>4, <2>5, <2>6, <2>7 DEF CustodyOf
<1>4. QueuedOnce'
  BY <1>1 DEF CustodyInv, QueuedOnce, service
<1> QED BY <1>2, <1>3, <1>4 DEF CustodyInv, Cared

(* A process that stops may drop what waits, but nobody gets a second hand.*)
LEMMA StopsCustody ==
    ASSUME TypeOK, CustodyInv, StatusGrows, NEW p \in Procs, Shutdown(p) \/ CloseExecutor(p)
    PROVE  CustodyInv' /\ Cared
<1>1. /\ UNCHANGED <<local, firing, watched, todo>> /\ Stopping(p)' /\ mode'[p] # "down"
      /\ \A q \in Procs \ {p} : mode'[q] = mode[q] /\ queue'[q] = queue[q] /\ registered'[q] = registered[q]
                                /\ timers'[q] = timers[q]
      /\ timers'[p] \subseteq timers[p]
      /\ \/ queue'[p] = queue[p] /\ registered'[p] = registered[p]
         \/ queue'[p] = <<>> /\ registered'[p] = {j \in registered[p] : ~Queued(p, j)}
  BY DEF Shutdown, CloseExecutor, Stopping, TypeOK, ServiceType
<1>2. ASSUME NEW q \in Procs \ {p}, NEW k \in Jobs PROVE CustodyOf(q, k)' /\ Care(q, k)
  <2>1. Untouched(q, k)
    BY <1>1 DEF Untouched, Stopping, Queued, local
  <2> QED BY <2>1, UntouchedKeeps DEF CustodyInv
<1>3. ASSUME NEW j \in Jobs PROVE CustodyOf(p, j)' /\ Care(p, j)
  <2>1. CustodyOf(p, j)
    BY DEF CustodyInv
  <2>2. /\ \A u \in Threads : (Has(u, p, j)' <=> Has(u, p, j)) /\ pc'[u] = pc[u] /\ job'[u] = job[u] /\ due'[u] = due[u]
        /\ Queued(p, j)' => Queued(p, j) /\ (j \in registered'[p] <=> j \in registered[p])
        /\ j \in registered'[p] => j \in registered[p] /\ (Queued(p, j) => Queued(p, j)')
    BY <1>1 DEF Has, Queued, local
  <2>3. \A s \in Shelves : Kept(s, p, j)' => Kept(s, p, j)
    BY <1>1, <2>2 DEF Kept, Shelves
  <2>4. OneHand(p, j)'
    BY <2>1, <2>2, <2>3 DEF CustodyOf, OneHand
  <2>5. HandsAreReal(p, j)'
    BY <1>1, <2>1, <2>2, <2>3 DEF CustodyOf, HandsAreReal, NoHands, StatusGrows
  <2>6. StaleIsDead(p, j)'
    BY <2>1, <2>2, <2>3 DEF CustodyOf, StaleIsDead
  <2>7. FutureIsLive(p, j)'
    BY <2>1, <2>2, ThreadKinds DEF CustodyOf, FutureIsLive
  <2>8. WatchIsLive(p, j)'
    BY <1>1, <2>1, <2>2, ThreadKinds DEF CustodyOf, WatchIsLive, StatusGrows
  <2>9. DropsWithReason(p, j)'
    BY <1>1, <2>1, <2>2, ThreadKinds DEF CustodyOf, DropsWithReason, StatusGrows
  <2>10. Care(p, j)
    BY <1>1 DEF Care
  <2> QED BY <2>4, <2>5, <2>6, <2>7, <2>8, <2>9, <2>10 DEF CustodyOf
<1>4. QueuedOnce'
  <2>1. \A q \in Procs : queue'[q] = queue[q] \/ queue'[q] = <<>>
    BY <1>1
  <2> QED BY <2>1 DEF CustodyInv, QueuedOnce
<1> QED BY <1>2, <1>3, <1>4 DEF CustodyInv, Cared

LEMMA DieCustody ==
    ASSUME TypeOK, CustodyInv, StatusGrows, NEW p \in Procs, Die(p)
    PROVE  CustodyInv' /\ Cared
<1>1. /\ mode'[p] = "down" /\ queue'[p] = <<>> /\ registered'[p] = {} /\ timers'[p] = {} /\ firing'[p] = {}
      /\ todo'[p] = {} /\ watched'[p] = {}
      /\ \A q \in Procs \ {p} :
            /\ mode'[q] = mode[q] /\ queue'[q] = queue[q] /\ registered'[q] = registered[q]
            /\ timers'[q] = timers[q] /\ firing'[q] = firing[q] /\ todo'[q] = todo[q] /\ watched'[q] = watched[q]
  BY DEF Die, TypeOK, ServiceType
<1>2. /\ \A t \in Threads : Home[t] = p => pc'[t] = "idle"
      /\ \A t \in Threads : Home[t] # p => pc'[t] = pc[t] /\ job'[t] = job[t] /\ due'[t] = due[t]
  BY DEF Die
<1>3. ASSUME NEW q \in Procs \ {p}, NEW k \in Jobs PROVE CustodyOf(q, k)' /\ Care(q, k)
  <2>1. Untouched(q, k)
    BY <1>1, <1>2 DEF Untouched, Stopping, Queued
  <2> QED BY <2>1, UntouchedKeeps DEF CustodyInv
<1>4. ASSUME NEW j \in Jobs PROVE CustodyOf(p, j)' /\ Care(p, j)
  <2>1. /\ \A u \in Threads : ~Has(u, p, j)'
        /\ \A s \in Shelves : ~Kept(s, p, j)'
        /\ ~Queued(p, j)'
    BY <1>1, <1>2, HandPlaces DEF Has, Kept, Queued, Shelves
  <2> QED BY <1>1, <2>1, ThreadKinds
      DEF CustodyOf, OneHand, HandsAreReal, NoHands, StaleIsDead, FutureIsLive, WatchIsLive, DropsWithReason, Care
<1>5. QueuedOnce'
  BY <1>1 DEF CustodyInv, QueuedOnce
<1> QED BY <1>3, <1>4, <1>5 DEF CustodyInv, Cared

LEMMA ProcessCustody ==
    ASSUME TypeOK, CustodyInv, StatusGrows, NEW p \in Procs, ProcessStep(p)
    PROVE  CustodyInv' /\ Cared
<1>1. CASE StartProcess(p) \/ Shutdown(p) \/ CloseExecutor(p)
  BY <1>1, StartProcessCustody, StopsCustody
<1>2. CASE Exit(p) \/ Crash(p)
  BY <1>2, DieCustody DEF Exit, Crash
<1>3. CASE OpenEOTakesSlot(p) \/ OpenEOReturnsSlot(p)
  <2>1. UNCHANGED <<service, life, local>>
    BY <1>3 DEF OpenEOTakesSlot, OpenEOReturnsSlot
  <2>2. \A q \in Procs, j \in Jobs : Untouched(q, j)
    BY <2>1 DEF Untouched, Stopping, Queued, service, life, local
  <2>3. QueuedOnce'
    BY <2>1 DEF CustodyInv, QueuedOnce, service
  <2> QED BY <2>2, <2>3, NoPair
<1> QED BY <1>1, <1>2, <1>3 DEF ProcessStep

-----------------------------------------------------------------------------
(* Every step. *)

LEMMA StatusOnlyGrows == ASSUME TypeOK, IInv, [Next]_vars PROVE StatusGrows
<1>1. \A j \in Jobs : IsTerminal(j) => IsTerminal(j)'
  BY FinalStep DEF IsTerminal
<1>2. ASSUME NEW j \in Jobs, status[j] # "none" PROVE status'[j] # "none"
  <2>1. CASE UNCHANGED status
    BY <1>2, <2>1
  <2>2. CASE StatusStep
    BY <1>2, <2>2 DEF StatusStep, Create, RecordCompleted, WriteCancelled, CheckCancelled, StartAttempt, ExecutionEnds,
       Succeed, StopCooperatively, Fail, Recover, SetStatus, stored, TypeOK, StoreType
  <2> QED BY <2>1, <2>2, StatusSteps
<1> QED BY <1>1, <1>2 DEF StatusGrows

LEMMA CustodyStep == ASSUME TypeOK, IInv, CustodyInv, [Next]_vars PROVE CustodyInv' /\ Cared
<1>0. StatusGrows
  BY StatusOnlyGrows
<1>1. CASE Request
  BY <1>0, <1>1, HandlerCustody DEF Request
<1>2. CASE \E h \in Handlers : HandlerStep(h)
  <2>1. PICK h \in Handlers : HandlerStep(h)
    BY <1>2
  <2>2. pc[h] # "idle" /\ h \in Threads
    BY <2>1, ThreadKinds DEF HandlerStep, EnqueueCreated, ConsumeInline, PopTimer, CancelFuture, WriteCancelled, At
  <2>3. job[h] \in Jobs
    BY <2>2 DEF TypeOK, ThreadType
  <2> QED BY <1>0, <2>1, <2>3, HandlerCustody
<1>3. CASE \E t \in Workers : WorkerStep(t)
  BY <1>0, <1>3, WorkerCustody
<1>4. CASE \E w \in Watchers : WatcherStep(w)
  BY <1>0, <1>4, WatcherCustody
<1>5. CASE \E m \in Mains : MainStep(m)
  BY <1>0, <1>5, MainCustody
<1>6. CASE \E p \in Procs, j \in Jobs : TimerStep(p, j)
  BY <1>0, <1>6, TimerCustody
<1>7. CASE \E p \in Procs : ProcessStep(p)
  BY <1>0, <1>7, ProcessCustody
<1>8. CASE UNCHANGED vars
  <2>1. UNCHANGED <<service, life, local>>
    BY <1>8 DEF vars
  <2>2. \A q \in Procs, j \in Jobs : Untouched(q, j)
    BY <2>1 DEF Untouched, Stopping, Queued, service, life, local
  <2>3. QueuedOnce'
    BY <2>1 DEF CustodyInv, QueuedOnce, service
  <2> QED BY <1>0, <2>2, <2>3, NoPair
<1> QED BY <1>1, <1>2, <1>3, <1>4, <1>5, <1>6, <1>7, <1>8 DEF Next

LEMMA CustodyInit == Init => CustodyInv
<1> SUFFICES ASSUME Init PROVE CustodyInv
  OBVIOUS
<1>1. QueuedOnce
  BY DEF Init, QueuedOnce
<1>2. ASSUME NEW p \in Procs, NEW j \in Jobs PROVE CustodyOf(p, j)
  <2>1. /\ \A u \in Threads : ~Has(u, p, j)
        /\ \A s \in Shelves : ~Kept(s, p, j)
        /\ ~Queued(p, j) /\ j \notin registered[p] /\ j \notin watched[p]
    BY HandPlaces DEF Init, Has, Kept, Queued, Shelves
  <2> QED BY <2>1, ThreadKinds
      DEF CustodyOf, OneHand, HandsAreReal, NoHands, StaleIsDead, FutureIsLive, WatchIsLive, DropsWithReason
<1> QED BY <1>1, <1>2 DEF CustodyInv

(* The inductive invariant of custody: the one hand there is, and that      *)
(* nobody who believes a job is taken care of is wrong about it.            *)
THEOREM CustodyHolds == Spec => []CustodyInv
<1>1. TypeOK /\ IInv /\ CustodyInv /\ [Next]_vars => CustodyInv'
  BY CustodyStep
<1> QED BY <1>1, CustodyInit, InvariantHolds, TypeCorrect, PTL DEF Spec

-----------------------------------------------------------------------------
(* What the hands say about Custodians.                                    *)

LEMMA CustodiansAre ==
    ASSUME NEW p \in Procs, NEW j \in Jobs
    PROVE  Custodians(p, j) = {t \in Threads : Has(t, p, j)} \cup {s \in Shelves : Kept(s, p, j)}
BY DEF Custodians, Has, HandAt, Working, Waiting, Taking, Kept, Shelves

LEMMA OneCustodian ==
    ASSUME NEW p \in Procs, NEW j \in Jobs, OneHand(p, j)
    PROVE  Cardinality(Custodians(p, j)) <= 1
<1>1. Custodians(p, j) = {} \/ \E x : Custodians(p, j) = {x}
  <2>1. CASE NoHands(p, j)
    BY <2>1, CustodiansAre DEF NoHands
  <2>2. CASE \E t \in Threads : Has(t, p, j)
    <3>1. PICK t \in Threads : Has(t, p, j)
      BY <2>2
    <3>2. Custodians(p, j) = {t}
      BY <3>1, CustodiansAre DEF OneHand
    <3> QED BY <3>2
  <2>3. CASE \E s \in Shelves : Kept(s, p, j)
    <3>1. PICK s \in Shelves : Kept(s, p, j)
      BY <2>3
    <3>2. Custodians(p, j) = {s}
      BY <3>1, CustodiansAre DEF OneHand
    <3> QED BY <3>2
  <2> QED BY <2>1, <2>2, <2>3 DEF NoHands
<1>2. CASE Custodians(p, j) = {}
  BY <1>2, FS_EmptySet
<1>3. CASE \E x : Custodians(p, j) = {x}
  <2>1. PICK x : Custodians(p, j) = {x}
    BY <1>3
  <2>2. Cardinality({x}) = 1
    BY FS_Singleton
  <2> QED BY <2>1, <2>2
<1> QED BY <1>1, <1>2, <1>3

LEMMA CareForCustodians ==
    ASSUME Cared, NEW p \in Procs, NEW j \in Jobs, Custodians(p, j) # {}, Custodians(p, j)' = {}
    PROVE  IsTerminal(j)' \/ Stopping(p)' \/ mode'[p] = "down"
<1>1. ~NoHands(p, j)
  BY CustodiansAre DEF NoHands
<1>2. ASSUME NEW t \in Threads, Has(t, p, j)' PROVE FALSE
  <2>1. t \in Custodians(p, j)'
    BY <1>2 DEF Custodians, Has, HandAt, Working, Waiting, Taking
  <2> QED BY <2>1
<1>3. ASSUME NEW s \in Shelves, Kept(s, p, j)' PROVE FALSE
  <2>1. s \in Custodians(p, j)'
    BY <1>3 DEF Custodians, Kept
  <2> QED BY <2>1
<1>4. NoHands(p, j)'
  BY <1>2, <1>3 DEF NoHands
<1> QED BY <1>1, <1>4 DEF Cared, Care

(* An unfinished job of a process is in one hand at every moment, and no   *)
(* hand drops it: not the worker that loses the lease, not the cancelled   *)
(* future, not the timer, the watcher or the recovery.                     *)
THEOREM CustodyIsKept == Spec => CustodyKept
<1>1. CustodyInv => SingleCustody
  BY OneCustodian DEF CustodyInv, CustodyOf, SingleCustody
<1>2. TypeOK /\ IInv /\ CustodyInv /\ [Next]_vars =>
        [\A p \in Procs, j \in Jobs :
            Custodians(p, j) # {} /\ Custodians(p, j)' = {} =>
                IsTerminal(j)' \/ Stopping(p)' \/ mode'[p] = "down"]_vars
  BY CustodyStep, CareForCustodians
<1> QED BY <1>1, <1>2, CustodyHolds, InvariantHolds, TypeCorrect, PTL DEF Spec, CustodyKept, NeverAbandoned

-----------------------------------------------------------------------------
(***************************************************************************)
(* What one server counts, and what the record of a job promises.          *)
(*                                                                         *)
(* The slots add up in every process.  Attempts and the abstract job       *)
(* lifecycle are a matter of the one server that owns the data directory:  *)
(* while two overlap, the first may write the result of an attempt that    *)
(* the second believes was cut off.  With one, whatever the record calls   *)
(* RUNNING is either executed now or still to be recovered, and that is    *)
(* what makes the attempt it gives back the interrupted one.               *)
(***************************************************************************)
(* One process at a time serves the data directory. *)
OneServer == \A p, q \in Procs : p = q

-----------------------------------------------------------------------------
(* Slots.  The workers that hold a slot of a process: finitely many,       *)
(* because they take it one by one.                                        *)
Holders(p) == {t \in Workers : Home[t] = p /\ pc[t] \in HoldsSlot}

SlotsInv ==
    \A p \in Procs :
        /\ IsFiniteSet(Holders(p))
        /\ free[p] + foreign[p] + Cardinality(Holders(p)) = Slots

SameHolding(t) == pc'[t] \in HoldsSlot <=> pc[t] \in HoldsSlot

LEMMA SlotsFrameInv ==
    ASSUME SlotsInv, UNCHANGED slots, \A t \in Workers : SameHolding(t)
    PROVE  SlotsInv'
<1>1. \A p \in Procs : Holders(p)' = Holders(p)
  BY DEF Holders, SameHolding
<1> QED BY <1>1 DEF SlotsInv, slots

(* A worker that moves between two places that both hold a slot or not. *)
LEMMA SlotsKept ==
    ASSUME SlotsInv, NEW t \in Workers, OnlyMoves(t), UNCHANGED slots, SameHolding(t)
    PROVE  SlotsInv'
<1>1. \A u \in Workers : SameHolding(u)
  BY ThreadKinds DEF OnlyMoves, SameHolding
<1> QED BY <1>1, SlotsFrameInv

LEMMA SlotTaken ==
    ASSUME TypeOK, SlotsInv, NEW t \in Workers, OnlyMoves(t), pc[t] \notin HoldsSlot, pc'[t] \in HoldsSlot,
           free[Home[t]] > 0, free' = [free EXCEPT ![Home[t]] = @ - 1], UNCHANGED foreign
    PROVE  SlotsInv'
<1> DEFINE p == Home[t]
<1> t \in Threads /\ p \in Procs
  BY ThreadKinds
<1>1. Holders(p)' = Holders(p) \cup {t} /\ t \notin Holders(p)
  BY ThreadKinds DEF Holders, OnlyMoves
<1>2. \A q \in Procs \ {p} : Holders(q)' = Holders(q)
  BY ThreadKinds DEF Holders, OnlyMoves
<1>3. IsFiniteSet(Holders(p)) /\ Cardinality(Holders(p)) \in Nat
  BY FS_CardinalityType DEF SlotsInv
<1>4. IsFiniteSet(Holders(p)') /\ Cardinality(Holders(p)') = Cardinality(Holders(p)) + 1
  BY <1>1, <1>3, FS_AddElement
<1>5. free'[p] = free[p] - 1 /\ free[p] \in Nat /\ foreign[p] \in Nat /\ foreign'[p] = foreign[p]
  BY DEF TypeOK, SlotsType
<1>6. free[p] + foreign[p] + Cardinality(Holders(p)) = Slots
  BY DEF SlotsInv
<1>7. \A q \in Procs \ {p} : free'[q] = free[q] /\ foreign'[q] = foreign[q]
  BY DEF TypeOK, SlotsType
<1>8. free'[p] + foreign'[p] + Cardinality(Holders(p)') = Slots
  BY <1>3, <1>4, <1>5, <1>6
<1> QED BY <1>2, <1>4, <1>7, <1>8 DEF SlotsInv

LEMMA SlotReturned ==
    ASSUME TypeOK, SlotsInv, NEW t \in Workers, OnlyMoves(t), pc[t] \in HoldsSlot, pc'[t] \notin HoldsSlot,
           free' = [free EXCEPT ![Home[t]] = @ + 1], UNCHANGED foreign
    PROVE  SlotsInv'
<1> DEFINE p == Home[t]
<1> t \in Threads /\ p \in Procs
  BY ThreadKinds
<1>1. Holders(p)' = Holders(p) \ {t} /\ t \in Holders(p)
  BY ThreadKinds DEF Holders, OnlyMoves
<1>2. \A q \in Procs \ {p} : Holders(q)' = Holders(q)
  BY ThreadKinds DEF Holders, OnlyMoves
<1>3. IsFiniteSet(Holders(p)) /\ Cardinality(Holders(p)) \in Nat
  BY FS_CardinalityType DEF SlotsInv
<1>4. IsFiniteSet(Holders(p)') /\ Cardinality(Holders(p)') = Cardinality(Holders(p)) - 1
  BY <1>1, <1>3, FS_RemoveElement
<1>5. free'[p] = free[p] + 1 /\ free[p] \in Nat /\ foreign[p] \in Nat /\ foreign'[p] = foreign[p]
  BY DEF TypeOK, SlotsType
<1>6. free[p] + foreign[p] + Cardinality(Holders(p)) = Slots
  BY DEF SlotsInv
<1>7. \A q \in Procs \ {p} : free'[q] = free[q] /\ foreign'[q] = foreign[q]
  BY DEF TypeOK, SlotsType
<1>8. free'[p] + foreign'[p] + Cardinality(Holders(p)') = Slots
  BY <1>3, <1>4, <1>5, <1>6
<1> QED BY <1>2, <1>4, <1>7, <1>8 DEF SlotsInv

(* A slot is taken in one place and given back in two. *)
LEMMA WorkerSlots ==
    ASSUME TypeOK, SlotsInv, NEW t \in Workers, WorkerStep(t)
    PROVE  SlotsInv'
<1> t \in Threads /\ ThreadType
  BY ThreadKinds DEF TypeOK
<1>1. CASE SlotWon(t)
  <2>1. OnlyMoves(t) /\ pc[t] = "slot" /\ pc'[t] = "won"
    BY <1>1, MoveFacts DEF SlotWon, At
  <2> QED BY <1>1, <2>1, SlotTaken DEF SlotWon, HoldsSlot
<1>2. CASE StartAttempt(t)
  <2>1. CASE cancel[job[t]]
    <3>1. OnlyMoves(t) /\ pc[t] = "won" /\ pc'[t] = "check"
      BY <1>2, <2>1, MoveFacts DEF StartAttempt, At
    <3> QED BY <1>2, <2>1, <3>1, SlotReturned DEF StartAttempt, HoldsSlot
  <2>2. CASE ~cancel[job[t]]
    <3>1. OnlyMoves(t) /\ pc[t] = "won" /\ pc'[t] = "run"
      BY <1>2, <2>2, MoveFacts DEF StartAttempt, At
    <3> QED BY <1>2, <2>2, <3>1, SlotsKept DEF StartAttempt, HoldsSlot, SameHolding, slots
  <2> QED BY <2>1, <2>2
<1>3. CASE ReleaseSlot(t)
  <2>1. OnlyMoves(t) /\ pc[t] = "releaseSlot" /\ pc'[t] = "unlease"
    BY <1>3, MoveFacts DEF ReleaseSlot, At
  <2> QED BY <1>3, <2>1, SlotReturned DEF ReleaseSlot, HoldsSlot
<1>4. CASE Succeed(t) \/ StopCooperatively(t) \/ Fail(t) \/ ConsumeEvents(t)
  <2>1. OnlyMoves(t) /\ pc[t] \in HoldsSlot /\ pc'[t] \in HoldsSlot /\ UNCHANGED slots
    BY <1>4, MoveFacts DEF Succeed, StopCooperatively, Fail, ConsumeEvents, At, HoldsSlot
  <2> QED BY <2>1, SlotsKept DEF SameHolding
<1>5. CASE \/ PickUp(t) \/ TryLease(t) \/ ReadUnderLease(t) \/ CheckCancelled(t) \/ SlotRefused(t) \/ AfterRefusal(t)
           \/ ReleaseLease(t) \/ ScheduleRetry(t) \/ RecheckCancelled(t) \/ RetryNow(t)
  <2>1. /\ pc[t] \in {"idle", "picked", "leased", "check", "slot", "refused", "unlease", "retry", "armed", "retryNow"}
        /\ UNCHANGED slots
    BY <1>5 DEF PickUp, TryLease, ReadUnderLease, CheckCancelled, SlotRefused, AfterRefusal, ReleaseLease,
       ScheduleRetry, RecheckCancelled, RetryNow, At
  <2>2. OnlyMoves(t) /\ (pc'[t] = pc[t] \/ pc'[t] \in
           {"idle", "picked", "leased", "check", "slot", "refused", "unlease", "pop", "armed", "retryNow"})
    BY <1>5, MoveFacts DEF PickUp, TryLease, ReadUnderLease, CheckCancelled, SlotRefused, AfterRefusal, ReleaseLease,
       ScheduleRetry, RecheckCancelled, RetryNow, At, OnlyMoves, ThreadType
  <2> QED BY <2>1, <2>2, SlotsKept DEF SameHolding, HoldsSlot
<1>6. CASE PopFuture(t)
  <2>1. OnlyMoves(t) /\ pc[t] = "pop" /\ pc'[t] \in {"idle", "watch", "retry"} /\ UNCHANGED slots
    BY <1>6, MoveFacts DEF PopFuture, At, ThreadType
  <2> QED BY <2>1, SlotsKept DEF SameHolding, HoldsSlot
<1>7. CASE StartWatcher(t)
  <2>1. pc[t] = "watch" /\ UNCHANGED slots
    BY <1>7 DEF StartWatcher, At
  <2>2. \A u \in Workers \ {t} : pc'[u] = pc[u]
    BY <1>7, ThreadKinds DEF StartWatcher, Return, ThreadType
  <2>3. pc'[t] = "idle"
    BY <1>7, ThreadKinds DEF StartWatcher, Return, ThreadType, At
  <2>4. \A u \in Workers : SameHolding(u)
    BY <2>1, <2>2, <2>3 DEF SameHolding, HoldsSlot
  <2> QED BY <2>1, <2>4, SlotsFrameInv
<1> QED BY <1>1, <1>2, <1>3, <1>4, <1>5, <1>6, <1>7 DEF WorkerStep, ExecutionEnds

(* No other thread takes a slot or gives one back. *)
LEMMA OtherSlots ==
    ASSUME TypeOK, SlotsInv,
           \/ Request
           \/ \E h \in Handlers : HandlerStep(h)
           \/ \E w \in Watchers : WatcherStep(w)
           \/ \E m \in Mains : MainStep(m)
           \/ \E p \in Procs, j \in Jobs : TimerStep(p, j)
    PROVE  SlotsInv'
<1> USE DEF TypeOK, ThreadType
<1>1. CASE Request
  BY <1>1, SlotsFrameInv, ThreadKinds DEF Request, Create, RecordCompleted, RequestCancel, SameHolding, local
<1>2. CASE \E h \in Handlers : HandlerStep(h)
  BY <1>2, SlotsFrameInv, ThreadKinds
     DEF HandlerStep, EnqueueCreated, ConsumeInline, PopTimer, CancelFuture, WriteCancelled, Goto, Return, SameHolding
<1>3. CASE \E w \in Watchers : WatcherStep(w)
  BY <1>3, SlotsFrameInv, ThreadKinds
     DEF WatcherStep, RecoveryStep, WatcherLease, WatcherStops, Recover, ReleaseRecovered, EnqueueRecovered,
         WatcherDiscards, WatcherLeaves, Goto, Leave, Return, SameHolding
<1>4. CASE \E m \in Mains : MainStep(m)
  <2>1. CASE \E m \in Mains : RecoveryStep(m) \/ InstallConsumer(m) \/ Replay(m) \/ \E j \in Jobs : RecoverNext(m, j)
    BY <2>1, SlotsFrameInv, ThreadKinds
       DEF RecoveryStep, Recover, ReleaseRecovered, EnqueueRecovered, RecoverNext, InstallConsumer, Replay,
           Goto, Leave, Return, SameHolding, local
  <2>2. CASE \E m \in Mains : StartWatcher(m)
    BY <2>2, SlotsFrameInv, ThreadKinds DEF StartWatcher, Return, SameHolding
  <2> QED BY <1>4, <2>1, <2>2 DEF MainStep
<1>5. CASE \E p \in Procs, j \in Jobs : TimerStep(p, j)
  BY <1>5, SlotsFrameInv DEF TimerStep, TimerFires, EnqueueRetry, SameHolding, local
<1> QED BY <1>1, <1>2, <1>3, <1>4, <1>5

(* A process that dies gives every slot back; openEO jobs hold the rest. *)
LEMMA ProcessSlots ==
    ASSUME TypeOK, SlotsInv, NEW p \in Procs, ProcessStep(p)
    PROVE  SlotsInv'
<1>1. CASE Exit(p) \/ Crash(p)
  <2>1. Die(p)
    BY <1>1 DEF Exit, Crash
  <2>2. Holders(p)' = {} /\ \A q \in Procs \ {p} : Holders(q)' = Holders(q)
    BY <2>1, ThreadKinds DEF Die, Holders, HoldsSlot
  <2>3. /\ free'[p] = Slots /\ foreign'[p] = 0
        /\ \A q \in Procs \ {p} : free'[q] = free[q] /\ foreign'[q] = foreign[q]
    BY <2>1 DEF Die, TypeOK, SlotsType
  <2>4. IsFiniteSet(Holders(p)') /\ Cardinality(Holders(p)') = 0
    BY <2>2, FS_EmptySet
  <2> QED BY <2>2, <2>3, <2>4, BoundAssumption DEF SlotsInv
<1>2. CASE StartProcess(p) \/ Shutdown(p) \/ CloseExecutor(p)
  BY <1>2, SlotsFrameInv DEF StartProcess, Shutdown, CloseExecutor, SameHolding, local
<1>3. CASE OpenEOTakesSlot(p) \/ OpenEOReturnsSlot(p)
  <2>1. \A q \in Procs : /\ Holders(q)' = Holders(q)
                         /\ free[q] \in Nat /\ foreign[q] \in Nat /\ free'[q] + foreign'[q] = free[q] + foreign[q]
    BY <1>3 DEF OpenEOTakesSlot, OpenEOReturnsSlot, Holders, TypeOK, SlotsType, local
  <2> QED BY <2>1 DEF SlotsInv
<1> QED BY <1>1, <1>2, <1>3 DEF ProcessStep

LEMMA SlotsStep == ASSUME TypeOK, SlotsInv, [Next]_vars PROVE SlotsInv'
<1>1. CASE UNCHANGED vars
  BY <1>1, SlotsFrameInv DEF vars, SameHolding, local
<1> QED BY <1>1, WorkerSlots, OtherSlots, ProcessSlots DEF Next

LEMMA SlotsInit == Init => SlotsInv
<1> SUFFICES ASSUME Init PROVE SlotsInv
  OBVIOUS
<1>1. \A p \in Procs : Holders(p) = {}
  BY ThreadKinds DEF Init, Holders, HoldsSlot
<1>2. \A p \in Procs : IsFiniteSet(Holders(p)) /\ Cardinality(Holders(p)) = 0
  BY <1>1, FS_EmptySet
<1>3. \A p \in Procs : free[p] = Slots /\ foreign[p] = 0
  BY DEF Init
<1> QED BY <1>2, <1>3, BoundAssumption DEF SlotsInv

(* No slot is lost or given back twice, in any process: not by an attempt  *)
(* that fails, is refused, is cancelled at the last moment or dies with    *)
(* its process.                                                            *)
THEOREM SlotsAddUp == Spec => []SlotsBalanced
<1>1. TypeOK /\ SlotsInv /\ [Next]_vars => SlotsInv'
  BY SlotsStep
<1>2. SlotsInv => SlotsBalanced
  BY DEF SlotsInv, SlotsBalanced, Holders
<1> QED BY <1>1, <1>2, SlotsInit, TypeCorrect, PTL DEF Spec

-----------------------------------------------------------------------------
(* Leases.  Whoever holds one is at work on the job.                       *)

LeaseWork == WorkerLeased \cup {"recover", "recovered"}

LeaseHeld ==
    \A j \in Jobs : lease[j] # NoThread => job[lease[j]] = j /\ pc[lease[j]] \in LeaseWork

(* A thread moves and leaves the leases alone: it holds none, or goes on. *)
LEMMA LeaseStays ==
    ASSUME TypeOK, LeaseHeld, NEW t \in Threads, OnlyMoves(t), UNCHANGED lease,
           pc[t] \in LeaseWork => pc'[t] \in LeaseWork /\ job'[t] = job[t]
    PROVE  LeaseHeld'
BY DEF LeaseHeld, OnlyMoves, TypeOK, StoreType

LEMMA LeaseTaken ==
    ASSUME TypeOK, LeaseHeld, NEW t \in Threads, OnlyMoves(t), pc[t] \notin LeaseWork, pc'[t] \in LeaseWork,
           lease' = [lease EXCEPT ![job'[t]] = t]
    PROVE  LeaseHeld'
BY DEF LeaseHeld, OnlyMoves, TypeOK, StoreType

LEMMA LeaseReturned ==
    ASSUME TypeOK, LeaseHeld, NEW t \in Threads, OnlyMoves(t),
           lease' = [lease EXCEPT ![job[t]] = NoThread]
    PROVE  LeaseHeld'
BY DEF LeaseHeld, OnlyMoves, TypeOK, StoreType

LEMMA LeaseElsewhere ==
    ASSUME LeaseHeld, UNCHANGED <<lease, local>>
    PROVE  LeaseHeld'
BY DEF LeaseHeld, local

LEMMA HandlerLeases ==
    ASSUME TypeOK, LeaseHeld, Request \/ \E h \in Handlers : HandlerStep(h)
    PROVE  LeaseHeld'
<1> USE DEF TypeOK, ThreadType
<1>0. \A h \in Handlers : h \in Threads /\ pc[h] \notin LeaseWork
  BY ThreadKinds DEF HandlerAt, LeaseWork, WorkerLeased, HoldsSlot
<1>1. CASE Request
  <2>1. PICK h \in Handlers, j \in Jobs : Create(h, j) \/ RecordCompleted(h, j) \/ RequestCancel(h, j)
    BY <1>1 DEF Request
  <2>2. OnlyMoves(h) /\ UNCHANGED lease
    BY <1>0, <2>1 DEF Create, RecordCompleted, RequestCancel, OnlyMoves, local
  <2> QED BY <1>0, <2>2, LeaseStays
<1>2. CASE \E h \in Handlers : HandlerStep(h)
  <2>1. PICK h \in Handlers : HandlerStep(h)
    BY <1>2
  <2>2. OnlyMoves(h) /\ UNCHANGED lease
    BY <1>0, <2>1, MoveFacts
       DEF HandlerStep, EnqueueCreated, ConsumeInline, PopTimer, CancelFuture, WriteCancelled
  <2> QED BY <1>0, <2>2, LeaseStays
<1> QED BY <1>1, <1>2

LEMMA StartWatcherLeases ==
    ASSUME TypeOK, LeaseHeld, NEW t \in Workers \cup Mains, StartWatcher(t)
    PROVE  LeaseHeld'
<1> t \in Threads /\ ThreadType
  BY ThreadKinds DEF TypeOK
<1>1. UNCHANGED lease /\ pc[t] = "watch"
  BY DEF StartWatcher, At
<1>2. CASE UNCHANGED watched /\ Return(t)
  BY <1>1, <1>2, MoveFacts, LeaseStays DEF LeaseWork, WorkerLeased, HoldsSlot
<1>3. CASE \E w \in Watchers : /\ At(w, "idle")
                              /\ pc' = [pc EXCEPT ![w] = "watching", ![t] = "idle"]
                              /\ job' = [job EXCEPT ![w] = job[t], ![t] = NoJob]
  <2>1. PICK w \in Watchers : /\ pc[w] = "idle"
                              /\ \A u \in Threads \ {w, t} : pc'[u] = pc[u] /\ job'[u] = job[u]
    BY <1>3, ThreadKinds DEF ThreadType, At
  <2>2. \A j \in Jobs : lease[j] # NoThread => lease[j] \in Threads \ {w, t}
    BY <1>1, <2>1 DEF LeaseHeld, LeaseWork, WorkerLeased, HoldsSlot, TypeOK, StoreType
  <2> QED BY <1>1, <2>1, <2>2 DEF LeaseHeld
<1> QED BY <1>2, <1>3 DEF StartWatcher

LEMMA WorkerLeases ==
    ASSUME TypeOK, LeaseHeld, NEW t \in Workers, WorkerStep(t)
    PROVE  LeaseHeld'
<1> t \in Threads /\ ThreadType
  BY ThreadKinds DEF TypeOK
<1> USE DEF LeaseWork, WorkerLeased, HoldsSlot
<1>1. CASE PickUp(t) \/ PopFuture(t) \/ ScheduleRetry(t) \/ RecheckCancelled(t) \/ RetryNow(t)
  <2>1. pc[t] \in {"idle", "pop", "retry", "armed", "retryNow"} /\ UNCHANGED lease
    BY <1>1 DEF PickUp, PopFuture, ScheduleRetry, RecheckCancelled, RetryNow, At
  <2>2. OnlyMoves(t)
    BY <1>1, MoveFacts DEF PickUp, PopFuture, ScheduleRetry, RecheckCancelled, RetryNow, OnlyMoves, ThreadType
  <2> QED BY <2>1, <2>2, LeaseStays
<1>2. CASE TryLease(t)
  <2>1. pc[t] = "picked" /\ OnlyMoves(t)
    BY <1>2, MoveFacts DEF TryLease, At
  <2>2. CASE UNCHANGED lease
    BY <2>1, <2>2, LeaseStays
  <2>3. CASE lease' = [lease EXCEPT ![job[t]] = t] /\ Goto(t, "leased")
    BY <2>1, <2>3, MoveFacts, LeaseTaken
  <2> QED BY <1>2, <2>2, <2>3 DEF TryLease
<1>3. CASE \/ ReadUnderLease(t) \/ CheckCancelled(t) \/ SlotWon(t) \/ SlotRefused(t) \/ AfterRefusal(t)
           \/ StartAttempt(t) \/ ExecutionEnds(t) \/ ConsumeEvents(t) \/ ReleaseSlot(t)
  <2>1. OnlyMoves(t) /\ UNCHANGED lease /\ job'[t] = job[t] /\ pc'[t] \in WorkerLeased
    BY <1>3, MoveFacts DEF ReadUnderLease, CheckCancelled, SlotWon, SlotRefused, AfterRefusal, StartAttempt,
       ExecutionEnds, Succeed, StopCooperatively, Fail, ConsumeEvents, ReleaseSlot
  <2> QED BY <2>1, LeaseStays
<1>4. CASE ReleaseLease(t)
  BY <1>4, MoveFacts, LeaseReturned DEF ReleaseLease
<1>5. CASE StartWatcher(t)
  BY <1>5, StartWatcherLeases
<1> QED BY <1>1, <1>2, <1>3, <1>4, <1>5 DEF WorkerStep

LEMMA RecoveryLeases ==
    ASSUME TypeOK, LeaseHeld, NEW t \in Watchers \cup Mains, RecoveryStep(t)
    PROVE  LeaseHeld'
<1> t \in Threads /\ ThreadType
  BY ThreadKinds DEF TypeOK
<1>1. CASE Recover(t)
  BY <1>1, MoveFacts, LeaseStays DEF Recover, LeaseWork
<1>2. CASE ReleaseRecovered(t)
  BY <1>2, MoveFacts, LeaseReturned DEF ReleaseRecovered
<1>3. CASE EnqueueRecovered(t)
  BY <1>3, MoveFacts, LeaseStays DEF EnqueueRecovered, At, LeaseWork, WorkerLeased, HoldsSlot
<1> QED BY <1>1, <1>2, <1>3 DEF RecoveryStep

LEMMA WatcherLeases ==
    ASSUME TypeOK, LeaseHeld, NEW w \in Watchers, WatcherStep(w)
    PROVE  LeaseHeld'
<1> w \in Threads /\ ThreadType
  BY ThreadKinds DEF TypeOK
<1>1. CASE WatcherLease(w)
  BY <1>1, MoveFacts, LeaseTaken DEF WatcherLease, At, LeaseWork, WorkerLeased, HoldsSlot
<1>2. CASE WatcherStops(w) \/ WatcherDiscards(w) \/ WatcherLeaves(w)
  BY <1>2, MoveFacts, LeaseStays
     DEF WatcherStops, WatcherDiscards, WatcherLeaves, At, LeaseWork, WorkerLeased, HoldsSlot
<1> QED BY <1>1, <1>2, RecoveryLeases DEF WatcherStep

LEMMA MainLeases ==
    ASSUME TypeOK, LeaseHeld, NEW m \in Mains, MainStep(m)
    PROVE  LeaseHeld'
<1> m \in Threads /\ ThreadType
  BY ThreadKinds DEF TypeOK
<1>1. CASE \E j \in Jobs : RecoverNext(m, j)
  <2>1. PICK j \in Jobs : RecoverNext(m, j)
    BY <1>1
  <2>2. OnlyMoves(m) /\ pc[m] = "idle" /\ job'[m] = j
    BY <2>1 DEF RecoverNext, OnlyMoves, ThreadType, At
  <2>3. \/ UNCHANGED lease
        \/ lease' = [lease EXCEPT ![j] = m] /\ pc'[m] = "recover"
    BY <2>1 DEF RecoverNext, ThreadType
  <2> QED BY <2>2, <2>3, LeaseStays, LeaseTaken DEF LeaseWork, WorkerLeased, HoldsSlot
<1>2. CASE InstallConsumer(m) \/ Replay(m)
  BY <1>2, LeaseElsewhere DEF InstallConsumer, Replay
<1> QED BY <1>1, <1>2, RecoveryLeases, StartWatcherLeases DEF MainStep

LEMMA ProcessLeases ==
    ASSUME TypeOK, LeaseHeld, NEW p \in Procs, ProcessStep(p)
    PROVE  LeaseHeld'
<1>1. CASE Exit(p) \/ Crash(p)
  <2>1. Die(p)
    BY <1>1 DEF Exit, Crash
  <2>2. \A t \in Threads : Home[t] # p => pc'[t] = pc[t] /\ job'[t] = job[t]
    BY <2>1 DEF Die
  <2>3. \A j \in Jobs : lease'[j] # NoThread => lease'[j] = lease[j] /\ lease[j] \in Threads /\ Home[lease[j]] # p
    BY <2>1 DEF Die, TypeOK, StoreType
  <2> QED BY <2>2, <2>3 DEF LeaseHeld
<1>2. CASE ~(Exit(p) \/ Crash(p))
  BY <1>2, LeaseElsewhere
     DEF ProcessStep, StartProcess, Shutdown, CloseExecutor, OpenEOTakesSlot, OpenEOReturnsSlot
<1> QED BY <1>1, <1>2

LEMMA LeaseStep == ASSUME TypeOK, LeaseHeld, [Next]_vars PROVE LeaseHeld'
<1>1. CASE \E p \in Procs, j \in Jobs : TimerStep(p, j)
  BY <1>1, LeaseElsewhere DEF TimerStep, TimerFires, EnqueueRetry
<1>2. CASE UNCHANGED vars
  BY <1>2, LeaseElsewhere DEF vars
<1> QED BY <1>1, <1>2, HandlerLeases, WorkerLeases, WatcherLeases, MainLeases, ProcessLeases DEF Next

(* A lease file names a thread that is at work on the job: nobody goes on  *)
(* to the next job, returns or dies with one, so none is held for ever by  *)
(* somebody who will not release it.                                       *)
THEOREM LeasesAreWork == Spec => []LeaseHeld
<1>1. TypeOK /\ LeaseHeld /\ [Next]_vars => LeaseHeld'
  BY LeaseStep
<1>2. Init => LeaseHeld
  BY DEF Init, LeaseHeld
<1> QED BY <1>1, <1>2, TypeCorrect, PTL DEF Spec

-----------------------------------------------------------------------------
(* What the record calls RUNNING. *)

Executed(j)       == \E t \in Workers : pc[t] = "run" /\ job[t] = j
BeingRecovered(j) == \E m \in Mains : pc[m] = "recover" /\ job[m] = j
ToRecover(j)      == \A p \in Procs : mode[p] = "down" \/ j \in todo[p]

RunningIsAccounted ==
    \A j \in Jobs : status[j] = "RUNNING" => Executed(j) \/ BeingRecovered(j) \/ ToRecover(j)

(* The steps that write a record. *)
JobStep == StatusStep \/ \E h \in Handlers, j \in Jobs : RequestCancel(h, j)

LEMMA JobSteps == [Next]_vars => JobStep \/ UNCHANGED <<stored, failures>>
<1> SUFFICES ASSUME [Next]_vars, ~JobStep PROVE UNCHANGED <<stored, failures>>
  OBVIOUS
<1> USE DEF JobStep, StatusStep, history
<1>1. CASE Request
  BY <1>1 DEF Request
<1>2. CASE \E h \in Handlers : HandlerStep(h)
  BY <1>2 DEF HandlerStep, EnqueueCreated, ConsumeInline, PopTimer, CancelFuture
<1>3. CASE \E t \in Workers : WorkerStep(t)
  BY <1>3 DEF WorkerStep, PickUp, TryLease, ReadUnderLease, SlotWon, SlotRefused, AfterRefusal,
     ConsumeEvents, ReleaseSlot, ReleaseLease, PopFuture, ScheduleRetry, RecheckCancelled, RetryNow, StartWatcher
<1>4. CASE \E w \in Watchers : WatcherStep(w)
  BY <1>4 DEF WatcherStep, RecoveryStep, WatcherLease, WatcherStops, ReleaseRecovered,
     EnqueueRecovered, WatcherDiscards, WatcherLeaves
<1>5. CASE \E m \in Mains : MainStep(m)
  BY <1>5 DEF MainStep, RecoveryStep, RecoverNext, StartWatcher, InstallConsumer, Replay,
     ReleaseRecovered, EnqueueRecovered
<1>6. CASE \E p \in Procs, j \in Jobs : TimerStep(p, j)
  BY <1>6 DEF TimerStep, TimerFires, EnqueueRetry
<1>7. CASE \E p \in Procs : ProcessStep(p)
  BY <1>7 DEF ProcessStep, StartProcess, Shutdown, CloseExecutor, Exit, Crash, Die, OpenEOTakesSlot,
     OpenEOReturnsSlot
<1>8. CASE UNCHANGED vars
  BY <1>8 DEF vars
<1> QED BY <1>1, <1>2, <1>3, <1>4, <1>5, <1>6, <1>7, <1>8 DEF Next

NoneStarts == \A j \in Jobs : status'[j] = "RUNNING" => status[j] = "RUNNING"

LEMMA OnlyStartAttemptStarts ==
    ASSUME TypeOK, [Next]_vars
    PROVE  NoneStarts \/ \E t \in Workers : StartAttempt(t)
<1> USE DEF NoneStarts, TypeOK, StoreType
<1>1. CASE UNCHANGED status
  BY <1>1
<1>2. CASE \E h \in Handlers, j \in Jobs : Create(h, j) \/ RecordCompleted(h, j)
  BY <1>2 DEF Create, RecordCompleted, SetStatus
<1>3. CASE \E h \in Handlers : WriteCancelled(h)
  BY <1>3 DEF WriteCancelled, SetStatus
<1>4. CASE \E t \in Workers : CheckCancelled(t) \/ ExecutionEnds(t)
  BY <1>4 DEF CheckCancelled, ExecutionEnds, Succeed, StopCooperatively, Fail, SetStatus, stored
<1>5. CASE \E t \in Watchers \cup Mains : Recover(t)
  BY <1>5 DEF Recover, SetStatus, stored
<1> QED BY StatusSteps, <1>1, <1>2, <1>3, <1>4, <1>5 DEF StatusStep

(* Nothing starts, and no thread leaves a job RUNNING behind. *)
LEMMA AccountStays ==
    ASSUME TypeOK, RunningIsAccounted, NoneStarts,
           \A t \in Workers : pc[t] = "run" => (pc'[t] = "run" /\ job'[t] = job[t]) \/ status'[job[t]] # "RUNNING",
           \A m \in Mains : pc[m] = "recover" =>
               (pc'[m] = "recover" /\ job'[m] = job[m]) \/ status'[job[m]] # "RUNNING",
           \A p \in Procs : mode[p] = "down" => mode'[p] = "down",
           UNCHANGED todo
    PROVE  RunningIsAccounted'
BY DEF RunningIsAccounted, NoneStarts, Executed, BeingRecovered, ToRecover

LEMMA AccountMoves ==
    ASSUME TypeOK, RunningIsAccounted, NoneStarts, NEW t \in Threads, OnlyMoves(t), UNCHANGED <<mode, todo>>,
           t \in Workers /\ pc[t] = "run" => status'[job[t]] # "RUNNING",
           t \in Mains /\ pc[t] = "recover" => status'[job[t]] # "RUNNING"
    PROVE  RunningIsAccounted'
<1>1. \A u \in Workers : pc[u] = "run" => (pc'[u] = "run" /\ job'[u] = job[u]) \/ status'[job[u]] # "RUNNING"
  BY ThreadKinds DEF OnlyMoves
<1>2. \A m \in Mains : pc[m] = "recover" => (pc'[m] = "recover" /\ job'[m] = job[m]) \/ status'[job[m]] # "RUNNING"
  BY ThreadKinds DEF OnlyMoves
<1> QED BY <1>1, <1>2, AccountStays

LEMMA HandlerAccounts ==
    ASSUME TypeOK, RunningIsAccounted, NoneStarts, Request \/ \E h \in Handlers : HandlerStep(h)
    PROVE  RunningIsAccounted'
<1>1. PICK h \in Handlers : \/ \E j \in Jobs : Create(h, j) \/ RecordCompleted(h, j) \/ RequestCancel(h, j)
                           \/ HandlerStep(h)
  BY DEF Request
<1> h \in Threads /\ ThreadType /\ h \notin Workers /\ h \notin Mains
  BY ThreadKinds DEF TypeOK
<1>2. OnlyMoves(h) /\ UNCHANGED <<mode, todo>>
  BY <1>1, MoveFacts
     DEF Create, RecordCompleted, RequestCancel, HandlerStep, EnqueueCreated, ConsumeInline, PopTimer, CancelFuture,
         WriteCancelled, OnlyMoves, ThreadType, local, life
<1> QED BY <1>2, AccountMoves

LEMMA StartWatcherAccounts ==
    ASSUME TypeOK, RunningIsAccounted, NoneStarts, NEW t \in Workers \cup Mains, StartWatcher(t)
    PROVE  RunningIsAccounted'
<1> t \in Threads /\ ThreadType
  BY ThreadKinds DEF TypeOK
<1>1. pc[t] = "watch" /\ UNCHANGED <<mode, todo>>
  BY DEF StartWatcher, At, life
<1>2. \A u \in Workers \cup Mains : u # t => pc'[u] = pc[u] /\ job'[u] = job[u]
  <2>1. CASE Return(t)
    BY <2>1, MoveFacts, ThreadKinds DEF OnlyMoves
  <2>2. CASE \E w \in Watchers : /\ pc' = [pc EXCEPT ![w] = "watching", ![t] = "idle"]
                                /\ job' = [job EXCEPT ![w] = job[t], ![t] = NoJob]
    BY <2>2, ThreadKinds DEF ThreadType
  <2> QED BY <2>1, <2>2 DEF StartWatcher
<1>3. \A u \in Workers \cup Mains : pc[u] \in {"run", "recover"} => pc'[u] = pc[u] /\ job'[u] = job[u]
  BY <1>1, <1>2
<1> QED BY <1>1, <1>3, AccountStays

LEMMA WatcherAccounts ==
    ASSUME TypeOK, RunningIsAccounted, NoneStarts, NEW w \in Watchers, WatcherStep(w)
    PROVE  RunningIsAccounted'
<1> w \in Threads /\ ThreadType /\ w \notin Workers /\ w \notin Mains
  BY ThreadKinds DEF TypeOK
<1>1. OnlyMoves(w) /\ UNCHANGED <<mode, todo>>
  BY MoveFacts DEF WatcherStep, RecoveryStep, WatcherLease, WatcherStops, Recover, ReleaseRecovered, EnqueueRecovered,
     WatcherDiscards, WatcherLeaves, life
<1> QED BY <1>1, AccountMoves

LEMMA StartAttemptAccounts ==
    ASSUME TypeOK, RunningIsAccounted, NEW t \in Workers, StartAttempt(t)
    PROVE  RunningIsAccounted'
<1> t \in Threads /\ ThreadType
  BY ThreadKinds DEF TypeOK
<1>1. pc[t] = "won" /\ OnlyMoves(t) /\ UNCHANGED <<mode, todo>> /\ job'[t] = job[t]
  BY MoveFacts DEF StartAttempt, At, life
<1>2. CASE cancel[job[t]]
  <2>1. NoneStarts
    BY <1>2 DEF StartAttempt, stored, NoneStarts
  <2> QED BY <1>1, <2>1, AccountMoves
<1>3. CASE ~cancel[job[t]]
  <2>1. pc'[t] = "run" /\ \A k \in Jobs : k # job[t] => status'[k] = status[k]
    BY <1>3, MoveFacts DEF StartAttempt, TypeOK, StoreType
  <2>2. \A k \in Jobs : k = job[t] => Executed(k)'
    BY <1>1, <2>1 DEF Executed
  <2>3. ASSUME NEW k \in Jobs, k # job[t], status'[k] = "RUNNING"
        PROVE  Executed(k)' \/ BeingRecovered(k)' \/ ToRecover(k)'
    <3>1. Executed(k) => Executed(k)'
      BY <1>1 DEF Executed, OnlyMoves, Threads
    <3>2. BeingRecovered(k) => BeingRecovered(k)'
      BY <1>1, ThreadKinds DEF BeingRecovered, OnlyMoves
    <3>3. ToRecover(k) => ToRecover(k)'
      BY <1>1 DEF ToRecover
    <3> QED BY <2>1, <2>3, <3>1, <3>2, <3>3 DEF RunningIsAccounted
  <2> QED BY <2>2, <2>3 DEF RunningIsAccounted
<1> QED BY <1>2, <1>3

LEMMA WorkerAccounts ==
    ASSUME TypeOK, RunningIsAccounted, NoneStarts, NEW t \in Workers, WorkerStep(t)
    PROVE  RunningIsAccounted'
<1> t \in Threads /\ ThreadType /\ t \notin Mains /\ (pc[t] # "idle" => job[t] \in Jobs)
  BY ThreadKinds DEF TypeOK, ThreadType
<1>1. CASE StartWatcher(t)
  BY <1>1, StartWatcherAccounts
<1>2. CASE StartAttempt(t)
  BY <1>2, StartAttemptAccounts
<1>3. CASE ExecutionEnds(t)
  <2>1. OnlyMoves(t) /\ UNCHANGED <<mode, todo>> /\ job[t] \in Jobs
    BY <1>3, MoveFacts DEF ExecutionEnds, Succeed, StopCooperatively, Fail, life, At
  <2>2. status'[job[t]] # "RUNNING"
    BY <1>3, <2>1 DEF ExecutionEnds, Succeed, StopCooperatively, Fail, SetStatus, TypeOK, StoreType
  <2> QED BY <2>1, <2>2, AccountMoves
<1>4. CASE ~(StartWatcher(t) \/ StartAttempt(t) \/ ExecutionEnds(t))
  <2>1. OnlyMoves(t) /\ UNCHANGED <<mode, todo>> /\ pc[t] # "run"
    BY <1>4, MoveFacts
       DEF WorkerStep, PickUp, TryLease, ReadUnderLease, CheckCancelled, SlotWon, SlotRefused, AfterRefusal,
           ConsumeEvents, ReleaseSlot, ReleaseLease, PopFuture, ScheduleRetry, RecheckCancelled, RetryNow,
           OnlyMoves, ThreadType, life, At
  <2> QED BY <2>1, AccountMoves
<1> QED BY <1>1, <1>2, <1>3, <1>4

(* The one server finds the lease of a job it has to recover free: nobody  *)
(* else could have the job, and whoever holds a lease is at work on it.    *)
LEMMA NobodyElse ==
    ASSUME OneServer, TypeOK, LeaseHeld, CustodyInv, NEW p \in Procs, NEW j \in Jobs, j \in todo[p]
    PROVE  lease[j] = NoThread
<1> SUFFICES ASSUME lease[j] # NoThread PROVE FALSE
  OBVIOUS
<1>1. PICK t \in Threads : t = lease[j]
  BY DEF TypeOK, StoreType
<1>2. Has(t, p, j)
  BY <1>1, ThreadKinds DEF OneServer, LeaseHeld, LeaseWork, Has, HandAt, Working, Taking
<1>3. Kept("todo", p, j) /\ "todo" \in Shelves
  BY DEF Kept, Shelves
<1>4. OneHand(p, j)
  BY DEF CustodyInv, CustodyOf
<1> QED BY <1>2, <1>3, <1>4 DEF OneHand

LEMMA RecoverNextAccounts ==
    ASSUME OneServer, TypeOK, LeaseHeld, CustodyInv, RunningIsAccounted, NEW m \in Mains, NEW j \in Jobs,
           RecoverNext(m, j)
    PROVE  RunningIsAccounted'
<1> m \in Threads /\ ThreadType /\ Home[m] \in Procs
  BY ThreadKinds DEF TypeOK
<1>1. lease[j] = NoThread
  BY NobodyElse DEF RecoverNext
<1>2. /\ OnlyMoves(m) /\ pc[m] = "idle" /\ pc'[m] = "recover" /\ job'[m] = j /\ UNCHANGED <<status, mode>>
      /\ todo' = [todo EXCEPT ![Home[m]] = @ \ {j}]
  BY <1>1 DEF RecoverNext, OnlyMoves, ThreadType, At, stored
<1>3. BeingRecovered(j)'
  BY <1>2 DEF BeingRecovered
<1>4. ASSUME NEW k \in Jobs, k # j, status'[k] = "RUNNING"
      PROVE  Executed(k)' \/ BeingRecovered(k)' \/ ToRecover(k)'
  <2>1. Executed(k) => Executed(k)'
    BY <1>2, ThreadKinds DEF Executed, OnlyMoves
  <2>2. BeingRecovered(k) => BeingRecovered(k)'
    BY <1>2, ThreadKinds DEF BeingRecovered, OnlyMoves
  <2>3. ToRecover(k) => ToRecover(k)'
    BY <1>2, <1>4 DEF ToRecover, TypeOK, ServiceType
  <2> QED BY <1>2, <1>4, <2>1, <2>2, <2>3 DEF RunningIsAccounted
<1> QED BY <1>3, <1>4 DEF RunningIsAccounted

LEMMA MainAccounts ==
    ASSUME OneServer, TypeOK, LeaseHeld, CustodyInv, RunningIsAccounted, NoneStarts, NEW m \in Mains, MainStep(m)
    PROVE  RunningIsAccounted'
<1> m \in Threads /\ ThreadType /\ m \notin Workers
  BY ThreadKinds DEF TypeOK
<1>1. CASE \E j \in Jobs : RecoverNext(m, j)
  BY <1>1, RecoverNextAccounts
<1>2. CASE Recover(m)
  <2>1. OnlyMoves(m) /\ UNCHANGED <<mode, todo>> /\ job[m] \in Jobs
    BY <1>2, MoveFacts DEF Recover, life, At, ThreadType
  <2>2. status'[job[m]] # "RUNNING"
    BY <1>2, <2>1 DEF Recover, SetStatus, IsPending, Pending, stored, TypeOK, StoreType
  <2> QED BY <2>1, <2>2, AccountMoves
<1>3. CASE ReleaseRecovered(m) \/ EnqueueRecovered(m)
  <2>1. OnlyMoves(m) /\ UNCHANGED <<mode, todo>> /\ pc[m] # "recover"
    BY <1>3, MoveFacts DEF ReleaseRecovered, EnqueueRecovered, life, At
  <2> QED BY <2>1, AccountMoves
<1>4. CASE StartWatcher(m)
  BY <1>4, StartWatcherAccounts
<1>5. CASE InstallConsumer(m) \/ Replay(m)
  <2>1. UNCHANGED <<local, todo>> /\ \A p \in Procs : mode[p] = "down" => mode'[p] = "down"
    BY <1>5 DEF InstallConsumer, Replay, TypeOK, ServiceType
  <2> QED BY <2>1, AccountStays DEF local
<1> QED BY <1>1, <1>2, <1>3, <1>4, <1>5 DEF MainStep, RecoveryStep

LEMMA ProcessAccounts ==
    ASSUME OneServer, TypeOK, RunningIsAccounted, NoneStarts, NEW p \in Procs, ProcessStep(p)
    PROVE  RunningIsAccounted'
<1> \A q \in Procs : q = p
  BY DEF OneServer
<1> USE DEF TypeOK, ServiceType
<1>1. CASE Exit(p) \/ Crash(p)
  <2>1. mode'[p] = "down"
    BY <1>1 DEF Exit, Crash, Die
  <2> QED BY <2>1 DEF RunningIsAccounted, ToRecover
<1>2. CASE StartProcess(p)
  <2>1. \A j \in Jobs : status'[j] = "RUNNING" => j \in todo'[p]
    BY <1>2 DEF StartProcess, IsPending, Pending, stored
  <2> QED BY <2>1 DEF RunningIsAccounted, ToRecover
<1>3. CASE Shutdown(p) \/ CloseExecutor(p) \/ OpenEOTakesSlot(p) \/ OpenEOReturnsSlot(p)
  <2>1. UNCHANGED <<local, todo>> /\ \A q \in Procs : mode[q] = "down" => mode'[q] = "down"
    BY <1>3 DEF Shutdown, CloseExecutor, OpenEOTakesSlot, OpenEOReturnsSlot, life
  <2> QED BY <2>1, AccountStays DEF local
<1> QED BY <1>1, <1>2, <1>3 DEF ProcessStep

LEMMA AccountStep ==
    ASSUME OneServer, TypeOK, LeaseHeld, CustodyInv, RunningIsAccounted, [Next]_vars
    PROVE  RunningIsAccounted'
<1>1. CASE \E t \in Workers : StartAttempt(t)
  BY <1>1, StartAttemptAccounts
<1>2. CASE NoneStarts
  <2>1. CASE \/ \E p \in Procs, j \in Jobs : TimerStep(p, j)
             \/ UNCHANGED vars
    <3>1. UNCHANGED <<local, life>>
      BY <2>1 DEF TimerStep, TimerFires, EnqueueRetry, vars
    <3> QED BY <1>2, <3>1, AccountStays DEF local, life
  <2> QED BY <1>2, <2>1, HandlerAccounts, WorkerAccounts, WatcherAccounts, MainAccounts, ProcessAccounts DEF Next
<1> QED BY <1>1, <1>2, OnlyStartAttemptStarts

(* Who is about to start an attempt starts a job that waits for one.       *)
LEMMA StartsWaiting ==
    ASSUME OneServer, TypeOK, IInv, CustodyInv, RunningIsAccounted, NEW t \in Workers, StartAttempt(t), ~cancel[job[t]]
    PROVE  status[job[t]] \in {"ACCEPTED", "RETRYING"} /\ job[t] \in Jobs
<1> DEFINE j == job[t]
           p == Home[t]
<1> t \in Threads /\ pc[t] = "won" /\ p \in Procs
  BY ThreadKinds DEF StartAttempt, At
<1>0. j \in Jobs
  BY DEF TypeOK, ThreadType
<1>1. status[j] \in Pending
  BY <1>0 DEF IInv, RunInv, CancelInv
<1>2. Has(t, p, j)
  BY DEF Has, HandAt, Working, WorkerLeased, HoldsSlot
<1>3. OneHand(p, j) /\ HandsAreReal(p, j)
  BY <1>0 DEF CustodyInv, CustodyOf
<1>4. ~Executed(j)
  <2>1. \A u \in Workers : pc[u] = "run" /\ job[u] = j => Has(u, p, j)
    BY ThreadKinds DEF OneServer, Has, HandAt, Working, WorkerLeased, HoldsSlot
  <2> QED BY <1>2, <1>3, <2>1, ThreadKinds DEF Executed, OneHand
<1>5. ~BeingRecovered(j)
  <2>1. \A m \in Mains : pc[m] = "recover" /\ job[m] = j => Has(m, p, j)
    BY ThreadKinds DEF OneServer, Has, HandAt, Taking
  <2> QED BY <1>2, <1>3, <2>1, ThreadKinds DEF BeingRecovered, OneHand
<1>6. ~ToRecover(j)
  <2>1. mode[p] # "down"
    BY <1>2, <1>3 DEF HandsAreReal, NoHands
  <2>2. j \notin todo[p]
    BY <1>2, <1>3 DEF OneHand, Kept, Shelves
  <2> QED BY <2>1, <2>2 DEF ToRecover
<1> QED BY <1>0, <1>1, <1>4, <1>5, <1>6 DEF RunningIsAccounted, Pending

-----------------------------------------------------------------------------
(* Attempts.  The record counts the attempts that failed, and the one that *)
(* is under way.                                                           *)
AttemptsAreFailures ==
    \A j \in Jobs :
        /\ status[j] = "none" => attempt[j] = 0
        /\ status[j] \in {"ACCEPTED", "RETRYING"} => attempt[j] = failures[j]
        /\ status[j] = "RUNNING" => attempt[j] = failures[j] + 1
        /\ status[j] = "FAILED" => failures[j] = MaxAttempts

LEMMA AttemptsStep ==
    ASSUME OneServer, TypeOK, IInv, CustodyInv, RunningIsAccounted, AttemptsAreFailures, [Next]_vars
    PROVE  AttemptsAreFailures'
<1> USE DEF TypeOK, StoreType, AttemptsAreFailures, stored, history, SetStatus
<1>1. CASE UNCHANGED <<stored, failures>>
  BY <1>1
<1>2. CASE \E h \in Handlers, j \in Jobs : Create(h, j) \/ RecordCompleted(h, j) \/ RequestCancel(h, j)
  BY <1>2 DEF Create, RecordCompleted, RequestCancel, IInv, BudgetInv
<1>3. CASE \E h \in Handlers : WriteCancelled(h)
  BY <1>3 DEF WriteCancelled
<1>4. CASE \E t \in Workers : CheckCancelled(t)
  BY <1>4 DEF CheckCancelled
<1>5. CASE \E t \in Workers : StartAttempt(t)
  <2>1. PICK t \in Workers : StartAttempt(t)
    BY <1>5
  <2>2. CASE cancel[job[t]]
    BY <2>1, <2>2 DEF StartAttempt
  <2>3. CASE ~cancel[job[t]]
    <3>1. job[t] \in Jobs /\ attempt[job[t]] = failures[job[t]]
      BY <2>1, <2>3, StartsWaiting
    <3> QED BY <2>1, <2>3, <3>1 DEF StartAttempt
  <2> QED BY <2>2, <2>3
<1>6. CASE \E t \in Workers : ExecutionEnds(t)
  <2>1. PICK t \in Workers : ExecutionEnds(t)
    BY <1>6
  <2>2. job[t] \in Jobs /\ status[job[t]] = "RUNNING"
    BY <2>1, ThreadKinds DEF ExecutionEnds, Succeed, StopCooperatively, Fail, At, IInv, RunInv, ThreadType
  <2>3. attempt[job[t]] = failures[job[t]] + 1 /\ failures[job[t]] < MaxAttempts
    BY <2>2 DEF IInv, BudgetInv, FailuresWithinBudget
  <2>4. CASE Succeed(t) \/ StopCooperatively(t)
    BY <2>2, <2>4 DEF Succeed, StopCooperatively
  <2>5. CASE Fail(t)
    <3>1. attempt[job[t]] < MaxAttempts \/ failures[job[t]] + 1 = MaxAttempts
      BY <2>2, <2>3, BoundAssumption
    <3> QED BY <2>2, <2>3, <2>5, <3>1 DEF Fail
  <2> QED BY <2>1, <2>4, <2>5 DEF ExecutionEnds
<1>7. CASE \E t \in Watchers \cup Mains : Recover(t)
  <2>1. PICK t \in Watchers \cup Mains : Recover(t)
    BY <1>7
  <2>2. CASE UNCHANGED stored
    BY <2>1, <2>2 DEF Recover
  <2>3. CASE SetStatus(job[t], "CANCELLED")
    BY <2>1, <2>3 DEF Recover
  <2>4. CASE /\ status[job[t]] = "RUNNING" /\ status' = [status EXCEPT ![job[t]] = "ACCEPTED"]
             /\ attempt' = [attempt EXCEPT ![job[t]] = IF @ > 0 THEN @ - 1 ELSE 0]
    <3>1. UNCHANGED failures
      BY <2>1 DEF Recover
    <3>2. ASSUME NEW j \in Jobs, j = job[t] PROVE attempt'[j] = failures[j]
      BY <2>4, <3>2
    <3> QED BY <2>4, <3>1, <3>2
  <2> QED BY <2>1, <2>2, <2>3, <2>4 DEF Recover
<1> QED BY JobSteps, <1>1, <1>2, <1>3, <1>4, <1>5, <1>6, <1>7 DEF JobStep, StatusStep

(* What the one server counts is right: attempts and slots alike.  An      *)
(* attempt a crash interrupted is given back, and never one that failed.   *)
THEOREM CountsHold == ASSUME OneServer PROVE Spec => []CountsAreRight
<1>1. TypeOK /\ IInv /\ CustodyInv /\ LeaseHeld /\ RunningIsAccounted /\ AttemptsAreFailures /\ [Next]_vars
        => RunningIsAccounted' /\ AttemptsAreFailures'
  BY AccountStep, AttemptsStep
<1>2. Init => RunningIsAccounted /\ AttemptsAreFailures
  BY DEF Init, RunningIsAccounted, AttemptsAreFailures
<1>3. IInv /\ AttemptsAreFailures => BudgetCountsFailures
  BY DEF IInv, BudgetInv, FailuresWithinBudget, AttemptsAreFailures, BudgetCountsFailures
<1> QED BY <1>1, <1>2, <1>3, LeasesAreWork, CustodyHolds, InvariantHolds, TypeCorrect, SlotsAddUp, PTL
        DEF Spec, CountsAreRight

-----------------------------------------------------------------------------
(* The refinement: what a step does to the records, the lifecycle allows.  *)

Phase(s) == IF s \in {"ACCEPTED", "RETRYING"} THEN "waiting" ELSE IF s = "RUNNING" THEN "running" ELSE s

Record == [j \in Jobs |-> Phase(status[j])]

LEMMA RecordIsState ==
    Record = [j \in Jobs |-> IF status[j] \in {"ACCEPTED", "RETRYING"} THEN "waiting"
                             ELSE IF status[j] = "RUNNING" THEN "running" ELSE status[j]]
BY DEF Record, Phase

LEMMA RecordFrame == ASSUME UNCHANGED <<stored, failures>> PROVE UNCHANGED Lifecycle!vars
BY DEF Lifecycle!vars, stored

(* One job's status changes: its phase moves, or nothing is seen of it. *)
LEMMA PhaseMoves ==
    ASSUME TypeOK, NEW j \in Jobs, NEW s, status' = [status EXCEPT ![j] = s]
    PROVE  /\ Record[j] = Phase(status[j]) /\ Record' = [Record EXCEPT ![j] = Phase(s)]
           /\ Phase(s) = Phase(status[j]) => Record' = Record
BY DEF Record, TypeOK, StoreType

LEMMA MoveIs ==
    ASSUME NEW j \in Jobs, NEW from, NEW to, Record[j] = from, Record' = [Record EXCEPT ![j] = to]
    PROVE  Lifecycle!Move(j, from, to)
BY DEF Record, Phase, Lifecycle!Move

LEMMA Unseen ==
    ASSUME Record' = Record, UNCHANGED <<failures, cancel>>
    PROVE  UNCHANGED Lifecycle!vars
BY DEF Record, Phase, Lifecycle!vars

(* A cancellation is recorded of a job that waits or runs and whose flag   *)
(* is set, or of one that is cancelled already.                            *)
LEMMA CancelIs ==
    ASSUME TypeOK, NEW j \in Jobs, SetStatus(j, "CANCELLED"), cancel[j], UNCHANGED failures,
           status[j] \in Pending \cup {"CANCELLED"}
    PROVE  Lifecycle!Cancel(j) \/ UNCHANGED Lifecycle!vars
<1> UNCHANGED cancel /\ status' = [status EXCEPT ![j] = "CANCELLED"]
  BY DEF SetStatus
<1>1. CASE status[j] = "CANCELLED"
  <2>1. Record' = Record
    BY <1>1, PhaseMoves
  <2> QED BY <2>1, Unseen
<1>2. CASE status[j] \in Pending
  <2>1. PICK from \in {"waiting", "running"} : from = Phase(status[j])
    BY <1>2 DEF Pending, Phase
  <2>2. Lifecycle!Move(j, from, "CANCELLED")
    <3>1. Record[j] = from /\ Record' = [Record EXCEPT ![j] = "CANCELLED"]
      BY <2>1, PhaseMoves DEF Phase
    <3> QED BY <3>1, MoveIs
  <2> QED BY <2>2 DEF Lifecycle!Cancel
<1> QED BY <1>1, <1>2

LEMMA RequestRefines ==
    ASSUME TypeOK, NEW h \in Handlers, NEW j \in Jobs, Create(h, j) \/ RecordCompleted(h, j) \/ RequestCancel(h, j)
    PROVE  Lifecycle!Accept(j) \/ Lifecycle!AskToCancel(j)
<1>1. CASE Create(h, j) \/ RecordCompleted(h, j)
  <2>1. PICK s \in {"ACCEPTED", "SUCCESSFUL"} : status' = [status EXCEPT ![j] = s]
    BY <1>1 DEF Create, RecordCompleted, SetStatus
  <2>2. status[j] = "none" /\ UNCHANGED <<failures, cancel>>
    BY <1>1 DEF Create, RecordCompleted, SetStatus, history
  <2>3. Record[j] = "none" /\ Record' = [Record EXCEPT ![j] = Phase(s)]
    BY <2>1, <2>2, PhaseMoves DEF Phase
  <2>4. Lifecycle!Move(j, "none", Phase(s)) /\ Phase(s) \in {"waiting", "SUCCESSFUL"}
    BY <2>3, MoveIs DEF Phase
  <2> QED BY <2>2, <2>4 DEF Lifecycle!Accept
<1>2. CASE RequestCancel(h, j)
  BY <1>2 DEF RequestCancel, IsPending, Pending, history, Lifecycle!AskToCancel
<1> QED BY <1>1, <1>2

(* An attempt begins for a job that waits and that nobody asked to cancel. *)
LEMMA StartRefines ==
    ASSUME OneServer, TypeOK, IInv, CustodyInv, RunningIsAccounted, NEW t \in Workers, StartAttempt(t)
    PROVE  UNCHANGED Lifecycle!vars \/ \E j \in Jobs : Lifecycle!Begin(j)
<1>1. CASE cancel[job[t]]
  <2>1. UNCHANGED <<stored, failures>>
    BY <1>1 DEF StartAttempt, history
  <2> QED BY <2>1, RecordFrame
<1>2. CASE ~cancel[job[t]]
  <2>1. PICK j \in Jobs : j = job[t] /\ status[j] \in {"ACCEPTED", "RETRYING"}
    BY <1>2, StartsWaiting
  <2>2. status' = [status EXCEPT ![j] = "RUNNING"] /\ UNCHANGED <<failures, cancel>>
    BY <1>2, <2>1 DEF StartAttempt, history
  <2>3. Record[j] = "waiting" /\ Record' = [Record EXCEPT ![j] = "running"]
    BY <2>1, <2>2, PhaseMoves DEF Phase
  <2>4. Lifecycle!Move(j, "waiting", "running")
    BY <2>3, MoveIs
  <2>5. failures[j] < MaxAttempts
    BY <2>1 DEF IInv, BudgetInv, FailuresWithinBudget
  <2> QED BY <1>2, <2>1, <2>2, <2>4, <2>5 DEF Lifecycle!Begin
<1> QED BY <1>1, <1>2

(* It ends: well, on a cancellation, or with a failure, after which the    *)
(* record's own count decides whether the job waits again.                 *)
LEMMA EndRefines ==
    ASSUME TypeOK, IInv, AttemptsAreFailures, NEW t \in Workers, ExecutionEnds(t)
    PROVE  UNCHANGED Lifecycle!vars
           \/ \E j \in Jobs : Lifecycle!Succeed(j) \/ Lifecycle!Cancel(j) \/ Lifecycle!Fail(j)
<1>1. PICK j \in Jobs : j = job[t] /\ status[j] = "RUNNING"
  BY ThreadKinds DEF ExecutionEnds, Succeed, StopCooperatively, Fail, At, IInv, RunInv, TypeOK, ThreadType
<1>2. CASE Succeed(t)
  <2>1. status' = [status EXCEPT ![j] = "SUCCESSFUL"] /\ UNCHANGED <<failures, cancel>>
    BY <1>1, <1>2 DEF Succeed, SetStatus, history
  <2>2. Record[j] = "running" /\ Record' = [Record EXCEPT ![j] = "SUCCESSFUL"]
    BY <1>1, <2>1, PhaseMoves DEF Phase
  <2> QED BY <2>1, <2>2, MoveIs DEF Lifecycle!Succeed
<1>3. CASE StopCooperatively(t)
  <2>1. SetStatus(j, "CANCELLED") /\ cancel[j] /\ UNCHANGED failures
    BY <1>1, <1>3 DEF StopCooperatively, history
  <2> QED BY <1>1, <2>1, CancelIs DEF Pending
<1>4. CASE Fail(t)
  <2> DEFINE retry == attempt[j] < MaxAttempts
             s == IF retry THEN "RETRYING" ELSE "FAILED"
  <2>1. /\ status' = [status EXCEPT ![j] = s] /\ UNCHANGED cancel
        /\ failures' = [failures EXCEPT ![j] = @ + 1]
    BY <1>1, <1>4 DEF Fail, SetStatus
  <2>2. retry <=> failures[j] + 1 < MaxAttempts
    BY <1>1 DEF AttemptsAreFailures
  <2>3. Phase(s) = IF failures[j] + 1 < MaxAttempts THEN "waiting" ELSE "FAILED"
    BY <2>2 DEF Phase
  <2>4. Record[j] = "running" /\ Record' = [Record EXCEPT ![j] = Phase(s)]
    BY <1>1, <2>1, PhaseMoves DEF Phase
  <2>5. Lifecycle!Move(j, "running", IF failures[j] + 1 < MaxAttempts THEN "waiting" ELSE "FAILED")
    <3>1. PICK to \in {"waiting", "FAILED"} : to = Phase(s)
      BY <2>3
    <3>2. Lifecycle!Move(j, "running", to)
      BY <2>4, <3>1, MoveIs
    <3> QED BY <2>3, <3>1, <3>2 DEF Lifecycle!Move
  <2> QED BY <2>1, <2>5 DEF Lifecycle!Fail
<1> QED BY <1>2, <1>3, <1>4 DEF ExecutionEnds

(* Recovery cancels, or gives the interrupted attempt back. *)
LEMMA RecoverRefines ==
    ASSUME TypeOK, NEW t \in Watchers \cup Mains, Recover(t)
    PROVE  UNCHANGED Lifecycle!vars \/ \E j \in Jobs : Lifecycle!Cancel(j) \/ Lifecycle!Interrupt(j)
<1>1. PICK j \in Jobs : j = job[t]
  BY ThreadKinds DEF Recover, At, TypeOK, ThreadType
<1>2. UNCHANGED failures
  BY DEF Recover, history
<1>3. CASE UNCHANGED stored
  BY <1>2, <1>3, RecordFrame
<1>4. CASE SetStatus(j, "CANCELLED") /\ cancel[j] /\ status[j] \in Pending
  BY <1>2, <1>4, CancelIs
<1>5. CASE ~cancel[j] /\ status[j] = "RUNNING" /\ status' = [status EXCEPT ![j] = "ACCEPTED"] /\ UNCHANGED cancel
  <2>1. Record[j] = "running" /\ Record' = [Record EXCEPT ![j] = "waiting"]
    BY <1>5, PhaseMoves DEF Phase
  <2>2. Lifecycle!Move(j, "running", "waiting")
    BY <2>1, MoveIs
  <2> QED BY <1>2, <1>5, <2>2 DEF Lifecycle!Interrupt
<1> QED BY <1>1, <1>3, <1>4, <1>5 DEF Recover, IsPending

LEMMA RefinesStep ==
    ASSUME OneServer, TypeOK, IInv, CustodyInv, RunningIsAccounted, AttemptsAreFailures, [Next]_vars
    PROVE  [Lifecycle!Next]_(Lifecycle!vars)
<1>1. CASE UNCHANGED <<stored, failures>>
  BY <1>1, RecordFrame
<1>2. CASE \E h \in Handlers, j \in Jobs : Create(h, j) \/ RecordCompleted(h, j) \/ RequestCancel(h, j)
  BY <1>2, RequestRefines DEF Lifecycle!Next
<1>3. CASE \E h \in Handlers : WriteCancelled(h)
  <2>1. PICK h \in Handlers : WriteCancelled(h)
    BY <1>3
  <2>2. PICK j \in Jobs : j = job[h]
    BY <2>1, ThreadKinds DEF WriteCancelled, At, TypeOK, ThreadType
  <2>3. cancel[j] /\ status[j] \in Pending \cup {"CANCELLED"} /\ SetStatus(j, "CANCELLED") /\ UNCHANGED failures
    BY <2>1, <2>2 DEF WriteCancelled, At, IInv, CancelInv, Pending, history
  <2> QED BY <2>3, CancelIs DEF Lifecycle!Next
<1>4. CASE \E t \in Workers : CheckCancelled(t)
  <2>1. PICK t \in Workers : CheckCancelled(t)
    BY <1>4
  <2>2. CASE UNCHANGED stored
    BY <2>1, <2>2, RecordFrame DEF CheckCancelled, history
  <2>3. CASE PreCancelled(job[t]) /\ SetStatus(job[t], "CANCELLED")
    <3>1. PICK j \in Jobs : j = job[t]
      BY <2>1, ThreadKinds DEF CheckCancelled, At, TypeOK, ThreadType
    <3>2. cancel[j] /\ status[j] \in Pending \cup {"CANCELLED"} /\ SetStatus(j, "CANCELLED") /\ UNCHANGED failures
      BY <2>1, <2>3, <3>1 DEF CheckCancelled, PreCancelled, Pending, history
    <3> QED BY <3>2, CancelIs DEF Lifecycle!Next
  <2> QED BY <2>1, <2>2, <2>3 DEF CheckCancelled
<1>5. CASE \E t \in Workers : StartAttempt(t)
  BY <1>5, StartRefines DEF Lifecycle!Next
<1>6. CASE \E t \in Workers : ExecutionEnds(t)
  BY <1>6, EndRefines DEF Lifecycle!Next
<1>7. CASE \E t \in Watchers \cup Mains : Recover(t)
  BY <1>7, RecoverRefines DEF Lifecycle!Next
<1> QED BY JobSteps, <1>1, <1>2, <1>3, <1>4, <1>5, <1>6, <1>7 DEF JobStep, StatusStep

(* The service of one server implements the abstract job lifecycle.        *)
THEOREM LifecycleImplemented == ASSUME OneServer PROVE Spec => ImplementsLifecycle
<1>1. TypeOK /\ IInv /\ CustodyInv /\ LeaseHeld /\ RunningIsAccounted /\ AttemptsAreFailures /\ [Next]_vars
        => RunningIsAccounted' /\ AttemptsAreFailures' /\ [Lifecycle!Next]_(Lifecycle!vars)
  BY AccountStep, AttemptsStep, RefinesStep
<1>2. Init => RunningIsAccounted /\ AttemptsAreFailures
  BY DEF Init, RunningIsAccounted, AttemptsAreFailures
<1>3. Init => Lifecycle!Init
  BY DEF Init, Lifecycle!Init
<1> QED BY <1>1, <1>2, <1>3, LeasesAreWork, CustodyHolds, InvariantHolds, TypeCorrect, PTL
        DEF Spec, ImplementsLifecycle, Lifecycle!Spec

=============================================================================
