-------------------------- MODULE OpenEOJobsProofs ---------------------------
(***************************************************************************)
(* The openEO job runtime, for any number of processes, threads and jobs:  *)
(* its types, the safety of its executions, and managed publication.       *)
(***************************************************************************)
EXTENDS OpenEOJobs, WellFoundedInduction, FiniteSetTheorems, TLAPS

(***************************************************************************)
(* Types of the openEO job runtime, for any number of processes, threads   *)
(* and jobs, and what its steps have in common.                            *)
(***************************************************************************)
Dues == {"none", "watch", "retry", "requeue", "announce", "before"}

(* The kinds of threads are apart, and none is what stands for nobody. *)
LEMMA ThreadKinds ==
    /\ Workers \subseteq Threads /\ Watchers \subseteq Threads
    /\ Mains \subseteq Threads /\ Handlers \subseteq Threads
    /\ \A t \in Threads : t # NoThread /\ t # Ingest /\ Home[t] \in Procs
    /\ \A t \in Workers : t \notin Watchers /\ t \notin Mains /\ t \notin Handlers
    /\ \A t \in Watchers : t \notin Workers /\ t \notin Mains /\ t \notin Handlers
    /\ \A t \in Mains : t \notin Workers /\ t \notin Watchers /\ t \notin Handlers
    /\ \A t \in Handlers : t \notin Workers /\ t \notin Watchers /\ t \notin Mains
BY ThreadAssumption DEF Threads

LEMMA NoPubType == NoPub \in PubType /\ NoSeen \in SeenType
BY DEF NoPub, PubType, NoSeen, SeenType

(* The first states have the types. *)
LEMMA InitType == Init => TypeOK
<1> SUFFICES ASSUME Init PROVE TypeOK
  OBVIOUS
<1>1. StoreType
  <2>1. [status |-> "none", attempt |-> 0, cancel |-> FALSE, waiting |-> FALSE,
         publishing |-> FALSE, pub |-> NoPub, events |-> {}] \in RecType
    BY NoPubType DEF RecType
  <2> QED BY <2>1 DEF Init, StoreType
<1>2. ServiceType
  BY DEF Init, ServiceType, Modes
<1>3. ThreadType
  BY ThreadKinds, NoPubType DEF Init, ThreadType, HandlerAt, WorkerAt, WatcherAt, MainAt
<1>4. GhostType
  BY DEF Init, GhostType
<1> QED BY <1>1, <1>2, <1>3, <1>4 DEF TypeOK

-----------------------------------------------------------------------------
(* Frames: what an action leaves alone keeps its type. *)

LEMMA StoreFrame ==
    ASSUME StoreType, UNCHANGED <<rec, dataset, lease>> PROVE StoreType'
BY DEF StoreType, dataset

LEMMA ServiceFrame ==
    ASSUME ServiceType, UNCHANGED <<service, life>> PROVE ServiceType'
BY DEF ServiceType, service, life

LEMMA ThreadFrame ==
    ASSUME ThreadType, UNCHANGED local PROVE ThreadType'
BY DEF ThreadType, local

LEMMA GhostFrame ==
    ASSUME GhostType, UNCHANGED ghosts PROVE GhostType'
BY DEF GhostType, ghosts

(* A step of one thread to a place its kind of thread can be at. *)
MayBeAt(t, l) ==
    /\ l \in HandlerAt \cup WorkerAt \cup WatcherAt \cup MainAt
    /\ t \in Workers => l \in WorkerAt
    /\ t \in Watchers => l \in WatcherAt
    /\ t \in Mains => l \in MainAt
    /\ t \in Handlers => l \in HandlerAt

LEMMA MoveType ==
    ASSUME ThreadType, NEW t \in Threads, NEW l, NEW k, NEW d, NEW s \in SeenType,
           MayBeAt(t, l), k \in Jobs \/ (k = NoJob /\ l = "idle"),
           d \in Dues, t \in Workers => d \in {"none", "watch", "retry"},
           pc' = [pc EXCEPT ![t] = l], job' = [job EXCEPT ![t] = k],
           due' = [due EXCEPT ![t] = d], seen' = [seen EXCEPT ![t] = s]
    PROVE  ThreadType'
BY ThreadKinds DEF ThreadType, MayBeAt, Dues

LEMMA GotoType ==
    ASSUME ThreadType, NEW t \in Threads, NEW l, MayBeAt(t, l), pc[t] # "idle", Goto(t, l)
    PROVE  ThreadType'
<1>1. /\ job[t] \in Jobs /\ job' = [job EXCEPT ![t] = job[t]]
      /\ due[t] \in Dues /\ (t \in Workers => due[t] \in {"none", "watch", "retry"})
      /\ due' = [due EXCEPT ![t] = due[t]] /\ pc' = [pc EXCEPT ![t] = l]
      /\ seen[t] \in SeenType /\ seen' = [seen EXCEPT ![t] = seen[t]]
  BY DEF Goto, ThreadType, Dues
<1> QED BY <1>1, MoveType

LEMMA LeaveType ==
    ASSUME ThreadType, NEW t \in Threads, NEW l, NEW d, MayBeAt(t, l), pc[t] # "idle",
           d \in Dues, t \in Workers => d \in {"none", "watch", "retry"}, Leave(t, l, d)
    PROVE  ThreadType'
<1>1. /\ job[t] \in Jobs /\ job' = [job EXCEPT ![t] = job[t]]
      /\ pc' = [pc EXCEPT ![t] = l] /\ due' = [due EXCEPT ![t] = d]
      /\ seen[t] \in SeenType /\ seen' = [seen EXCEPT ![t] = seen[t]]
  BY DEF Leave, ThreadType
<1> QED BY <1>1, MoveType

LEMMA NoteType ==
    ASSUME ThreadType, NEW t \in Threads, NEW l, NEW s \in SeenType, MayBeAt(t, l), pc[t] # "idle",
           pc' = [pc EXCEPT ![t] = l], seen' = [seen EXCEPT ![t] = s], UNCHANGED <<job, due>>
    PROVE  ThreadType'
<1>1. /\ job[t] \in Jobs /\ job' = [job EXCEPT ![t] = job[t]]
      /\ due[t] \in Dues /\ (t \in Workers => due[t] \in {"none", "watch", "retry"})
      /\ due' = [due EXCEPT ![t] = due[t]]
  BY DEF ThreadType, Dues
<1> QED BY <1>1, MoveType

LEMMA BeginType ==
    ASSUME ThreadType, NEW t \in Threads, NEW l, NEW j \in Jobs, MayBeAt(t, l), Begin(t, l, j)
    PROVE  ThreadType'
<1>1. /\ pc' = [pc EXCEPT ![t] = l] /\ job' = [job EXCEPT ![t] = j]
      /\ due[t] \in Dues /\ (t \in Workers => due[t] \in {"none", "watch", "retry"})
      /\ due' = [due EXCEPT ![t] = due[t]]
      /\ seen[t] \in SeenType /\ seen' = [seen EXCEPT ![t] = seen[t]]
  BY DEF Begin, ThreadType, Dues
<1> QED BY <1>1, MoveType

LEMMA ReturnType ==
    ASSUME ThreadType, NEW t \in Threads, Return(t) PROVE ThreadType'
<1>1. MayBeAt(t, "idle")
  BY DEF MayBeAt, HandlerAt, WorkerAt, WatcherAt, MainAt
<1> QED BY <1>1, MoveType, NoPubType DEF Return, Dues

(* A record may be rewritten, field by field. *)
LEMMA SaveType ==
    ASSUME StoreType, NEW j \in Jobs, NEW r \in RecType, Save(j, r), UNCHANGED <<dataset, lease>>
    PROVE  StoreType'
BY DEF StoreType, Save, dataset

LEMMA WithoutType == ASSUME NEW q \in Seq(Jobs), NEW j \in Jobs PROVE Without(q, j) \in Seq(Jobs)
<1> DEFINE at == {i \in DOMAIN q : q[i] = j}
<1>1. CASE at = {}
  BY <1>1 DEF Without
<1>2. CASE at # {}
  <2>1. Len(q) \in Nat \ {0}
    BY <1>2
  <2>2. \A i \in 1..(Len(q) - 1) : q[i] \in Jobs /\ q[i + 1] \in Jobs
    OBVIOUS
  <2>3. [i \in 1..(Len(q) - 1) |-> IF \E k \in at : k <= i THEN q[i + 1] ELSE q[i]]
            \in [1..(Len(q) - 1) -> Jobs]
    BY <2>2
  <2>4. Len(q) - 1 \in Nat
    BY <2>1
  <2>5. [1..(Len(q) - 1) -> Jobs] \subseteq Seq(Jobs)
    BY <2>4
  <2> QED BY <1>2, <2>3, <2>5 DEF Without
<1> QED BY <1>1, <1>2

LEMMA EnqueueType ==
    ASSUME ServiceType, NEW p \in Procs, NEW j \in Jobs, Enqueue(p, j),
           timers' \in [Procs -> SUBSET Jobs], firing' \in [Procs -> SUBSET Jobs], UNCHANGED life
    PROVE  ServiceType'
<1>1. CASE UNCHANGED <<queue, registered>>
  BY <1>1 DEF Enqueue, ServiceType, life
<1>2. CASE /\ queue' = [queue EXCEPT ![p] = Append(queue[p], j)]
           /\ registered' = [registered EXCEPT ![p] = registered[p] \cup {j}]
  <2>1. Append(queue[p], j) \in Seq(Jobs)
    BY DEF ServiceType
  <2>2. registered[p] \cup {j} \in SUBSET Jobs
    BY DEF ServiceType
  <2> QED BY <1>2, <2>1, <2>2 DEF Enqueue, ServiceType, life
<1> QED BY <1>1, <1>2 DEF Enqueue

-----------------------------------------------------------------------------
(* Handlers keep the types. *)
LEMMA HandlerType ==
    ASSUME TypeOK, NEW h \in Handlers, HandlerStep(h)
    PROVE  TypeOK'
<1> h \in Threads /\ Home[h] \in Procs /\ (pc[h] # "idle" => job[h] \in Jobs)
  BY ThreadKinds DEF TypeOK, ThreadType
<1>a. \A l \in HandlerAt : MayBeAt(h, l)
  BY ThreadKinds DEF MayBeAt
<1> USE DEF TypeOK
<1>1. CASE Claim(h)
  <2>1. StoreType'
    <3>1. job[h] \in Jobs /\ rec[job[h]] \in RecType
      BY <1>1 DEF Claim, At, StoreType
    <3>2. [rec[job[h]] EXCEPT !.status = "queued"] \in RecType
      BY <3>1 DEF RecType, Active, Ended
    <3> QED BY <1>1, <3>1, <3>2, SaveType, StoreFrame DEF Claim
  <2>2. ThreadType'
    BY <1>1, <1>a, GotoType, ReturnType DEF Claim, At, HandlerAt
  <2>3. GhostType'
    BY <1>1 DEF Claim, GhostType, At
  <2> QED BY <1>1, <2>1, <2>2, <2>3, ServiceFrame DEF Claim
<1>2. CASE StartWrite(h)
  <2>1. StoreType'
    <3>1. job[h] \in Jobs /\ rec[job[h]] \in RecType
      BY <1>2 DEF StartWrite, At, StoreType
    <3>2. [rec[job[h]] EXCEPT !.status = "queued", !.attempt = 0, !.waiting = FALSE, !.cancel = FALSE] \in RecType
      BY <3>1 DEF RecType, Active, Ended
    <3> QED BY <1>2, <3>1, <3>2, SaveType DEF StartWrite
  <2>2. ThreadType'
    BY <1>2, <1>a, GotoType DEF StartWrite, At, HandlerAt
  <2>3. GhostType'
    BY <1>2 DEF StartWrite, GhostType, At
  <2> QED BY <1>2, <2>1, <2>2, <2>3, ServiceFrame DEF StartWrite
<1>3. CASE EnqueueRequested(h)
  <2>1. ServiceType'
    BY <1>3, EnqueueType DEF EnqueueRequested, ServiceType
  <2> QED BY <1>3, <2>1, ReturnType, StoreFrame, GhostFrame DEF EnqueueRequested
<1>4. CASE CancelWrite(h)
  <2>1. StoreType'
    <3>1. job[h] \in Jobs /\ rec[job[h]] \in RecType
      BY <1>4 DEF CancelWrite, At, StoreType
    <3>2. /\ [rec[job[h]] EXCEPT !.status = "canceled"] \in RecType
          /\ [rec[job[h]] EXCEPT !.cancel = TRUE] \in RecType
      BY <3>1 DEF RecType, Active, Ended
    <3> QED BY <1>4, <3>1, <3>2, SaveType, StoreFrame DEF CancelWrite
  <2> QED BY <1>4, <2>1, ReturnType, ServiceFrame, GhostFrame DEF CancelWrite
<1> QED BY <1>1, <1>2, <1>3, <1>4 DEF HandlerStep

(* Requests keep the types. *)
LEMMA RequestType == ASSUME TypeOK, Request PROVE TypeOK'
<1>0. PICK h \in Handlers, j \in Jobs :
          CreateJob(h, j) \/ CreateTriggered(h, j) \/ StartRead(h, j) \/ CancelWaiting(h, j)
  BY DEF Request
<1> h \in Threads /\ Home[h] \in Procs
  BY ThreadKinds
<1>a. \A l \in HandlerAt : MayBeAt(h, l)
  BY ThreadKinds DEF MayBeAt
<1> USE DEF TypeOK
<1>1. CASE CreateJob(h, j)
  <2>1. StoreType'
    <3>1. [rec[j] EXCEPT !.status = "created"] \in RecType
      BY DEF StoreType, RecType
    <3> QED BY <1>1, <3>1, SaveType DEF CreateJob
  <2> QED BY <1>1, <2>1, ServiceFrame, ThreadFrame, GhostFrame DEF CreateJob
<1>2. CASE CreateTriggered(h, j)
  <2>1. StoreType'
    <3>1. [rec[j] EXCEPT !.status = "created"] \in RecType
      BY DEF StoreType, RecType
    <3> QED BY <1>2, <3>1, SaveType, StoreFrame DEF CreateTriggered
  <2>2. ThreadType'
    BY <1>2, <1>a, BeginType DEF CreateTriggered, HandlerAt
  <2> QED BY <1>2, <2>1, <2>2, ServiceFrame, GhostFrame DEF CreateTriggered
<1>3. CASE StartRead(h, j)
  <2>1. ThreadType'
    BY <1>3, <1>a, BeginType DEF StartRead, HandlerAt
  <2> QED BY <1>3, <2>1, StoreFrame, ServiceFrame, GhostFrame DEF StartRead
<1>4. CASE CancelWaiting(h, j)
  <2>1. PICK d \in {"none", "before"} : due' = [due EXCEPT ![h] = d]
    BY <1>4 DEF CancelWaiting
  <2>2. seen[h] \in SeenType /\ seen' = [seen EXCEPT ![h] = seen[h]]
    BY <1>4 DEF CancelWaiting, ThreadType
  <2>3. ThreadType'
    BY <1>4, <1>a, <2>1, <2>2, MoveType, ThreadKinds DEF CancelWaiting, HandlerAt, Dues
  <2>4. Without(queue[Home[h]], j) \in Seq(Jobs)
    BY WithoutType DEF ServiceType
  <2>5. ServiceType'
    <3>1. registered' \in [Procs -> SUBSET Jobs]
      <4>1. PICK R \in SUBSET Jobs : registered' = [registered EXCEPT ![Home[h]] = R]
        BY <1>4 DEF CancelWaiting, ServiceType
      <4> QED BY <4>1 DEF ServiceType
    <3>2. queue' \in [Procs -> Seq(Jobs)]
      BY <1>4, <2>4 DEF CancelWaiting, ServiceType
    <3>3. timers' \in [Procs -> SUBSET Jobs]
      BY <1>4 DEF CancelWaiting, ServiceType
    <3> QED BY <1>4, <3>1, <3>2, <3>3 DEF CancelWaiting, ServiceType, life
  <2> QED BY <1>4, <2>3, <2>5, StoreFrame, GhostFrame DEF CancelWaiting
<1> QED BY <1>0, <1>1, <1>2, <1>3, <1>4

(* A watcher may be started by a worker or by the main thread. *)
LEMMA StartWatcherType ==
    ASSUME TypeOK, NEW t \in Workers \cup Mains, StartWatcher(t)
    PROVE  TypeOK'
<1> t \in Threads /\ Home[t] \in Procs /\ t \notin Watchers
  BY ThreadKinds
<1> job[t] \in Jobs
  BY DEF StartWatcher, At, TypeOK, ThreadType
<1> USE DEF TypeOK
<1>1. CASE UNCHANGED watched /\ Return(t)
  <2>1. ServiceType'
    BY <1>1 DEF StartWatcher, ServiceType, life
  <2> QED BY <1>1, <2>1, ReturnType, StoreFrame, GhostFrame DEF StartWatcher
<1>2. CASE \E w \in Watchers :
              /\ Home[w] = Home[t] /\ At(w, "idle")
              /\ watched' = [watched EXCEPT ![Home[t]] = @ \cup {job[t]}]
              /\ pc' = [pc EXCEPT ![w] = "watching", ![t] = "idle"]
              /\ job' = [job EXCEPT ![w] = job[t], ![t] = NoJob]
              /\ due' = [due EXCEPT ![t] = "none"]
              /\ seen' = [seen EXCEPT ![t] = NoSeen]
  <2>1. ServiceType'
    BY <1>2 DEF StartWatcher, ServiceType, life
  <2>2. ThreadType'
    <3>1. PICK w \in Watchers :
              /\ pc' = [pc EXCEPT ![w] = "watching", ![t] = "idle"]
              /\ job' = [job EXCEPT ![w] = job[t], ![t] = NoJob]
              /\ due' = [due EXCEPT ![t] = "none"]
              /\ seen' = [seen EXCEPT ![t] = NoSeen]
      BY <1>2
    <3>2. w \in Threads /\ w \notin Workers /\ w \notin Mains /\ w \notin Handlers
      BY ThreadKinds
    <3> QED BY <3>1, <3>2, ThreadKinds, NoPubType DEF ThreadType, WatcherAt, WorkerAt, MainAt, HandlerAt
  <2> QED BY <1>2, <2>1, <2>2, StoreFrame, GhostFrame DEF StartWatcher
<1> QED BY <1>1, <1>2 DEF StartWatcher

(* A nonempty set of natural numbers has a least element. *)
LEMMA LeastNatural ==
    ASSUME NEW S, S \subseteq Nat, S # {} PROVE \E d \in S : \A e \in S : d <= e
<1>1. PICK R : R = {ss \in Nat \X Nat : ss[1] < ss[2]}
  OBVIOUS
<1>2. IsWellFoundedOn(R, Nat)
  BY <1>1, NatLessThanWellFounded DEF OpToRel
<1>3. PICK d \in S : \A e \in S : ~ (<<e, d>> \in R)
  BY <1>2, WFMin
<1>4. ASSUME NEW e \in S PROVE d <= e
  <2>1. d \in Nat /\ e \in Nat
    OBVIOUS
  <2>2. e < d => <<e, d>> \in R
    BY <1>1, <2>1
  <2> QED BY <1>3, <2>1, <2>2
<1> QED BY <1>3, <1>4

(* committed_snapshot returns a commit above the base, of this job and     *)
(* with its tag, or 0 when there is none; there is a newest one, since     *)
(* the commits are numbered.                                               *)
OwnCommits(j) == {i \in DOMAIN history : i > rec[j].pub.base /\ history[i] = [job |-> j, tag |-> rec[j].pub.tag]}

LEMMA NewestCommit ==
    ASSUME StoreType, NEW j \in Jobs
    PROVE  /\ CommittedSnapshot(j) = 0 => OwnCommits(j) = {}
           /\ CommittedSnapshot(j) # 0 => CommittedSnapshot(j) \in OwnCommits(j)
           /\ CommittedSnapshot(j) \in Nat
<1>1. PICK own : own = OwnCommits(j)
  OBVIOUS
<1>2. PICK n : n = Len(history)
  OBVIOUS
<1>3. n \in Nat /\ own \subseteq 1..n
  BY <1>1, <1>2 DEF OwnCommits, StoreType
<1>4. CommittedSnapshot(j) = IF own = {} THEN 0 ELSE CHOOSE i \in own : \A k \in own : k <= i
  BY <1>1 DEF OwnCommits, CommittedSnapshot
<1>5. CASE own = {}
  BY <1>1, <1>4, <1>5
<1>6. CASE own # {}
  <2>1. PICK below : below = {n - i : i \in own}
    OBVIOUS
  <2>2. below \subseteq Nat
    BY <1>3, <2>1
  <2>3. below # {}
    BY <1>6, <2>1
  <2>4. PICK d \in below : \A e \in below : d <= e
    BY <2>2, <2>3, LeastNatural
  <2>5. PICK i \in own : d = n - i
    BY <2>1
  <2>6. \A k \in own : n - i <= n - k
    BY <2>1, <2>4, <2>5
  <2>7. \A k \in own : k <= i
    BY <1>3, <2>6
  <2>8. PICK m \in own : m = CHOOSE l \in own : \A k \in own : k <= l
    BY <2>7
  <2>9. CommittedSnapshot(j) = m
    BY <1>4, <1>6, <2>8
  <2> QED BY <1>1, <1>3, <2>9
<1> QED BY <1>5, <1>6

(* Resolving a publication rewrites the record of its job.                 *)
LEMMA ResolvedType ==
    ASSUME StoreType, NEW j \in Jobs, UNCHANGED <<dataset, lease>>
    PROVE  /\ \A i \in Nat : Complete(j, i) => StoreType'
           /\ ReconcileFinds(j) \/ ReconcileFindsNothing(j) \/ Finish(j) => StoreType'
<1>1. ASSUME NEW i \in Nat, Complete(j, i) PROVE StoreType'
  <2>1. rec[j] \in RecType /\ rec[j].pub \in PubType /\ rec[j].events \in SUBSET Nat
    BY DEF StoreType, RecType
  <2>2. [rec[j].pub EXCEPT !.state = "completed", !.snap = i] \in PubType
    BY <2>1 DEF PubType
  <2>3. [rec[j] EXCEPT !.pub = [rec[j].pub EXCEPT !.state = "completed", !.snap = i],
                       !.events = rec[j].events \cup {i}] \in RecType
    BY <2>1, <2>2 DEF RecType
  <2> QED BY <1>1, <2>3, SaveType DEF Complete
<1>2. ASSUME ReconcileFinds(j) PROVE StoreType'
  BY <1>1, <1>2, NewestCommit DEF ReconcileFinds
<1>3. ASSUME ReconcileFindsNothing(j) PROVE StoreType'
  <2>1. [rec[j] EXCEPT !.pub = NoPub, !.publishing = FALSE] \in RecType
    BY NoPubType DEF StoreType, RecType
  <2> QED BY <1>3, <2>1, SaveType DEF ReconcileFindsNothing
<1>4. ASSUME Finish(j) PROVE StoreType'
  <2>1. /\ [rec[j] EXCEPT !.status = "canceled"] \in RecType
        /\ [rec[j] EXCEPT !.status = "finished", !.publishing = FALSE] \in RecType
    BY DEF StoreType, RecType, Ended
  <2> QED BY <1>4, <2>1, SaveType DEF Finish
<1> QED BY <1>1, <1>2, <1>3, <1>4

(* The dataset's store and its lock. *)
LEMMA DatasetType ==
    ASSUME StoreType, UNCHANGED <<rec, lease, ingests>>, writer' \in Workers \cup {NoThread, Ingest},
           \/ UNCHANGED history
           \/ \E c \in [job : Jobs \cup {NoJob}, tag : Nat] : history' = Append(history, c)
    PROVE  StoreType'
<1>1. CASE UNCHANGED history
  BY <1>1 DEF StoreType
<1>2. CASE \E c \in [job : Jobs \cup {NoJob}, tag : Nat] : history' = Append(history, c)
  <2>1. history' \in Seq([job : Jobs \cup {NoJob}, tag : Nat])
    BY <1>2 DEF StoreType
  <2> QED BY <2>1 DEF StoreType
<1> QED BY <1>1, <1>2

(* Retries, of a worker or of a recovery, keep the types. *)
LEMMA RetryType ==
    ASSUME TypeOK, NEW t \in Workers \cup Watchers \cup Mains, RetryStep(t)
    PROVE  TypeOK'
<1> t \in Threads /\ Home[t] \in Procs /\ (pc[t] # "idle" => job[t] \in Jobs)
  BY ThreadKinds DEF TypeOK, ThreadType
<1>a. \A l \in RetryAt : MayBeAt(t, l)
  BY ThreadKinds DEF MayBeAt, WorkerAt, WatcherAt, MainAt
<1>b. pc[t] # "idle" /\ EndRetry(t) => ThreadType'
  <2>1. t \notin Workers => MayBeAt(t, "recovered")
    BY ThreadKinds DEF MayBeAt, WatcherAt, MainAt, Recovering
  <2> QED BY <2>1, ReturnType, LeaveType DEF EndRetry, TypeOK, Dues
<1> USE DEF TypeOK
<1>1. CASE ScheduleRetry(t)
  <2>1. ThreadType'
    BY <1>1, <1>a, <1>b, GotoType DEF ScheduleRetry, At, RetryAt
  <2>2. ServiceType'
    <3>1. timers' \in [Procs -> SUBSET Jobs]
      BY <1>1 DEF ScheduleRetry, ServiceType, At
    <3> QED BY <1>1, <3>1 DEF ScheduleRetry, ServiceType, life
  <2> QED BY <1>1, <2>1, <2>2, StoreFrame, GhostFrame DEF ScheduleRetry
<1>2. CASE RecheckCancelled(t)
  <2>1. ThreadType'
    BY <1>2, <1>a, <1>b, GotoType DEF RecheckCancelled, At, RetryAt
  <2> QED BY <1>2, <2>1, StoreFrame, ServiceFrame, GhostFrame DEF RecheckCancelled
<1>3. CASE Disarm(t)
  <2>1. ThreadType'
    BY <1>3, <1>a, <1>b, GotoType DEF Disarm, At, RetryAt
  <2>2. ServiceType'
    BY <1>3 DEF Disarm, ServiceType, life
  <2> QED BY <1>3, <2>1, <2>2, StoreFrame, GhostFrame DEF Disarm
<1>4. CASE CancelDisarmed(t)
  <2>1. ThreadType'
    BY <1>4, <1>b DEF CancelDisarmed, At
  <2>2. StoreType'
    <3>1. job[t] \in Jobs /\ rec[job[t]] \in RecType
      BY <1>4 DEF CancelDisarmed, At, StoreType
    <3>2. [rec[job[t]] EXCEPT !.status = "canceled"] \in RecType
      BY <3>1 DEF RecType, Ended
    <3> QED BY <1>4, <3>1, <3>2, SaveType, StoreFrame DEF CancelDisarmed
  <2> QED BY <1>4, <2>1, <2>2, ServiceFrame, GhostFrame DEF CancelDisarmed
<1> QED BY <1>1, <1>2, <1>3, <1>4 DEF RetryStep

(* Pool threads keep the types. *)
LEMMA AttemptType ==
    ASSUME TypeOK, NEW t \in Workers, AttemptStep(t)
    PROVE  TypeOK'
<1> t \in Threads /\ Home[t] \in Procs /\ (pc[t] # "idle" => job[t] \in Jobs)
  BY ThreadKinds DEF TypeOK, ThreadType
<1>0. pc[t] # "idle"
  BY DEF AttemptStep, At, ReadRecord, StartAttempt, ResolvePending, ClearOutput, SavePlain, PlanPublication,
         EnterPublication, Commit, CompletePublication, Raise, NoticeCancel, RecordCancelled, FinishAttempt,
         Notify, CompleteAfterFailure, RecordFailure
<1>j. PICK k \in Jobs : k = job[t]
  BY <1>0
<1>r. rec[k] \in RecType /\ rec[k].pub \in PubType /\ rec[k].attempt \in Nat /\ rec[k].events \in SUBSET Nat
      /\ CommitPending(k) \in BOOLEAN /\ seen[t] \in SeenType
  BY DEF TypeOK, StoreType, RecType, CommitPending, ThreadType
<1>a. \A l \in Attempting \cup {"unlease"} : MayBeAt(t, l) /\ (Goto(t, l) => ThreadType')
  <2>1. \A l \in Attempting \cup {"unlease"} : MayBeAt(t, l)
    BY ThreadKinds DEF MayBeAt, WorkerAt, WorkerLeased
  <2> QED BY <1>0, <2>1, GotoType DEF TypeOK
<1> USE DEF TypeOK
<1>1. CASE ReadRecord(t)
  <2>1. CASE rec[k].cancel
    <3>1. [rec[k] EXCEPT !.status = "canceled"] \in RecType
      BY <1>r DEF RecType, Ended
    <3>2. StoreType'
      BY <1>1, <1>j, <2>1, <3>1, SaveType DEF ReadRecord
    <3> QED BY <1>1, <1>a, <1>j, <2>1, <3>2, ServiceFrame, GhostFrame DEF ReadRecord
  <2>2. CASE ~rec[k].cancel
    <3>1. PICK q \in SeenType : seen' = [seen EXCEPT ![t] = q]
      <4>1. [rerun |-> rec[k].attempt = 0, known |-> rec[k].events, attempt |-> 0] \in SeenType
        BY <1>r DEF SeenType
      <4> QED BY <1>1, <1>j, <2>2, <4>1 DEF ReadRecord
    <3>2. ThreadType'
      BY <1>0, <1>1, <1>j, <1>a, <2>2, <3>1, NoteType DEF ReadRecord, Attempting
    <3> QED BY <1>1, <1>j, <2>2, <3>2, StoreFrame, ServiceFrame, GhostFrame DEF ReadRecord
  <2> QED BY <2>1, <2>2
<1>2. CASE StartAttempt(t)
  <2>1. [rec[k] EXCEPT !.status = "running", !.attempt = rec[k].attempt + 1, !.waiting = FALSE,
                       !.publishing = CommitPending(k),
                       !.pub = IF CommitPending(k) THEN rec[k].pub ELSE NoPub] \in RecType
    <3>1. ASSUME NEW r \in RecType, NEW a \in Nat, NEW b \in BOOLEAN, NEW q \in PubType
          PROVE  [r EXCEPT !.status = "running", !.attempt = a, !.waiting = FALSE,
                           !.publishing = b, !.pub = q] \in RecType
      BY DEF RecType, Active
    <3>2. PICK q \in PubType : q = IF CommitPending(k) THEN rec[k].pub ELSE NoPub
      BY <1>r, NoPubType
    <3>3. PICK a \in Nat : a = rec[k].attempt + 1
      BY <1>r
    <3>4. PICK b \in BOOLEAN : b = CommitPending(k)
      BY <1>r, Zenon
    <3> QED BY <1>r, <3>1, <3>2, <3>3, <3>4
  <2>2. StoreType'
    BY <1>2, <1>j, <2>1, SaveType DEF StartAttempt
  <2>3. PICK q \in SeenType : seen' = [seen EXCEPT ![t] = q]
    <3>1. [seen[t] EXCEPT !.attempt = rec[k].attempt + 1] \in SeenType
      BY <1>r DEF SeenType
    <3> QED BY <1>2, <1>j, <3>1 DEF StartAttempt
  <2>4. PICK l \in {"resolve", "clear"} : pc' = [pc EXCEPT ![t] = l]
    BY <1>2 DEF StartAttempt
  <2>5. MayBeAt(t, l) /\ UNCHANGED <<job, due>>
    BY <1>2, <1>a, <2>4 DEF StartAttempt, Attempting
  <2>6. ThreadType'
    BY <1>0, <2>3, <2>4, <2>5, NoteType
  <2> QED BY <1>2, <2>2, <2>6, ServiceFrame, GhostFrame DEF StartAttempt
<1>3. CASE ResolvePending(t)
  <2>1. StoreType'
    BY <1>3, <1>j, ResolvedType DEF ResolvePending
  <2> QED BY <1>3, <1>a, <2>1, ServiceFrame, GhostFrame DEF ResolvePending, Attempting
<1>4. CASE ClearOutput(t)
  <2>1. [rec[k] EXCEPT !.publishing = FALSE, !.pub = NoPub] \in RecType
    BY <1>r, NoPubType DEF RecType
  <2>2. StoreType'
    BY <1>4, <1>j, <2>1, SaveType DEF ClearOutput
  <2> QED BY <1>4, <1>a, <2>2, ServiceFrame, GhostFrame DEF ClearOutput, Attempting
<1>5. CASE SavePlain(t)
  BY <1>5, <1>a, StoreFrame, ServiceFrame, GhostFrame DEF SavePlain, Attempting
<1>6. CASE PlanPublication(t)
  <2>1. [state |-> "planned", base |-> Len(history), tag |-> rec[k].attempt, snap |-> 0] \in PubType
    BY <1>r DEF PubType, StoreType
  <2>2. [rec[k] EXCEPT !.pub = [state |-> "planned", base |-> Len(history),
                                tag |-> rec[k].attempt, snap |-> 0]] \in RecType
    BY <1>r, <2>1 DEF RecType
  <2>3. StoreType'
    BY <1>6, <1>j, <2>2 DEF PlanPublication, StoreType, Save
  <2> QED BY <1>6, <1>a, <2>3, ServiceFrame, GhostFrame DEF PlanPublication, Attempting
<1>7. CASE EnterPublication(t)
  <2>1. [rec[k].pub EXCEPT !.state = "committing"] \in PubType
    BY <1>r DEF PubType
  <2>2. [rec[k] EXCEPT !.publishing = TRUE, !.pub = [rec[k].pub EXCEPT !.state = "committing"]] \in RecType
    BY <1>r, <2>1 DEF RecType
  <2>3. StoreType'
    BY <1>7, <1>j, <2>2 DEF EnterPublication, StoreType, Save
  <2> QED BY <1>7, <1>a, <2>3, ServiceFrame, GhostFrame DEF EnterPublication, Attempting
<1>8. CASE Commit(t)
  <2>1. [job |-> k, tag |-> rec[k].pub.tag] \in [job : Jobs \cup {NoJob}, tag : Nat]
    BY <1>r DEF PubType
  <2>2. StoreType'
    BY <1>8, <1>j, <2>1, DatasetType DEF Commit, StoreType
  <2> QED BY <1>8, <1>a, <2>2, ServiceFrame, GhostFrame DEF Commit, Attempting
<1>9. CASE CompletePublication(t)
  <2>1. Len(history) \in Nat
    BY DEF StoreType
  <2>2. [rec[k].pub EXCEPT !.state = "completed", !.snap = Len(history)] \in PubType
    BY <1>r, <2>1 DEF PubType
  <2>3. [rec[k] EXCEPT !.pub = [rec[k].pub EXCEPT !.state = "completed", !.snap = Len(history)],
                       !.events = rec[k].events \cup {Len(history)}] \in RecType
    BY <1>r, <2>1, <2>2 DEF RecType
  <2>4. StoreType'
    BY <1>9, <1>j, <2>3 DEF CompletePublication, Complete, StoreType, Save
  <2> QED BY <1>9, <1>a, <2>4, ServiceFrame, GhostFrame DEF CompletePublication, Attempting
<1>10. CASE Raise(t)
  <2>1. StoreType'
    BY <1>10 DEF Raise, StoreType
  <2> QED BY <1>10, <1>a, <2>1, ServiceFrame, GhostFrame DEF Raise, Attempting
<1>11. CASE NoticeCancel(t)
  BY <1>11, <1>a, StoreFrame, ServiceFrame, GhostFrame DEF NoticeCancel, Attempting
<1>12. CASE RecordCancelled(t)
  <2>1. [rec[k] EXCEPT !.status = "canceled", !.publishing = FALSE, !.pub = NoPub] \in RecType
    BY <1>r, NoPubType DEF RecType, Ended
  <2>2. StoreType'
    BY <1>12, <1>j, <2>1, SaveType DEF RecordCancelled
  <2> QED BY <1>12, <1>a, <2>2, ServiceFrame, GhostFrame DEF RecordCancelled
<1>13. CASE FinishAttempt(t)
  <2>1. StoreType'
    BY <1>13, <1>j, ResolvedType DEF FinishAttempt
  <2> QED BY <1>13, <1>a, <2>1, ServiceFrame, GhostFrame DEF FinishAttempt, Attempting
<1>14. CASE Notify(t)
  <2>1. GhostType'
    BY <1>14, <1>j, <1>r DEF Notify, Dispatch, GhostType
  <2> QED BY <1>14, <1>a, <2>1, StoreFrame, ServiceFrame DEF Notify
<1>15. CASE CompleteAfterFailure(t)
  <2>1. StoreType'
    BY <1>15, <1>j, ResolvedType, StoreFrame DEF CompleteAfterFailure
  <2> QED BY <1>15, <1>a, <2>1, ServiceFrame, GhostFrame DEF CompleteAfterFailure, Attempting
<1>16. CASE RecordFailure(t)
  <2>1. /\ [rec[k] EXCEPT !.status = "canceled"] \in RecType
        /\ [rec[k] EXCEPT !.status = "queued", !.waiting = TRUE, !.publishing = CommitPending(k)] \in RecType
        /\ [rec[k] EXCEPT !.status = "error", !.publishing = CommitPending(k)] \in RecType
    BY <1>r DEF RecType, Active, Ended
  <2>2. StoreType'
    BY <1>16, <1>j, <2>1, SaveType DEF RecordFailure
  <2>3. ThreadType'
    BY <1>0, <1>16, <1>a, LeaveType DEF RecordFailure, Dues
  <2> QED BY <1>16, <2>2, <2>3, ServiceFrame, GhostFrame DEF RecordFailure
<1> QED BY <1>1, <1>2, <1>3, <1>4, <1>5, <1>6, <1>7, <1>8, <1>9, <1>10, <1>11, <1>12, <1>13, <1>14, <1>15, <1>16
        DEF AttemptStep

LEMMA WorkerType ==
    ASSUME TypeOK, NEW t \in Workers, WorkerStep(t)
    PROVE  TypeOK'
<1> t \in Threads /\ Home[t] \in Procs /\ (pc[t] # "idle" => job[t] \in Jobs)
  BY ThreadKinds DEF TypeOK, ThreadType
<1>a. \A l \in WorkerAt : MayBeAt(t, l)
  BY ThreadKinds DEF MayBeAt
<1> USE DEF TypeOK
<1>1. CASE PickUp(t)
  <2>1. queue[Home[t]] \in Seq(Jobs) /\ queue[Home[t]] # <<>>
    BY <1>1 DEF PickUp, ServiceType
  <2>2. Tail(queue[Home[t]]) \in Seq(Jobs) /\ Head(queue[Home[t]]) \in Jobs
    BY <2>1
  <2>3. ServiceType'
    BY <1>1, <2>2 DEF PickUp, ServiceType, life
  <2>4. ThreadType'
    BY <1>1, <1>a, <2>2, BeginType DEF PickUp, WorkerAt
  <2> QED BY <1>1, <2>3, <2>4, StoreFrame, GhostFrame DEF PickUp
<1>2. CASE TryLease(t)
  <2>1. StoreType'
    <3>1. lease' = lease \/ lease' = [lease EXCEPT ![job[t]] = t]
      BY <1>2 DEF TryLease
    <3> QED BY <1>2, <3>1 DEF TryLease, StoreType, dataset
  <2>2. ThreadType'
    BY <1>2, <1>a, GotoType, LeaveType DEF TryLease, At, WorkerAt, WorkerLeased, Dues
  <2> QED BY <1>2, <2>1, <2>2, ServiceFrame, GhostFrame DEF TryLease
<1>3. CASE ReadUnderLease(t)
  <2>1. ThreadType'
    BY <1>3, <1>a, GotoType, LeaveType DEF ReadUnderLease, At, WorkerAt, WorkerLeased, Dues
  <2> QED BY <1>3, <2>1, StoreFrame, ServiceFrame, GhostFrame DEF ReadUnderLease
<1>4. CASE WaitForSlot(t)
  <2>1. ThreadType'
    BY <1>4, <1>a, GotoType DEF WaitForSlot, At, WorkerAt, WorkerLeased
  <2> QED BY <1>4, <2>1, StoreFrame, ServiceFrame, GhostFrame DEF WaitForSlot
<1>5. CASE AttemptStep(t)
  BY <1>5, AttemptType
<1>6. CASE ReleaseLease(t)
  <2>1. ThreadType'
    BY <1>6, <1>a, GotoType DEF ReleaseLease, At, WorkerAt
  <2>2. StoreType'
    BY <1>6 DEF ReleaseLease, StoreType, dataset
  <2> QED BY <1>6, <2>1, <2>2, ServiceFrame, GhostFrame DEF ReleaseLease
<1>7. CASE PopFuture(t)
  <2>1. due[t] # "none" => due[t] \in {"watch", "retry"}
    BY DEF ThreadType
  <2>2. ThreadType'
    BY <1>7, <1>a, <2>1, ReturnType, LeaveType DEF PopFuture, At, WorkerAt, RetryAt, Dues
  <2>3. ServiceType'
    BY <1>7 DEF PopFuture, ServiceType, life
  <2> QED BY <1>7, <2>2, <2>3, StoreFrame, GhostFrame DEF PopFuture
<1>8. CASE RetryStep(t)
  BY <1>8, RetryType
<1>9. CASE StartWatcher(t)
  BY <1>9, StartWatcherType
<1> QED BY <1>1, <1>2, <1>3, <1>4, <1>5, <1>6, <1>7, <1>8, <1>9 DEF WorkerStep

(* The saves of a recovery keep the store's type. *)
LEMMA RecoveredStoreType ==
    ASSUME TypeOK, NEW t \in Watchers \cup Mains, job[t] \in Jobs,
           \/ Recover(t) \/ RecoverCommitting(t) \/ RecoverUnpublished(t) \/ RecoverCompleted(t)
           \/ RecoverFailed(t) \/ FinishFailed(t)
    PROVE  StoreType'
<1>j. PICK k \in Jobs : k = job[t]
  OBVIOUS
<1> USE DEF TypeOK
<1>s. StoreType /\ UNCHANGED <<dataset, lease>>
  BY DEF Recover, RecoverCommitting, RecoverUnpublished, RecoverCompleted, RecoverFailed, FinishFailed
<1>r. rec[k] \in RecType
  BY DEF StoreType
<1>1. CASE Recover(t)
  <2>1. /\ [rec[k] EXCEPT !.status = "canceled"] \in RecType
        /\ [rec[k] EXCEPT !.status = "queued", !.publishing = FALSE] \in RecType
        /\ [rec[k] EXCEPT !.status = "error", !.publishing = FALSE] \in RecType
    BY <1>r DEF RecType, Active, Ended
  <2>2. \/ UNCHANGED rec
        \/ Save(k, [rec[k] EXCEPT !.status = "canceled"])
        \/ Save(k, [rec[k] EXCEPT !.status = "queued", !.publishing = FALSE])
        \/ Save(k, [rec[k] EXCEPT !.status = "error", !.publishing = FALSE])
    BY <1>1, <1>j DEF Recover
  <2> QED BY <1>s, <2>1, <2>2, SaveType, StoreFrame
<1>2. CASE RecoverCommitting(t)
  BY <1>2, <1>j, <1>s, ResolvedType DEF RecoverCommitting
<1>3. CASE RecoverUnpublished(t)
  <2>1. /\ [rec[k] EXCEPT !.pub = NoPub, !.publishing = FALSE] \in RecType
        /\ [rec[k] EXCEPT !.pub = NoPub, !.publishing = FALSE, !.status = "queued"] \in RecType
    BY <1>r, NoPubType DEF RecType, Active
  <2> QED BY <1>3, <1>j, <1>s, <2>1, SaveType DEF RecoverUnpublished
<1>4. CASE RecoverCompleted(t)
  BY <1>4, <1>j, <1>s, ResolvedType DEF RecoverCompleted
<1>5. CASE RecoverFailed(t)
  BY <1>5, <1>j, <1>s, ResolvedType, StoreFrame DEF RecoverFailed
<1>6. CASE FinishFailed(t)
  BY <1>6, <1>j, <1>s, ResolvedType DEF FinishFailed
<1> QED BY <1>1, <1>2, <1>3, <1>4, <1>5, <1>6

(* Recovery, by the main thread or a watcher, keeps the types. *)
LEMMA RecoveryType ==
    ASSUME TypeOK, NEW t \in Watchers \cup Mains, RecoveryStep(t)
    PROVE  TypeOK'
<1> t \in Threads /\ Home[t] \in Procs /\ (pc[t] # "idle" => job[t] \in Jobs) /\ t \notin Workers
  BY ThreadKinds DEF TypeOK, ThreadType
<1>0. pc[t] # "idle"
  BY DEF RecoveryStep, At, Reconciles, Recover, RecoverCommitting, RecoverFailed, DeferRecovery, RecoverUnpublished,
         RecoverCompleted, FinishFailed, Announce, ReleaseRecovered, EnqueueRecovered, RetryStep, ScheduleRetry,
         RecheckCancelled, Disarm, CancelDisarmed
<1>j. job[t] \in Jobs
  BY <1>0
<1>a. \A l \in Recovering \cup RetryAt \cup {"idle", "announce", "requeue"} : MayBeAt(t, l)
  BY ThreadKinds DEF MayBeAt, WatcherAt, MainAt
<1>b. t \in Watchers => \A l \in WatcherAt : MayBeAt(t, l)
  BY ThreadKinds DEF MayBeAt
<1>c. t \notin Watchers => \A l \in MainAt : MayBeAt(t, l)
  BY ThreadKinds DEF MayBeAt
<1> USE DEF TypeOK
<1>1. CASE Recover(t)
  <2>1. PICK l \in {"recovered", "retry"}, d \in {"none", "requeue"} : Leave(t, l, d)
    BY <1>1 DEF Recover
  <2>2. ThreadType'
    BY <1>0, <1>a, <2>1, LeaveType DEF Recovering, RetryAt, Dues
  <2> QED BY <1>1, <1>j, <2>2, RecoveredStoreType, ServiceFrame, GhostFrame DEF Recover
<1>2. CASE RecoverCommitting(t)
  <2>1. ThreadType'
    BY <1>0, <1>2, <1>a, GotoType DEF RecoverCommitting, Recovering
  <2> QED BY <1>2, <1>j, <2>1, RecoveredStoreType, ServiceFrame, GhostFrame DEF RecoverCommitting
<1>3. CASE RecoverFailed(t)
  <2>1. ThreadType'
    BY <1>0, <1>3, <1>a, GotoType, LeaveType DEF RecoverFailed, Recovering, Dues
  <2> QED BY <1>3, <1>j, <2>1, RecoveredStoreType, ServiceFrame, GhostFrame DEF RecoverFailed
<1>4. CASE DeferRecovery(t)
  <2>1. PICK l : l = IF t \in Watchers THEN "watching" ELSE "watch"
    OBVIOUS
  <2>2. MayBeAt(t, l) /\ Leave(t, l, "none")
    BY <1>4, <1>b, <1>c, <2>1 DEF DeferRecovery, WatcherAt, MainAt
  <2>3. ThreadType'
    BY <1>0, <2>2, LeaveType DEF Dues
  <2>4. StoreType'
    BY <1>4 DEF DeferRecovery, StoreType, dataset
  <2> QED BY <1>4, <2>3, <2>4, ServiceFrame, GhostFrame DEF DeferRecovery
<1>5. CASE RecoverUnpublished(t)
  <2>1. PICK l \in {"recovered", "recover"}, d \in {"none", "requeue"} : Leave(t, l, d)
    BY <1>5 DEF RecoverUnpublished
  <2>2. ThreadType'
    BY <1>0, <1>a, <2>1, LeaveType DEF Recovering, Dues
  <2> QED BY <1>5, <1>j, <2>2, RecoveredStoreType, ServiceFrame, GhostFrame DEF RecoverUnpublished
<1>6. CASE RecoverCompleted(t)
  <2>1. PICK l \in {"recovered", "announce"} : Leave(t, l, "none")
    BY <1>6 DEF RecoverCompleted
  <2>2. ThreadType'
    BY <1>0, <1>a, <2>1, LeaveType DEF Recovering, Dues
  <2> QED BY <1>6, <1>j, <2>2, RecoveredStoreType, ServiceFrame, GhostFrame DEF RecoverCompleted
<1>7. CASE FinishFailed(t)
  <2>1. ThreadType'
    BY <1>0, <1>7, <1>a, LeaveType DEF FinishFailed, Recovering, Dues
  <2> QED BY <1>7, <1>j, <2>1, RecoveredStoreType, ServiceFrame, GhostFrame DEF FinishFailed
<1>8. CASE Announce(t)
  <2>1. ThreadType'
    BY <1>0, <1>8, <1>a, <1>b, LeaveType, ReturnType DEF Announce, Recovering, WatcherAt, Dues
  <2>2. GhostType'
    <3>1. PICK k \in Jobs : k = job[t]
      BY <1>j
    <3>2. rec[k].events \in SUBSET Nat
      BY DEF StoreType, RecType
    <3> QED BY <1>8, <3>1, <3>2 DEF Announce, Dispatch, GhostType
  <2> QED BY <1>8, <2>1, <2>2, StoreFrame, ServiceFrame DEF Announce
<1>9. CASE ReleaseRecovered(t)
  <2>1. ThreadType'
    <3>1. CASE due[t] = "announce"
      BY <1>0, <1>9, <1>a, <3>1, LeaveType DEF ReleaseRecovered, Dues
    <3>2. CASE due[t] # "announce" /\ t \in Watchers
      <4>1. PICK l \in {"discard", "leaving"} : Leave(t, l, "none")
        BY <1>9, <3>2 DEF ReleaseRecovered
      <4> QED BY <1>0, <1>b, <3>2, <4>1, LeaveType DEF WatcherAt, Dues
    <3>3. CASE due[t] # "announce" /\ t \notin Watchers
      BY <1>0, <1>9, <1>a, <3>3, LeaveType, ReturnType DEF ReleaseRecovered, Dues
    <3> QED BY <3>1, <3>2, <3>3
  <2>2. StoreType'
    BY <1>9 DEF ReleaseRecovered, StoreType, dataset
  <2> QED BY <1>9, <2>1, <2>2, ServiceFrame, GhostFrame DEF ReleaseRecovered
<1>10. CASE EnqueueRecovered(t)
  <2>1. ThreadType'
    BY <1>0, <1>10, <1>b, ReturnType, GotoType DEF EnqueueRecovered, WatcherAt
  <2>2. ServiceType'
    BY <1>10, <1>j, EnqueueType DEF EnqueueRecovered, ServiceType
  <2> QED BY <1>10, <2>1, <2>2, StoreFrame, GhostFrame DEF EnqueueRecovered
<1>11. CASE RetryStep(t)
  BY <1>11, RetryType
<1> QED BY <1>1, <1>2, <1>3, <1>4, <1>5, <1>6, <1>7, <1>8, <1>9, <1>10, <1>11 DEF RecoveryStep, Reconciles

(* Watchers keep the types. *)
LEMMA WatcherType ==
    ASSUME TypeOK, NEW w \in Watchers, WatcherStep(w)
    PROVE  TypeOK'
<1> w \in Threads /\ Home[w] \in Procs /\ (pc[w] # "idle" => job[w] \in Jobs)
  BY ThreadKinds DEF TypeOK, ThreadType
<1>a. \A l \in WatcherAt : MayBeAt(w, l)
  BY ThreadKinds DEF MayBeAt
<1> USE DEF TypeOK
<1>1. CASE WatcherLease(w)
  <2>1. ThreadType'
    BY <1>1, <1>a, GotoType DEF WatcherLease, At, WatcherAt, Recovering
  <2>2. StoreType'
    BY <1>1 DEF WatcherLease, StoreType, dataset
  <2> QED BY <1>1, <2>1, <2>2, ServiceFrame, GhostFrame DEF WatcherLease
<1>2. CASE WatcherStops(w)
  <2>1. ThreadType'
    BY <1>2, <1>a, GotoType DEF WatcherStops, At, WatcherAt
  <2> QED BY <1>2, <2>1, StoreFrame, ServiceFrame, GhostFrame DEF WatcherStops
<1>3. CASE RecoveryStep(w)
  BY <1>3, RecoveryType
<1>4. CASE WatcherDiscards(w)
  <2>1. ThreadType'
    BY <1>4, <1>a, GotoType DEF WatcherDiscards, At, WatcherAt
  <2>2. ServiceType'
    BY <1>4 DEF WatcherDiscards, ServiceType, life
  <2> QED BY <1>4, <2>1, <2>2, StoreFrame, GhostFrame DEF WatcherDiscards
<1>5. CASE WatcherLeaves(w)
  <2>1. ServiceType'
    BY <1>5 DEF WatcherLeaves, ServiceType, life
  <2> QED BY <1>5, <2>1, ReturnType, StoreFrame, GhostFrame DEF WatcherLeaves
<1> QED BY <1>1, <1>2, <1>3, <1>4, <1>5 DEF WatcherStep

(* The main thread keeps the types. *)
LEMMA MainType ==
    ASSUME TypeOK, NEW m \in Mains, MainStep(m)
    PROVE  TypeOK'
<1> m \in Threads /\ Home[m] \in Procs
  BY ThreadKinds
<1>a. \A l \in MainAt : MayBeAt(m, l)
  BY ThreadKinds DEF MayBeAt
<1> USE DEF TypeOK
<1>1. CASE \E j \in Jobs : RecoverNext(m, j)
  <2>1. PICK j \in Jobs : RecoverNext(m, j)
    BY <1>1
  <2>2. PICK l \in {"recover", "recoverFailed", "watch"} : Begin(m, l, j)
    BY <2>1 DEF RecoverNext
  <2>3. ThreadType'
    BY <1>a, <2>2, BeginType DEF MainAt, Recovering
  <2>4. StoreType'
    <3>1. lease' = lease \/ lease' = [lease EXCEPT ![j] = m]
      BY <2>1 DEF RecoverNext
    <3> QED BY <2>1, <3>1 DEF RecoverNext, StoreType, dataset
  <2>5. ServiceType'
    BY <2>1 DEF RecoverNext, ServiceType, service
  <2> QED BY <2>1, <2>3, <2>4, <2>5, GhostFrame DEF RecoverNext
<1>2. CASE \E j \in Jobs : ReplayClaim(m, j)
  <2>1. PICK j \in Jobs : ReplayClaim(m, j)
    BY <1>2
  <2>2. ThreadType'
    BY <1>a, <2>1, BeginType DEF ReplayClaim, MainAt
  <2>3. [rec[j] EXCEPT !.status = "queued"] \in RecType
    BY DEF StoreType, RecType, Active
  <2>4. StoreType'
    BY <2>1, <2>3, SaveType DEF ReplayClaim
  <2>5. GhostType'
    BY <2>1 DEF ReplayClaim, GhostType
  <2> QED BY <2>1, <2>2, <2>4, <2>5, ServiceFrame DEF ReplayClaim
<1>3. CASE RecoveryStep(m)
  BY <1>3, RecoveryType
<1>4. CASE StartWatcher(m)
  BY <1>4, StartWatcherType
<1>5. CASE BeginReconciling(m)
  <2>1. ServiceType'
    BY <1>5 DEF BeginReconciling, ServiceType, service, Modes
  <2> QED BY <1>5, <2>1, StoreFrame, ThreadFrame, GhostFrame DEF BeginReconciling
<1>6. CASE BeginReplay(m)
  <2>1. ServiceType'
    BY <1>6 DEF BeginReplay, ServiceType, service, Modes
  <2> QED BY <1>6, <2>1, StoreFrame, ThreadFrame, GhostFrame DEF BeginReplay
<1>7. CASE Replay(m)
  <2>1. ServiceType'
    BY <1>7 DEF Replay, ServiceType, service, Modes
  <2>2. \A j \in Jobs : rec[j].events \in SUBSET Nat
    BY DEF StoreType, RecType
  <2>3. GhostType'
    BY <1>7, <2>2 DEF Replay, GhostType
  <2> QED BY <1>7, <2>1, <2>3, StoreFrame, ThreadFrame DEF Replay
<1> QED BY <1>1, <1>2, <1>3, <1>4, <1>5, <1>6, <1>7 DEF MainStep

(* What a dead process leaves behind has its type. *)
LEMMA DieType ==
    ASSUME TypeOK, NEW p \in Procs, Die(p) PROVE TypeOK'
<1> USE DEF TypeOK
<1>1. StoreType'
  BY DEF Die, StoreType
<1>2. ServiceType'
  <2>1. <<>> \in Seq(Jobs)
    OBVIOUS
  <2> QED BY <2>1 DEF Die, ServiceType, Modes
<1>3. ThreadType'
  BY ThreadKinds, NoPubType DEF Die, ThreadType, WatcherAt, WorkerAt, MainAt, HandlerAt
<1>4. GhostType'
  BY GhostFrame DEF Die
<1> QED BY <1>1, <1>2, <1>3, <1>4

(* Process steps keep the types. *)
LEMMA ProcessType ==
    ASSUME TypeOK, NEW p \in Procs, ProcessStep(p)
    PROVE  TypeOK'
<1> USE DEF TypeOK
<1>1. CASE StartProcess(p)
  <2>1. ServiceType'
    BY <1>1 DEF StartProcess, ServiceType, service, Modes
  <2> QED BY <1>1, <2>1, StoreFrame, ThreadFrame, GhostFrame DEF StartProcess
<1>2. CASE Shutdown(p)
  <2>1. ServiceType'
    BY <1>2 DEF Shutdown, ServiceType, Modes
  <2> QED BY <1>2, <2>1, StoreFrame, ThreadFrame, GhostFrame DEF Shutdown
<1>3. CASE CloseExecutor(p)
  <2>1. <<>> \in Seq(Jobs) /\ {j \in registered[p] : ~Queued(p, j)} \in SUBSET Jobs
    BY DEF ServiceType
  <2>2. ServiceType'
    BY <1>3, <2>1 DEF CloseExecutor, ServiceType, Modes
  <2> QED BY <1>3, <2>2, StoreFrame, ThreadFrame, GhostFrame DEF CloseExecutor
<1>4. CASE Exit(p) \/ Crash(p)
  BY <1>4, DieType DEF Exit, Crash
<1> QED BY <1>1, <1>2, <1>3, <1>4 DEF ProcessStep

(* Timers keep the types. *)
LEMMA TimerType ==
    ASSUME TypeOK, NEW p \in Procs, NEW j \in Jobs, TimerStep(p, j)
    PROVE  TypeOK'
<1> USE DEF TypeOK
<1>1. CASE TimerFires(p, j)
  <2>1. ServiceType'
    BY <1>1 DEF TimerFires, ServiceType, life
  <2> QED BY <1>1, <2>1, StoreFrame, ThreadFrame, GhostFrame DEF TimerFires
<1>2. CASE EnqueueRetry(p, j)
  <2>1. ServiceType'
    BY <1>2, EnqueueType DEF EnqueueRetry, ServiceType
  <2> QED BY <1>2, <2>1, StoreFrame, ThreadFrame, GhostFrame DEF EnqueueRetry
<1> QED BY <1>1, <1>2 DEF TimerStep

LEMMA BackoffType ==
    ASSUME TypeOK, NEW j \in Jobs, BackoffPasses(j)
    PROVE  TypeOK'
<1>1. [rec[j] EXCEPT !.waiting = FALSE] \in RecType
  BY DEF TypeOK, StoreType, RecType
<1>2. StoreType'
  BY <1>1, SaveType DEF BackoffPasses, TypeOK
<1> QED BY <1>2, ServiceFrame, ThreadFrame, GhostFrame DEF BackoffPasses, TypeOK

LEMMA IngestType ==
    ASSUME TypeOK, IngestBegins \/ IngestEnds
    PROVE  TypeOK'
<1> USE DEF TypeOK
<1>1. CASE IngestBegins
  <2>1. StoreType'
    BY <1>1 DEF IngestBegins, StoreType
  <2> QED BY <1>1, <2>1, ServiceFrame, ThreadFrame, GhostFrame DEF IngestBegins
<1>2. CASE IngestEnds
  <2>1. [job |-> NoJob, tag |-> 0] \in [job : Jobs \cup {NoJob}, tag : Nat]
    OBVIOUS
  <2>2. StoreType'
    BY <1>2, <2>1, DatasetType DEF IngestEnds
  <2> QED BY <1>2, <2>2, ServiceFrame, ThreadFrame, GhostFrame DEF IngestEnds
<1> QED BY <1>1, <1>2

LEMMA StutterType == ASSUME TypeOK, UNCHANGED vars PROVE TypeOK'
BY StoreFrame, ServiceFrame, ThreadFrame, GhostFrame DEF TypeOK, vars

(* Every step keeps the types. *)
LEMMA NextType == ASSUME TypeOK, [Next]_vars PROVE TypeOK'
<1>1. CASE Request
  BY <1>1, RequestType
<1>2. CASE \E h \in Handlers : HandlerStep(h)
  BY <1>2, HandlerType
<1>3. CASE \E t \in Workers : WorkerStep(t)
  BY <1>3, WorkerType
<1>4. CASE \E w \in Watchers : WatcherStep(w)
  BY <1>4, WatcherType
<1>5. CASE \E m \in Mains : MainStep(m)
  BY <1>5, MainType
<1>6. CASE \E p \in Procs, j \in Jobs : TimerStep(p, j)
  BY <1>6, TimerType
<1>7. CASE \E j \in Jobs : BackoffPasses(j)
  BY <1>7, BackoffType
<1>8. CASE \E p \in Procs : ProcessStep(p)
  BY <1>8, ProcessType
<1>9. CASE IngestBegins \/ IngestEnds
  BY <1>9, IngestType
<1>10. CASE UNCHANGED vars
  BY <1>10, StutterType
<1> QED BY <1>1, <1>2, <1>3, <1>4, <1>5, <1>6, <1>7, <1>8, <1>9, <1>10 DEF Next

(* Type correctness: records, publications, locks, queues and threads keep *)
(* their types, for any number of processes, threads and jobs.             *)
THEOREM TypesHold == Spec => []TypeOK
<1>1. Init => TypeOK
  BY InitType
<1>2. TypeOK /\ [Next]_vars => TypeOK'
  BY NextType
<1> QED BY <1>1, <1>2, PTL DEF Spec

-----------------------------------------------------------------------------
(***************************************************************************)
(* Safety of the openEO job runtime, for any number of processes, threads, *)
(* jobs, runs and attempts.                                                *)
(*                                                                         *)
(* LockInv says what the two locks and the backoff keep apart; from it     *)
(* executions are exclusive and no two runs change a dataset at once.      *)
(***************************************************************************)
Saving == {"gate", "commit", "complete"}

(* The places at which a thread works under the execution lease. *)
Needs(t, l) ==
    \/ t \in Workers /\ l \in WorkerLeased
    \/ t \in Watchers \cup Mains /\ l \in Recovering \cup RetryAt

(* A thread at such a place holds the lease of its job ... *)
LeaseInv == \A t \in Threads : Needs(t, pc[t]) => lease[job[t]] = t

(* ... the writer lock is with a worker exactly while it saves ... *)
WriterInv == \A t \in Workers : (writer = t) <=> pc[t] \in Saving

(* ... and a job on its way to an attempt has its backoff behind it. *)
Starting == {"slot", "read", "start"}
StartInv == \A t \in Workers : pc[t] \in Starting => ~rec[job[t]].waiting

LockInv == LeaseInv /\ WriterInv /\ StartInv

-----------------------------------------------------------------------------
(* Moves. *)

(* A step of one thread leaves every other thread where it was. *)
OnlyMoves(t) == \A u \in Threads \ {t} : pc'[u] = pc[u] /\ job'[u] = job[u] /\ seen'[u] = seen[u]

(* A thread stays with the job it has, at the place l. *)
StaysWith(t, l) == OnlyMoves(t) /\ pc'[t] = l /\ job'[t] = job[t] /\ seen'[t] = seen[t]

LEMMA MoveFacts ==
    ASSUME ThreadType, NEW t \in Threads
    PROVE  /\ \A l : Goto(t, l) => StaysWith(t, l)
           /\ \A l, d : Leave(t, l, d) => StaysWith(t, l)
           /\ \A l, j : Begin(t, l, j) => OnlyMoves(t) /\ pc'[t] = l /\ job'[t] = j
           /\ Return(t) => OnlyMoves(t) /\ pc'[t] = "idle"
           /\ EndRetry(t) => IF t \in Workers THEN OnlyMoves(t) /\ pc'[t] = "idle"
                                              ELSE StaysWith(t, "recovered")
           /\ UNCHANGED local => StaysWith(t, pc[t])
<1>1. \A l, d : Leave(t, l, d) => StaysWith(t, l)
  BY DEF ThreadType, Leave, OnlyMoves, StaysWith
<1>2. Return(t) => OnlyMoves(t) /\ pc'[t] = "idle"
  BY DEF ThreadType, Return, OnlyMoves
<1> QED BY <1>1, <1>2 DEF ThreadType, Goto, Begin, EndRetry, OnlyMoves, StaysWith, local

(* No backoff begins. *)
NoBackoff == \A j \in Jobs : rec'[j].waiting => rec[j].waiting

LEMMA NoBackoffSaves ==
    ASSUME TypeOK, NEW k \in Jobs, NEW r, Save(k, r), r.waiting => rec[k].waiting
    PROVE  NoBackoff
BY DEF NoBackoff, Save, TypeOK, StoreType

(* A step that neither takes nor gives a lock. *)
LEMMA LocksStay ==
    ASSUME TypeOK, LockInv, NEW t \in Threads, OnlyMoves(t), UNCHANGED <<lease, writer>>, NoBackoff,
           Needs(t, pc'[t]) => Needs(t, pc[t]) /\ job'[t] = job[t],
           t \in Workers => (pc'[t] \in Saving <=> pc[t] \in Saving),
           t \in Workers /\ pc'[t] \in Starting => job'[t] = job[t] /\ ~rec'[job[t]].waiting
    PROVE  LockInv'
<1>1. LeaseInv'
  BY DEF LockInv, LeaseInv, OnlyMoves, Needs
<1>2. WriterInv'
  BY ThreadKinds DEF LockInv, WriterInv, OnlyMoves
<1>3. StartInv'
  <2> SUFFICES ASSUME NEW u \in Workers, pc'[u] \in Starting PROVE ~rec'[job'[u]].waiting
    BY DEF StartInv
  <2>1. CASE u = t
    BY <2>1
  <2>2. CASE u # t
    <3>1. pc[u] \in Starting /\ job'[u] = job[u]
      BY <2>2, ThreadKinds DEF OnlyMoves
    <3>2. job[u] \in Jobs /\ ~rec[job[u]].waiting
      BY <3>1, ThreadKinds DEF LockInv, StartInv, TypeOK, ThreadType, Starting
    <3> QED BY <3>1, <3>2 DEF NoBackoff
  <2> QED BY <2>1, <2>2
<1> QED BY <1>1, <1>2, <1>3 DEF LockInv

(* Taking a free lease. *)
LEMMA LeaseTaken ==
    ASSUME TypeOK, LockInv, NEW t \in Threads, NEW k \in Jobs, OnlyMoves(t), UNCHANGED <<rec, writer>>,
           lease[k] = NoThread, lease' = [lease EXCEPT ![k] = t], job'[t] = k,
           t \in Workers => pc'[t] \notin Saving \cup Starting /\ pc[t] \notin Saving
    PROVE  LockInv'
<1>1. LeaseInv'
  <2> SUFFICES ASSUME NEW u \in Threads, Needs(u, pc'[u]) PROVE lease'[job'[u]] = u
    BY DEF LeaseInv, Needs
  <2>1. CASE u = t
    BY <2>1 DEF TypeOK, StoreType
  <2>2. CASE u # t
    <3>1. lease[job[u]] = u /\ job'[u] = job[u]
      BY <2>2 DEF LockInv, LeaseInv, OnlyMoves
    <3> QED BY <3>1, ThreadKinds DEF TypeOK, StoreType
  <2> QED BY <2>1, <2>2
<1>2. WriterInv'
  BY ThreadKinds DEF LockInv, WriterInv, OnlyMoves
<1>3. StartInv'
  BY ThreadKinds DEF LockInv, StartInv, OnlyMoves
<1> QED BY <1>1, <1>2, <1>3 DEF LockInv

(* Giving a lease back. *)
LEMMA LeaseGiven ==
    ASSUME TypeOK, LockInv, NEW t \in Threads, OnlyMoves(t), UNCHANGED <<rec, writer>>,
           Needs(t, pc[t]), lease' = [lease EXCEPT ![job[t]] = NoThread], ~Needs(t, pc'[t]),
           t \in Workers => pc'[t] \notin Saving \cup Starting /\ pc[t] \notin Saving
    PROVE  LockInv'
<1>1. LeaseInv'
  <2> SUFFICES ASSUME NEW u \in Threads, Needs(u, pc'[u]) PROVE lease'[job'[u]] = u
    BY DEF LeaseInv, Needs
  <2>1. u # t /\ pc'[u] = pc[u] /\ job'[u] = job[u]
    BY DEF OnlyMoves
  <2>2. lease[job[u]] = u /\ lease[job[t]] = t
    BY <2>1 DEF LockInv, LeaseInv
  <2> QED BY <2>1, <2>2, ThreadKinds DEF TypeOK, StoreType
<1>2. WriterInv'
  BY ThreadKinds DEF LockInv, WriterInv, OnlyMoves
<1>3. StartInv'
  BY ThreadKinds DEF LockInv, StartInv, OnlyMoves
<1> QED BY <1>1, <1>2, <1>3 DEF LockInv
-----------------------------------------------------------------------------
(* The locks, step by step. *)

LEMMA HandlerLocks ==
    ASSUME TypeOK, LockInv, Request \/ \E h \in Handlers : HandlerStep(h)
    PROVE  LockInv'
<1>1. PICK h \in Handlers, j \in Jobs :
          CreateJob(h, j) \/ CreateTriggered(h, j) \/ StartRead(h, j) \/ CancelWaiting(h, j) \/ HandlerStep(h)
  <2>1. ASSUME NEW h \in Handlers, HandlerStep(h) PROVE job[h] \in Jobs
    BY <2>1, ThreadKinds DEF HandlerStep, Claim, StartWrite, EnqueueRequested, CancelWrite, At, TypeOK, ThreadType
  <2> QED BY <2>1 DEF Request
<1> h \in Threads /\ h \notin Workers /\ \A l : ~Needs(h, l)
  BY ThreadKinds DEF Needs
<1>2. UNCHANGED <<lease, writer>>
  BY <1>1 DEF CreateJob, CreateTriggered, StartRead, CancelWaiting, HandlerStep, Claim, StartWrite, EnqueueRequested,
              CancelWrite, dataset
<1>3. OnlyMoves(h)
  <2>1. CancelWaiting(h, j) => OnlyMoves(h)
    BY DEF CancelWaiting, OnlyMoves, TypeOK, ThreadType
  <2> QED BY <1>1, <2>1, MoveFacts DEF CreateJob, CreateTriggered, StartRead, HandlerStep, Claim, StartWrite,
              EnqueueRequested, CancelWrite, StaysWith, TypeOK
<1>4. NoBackoff
  <2>1. PICK k \in Jobs : k = job[h] \/ ~HandlerStep(h)
    BY <1>1, ThreadKinds DEF HandlerStep, Claim, StartWrite, EnqueueRequested, CancelWrite, At, TypeOK, ThreadType
  <2>2. rec[j] \in RecType /\ rec[k] \in RecType
    BY DEF TypeOK, StoreType
  <2>3. CASE UNCHANGED rec
    BY <2>3 DEF NoBackoff
  <2>4. CASE CreateJob(h, j) \/ CreateTriggered(h, j)
    BY <2>2, <2>3, <2>4, NoBackoffSaves DEF CreateJob, CreateTriggered, RecType
  <2>5. CASE StartRead(h, j) \/ CancelWaiting(h, j)
    BY <2>3, <2>5 DEF StartRead, CancelWaiting
  <2>6. CASE HandlerStep(h)
    BY <2>1, <2>2, <2>3, <2>6, NoBackoffSaves DEF HandlerStep, Claim, StartWrite, EnqueueRequested, CancelWrite, RecType
  <2> QED BY <1>1, <2>4, <2>5, <2>6
<1> QED BY <1>2, <1>3, <1>4, LocksStay

LEMMA StartWatcherLocks ==
    ASSUME TypeOK, LockInv, NEW t \in Workers \cup Mains, StartWatcher(t)
    PROVE  LockInv'
<1>1. /\ \A u \in Threads : pc'[u] \in {"idle", "watching"} \/ (pc'[u] = pc[u] /\ job'[u] = job[u])
      /\ \A u \in Workers : pc'[u] = "idle" \/ pc'[u] = pc[u]
      /\ pc[t] = "watch" /\ pc'[t] = "idle"
      /\ \A u \in Workers : u # t => pc'[u] = pc[u] /\ job'[u] = job[u]
  BY ThreadKinds DEF StartWatcher, Return, TypeOK, ThreadType, At
<1>2. UNCHANGED <<rec, lease, writer>>
  BY DEF StartWatcher, dataset
<1>3. LeaseInv'
  BY <1>1, <1>2 DEF LockInv, LeaseInv, Needs, WorkerLeased, Attempting, Recovering, RetryAt
<1>4. WriterInv'
  BY <1>1, <1>2 DEF LockInv, WriterInv, Saving
<1>5. StartInv'
  BY <1>1, <1>2 DEF LockInv, StartInv, Starting
<1> QED BY <1>3, <1>4, <1>5 DEF LockInv

LEMMA RetryLocks ==
    ASSUME TypeOK, LockInv, NEW t \in Workers \cup Watchers \cup Mains, RetryStep(t)
    PROVE  LockInv'
<1> t \in Threads
  BY ThreadKinds
<1>1. /\ pc[t] \in RetryAt /\ OnlyMoves(t)
      /\ \/ t \in Workers /\ pc'[t] = "idle"
         \/ pc'[t] \in RetryAt \cup {"recovered"} /\ (t \in Workers => pc'[t] \in RetryAt) /\ job'[t] = job[t]
  BY MoveFacts, ThreadKinds DEF RetryStep, ScheduleRetry, RecheckCancelled, Disarm, CancelDisarmed, At, RetryAt,
     StaysWith, TypeOK
<1>2. UNCHANGED <<lease, writer>>
  BY DEF RetryStep, ScheduleRetry, RecheckCancelled, Disarm, CancelDisarmed, dataset
<1>3. NoBackoff
  <2>1. PICK k \in Jobs : k = job[t]
    BY <1>1 DEF TypeOK, ThreadType, RetryAt
  <2>2. UNCHANGED rec \/ Save(k, [rec[k] EXCEPT !.status = "canceled"])
    BY <2>1 DEF RetryStep, ScheduleRetry, RecheckCancelled, Disarm, CancelDisarmed
  <2>3. rec[k] \in RecType
    BY DEF TypeOK, StoreType
  <2> QED BY <2>2, <2>3, NoBackoffSaves DEF NoBackoff, RecType
<1>4. Needs(t, pc'[t]) => Needs(t, pc[t]) /\ job'[t] = job[t]
  BY <1>1, ThreadKinds DEF Needs, RetryAt, WorkerLeased, Attempting, Recovering
<1>5. t \in Workers => pc[t] \notin Saving /\ pc'[t] \notin Saving \cup Starting
  BY <1>1 DEF RetryAt, Saving, Starting
<1> QED BY <1>1, <1>2, <1>3, <1>4, <1>5, LocksStay

(* The steps of an attempt that leave the writer lock alone. *)
LEMMA AttemptLocks ==
    ASSUME TypeOK, LockInv, NEW t \in Workers, NEW k \in Jobs, k = job[t],
           \/ ReadRecord(t) \/ StartAttempt(t) \/ ResolvePending(t) \/ ClearOutput(t) \/ SavePlain(t)
           \/ NoticeCancel(t) \/ RecordCancelled(t) \/ FinishAttempt(t) \/ Notify(t) \/ CompleteAfterFailure(t)
    PROVE  LockInv'
<1> t \in Threads
  BY ThreadKinds
<1>r. rec[k] \in RecType /\ rec[k].waiting \in BOOLEAN
  BY DEF TypeOK, StoreType, RecType
<1>1. UNCHANGED <<lease, writer>>
  BY DEF ReadRecord, StartAttempt, ResolvePending, ClearOutput, SavePlain, NoticeCancel, RecordCancelled,
         FinishAttempt, Notify, CompleteAfterFailure, dataset
<1>2. NoBackoff
  <2>1. ASSUME NEW i, Complete(k, i) PROVE NoBackoff
    BY <1>r, <2>1, NoBackoffSaves DEF Complete, RecType
  <2>2. ReconcileFinds(k) => NoBackoff
    BY <2>1 DEF ReconcileFinds
  <2>3. ReconcileFindsNothing(k) => NoBackoff
    BY <1>r, NoBackoffSaves DEF ReconcileFindsNothing, RecType
  <2>4. Finish(k) => NoBackoff
    BY <1>r, NoBackoffSaves DEF Finish, RecType
  <2>5. UNCHANGED rec => NoBackoff
    BY DEF NoBackoff
  <2>6. ReadRecord(t) \/ ClearOutput(t) \/ RecordCancelled(t) => NoBackoff
    BY <1>r, <2>5, NoBackoffSaves DEF ReadRecord, ClearOutput, RecordCancelled, RecType
  <2>7. StartAttempt(t) => NoBackoff
    BY <1>r, NoBackoffSaves DEF StartAttempt, RecType
  <2> QED BY <2>2, <2>3, <2>4, <2>5, <2>6, <2>7
          DEF ResolvePending, SavePlain, NoticeCancel, FinishAttempt, Notify, CompleteAfterFailure
<1>3. OnlyMoves(t) /\ job'[t] = job[t]
  <2>1. ASSUME NEW s, NEW l, seen' = [seen EXCEPT ![t] = s], pc' = [pc EXCEPT ![t] = l], UNCHANGED job
        PROVE  OnlyMoves(t) /\ job'[t] = job[t]
    BY <2>1 DEF OnlyMoves, TypeOK, ThreadType
  <2>2. ReadRecord(t) \/ StartAttempt(t) => OnlyMoves(t) /\ job'[t] = job[t]
    BY <2>1, MoveFacts DEF ReadRecord, StartAttempt, StaysWith, TypeOK
  <2> QED BY <2>2, MoveFacts DEF ResolvePending, ClearOutput, SavePlain, NoticeCancel, RecordCancelled,
             FinishAttempt, Notify, CompleteAfterFailure, StaysWith, TypeOK
<1>4. /\ pc[t] \in WorkerLeased \ Saving /\ pc'[t] \in WorkerLeased \ Saving
      /\ pc'[t] \in Starting => pc[t] \in Starting
  <2>1. ReadRecord(t) \/ StartAttempt(t) => pc[t] \in {"read", "start"}
                                            /\ pc'[t] \in {"start", "unlease", "resolve", "clear"}
    BY DEF ReadRecord, StartAttempt, At, Goto, TypeOK, ThreadType
  <2>2. ResolvePending(t) \/ ClearOutput(t) \/ SavePlain(t) =>
            pc[t] \in {"resolve", "clear", "compute"} /\ pc'[t] \in {"clear", "compute", "finish"}
    BY DEF ResolvePending, ClearOutput, SavePlain, At, Goto, TypeOK, ThreadType
  <2>3. NoticeCancel(t) \/ RecordCancelled(t) =>
            pc[t] \in {"compute", "cancelled"} /\ pc'[t] \in {"cancelled", "unlease"}
    BY DEF NoticeCancel, RecordCancelled, At, Goto, TypeOK, ThreadType
  <2>4. FinishAttempt(t) \/ Notify(t) \/ CompleteAfterFailure(t) =>
            pc[t] \in {"finish", "notify", "failing"} /\ pc'[t] \in {"notify", "unlease", "finish", "failed"}
    BY DEF FinishAttempt, Notify, CompleteAfterFailure, At, Goto, TypeOK, ThreadType
  <2> QED BY <2>1, <2>2, <2>3, <2>4 DEF WorkerLeased, Attempting, Saving, Starting
<1>5. pc'[t] \in Starting => ~rec'[job[t]].waiting
  BY <1>2, <1>4 DEF LockInv, StartInv, NoBackoff
<1> QED BY <1>1, <1>2, <1>3, <1>4, <1>5, LocksStay DEF Needs

(* A failed attempt begins a backoff, of its own job. *)
LEMMA RecordFailureLocks ==
    ASSUME TypeOK, LockInv, NEW t \in Workers, NEW k \in Jobs, k = job[t], RecordFailure(t)
    PROVE  LockInv'
<1> t \in Threads
  BY ThreadKinds
<1>1. UNCHANGED <<lease, writer>> /\ StaysWith(t, "unlease") /\ pc[t] = "failed"
      /\ \A j \in Jobs : j # k => rec'[j] = rec[j]
  BY MoveFacts DEF RecordFailure, dataset, At, TypeOK, StoreType, Save
<1>2. LeaseInv'
  BY <1>1 DEF LockInv, LeaseInv, Needs, StaysWith, OnlyMoves, WorkerLeased, Attempting
<1>3. WriterInv'
  BY <1>1, ThreadKinds DEF LockInv, WriterInv, StaysWith, OnlyMoves, Saving
<1>4. StartInv'
  <2> SUFFICES ASSUME NEW u \in Workers, pc'[u] \in Starting PROVE ~rec'[job'[u]].waiting
    BY DEF StartInv
  <2>1. u # t /\ u \in Threads /\ pc'[u] = pc[u] /\ job'[u] = job[u]
    BY <1>1, ThreadKinds DEF StaysWith, OnlyMoves, Starting
  <2>2. lease[job[u]] = u /\ lease[k] = t
    BY <1>1, <2>1 DEF LockInv, LeaseInv, Needs, Starting, WorkerLeased, Attempting
  <2>3. job[u] \in Jobs /\ job[u] # k
    BY <2>1, <2>2 DEF TypeOK, ThreadType, Starting
  <2> QED BY <1>1, <2>1, <2>3 DEF LockInv, StartInv
<1> QED BY <1>2, <1>3, <1>4 DEF LockInv

(* The steps that take or give the writer lock, or work under it. *)
LEMMA SavingLocks ==
    ASSUME TypeOK, LockInv, NEW t \in Workers, NEW k \in Jobs, k = job[t],
           \/ PlanPublication(t) \/ EnterPublication(t) \/ Commit(t) \/ CompletePublication(t) \/ Raise(t)
    PROVE  LockInv'
<1> t \in Threads
  BY ThreadKinds
<1>1. UNCHANGED lease
  BY DEF PlanPublication, EnterPublication, Commit, CompletePublication, Raise
<1>2. PICK l \in Attempting \ Starting : StaysWith(t, l) /\ pc[t] \in WorkerLeased
  BY MoveFacts DEF PlanPublication, EnterPublication, Commit, CompletePublication, Raise, At, TypeOK, Attempting,
                   Starting, WorkerLeased
<1>3. NoBackoff
  <2>r. rec[k] \in RecType
    BY DEF TypeOK, StoreType
  <2>1. UNCHANGED rec => NoBackoff
    BY DEF NoBackoff
  <2>2. PlanPublication(t) => NoBackoff
    BY <2>r, NoBackoffSaves DEF PlanPublication, RecType
  <2>3. EnterPublication(t) => NoBackoff
    BY <2>r, <2>1, NoBackoffSaves DEF EnterPublication, RecType
  <2>4. CompletePublication(t) => NoBackoff
    BY <2>r, NoBackoffSaves DEF CompletePublication, Complete, RecType
  <2> QED BY <2>1, <2>2, <2>3, <2>4 DEF Commit, Raise
<1>4. LeaseInv'
  BY <1>1, <1>2 DEF LockInv, LeaseInv, Needs, StaysWith, OnlyMoves
<1>5. WriterInv'
  <2>1. \/ writer = NoThread /\ writer' = t /\ pc'[t] \in Saving
        \/ writer = t /\ writer' = t /\ pc'[t] \in Saving
        \/ writer = t /\ writer' = NoThread /\ pc'[t] \notin Saving
        \/ writer # t /\ UNCHANGED writer /\ pc'[t] \notin Saving
    <3>1. PlanPublication(t) => writer = NoThread /\ writer' = t /\ pc'[t] \in Saving
      BY MoveFacts DEF PlanPublication, TypeOK, StaysWith, Saving
    <3>2. EnterPublication(t) => /\ writer = t
                                 /\ \/ writer' = t /\ pc'[t] \in Saving
                                    \/ writer' = NoThread /\ pc'[t] \notin Saving
      BY MoveFacts DEF EnterPublication, TypeOK, StaysWith, Saving, At, LockInv, WriterInv
    <3>3. Commit(t) => writer = t /\ writer' = t /\ pc'[t] \in Saving
      BY MoveFacts DEF Commit, TypeOK, StaysWith, Saving, At, LockInv, WriterInv
    <3>4. CompletePublication(t) => writer = t /\ writer' = NoThread /\ pc'[t] \notin Saving
      BY MoveFacts DEF CompletePublication, TypeOK, StaysWith, Saving, At, LockInv, WriterInv
    <3>5. Raise(t) => /\ pc'[t] \notin Saving
                      /\ writer' = IF writer = t THEN NoThread ELSE writer
      BY MoveFacts DEF Raise, TypeOK, StaysWith, Saving
    <3> QED BY <3>1, <3>2, <3>3, <3>4, <3>5
  <2> QED BY <1>2, <2>1, ThreadKinds DEF LockInv, WriterInv, StaysWith, OnlyMoves
<1>6. StartInv'
  <2> SUFFICES ASSUME NEW u \in Workers, pc'[u] \in Starting PROVE ~rec'[job'[u]].waiting
    BY DEF StartInv
  <2>1. u # t /\ pc[u] \in Starting /\ job'[u] = job[u] /\ job[u] \in Jobs
    BY <1>2, ThreadKinds DEF StaysWith, OnlyMoves, Starting, TypeOK, ThreadType
  <2> QED BY <1>3, <2>1 DEF LockInv, StartInv, NoBackoff
<1> QED BY <1>4, <1>5, <1>6 DEF LockInv

LEMMA WorkerLocks ==
    ASSUME TypeOK, LockInv, NEW t \in Workers, WorkerStep(t)
    PROVE  LockInv'
<1> t \in Threads
  BY ThreadKinds
<1> USE DEF TypeOK
<1>1. CASE PickUp(t)
  <2>1. OnlyMoves(t) /\ pc[t] = "idle" /\ pc'[t] = "picked" /\ UNCHANGED <<rec, lease, writer>>
    BY <1>1, MoveFacts DEF PickUp, At, dataset
  <2>2. NoBackoff
    BY <2>1 DEF NoBackoff
  <2> QED BY <2>1, <2>2, LocksStay, ThreadKinds DEF Needs, WorkerLeased, Attempting, Saving, Starting
<1>2. CASE TryLease(t)
  <2>1. job[t] \in Jobs /\ pc[t] = "picked" /\ UNCHANGED <<rec, writer>>
    BY <1>2 DEF TryLease, At, ThreadType, dataset
  <2>2. CASE lease[job[t]] = NoThread
    <3>1. StaysWith(t, "leased") /\ lease' = [lease EXCEPT ![job[t]] = t]
      BY <1>2, <2>2, MoveFacts DEF TryLease
    <3> QED BY <2>1, <2>2, <3>1, LeaseTaken DEF StaysWith, Saving, Starting
  <2>3. CASE lease[job[t]] # NoThread
    <3>1. StaysWith(t, "pop") /\ UNCHANGED lease
      BY <1>2, <2>3, MoveFacts DEF TryLease
    <3>2. NoBackoff
      BY <2>1 DEF NoBackoff
    <3> QED BY <2>1, <3>1, <3>2, LocksStay, ThreadKinds
            DEF StaysWith, Needs, WorkerLeased, Attempting, Saving, Starting
  <2> QED BY <2>2, <2>3
<1>3. CASE ReadUnderLease(t) \/ WaitForSlot(t)
  <2>1. PICK l \in {"unlease", "slot", "read"} : StaysWith(t, l)
    BY <1>3, MoveFacts DEF ReadUnderLease, WaitForSlot
  <2>2. pc[t] \in {"leased", "slot"} /\ UNCHANGED <<rec, lease, writer>>
    BY <1>3 DEF ReadUnderLease, WaitForSlot, At, dataset
  <2>3. NoBackoff
    BY <2>2 DEF NoBackoff
  <2>4. l \in Starting => ~rec[job[t]].waiting
    <3>1. ReadUnderLease(t) /\ l \in Starting => ~rec[job[t]].waiting
      BY <2>1 DEF ReadUnderLease, Leave, Goto, StaysWith, Starting, ThreadType
    <3>2. WaitForSlot(t) => ~rec[job[t]].waiting
      BY DEF WaitForSlot, At, LockInv, StartInv, Starting
    <3> QED BY <1>3, <3>1, <3>2
  <2> QED BY <2>1, <2>2, <2>3, <2>4, LocksStay DEF StaysWith, Needs, WorkerLeased, Attempting, Saving
<1>4. CASE AttemptStep(t)
  <2>1. pc[t] # "idle"
    BY <1>4 DEF AttemptStep, At, ReadRecord, StartAttempt, ResolvePending, ClearOutput, SavePlain, PlanPublication,
           EnterPublication, Commit, CompletePublication, Raise, NoticeCancel, RecordCancelled, FinishAttempt,
           Notify, CompleteAfterFailure, RecordFailure
  <2>2. PICK k \in Jobs : k = job[t]
    BY <2>1 DEF ThreadType
  <2> QED BY <1>4, <2>2, AttemptLocks, RecordFailureLocks, SavingLocks DEF AttemptStep
<1>5. CASE ReleaseLease(t)
  <2>1. StaysWith(t, "pop") /\ pc[t] = "unlease" /\ UNCHANGED <<rec, writer>>
        /\ lease' = [lease EXCEPT ![job[t]] = NoThread]
    BY <1>5, MoveFacts DEF ReleaseLease, At, dataset
  <2> QED BY <2>1, LeaseGiven, ThreadKinds DEF StaysWith, Needs, WorkerLeased, Attempting, Saving, Starting
<1>6. CASE PopFuture(t)
  <2>1. pc[t] = "pop" /\ UNCHANGED <<rec, lease, writer>>
    BY <1>6 DEF PopFuture, At, dataset
  <2>2. PICK l \in {"idle", "watch", "retry"} : OnlyMoves(t) /\ pc'[t] = l
    <3>1. due[t] # "none" => due[t] \in {"watch", "retry"}
      BY DEF ThreadType
    <3> QED BY <1>6, <3>1, MoveFacts DEF PopFuture, StaysWith
  <2>3. NoBackoff
    BY <2>1 DEF NoBackoff
  <2> QED BY <2>1, <2>2, <2>3, LocksStay, ThreadKinds DEF Needs, WorkerLeased, Attempting, Saving, Starting
<1>7. CASE RetryStep(t)
  BY <1>7, RetryLocks
<1>8. CASE StartWatcher(t)
  BY <1>8, StartWatcherLocks
<1> QED BY <1>1, <1>2, <1>3, <1>4, <1>5, <1>6, <1>7, <1>8 DEF WorkerStep

(* Recovery: the lease is held throughout, and given back before the event *)
(* of a failed job is announced or the job is queued again.                *)
LEMMA RecoveryLocks ==
    ASSUME TypeOK, LockInv, NEW t \in Watchers \cup Mains, RecoveryStep(t)
    PROVE  LockInv'
<1> t \in Threads /\ t \notin Workers
  BY ThreadKinds
<1>0. pc[t] # "idle"
  BY DEF RecoveryStep, At, Reconciles, Recover, RecoverCommitting, RecoverFailed, DeferRecovery, RecoverUnpublished,
         RecoverCompleted, FinishFailed, Announce, ReleaseRecovered, EnqueueRecovered, RetryStep, ScheduleRetry,
         RecheckCancelled, Disarm, CancelDisarmed
<1>j. PICK k \in Jobs : k = job[t]
  BY <1>0 DEF TypeOK, ThreadType
<1>r. rec[k] \in RecType /\ rec[k].waiting \in BOOLEAN
  BY DEF TypeOK, StoreType, RecType
<1>n. \A l \in Recovering \cup RetryAt : Needs(t, l)
  BY DEF Needs
<1>m. \A l : l \notin Recovering \cup RetryAt => ~Needs(t, l)
  BY DEF Needs
<1> USE DEF TypeOK
<1>1. CASE \/ Recover(t) \/ RecoverCommitting(t) \/ RecoverUnpublished(t) \/ RecoverCompleted(t)
           \/ RecoverFailed(t) \/ FinishFailed(t)
  <2>1. UNCHANGED <<lease, writer>>
    BY <1>1 DEF Recover, RecoverCommitting, RecoverUnpublished, RecoverCompleted, RecoverFailed, FinishFailed, dataset
  <2>2. NoBackoff
    <3>1. ReconcileFinds(k) \/ ReconcileFindsNothing(k) \/ Finish(k) => NoBackoff
      BY <1>r, NoBackoffSaves DEF ReconcileFinds, ReconcileFindsNothing, Finish, Complete, RecType
    <3>2. UNCHANGED rec => NoBackoff
      BY DEF NoBackoff
    <3>3. Recover(t) \/ RecoverUnpublished(t) => NoBackoff
      BY <1>j, <1>r, <3>2, NoBackoffSaves DEF Recover, RecoverUnpublished, RecType
    <3> QED BY <1>1, <1>j, <3>1, <3>2, <3>3 DEF RecoverCommitting, RecoverCompleted, RecoverFailed, FinishFailed
  <2>3. pc[t] \in Recovering /\ OnlyMoves(t) /\ job'[t] = job[t] /\ pc'[t] \in Recovering \cup RetryAt \cup {"announce"}
    BY <1>1, MoveFacts DEF Recover, RecoverCommitting, RecoverUnpublished, RecoverCompleted, RecoverFailed,
       FinishFailed, At, Recovering, RetryAt, StaysWith
  <2> QED BY <1>n, <2>1, <2>2, <2>3, LocksStay
<1>2. CASE DeferRecovery(t)
  <2>1. /\ pc[t] \in {"recover", "recoverFailed"} /\ OnlyMoves(t) /\ pc'[t] \in {"watching", "watch"}
        /\ UNCHANGED <<rec, writer>> /\ lease' = [lease EXCEPT ![job[t]] = NoThread]
    BY <1>2, MoveFacts DEF DeferRecovery, At, StaysWith, dataset
  <2> QED BY <1>m, <1>n, <2>1, LeaseGiven DEF Recovering, RetryAt
<1>3. CASE Announce(t)
  <2>1. pc[t] = "announce" /\ UNCHANGED <<rec, writer, lease>>
    BY <1>3 DEF Announce, At, dataset
  <2>2. NoBackoff
    BY <2>1 DEF NoBackoff
  <2>3. CASE lease[k] = t
    <3>1. StaysWith(t, "recovered")
      BY <1>3, <1>j, <2>3, MoveFacts DEF Announce
    <3>2. LeaseInv'
      BY <1>j, <2>1, <2>3, <3>1 DEF LockInv, LeaseInv, StaysWith, OnlyMoves, Needs
    <3>3. WriterInv'
      BY <2>1, <3>1, ThreadKinds DEF LockInv, WriterInv, StaysWith, OnlyMoves
    <3>4. StartInv'
      BY <2>1, <3>1, ThreadKinds DEF LockInv, StartInv, StaysWith, OnlyMoves
    <3> QED BY <3>2, <3>3, <3>4 DEF LockInv
  <2>4. CASE lease[k] # t
    <3>1. OnlyMoves(t) /\ pc'[t] \in {"leaving", "idle"}
      BY <1>3, <1>j, <2>4, MoveFacts DEF Announce, StaysWith
    <3> QED BY <1>m, <2>1, <2>2, <3>1, LocksStay DEF Recovering, RetryAt
  <2> QED BY <2>3, <2>4
<1>4. CASE ReleaseRecovered(t)
  <2>1. /\ pc[t] = "recovered" /\ OnlyMoves(t) /\ pc'[t] \in {"announce", "discard", "leaving", "requeue", "idle"}
        /\ UNCHANGED <<rec, writer>> /\ lease' = [lease EXCEPT ![job[t]] = NoThread]
    BY <1>4, MoveFacts DEF ReleaseRecovered, At, StaysWith, dataset
  <2> QED BY <1>m, <1>n, <2>1, LeaseGiven DEF Recovering, RetryAt
<1>5. CASE EnqueueRecovered(t)
  <2>1. OnlyMoves(t) /\ pc'[t] \in {"leaving", "idle"} /\ UNCHANGED <<rec, writer, lease>>
    BY <1>5, MoveFacts DEF EnqueueRecovered, StaysWith, dataset
  <2>2. NoBackoff
    BY <2>1 DEF NoBackoff
  <2> QED BY <1>m, <2>1, <2>2, LocksStay DEF Recovering, RetryAt
<1>6. CASE RetryStep(t)
  BY <1>6, RetryLocks
<1> QED BY <1>1, <1>2, <1>3, <1>4, <1>5, <1>6 DEF RecoveryStep, Reconciles

LEMMA WatcherLocks ==
    ASSUME TypeOK, LockInv, NEW w \in Watchers, WatcherStep(w)
    PROVE  LockInv'
<1> w \in Threads /\ w \notin Workers
  BY ThreadKinds
<1>1. CASE WatcherLease(w)
  <2>1. /\ job[w] \in Jobs /\ OnlyMoves(w) /\ job'[w] = job[w] /\ UNCHANGED <<rec, writer>>
        /\ lease[job[w]] = NoThread /\ lease' = [lease EXCEPT ![job[w]] = w]
    BY <1>1, MoveFacts DEF WatcherLease, At, StaysWith, dataset, TypeOK, ThreadType
  <2> QED BY <2>1, LeaseTaken
<1>2. CASE WatcherStops(w) \/ WatcherDiscards(w) \/ WatcherLeaves(w)
  <2>1. OnlyMoves(w) /\ pc'[w] \in {"leaving", "requeue", "idle"} /\ UNCHANGED <<rec, writer, lease>>
    BY <1>2, MoveFacts DEF WatcherStops, WatcherDiscards, WatcherLeaves, StaysWith, dataset, TypeOK
  <2>2. NoBackoff
    BY <2>1 DEF NoBackoff
  <2> QED BY <2>1, <2>2, LocksStay DEF Needs, Recovering, RetryAt
<1>3. CASE RecoveryStep(w)
  BY <1>3, RecoveryLocks
<1> QED BY <1>1, <1>2, <1>3 DEF WatcherStep

LEMMA MainLocks ==
    ASSUME TypeOK, LockInv, NEW m \in Mains, MainStep(m)
    PROVE  LockInv'
<1> m \in Threads /\ m \notin Workers
  BY ThreadKinds
<1>1. CASE \E j \in Jobs : RecoverNext(m, j)
  <2>1. PICK j \in Jobs : RecoverNext(m, j)
    BY <1>1
  <2>2. OnlyMoves(m) /\ job'[m] = j /\ UNCHANGED <<rec, writer>>
    BY <2>1, MoveFacts DEF RecoverNext, dataset, TypeOK
  <2>3. CASE lease[j] = NoThread
    BY <2>1, <2>2, <2>3, LeaseTaken DEF RecoverNext
  <2>4. CASE lease[j] # NoThread
    <3>1. pc'[m] = "watch" /\ UNCHANGED lease
      BY <2>1, <2>4, MoveFacts DEF RecoverNext, TypeOK
    <3>2. NoBackoff
      BY <2>2 DEF NoBackoff
    <3> QED BY <2>2, <3>1, <3>2, LocksStay DEF Needs, Recovering, RetryAt
  <2> QED BY <2>3, <2>4
<1>2. CASE \E j \in Jobs : ReplayClaim(m, j)
  <2>1. PICK j \in Jobs : ReplayClaim(m, j)
    BY <1>2
  <2>2. OnlyMoves(m) /\ pc'[m] = "requeue" /\ UNCHANGED <<writer, lease>>
    BY <2>1, MoveFacts DEF ReplayClaim, dataset, TypeOK
  <2>3. NoBackoff
    <3>1. rec[j] \in RecType
      BY DEF TypeOK, StoreType
    <3> QED BY <2>1, <3>1, NoBackoffSaves DEF ReplayClaim, RecType
  <2> QED BY <2>2, <2>3, LocksStay DEF Needs, Recovering, RetryAt
<1>3. CASE RecoveryStep(m)
  BY <1>3, RecoveryLocks
<1>4. CASE StartWatcher(m)
  BY <1>4, StartWatcherLocks
<1>5. CASE BeginReconciling(m) \/ BeginReplay(m) \/ Replay(m)
  <2>1. StaysWith(m, pc[m]) /\ UNCHANGED <<rec, writer, lease>>
    BY <1>5, MoveFacts DEF BeginReconciling, BeginReplay, Replay, dataset, TypeOK
  <2>2. NoBackoff
    BY <2>1 DEF NoBackoff
  <2> QED BY <2>1, <2>2, LocksStay DEF StaysWith
<1> QED BY <1>1, <1>2, <1>3, <1>4, <1>5 DEF MainStep

(* Nothing moves. *)
LEMMA LocksFrame ==
    ASSUME TypeOK, LockInv, UNCHANGED <<pc, job, lease, writer>>, NoBackoff PROVE LockInv'
<1>1. LeaseInv'
  BY DEF LockInv, LeaseInv, Needs
<1>2. WriterInv'
  BY DEF LockInv, WriterInv
<1>3. StartInv'
  <2>1. \A t \in Workers : pc[t] \in Starting => job[t] \in Jobs
    BY ThreadKinds DEF TypeOK, ThreadType, Starting
  <2> QED BY <2>1 DEF LockInv, StartInv, NoBackoff
<1> QED BY <1>1, <1>2, <1>3 DEF LockInv

(* The death of a process takes its threads away with what they held. *)
LEMMA ProcessLocks ==
    ASSUME TypeOK, LockInv, NEW p \in Procs, ProcessStep(p)
    PROVE  LockInv'
<1>1. CASE StartProcess(p) \/ Shutdown(p) \/ CloseExecutor(p)
  <2>1. UNCHANGED <<rec, pc, job, lease, writer>>
    BY <1>1 DEF StartProcess, Shutdown, CloseExecutor, dataset, local
  <2>2. NoBackoff
    BY <2>1 DEF NoBackoff
  <2> QED BY <2>1, <2>2, LocksFrame
<1>2. CASE Die(p)
  <2>1. /\ \A t \in Threads : IF Home[t] = p THEN pc'[t] = "idle" ELSE pc'[t] = pc[t] /\ job'[t] = job[t]
        /\ \A j \in Jobs : \A t \in Threads : Home[t] # p /\ lease[j] = t => lease'[j] = t
        /\ \A t \in Workers : Home[t] # p => (writer' = t <=> writer = t)
        /\ \A t \in Workers : Home[t] = p => writer' # t
        /\ UNCHANGED rec
    BY <1>2, ThreadKinds DEF Die
  <2>2. LeaseInv'
    <3> SUFFICES ASSUME NEW t \in Threads, Needs(t, pc'[t]) PROVE lease'[job'[t]] = t
      BY DEF LeaseInv, Needs
    <3>1. Home[t] # p /\ pc'[t] = pc[t] /\ job'[t] = job[t]
      BY <2>1 DEF Needs, WorkerLeased, Attempting, Recovering, RetryAt
    <3>2. job[t] \in Jobs
      BY <3>1 DEF Needs, WorkerLeased, Attempting, Recovering, RetryAt, TypeOK, ThreadType
    <3> QED BY <2>1, <3>1, <3>2 DEF LockInv, LeaseInv
  <2>3. WriterInv'
    BY <2>1, ThreadKinds DEF LockInv, WriterInv, Saving
  <2>4. StartInv'
    BY <2>1, ThreadKinds DEF LockInv, StartInv, Starting
  <2> QED BY <2>2, <2>3, <2>4 DEF LockInv
<1> QED BY <1>1, <1>2 DEF ProcessStep, Exit, Crash

(* Timers, the passing of a backoff, ingestions and stuttering. *)
LEMMA OtherLocks ==
    ASSUME TypeOK, LockInv,
           \/ \E p \in Procs, j \in Jobs : TimerStep(p, j)
           \/ \E j \in Jobs : BackoffPasses(j)
           \/ IngestBegins \/ IngestEnds \/ UNCHANGED vars
    PROVE  LockInv'
<1>1. CASE (\E p \in Procs, j \in Jobs : TimerStep(p, j)) \/ UNCHANGED vars
  <2>1. UNCHANGED <<rec, pc, job, lease, writer>>
    BY <1>1 DEF TimerStep, TimerFires, EnqueueRetry, vars, dataset, local
  <2>2. NoBackoff
    BY <2>1 DEF NoBackoff
  <2> QED BY <2>1, <2>2, LocksFrame
<1>2. CASE \E j \in Jobs : BackoffPasses(j)
  <2>1. PICK j \in Jobs : BackoffPasses(j)
    BY <1>2
  <2>2. rec[j] \in RecType
    BY DEF TypeOK, StoreType
  <2>3. NoBackoff
    BY <2>1, <2>2, NoBackoffSaves DEF BackoffPasses, RecType
  <2> QED BY <2>1, <2>3, LocksFrame DEF BackoffPasses, dataset, local
<1>3. CASE IngestBegins \/ IngestEnds
  <2>1. /\ UNCHANGED <<rec, pc, job, seen, lease>>
        /\ writer \notin Workers /\ writer' \notin Workers
    BY <1>3, ThreadKinds DEF IngestBegins, IngestEnds, local
  <2> QED BY <2>1 DEF LockInv, LeaseInv, WriterInv, StartInv, Needs
<1> QED BY <1>1, <1>2, <1>3

LEMMA LocksStep == ASSUME TypeOK, LockInv, [Next]_vars PROVE LockInv'
BY HandlerLocks, WorkerLocks, WatcherLocks, MainLocks, ProcessLocks, OtherLocks DEF Next

LEMMA LocksInit == Init => LockInv
BY ThreadKinds DEF Init, LockInv, LeaseInv, WriterInv, StartInv, Needs, WorkerLeased, Attempting, Recovering, RetryAt,
                   Saving, Starting

(* The locks and the backoff keep apart what they should. *)
THEOREM LocksHold == Spec => []LockInv
<1>1. Init => TypeOK /\ LockInv
  BY InitType, LocksInit
<1>2. TypeOK /\ LockInv /\ [Next]_vars => TypeOK' /\ LockInv'
  BY NextType, LocksStep
<1> QED BY <1>1, <1>2, PTL DEF Spec

-----------------------------------------------------------------------------
(* What follows for attempts and backoffs. *)

LEMMA LocksExclude == TypeOK /\ LockInv => ExecutionIsExclusive
<1> SUFFICES ASSUME TypeOK, LockInv PROVE ExecutionIsExclusive
  OBVIOUS
<1>1. ASSUME NEW t \in Threads, pc[t] \in Attempting \cup Recovering PROVE lease[job[t]] = t
  <2>1. Needs(t, pc[t])
    BY <1>1, ThreadKinds DEF TypeOK, ThreadType, Needs, Threads, WorkerAt, WatcherAt, MainAt, HandlerAt, WorkerLeased,
                             Attempting, Recovering, RetryAt
  <2> QED BY <2>1 DEF LockInv, LeaseInv
<1>2. \A t, u \in Threads :
         (t # u /\ pc[t] \in Attempting \cup Recovering /\ pc[u] \in Attempting \cup Recovering) => job[t] # job[u]
  BY <1>1
<1> QED BY <1>2 DEF ExecutionIsExclusive, LockInv, WriterInv, Saving

(* Only the start of an attempt makes a job RUNNING. *)
LEMMA StartsRunning ==
    ASSUME TypeOK, [Next]_vars, NEW j \in Jobs, rec'[j].status = "running", rec[j].status # "running"
    PROVE  \E t \in Workers : StartAttempt(t) /\ job[t] = j
<1>r. \A k \in Jobs : rec[k] \in RecType
  BY DEF TypeOK, StoreType
<1>n. ~ UNCHANGED rec
  OBVIOUS
<1>s. ASSUME NEW k \in Jobs, NEW r, Save(k, r), r.status = "running" => rec[k].status = "running" PROVE FALSE
  BY <1>s DEF Save, TypeOK, StoreType
<1>t. \A t \in Threads : pc[t] # "idle" => job[t] \in Jobs
  BY DEF TypeOK, ThreadType
<1>1. CASE Request \/ \E h \in Handlers : HandlerStep(h)
  <2>1. ASSUME NEW h \in Handlers, NEW k \in Jobs, k = job[h], HandlerStep(h) PROVE FALSE
    BY <2>1, <1>n, <1>r, <1>s DEF HandlerStep, Claim, StartWrite, EnqueueRequested, CancelWrite, RecType
  <2>2. ASSUME NEW h \in Handlers, HandlerStep(h) PROVE FALSE
    <3>1. job[h] \in Jobs
      BY <1>t, <2>2, ThreadKinds DEF HandlerStep, Claim, StartWrite, EnqueueRequested, CancelWrite, At
    <3> QED BY <2>1, <2>2, <3>1
  <2>3. ASSUME NEW h \in Handlers, NEW k \in Jobs,
               CreateJob(h, k) \/ CreateTriggered(h, k) \/ StartRead(h, k) \/ CancelWaiting(h, k)
        PROVE  FALSE
    BY <2>3, <1>n, <1>r, <1>s DEF CreateJob, CreateTriggered, StartRead, CancelWaiting, RecType
  <2> QED BY <1>1, <2>2, <2>3 DEF Request
<1>f. ASSUME NEW k \in Jobs, ReconcileFinds(k) \/ ReconcileFindsNothing(k) \/ Finish(k) PROVE FALSE
  BY <1>f, <1>r, <1>s DEF ReconcileFinds, Complete, ReconcileFindsNothing, Finish, RecType
<1>e. ASSUME NEW t \in Threads, RetryStep(t) PROVE FALSE
  <2>1. job[t] \in Jobs
    BY <1>e, <1>t DEF RetryStep, ScheduleRetry, RecheckCancelled, Disarm, CancelDisarmed, At
  <2>2. PICK k \in Jobs : k = job[t]
    BY <2>1
  <2> QED BY <1>e, <1>n, <1>r, <1>s, <2>2 DEF RetryStep, ScheduleRetry, RecheckCancelled, Disarm, CancelDisarmed, RecType
<1>2. ASSUME NEW t \in Workers, WorkerStep(t) PROVE StartAttempt(t) /\ job[t] = j
  <2>1. CASE AttemptStep(t)
    <3>1. job[t] \in Jobs
      BY <1>t, <2>1, ThreadKinds DEF AttemptStep, At, ReadRecord, StartAttempt, ResolvePending, ClearOutput, SavePlain,
             PlanPublication, EnterPublication, Commit, CompletePublication, Raise, NoticeCancel, RecordCancelled,
             FinishAttempt, Notify, CompleteAfterFailure, RecordFailure
    <3>2. PICK k \in Jobs : k = job[t]
      BY <3>1
    <3>3. ~ (ReadRecord(t) \/ ClearOutput(t) \/ SavePlain(t) \/ PlanPublication(t) \/ EnterPublication(t))
      BY <1>n, <1>r, <1>s, <3>2 DEF ReadRecord, ClearOutput, SavePlain, PlanPublication, EnterPublication, RecType
    <3>4. ~ (Commit(t) \/ Raise(t) \/ NoticeCancel(t) \/ RecordCancelled(t) \/ Notify(t) \/ RecordFailure(t))
      BY <1>n, <1>r, <1>s, <3>2 DEF Commit, Raise, NoticeCancel, RecordCancelled, Notify, RecordFailure, RecType
    <3>5. ~ (ResolvePending(t) \/ FinishAttempt(t) \/ CompleteAfterFailure(t))
      BY <1>f, <1>n, <3>2 DEF ResolvePending, FinishAttempt, CompleteAfterFailure
    <3>6. ~ CompletePublication(t)
      BY <1>r, <1>s, <3>2 DEF CompletePublication, Complete, RecType
    <3>7. StartAttempt(t)
      BY <2>1, <3>3, <3>4, <3>5, <3>6 DEF AttemptStep
    <3>8. k = j
      BY <3>2, <3>7 DEF StartAttempt, Save, TypeOK, StoreType
    <3> QED BY <3>2, <3>7, <3>8
  <2>2. CASE RetryStep(t)
    BY <1>e, <2>2, ThreadKinds
  <2>3. CASE ~AttemptStep(t) /\ ~RetryStep(t)
    BY <1>2, <1>n, <2>3 DEF WorkerStep, PickUp, TryLease, ReadUnderLease, WaitForSlot, ReleaseLease, PopFuture, StartWatcher
  <2> QED BY <2>1, <2>2, <2>3
<1>g. ASSUME NEW t \in Watchers \cup Mains, RecoveryStep(t) PROVE FALSE
  <2>1. CASE RetryStep(t)
    BY <1>e, <2>1, ThreadKinds
  <2>2. CASE ~RetryStep(t)
    <3>1. job[t] \in Jobs
      BY <1>g, <1>t, <2>2, ThreadKinds
         DEF RecoveryStep, At, Reconciles, Recover, RecoverCommitting, RecoverFailed, DeferRecovery,
             RecoverUnpublished, RecoverCompleted, FinishFailed, Announce, ReleaseRecovered, EnqueueRecovered
    <3>2. PICK k \in Jobs : k = job[t]
      BY <3>1
    <3>3. ~ (Recover(t) \/ RecoverUnpublished(t))
      BY <1>n, <1>r, <1>s, <3>2 DEF Recover, RecoverUnpublished, RecType
    <3>4. ~ (RecoverCommitting(t) \/ RecoverCompleted(t) \/ RecoverFailed(t) \/ FinishFailed(t))
      BY <1>f, <1>n, <3>2 DEF RecoverCommitting, RecoverCompleted, RecoverFailed, FinishFailed
    <3> QED BY <1>g, <1>n, <2>2, <3>3, <3>4
            DEF RecoveryStep, Reconciles, DeferRecovery, Announce, ReleaseRecovered, EnqueueRecovered
  <2> QED BY <2>1, <2>2
<1>3. CASE \E w \in Watchers : WatcherStep(w)
  BY <1>3, <1>g, <1>n DEF WatcherStep, WatcherLease, WatcherStops, WatcherDiscards, WatcherLeaves
<1>4. ASSUME NEW m \in Mains, MainStep(m) PROVE FALSE
  <2>1. ASSUME NEW k \in Jobs, ReplayClaim(m, k) PROVE FALSE
    BY <1>r, <1>s, <2>1 DEF ReplayClaim, RecType
  <2> QED BY <1>4, <1>g, <1>n, <2>1 DEF MainStep, RecoverNext, StartWatcher, BeginReconciling, BeginReplay, Replay
<1>5. CASE \E k \in Jobs : BackoffPasses(k)
  BY <1>5, <1>r, <1>s DEF BackoffPasses, RecType
<1>6. CASE \/ \E p \in Procs, k \in Jobs : TimerStep(p, k)
           \/ \E p \in Procs : ProcessStep(p)
           \/ IngestBegins \/ IngestEnds \/ UNCHANGED vars
  BY <1>6, <1>n DEF TimerStep, TimerFires, EnqueueRetry, ProcessStep, StartProcess, Shutdown, CloseExecutor, Exit, Crash,
                    Die, IngestBegins, IngestEnds, vars
<1> QED BY <1>1, <1>2, <1>3, <1>4, <1>5, <1>6 DEF Next

-----------------------------------------------------------------------------
(***************************************************************************)
(* Managed publication in the openEO job runtime, for any number of        *)
(* processes, threads, jobs, runs and attempts.                            *)
(*                                                                         *)
(* PubInv says what the publication on a job's record tells of the store,  *)
(* at each place a thread holding the lease can be at; from it every event *)
(* is the job's own.  DueInv counts the commits a job still owes to the    *)
(* runs asked of it; from it a run commits at most once.  The two together *)
(* show that the runtime keeps the ledger of commits and events.           *)
(***************************************************************************)

(* Commits whose event is not on the record yet. *)
Unrecorded(j) == Commits(j) \ rec[j].events

(* What the record of j tells: its events are its commits, a completed     *)
(* publication names one of them, and a commit without an event is the one *)
(* a publication still committing made above its base.                     *)
Told(j) ==
    LET pub == rec[j].pub IN
    /\ rec[j].events \subseteq Commits(j)
    /\ pub.state = "completed" =>
          pub.snap \in rec[j].events /\ pub.snap > pub.base /\ history[pub.snap].tag = pub.tag
    /\ pub.state \in {"planned", "committing"} => \A i \in rec[j].events : i <= pub.base
    /\ \A i \in Unrecorded(j) : CommitPending(j) /\ i > pub.base /\ history[i].tag = pub.tag
    /\ \A i, k \in Unrecorded(j) : i = k

(* What a thread at l, with the lease of j, knows of the publication. *)
Settled == {"clear", "compute", "gate", "finish", "cancelled", "unpublished", "finishFailed"}

Place(l, j) ==
    LET pub == rec[j].pub IN
    /\ l \in Settled => ~CommitPending(j)
    /\ l = "gate" => pub.state = "planned" /\ pub.base = Len(history)
    /\ l = "commit" => CommitPending(j) /\ pub.base = Len(history)
    /\ l = "complete" => /\ CommitPending(j) /\ Len(history) = pub.base + 1
                         /\ history[Len(history)] = [job |-> j, tag |-> pub.tag]

ToldInv  == \A j \in Jobs : Told(j)
PlaceInv == \A t \in Threads : Needs(t, pc[t]) => Place(pc[t], job[t])
PubInv   == GateExcludesCancel /\ ToldInv /\ PlaceInv

Obliged == Settled \cup {"commit", "complete"}

(* A step that leaves publications and events alone, and lets no pending   *)
(* one be cancelled.                                                       *)
SameRecords ==
    \A j \in Jobs : /\ rec'[j].pub = rec[j].pub /\ rec'[j].events = rec[j].events
                    /\ CommitPending(j) => rec'[j].publishing /\ ~rec'[j].cancel

(* A step of threads that need not know more of a publication after it.    *)
SamePlaces ==
    \A t \in Threads : pc'[t] \in Obliged =>
        /\ job'[t] = job[t]
        /\ pc'[t] = pc[t] \/ (pc'[t] \in {"finish", "cancelled"} /\ pc[t] = "compute")

Unpublishing == history' = history /\ SameRecords /\ SamePlaces

LEMMA PubStays ==
    ASSUME TypeOK, PubInv, Unpublishing PROVE PubInv'
<1>1. GateExcludesCancel'
  BY DEF PubInv, GateExcludesCancel, Unpublishing, SameRecords, CommitPending
<1>2. ToldInv'
  BY DEF PubInv, ToldInv, Told, Unpublishing, SameRecords, Unrecorded, Commits, CommitPending
<1>3. PlaceInv'
  <2> SUFFICES ASSUME NEW t \in Threads, Needs(t, pc'[t]) PROVE Place(pc[t], job[t])'
    BY DEF PlaceInv, Needs
  <2>1. CASE pc'[t] \notin Obliged
    BY <2>1 DEF Place, Obliged, Settled
  <2>2. CASE pc'[t] \in Obliged
    <3>1. /\ job'[t] = job[t] /\ Needs(t, pc[t])
          /\ pc'[t] = pc[t] \/ (pc'[t] \in {"finish", "cancelled"} /\ pc[t] = "compute")
      BY <2>2 DEF Unpublishing, SamePlaces, Needs, WorkerLeased, Attempting, Recovering, RetryAt
    <3>2. Place(pc[t], job[t])
      BY <3>1 DEF PubInv, PlaceInv
    <3>3. job[t] \in Jobs
      BY <3>1 DEF Needs, WorkerLeased, Attempting, Recovering, RetryAt, TypeOK, ThreadType
    <3>4. rec'[job[t]].pub = rec[job[t]].pub /\ history' = history
      BY <3>3 DEF Unpublishing, SameRecords
    <3> QED BY <3>1, <3>2, <3>4 DEF Place, CommitPending, Settled
  <2> QED BY <2>1, <2>2
<1> QED BY <1>1, <1>2, <1>3 DEF PubInv

(* A save of the thread that holds the lease. *)
LEMMA PubMoves ==
    ASSUME TypeOK, LockInv, PubInv, NEW t \in Threads, NEW k \in Jobs, NEW l, k = job[t],
           Needs(t, pc[t]), OnlyMoves(t), pc'[t] = l, job'[t] = k, history' = history,
           \A j \in Jobs : j # k => rec'[j] = rec[j],
           CommitPending(k)' => rec'[k].publishing /\ ~rec'[k].cancel,
           Told(k)', Place(l, k)'
    PROVE  PubInv'
<1>1. GateExcludesCancel'
  <2> SUFFICES ASSUME NEW j \in Jobs, CommitPending(j)' PROVE rec'[j].publishing /\ ~rec'[j].cancel
    BY DEF GateExcludesCancel
  <2> QED BY DEF PubInv, GateExcludesCancel, CommitPending
<1>2. ToldInv'
  <2> SUFFICES ASSUME NEW j \in Jobs, j # k PROVE Told(j)'
    BY DEF ToldInv
  <2>1. rec'[j] = rec[j] /\ Told(j)
    BY DEF PubInv, ToldInv
  <2> QED BY <2>1 DEF Told, Unrecorded, Commits, CommitPending
<1>3. PlaceInv'
  <2> SUFFICES ASSUME NEW u \in Threads, Needs(u, pc'[u]) PROVE Place(pc[u], job[u])'
    BY DEF PlaceInv, Needs
  <2>1. CASE u = t
    <3>1. pc'[u] = l /\ job'[u] = k
      BY <2>1
    <3> QED BY <3>1 DEF Place, CommitPending
  <2>2. CASE u # t
    <3>1. pc'[u] = pc[u] /\ job'[u] = job[u] /\ Needs(u, pc[u])
      BY <2>2 DEF OnlyMoves
    <3>2. lease[job[u]] = u /\ lease[k] = t /\ Place(pc[u], job[u])
      BY <3>1 DEF LockInv, LeaseInv, PubInv, PlaceInv
    <3>3. job[u] \in Jobs
      BY <3>1 DEF Needs, WorkerLeased, Attempting, Recovering, RetryAt, TypeOK, ThreadType
    <3>4. rec'[job[u]] = rec[job[u]]
      BY <2>2, <3>2, <3>3
    <3> QED BY <3>1, <3>2, <3>4 DEF Place, CommitPending
  <2> QED BY <2>1, <2>2
<1> QED BY <1>1, <1>2, <1>3 DEF PubInv

-----------------------------------------------------------------------------
(* How a save changes what the record tells. *)

LEMMA SettledHasNone ==
    ASSUME NEW j \in Jobs, Told(j), ~CommitPending(j) PROVE Unrecorded(j) = {}
BY DEF Told

LEMMA NoneFound ==
    ASSUME TypeOK, NEW j \in Jobs, Told(j), CommittedSnapshot(j) = 0 PROVE Unrecorded(j) = {}
<1>1. OwnCommits(j) = {}
  BY NewestCommit DEF TypeOK
<1> SUFFICES ASSUME NEW i \in Unrecorded(j) PROVE FALSE
  OBVIOUS
<1>2. i \in DOMAIN history /\ history[i].job = j /\ history[i].tag = rec[j].pub.tag /\ i > rec[j].pub.base
  BY DEF Told, Unrecorded, Commits
<1>3. history[i] \in [job : Jobs \cup {NoJob}, tag : Nat]
  <2>1. PICK C : C = [job : Jobs \cup {NoJob}, tag : Nat]
    OBVIOUS
  <2>2. history \in Seq(C)
    BY <2>1 DEF TypeOK, StoreType
  <2>3. history[i] \in C
    BY <1>2, <2>2
  <2> QED BY <2>1, <2>3
<1>4. history[i] = [job |-> j, tag |-> rec[j].pub.tag]
  BY <1>2, <1>3
<1> QED BY <1>1, <1>2, <1>4 DEF OwnCommits

LEMMA ToldSame ==
    ASSUME NEW j \in Jobs, Told(j), history' = history, rec'[j].pub = rec[j].pub, rec'[j].events = rec[j].events
    PROVE  Told(j)'
BY DEF Told, Unrecorded, Commits, CommitPending

LEMMA ToldNone ==
    ASSUME NEW j \in Jobs, Told(j), Unrecorded(j) = {}, history' = history,
           rec'[j].events = rec[j].events, rec'[j].pub.state = "none"
    PROVE  Told(j)'
BY DEF Told, Unrecorded, Commits, CommitPending

LEMMA ToldPlanned ==
    ASSUME TypeOK, NEW j \in Jobs, Told(j), Unrecorded(j) = {}, history' = history,
           rec'[j].events = rec[j].events, rec'[j].pub.state = "planned", rec'[j].pub.base = Len(history)
    PROVE  Told(j)'
<1>1. \A i \in rec[j].events : i <= Len(history)
  BY DEF Told, Commits, TypeOK, StoreType
<1> QED BY <1>1 DEF Told, Unrecorded, Commits, CommitPending

LEMMA ToldCommitting ==
    ASSUME NEW j \in Jobs, Told(j), rec[j].pub.state = "planned", history' = history,
           rec'[j].events = rec[j].events, rec'[j].pub.state = "committing", rec'[j].pub.base = rec[j].pub.base
    PROVE  Told(j)'
BY DEF Told, Unrecorded, Commits, CommitPending

LEMMA ToldCompleted ==
    ASSUME TypeOK, NEW j \in Jobs, Told(j), CommitPending(j), NEW i \in OwnCommits(j), history' = history,
           Complete(j, i)
    PROVE  Told(j)' /\ Unrecorded(j) = {i} /\ rec'[j].events = rec[j].events \cup {i}
           /\ rec'[j].pub.state = "completed" /\ Unrecorded(j)' = {}
<1>1. rec[j] \in RecType /\ rec[j].pub \in PubType
  BY DEF TypeOK, StoreType, RecType
<1>2. /\ rec'[j].pub.state = "completed" /\ rec'[j].pub.snap = i /\ rec'[j].pub.base = rec[j].pub.base
      /\ rec'[j].pub.tag = rec[j].pub.tag /\ rec'[j].events = rec[j].events \cup {i}
  <2>1. PICK q : q = [rec[j].pub EXCEPT !.state = "completed", !.snap = i]
    OBVIOUS
  <2>2. q.state = "completed" /\ q.snap = i /\ q.base = rec[j].pub.base /\ q.tag = rec[j].pub.tag
    BY <1>1, <2>1 DEF PubType
  <2>3. rec'[j] = [rec[j] EXCEPT !.pub = q, !.events = rec[j].events \cup {i}]
    BY <2>1 DEF Complete, Save, TypeOK, StoreType
  <2>4. rec'[j].pub = q /\ rec'[j].events = rec[j].events \cup {i}
    BY <1>1, <2>3 DEF RecType
  <2> QED BY <2>2, <2>4
<1>3. i \in Commits(j) /\ i > rec[j].pub.base /\ history[i].tag = rec[j].pub.tag
  BY DEF OwnCommits, Commits
<1>4. i \notin rec[j].events
  <2>1. i \in Nat /\ rec[j].pub.base \in Nat
    BY <1>1, <1>3 DEF Commits, TypeOK, StoreType, PubType
  <2> QED BY <1>3, <2>1 DEF Told, CommitPending
<1>5. Unrecorded(j) = {i}
  BY <1>3, <1>4 DEF Told, Unrecorded
<1>6. Unrecorded(j)' = {} /\ Commits(j)' = Commits(j)
  BY <1>2, <1>5 DEF Unrecorded, Commits
<1> QED BY <1>2, <1>3, <1>5, <1>6 DEF Told, CommitPending

-----------------------------------------------------------------------------
(* Publications, step by step. *)

LEMMA SameSaves ==
    ASSUME TypeOK, PubInv, NEW k \in Jobs, NEW r, Save(k, r),
           r.pub = rec[k].pub, r.events = rec[k].events,
           \/ ~CommitPending(k)
           \/ (rec[k].publishing => r.publishing) /\ (r.cancel => rec[k].cancel)
    PROVE  SameRecords
BY DEF SameRecords, Save, TypeOK, StoreType, PubInv, GateExcludesCancel

LEMMA SameFrame == ASSUME PubInv, UNCHANGED rec PROVE SameRecords
BY DEF SameRecords, PubInv, GateExcludesCancel

LEMMA PlacesFrame ==
    ASSUME NEW t \in Threads, OnlyMoves(t), pc'[t] \notin Obliged PROVE SamePlaces
BY DEF OnlyMoves, SamePlaces

LEMMA HandlerPubs ==
    ASSUME TypeOK, PubInv, Request \/ \E h \in Handlers : HandlerStep(h)
    PROVE  PubInv'
<1>1. PICK h \in Handlers, j \in Jobs :
          \/ CreateJob(h, j) \/ CreateTriggered(h, j) \/ StartRead(h, j) \/ CancelWaiting(h, j)
          \/ HandlerStep(h) /\ j = job[h]
  <2>1. ASSUME NEW h \in Handlers, HandlerStep(h) PROVE job[h] \in Jobs
    BY <2>1, ThreadKinds DEF HandlerStep, Claim, StartWrite, EnqueueRequested, CancelWrite, At, TypeOK, ThreadType
  <2> QED BY <2>1 DEF Request
<1> h \in Threads
  BY ThreadKinds
<1>2. history' = history
  BY <1>1 DEF CreateJob, CreateTriggered, StartRead, CancelWaiting, HandlerStep, Claim, StartWrite, EnqueueRequested,
              CancelWrite, dataset
<1>3. SamePlaces
  <2>1. CancelWaiting(h, j) => OnlyMoves(h) /\ pc'[h] = "cancel"
    BY DEF CancelWaiting, OnlyMoves, TypeOK, ThreadType
  <2>2. CreateJob(h, j) => UNCHANGED <<pc, job>>
    BY DEF CreateJob, local
  <2>3. ~CreateJob(h, j) => OnlyMoves(h) /\ pc'[h] \in HandlerAt
    BY <1>1, <2>1, MoveFacts DEF CreateTriggered, StartRead, HandlerStep, Claim, StartWrite,
              EnqueueRequested, CancelWrite, StaysWith, TypeOK, HandlerAt
  <2> QED BY <2>2, <2>3, PlacesFrame DEF SamePlaces, HandlerAt, Obliged, Settled
<1>4. SameRecords
  <2>1. rec[j] \in RecType
    BY DEF TypeOK, StoreType
  <2>2. CASE UNCHANGED rec
    BY <2>2, SameFrame
  <2>3. CASE CreateJob(h, j) \/ CreateTriggered(h, j)
    BY <2>1, <2>2, <2>3, SameSaves DEF CreateJob, CreateTriggered, RecType
  <2>4. CASE StartRead(h, j) \/ CancelWaiting(h, j)
    BY <2>2, <2>4 DEF StartRead, CancelWaiting
  <2>5. CASE (Claim(h) \/ StartWrite(h) \/ EnqueueRequested(h)) /\ j = job[h]
    BY <2>1, <2>2, <2>5, SameSaves DEF Claim, StartWrite, EnqueueRequested, RecType
  <2>6. CASE CancelWrite(h) /\ j = job[h]
    <3>1. ~rec[j].publishing => ~CommitPending(j)
      BY DEF PubInv, GateExcludesCancel
    <3> QED BY <2>1, <2>2, <2>6, <3>1, SameSaves DEF CancelWrite, RecType
  <2> QED BY <1>1, <2>3, <2>4, <2>5, <2>6 DEF HandlerStep
<1> QED BY <1>2, <1>3, <1>4, PubStays DEF Unpublishing

LEMMA StartWatcherPubs ==
    ASSUME TypeOK, PubInv, NEW t \in Workers \cup Mains, StartWatcher(t)
    PROVE  PubInv'
<1>1. SamePlaces
  <2>1. \A u \in Threads : pc'[u] \in {"idle", "watching"} \/ (pc'[u] = pc[u] /\ job'[u] = job[u])
    BY ThreadKinds DEF StartWatcher, Return, TypeOK, ThreadType
  <2> QED BY <2>1 DEF SamePlaces, Obliged, Settled
<1> QED BY <1>1, SameFrame, PubStays DEF StartWatcher, Unpublishing, dataset

LEMMA RetryPubs ==
    ASSUME TypeOK, PubInv, NEW t \in Workers \cup Watchers \cup Mains, RetryStep(t)
    PROVE  PubInv'
<1> t \in Threads
  BY ThreadKinds
<1>1. pc[t] \in RetryAt /\ OnlyMoves(t) /\ pc'[t] \in RetryAt \cup {"recovered", "idle"}
  BY MoveFacts, ThreadKinds DEF RetryStep, ScheduleRetry, RecheckCancelled, Disarm, CancelDisarmed, At, RetryAt,
     StaysWith, TypeOK
<1>2. SamePlaces
  BY <1>1, PlacesFrame DEF RetryAt, Obliged, Settled
<1>3. SameRecords
  <2>1. PICK k \in Jobs : k = job[t]
    BY <1>1 DEF TypeOK, ThreadType, RetryAt
  <2>2. UNCHANGED rec \/ Save(k, [rec[k] EXCEPT !.status = "canceled"])
    BY <2>1 DEF RetryStep, ScheduleRetry, RecheckCancelled, Disarm, CancelDisarmed
  <2>3. rec[k] \in RecType
    BY DEF TypeOK, StoreType
  <2> QED BY <2>2, <2>3, SameSaves, SameFrame DEF RecType
<1>4. history' = history
  BY DEF RetryStep, ScheduleRetry, RecheckCancelled, Disarm, CancelDisarmed, dataset
<1> QED BY <1>2, <1>3, <1>4, PubStays DEF Unpublishing

(* Resolving a publication, under the lease of its job. *)
LEMMA ResolutionPubs ==
    ASSUME TypeOK, LockInv, PubInv, NEW t \in Threads, NEW k \in Jobs, NEW l, k = job[t],
           Needs(t, pc[t]), OnlyMoves(t), pc'[t] = l, job'[t] = k, l \notin {"gate", "commit", "complete"},
           UNCHANGED dataset, ReconcileFinds(k) \/ ReconcileFindsNothing(k)
    PROVE  PubInv' /\ ~CommitPending(k)' /\ Unrecorded(k)' = {}
<1>1. Told(k) /\ history' = history /\ CommitPending(k)
  BY DEF PubInv, ToldInv, dataset, ReconcileFinds, ReconcileFindsNothing
<1>2. \A j \in Jobs : j # k => rec'[j] = rec[j]
  BY DEF ReconcileFinds, ReconcileFindsNothing, Complete, Save, TypeOK, StoreType
<1>3. Told(k)' /\ ~CommitPending(k)' /\ Unrecorded(k)' = {}
  <2>1. CASE ReconcileFinds(k)
    <3>1. PICK i \in OwnCommits(k) : Complete(k, i)
      BY <2>1, NewestCommit DEF ReconcileFinds, TypeOK
    <3> QED BY <1>1, <3>1, ToldCompleted DEF CommitPending
  <2>2. CASE ReconcileFindsNothing(k)
    <3>1. rec[k] \in RecType
      BY DEF TypeOK, StoreType
    <3>2. rec'[k].pub = NoPub /\ rec'[k].events = rec[k].events
      BY <2>2, <3>1 DEF ReconcileFindsNothing, Save, TypeOK, StoreType, RecType
    <3>3. Unrecorded(k) = {}
      BY <1>1, <2>2, NoneFound DEF ReconcileFindsNothing
    <3>4. Unrecorded(k)' = {}
      BY <1>1, <3>2, <3>3 DEF Unrecorded, Commits
    <3> QED BY <1>1, <3>2, <3>3, <3>4, ToldNone DEF CommitPending, NoPub
  <2> QED BY <2>1, <2>2
<1>4. Place(l, k)'
  BY <1>3 DEF Place
<1> QED BY <1>1, <1>2, <1>3, <1>4, PubMoves

(* Dropping a publication that is not pending. *)
LEMMA ClearedPubs ==
    ASSUME TypeOK, LockInv, PubInv, NEW t \in Threads, NEW k \in Jobs, NEW l, k = job[t],
           Needs(t, pc[t]), OnlyMoves(t), pc'[t] = l, job'[t] = k, l \notin {"gate", "commit", "complete"},
           UNCHANGED dataset, ~CommitPending(k), NEW q, Save(k, q), q.pub = NoPub, q.events = rec[k].events
    PROVE  PubInv'
<1>1. rec'[k] = q /\ history' = history /\ \A j \in Jobs : j # k => rec'[j] = rec[j]
  BY DEF Save, TypeOK, StoreType, dataset
<1>2. Told(k)
  BY DEF PubInv, ToldInv
<1>3. Told(k)' /\ ~CommitPending(k)'
  BY <1>1, <1>2, SettledHasNone, ToldNone DEF NoPub, CommitPending
<1>4. Place(l, k)'
  BY <1>3 DEF Place
<1> QED BY <1>1, <1>3, <1>4, PubMoves

(* Where the steps of an attempt go. *)
LEMMA AttemptMoves ==
    ASSUME TypeOK, NEW t \in Workers, AttemptStep(t)
    PROVE  /\ pc[t] \in Attempting \cup {"read"} /\ pc'[t] \in Attempting \cup {"unlease"}
           /\ OnlyMoves(t) /\ job'[t] = job[t] /\ job[t] \in Jobs
<1> t \in Threads
  BY ThreadKinds
<1>1. pc[t] \in Attempting \cup {"read"}
  BY DEF AttemptStep, At, ReadRecord, StartAttempt, ResolvePending, ClearOutput, SavePlain, PlanPublication,
         EnterPublication, Commit, CompletePublication, Raise, NoticeCancel, RecordCancelled, FinishAttempt,
         Notify, CompleteAfterFailure, RecordFailure, Attempting
<1>2. ASSUME NEW s, NEW l, seen' = [seen EXCEPT ![t] = s], pc' = [pc EXCEPT ![t] = l], UNCHANGED job
      PROVE  OnlyMoves(t) /\ job'[t] = job[t] /\ pc'[t] = l
  BY <1>2 DEF OnlyMoves, TypeOK, ThreadType
<1>3. CASE ReadRecord(t) \/ StartAttempt(t)
  <2>1. OnlyMoves(t) /\ job'[t] = job[t] /\ pc'[t] \in {"start", "unlease", "resolve", "clear"}
    BY <1>2, <1>3, MoveFacts DEF ReadRecord, StartAttempt, StaysWith, TypeOK
  <2> QED BY <1>1, <2>1 DEF Attempting, TypeOK, ThreadType
<1>4. CASE ~ (ReadRecord(t) \/ StartAttempt(t))
  <2>1. PICK l \in Attempting \cup {"unlease"} : StaysWith(t, l)
    BY <1>4, MoveFacts DEF AttemptStep, ResolvePending, ClearOutput, SavePlain, PlanPublication, EnterPublication,
       Commit, CompletePublication, Raise, NoticeCancel, RecordCancelled, FinishAttempt, Notify,
       CompleteAfterFailure, RecordFailure, Attempting, TypeOK
  <2> QED BY <1>1, <2>1 DEF StaysWith, Attempting, TypeOK, ThreadType
<1> QED BY <1>3, <1>4

(* Steps of an attempt before and after its publication. *)
LEMMA PlainAttemptPubs ==
    ASSUME TypeOK, LockInv, PubInv, NEW t \in Workers, NEW k \in Jobs, k = job[t], AttemptStep(t),
           \/ ReadRecord(t) \/ SavePlain(t) \/ Raise(t) \/ NoticeCancel(t) \/ FinishAttempt(t) \/ Notify(t)
           \/ RecordFailure(t)
    PROVE  PubInv'
<1> t \in Threads
  BY ThreadKinds
<1>r. rec[k] \in RecType
  BY DEF TypeOK, StoreType
<1>g. CommitPending(k) => rec[k].publishing /\ ~rec[k].cancel
  BY DEF PubInv, GateExcludesCancel
<1>1. history' = history
  BY DEF ReadRecord, SavePlain, Raise, NoticeCancel, FinishAttempt, Notify, RecordFailure, dataset
<1>2. SameRecords
  <2>1. UNCHANGED rec => SameRecords
    BY SameFrame
  <2>2. ReadRecord(t) => SameRecords
    BY <1>r, <2>1, SameSaves DEF ReadRecord, RecType
  <2>3. FinishAttempt(t) => SameRecords
    <3>1. FinishAttempt(t) => ~CommitPending(k)
      BY DEF FinishAttempt, At, PubInv, PlaceInv, Place, Settled, Needs, WorkerLeased, Attempting
    <3> QED BY <1>r, <3>1, SameSaves DEF FinishAttempt, Finish, RecType
  <2>4. RecordFailure(t) => SameRecords
    BY <1>r, <1>g, SameSaves DEF RecordFailure, RecType
  <2> QED BY <2>1, <2>2, <2>3, <2>4 DEF SavePlain, Raise, NoticeCancel, Notify
<1>3. SamePlaces
  <2>1. OnlyMoves(t) /\ job'[t] = job[t]
    BY AttemptMoves
  <2>2. pc'[t] \notin Obliged \/ (pc'[t] \in {"finish", "cancelled"} /\ pc[t] = "compute")
    BY MoveFacts DEF ReadRecord, SavePlain, Raise, NoticeCancel, FinishAttempt, Notify, RecordFailure, At,
       StaysWith, Obliged, Settled, TypeOK, ThreadType
  <2> QED BY <2>1, <2>2 DEF SamePlaces, OnlyMoves
<1> QED BY <1>1, <1>2, <1>3, PubStays DEF Unpublishing

(* Steps of an attempt that settle a publication. *)
LEMMA SettlingPubs ==
    ASSUME TypeOK, LockInv, PubInv, NEW t \in Workers, NEW k \in Jobs, k = job[t], AttemptStep(t),
           StartAttempt(t) \/ ResolvePending(t) \/ ClearOutput(t) \/ RecordCancelled(t) \/ CompleteAfterFailure(t)
    PROVE  PubInv'
<1> t \in Threads
  BY ThreadKinds
<1>r. rec[k] \in RecType /\ Told(k) /\ (CommitPending(k) => rec[k].publishing /\ ~rec[k].cancel)
  BY DEF TypeOK, StoreType, PubInv, ToldInv, GateExcludesCancel
<1>1. history' = history /\ UNCHANGED dataset
  BY DEF StartAttempt, ResolvePending, ClearOutput, RecordCancelled, CompleteAfterFailure, dataset
<1>2. OnlyMoves(t) /\ job'[t] = k
  BY AttemptMoves
<1>3. Needs(t, pc[t]) /\ (pc[t] \in {"clear", "cancelled"} => ~CommitPending(k))
  <2>1. Needs(t, pc[t])
    BY AttemptMoves DEF Needs, WorkerLeased
  <2> QED BY <2>1 DEF PubInv, PlaceInv, Place, Settled
<1>4. ASSUME NEW l, pc'[t] = l, l \in {"clear", "compute", "unlease"}, ~CommitPending(k), NEW q,
             Save(k, q), q.pub = NoPub, q.events = rec[k].events
      PROVE  PubInv'
  BY <1>1, <1>2, <1>3, <1>4, ClearedPubs
<1>5. CASE StartAttempt(t)
  <2>1. CASE CommitPending(k)
    <3>1. SameRecords
      BY <1>5, <1>r, <2>1, SameSaves DEF StartAttempt, RecType
    <3>2. pc'[t] = "resolve"
      BY <1>5, <2>1 DEF StartAttempt, TypeOK, ThreadType
    <3> QED BY <1>1, <1>2, <3>1, <3>2, PlacesFrame, PubStays DEF Unpublishing, Obliged, Settled
  <2>2. CASE ~CommitPending(k)
    <3>1. pc'[t] = "clear"
      BY <1>5, <2>2 DEF StartAttempt, TypeOK, ThreadType
    <3>2. PICK q : q = [rec[k] EXCEPT !.status = "running", !.attempt = rec[k].attempt + 1, !.waiting = FALSE,
                                      !.publishing = FALSE, !.pub = NoPub]
      OBVIOUS
    <3>3. q.pub = NoPub /\ q.events = rec[k].events
      BY <1>r, <3>2 DEF RecType
    <3>4. CommitPending(k) = FALSE
      BY <2>2 DEF CommitPending
    <3>5. Save(k, q)
      BY <1>5, <3>2, <3>4 DEF StartAttempt, Save
    <3> QED BY <1>4, <2>2, <3>1, <3>3, <3>5
  <2> QED BY <2>1, <2>2
<1>6. CASE ResolvePending(t)
  <2>1. pc'[t] \in {"clear", "finish"}
    BY <1>6, MoveFacts DEF ResolvePending, StaysWith, TypeOK
  <2> QED BY <1>1, <1>2, <1>3, <1>6, <2>1, ResolutionPubs DEF ResolvePending
<1>7. CASE ClearOutput(t)
  <2>1. pc[t] = "clear" /\ pc'[t] = "compute"
    BY <1>7, MoveFacts DEF ClearOutput, At, StaysWith, TypeOK
  <2>2. PICK q : q = [rec[k] EXCEPT !.publishing = FALSE, !.pub = NoPub]
    OBVIOUS
  <2>3. q.pub = NoPub /\ q.events = rec[k].events
    BY <1>r, <2>2 DEF RecType
  <2>4. Save(k, q)
    BY <1>7, <2>2 DEF ClearOutput
  <2> QED BY <1>3, <1>4, <2>1, <2>3, <2>4
<1>8. CASE RecordCancelled(t)
  <2>1. pc[t] = "cancelled" /\ pc'[t] = "unlease"
    BY <1>8, MoveFacts DEF RecordCancelled, At, StaysWith, TypeOK
  <2>2. PICK q : q = [rec[k] EXCEPT !.status = "canceled", !.publishing = FALSE, !.pub = NoPub]
    OBVIOUS
  <2>3. q.pub = NoPub /\ q.events = rec[k].events
    BY <1>r, <2>2 DEF RecType
  <2>4. Save(k, q)
    BY <1>8, <2>2 DEF RecordCancelled
  <2> QED BY <1>3, <1>4, <2>1, <2>3, <2>4
<1>9. CASE CompleteAfterFailure(t)
  <2>1. \/ UNCHANGED rec /\ Goto(t, IF rec[k].pub.state = "completed" THEN "finish" ELSE "failed")
        \/ ReconcileFinds(k) /\ Goto(t, "finish")
        \/ ReconcileFindsNothing(k) /\ Goto(t, "failed")
    BY <1>9 DEF CompleteAfterFailure
  <2>2. CASE UNCHANGED rec /\ Goto(t, IF rec[k].pub.state = "completed" THEN "finish" ELSE "failed")
    <3>1. PICK l \in {"finish", "failed"} : l = IF rec[k].pub.state = "completed" THEN "finish" ELSE "failed"
      OBVIOUS
    <3>2. Goto(t, l) /\ (l = "finish" => ~CommitPending(k))
      BY <2>2, <3>1 DEF CommitPending
    <3>4. pc'[t] = l
      BY <3>2, MoveFacts DEF StaysWith, TypeOK
    <3>3. Told(k)' /\ Place(l, k)'
      BY <1>1, <1>r, <2>2, <3>2, ToldSame DEF Place, CommitPending, Settled
    <3> QED BY <1>1, <1>2, <1>3, <1>r, <2>2, <3>3, <3>4, PubMoves DEF CommitPending
  <2>3. CASE (ReconcileFinds(k) /\ Goto(t, "finish")) \/ (ReconcileFindsNothing(k) /\ Goto(t, "failed"))
    <3>1. pc'[t] \in {"finish", "failed"}
      BY <2>3, MoveFacts DEF StaysWith, TypeOK
    <3> QED BY <1>1, <1>2, <1>3, <2>3, <3>1, ResolutionPubs
  <2> QED BY <2>1, <2>2, <2>3
<1> QED BY <1>5, <1>6, <1>7, <1>8, <1>9

(* The publication itself, under the writer lock. *)
LEMMA PublishingPubs ==
    ASSUME TypeOK, LockInv, PubInv, NEW t \in Workers, NEW k \in Jobs, k = job[t], AttemptStep(t),
           PlanPublication(t) \/ EnterPublication(t) \/ CompletePublication(t)
    PROVE  PubInv'
<1> t \in Threads
  BY ThreadKinds
<1>r. rec[k] \in RecType /\ rec[k].pub \in PubType /\ Told(k)
  BY DEF TypeOK, StoreType, RecType, PubInv, ToldInv
<1>1. history' = history
  BY DEF PlanPublication, EnterPublication, CompletePublication
<1>2. OnlyMoves(t) /\ job'[t] = k
  BY AttemptMoves
<1>3. Needs(t, pc[t]) /\ Place(pc[t], k)
  <2>1. Needs(t, pc[t])
    BY AttemptMoves DEF Needs, WorkerLeased
  <2> QED BY <2>1 DEF PubInv, PlaceInv
<1>5. CASE PlanPublication(t)
  <2>1. pc[t] = "compute" /\ pc'[t] = "gate"
    BY <1>5, MoveFacts DEF PlanPublication, At, StaysWith, TypeOK
  <2>2. Unrecorded(k) = {}
    BY <1>3, <1>r, <2>1, SettledHasNone DEF Place, Settled
  <2>3. PICK q : q = [state |-> "planned", base |-> Len(history), tag |-> rec[k].attempt, snap |-> 0]
    OBVIOUS
  <2>4. rec' = [rec EXCEPT ![k] = [rec[k] EXCEPT !.pub = q]]
    BY <1>5, <2>3 DEF PlanPublication, Save
  <2>5. rec'[k].pub = q /\ rec'[k].events = rec[k].events /\ \A j \in Jobs : j # k => rec'[j] = rec[j]
    BY <1>r, <2>4 DEF TypeOK, StoreType, RecType
  <2>6. Told(k)'
    BY <1>1, <1>r, <2>2, <2>3, <2>5, ToldPlanned
  <2>7. ~CommitPending(k)' /\ Place("gate", k)'
    BY <1>1, <2>3, <2>5 DEF Place, CommitPending, Settled
  <2> QED BY <1>1, <1>2, <1>3, <2>1, <2>5, <2>6, <2>7, PubMoves
<1>6. CASE EnterPublication(t)
  <2>1. pc[t] = "gate"
    BY <1>6 DEF EnterPublication, At
  <2>2. rec[k].pub.state = "planned" /\ rec[k].pub.base = Len(history)
    BY <1>3, <2>1 DEF Place
  <2>3. CASE rec[k].cancel
    <3>1. pc'[t] = "cancelled" /\ UNCHANGED rec
      BY <1>6, <2>3, MoveFacts DEF EnterPublication, StaysWith, TypeOK
    <3>2. Told(k)' /\ ~CommitPending(k)' /\ Place("cancelled", k)'
      BY <1>1, <1>r, <2>2, <3>1, ToldSame DEF Place, CommitPending
    <3> QED BY <1>1, <1>2, <1>3, <3>1, <3>2, PubMoves
  <2>4. CASE ~rec[k].cancel
    <3>1. pc'[t] = "commit"
      BY <1>6, <2>4, MoveFacts DEF EnterPublication, StaysWith, TypeOK
    <3>2. PICK q : q = [rec[k].pub EXCEPT !.state = "committing"]
      OBVIOUS
    <3>3. q.state = "committing" /\ q.base = rec[k].pub.base
      BY <1>r, <3>2 DEF PubType
    <3>4. rec' = [rec EXCEPT ![k] = [rec[k] EXCEPT !.publishing = TRUE, !.pub = q]]
      BY <1>6, <2>4, <3>2 DEF EnterPublication, Save
    <3>5. /\ rec'[k].pub = q /\ rec'[k].events = rec[k].events /\ rec'[k].publishing /\ ~rec'[k].cancel
          /\ \A j \in Jobs : j # k => rec'[j] = rec[j]
      BY <1>r, <2>4, <3>4 DEF TypeOK, StoreType, RecType
    <3>6. Told(k)'
      BY <1>1, <1>r, <2>2, <3>3, <3>5, ToldCommitting
    <3>7. Place("commit", k)'
      BY <1>1, <2>2, <3>3, <3>5 DEF Place, CommitPending, Settled
    <3> QED BY <1>1, <1>2, <1>3, <3>1, <3>5, <3>6, <3>7, PubMoves
  <2> QED BY <2>3, <2>4
<1>7. CASE CompletePublication(t)
  <2>1. pc[t] = "complete" /\ pc'[t] = "finish"
    BY <1>7, MoveFacts DEF CompletePublication, At, StaysWith, TypeOK
  <2>2. /\ CommitPending(k) /\ Len(history) = rec[k].pub.base + 1
        /\ history[Len(history)] = [job |-> k, tag |-> rec[k].pub.tag]
    BY <1>3, <2>1 DEF Place
  <2>3. Len(history) \in OwnCommits(k)
    <3>1. rec[k].pub.base \in Nat /\ Len(history) \in Nat
      BY <1>r DEF PubType, TypeOK, StoreType
    <3>2. Len(history) > rec[k].pub.base /\ Len(history) \in 1..Len(history)
      BY <2>2, <3>1
    <3>3. DOMAIN history = 1..Len(history)
      BY DEF TypeOK, StoreType
    <3> QED BY <2>2, <3>2, <3>3 DEF OwnCommits
  <2>4. Complete(k, Len(history))
    BY <1>7 DEF CompletePublication
  <2>5. Told(k)' /\ rec'[k].pub.state = "completed"
    BY <1>1, <1>r, <2>2, <2>3, <2>4, ToldCompleted
  <2>6. ~CommitPending(k)' /\ Place("finish", k)'
    BY <2>5 DEF Place, CommitPending
  <2>7. \A j \in Jobs : j # k => rec'[j] = rec[j]
    BY <2>4 DEF Complete, Save, TypeOK, StoreType
  <2> QED BY <1>1, <1>2, <1>3, <2>1, <2>5, <2>6, <2>7, PubMoves
<1> QED BY <1>5, <1>6, <1>7

(* What an append to the store's history adds. *)
LEMMA Appended ==
    ASSUME TypeOK, NEW e \in [job : Jobs \cup {NoJob}, tag : Nat], history' = Append(history, e)
    PROVE  /\ Len(history) \in Nat /\ DOMAIN history = 1..Len(history)
           /\ Len(history') = Len(history) + 1 /\ DOMAIN history' = 1..(Len(history) + 1)
           /\ history'[Len(history) + 1] = e
           /\ \A i \in 1..Len(history) : history'[i] = history[i]
           /\ \A j \in Jobs : /\ Commits(j) \subseteq 1..Len(history)
                              /\ Commits(j)' = IF e.job = j THEN Commits(j) \cup {Len(history) + 1} ELSE Commits(j)
<1>1. PICK C : C = [job : Jobs \cup {NoJob}, tag : Nat]
  OBVIOUS
<1>2. history \in Seq(C) /\ e \in C
  BY <1>1 DEF TypeOK, StoreType
<1>3. /\ Len(history) \in Nat /\ DOMAIN history = 1..Len(history)
      /\ Len(history') = Len(history) + 1 /\ DOMAIN history' = 1..(Len(history) + 1)
      /\ history'[Len(history) + 1] = e
      /\ \A i \in 1..Len(history) : history'[i] = history[i]
  BY <1>2
<1>4. ASSUME NEW j \in Jobs
      PROVE  /\ Commits(j) \subseteq 1..Len(history)
             /\ Commits(j)' = IF e.job = j THEN Commits(j) \cup {Len(history) + 1} ELSE Commits(j)
  BY <1>3 DEF Commits
<1> QED BY <1>3, <1>4

(* Another's commit changes nothing a record tells. *)
LEMMA ToldByOthers ==
    ASSUME TypeOK, NEW j \in Jobs, Told(j), NEW e \in [job : Jobs \cup {NoJob}, tag : Nat], e.job # j,
           history' = Append(history, e), rec'[j] = rec[j]
    PROVE  Told(j)'
<1>1. Commits(j)' = Commits(j) /\ \A i \in Commits(j) : history'[i] = history[i]
  BY Appended
<1>2. Unrecorded(j)' = Unrecorded(j) /\ Unrecorded(j) \subseteq Commits(j)
  BY <1>1 DEF Unrecorded
<1> QED BY <1>1, <1>2 DEF Told, CommitPending

LEMMA CommitPubs ==
    ASSUME TypeOK, LockInv, PubInv, NEW t \in Workers, NEW k \in Jobs, k = job[t], AttemptStep(t), Commit(t)
    PROVE  PubInv'
<1> t \in Threads
  BY ThreadKinds
<1>r. rec' = rec /\ rec[k] \in RecType /\ rec[k].pub \in PubType /\ Told(k)
  BY DEF TypeOK, StoreType, RecType, PubInv, ToldInv, Commit
<1>1. PICK e : e = [job |-> k, tag |-> rec[k].pub.tag]
  OBVIOUS
<1>2. e \in [job : Jobs \cup {NoJob}, tag : Nat] /\ e.job = k /\ history' = Append(history, e)
  BY <1>1, <1>r DEF PubType, Commit
<1>3. pc[t] = "commit" /\ pc'[t] = "complete" /\ OnlyMoves(t) /\ job'[t] = k
  BY AttemptMoves, MoveFacts DEF Commit, At, StaysWith, TypeOK
<1>4. CommitPending(k) /\ rec[k].pub.base = Len(history)
  BY <1>3 DEF PubInv, PlaceInv, Place, Needs, WorkerLeased, Attempting
<1>5. GateExcludesCancel'
  BY <1>r DEF PubInv, GateExcludesCancel, CommitPending
<1>6. ToldInv'
  <2>1. Told(k)'
    <3>1. Commits(k)' = Commits(k) \cup {Len(history) + 1} /\ Commits(k) \subseteq 1..Len(history) /\ Len(history) \in Nat
      BY <1>2, Appended
    <3>2. Unrecorded(k) = {}
      BY <1>4, <1>r, <3>1 DEF Told, Unrecorded
    <3>3. Unrecorded(k)' = {Len(history) + 1}
      BY <1>r, <3>1, <3>2 DEF Unrecorded, Told
    <3>4. history'[Len(history) + 1].tag = rec[k].pub.tag
      BY <1>1, <1>2, Appended
    <3> QED BY <1>4, <1>r, <3>1, <3>3, <3>4 DEF Told, CommitPending
  <2>2. ASSUME NEW j \in Jobs, j # k PROVE Told(j)'
    BY <1>2, <1>r, <2>2, ToldByOthers DEF PubInv, ToldInv
  <2> QED BY <2>1, <2>2 DEF ToldInv
<1>7. PlaceInv'
  <2> SUFFICES ASSUME NEW u \in Threads, Needs(u, pc'[u]) PROVE Place(pc[u], job[u])'
    BY DEF PlaceInv, Needs
  <2>1. CASE u = t
    <3>1. pc'[u] = "complete" /\ job'[u] = k
      BY <1>3, <2>1
    <3>2. /\ CommitPending(k)' /\ Len(history') = rec'[k].pub.base + 1
          /\ history'[Len(history')] = [job |-> k, tag |-> rec'[k].pub.tag]
      BY <1>1, <1>2, <1>4, <1>r, Appended DEF CommitPending
    <3> QED BY <3>1, <3>2 DEF Place, Settled
  <2>2. CASE u # t
    <3>1. pc'[u] = pc[u] /\ job'[u] = job[u] /\ Needs(u, pc[u])
      BY <1>3, <2>2 DEF OnlyMoves
    <3>2. pc[u] \notin Saving
      BY <1>3, <2>2, <3>1, ThreadKinds DEF LockInv, WriterInv, Saving, Needs, Recovering, RetryAt
    <3> QED BY <1>r, <3>1, <3>2 DEF PubInv, PlaceInv, Place, Saving, CommitPending
  <2> QED BY <2>1, <2>2
<1> QED BY <1>5, <1>6, <1>7 DEF PubInv

LEMMA WorkerPubs ==
    ASSUME TypeOK, LockInv, PubInv, NEW t \in Workers, WorkerStep(t)
    PROVE  PubInv'
<1> t \in Threads
  BY ThreadKinds
<1>1. CASE AttemptStep(t)
  <2>1. PICK k \in Jobs : k = job[t]
    BY <1>1, AttemptMoves
  <2> QED BY <1>1, <2>1, PlainAttemptPubs, SettlingPubs, PublishingPubs, CommitPubs DEF AttemptStep
<1>2. CASE RetryStep(t)
  BY <1>2, RetryPubs
<1>3. CASE StartWatcher(t)
  BY <1>3, StartWatcherPubs
<1>4. CASE PickUp(t) \/ TryLease(t) \/ ReadUnderLease(t) \/ WaitForSlot(t) \/ ReleaseLease(t) \/ PopFuture(t)
  <2>1. OnlyMoves(t) /\ pc'[t] \in {"picked", "leased", "pop", "slot", "read", "unlease", "retry", "watch", "idle"}
    BY <1>4, MoveFacts DEF PickUp, TryLease, ReadUnderLease, WaitForSlot, ReleaseLease, PopFuture, StaysWith,
       TypeOK, ThreadType
  <2>2. SamePlaces
    BY <2>1, PlacesFrame DEF Obliged, Settled
  <2>3. UNCHANGED rec /\ history' = history
    BY <1>4 DEF PickUp, TryLease, ReadUnderLease, WaitForSlot, ReleaseLease, PopFuture, dataset
  <2> QED BY <2>2, <2>3, SameFrame, PubStays DEF Unpublishing
<1> QED BY <1>1, <1>2, <1>3, <1>4 DEF WorkerStep
LEMMA RecoveryPubs ==
    ASSUME TypeOK, LockInv, PubInv, NEW t \in Watchers \cup Mains, RecoveryStep(t)
    PROVE  PubInv'
<1> t \in Threads
  BY ThreadKinds
<1>1. CASE RetryStep(t)
  BY <1>1, RetryPubs
<1>2. CASE ~RetryStep(t)
  <2>1. job[t] \in Jobs
    BY <1>2, ThreadKinds
       DEF RecoveryStep, At, Reconciles, Recover, RecoverCommitting, RecoverFailed, DeferRecovery,
           RecoverUnpublished, RecoverCompleted, FinishFailed, Announce, ReleaseRecovered, EnqueueRecovered,
           TypeOK, ThreadType
  <2>2. PICK k \in Jobs : k = job[t]
    BY <2>1
  <2>r. rec[k] \in RecType
    BY DEF TypeOK, StoreType
  <2>q. ASSUME NEW l, OnlyMoves(t), pc'[t] = l, l \notin Obliged, history' = history, SameRecords PROVE PubInv'
    BY <2>q, PlacesFrame, PubStays DEF Unpublishing
  <2>n. Needs(t, "recover") /\ Needs(t, "unpublished") /\ Needs(t, "recoverFailed") /\ Needs(t, "finishFailed")
    BY DEF Needs, Recovering
  <2>3. CASE Recover(t)
    <3>1. PICK l \in {"recovered", "retry"} : OnlyMoves(t) /\ pc'[t] = l
      BY <2>3, MoveFacts DEF Recover, StaysWith, TypeOK
    <3>2. rec[k].status = "running" /\ rec[k].pub.state = "none" => ~CommitPending(k)
      BY DEF CommitPending
    <3>3. SameRecords
      BY <2>2, <2>3, <2>r, <3>2, SameSaves, SameFrame DEF Recover, RecType
    <3> QED BY <2>3, <2>q, <3>1, <3>3 DEF Recover, dataset, Obliged, Settled
  <2>4. CASE RecoverCommitting(t)
    <3>1. PICK l \in {"recover", "unpublished"} : OnlyMoves(t) /\ pc'[t] = l /\ job'[t] = job[t]
      BY <2>4, MoveFacts DEF RecoverCommitting, StaysWith, TypeOK
    <3>2. pc[t] = "recover" /\ (ReconcileFinds(k) \/ ReconcileFindsNothing(k)) /\ UNCHANGED dataset
      BY <2>2, <2>4 DEF RecoverCommitting, At
    <3> QED BY <2>2, <2>n, <3>1, <3>2, ResolutionPubs
  <2>5. CASE RecoverFailed(t)
    <3>1. PICK l \in {"recovered", "finishFailed"} : OnlyMoves(t) /\ pc'[t] = l /\ job'[t] = job[t]
      BY <2>5, MoveFacts DEF RecoverFailed, StaysWith, TypeOK
    <3>2. pc[t] = "recoverFailed" /\ UNCHANGED dataset
      BY <2>5 DEF RecoverFailed, At
    <3>3. CASE ReconcileFinds(k) \/ ReconcileFindsNothing(k)
      BY <2>2, <2>n, <3>1, <3>2, <3>3, ResolutionPubs
    <3>4. CASE UNCHANGED rec /\ Leave(t, "recovered", "none")
      <4>1. pc'[t] = "recovered"
        BY <3>4, MoveFacts DEF StaysWith, TypeOK
      <4> QED BY <2>q, <3>1, <3>2, <3>4, <4>1, SameFrame DEF dataset, Obliged, Settled
    <3> QED BY <2>2, <2>5, <3>3, <3>4 DEF RecoverFailed
  <2>6. CASE RecoverUnpublished(t)
    <3>1. PICK l \in {"recover", "recovered"} : OnlyMoves(t) /\ pc'[t] = l /\ job'[t] = job[t]
      BY <2>6, MoveFacts DEF RecoverUnpublished, StaysWith, TypeOK
    <3>2. Needs(t, pc[t]) /\ ~CommitPending(k) /\ UNCHANGED dataset
      BY <2>2, <2>6, <2>n DEF RecoverUnpublished, At, PubInv, PlaceInv, Place, Settled, CommitPending
    <3>3. PICK a, b : /\ a = [rec[k] EXCEPT !.pub = NoPub, !.publishing = FALSE]
                      /\ b = [rec[k] EXCEPT !.pub = NoPub, !.publishing = FALSE, !.status = "queued"]
      OBVIOUS
    <3>4. a.pub = NoPub /\ a.events = rec[k].events /\ b.pub = NoPub /\ b.events = rec[k].events
      BY <2>r, <3>3 DEF RecType
    <3>5. Save(k, a) \/ Save(k, b)
      BY <2>2, <2>6, <3>3 DEF RecoverUnpublished
    <3> QED BY <2>2, <3>1, <3>2, <3>4, <3>5, ClearedPubs
  <2>7. CASE RecoverCompleted(t) \/ FinishFailed(t)
    <3>1. PICK l \in {"announce", "recovered"} : OnlyMoves(t) /\ pc'[t] = l
      BY <2>7, MoveFacts DEF RecoverCompleted, FinishFailed, StaysWith, TypeOK
    <3>2. ~CommitPending(k) /\ Finish(k) /\ UNCHANGED dataset
      BY <2>2, <2>7, <2>n DEF RecoverCompleted, FinishFailed, At, PubInv, PlaceInv, Place, Settled, CommitPending
    <3>3. SameRecords
      BY <2>r, <3>2, SameSaves DEF Finish, RecType
    <3> QED BY <2>q, <3>1, <3>2, <3>3 DEF dataset, Obliged, Settled
  <2>8. CASE DeferRecovery(t) \/ Announce(t) \/ ReleaseRecovered(t) \/ EnqueueRecovered(t)
    <3>1. PICK l \in {"watching", "watch", "recovered", "leaving", "idle", "announce", "discard", "requeue"} :
              OnlyMoves(t) /\ pc'[t] = l
      BY <2>8, MoveFacts DEF DeferRecovery, Announce, ReleaseRecovered, EnqueueRecovered, StaysWith, TypeOK
    <3>2. UNCHANGED rec /\ history' = history
      BY <2>8 DEF DeferRecovery, Announce, ReleaseRecovered, EnqueueRecovered, dataset
    <3> QED BY <2>q, <3>1, <3>2, SameFrame DEF Obliged, Settled
  <2> QED BY <1>2, <2>3, <2>4, <2>5, <2>6, <2>7, <2>8 DEF RecoveryStep, Reconciles
<1> QED BY <1>1, <1>2

LEMMA WatcherPubs ==
    ASSUME TypeOK, LockInv, PubInv, NEW w \in Watchers, WatcherStep(w)
    PROVE  PubInv'
<1> w \in Threads
  BY ThreadKinds
<1>1. CASE RecoveryStep(w)
  BY <1>1, RecoveryPubs
<1>2. CASE ~RecoveryStep(w)
  <2>1. OnlyMoves(w) /\ pc'[w] \in {"recoverFailed", "recover", "leaving", "requeue", "idle"}
    BY <1>2, MoveFacts DEF WatcherStep, WatcherLease, WatcherStops, WatcherDiscards, WatcherLeaves, StaysWith, TypeOK
  <2>2. UNCHANGED rec /\ history' = history
    BY <1>2 DEF WatcherStep, WatcherLease, WatcherStops, WatcherDiscards, WatcherLeaves, dataset
  <2> QED BY <2>1, <2>2, SameFrame, PlacesFrame, PubStays DEF Unpublishing, Obliged, Settled
<1> QED BY <1>1, <1>2

LEMMA MainPubs ==
    ASSUME TypeOK, LockInv, PubInv, NEW m \in Mains, MainStep(m)
    PROVE  PubInv'
<1> m \in Threads
  BY ThreadKinds
<1>1. CASE RecoveryStep(m)
  BY <1>1, RecoveryPubs
<1>2. CASE StartWatcher(m)
  BY <1>2, StartWatcherPubs
<1>3. ASSUME NEW k \in Jobs, RecoverNext(m, k) \/ ReplayClaim(m, k) PROVE PubInv'
  <2>1. OnlyMoves(m) /\ pc'[m] \in {"recover", "recoverFailed", "watch", "requeue"}
    BY <1>3, MoveFacts DEF RecoverNext, ReplayClaim, TypeOK
  <2>2. SameRecords
    <3>1. rec[k] \in RecType
      BY DEF TypeOK, StoreType
    <3> QED BY <1>3, <3>1, SameSaves, SameFrame DEF RecoverNext, ReplayClaim, RecType
  <2> QED BY <1>3, <2>1, <2>2, PlacesFrame, PubStays DEF Unpublishing, RecoverNext, ReplayClaim, dataset, Obliged, Settled
<1>4. CASE BeginReconciling(m) \/ BeginReplay(m) \/ Replay(m)
  <2>1. UNCHANGED <<rec, dataset, local>>
    BY <1>4 DEF BeginReconciling, BeginReplay, Replay
  <2> QED BY <2>1, SameFrame, PubStays DEF Unpublishing, SamePlaces, dataset, local
<1> QED BY <1>1, <1>2, <1>3, <1>4 DEF MainStep

(* Processes, timers, the passing of a backoff, ingestions and stuttering. *)
LEMMA OtherPubs ==
    ASSUME TypeOK, LockInv, PubInv,
           \/ \E p \in Procs, j \in Jobs : TimerStep(p, j)
           \/ \E j \in Jobs : BackoffPasses(j)
           \/ \E p \in Procs : ProcessStep(p)
           \/ IngestBegins \/ IngestEnds \/ UNCHANGED vars
    PROVE  PubInv'
<1>1. CASE \/ \E p \in Procs, j \in Jobs : TimerStep(p, j)
           \/ \E p \in Procs : ProcessStep(p)
           \/ IngestBegins \/ UNCHANGED vars
  <2>1. UNCHANGED rec /\ history' = history
    BY <1>1 DEF TimerStep, TimerFires, EnqueueRetry, ProcessStep, StartProcess, Shutdown, CloseExecutor, Exit, Crash,
                Die, IngestBegins, vars, dataset
  <2>2. \A u \in Threads : pc'[u] = "idle" \/ (pc'[u] = pc[u] /\ job'[u] = job[u])
    BY <1>1 DEF TimerStep, TimerFires, EnqueueRetry, ProcessStep, StartProcess, Shutdown, CloseExecutor, Exit, Crash,
                Die, IngestBegins, vars, local
  <2>3. SamePlaces
    BY <2>2 DEF SamePlaces, Obliged, Settled
  <2> QED BY <2>1, <2>3, SameFrame, PubStays DEF Unpublishing
<1>2. CASE \E j \in Jobs : BackoffPasses(j)
  <2>1. PICK j \in Jobs : BackoffPasses(j)
    BY <1>2
  <2>2. rec[j] \in RecType
    BY DEF TypeOK, StoreType
  <2>3. SameRecords
    BY <2>1, <2>2, SameSaves DEF BackoffPasses, RecType
  <2> QED BY <2>1, <2>3, PubStays DEF BackoffPasses, Unpublishing, SamePlaces, dataset, local
<1>3. CASE IngestEnds
  <2>1. UNCHANGED <<rec, pc, job>> /\ writer = Ingest
    BY <1>3 DEF IngestEnds, local
  <2>2. CASE history' = history
    BY <2>1, <2>2, SameFrame, PubStays DEF Unpublishing, SamePlaces
  <2>3. CASE history' = Append(history, [job |-> NoJob, tag |-> 0])
    <3>1. PICK e : e = [job |-> NoJob, tag |-> 0]
      OBVIOUS
    <3>2. e \in [job : Jobs \cup {NoJob}, tag : Nat] /\ \A j \in Jobs : e.job # j
      BY <3>1, JobAssumption
    <3>3. ToldInv'
      <4> SUFFICES ASSUME NEW j \in Jobs PROVE Told(j)'
        BY DEF ToldInv
      <4>1. Told(j) /\ rec'[j] = rec[j] /\ e.job # j /\ history' = Append(history, e)
        BY <2>1, <2>3, <3>1, <3>2 DEF PubInv, ToldInv
      <4> QED BY <3>2, <4>1, ToldByOthers
    <3>4. GateExcludesCancel'
      BY <2>1 DEF PubInv, GateExcludesCancel, CommitPending
    <3>5. PlaceInv'
      <4> SUFFICES ASSUME NEW u \in Threads, Needs(u, pc[u]) PROVE Place(pc[u], job[u])'
        BY <2>1 DEF PlaceInv, Needs
      <4>1. pc[u] \notin Saving
        BY <2>1, ThreadKinds DEF LockInv, WriterInv, Saving, Needs, Recovering, RetryAt
      <4> QED BY <2>1, <4>1 DEF PubInv, PlaceInv, Place, Saving, CommitPending
    <3> QED BY <3>3, <3>4, <3>5 DEF PubInv
  <2> QED BY <1>3, <2>2, <2>3 DEF IngestEnds
<1> QED BY <1>1, <1>2, <1>3

LEMMA PubsStep == ASSUME TypeOK, LockInv, PubInv, [Next]_vars PROVE PubInv'
BY HandlerPubs, WorkerPubs, WatcherPubs, MainPubs, OtherPubs DEF Next

LEMMA PubsInit == Init => PubInv
<1> SUFFICES ASSUME Init PROVE PubInv
  OBVIOUS
<1>1. history = <<>> /\ \A j \in Jobs : rec[j].pub = NoPub /\ rec[j].events = {}
  BY DEF Init
<1>2. \A j \in Jobs : Commits(j) = {}
  BY <1>1 DEF Commits
<1>3. ToldInv
  BY <1>1, <1>2 DEF ToldInv, Told, Unrecorded, NoPub
<1>4. GateExcludesCancel
  BY <1>1 DEF GateExcludesCancel, CommitPending, NoPub
<1>5. PlaceInv
  BY DEF Init, PlaceInv, Needs, WorkerLeased, Attempting, Recovering, RetryAt
<1> QED BY <1>3, <1>4, <1>5 DEF PubInv

(* What a record tells of its publication is so: its events name commits   *)
(* of the job, and a commit without an event is the one a publication      *)
(* still committing made, which no cancellation may overtake.              *)
THEOREM PublicationsHold == Spec => []PubInv
<1>1. Init => TypeOK /\ LockInv /\ PubInv
  BY InitType, LocksInit, PubsInit
<1>2. TypeOK /\ LockInv /\ PubInv /\ [Next]_vars => TypeOK' /\ LockInv' /\ PubInv'
  BY NextType, LocksStep, PubsStep
<1> QED BY <1>1, <1>2, PTL DEF Spec

-----------------------------------------------------------------------------
(* The commits a job owes to the runs asked of it.                         *)

Count(j) == Cardinality(Commits(j))
Owes(j)  == Count(j) < runs[j]

(* A job may still be at work: for a commit it owes, or to record one.     *)
Open(j) == Owes(j) \/ (Unrecorded(j) # {} /\ rec[j].attempt > 0)

(* A request for another run came while an attempt was under way: the      *)
(* commit it is about to make is not the last one owed.                    *)
Touched(j)   == rec[j].status = "queued" \/ rec[j].attempt = 0
OwesStill(j) == Owes(j) /\ (Touched(j) => Count(j) + 1 < runs[j])

JobDue(j) ==
    /\ Count(j) <= runs[j]
    /\ rec[j].status = "queued" => Open(j)
    /\ rec[j].status = "running" => Open(j) \/ rec[j].pub.state = "completed"

(* What a thread at l, with the lease of j, knows of it.                   *)
Due(t, l, j) ==
    /\ l \in {"slot", "read", "start", "resolve", "failed", "complete"} => Open(j)
    /\ l = "start" /\ seen[t].rerun => Owes(j)
    /\ l = "resolve" /\ (seen[t].rerun \/ Unrecorded(j) = {}) => OwesStill(j)
    /\ l \in {"clear", "compute", "gate", "commit"} => OwesStill(j)
    /\ l \in {"resolve", "complete", "failing", "failed"} /\ rec[j].status = "queued" => Owes(j)
    /\ l = "failing" => Open(j) \/ rec[j].pub.state = "completed"
    /\ l = "unpublished" => Owes(j)

DueInv ==
    /\ \A j \in Jobs : JobDue(j)
    /\ \A t \in Threads : Needs(t, pc[t]) => Due(t, pc[t], job[t])

DuePlaces == {"slot", "read", "start", "resolve", "failed", "clear", "compute", "gate", "commit", "complete",
              "failing", "unpublished"}

LEMMA CountFacts ==
    ASSUME TypeOK, NEW j \in Jobs
    PROVE  IsFiniteSet(Commits(j)) /\ Count(j) \in Nat /\ runs[j] \in Nat
<1>1. Len(history) \in Nat /\ DOMAIN history = 1..Len(history)
  BY DEF TypeOK, StoreType
<1>2. IsFiniteSet(1..Len(history)) /\ Commits(j) \subseteq 1..Len(history)
  BY <1>1, FS_Interval DEF Commits
<1>3. IsFiniteSet(Commits(j))
  BY <1>2, FS_Subset
<1> QED BY <1>3, FS_CardinalityType DEF Count, TypeOK, GhostType

LEMMA SameTerms ==
    ASSUME NEW j \in Jobs, Commits(j)' = Commits(j), rec'[j].events = rec[j].events,
           runs'[j] = runs[j]
    PROVE  /\ Count(j)' = Count(j) /\ Unrecorded(j)' = Unrecorded(j) /\ Owes(j)' = Owes(j)
           /\ rec'[j].attempt = rec[j].attempt => Open(j)' = Open(j)
BY DEF Count, Unrecorded, Owes, Open

(* Steps that touch neither what is owed nor where it is known.            *)
DuePlacesStay ==
    \A t \in Threads : pc'[t] \in DuePlaces => pc'[t] = pc[t] /\ job'[t] = job[t] /\ seen'[t] = seen[t]

SameDues ==
    \A j \in Jobs :
        /\ Commits(j)' = Commits(j) /\ runs'[j] = runs[j]
        /\ rec'[j].events = rec[j].events /\ rec'[j].pub = rec[j].pub /\ rec'[j].attempt = rec[j].attempt
        /\ rec'[j].status = rec[j].status \/ rec'[j].status \notin Active

LEMMA DueStays ==
    ASSUME TypeOK, DueInv, SameDues, DuePlacesStay PROVE DueInv'
<1>1. ASSUME NEW j \in Jobs PROVE JobDue(j)'
  BY SameTerms DEF DueInv, JobDue, SameDues, Active
<1>2. ASSUME NEW t \in Threads, Needs(t, pc'[t]) PROVE Due(t, pc[t], job[t])'
  <2>1. CASE pc'[t] \notin DuePlaces
    BY <2>1 DEF Due, DuePlaces
  <2>2. CASE pc'[t] \in DuePlaces
    <3>1. pc'[t] = pc[t] /\ job'[t] = job[t] /\ seen'[t] = seen[t]
      BY <2>2 DEF DuePlacesStay
    <3>2. Due(t, pc[t], job[t])
      BY <1>2, <3>1 DEF DueInv, Needs
    <3>3. PICK j \in Jobs : j = job[t]
      BY <1>2, <3>1 DEF Needs, WorkerLeased, Attempting, Recovering, RetryAt, TypeOK, ThreadType
    <3>4. /\ Count(j)' = Count(j) /\ Unrecorded(j)' = Unrecorded(j) /\ Owes(j)' = Owes(j) /\ Open(j)' = Open(j)
          /\ runs'[j] = runs[j] /\ rec'[j].pub = rec[j].pub /\ rec'[j].attempt = rec[j].attempt
          /\ rec'[j].status = "queued" => rec[j].status = "queued"
      BY SameTerms DEF SameDues, Active
    <3>5. OwesStill(j) => OwesStill(j)'
      BY <3>4 DEF OwesStill, Touched
    <3>6. Due(t, pc[t], j)'
      BY <3>1, <3>2, <3>3, <3>4, <3>5 DEF Due
    <3> QED BY <3>1, <3>3, <3>6
  <2> QED BY <2>1, <2>2
<1> QED BY <1>1, <1>2 DEF DueInv, Needs

(* A save of the thread that holds the lease, or its commit.               *)
LEMMA DueMoves ==
    ASSUME TypeOK, LockInv, DueInv, NEW t \in Threads, NEW k \in Jobs, NEW l, k = job[t],
           Needs(t, pc[t]), OnlyMoves(t), pc'[t] = l, job'[t] = k,
           \A j \in Jobs : j # k => rec'[j] = rec[j] /\ Commits(j)' = Commits(j),
           runs' = runs, JobDue(k)', Due(t, l, k)'
    PROVE  DueInv'
<1>0. ASSUME NEW j \in Jobs, j # k
      PROVE  /\ Count(j)' = Count(j) /\ Unrecorded(j)' = Unrecorded(j) /\ Owes(j)' = Owes(j) /\ Open(j)' = Open(j)
             /\ OwesStill(j)' = OwesStill(j)
  <2>1. rec'[j] = rec[j] /\ Commits(j)' = Commits(j) /\ runs'[j] = runs[j]
    BY <1>0
  <2>2. Count(j)' = Count(j) /\ Unrecorded(j)' = Unrecorded(j) /\ Owes(j)' = Owes(j) /\ Open(j)' = Open(j)
    BY <2>1, SameTerms
  <2> QED BY <2>1, <2>2 DEF OwesStill, Touched
<1>1. ASSUME NEW j \in Jobs, j # k PROVE JobDue(j)'
  BY <1>0, <1>1 DEF DueInv, JobDue
<1>2. ASSUME NEW u \in Threads, Needs(u, pc'[u]) PROVE Due(u, pc[u], job[u])'
  <2>1. CASE u = t
    <3>1. pc'[u] = l /\ job'[u] = k
      BY <2>1
    <3> QED BY <2>1, <3>1
  <2>2. CASE u # t
    <3>1. pc'[u] = pc[u] /\ job'[u] = job[u] /\ seen'[u] = seen[u] /\ Needs(u, pc[u])
      BY <1>2, <2>2 DEF OnlyMoves
    <3>2. PICK j \in Jobs : j = job[u]
      BY <3>1 DEF Needs, WorkerLeased, Attempting, Recovering, RetryAt, TypeOK, ThreadType
    <3>3. j # k
      BY <2>2, <3>1, <3>2 DEF LockInv, LeaseInv
    <3>4. Due(u, pc[u], j) /\ rec'[j] = rec[j]
      BY <3>1, <3>2, <3>3 DEF DueInv
    <3>5. Due(u, pc[u], j)'
      BY <1>0, <3>1, <3>3, <3>4 DEF Due
    <3> QED BY <3>1, <3>2, <3>5
  <2> QED BY <2>1, <2>2
<1> QED BY <1>1, <1>2 DEF DueInv, Needs

(* A request for another run. *)
LEMMA DueAsked ==
    ASSUME TypeOK, DueInv, NEW k \in Jobs, runs' = [runs EXCEPT ![k] = @ + 1], history' = history,
           \A j \in Jobs : /\ j # k => rec'[j] = rec[j]
                           /\ rec'[j].events = rec[j].events /\ rec'[j].pub = rec[j].pub,
           DuePlacesStay
    PROVE  DueInv'
<1>0. ASSUME NEW j \in Jobs PROVE Count(j)' = Count(j) /\ Unrecorded(j)' = Unrecorded(j) /\ Commits(j)' = Commits(j)
  BY DEF Count, Unrecorded, Commits
<1>a. ASSUME NEW j \in Jobs, j # k
      PROVE  Owes(j)' = Owes(j) /\ Open(j)' = Open(j) /\ OwesStill(j)' = OwesStill(j) /\ runs'[j] = runs[j]
  <2>1. rec'[j] = rec[j] /\ Commits(j)' = Commits(j) /\ runs'[j] = runs[j]
    BY <1>0, <1>a DEF TypeOK, GhostType
  <2> QED BY <2>1, SameTerms DEF OwesStill, Touched
<1>b. Owes(k)' /\ Open(k)' /\ runs'[k] = runs[k] + 1 /\ (Owes(k) => OwesStill(k)')
  <2>1. runs'[k] = runs[k] + 1 /\ Count(k)' = Count(k) /\ Count(k) \in Nat /\ runs[k] \in Nat /\ Count(k) <= runs[k]
    BY <1>0, CountFacts DEF TypeOK, GhostType, DueInv, JobDue
  <2>2. Owes(k)' /\ (Owes(k) => Count(k)' + 1 < runs'[k])
    BY <2>1 DEF Owes
  <2> QED BY <2>1, <2>2 DEF Open, OwesStill
<1>1. ASSUME NEW j \in Jobs PROVE JobDue(j)'
  <2>1. CASE j = k
    BY <1>0, <1>b, <2>1, CountFacts DEF DueInv, JobDue
  <2>2. CASE j # k
    BY <1>0, <1>a, <2>2 DEF DueInv, JobDue
  <2> QED BY <2>1, <2>2
<1>2. ASSUME NEW t \in Threads, Needs(t, pc'[t]) PROVE Due(t, pc[t], job[t])'
  <2>1. CASE pc'[t] \notin DuePlaces
    BY <2>1 DEF Due, DuePlaces
  <2>2. CASE pc'[t] \in DuePlaces
    <3>1. pc'[t] = pc[t] /\ job'[t] = job[t] /\ seen'[t] = seen[t]
      BY <2>2 DEF DuePlacesStay
    <3>2. PICK j \in Jobs : j = job[t]
      BY <1>2, <3>1 DEF Needs, WorkerLeased, Attempting, Recovering, RetryAt, TypeOK, ThreadType
    <3>3. Due(t, pc[t], j)
      BY <1>2, <3>1, <3>2 DEF DueInv, Needs
    <3>4. Due(t, pc[t], j)'
      <4>1. CASE j # k
        BY <1>0, <1>a, <3>1, <3>3, <4>1 DEF Due
      <4>2. CASE j = k
        <5>1. OwesStill(k) => Owes(k)
          BY DEF OwesStill
        <5> QED BY <1>0, <1>b, <3>1, <3>3, <4>2, <5>1 DEF Due
      <4> QED BY <4>1, <4>2
    <3> QED BY <3>1, <3>2, <3>4
  <2> QED BY <2>1, <2>2
<1> QED BY <1>1, <1>2 DEF DueInv, Needs

LEMMA DuePlacesFrame == ASSUME NEW t \in Threads, OnlyMoves(t), pc'[t] \notin DuePlaces PROVE DuePlacesStay
BY DEF OnlyMoves, DuePlacesStay

LEMMA DueFrame == ASSUME UNCHANGED <<rec, history, runs>> PROVE SameDues
BY DEF SameDues, Commits

LEMMA DueSaves ==
    ASSUME TypeOK, NEW k \in Jobs, NEW r, Save(k, r), UNCHANGED <<history, runs>>,
           r.pub = rec[k].pub, r.events = rec[k].events, r.attempt = rec[k].attempt,
           r.status = rec[k].status \/ r.status \notin Active
    PROVE  SameDues
BY DEF SameDues, Commits, Save, TypeOK, StoreType

(* A requested run is written on the record. *)
LEMMA DueQueues ==
    ASSUME TypeOK, DueInv, NEW k \in Jobs, NEW r, Save(k, r), r.pub = rec[k].pub, r.events = rec[k].events,
           runs' = [runs EXCEPT ![k] = @ + 1], history' = history, DuePlacesStay
    PROVE  DueInv'
<1>1. \A j \in Jobs : /\ j # k => rec'[j] = rec[j]
                      /\ rec'[j].events = rec[j].events /\ rec'[j].pub = rec[j].pub
  BY DEF Save, TypeOK, StoreType
<1> QED BY <1>1, DueAsked

LEMMA HandlerDues ==
    ASSUME TypeOK, DueInv, Request \/ \E h \in Handlers : HandlerStep(h)
    PROVE  DueInv'
<1>1. PICK h \in Handlers, j \in Jobs :
          \/ CreateJob(h, j) \/ CreateTriggered(h, j) \/ StartRead(h, j) \/ CancelWaiting(h, j)
          \/ HandlerStep(h) /\ j = job[h]
  <2>1. ASSUME NEW h \in Handlers, HandlerStep(h) PROVE job[h] \in Jobs
    BY <2>1, ThreadKinds DEF HandlerStep, Claim, StartWrite, EnqueueRequested, CancelWrite, At, TypeOK, ThreadType
  <2> QED BY <2>1 DEF Request
<1> h \in Threads
  BY ThreadKinds
<1>2. history' = history
  BY <1>1 DEF CreateJob, CreateTriggered, StartRead, CancelWaiting, HandlerStep, Claim, StartWrite, EnqueueRequested,
              CancelWrite, dataset
<1>r. rec[j] \in RecType
  BY DEF TypeOK, StoreType
<1>3. DuePlacesStay
  <2>1. CancelWaiting(h, j) => OnlyMoves(h) /\ pc'[h] = "cancel"
    BY DEF CancelWaiting, OnlyMoves, TypeOK, ThreadType
  <2>2. CreateJob(h, j) => UNCHANGED <<pc, job, seen>>
    BY DEF CreateJob, local
  <2>3. ~CreateJob(h, j) => OnlyMoves(h) /\ pc'[h] \in HandlerAt
    BY <1>1, <2>1, MoveFacts DEF CreateTriggered, StartRead, HandlerStep, Claim, StartWrite,
              EnqueueRequested, CancelWrite, StaysWith, TypeOK, HandlerAt
  <2> QED BY <2>2, <2>3, DuePlacesFrame DEF DuePlacesStay, HandlerAt, DuePlaces
<1>4. CASE ((Claim(h) /\ rec[j].status = "created") \/ StartWrite(h)) /\ j = job[h]
  BY <1>2, <1>3, <1>4, <1>r, DueQueues DEF Claim, StartWrite, RecType
<1>5. CASE \/ CreateJob(h, j) \/ CreateTriggered(h, j) \/ (CancelWrite(h) /\ j = job[h])
           \/ StartRead(h, j) \/ CancelWaiting(h, j) \/ EnqueueRequested(h)
           \/ (Claim(h) /\ j = job[h] /\ rec[j].status # "created")
  <2>1. runs' = runs
    BY <1>5 DEF CreateJob, CreateTriggered, CancelWrite, StartRead, CancelWaiting, EnqueueRequested, Claim, ghosts
  <2>2. CASE UNCHANGED rec
    BY <1>2, <2>1, <2>2, DueFrame, <1>3, DueStays
  <2>3. CASE (CreateJob(h, j) \/ CreateTriggered(h, j)) /\ ~ UNCHANGED rec
    BY <1>2, <1>3, <1>r, <2>1, <2>3, DueSaves, DueStays DEF CreateJob, CreateTriggered, RecType, Active
  <2>4. CASE CancelWrite(h) /\ j = job[h] /\ ~ UNCHANGED rec
    BY <1>2, <1>3, <1>r, <2>1, <2>4, DueSaves, DueStays DEF CancelWrite, RecType, Active
  <2> QED BY <1>5, <2>2, <2>3, <2>4 DEF StartRead, CancelWaiting, EnqueueRequested, Claim
<1> QED BY <1>1, <1>4, <1>5 DEF HandlerStep

LEMMA StartWatcherDues ==
    ASSUME TypeOK, DueInv, NEW t \in Workers \cup Mains, StartWatcher(t)
    PROVE  DueInv'
<1>1. \A u \in Threads : \/ pc'[u] \in {"idle", "watching"}
                         \/ pc'[u] = pc[u] /\ job'[u] = job[u] /\ seen'[u] = seen[u]
  BY ThreadKinds DEF StartWatcher, Return, TypeOK, ThreadType
<1>2. DuePlacesStay
  BY <1>1 DEF DuePlacesStay, DuePlaces
<1> QED BY <1>2, DueFrame, DueStays DEF StartWatcher, dataset, ghosts

LEMMA RetryDues ==
    ASSUME TypeOK, DueInv, NEW t \in Workers \cup Watchers \cup Mains, RetryStep(t)
    PROVE  DueInv'
<1> t \in Threads
  BY ThreadKinds
<1>1. pc[t] \in RetryAt /\ OnlyMoves(t) /\ pc'[t] \in RetryAt \cup {"recovered", "idle"}
  BY MoveFacts, ThreadKinds DEF RetryStep, ScheduleRetry, RecheckCancelled, Disarm, CancelDisarmed, At, RetryAt,
     StaysWith, TypeOK
<1>2. DuePlacesStay
  BY <1>1, DuePlacesFrame DEF RetryAt, DuePlaces
<1>3. UNCHANGED <<history, runs>>
  BY DEF RetryStep, ScheduleRetry, RecheckCancelled, Disarm, CancelDisarmed, dataset, ghosts
<1>4. SameDues
  <2>1. PICK k \in Jobs : k = job[t]
    BY <1>1 DEF TypeOK, ThreadType, RetryAt
  <2>2. UNCHANGED rec \/ Save(k, [rec[k] EXCEPT !.status = "canceled"])
    BY <2>1 DEF RetryStep, ScheduleRetry, RecheckCancelled, Disarm, CancelDisarmed
  <2>3. rec[k] \in RecType
    BY DEF TypeOK, StoreType
  <2> QED BY <1>3, <2>2, <2>3, DueSaves, DueFrame DEF RecType, Active
<1> QED BY <1>2, <1>4, DueStays

(* What is known of the job of a thread that holds its lease. *)
LEMMA LeasedFacts ==
    ASSUME TypeOK, PubInv, DueInv, NEW t \in Threads, NEW k \in Jobs, k = job[t], Needs(t, pc[t])
    PROVE  /\ Due(t, pc[t], k) /\ JobDue(k) /\ Place(pc[t], k) /\ Told(k)
           /\ ~CommitPending(k) => Unrecorded(k) = {}
           /\ Unrecorded(k) = {} => (Open(k) <=> Owes(k))
           /\ rec[k] \in RecType /\ rec[k].attempt \in Nat
           /\ Count(k) \in Nat /\ runs[k] \in Nat
           /\ OwesStill(k) => Owes(k)
           /\ Owes(k) => Open(k)
<1>1. Due(t, pc[t], k) /\ JobDue(k) /\ Place(pc[t], k) /\ Told(k)
  BY DEF DueInv, PubInv, PlaceInv, ToldInv
<1>2. rec[k] \in RecType /\ rec[k].attempt \in Nat
  BY DEF TypeOK, StoreType, RecType
<1> QED BY <1>1, <1>2, CountFacts, SettledHasNone DEF Open, OwesStill

(* Steps of an attempt that write nothing. *)
LEMMA PlainAttemptDues ==
    ASSUME TypeOK, LockInv, PubInv, DueInv, NEW t \in Workers, NEW k \in Jobs, k = job[t], AttemptStep(t),
           SavePlain(t) \/ Raise(t) \/ NoticeCancel(t) \/ Notify(t)
    PROVE  DueInv'
<1> t \in Threads
  BY ThreadKinds
<1>1. OnlyMoves(t) /\ job'[t] = k /\ Needs(t, pc[t])
  BY AttemptMoves DEF Needs, WorkerLeased
<1>2. UNCHANGED <<rec, history, runs>>
  BY DEF SavePlain, Raise, NoticeCancel, Notify, Dispatch, dataset, ghosts
<1>3. PICK l \in {"finish", "failing", "cancelled", "unlease"} :
          pc'[t] = l /\ (l = "failing" => pc[t] \in {"resolve", "compute", "gate", "commit", "complete"})
  BY MoveFacts DEF SavePlain, Raise, NoticeCancel, Notify, StaysWith, TypeOK
<1>4. Due(t, pc[t], k) /\ JobDue(k) /\ (OwesStill(k) => Owes(k)) /\ (Owes(k) => Open(k))
  BY <1>1, LeasedFacts
<1>5. \A j \in Jobs : Commits(j)' = Commits(j) /\ rec'[j] = rec[j] /\ runs'[j] = runs[j]
  BY <1>2 DEF Commits
<1>6. Count(k)' = Count(k) /\ Owes(k)' = Owes(k) /\ Open(k)' = Open(k)
  BY <1>5, SameTerms
<1>7. JobDue(k)'
  BY <1>4, <1>5, <1>6 DEF JobDue
<1>8. Due(t, l, k)'
  BY <1>3, <1>4, <1>5, <1>6 DEF Due
<1> QED BY <1>1, <1>2, <1>3, <1>5, <1>7, <1>8, DueMoves

(* Steps of an attempt that write a status. *)
LEMMA StatusDues ==
    ASSUME TypeOK, LockInv, PubInv, DueInv, NEW t \in Workers, NEW k \in Jobs, k = job[t], AttemptStep(t),
           ReadRecord(t) \/ StartAttempt(t) \/ FinishAttempt(t) \/ RecordFailure(t)
    PROVE  DueInv'
<1> t \in Threads
  BY ThreadKinds
<1>1. OnlyMoves(t) /\ job'[t] = k /\ Needs(t, pc[t])
  BY AttemptMoves DEF Needs, WorkerLeased
<1>2. UNCHANGED <<history, runs>>
  BY DEF ReadRecord, StartAttempt, FinishAttempt, RecordFailure, dataset, ghosts
<1>f. /\ Due(t, pc[t], k) /\ JobDue(k) /\ (~CommitPending(k) => Unrecorded(k) = {})
      /\ Unrecorded(k) = {} => (Open(k) <=> Owes(k))
      /\ rec[k] \in RecType /\ rec[k].attempt \in Nat
      /\ Count(k) \in Nat /\ runs[k] \in Nat
  BY <1>1, LeasedFacts
<1>c. \A j \in Jobs : Commits(j)' = Commits(j) /\ runs'[j] = runs[j]
  BY <1>2 DEF Commits
<1>3. CASE ReadRecord(t)
  <2>1. CASE rec[k].cancel
    <3>1. pc'[t] = "unlease"
      BY <1>3, <2>1, MoveFacts DEF ReadRecord, StaysWith, TypeOK
    <3>2. SameDues
      BY <1>2, <1>3, <1>f, <2>1, DueSaves DEF ReadRecord, RecType, Active
    <3> QED BY <1>1, <3>1, <3>2, DueStays, DuePlacesFrame DEF DuePlaces
  <2>2. CASE ~rec[k].cancel
    <3>1. PICK b : b = (rec[k].attempt = 0)
      OBVIOUS
    <3>a. seen' = [seen EXCEPT ![t] = [rerun |-> b, known |-> rec[k].events, attempt |-> 0]]
      BY <1>3, <2>2, <3>1 DEF ReadRecord
    <3>b. seen'[t].rerun = b
      BY <3>a DEF TypeOK, ThreadType
    <3>2. pc[t] = "read" /\ pc'[t] = "start" /\ UNCHANGED rec /\ (seen'[t].rerun => rec[k].attempt = 0)
      <4>1. pc[t] = "read" /\ pc'[t] = "start" /\ UNCHANGED rec
        BY <1>3, <2>2 DEF ReadRecord, At, TypeOK, ThreadType
      <4> QED BY <3>1, <3>b, <4>1
    <3>3. Count(k)' = Count(k) /\ Owes(k)' = Owes(k) /\ Open(k)' = Open(k)
      BY <1>c, <3>2, SameTerms
    <3>4. JobDue(k)'
      BY <1>c, <1>f, <3>2, <3>3 DEF JobDue
    <3>5. Open(k) /\ (rec[k].attempt = 0 => Owes(k))
      BY <1>f, <3>2 DEF Due, Open
    <3>6. Due(t, "start", k)'
      BY <3>2, <3>3, <3>5 DEF Due
    <3> QED BY <1>1, <1>2, <1>c, <3>2, <3>4, <3>6, DueMoves
  <2> QED BY <2>1, <2>2
<1>4. CASE StartAttempt(t)
  <2>1. PICK l \in {"resolve", "clear"} : pc'[t] = l /\ (l = "clear" => ~CommitPending(k))
    BY <1>4 DEF StartAttempt, TypeOK, ThreadType
  <2>2. PICK q : q = [rec[k] EXCEPT !.status = "running", !.attempt = rec[k].attempt + 1, !.waiting = FALSE,
                            !.publishing = CommitPending(k), !.pub = IF CommitPending(k) THEN rec[k].pub ELSE NoPub]
    OBVIOUS
  <2>3. q.status = "running" /\ q.attempt = rec[k].attempt + 1 /\ q.events = rec[k].events
    BY <1>f, <2>2 DEF RecType
  <2>4. rec' = [rec EXCEPT ![k] = q]
    BY <1>4, <2>2 DEF StartAttempt, Save
  <2>5. rec'[k] = q /\ \A j \in Jobs : j # k => rec'[j] = rec[j]
    BY <2>4 DEF TypeOK, StoreType
  <2>6. pc[t] = "start" /\ seen'[t].rerun = seen[t].rerun
    BY <1>4 DEF StartAttempt, At, TypeOK, ThreadType, SeenType
  <2>7. Count(k)' = Count(k) /\ Unrecorded(k)' = Unrecorded(k) /\ Owes(k)' = Owes(k)
    BY <1>c, <2>3, <2>5, SameTerms
  <2>8. Open(k) /\ (seen[t].rerun => Owes(k)) /\ (Unrecorded(k) = {} => Owes(k))
    BY <1>f, <2>6 DEF Due
  <2>9. Open(k)' /\ (Owes(k)' => OwesStill(k)')
    BY <1>f, <2>3, <2>5, <2>7, <2>8 DEF Open, OwesStill, Touched
  <2>10. JobDue(k)'
    BY <1>c, <1>f, <2>3, <2>5, <2>7, <2>9 DEF JobDue
  <2>11. Due(t, l, k)'
    BY <1>f, <2>1, <2>3, <2>5, <2>6, <2>7, <2>8, <2>9 DEF Due
  <2> QED BY <1>1, <1>2, <1>c, <2>1, <2>5, <2>10, <2>11, DueMoves
<1>5. CASE FinishAttempt(t)
  <2>1. pc'[t] \in {"notify", "unlease"}
    BY <1>5, MoveFacts DEF FinishAttempt, StaysWith, TypeOK
  <2>2. SameDues
    BY <1>2, <1>5, <1>f, DueSaves DEF FinishAttempt, Finish, RecType, Active
  <2> QED BY <1>1, <2>1, <2>2, DueStays, DuePlacesFrame DEF DuePlaces
<1>6. CASE RecordFailure(t)
  <2>1. pc[t] = "failed" /\ pc'[t] = "unlease"
    BY <1>6, MoveFacts DEF RecordFailure, At, StaysWith, TypeOK
  <2>2. Open(k)
    BY <1>f, <2>1 DEF Due
  <2>3. PICK b \in BOOLEAN : b = CommitPending(k)
    BY DEF CommitPending
  <2>4. PICK q : /\ Save(k, q) /\ q.events = rec[k].events /\ q.attempt = rec[k].attempt
                 /\ q.status \in {"canceled", "queued", "error"}
    <3>1. PICK u, v, w : /\ u = [rec[k] EXCEPT !.status = "canceled"]
                         /\ v = [rec[k] EXCEPT !.status = "queued", !.waiting = TRUE, !.publishing = b]
                         /\ w = [rec[k] EXCEPT !.status = "error", !.publishing = b]
      OBVIOUS
    <3>2. \A q \in {u, v, w} : /\ q.events = rec[k].events /\ q.attempt = rec[k].attempt
                               /\ q.status \in {"canceled", "queued", "error"}
      BY <1>f, <3>1 DEF RecType
    <3>3. Save(k, u) \/ Save(k, v) \/ Save(k, w)
      BY <1>6, <2>3, <3>1 DEF RecordFailure
    <3> QED BY <3>2, <3>3
  <2>5. rec'[k] = q /\ \A j \in Jobs : j # k => rec'[j] = rec[j]
    BY <2>4 DEF Save, TypeOK, StoreType
  <2>6. Count(k)' = Count(k) /\ Open(k)' = Open(k)
    BY <1>c, <2>4, <2>5, SameTerms
  <2>7. JobDue(k)'
    BY <1>c, <1>f, <2>2, <2>4, <2>5, <2>6 DEF JobDue
  <2>8. Due(t, "unlease", k)'
    BY DEF Due
  <2> QED BY <1>1, <1>2, <1>c, <2>1, <2>5, <2>7, <2>8, DueMoves
<1> QED BY <1>3, <1>4, <1>5, <1>6

LEMMA SameCount ==
    ASSUME NEW j \in Jobs, Commits(j)' = Commits(j), runs'[j] = runs[j]
    PROVE  Count(j)' = Count(j) /\ Owes(j)' = Owes(j)
BY DEF Count, Owes

(* What a resolution finds, and leaves. *)
LEMMA ResolutionFacts ==
    ASSUME TypeOK, NEW k \in Jobs, Told(k), UNCHANGED <<history, runs>>, ReconcileFinds(k) \/ ReconcileFindsNothing(k)
    PROVE  /\ \A j \in Jobs : j # k => rec'[j] = rec[j] /\ Commits(j)' = Commits(j)
           /\ rec'[k].status = rec[k].status /\ rec'[k].attempt = rec[k].attempt
           /\ Count(k)' = Count(k) /\ Owes(k)' = Owes(k) /\ (OwesStill(k) => OwesStill(k)')
           /\ CommitPending(k) /\ rec[k].pub.state # "completed"
           /\ ReconcileFinds(k) => rec'[k].pub.state = "completed"
           /\ ReconcileFindsNothing(k) => Unrecorded(k) = {}
<1>1. CommitPending(k) /\ \A j \in Jobs : j # k => rec'[j] = rec[j]
  BY DEF ReconcileFinds, ReconcileFindsNothing, Complete, Save, TypeOK, StoreType
<1>2. \A j \in Jobs : Commits(j)' = Commits(j)
  BY DEF Commits
<1>r. rec[k] \in RecType
  BY DEF TypeOK, StoreType
<1>3. rec'[k].status = rec[k].status /\ rec'[k].attempt = rec[k].attempt
  <2>1. ReconcileFinds(k) => rec'[k].status = rec[k].status /\ rec'[k].attempt = rec[k].attempt
    BY <1>r DEF ReconcileFinds, Complete, Save, TypeOK, StoreType, RecType
  <2>2. ReconcileFindsNothing(k) => rec'[k].status = rec[k].status /\ rec'[k].attempt = rec[k].attempt
    BY <1>r DEF ReconcileFindsNothing, Save, TypeOK, StoreType, RecType
  <2> QED BY <2>1, <2>2
<1>4. ReconcileFinds(k) => rec'[k].pub.state = "completed"
  <2>1. ASSUME ReconcileFinds(k) PROVE \E i \in OwnCommits(k) : Complete(k, i)
    BY <2>1, NewestCommit DEF ReconcileFinds, TypeOK
  <2> QED BY <1>1, <2>1, ToldCompleted
<1>5. ReconcileFindsNothing(k) => Unrecorded(k) = {}
  BY NoneFound DEF ReconcileFindsNothing
<1>6. Count(k)' = Count(k) /\ Owes(k)' = Owes(k) /\ runs'[k] = runs[k]
  BY <1>2, SameCount
<1>7. OwesStill(k) => OwesStill(k)'
  BY <1>3, <1>6 DEF OwesStill, Touched
<1>8. rec[k].pub.state # "completed"
  BY <1>1 DEF CommitPending
<1> QED BY <1>1, <1>2, <1>3, <1>4, <1>5, <1>6, <1>7, <1>8

(* Steps of an attempt that settle a publication. *)
LEMMA SettlingDues ==
    ASSUME TypeOK, LockInv, PubInv, DueInv, NEW t \in Workers, NEW k \in Jobs, k = job[t], AttemptStep(t),
           ResolvePending(t) \/ ClearOutput(t) \/ RecordCancelled(t) \/ CompleteAfterFailure(t)
    PROVE  DueInv'
<1> t \in Threads
  BY ThreadKinds
<1>1. OnlyMoves(t) /\ job'[t] = k /\ Needs(t, pc[t])
  BY AttemptMoves DEF Needs, WorkerLeased
<1>2. UNCHANGED <<history, runs>>
  BY DEF ResolvePending, ClearOutput, RecordCancelled, CompleteAfterFailure, dataset, ghosts
<1>f. /\ Due(t, pc[t], k) /\ JobDue(k) /\ Told(k)
      /\ Unrecorded(k) = {} => (Open(k) <=> Owes(k))
      /\ Count(k) \in Nat /\ runs[k] \in Nat
      /\ OwesStill(k) => Owes(k)
      /\ Owes(k) => Open(k)
  BY <1>1, LeasedFacts
<1>r. rec[k] \in RecType
  BY DEF TypeOK, StoreType
<1>c. \A j \in Jobs : Commits(j)' = Commits(j) /\ runs'[j] = runs[j]
  BY <1>2 DEF Commits
<1>3. ASSUME ReconcileFinds(k) \/ ReconcileFindsNothing(k)
      PROVE  /\ \A j \in Jobs : j # k => rec'[j] = rec[j] /\ Commits(j)' = Commits(j)
             /\ rec'[k].status = rec[k].status
             /\ Count(k)' = Count(k) /\ Owes(k)' = Owes(k) /\ (OwesStill(k) => OwesStill(k)')
             /\ rec[k].pub.state # "completed"
             /\ ReconcileFinds(k) => rec'[k].pub.state = "completed"
             /\ ReconcileFindsNothing(k) => Unrecorded(k) = {}
             /\ Owes(k)' => Open(k)'
  BY <1>2, <1>3, <1>f, ResolutionFacts DEF Open
<1>4. ASSUME ReconcileFinds(k), pc[t] \in {"resolve", "failing"} PROVE JobDue(k)'
  <2>1. rec[k].status = "queued" => Owes(k)
    BY <1>4, <1>f DEF Due
  <2> QED BY <1>3, <1>4, <1>c, <1>f, <2>1 DEF JobDue
<1>5. ASSUME ReconcileFindsNothing(k), pc[t] \in {"resolve", "failing"} PROVE JobDue(k)' /\ Owes(k)
  <2>1. Owes(k)
    BY <1>3, <1>5, <1>f DEF Due
  <2> QED BY <1>3, <1>5, <1>c, <1>f, <2>1 DEF JobDue
<1>6. CASE ResolvePending(t)
  <2>1. pc[t] = "resolve" /\ seen'[t] = seen[t]
    BY <1>6, MoveFacts DEF ResolvePending, At, StaysWith, TypeOK
  <2>2. \/ ReconcileFinds(k) /\ Goto(t, IF seen[t].rerun THEN "clear" ELSE "finish")
        \/ ReconcileFindsNothing(k) /\ Goto(t, "clear")
    BY <1>6 DEF ResolvePending
  <2>3. PICK l \in {"clear", "finish"} : /\ pc'[t] = l
                                         /\ l = "clear" => seen[t].rerun \/ ReconcileFindsNothing(k)
    <3>1. CASE seen[t].rerun
      BY <2>2, <3>1, MoveFacts DEF StaysWith, TypeOK
    <3>2. CASE ~seen[t].rerun
      BY <2>2, <3>2, MoveFacts DEF StaysWith, TypeOK
    <3> QED BY <3>1, <3>2
  <2>4. JobDue(k)'
    BY <1>4, <1>5, <2>1, <2>2
  <2>5. l = "clear" => OwesStill(k)'
    BY <1>3, <1>f, <2>1, <2>2, <2>3 DEF Due
  <2>6. Due(t, l, k)'
    BY <2>3, <2>5 DEF Due
  <2> QED BY <1>1, <1>2, <1>3, <2>2, <2>3, <2>4, <2>6, DueMoves
<1>7. CASE ClearOutput(t) \/ RecordCancelled(t)
  <2>1. PICK q : /\ Save(k, q) /\ q.events = rec[k].events /\ q.attempt = rec[k].attempt
                 /\ q.status \in {rec[k].status, "canceled"}
                 /\ (ClearOutput(t) => q.status = rec[k].status) /\ (~ClearOutput(t) => q.status = "canceled")
    <3>1. PICK a, b : /\ a = [rec[k] EXCEPT !.publishing = FALSE, !.pub = NoPub]
                      /\ b = [rec[k] EXCEPT !.status = "canceled", !.publishing = FALSE, !.pub = NoPub]
      OBVIOUS
    <3>2. /\ a.events = rec[k].events /\ a.attempt = rec[k].attempt /\ a.status = rec[k].status
          /\ b.events = rec[k].events /\ b.attempt = rec[k].attempt /\ b.status = "canceled"
      BY <1>r, <3>1 DEF RecType
    <3>3. CASE ClearOutput(t)
      BY <3>1, <3>2, <3>3 DEF ClearOutput
    <3>4. CASE ~ClearOutput(t)
      BY <1>7, <3>1, <3>2, <3>4 DEF RecordCancelled
    <3> QED BY <3>3, <3>4
  <2>2. rec'[k] = q /\ \A j \in Jobs : j # k => rec'[j] = rec[j]
    BY <2>1 DEF Save, TypeOK, StoreType
  <2>3. Count(k)' = Count(k) /\ Owes(k)' = Owes(k) /\ Open(k)' = Open(k)
    BY <1>c, <2>1, <2>2, SameTerms
  <2>4. CASE ClearOutput(t)
    <3>1. pc[t] = "clear" /\ pc'[t] = "compute"
      BY <2>4, MoveFacts DEF ClearOutput, At, StaysWith, TypeOK
    <3>2. OwesStill(k)
      BY <1>f, <3>1 DEF Due
    <3>3. OwesStill(k)' /\ Open(k)'
      BY <1>c, <1>f, <2>1, <2>2, <2>3, <2>4, <3>2 DEF OwesStill, Touched
    <3>4. JobDue(k)'
      BY <1>c, <1>f, <2>3, <3>3 DEF JobDue
    <3>5. Due(t, "compute", k)'
      BY <3>3 DEF Due
    <3> QED BY <1>1, <1>2, <1>c, <2>2, <3>1, <3>4, <3>5, DueMoves
  <2>5. CASE ~ClearOutput(t)
    <3>1. pc'[t] = "unlease"
      BY <1>7, <2>5, MoveFacts DEF RecordCancelled, StaysWith, TypeOK
    <3>2. JobDue(k)'
      BY <1>c, <1>f, <2>1, <2>2, <2>3, <2>5 DEF JobDue
    <3>3. Due(t, "unlease", k)'
      BY DEF Due
    <3> QED BY <1>1, <1>2, <1>c, <2>2, <3>1, <3>2, <3>3, DueMoves
  <2> QED BY <2>4, <2>5
<1>8. CASE CompleteAfterFailure(t)
  <2>1. pc[t] = "failing" /\ seen'[t] = seen[t]
    BY <1>8, MoveFacts DEF CompleteAfterFailure, At, StaysWith, TypeOK
  <2>2. \/ UNCHANGED rec /\ Goto(t, IF rec[k].pub.state = "completed" THEN "finish" ELSE "failed")
        \/ ReconcileFinds(k) /\ Goto(t, "finish")
        \/ ReconcileFindsNothing(k) /\ Goto(t, "failed")
    BY <1>8 DEF CompleteAfterFailure
  <2>3. CASE UNCHANGED rec /\ Goto(t, IF rec[k].pub.state = "completed" THEN "finish" ELSE "failed")
    <3>1. PICK l \in {"finish", "failed"} : l = IF rec[k].pub.state = "completed" THEN "finish" ELSE "failed"
      OBVIOUS
    <3>2. Goto(t, l)
      BY <2>3, <3>1
    <3>3. pc'[t] = l /\ (l = "failed" => rec[k].pub.state # "completed")
      BY <3>1, <3>2, MoveFacts DEF StaysWith, TypeOK
    <3>4. Count(k)' = Count(k) /\ Owes(k)' = Owes(k) /\ Open(k)' = Open(k) /\ rec'[k] = rec[k]
      BY <1>c, <2>3, SameTerms
    <3>5. JobDue(k)'
      BY <1>c, <1>f, <3>4 DEF JobDue
    <3>6. Due(t, l, k)'
      BY <1>f, <2>1, <3>3, <3>4 DEF Due
    <3> QED BY <1>1, <1>2, <1>c, <2>3, <3>3, <3>5, <3>6, DueMoves
  <2>4. CASE ReconcileFinds(k) /\ Goto(t, "finish")
    <3>1. pc'[t] = "finish"
      BY <2>4, MoveFacts DEF StaysWith, TypeOK
    <3>2. Due(t, "finish", k)'
      BY DEF Due
    <3> QED BY <1>1, <1>2, <1>3, <1>4, <2>1, <2>4, <3>1, <3>2, DueMoves
  <2>5. CASE ReconcileFindsNothing(k) /\ Goto(t, "failed")
    <3>1. pc'[t] = "failed"
      BY <2>5, MoveFacts DEF StaysWith, TypeOK
    <3>2. Owes(k)' /\ Open(k)'
      BY <1>3, <1>5, <2>1, <2>5
    <3>3. Due(t, "failed", k)'
      BY <3>2 DEF Due
    <3> QED BY <1>1, <1>2, <1>3, <1>5, <2>1, <2>5, <3>1, <3>3, DueMoves
  <2> QED BY <2>2, <2>3, <2>4, <2>5
<1> QED BY <1>6, <1>7, <1>8

(* The publication itself, up to its event. *)
LEMMA PublishingDues ==
    ASSUME TypeOK, LockInv, PubInv, DueInv, NEW t \in Workers, NEW k \in Jobs, k = job[t], AttemptStep(t),
           PlanPublication(t) \/ EnterPublication(t) \/ CompletePublication(t)
    PROVE  DueInv'
<1> t \in Threads
  BY ThreadKinds
<1>1. OnlyMoves(t) /\ job'[t] = k /\ Needs(t, pc[t])
  BY AttemptMoves DEF Needs, WorkerLeased
<1>2. UNCHANGED <<history, runs>>
  BY DEF PlanPublication, EnterPublication, CompletePublication, ghosts
<1>f. /\ Due(t, pc[t], k) /\ JobDue(k)
      /\ Count(k) \in Nat /\ runs[k] \in Nat
      /\ OwesStill(k) => Owes(k)
  BY <1>1, LeasedFacts
<1>r. rec[k] \in RecType
  BY DEF TypeOK, StoreType
<1>c. \A j \in Jobs : Commits(j)' = Commits(j) /\ runs'[j] = runs[j]
  BY <1>2 DEF Commits
<1>n. Count(k)' = Count(k) /\ Owes(k)' = Owes(k) /\ (Owes(k)' => Open(k)')
  BY <1>c, SameCount DEF Open
<1>3. PICK q : /\ rec' = [rec EXCEPT ![k] = q] /\ q.status = rec[k].status /\ q.attempt = rec[k].attempt
               /\ CompletePublication(t) => q.pub.state = "completed"
  <2>1. CASE PlanPublication(t)
    <3>1. PICK s : s = [state |-> "planned", base |-> Len(history), tag |-> rec[k].attempt, snap |-> 0]
      OBVIOUS
    <3>2. PICK q : q = [rec[k] EXCEPT !.pub = s]
      OBVIOUS
    <3>3. rec' = [rec EXCEPT ![k] = q] /\ ~CompletePublication(t)
      BY <2>1, <3>1, <3>2 DEF PlanPublication, CompletePublication, Save, At
    <3> QED BY <1>r, <3>2, <3>3 DEF RecType
  <2>2. CASE EnterPublication(t)
    <3>1. PICK s : s = [rec[k].pub EXCEPT !.state = "committing"]
      OBVIOUS
    <3>2. PICK q : q = IF rec[k].cancel THEN rec[k] ELSE [rec[k] EXCEPT !.publishing = TRUE, !.pub = s]
      OBVIOUS
    <3>3. rec' = [rec EXCEPT ![k] = q] /\ ~CompletePublication(t)
      BY <2>2, <3>1, <3>2 DEF EnterPublication, CompletePublication, Save, At, TypeOK, StoreType
    <3> QED BY <1>r, <3>2, <3>3 DEF RecType
  <2>3. CASE CompletePublication(t)
    <3>1. PICK s, n : n = Len(history) /\ s = [rec[k].pub EXCEPT !.state = "completed", !.snap = n]
      OBVIOUS
    <3>2. PICK q : q = [rec[k] EXCEPT !.pub = s, !.events = rec[k].events \cup {n}]
      OBVIOUS
    <3>3. rec' = [rec EXCEPT ![k] = q]
      BY <2>3, <3>1, <3>2 DEF CompletePublication, Complete, Save
    <3>4. s.state = "completed"
      BY <1>r, <3>1 DEF RecType, PubType
    <3>5. q.pub = s /\ q.status = rec[k].status /\ q.attempt = rec[k].attempt
      BY <1>r, <3>2 DEF RecType
    <3> QED BY <3>3, <3>4, <3>5
  <2> QED BY <2>1, <2>2, <2>3
<1>4. rec'[k] = q /\ \A j \in Jobs : j # k => rec'[j] = rec[j]
  BY <1>3 DEF TypeOK, StoreType
<1>5. OwesStill(k) => OwesStill(k)'
  BY <1>3, <1>4, <1>c, <1>n DEF OwesStill, Touched
<1>6. CASE PlanPublication(t) \/ EnterPublication(t)
  <2>1. PICK l \in {"gate", "commit", "cancelled"} : pc'[t] = l
    BY <1>6, MoveFacts DEF PlanPublication, EnterPublication, StaysWith, TypeOK
  <2>2. pc[t] \in {"compute", "gate"}
    BY <1>6 DEF PlanPublication, EnterPublication, At
  <2>3. OwesStill(k)' /\ Owes(k)' /\ Open(k)'
    BY <1>5, <1>f, <1>n, <2>2 DEF Due
  <2>4. JobDue(k)'
    BY <1>c, <1>f, <1>n, <2>3 DEF JobDue
  <2>5. Due(t, l, k)'
    BY <2>1, <2>3 DEF Due
  <2> QED BY <1>1, <1>2, <1>4, <1>c, <2>1, <2>4, <2>5, DueMoves
<1>7. CASE CompletePublication(t)
  <2>1. pc[t] = "complete" /\ pc'[t] = "finish"
    BY <1>7, MoveFacts DEF CompletePublication, At, StaysWith, TypeOK
  <2>2. rec[k].status = "queued" => Owes(k)
    BY <1>f, <2>1 DEF Due
  <2>3. JobDue(k)'
    BY <1>3, <1>4, <1>7, <1>c, <1>f, <1>n, <2>2 DEF JobDue
  <2>4. Due(t, "finish", k)'
    BY DEF Due
  <2> QED BY <1>1, <1>2, <1>4, <1>c, <2>1, <2>3, <2>4, DueMoves
<1> QED BY <1>6, <1>7

LEMMA CommitDues ==
    ASSUME TypeOK, LockInv, PubInv, DueInv, NEW t \in Workers, NEW k \in Jobs, k = job[t], AttemptStep(t), Commit(t)
    PROVE  DueInv'
<1> t \in Threads
  BY ThreadKinds
<1>1. OnlyMoves(t) /\ job'[t] = k /\ Needs(t, pc[t])
  BY AttemptMoves DEF Needs, WorkerLeased
<1>2. pc[t] = "commit" /\ pc'[t] = "complete" /\ rec' = rec /\ runs' = runs
  BY MoveFacts DEF Commit, At, StaysWith, TypeOK, ghosts
<1>f. /\ Due(t, pc[t], k) /\ JobDue(k)
      /\ rec[k] \in RecType /\ rec[k].attempt \in Nat
      /\ Count(k) \in Nat /\ runs[k] \in Nat
  BY <1>1, LeasedFacts
<1>3. /\ \A j \in Jobs : j # k => Commits(j)' = Commits(j)
      /\ Commits(k)' = Commits(k) \cup {Len(history) + 1} /\ Len(history) + 1 \notin Commits(k)
  <2>1. PICK e : e = [job |-> k, tag |-> rec[k].pub.tag]
    OBVIOUS
  <2>2. rec[k].pub.tag \in Nat
    BY <1>f DEF RecType, PubType
  <2>3. e \in [job : Jobs \cup {NoJob}, tag : Nat] /\ e.job = k /\ history' = Append(history, e)
    BY <2>1, <2>2 DEF Commit
  <2> QED BY <2>3, Appended
<1>4. Count(k)' = Count(k) + 1
  <2>1. Cardinality(Commits(k) \cup {Len(history) + 1}) = Cardinality(Commits(k)) + 1
    BY <1>3, CountFacts, FS_AddElement
  <2> QED BY <1>3, <2>1 DEF Count
<1>5. OwesStill(k)
  BY <1>2, <1>f DEF Due
<1>6. Count(k)' <= runs'[k] /\ (Touched(k) => Owes(k)')
  BY <1>2, <1>4, <1>5, <1>f DEF OwesStill, Owes
<1>7. Unrecorded(k)' # {}
  <2>1. Len(history) + 1 \notin rec[k].events
    BY <1>3, <1>1, LeasedFacts DEF Told
  <2> QED BY <1>2, <1>3, <2>1 DEF Unrecorded
<1>8. Open(k)' /\ (rec'[k].status = "queued" => Owes(k)')
  BY <1>2, <1>6, <1>7, <1>f DEF Open, Touched
<1>9. JobDue(k)'
  BY <1>6, <1>8 DEF JobDue
<1>10. Due(t, "complete", k)'
  BY <1>8 DEF Due
<1> QED BY <1>1, <1>2, <1>3, <1>9, <1>10, DueMoves

LEMMA WorkerDues ==
    ASSUME TypeOK, LockInv, PubInv, DueInv, NEW t \in Workers, WorkerStep(t)
    PROVE  DueInv'
<1> t \in Threads
  BY ThreadKinds
<1>1. CASE AttemptStep(t)
  <2>1. PICK k \in Jobs : k = job[t]
    BY <1>1, AttemptMoves
  <2> QED BY <1>1, <2>1, PlainAttemptDues, StatusDues, SettlingDues, PublishingDues, CommitDues DEF AttemptStep
<1>2. CASE RetryStep(t)
  BY <1>2, RetryDues
<1>3. CASE StartWatcher(t)
  BY <1>3, StartWatcherDues
<1>4. CASE PickUp(t) \/ TryLease(t) \/ ReleaseLease(t) \/ PopFuture(t)
  <2>1. OnlyMoves(t) /\ pc'[t] \in {"picked", "leased", "pop", "retry", "watch", "idle"}
    BY <1>4, MoveFacts DEF PickUp, TryLease, ReleaseLease, PopFuture, StaysWith, TypeOK, ThreadType
  <2>2. UNCHANGED <<rec, history, runs>>
    BY <1>4 DEF PickUp, TryLease, ReleaseLease, PopFuture, dataset, ghosts
  <2> QED BY <2>1, <2>2, DueFrame, DuePlacesFrame, DueStays DEF DuePlaces
<1>5. CASE ReadUnderLease(t) \/ WaitForSlot(t)
  <2>1. pc[t] \in {"leased", "slot"} /\ UNCHANGED <<rec, history, runs>>
    BY <1>5 DEF ReadUnderLease, WaitForSlot, At, dataset, ghosts
  <2>2. PICK k \in Jobs : k = job[t]
    BY <2>1 DEF TypeOK, ThreadType
  <2>3. PICK l \in {"unlease", "slot", "read"} :
            /\ OnlyMoves(t) /\ job'[t] = k /\ pc'[t] = l
            /\ l = "slot" => rec[k].status = "queued"
            /\ l = "read" => pc[t] = "slot"
    <3>1. CASE ReadUnderLease(t)
      <4>1. CASE rec[k].status = "queued" /\ ~rec[k].waiting
        BY <2>2, <3>1, <4>1, MoveFacts DEF ReadUnderLease, StaysWith, TypeOK
      <4>2. CASE ~(rec[k].status = "queued" /\ ~rec[k].waiting)
        BY <2>2, <3>1, <4>2, MoveFacts DEF ReadUnderLease, StaysWith, TypeOK
      <4> QED BY <4>1, <4>2
    <3>2. CASE WaitForSlot(t)
      BY <2>2, <3>2, MoveFacts DEF WaitForSlot, At, StaysWith, TypeOK
    <3> QED BY <1>5, <3>1, <3>2
  <2>4. Needs(t, pc[t])
    BY <2>1 DEF Needs, WorkerLeased
  <2>5. Due(t, pc[t], k) /\ JobDue(k)
    BY <2>2, <2>4, LeasedFacts
  <2>6. \A j \in Jobs : Commits(j)' = Commits(j) /\ rec'[j] = rec[j] /\ runs'[j] = runs[j]
    BY <2>1 DEF Commits
  <2>7. Count(k)' = Count(k) /\ Open(k)' = Open(k)
    BY <2>6, SameTerms
  <2>8. JobDue(k)'
    BY <2>5, <2>6, <2>7 DEF JobDue
  <2>9. Due(t, l, k)'
    BY <2>3, <2>5, <2>7 DEF Due, JobDue
  <2> QED BY <2>1, <2>2, <2>3, <2>4, <2>6, <2>8, <2>9, DueMoves
<1> QED BY <1>1, <1>2, <1>3, <1>4, <1>5 DEF WorkerStep

LEMMA RecoveryDues ==
    ASSUME TypeOK, LockInv, PubInv, DueInv, NEW t \in Watchers \cup Mains, RecoveryStep(t)
    PROVE  DueInv'
<1> t \in Threads
  BY ThreadKinds
<1>1. CASE RetryStep(t)
  BY <1>1, RetryDues
<1>2. CASE ~RetryStep(t)
  <2>1. job[t] \in Jobs
    BY <1>2, ThreadKinds
       DEF RecoveryStep, At, Reconciles, Recover, RecoverCommitting, RecoverFailed, DeferRecovery,
           RecoverUnpublished, RecoverCompleted, FinishFailed, Announce, ReleaseRecovered, EnqueueRecovered,
           TypeOK, ThreadType
  <2>2. PICK k \in Jobs : k = job[t]
    BY <2>1
  <2>r. rec[k] \in RecType
    BY DEF TypeOK, StoreType
  <2>h. UNCHANGED <<history, runs>>
    BY <1>2 DEF RecoveryStep, Reconciles, Recover, RecoverCommitting, RecoverFailed, DeferRecovery,
           RecoverUnpublished, RecoverCompleted, FinishFailed, Announce, Dispatch, ReleaseRecovered, EnqueueRecovered,
           dataset, ghosts
  <2>c. \A j \in Jobs : Commits(j)' = Commits(j) /\ runs'[j] = runs[j]
    BY <2>h DEF Commits
  <2>n. ASSUME pc[t] \in {"recover", "unpublished", "recoverFailed", "finishFailed"}
        PROVE  /\ Needs(t, pc[t])
               /\ Due(t, pc[t], k) /\ JobDue(k) /\ Place(pc[t], k) /\ Told(k)
               /\ ~CommitPending(k) => Unrecorded(k) = {}
               /\ Unrecorded(k) = {} => (Open(k) <=> Owes(k))
               /\ Count(k) \in Nat /\ runs[k] \in Nat
               /\ Owes(k) => Open(k)
    <3>1. Needs(t, pc[t])
      BY <2>n DEF Needs, Recovering
    <3> QED BY <2>2, <3>1, LeasedFacts
  <2>q. ASSUME OnlyMoves(t), pc'[t] \notin DuePlaces, SameDues PROVE DueInv'
    BY <2>q, DuePlacesFrame, DueStays
  <2>s. ASSUME NEW q, Save(k, q), q.events = rec[k].events, q.attempt = rec[k].attempt
        PROVE  /\ rec'[k] = q /\ \A j \in Jobs : j # k => rec'[j] = rec[j]
               /\ Count(k)' = Count(k) /\ Owes(k)' = Owes(k) /\ Open(k)' = Open(k)
    <3>1. rec'[k] = q /\ \A j \in Jobs : j # k => rec'[j] = rec[j]
      BY <2>s DEF Save, TypeOK, StoreType
    <3> QED BY <2>c, <2>s, <3>1, SameTerms
  <2>m. ASSUME ReconcileFinds(k) \/ ReconcileFindsNothing(k), Told(k)
        PROVE  /\ \A j \in Jobs : j # k => rec'[j] = rec[j] /\ Commits(j)' = Commits(j)
               /\ rec'[k].status = rec[k].status
               /\ Count(k)' = Count(k) /\ Owes(k)' = Owes(k)
               /\ rec[k].pub.state # "completed"
               /\ ReconcileFinds(k) => rec'[k].pub.state = "completed"
               /\ ReconcileFindsNothing(k) => Unrecorded(k) = {}
               /\ Owes(k)' => Open(k)'
    BY <2>h, <2>m, ResolutionFacts DEF Open
  <2>3. CASE Recover(t)
    <3>1. PICK l \in {"recovered", "retry"} : OnlyMoves(t) /\ pc'[t] = l /\ job'[t] = job[t]
      BY <2>3, MoveFacts DEF Recover, StaysWith, TypeOK
    <3>2. pc[t] = "recover"
      BY <2>3 DEF Recover, At
    <3>3. PICK a, b, c : /\ a = [rec[k] EXCEPT !.status = "canceled"]
                         /\ b = [rec[k] EXCEPT !.status = "queued", !.publishing = FALSE]
                         /\ c = [rec[k] EXCEPT !.status = "error", !.publishing = FALSE]
      OBVIOUS
    <3>4. /\ a.status = "canceled" /\ a.events = rec[k].events /\ a.attempt = rec[k].attempt /\ a.pub = rec[k].pub
          /\ b.status = "queued" /\ b.events = rec[k].events /\ b.attempt = rec[k].attempt
          /\ c.status = "error" /\ c.events = rec[k].events /\ c.attempt = rec[k].attempt /\ c.pub = rec[k].pub
      BY <2>r, <3>3 DEF RecType
    <3>5. \/ UNCHANGED rec \/ Save(k, a) \/ Save(k, c)
          \/ Save(k, b) /\ rec[k].status = "running" /\ rec[k].pub.state = "none"
      BY <2>2, <2>3, <3>3 DEF Recover
    <3>6. CASE UNCHANGED rec \/ Save(k, a) \/ Save(k, c)
      <4>1. SameDues
        BY <2>h, <3>4, <3>6, DueFrame, DueSaves DEF Active
      <4> QED BY <2>q, <3>1, <4>1 DEF DuePlaces
    <3>7. CASE Save(k, b) /\ rec[k].status = "running" /\ rec[k].pub.state = "none"
      <4>1. Open(k)
        BY <2>n, <3>2, <3>7 DEF JobDue
      <4>2. /\ rec'[k] = b /\ \A j \in Jobs : j # k => rec'[j] = rec[j]
            /\ Count(k)' = Count(k) /\ Owes(k)' = Owes(k) /\ Open(k)' = Open(k)
        BY <2>s, <3>4, <3>7
      <4>3. JobDue(k)'
        BY <2>c, <2>n, <3>2, <4>1, <4>2 DEF JobDue
      <4>4. Due(t, l, k)'
        BY <3>1 DEF Due
      <4> QED BY <2>2, <2>c, <2>h, <2>n, <3>1, <3>2, <4>2, <4>3, <4>4, DueMoves
    <3> QED BY <3>5, <3>6, <3>7
  <2>4. CASE RecoverCommitting(t)
    <3>1. pc[t] = "recover" /\ rec[k].status = "running" /\ OnlyMoves(t) /\ job'[t] = k
      BY <2>2, <2>4, MoveFacts DEF RecoverCommitting, At, StaysWith, TypeOK
    <3>2. CASE ReconcileFinds(k) /\ Goto(t, "recover")
      <4>1. pc'[t] = "recover"
        BY <3>2, MoveFacts DEF StaysWith, TypeOK
      <4>2. JobDue(k)'
        BY <2>c, <2>m, <2>n, <3>1, <3>2 DEF JobDue
      <4>3. Due(t, "recover", k)'
        BY DEF Due
      <4> QED BY <2>2, <2>h, <2>m, <2>n, <3>1, <3>2, <4>1, <4>2, <4>3, DueMoves
    <3>3. CASE ReconcileFindsNothing(k) /\ Goto(t, "unpublished")
      <4>1. pc'[t] = "unpublished"
        BY <3>3, MoveFacts DEF StaysWith, TypeOK
      <4>2. Owes(k)' /\ Open(k)'
        BY <2>m, <2>n, <3>1, <3>3 DEF JobDue
      <4>3. JobDue(k)'
        BY <2>c, <2>m, <2>n, <3>1, <3>3, <4>2 DEF JobDue
      <4>4. Due(t, "unpublished", k)'
        BY <4>2 DEF Due
      <4> QED BY <2>2, <2>h, <2>m, <2>n, <3>1, <3>3, <4>1, <4>3, <4>4, DueMoves
    <3> QED BY <2>2, <2>4, <3>2, <3>3 DEF RecoverCommitting
  <2>5. CASE RecoverFailed(t)
    <3>1. PICK l \in {"recovered", "finishFailed"} : OnlyMoves(t) /\ pc'[t] = l /\ job'[t] = job[t]
      BY <2>5, MoveFacts DEF RecoverFailed, StaysWith, TypeOK
    <3>2. pc[t] = "recoverFailed"
      BY <2>5 DEF RecoverFailed, At
    <3>3. CASE rec[k].status = "error" /\ (ReconcileFinds(k) \/ ReconcileFindsNothing(k))
      <4>1. JobDue(k)'
        BY <2>c, <2>m, <2>n, <3>2, <3>3 DEF JobDue
      <4>2. Due(t, l, k)'
        BY <3>1 DEF Due
      <4> QED BY <2>2, <2>h, <2>m, <2>n, <3>1, <3>2, <3>3, <4>1, <4>2, DueMoves
    <3>4. CASE UNCHANGED rec
      BY <2>h, <2>q, <3>1, <3>4, DueFrame DEF DuePlaces
    <3> QED BY <2>2, <2>5, <3>3, <3>4 DEF RecoverFailed
  <2>6. CASE RecoverUnpublished(t)
    <3>1. PICK l \in {"recover", "recovered"} : OnlyMoves(t) /\ pc'[t] = l /\ job'[t] = job[t]
      BY <2>6, MoveFacts DEF RecoverUnpublished, StaysWith, TypeOK
    <3>2. pc[t] = "unpublished" \/ (pc[t] = "recover" /\ rec[k].status = "running" /\ rec[k].pub.state = "planned")
      BY <2>2, <2>6 DEF RecoverUnpublished, At
    <3>3. Owes(k)
      <4>1. CASE pc[t] = "unpublished"
        BY <2>n, <4>1 DEF Due
      <4>2. CASE pc[t] = "recover" /\ rec[k].status = "running" /\ rec[k].pub.state = "planned"
        BY <2>n, <4>2 DEF JobDue, CommitPending
      <4> QED BY <3>2, <4>1, <4>2
    <3>4. PICK q : /\ Save(k, q) /\ q.events = rec[k].events /\ q.attempt = rec[k].attempt
      <4>1. PICK a, b : /\ a = [rec[k] EXCEPT !.pub = NoPub, !.publishing = FALSE]
                        /\ b = [rec[k] EXCEPT !.pub = NoPub, !.publishing = FALSE, !.status = "queued"]
        OBVIOUS
      <4>2. /\ a.events = rec[k].events /\ a.attempt = rec[k].attempt
            /\ b.events = rec[k].events /\ b.attempt = rec[k].attempt
        BY <2>r, <4>1 DEF RecType
      <4>3. Save(k, a) \/ Save(k, b)
        BY <2>2, <2>6, <4>1 DEF RecoverUnpublished
      <4> QED BY <4>2, <4>3
    <3>5. /\ \A j \in Jobs : j # k => rec'[j] = rec[j]
          /\ Count(k)' = Count(k) /\ Owes(k)' /\ Open(k)'
      BY <2>n, <2>s, <3>2, <3>3, <3>4
    <3>6. JobDue(k)'
      BY <2>c, <2>n, <3>2, <3>5 DEF JobDue
    <3>7. Due(t, l, k)'
      BY <3>1 DEF Due
    <3> QED BY <2>2, <2>c, <2>h, <2>n, <3>1, <3>2, <3>5, <3>6, <3>7, DueMoves
  <2>7. CASE RecoverCompleted(t) \/ FinishFailed(t)
    <3>1. PICK l \in {"announce", "recovered"} : OnlyMoves(t) /\ pc'[t] = l
      BY <2>7, MoveFacts DEF RecoverCompleted, FinishFailed, StaysWith, TypeOK
    <3>2. Finish(k)
      BY <2>2, <2>7 DEF RecoverCompleted, FinishFailed
    <3>3. SameDues
      BY <2>h, <2>r, <3>2, DueSaves DEF Finish, RecType, Active
    <3> QED BY <2>q, <3>1, <3>3 DEF DuePlaces
  <2>8. CASE DeferRecovery(t) \/ Announce(t) \/ ReleaseRecovered(t) \/ EnqueueRecovered(t)
    <3>1. PICK l \in {"watching", "watch", "recovered", "leaving", "idle", "announce", "discard", "requeue"} :
              OnlyMoves(t) /\ pc'[t] = l
      BY <2>8, MoveFacts DEF DeferRecovery, Announce, ReleaseRecovered, EnqueueRecovered, StaysWith, TypeOK
    <3>2. UNCHANGED rec
      BY <2>8 DEF DeferRecovery, Announce, ReleaseRecovered, EnqueueRecovered
    <3> QED BY <2>h, <2>q, <3>1, <3>2, DueFrame DEF DuePlaces
  <2> QED BY <1>2, <2>3, <2>4, <2>5, <2>6, <2>7, <2>8 DEF RecoveryStep, Reconciles
<1> QED BY <1>1, <1>2

LEMMA WatcherDues ==
    ASSUME TypeOK, LockInv, PubInv, DueInv, NEW w \in Watchers, WatcherStep(w)
    PROVE  DueInv'
<1> w \in Threads
  BY ThreadKinds
<1>1. CASE RecoveryStep(w)
  BY <1>1, RecoveryDues
<1>2. CASE ~RecoveryStep(w)
  <2>1. OnlyMoves(w) /\ pc'[w] \in {"recoverFailed", "recover", "leaving", "requeue", "idle"}
    BY <1>2, MoveFacts DEF WatcherStep, WatcherLease, WatcherStops, WatcherDiscards, WatcherLeaves, StaysWith, TypeOK
  <2>2. UNCHANGED <<rec, history, runs>>
    BY <1>2 DEF WatcherStep, WatcherLease, WatcherStops, WatcherDiscards, WatcherLeaves, dataset, ghosts
  <2> QED BY <2>1, <2>2, DueFrame, DuePlacesFrame, DueStays DEF DuePlaces
<1> QED BY <1>1, <1>2

LEMMA MainDues ==
    ASSUME TypeOK, LockInv, PubInv, DueInv, NEW m \in Mains, MainStep(m)
    PROVE  DueInv'
<1> m \in Threads
  BY ThreadKinds
<1>1. CASE RecoveryStep(m)
  BY <1>1, RecoveryDues
<1>2. CASE StartWatcher(m)
  BY <1>2, StartWatcherDues
<1>3. ASSUME NEW k \in Jobs, RecoverNext(m, k) PROVE DueInv'
  <2>1. OnlyMoves(m) /\ pc'[m] \in {"recover", "recoverFailed", "watch"}
    BY <1>3, MoveFacts DEF RecoverNext, TypeOK
  <2>2. UNCHANGED <<rec, history, runs>>
    BY <1>3 DEF RecoverNext, dataset, ghosts
  <2> QED BY <2>1, <2>2, DueFrame, DuePlacesFrame, DueStays DEF DuePlaces
<1>4. ASSUME NEW k \in Jobs, ReplayClaim(m, k) PROVE DueInv'
  <2>1. OnlyMoves(m) /\ pc'[m] = "requeue"
    BY <1>4, MoveFacts DEF ReplayClaim, TypeOK
  <2>2. DuePlacesStay
    BY <2>1, DuePlacesFrame DEF DuePlaces
  <2>3. rec[k] \in RecType
    BY DEF TypeOK, StoreType
  <2> QED BY <1>4, <2>2, <2>3, DueQueues DEF ReplayClaim, RecType, dataset
<1>5. CASE BeginReconciling(m) \/ BeginReplay(m) \/ Replay(m)
  <2>1. UNCHANGED <<rec, history, runs, local>>
    BY <1>5 DEF BeginReconciling, BeginReplay, Replay, dataset, ghosts
  <2> QED BY <2>1, DueFrame, DueStays DEF DuePlacesStay, local
<1> QED BY <1>1, <1>2, <1>3, <1>4, <1>5 DEF MainStep

(* Processes, timers, the passing of a backoff, ingestions and stuttering. *)
LEMMA OtherDues ==
    ASSUME TypeOK, DueInv,
           \/ \E p \in Procs, j \in Jobs : TimerStep(p, j)
           \/ \E j \in Jobs : BackoffPasses(j)
           \/ \E p \in Procs : ProcessStep(p)
           \/ IngestBegins \/ IngestEnds \/ UNCHANGED vars
    PROVE  DueInv'
<1>1. CASE \/ \E p \in Procs, j \in Jobs : TimerStep(p, j)
           \/ \E p \in Procs : ProcessStep(p)
           \/ IngestBegins \/ UNCHANGED vars
  <2>1. UNCHANGED <<rec, history, runs>>
    BY <1>1 DEF TimerStep, TimerFires, EnqueueRetry, ProcessStep, StartProcess, Shutdown, CloseExecutor, Exit, Crash,
                Die, IngestBegins, vars, dataset, ghosts
  <2>2. \A u \in Threads : pc'[u] = "idle" \/ (pc'[u] = pc[u] /\ job'[u] = job[u] /\ seen'[u] = seen[u])
    BY <1>1 DEF TimerStep, TimerFires, EnqueueRetry, ProcessStep, StartProcess, Shutdown, CloseExecutor, Exit, Crash,
                Die, IngestBegins, vars, local
  <2>3. DuePlacesStay
    BY <2>2 DEF DuePlacesStay, DuePlaces
  <2> QED BY <2>1, <2>3, DueFrame, DueStays
<1>2. CASE \E j \in Jobs : BackoffPasses(j)
  <2>1. PICK j \in Jobs : BackoffPasses(j)
    BY <1>2
  <2>2. rec[j] \in RecType
    BY DEF TypeOK, StoreType
  <2>3. SameDues
    BY <2>1, <2>2, DueSaves DEF BackoffPasses, RecType, dataset, ghosts
  <2> QED BY <2>1, <2>3, DueStays DEF BackoffPasses, DuePlacesStay, local
<1>3. CASE IngestEnds
  <2>1. UNCHANGED <<rec, pc, job, seen, runs>>
    BY <1>3 DEF IngestEnds, local, ghosts
  <2>2. \A j \in Jobs : Commits(j)' = Commits(j)
    <3>1. CASE history' = history
      BY <3>1 DEF Commits
    <3>2. CASE history' = Append(history, [job |-> NoJob, tag |-> 0])
      <4>1. PICK e : e = [job |-> NoJob, tag |-> 0]
        OBVIOUS
      <4>2. e \in [job : Jobs \cup {NoJob}, tag : Nat] /\ \A j \in Jobs : e.job # j
        BY <4>1, JobAssumption
      <4> QED BY <3>2, <4>1, <4>2, Appended
    <3> QED BY <1>3, <3>1, <3>2 DEF IngestEnds
  <2>3. SameDues
    BY <2>1, <2>2 DEF SameDues
  <2> QED BY <2>1, <2>3, DueStays DEF DuePlacesStay
<1> QED BY <1>1, <1>2, <1>3

LEMMA DueStep == ASSUME TypeOK, LockInv, PubInv, DueInv, [Next]_vars PROVE DueInv'
BY HandlerDues, WorkerDues, WatcherDues, MainDues, OtherDues DEF Next

LEMMA DueInit == Init => DueInv
<1> SUFFICES ASSUME Init PROVE DueInv
  OBVIOUS
<1>1. \A j \in Jobs : Commits(j) = {}
  BY DEF Init, Commits
<1>2. \A j \in Jobs : Count(j) = 0
  BY <1>1, FS_EmptySet DEF Count
<1>3. \A j \in Jobs : JobDue(j)
  BY <1>2 DEF Init, JobDue
<1> QED BY <1>3 DEF Init, DueInv, Needs, WorkerLeased, Attempting, Recovering, RetryAt

(* All four together are inductive. *)
JobsInv == TypeOK /\ LockInv /\ PubInv /\ DueInv

THEOREM JobsHold == Spec => []JobsInv
<1>1. Init => JobsInv
  BY InitType, LocksInit, PubsInit, DueInit DEF JobsInv
<1>2. JobsInv /\ [Next]_vars => JobsInv'
  BY NextType, LocksStep, PubsStep, DueStep DEF JobsInv
<1> QED BY <1>1, <1>2, PTL DEF Spec

(* Past the gate no cancellation is accepted, an event names its own       *)
(* job's commit, and a run asked for commits at most once, whatever        *)
(* crashes, retries, recoveries and requests fall between.                 *)
THEOREM PublicationIsSound == Spec => []PublicationSound
<1>1. JobsInv => PublicationSound
  <2> SUFFICES ASSUME JobsInv PROVE PublicationSound
    OBVIOUS
  <2>1. GateExcludesCancel
    BY DEF JobsInv, PubInv
  <2>2. EventsAreOwnCommits
    BY DEF JobsInv, PubInv, ToldInv, Told, EventsAreOwnCommits
  <2>3. OneCommitPerRun
    BY DEF JobsInv, DueInv, JobDue, Count, OneCommitPerRun
  <2> QED BY <2>1, <2>2, <2>3 DEF PublicationSound
<1> QED BY <1>1, JobsHold, PTL

-----------------------------------------------------------------------------
(* The ledger of commits and events.                                       *)

Landed   == [j \in Jobs |-> Cardinality(Commits(j))]
Recorded == [j \in Jobs |-> Cardinality(rec[j].events)]
Asked    == [j \in Jobs |-> rec[j].cancel]

(* A step that makes no commit, records none and asks nothing. *)
SameLedger ==
    \A j \in Jobs : /\ Commits(j)' = Commits(j)
                    /\ rec'[j].events = rec[j].events /\ rec'[j].cancel = rec[j].cancel

LEMMA LedgerStays == ASSUME SameLedger PROVE UNCHANGED Ledger!vars
<1>1. Landed' = Landed
  BY DEF SameLedger, Landed
<1>2. Recorded' = Recorded /\ Asked' = Asked
  BY DEF SameLedger, Recorded, Asked
<1> QED BY <1>1, <1>2 DEF Ledger!vars, Landed, Recorded, Asked

LEMMA LedgerFrame == ASSUME UNCHANGED <<rec, history>> PROVE SameLedger
BY DEF SameLedger, Commits

LEMMA LedgerSaves ==
    ASSUME TypeOK, NEW k \in Jobs, NEW r, Save(k, r), history' = history,
           r.events = rec[k].events, r.cancel = rec[k].cancel
    PROVE  SameLedger
BY DEF SameLedger, Commits, Save, TypeOK, StoreType

(* A job without a pending publication has its commits on record. *)
LEMMA LedgerSettles ==
    ASSUME PubInv, NEW k \in Jobs, Unrecorded(k) = {} PROVE Ledger!Settled(k)
<1>1. rec[k].events = Commits(k)
  BY DEF PubInv, ToldInv, Told, Unrecorded
<1> QED BY <1>1 DEF Ledger!Settled

(* Completing a publication records the one commit without an event. *)
LEMMA LedgerRecords ==
    ASSUME TypeOK, PubInv, NEW k \in Jobs, NEW i \in OwnCommits(k), CommitPending(k), Complete(k, i), history' = history
    PROVE  Ledger!Record(k)
<1>1. Unrecorded(k) = {i} /\ rec'[k].events = rec[k].events \cup {i} /\ Told(k)
  BY ToldCompleted DEF PubInv, ToldInv
<1>2. Commits(k) = rec[k].events \cup {i} /\ i \notin rec[k].events
  BY <1>1 DEF Unrecorded, Told
<1>3. IsFiniteSet(rec[k].events)
  BY <1>2, CountFacts, FS_Subset
<1>4. Cardinality(Commits(k)) = Cardinality(rec[k].events) + 1 /\ Cardinality(rec[k].events) \in Nat
  BY <1>2, <1>3, FS_AddElement, FS_CardinalityType
<1>5. ~ Ledger!Settled(k)
  BY <1>4 DEF Ledger!Settled
<1>6. Landed' = Landed
  BY DEF Landed, Commits
<1>7. /\ \A j \in Jobs : j # k => rec'[j] = rec[j]
      /\ rec'[k].cancel = rec[k].cancel
  <2>1. rec[k] \in RecType
    BY DEF TypeOK, StoreType
  <2> QED BY <2>1 DEF Complete, Save, TypeOK, StoreType, RecType
<1>8. Asked' = Asked
  BY <1>7 DEF Asked
<1>9. Recorded' = [Recorded EXCEPT ![k] = Landed[k]]
  <2>1. \A j \in Jobs : j # k => Recorded'[j] = Recorded[j]
    BY <1>7 DEF Recorded
  <2>2. Recorded'[k] = Landed[k]
    BY <1>1, <1>2 DEF Recorded, Landed
  <2> QED BY <2>1, <2>2 DEF Recorded
<1> QED BY <1>5, <1>6, <1>8, <1>9 DEF Ledger!Record, Landed, Recorded, Asked

(* A resolution records, or finds nothing to record. *)
LEMMA LedgerResolves ==
    ASSUME TypeOK, PubInv, NEW k \in Jobs, history' = history, ReconcileFinds(k) \/ ReconcileFindsNothing(k)
    PROVE  [Ledger!Next]_(Ledger!vars)
<1>1. CASE ReconcileFinds(k)
  <2>1. PICK i \in OwnCommits(k) : Complete(k, i)
    BY <1>1, NewestCommit DEF ReconcileFinds, TypeOK
  <2>2. Ledger!Record(k)
    BY <1>1, <2>1, LedgerRecords DEF ReconcileFinds
  <2> QED BY <2>2 DEF Ledger!Next
<1>2. CASE ReconcileFindsNothing(k)
  <2>1. rec[k] \in RecType
    BY DEF TypeOK, StoreType
  <2>2. SameLedger
    BY <1>2, <2>1, LedgerSaves DEF ReconcileFindsNothing, RecType
  <2> QED BY <2>2, LedgerStays
<1> QED BY <1>1, <1>2

(* A commit lands for a job whose commits are on record and that nobody    *)
(* has asked to cancel.                                                    *)
LEMMA LedgerLands ==
    ASSUME TypeOK, LockInv, PubInv, NEW t \in Workers, AttemptStep(t), Commit(t)
    PROVE  [Ledger!Next]_(Ledger!vars)
<1> t \in Threads
  BY ThreadKinds
<1>1. PICK k \in Jobs : k = job[t]
  BY AttemptMoves
<1>2. CommitPending(k) /\ rec[k].pub.base = Len(history)
  BY <1>1 DEF Commit, At, PubInv, PlaceInv, Place, Needs, WorkerLeased, Attempting
<1>3. PICK e : e = [job |-> k, tag |-> rec[k].pub.tag]
  OBVIOUS
<1>4. e \in [job : Jobs \cup {NoJob}, tag : Nat] /\ e.job = k /\ history' = Append(history, e)
  BY <1>1, <1>3 DEF Commit, TypeOK, StoreType, RecType, PubType
<1>5. /\ \A j \in Jobs : j # k => Commits(j)' = Commits(j)
      /\ Commits(k)' = Commits(k) \cup {Len(history) + 1} /\ Len(history) + 1 \notin Commits(k)
      /\ Commits(k) \subseteq 1..Len(history) /\ Len(history) \in Nat
  BY <1>4, Appended
<1>6. Unrecorded(k) = {}
  BY <1>2, <1>5 DEF PubInv, ToldInv, Told, Unrecorded
<1>7. Ledger!Settled(k)
  BY <1>6, LedgerSettles
<1>8. Cardinality(Commits(k) \cup {Len(history) + 1}) = Cardinality(Commits(k)) + 1
  BY <1>5, CountFacts, FS_AddElement
<1>9. Landed' = [Landed EXCEPT ![k] = @ + 1]
  <2>1. \A j \in Jobs : j # k => Landed'[j] = Landed[j]
    BY <1>5 DEF Landed
  <2>2. Landed'[k] = Landed[k] + 1
    BY <1>5, <1>8 DEF Landed
  <2> QED BY <2>1, <2>2 DEF Landed
<1>10. Recorded' = Recorded /\ Asked' = Asked /\ ~Asked[k]
  BY <1>2 DEF Commit, Recorded, Asked, PubInv, GateExcludesCancel
<1>11. Ledger!Land(k)
  BY <1>7, <1>9, <1>10 DEF Ledger!Land, Landed, Recorded, Asked
<1> QED BY <1>11 DEF Ledger!Next

LEMMA HandlerLedger ==
    ASSUME TypeOK, PubInv, Request \/ \E h \in Handlers : HandlerStep(h)
    PROVE  [Ledger!Next]_(Ledger!vars)
<1>1. PICK h \in Handlers, j \in Jobs :
          \/ CreateJob(h, j) \/ CreateTriggered(h, j) \/ StartRead(h, j) \/ CancelWaiting(h, j)
          \/ HandlerStep(h) /\ j = job[h]
  <2>1. ASSUME NEW h \in Handlers, HandlerStep(h) PROVE job[h] \in Jobs
    BY <2>1, ThreadKinds DEF HandlerStep, Claim, StartWrite, EnqueueRequested, CancelWrite, At, TypeOK, ThreadType
  <2> QED BY <2>1 DEF Request
<1>2. history' = history
  BY <1>1 DEF CreateJob, CreateTriggered, StartRead, CancelWaiting, HandlerStep, Claim, StartWrite, EnqueueRequested,
              CancelWrite, dataset
<1>r. rec[j] \in RecType
  BY DEF TypeOK, StoreType
<1>3. CASE UNCHANGED rec
  BY <1>2, <1>3, LedgerFrame, LedgerStays
<1>4. ASSUME NEW q, Save(j, q), q.events = rec[j].events
      PROVE  /\ Landed' = Landed /\ Recorded' = Recorded /\ Asked' = [Asked EXCEPT ![j] = q.cancel]
  <2>1. rec'[j] = q /\ \A i \in Jobs : i # j => rec'[i] = rec[i]
    BY <1>4 DEF Save, TypeOK, StoreType
  <2>2. Landed' = Landed
    BY <1>2 DEF Landed, Commits
  <2>3. \A i \in Jobs : rec'[i].events = rec[i].events
    BY <1>4, <2>1
  <2>4. Recorded' = Recorded
    BY <2>3 DEF Recorded
  <2>5. Asked' = [Asked EXCEPT ![j] = q.cancel]
    BY <2>1 DEF Asked
  <2> QED BY <2>2, <2>4, <2>5
<1>5. CASE StartWrite(h) /\ j = job[h]
  <2>1. PICK q : q = [rec[j] EXCEPT !.status = "queued", !.attempt = 0, !.waiting = FALSE, !.cancel = FALSE]
    OBVIOUS
  <2>2. q.cancel = FALSE /\ q.events = rec[j].events
    BY <1>r, <2>1 DEF RecType
  <2>3. Save(j, q)
    BY <1>5, <2>1 DEF StartWrite
  <2>4. Ledger!AskToRun(j)
    BY <1>4, <2>2, <2>3 DEF Ledger!AskToRun, Landed, Recorded, Asked
  <2> QED BY <2>4 DEF Ledger!Next
<1>6. CASE (CreateJob(h, j) \/ CreateTriggered(h, j) \/ (Claim(h) /\ j = job[h])) /\ ~ UNCHANGED rec
  <2>1. SameLedger
    BY <1>2, <1>6, <1>r, LedgerSaves DEF CreateJob, CreateTriggered, Claim, RecType
  <2> QED BY <2>1, LedgerStays
<1>7. CASE CancelWrite(h) /\ j = job[h] /\ ~ UNCHANGED rec
  <2>1. PICK a, b : a = [rec[j] EXCEPT !.status = "canceled"] /\ b = [rec[j] EXCEPT !.cancel = TRUE]
    OBVIOUS
  <2>2. ~rec[j].publishing /\ (Save(j, a) \/ Save(j, b))
    BY <1>7, <2>1 DEF CancelWrite
  <2>3. CASE Save(j, a)
    <3>1. a.events = rec[j].events /\ a.cancel = rec[j].cancel
      BY <1>r, <2>1 DEF RecType
    <3> QED BY <1>2, <2>3, <3>1, LedgerSaves, LedgerStays
  <2>4. CASE Save(j, b)
    <3>1. b.events = rec[j].events /\ b.cancel = TRUE
      BY <1>r, <2>1 DEF RecType
    <3>2. Unrecorded(j) = {}
      BY <2>2, SettledHasNone DEF PubInv, GateExcludesCancel, ToldInv
    <3>3. Ledger!Settled(j)
      BY <3>2, LedgerSettles
    <3>4. Ledger!AskToCancel(j)
      BY <1>4, <2>4, <3>1, <3>3 DEF Ledger!AskToCancel, Landed, Recorded, Asked
    <3> QED BY <3>4 DEF Ledger!Next
  <2> QED BY <2>2, <2>3, <2>4
<1> QED BY <1>1, <1>3, <1>5, <1>6, <1>7 DEF HandlerStep, StartRead, CancelWaiting, EnqueueRequested

LEMMA RetryLedger ==
    ASSUME TypeOK, NEW t \in Workers \cup Watchers \cup Mains, RetryStep(t)
    PROVE  [Ledger!Next]_(Ledger!vars)
<1>1. PICK k \in Jobs : k = job[t]
  BY ThreadKinds DEF RetryStep, ScheduleRetry, RecheckCancelled, Disarm, CancelDisarmed, At, TypeOK, ThreadType
<1>2. history' = history
  BY DEF RetryStep, ScheduleRetry, RecheckCancelled, Disarm, CancelDisarmed, dataset
<1>3. UNCHANGED rec \/ Save(k, [rec[k] EXCEPT !.status = "canceled"])
  BY <1>1 DEF RetryStep, ScheduleRetry, RecheckCancelled, Disarm, CancelDisarmed
<1>4. rec[k] \in RecType
  BY DEF TypeOK, StoreType
<1> QED BY <1>2, <1>3, <1>4, LedgerSaves, LedgerFrame, LedgerStays DEF RecType

LEMMA AttemptLedger ==
    ASSUME TypeOK, LockInv, PubInv, NEW t \in Workers, AttemptStep(t)
    PROVE  [Ledger!Next]_(Ledger!vars)
<1>1. PICK k \in Jobs : k = job[t]
  BY AttemptMoves
<1>r. rec[k] \in RecType /\ Told(k)
  BY DEF TypeOK, StoreType, PubInv, ToldInv
<1>s. ASSUME NEW q, q.events = rec[k].events, q.cancel = rec[k].cancel, Save(k, q), history' = history
      PROVE  UNCHANGED Ledger!vars
  BY <1>s, LedgerSaves, LedgerStays
<1>n. ASSUME UNCHANGED <<rec, history>> PROVE UNCHANGED Ledger!vars
  BY <1>n, LedgerFrame, LedgerStays
<1>2. CASE SavePlain(t) \/ Raise(t) \/ NoticeCancel(t) \/ Notify(t)
  BY <1>2, <1>n DEF SavePlain, Raise, NoticeCancel, Notify, dataset
<1>3. CASE ReadRecord(t) \/ ClearOutput(t) \/ RecordCancelled(t) \/ FinishAttempt(t)
  <2>1. UNCHANGED history
    BY <1>3 DEF ReadRecord, ClearOutput, RecordCancelled, FinishAttempt, dataset
  <2>2. PICK a, b, c, d : /\ a = [rec[k] EXCEPT !.status = "canceled"]
                          /\ b = [rec[k] EXCEPT !.publishing = FALSE, !.pub = NoPub]
                          /\ c = [rec[k] EXCEPT !.status = "canceled", !.publishing = FALSE, !.pub = NoPub]
                          /\ d = [rec[k] EXCEPT !.status = "finished", !.publishing = FALSE]
    OBVIOUS
  <2>3. \A q \in {a, b, c, d} : q.events = rec[k].events /\ q.cancel = rec[k].cancel
    BY <1>r, <2>2 DEF RecType
  <2>4. UNCHANGED rec \/ \E q \in {a, b, c, d} : Save(k, q)
    <3>1. CASE ReadRecord(t)
      BY <1>1, <2>2, <3>1 DEF ReadRecord
    <3>2. CASE ClearOutput(t) \/ RecordCancelled(t)
      BY <1>1, <2>2, <3>2 DEF ClearOutput, RecordCancelled
    <3>3. CASE FinishAttempt(t)
      <4>1. Finish(k)
        BY <1>1, <3>3 DEF FinishAttempt
      <4>2. Save(k, a) \/ Save(k, d)
        BY <2>2, <4>1 DEF Finish
      <4> QED BY <4>2
    <3> QED BY <1>3, <3>1, <3>2, <3>3
  <2> QED BY <1>n, <1>s, <2>1, <2>3, <2>4
<1>4. CASE StartAttempt(t) \/ RecordFailure(t)
  <2>1. UNCHANGED history
    BY <1>4 DEF StartAttempt, RecordFailure, dataset
  <2>2. PICK f : f = CommitPending(k)
    OBVIOUS
  <2>3. PICK a, b, c, d : /\ a = [rec[k] EXCEPT !.status = "running", !.attempt = rec[k].attempt + 1,
                                     !.waiting = FALSE, !.publishing = f, !.pub = IF f THEN rec[k].pub ELSE NoPub]
                          /\ b = [rec[k] EXCEPT !.status = "canceled"]
                          /\ c = [rec[k] EXCEPT !.status = "queued", !.waiting = TRUE, !.publishing = f]
                          /\ d = [rec[k] EXCEPT !.status = "error", !.publishing = f]
    OBVIOUS
  <2>4. \A q \in {a, b, c, d} : q.events = rec[k].events /\ q.cancel = rec[k].cancel
    BY <1>r, <2>3 DEF RecType
  <2>5. CASE StartAttempt(t)
    <3>1. Save(k, a)
      BY <1>1, <2>2, <2>3, <2>5 DEF StartAttempt
    <3> QED BY <1>s, <2>1, <2>4, <3>1
  <2>6. CASE RecordFailure(t)
    <3>1. Save(k, b) \/ Save(k, c) \/ Save(k, d)
      BY <1>1, <2>2, <2>3, <2>6 DEF RecordFailure
    <3> QED BY <1>s, <2>1, <2>4, <3>1
  <2> QED BY <1>4, <2>5, <2>6
<1>5. CASE PlanPublication(t) \/ EnterPublication(t)
  <2>1. UNCHANGED history
    BY <1>5 DEF PlanPublication, EnterPublication
  <2>2. PICK p : p = [state |-> "planned", base |-> Len(history), tag |-> rec[k].attempt, snap |-> 0]
    OBVIOUS
  <2>3. PICK c : c = [rec[k].pub EXCEPT !.state = "committing"]
    OBVIOUS
  <2>4. PICK a, b : a = [rec[k] EXCEPT !.pub = p] /\ b = [rec[k] EXCEPT !.publishing = TRUE, !.pub = c]
    OBVIOUS
  <2>5. \A q \in {a, b} : q.events = rec[k].events /\ q.cancel = rec[k].cancel
    BY <1>r, <2>4 DEF RecType
  <2>6. UNCHANGED rec \/ Save(k, a) \/ Save(k, b)
    <3>1. CASE PlanPublication(t)
      BY <1>1, <2>2, <2>4, <3>1 DEF PlanPublication
    <3>2. CASE EnterPublication(t)
      BY <1>1, <2>3, <2>4, <3>2 DEF EnterPublication
    <3> QED BY <1>5, <3>1, <3>2
  <2> QED BY <1>n, <1>s, <2>1, <2>5, <2>6
<1>6. CASE Commit(t)
  BY <1>6, LedgerLands
<1>7. CASE CompletePublication(t)
  <2>1. CommitPending(k) /\ Len(history) \in OwnCommits(k)
    <3>1. pc[t] = "complete" /\ Needs(t, "complete") /\ t \in Threads
      BY <1>7, ThreadKinds DEF CompletePublication, At, Needs, WorkerLeased, Attempting
    <3>2. /\ CommitPending(k) /\ Len(history) = rec[k].pub.base + 1
          /\ history[Len(history)] = [job |-> k, tag |-> rec[k].pub.tag]
      BY <1>1, <3>1 DEF PubInv, PlaceInv, Place
    <3>3. rec[k].pub.base \in Nat /\ DOMAIN history = 1..Len(history)
      BY <1>r DEF RecType, PubType, TypeOK, StoreType
    <3>4. Len(history) > rec[k].pub.base /\ Len(history) \in DOMAIN history
      BY <3>2, <3>3
    <3> QED BY <3>2, <3>4 DEF OwnCommits
  <2>2. Complete(k, Len(history)) /\ history' = history
    BY <1>1, <1>7 DEF CompletePublication
  <2>3. Ledger!Record(k)
    BY <2>1, <2>2, LedgerRecords
  <2> QED BY <2>3 DEF Ledger!Next
<1>8. CASE ResolvePending(t) \/ CompleteAfterFailure(t)
  <2>1. history' = history
    BY <1>8 DEF ResolvePending, CompleteAfterFailure, dataset
  <2>2. UNCHANGED rec \/ ReconcileFinds(k) \/ ReconcileFindsNothing(k)
    BY <1>1, <1>8 DEF ResolvePending, CompleteAfterFailure
  <2> QED BY <1>n, <2>1, <2>2, LedgerResolves
<1> QED BY <1>2, <1>3, <1>4, <1>5, <1>6, <1>7, <1>8 DEF AttemptStep

LEMMA RecoveryLedger ==
    ASSUME TypeOK, PubInv, NEW t \in Watchers \cup Mains, RecoveryStep(t)
    PROVE  [Ledger!Next]_(Ledger!vars)
<1>1. CASE RetryStep(t)
  BY <1>1, RetryLedger
<1>2. CASE ~RetryStep(t)
  <2>1. PICK k \in Jobs : k = job[t]
    BY <1>2, ThreadKinds
       DEF RecoveryStep, At, Reconciles, Recover, RecoverCommitting, RecoverFailed, DeferRecovery,
           RecoverUnpublished, RecoverCompleted, FinishFailed, Announce, ReleaseRecovered, EnqueueRecovered,
           TypeOK, ThreadType
  <2>r. rec[k] \in RecType
    BY DEF TypeOK, StoreType
  <2>2. history' = history
    BY <1>2 DEF RecoveryStep, Reconciles, Recover, RecoverCommitting, RecoverFailed, DeferRecovery,
           RecoverUnpublished, RecoverCompleted, FinishFailed, Announce, ReleaseRecovered, EnqueueRecovered, dataset
  <2>n. ASSUME UNCHANGED rec PROVE UNCHANGED Ledger!vars
    BY <2>2, <2>n, LedgerFrame, LedgerStays
  <2>3. PICK a, b, c, d, e, f :
            /\ a = [rec[k] EXCEPT !.status = "canceled"]
            /\ b = [rec[k] EXCEPT !.status = "queued", !.publishing = FALSE]
            /\ c = [rec[k] EXCEPT !.status = "error", !.publishing = FALSE]
            /\ d = [rec[k] EXCEPT !.pub = NoPub, !.publishing = FALSE]
            /\ e = [rec[k] EXCEPT !.pub = NoPub, !.publishing = FALSE, !.status = "queued"]
            /\ f = [rec[k] EXCEPT !.status = "finished", !.publishing = FALSE]
    OBVIOUS
  <2>4. \A q \in {a, b, c, d, e, f} : q.events = rec[k].events /\ q.cancel = rec[k].cancel
    BY <2>r, <2>3 DEF RecType
  <2>s. ASSUME NEW q \in {a, b, c, d, e, f}, Save(k, q) PROVE UNCHANGED Ledger!vars
    BY <2>2, <2>4, <2>s, LedgerSaves, LedgerStays
  <2>5. CASE Recover(t)
    <3>1. UNCHANGED rec \/ Save(k, a) \/ Save(k, b) \/ Save(k, c)
      BY <2>1, <2>3, <2>5 DEF Recover
    <3> QED BY <2>n, <2>s, <3>1
  <2>6. CASE RecoverUnpublished(t)
    <3>1. Save(k, d) \/ Save(k, e)
      BY <2>1, <2>3, <2>6 DEF RecoverUnpublished
    <3> QED BY <2>s, <3>1
  <2>7. CASE RecoverCompleted(t) \/ FinishFailed(t)
    <3>1. Finish(k)
      BY <2>1, <2>7 DEF RecoverCompleted, FinishFailed
    <3>2. Save(k, a) \/ Save(k, f)
      BY <2>3, <3>1 DEF Finish
    <3> QED BY <2>s, <3>2
  <2>8. CASE RecoverCommitting(t) \/ RecoverFailed(t)
    <3>1. UNCHANGED rec \/ ReconcileFinds(k) \/ ReconcileFindsNothing(k)
      BY <2>1, <2>8 DEF RecoverCommitting, RecoverFailed
    <3> QED BY <2>2, <2>n, <3>1, LedgerResolves
  <2>9. CASE DeferRecovery(t) \/ Announce(t) \/ ReleaseRecovered(t) \/ EnqueueRecovered(t)
    BY <2>9, <2>n DEF DeferRecovery, Announce, ReleaseRecovered, EnqueueRecovered
  <2> QED BY <1>2, <2>5, <2>6, <2>7, <2>8, <2>9 DEF RecoveryStep, Reconciles
<1> QED BY <1>1, <1>2

LEMMA LedgerStep == ASSUME JobsInv, [Next]_vars PROVE [Ledger!Next]_(Ledger!vars)
<1> USE DEF JobsInv
<1>1. CASE Request \/ \E h \in Handlers : HandlerStep(h)
  BY <1>1, HandlerLedger
<1>2. ASSUME NEW t \in Workers, WorkerStep(t) PROVE [Ledger!Next]_(Ledger!vars)
  <2>1. CASE AttemptStep(t)
    BY <2>1, AttemptLedger
  <2>2. CASE RetryStep(t)
    BY <2>2, RetryLedger
  <2>3. CASE ~AttemptStep(t) /\ ~RetryStep(t)
    BY <1>2, <2>3, LedgerFrame, LedgerStays
       DEF WorkerStep, PickUp, TryLease, ReadUnderLease, WaitForSlot, ReleaseLease, PopFuture, StartWatcher, dataset
  <2> QED BY <2>1, <2>2, <2>3
<1>3. ASSUME NEW w \in Watchers, WatcherStep(w) PROVE [Ledger!Next]_(Ledger!vars)
  <2>1. CASE RecoveryStep(w)
    BY <2>1, RecoveryLedger
  <2>2. CASE ~RecoveryStep(w)
    BY <1>3, <2>2, LedgerFrame, LedgerStays
       DEF WatcherStep, WatcherLease, WatcherStops, WatcherDiscards, WatcherLeaves, dataset
  <2> QED BY <2>1, <2>2
<1>4. ASSUME NEW m \in Mains, MainStep(m) PROVE [Ledger!Next]_(Ledger!vars)
  <2>1. CASE RecoveryStep(m)
    BY <2>1, RecoveryLedger
  <2>2. ASSUME NEW k \in Jobs, ReplayClaim(m, k) PROVE [Ledger!Next]_(Ledger!vars)
    <3>1. rec[k] \in RecType
      BY DEF TypeOK, StoreType
    <3> QED BY <2>2, <3>1, LedgerSaves, LedgerStays DEF ReplayClaim, RecType, dataset
  <2>3. CASE ~RecoveryStep(m) /\ \A k \in Jobs : ~ReplayClaim(m, k)
    BY <1>4, <2>3, LedgerFrame, LedgerStays
       DEF MainStep, RecoverNext, StartWatcher, BeginReconciling, BeginReplay, Replay, dataset
  <2> QED BY <2>1, <2>2, <2>3
<1>5. CASE \E j \in Jobs : BackoffPasses(j)
  <2>1. PICK j \in Jobs : BackoffPasses(j)
    BY <1>5
  <2>2. rec[j] \in RecType
    BY DEF TypeOK, StoreType
  <2> QED BY <2>1, <2>2, LedgerSaves, LedgerStays DEF BackoffPasses, RecType, dataset
<1>6. CASE \/ \E p \in Procs, j \in Jobs : TimerStep(p, j)
           \/ \E p \in Procs : ProcessStep(p)
           \/ IngestBegins \/ UNCHANGED vars
  BY <1>6, LedgerFrame, LedgerStays
     DEF TimerStep, TimerFires, EnqueueRetry, ProcessStep, StartProcess, Shutdown, CloseExecutor, Exit, Crash,
         Die, IngestBegins, vars, dataset
<1>7. CASE IngestEnds
  <2>1. UNCHANGED rec
    BY <1>7 DEF IngestEnds
  <2>2. CASE history' = Append(history, [job |-> NoJob, tag |-> 0])
    <3>1. PICK e : e = [job |-> NoJob, tag |-> 0]
      OBVIOUS
    <3>2. e \in [job : Jobs \cup {NoJob}, tag : Nat] /\ \A j \in Jobs : e.job # j
      BY <3>1, JobAssumption
    <3>3. SameLedger
      BY <2>1, <2>2, <3>1, <3>2, Appended DEF SameLedger
    <3> QED BY <3>3, LedgerStays
  <2> QED BY <1>7, <2>1, <2>2, LedgerFrame, LedgerStays DEF IngestEnds
<1> QED BY <1>1, <1>2, <1>3, <1>4, <1>5, <1>6, <1>7 DEF Next

LEMMA LedgerInit == Init => Ledger!Init
<1> SUFFICES ASSUME Init PROVE Ledger!Init
  OBVIOUS
<1>1. \A j \in Jobs : Commits(j) = {} /\ rec[j].events = {} /\ rec[j].cancel = FALSE
  BY DEF Init, Commits
<1>2. \A j \in Jobs : Cardinality(Commits(j)) = 0 /\ Cardinality(rec[j].events) = 0
  BY <1>1, FS_EmptySet
<1> QED BY <1>1, <1>2 DEF Ledger!Init

(* The runtime implements the publication ledger: a commit lands only when *)
(* the one before it is on record and nobody asked to cancel, it is        *)
(* recorded before anything else happens to the publication, and a         *)
(* cancellation is accepted only while no commit awaits its event.         *)
THEOREM LedgerImplemented == Spec => ImplementsLedger
<1>1. Init => JobsInv
  BY InitType, LocksInit, PubsInit, DueInit DEF JobsInv
<1>2. JobsInv /\ [Next]_vars => JobsInv' /\ [Ledger!Next]_(Ledger!vars)
  BY NextType, LocksStep, PubsStep, DueStep, LedgerStep DEF JobsInv
<1>3. Init => Ledger!Init
  BY LedgerInit
<1> QED BY <1>1, <1>2, <1>3, PTL DEF Spec, ImplementsLedger, Ledger!Spec

-----------------------------------------------------------------------------
(***************************************************************************)
(* The results of the jobs.  StandInv says that a job whose lease a thread *)
(* holds to run it, or to record how it went, has not ended with a result; *)
(* an ERROR job whose publication it just completed carries no accepted    *)
(* cancellation.                                                           *)
(***************************************************************************)
Undecided == {"slot", "read", "start", "resolve", "clear", "compute", "gate", "commit", "complete",
              "failing", "failed", "finish", "cancelled", "unpublished"}

Stands(l, j) ==
    LET r == rec[j] IN
    /\ l \in Undecided => r.status \notin Results
    /\ l = "finishFailed" => /\ r.status # "finished"
                             /\ r.status = "error" => ~r.cancel /\ r.pub.state = "completed"

StandInv == \A t \in Threads : Needs(t, pc[t]) => Stands(pc[t], job[t])

\* A result changes only as ResultsStand says.
Warranted(j) ==
    rec[j].status \in Results /\ rec'[j].status # rec[j].status =>
        \/ runs'[j] > runs[j]
        \/ rec[j].status = "error" /\ rec'[j].status = "finished" /\ rec[j].pub.state = "completed"

Stood == StandInv' /\ \A j \in Jobs : Warranted(j)

\* No job ends with a result, and what an ERROR job carries stays.
NoResult(j) ==
    rec'[j].status \in Results =>
        /\ rec'[j].status = rec[j].status
        /\ rec[j].status = "error" => rec'[j].cancel = rec[j].cancel /\ rec'[j].pub = rec[j].pub

\* A thread that holds a lease stays where it is, or goes where nothing is known.
Bystanders ==
    \A t \in Threads : Needs(t, pc'[t]) =>
        \/ pc'[t] \notin Undecided \cup {"finishFailed"}
        \/ pc'[t] = pc[t] /\ job'[t] = job[t]

LEMMA StandStays ==
    ASSUME TypeOK, StandInv, Bystanders, \A j \in Jobs : NoResult(j) /\ Warranted(j)
    PROVE  Stood
<1> SUFFICES ASSUME NEW t \in Threads, Needs(t, pc'[t]) PROVE Stands(pc[t], job[t])'
  BY DEF Stood, StandInv, Needs
<1>1. CASE pc'[t] \notin Undecided \cup {"finishFailed"}
  BY <1>1 DEF Stands
<1>2. CASE pc'[t] = pc[t] /\ job'[t] = job[t]
  <2>1. job[t] \in Jobs
    BY <1>2 DEF Needs, WorkerLeased, Attempting, Recovering, RetryAt, TypeOK, ThreadType
  <2>2. Stands(pc[t], job[t]) /\ NoResult(job[t])
    BY <1>2, <2>1 DEF StandInv, Needs
  <2> QED BY <1>2, <2>2 DEF Stands, NoResult, Results
<1> QED BY <1>1, <1>2 DEF Bystanders

LEMMA StandMoves ==
    ASSUME TypeOK, LockInv, StandInv, NEW t \in Threads, NEW k \in Jobs, k = job[t],
           Needs(t, pc[t]), OnlyMoves(t), \A j \in Jobs : j # k => rec'[j] = rec[j],
           Needs(t, pc'[t]) => job'[t] = k /\ Stands(pc[t], k)', Warranted(k)
    PROVE  Stood
<1>1. StandInv'
  <2> SUFFICES ASSUME NEW u \in Threads, Needs(u, pc'[u]) PROVE Stands(pc[u], job[u])'
    BY DEF StandInv, Needs
  <2>1. CASE u = t
    BY <2>1 DEF Stands
  <2>2. CASE u # t
    <3>1. pc'[u] = pc[u] /\ job'[u] = job[u] /\ Needs(u, pc[u])
      BY <2>2 DEF OnlyMoves
    <3>2. lease[job[u]] = u /\ lease[k] = t /\ Stands(pc[u], job[u])
      BY <3>1 DEF LockInv, LeaseInv, StandInv
    <3>3. job[u] \in Jobs
      BY <3>1 DEF Needs, WorkerLeased, Attempting, Recovering, RetryAt, TypeOK, ThreadType
    <3>4. rec'[job[u]] = rec[job[u]]
      BY <2>2, <3>2, <3>3
    <3> QED BY <3>1, <3>2, <3>4 DEF Stands
  <2> QED BY <2>1, <2>2
<1>2. ASSUME NEW j \in Jobs, j # k PROVE Warranted(j)
  BY <1>2 DEF Warranted
<1> QED BY <1>1, <1>2 DEF Stood

\* A step of one thread to a place where nothing is known of its job.
LEMMA StandAside ==
    ASSUME NEW t \in Threads, OnlyMoves(t), pc'[t] \notin Undecided \cup {"finishFailed"}
    PROVE  Bystanders
BY DEF OnlyMoves, Bystanders

LEMMA StandFrame == ASSUME UNCHANGED rec PROVE \A j \in Jobs : NoResult(j) /\ Warranted(j)
BY DEF NoResult, Warranted

LEMMA StandSaves ==
    ASSUME TypeOK, NEW k \in Jobs, NEW r, Save(k, r),
           r.status = rec[k].status \/ r.status \notin Results,
           r.status # rec[k].status => rec[k].status \notin Results \/ runs'[k] > runs[k],
           rec[k].status = "error" /\ r.status = "error" => r.cancel = rec[k].cancel /\ r.pub = rec[k].pub
    PROVE  \A j \in Jobs : NoResult(j) /\ Warranted(j)
<1>1. rec'[k] = r /\ \A j \in Jobs : j # k => rec'[j] = rec[j]
  BY DEF Save, TypeOK, StoreType
<1> QED BY <1>1 DEF NoResult, Warranted, Results

-----------------------------------------------------------------------------
(* One lemma for each kind of step. *)

LEMMA HandlerStands ==
    ASSUME TypeOK, StandInv, Request \/ \E h \in Handlers : HandlerStep(h)
    PROVE  Stood
<1>1. PICK h \in Handlers, j \in Jobs :
          \/ CreateJob(h, j) \/ CreateTriggered(h, j) \/ StartRead(h, j) \/ CancelWaiting(h, j)
          \/ HandlerStep(h) /\ j = job[h]
  <2>1. ASSUME NEW h \in Handlers, HandlerStep(h) PROVE job[h] \in Jobs
    BY <2>1, ThreadKinds DEF HandlerStep, Claim, StartWrite, EnqueueRequested, CancelWrite, At, TypeOK, ThreadType
  <2> QED BY <2>1 DEF Request
<1> h \in Threads
  BY ThreadKinds
<1>2. Bystanders
  <2>1. CancelWaiting(h, j) => OnlyMoves(h) /\ pc'[h] = "cancel"
    BY DEF CancelWaiting, OnlyMoves, TypeOK, ThreadType
  <2>2. CreateJob(h, j) => UNCHANGED <<pc, job>>
    BY DEF CreateJob, local
  <2>3. ~CreateJob(h, j) => OnlyMoves(h) /\ pc'[h] \in HandlerAt
    BY <1>1, <2>1, MoveFacts DEF CreateTriggered, StartRead, HandlerStep, Claim, StartWrite,
              EnqueueRequested, CancelWrite, StaysWith, TypeOK, HandlerAt
  <2> QED BY <2>2, <2>3, StandAside DEF Bystanders, HandlerAt, Undecided
<1>r. rec[j] \in RecType /\ runs[j] \in Nat
  BY DEF TypeOK, StoreType, GhostType
<1>3. \A k \in Jobs : NoResult(k) /\ Warranted(k)
  <2>1. CASE UNCHANGED rec
    BY <2>1, StandFrame
  <2>2. CASE CreateJob(h, j) \/ CreateTriggered(h, j)
    BY <1>r, <2>1, <2>2, StandSaves DEF CreateJob, CreateTriggered, RecType, Results
  <2>3. CASE StartRead(h, j) \/ CancelWaiting(h, j)
    BY <2>1, <2>3 DEF StartRead, CancelWaiting
  <2>4. CASE StartWrite(h) /\ j = job[h]
    <3>1. runs'[j] > runs[j]
      BY <1>r, <2>4 DEF StartWrite, TypeOK, GhostType
    <3> QED BY <1>r, <2>4, <3>1, StandSaves DEF StartWrite, RecType, Results
  <2>5. CASE (Claim(h) \/ EnqueueRequested(h)) /\ j = job[h]
    BY <1>r, <2>1, <2>5, StandSaves DEF Claim, EnqueueRequested, RecType, Results
  <2>6. CASE CancelWrite(h) /\ j = job[h]
    BY <1>r, <2>1, <2>6, StandSaves DEF CancelWrite, IsActive, Active, RecType, Results
  <2> QED BY <1>1, <2>2, <2>3, <2>4, <2>5, <2>6 DEF HandlerStep
<1> QED BY <1>2, <1>3, StandStays

LEMMA StartWatcherStands ==
    ASSUME TypeOK, StandInv, NEW t \in Workers \cup Mains, StartWatcher(t)
    PROVE  Stood
<1>1. \A u \in Threads : pc'[u] \in {"idle", "watching"} \/ (pc'[u] = pc[u] /\ job'[u] = job[u])
  BY ThreadKinds DEF StartWatcher, Return, TypeOK, ThreadType
<1>2. Bystanders
  BY <1>1 DEF Bystanders, Undecided
<1> QED BY <1>2, StandFrame, StandStays DEF StartWatcher

LEMMA RetryStands ==
    ASSUME TypeOK, StandInv, NEW t \in Workers \cup Watchers \cup Mains, RetryStep(t)
    PROVE  Stood
<1> t \in Threads
  BY ThreadKinds
<1>1. pc[t] \in RetryAt /\ OnlyMoves(t) /\ pc'[t] \in RetryAt \cup {"recovered", "idle"}
  BY MoveFacts, ThreadKinds DEF RetryStep, ScheduleRetry, RecheckCancelled, Disarm, CancelDisarmed, At, RetryAt,
     StaysWith, TypeOK
<1>2. Bystanders
  BY <1>1, StandAside DEF RetryAt, Undecided
<1>3. \A j \in Jobs : NoResult(j) /\ Warranted(j)
  <2>1. PICK k \in Jobs : k = job[t]
    BY <1>1 DEF TypeOK, ThreadType, RetryAt
  <2>2. UNCHANGED rec \/ (Save(k, [rec[k] EXCEPT !.status = "canceled"]) /\ rec[k].status = "queued")
    BY <2>1 DEF RetryStep, ScheduleRetry, RecheckCancelled, Disarm, CancelDisarmed
  <2>3. rec[k] \in RecType
    BY DEF TypeOK, StoreType
  <2> QED BY <2>2, <2>3, StandSaves, StandFrame DEF RecType, Results
<1> QED BY <1>2, <1>3, StandStays

LEMMA ResolvedStatus ==
    ASSUME TypeOK, NEW k \in Jobs, ReconcileFinds(k) \/ ReconcileFindsNothing(k)
    PROVE  /\ \A j \in Jobs : j # k => rec'[j] = rec[j]
           /\ rec'[k].status = rec[k].status /\ rec'[k].cancel = rec[k].cancel
           /\ ReconcileFinds(k) => rec'[k].pub.state = "completed"
<1>1. rec[k] \in RecType /\ rec[k].pub \in PubType
  BY DEF TypeOK, StoreType, RecType
<1>2. CASE ReconcileFinds(k)
  <2>p. PICK q : q = [rec[k].pub EXCEPT !.state = "completed", !.snap = CommittedSnapshot(k)]
    OBVIOUS
  <2>1. q.state = "completed"
    BY <1>1, <2>p DEF PubType
  <2>2. rec' = [rec EXCEPT ![k] = [rec[k] EXCEPT !.pub = q, !.events = @ \cup {CommittedSnapshot(k)}]]
    BY <1>2, <2>p DEF ReconcileFinds, Complete, Save
  <2> QED BY <1>1, <2>1, <2>2 DEF TypeOK, StoreType, RecType
<1>3. CASE ReconcileFindsNothing(k) /\ ~ReconcileFinds(k)
  BY <1>1, <1>3 DEF ReconcileFindsNothing, Save, TypeOK, StoreType, RecType
<1> QED BY <1>2, <1>3

\* An attempt: until its outcome is written, the job has none.
LEMMA AttemptStands ==
    ASSUME TypeOK, LockInv, StandInv, NEW t \in Workers, AttemptStep(t)
    PROVE  Stood
<1> t \in Threads
  BY ThreadKinds
<1>1. /\ pc[t] \in Attempting \cup {"read"} /\ pc'[t] \in Attempting \cup {"unlease"}
      /\ OnlyMoves(t) /\ job'[t] = job[t] /\ job[t] \in Jobs
  BY AttemptMoves
<1>2. PICK k \in Jobs : k = job[t]
  BY <1>1
<1>3. Needs(t, pc[t]) /\ Stands(pc[t], k)
  BY <1>1, <1>2 DEF Needs, WorkerLeased, StandInv
<1>r. rec[k] \in RecType
  BY DEF TypeOK, StoreType
<1>m. ASSUME \A j \in Jobs : j # k => rec'[j] = rec[j], Stands(pc[t], k)', Warranted(k) PROVE Stood
  BY <1>1, <1>2, <1>3, <1>m, StandMoves
<1>w. ASSUME \A j \in Jobs : j # k => rec'[j] = rec[j], rec[k].status \notin Results,
             pc'[t] \in Undecided => rec'[k].status \notin Results, pc'[t] # "finishFailed"
      PROVE  Stood
  BY <1>m, <1>w DEF Stands, Warranted
<1>n. pc'[t] # "finishFailed"
  BY <1>1 DEF Attempting
<1>s. ASSUME NEW q, Save(k, q) PROVE rec'[k] = q /\ \A j \in Jobs : j # k => rec'[j] = rec[j]
  BY <1>s DEF Save, TypeOK, StoreType
<1>4. CASE SavePlain(t) \/ Raise(t) \/ NoticeCancel(t) \/ Commit(t) \/ Notify(t)
  <2>1. UNCHANGED rec
    BY <1>4 DEF SavePlain, Raise, NoticeCancel, Commit, Notify
  <2>2. CASE Notify(t)
    <3>1. pc'[t] = "unlease"
      BY <2>2, MoveFacts DEF Notify, StaysWith, TypeOK
    <3> QED BY <1>m, <2>1, <3>1 DEF Stands, Warranted, Undecided
  <2>3. CASE ~Notify(t)
    <3>1. pc[t] \in Undecided
      BY <1>4, <2>3 DEF SavePlain, Raise, NoticeCancel, Commit, At, Undecided
    <3> QED BY <1>3, <1>n, <1>w, <2>1, <3>1 DEF Stands
  <2> QED BY <2>2, <2>3
<1>5. CASE ReadRecord(t) \/ StartAttempt(t) \/ ClearOutput(t) \/ PlanPublication(t) \/ EnterPublication(t) \/ RecordCancelled(t)
  <2>1. pc[t] \in Undecided
    BY <1>5 DEF ReadRecord, StartAttempt, ClearOutput, PlanPublication, EnterPublication, RecordCancelled, At, Undecided
  <2>2. rec[k].status \notin Results
    BY <1>3, <2>1 DEF Stands
  <2>3. CASE UNCHANGED rec
    BY <1>n, <1>w, <2>2, <2>3
  <2>4. ASSUME NEW q, Save(k, q), q.status \in {rec[k].status, "running", "canceled"} PROVE Stood
    BY <1>n, <1>s, <1>w, <2>2, <2>4 DEF Results
  <2>5. CASE ReadRecord(t) \/ StartAttempt(t)
    BY <1>2, <1>r, <2>3, <2>4, <2>5 DEF ReadRecord, StartAttempt, RecType
  <2>6. CASE ClearOutput(t) \/ PlanPublication(t)
    BY <1>2, <1>r, <2>4, <2>6 DEF ClearOutput, PlanPublication, RecType
  <2>7. CASE EnterPublication(t) \/ RecordCancelled(t)
    BY <1>2, <1>r, <2>3, <2>4, <2>7 DEF EnterPublication, RecordCancelled, RecType
  <2> QED BY <1>5, <2>5, <2>6, <2>7
<1>6. CASE ResolvePending(t) \/ CompleteAfterFailure(t) \/ CompletePublication(t)
  <2>1. pc[t] \in Undecided
    BY <1>6 DEF ResolvePending, CompleteAfterFailure, CompletePublication, At, Undecided
  <2>2. rec[k].status \notin Results
    BY <1>3, <2>1 DEF Stands
  <2>3. CASE UNCHANGED rec
    BY <1>n, <1>w, <2>2, <2>3
  <2>4. CASE ReconcileFinds(k) \/ ReconcileFindsNothing(k)
    BY <1>n, <1>w, <2>2, <2>4, ResolvedStatus
  <2>5. CASE CompletePublication(t)
    <3>1. ASSUME NEW q, Save(k, q), q.status = rec[k].status PROVE Stood
      BY <1>n, <1>s, <1>w, <2>2, <3>1
    <3> QED BY <1>2, <1>r, <2>5, <3>1 DEF CompletePublication, Complete, RecType
  <2> QED BY <1>2, <1>6, <2>3, <2>4, <2>5 DEF ResolvePending, CompleteAfterFailure
<1>7. CASE FinishAttempt(t) \/ RecordFailure(t)
  <2>1. rec[k].status \notin Results
    BY <1>3, <1>7 DEF Stands, FinishAttempt, RecordFailure, At, Undecided
  <2>2. \E q : Save(k, q)
    BY <1>2, <1>7 DEF FinishAttempt, Finish, RecordFailure
  <2>3. pc'[t] \in {"notify", "unlease"}
    BY <1>7, MoveFacts DEF FinishAttempt, RecordFailure, StaysWith, TypeOK
  <2> QED BY <1>n, <1>s, <1>w, <2>1, <2>2, <2>3 DEF Undecided
<1> QED BY <1>4, <1>5, <1>6, <1>7 DEF AttemptStep

LEMMA WorkerStands ==
    ASSUME TypeOK, LockInv, StandInv, NEW t \in Workers, WorkerStep(t)
    PROVE  Stood
<1> t \in Threads
  BY ThreadKinds
<1>1. CASE AttemptStep(t)
  BY <1>1, AttemptStands
<1>2. CASE RetryStep(t)
  BY <1>2, RetryStands
<1>3. CASE StartWatcher(t)
  BY <1>3, StartWatcherStands
<1>4. CASE PickUp(t) \/ TryLease(t) \/ ReleaseLease(t) \/ PopFuture(t)
  <2>1. OnlyMoves(t) /\ pc'[t] \in {"picked", "leased", "pop", "retry", "watch", "idle"}
    BY <1>4, MoveFacts DEF PickUp, TryLease, ReleaseLease, PopFuture, StaysWith, TypeOK, ThreadType
  <2>2. Bystanders
    BY <2>1, StandAside DEF Undecided
  <2>3. UNCHANGED rec
    BY <1>4 DEF PickUp, TryLease, ReleaseLease, PopFuture
  <2> QED BY <2>2, <2>3, StandFrame, StandStays
<1>5. CASE ReadUnderLease(t) \/ WaitForSlot(t)
  <2>1. OnlyMoves(t) /\ job'[t] = job[t] /\ pc'[t] \in {"slot", "read", "unlease"} /\ UNCHANGED rec
    BY <1>5, MoveFacts DEF ReadUnderLease, WaitForSlot, StaysWith, TypeOK
  <2>2. PICK k \in Jobs : k = job[t]
    BY <1>5 DEF ReadUnderLease, WaitForSlot, At, TypeOK, ThreadType
  <2>3. Needs(t, pc[t]) /\ Stands(pc[t], k)
    BY <1>5, <2>2 DEF ReadUnderLease, WaitForSlot, At, Needs, WorkerLeased, StandInv
  <2>4. pc'[t] \in {"slot", "read"} => rec[k].status \notin Results
    <3>1. CASE ReadUnderLease(t)
      BY <2>2, <3>1, MoveFacts DEF ReadUnderLease, StaysWith, Results, TypeOK
    <3>2. CASE WaitForSlot(t)
      BY <2>3, <3>2 DEF WaitForSlot, At, Stands, Undecided
    <3> QED BY <1>5, <3>1, <3>2
  <2>5. Stands(pc[t], k)'
    BY <2>1, <2>4 DEF Stands, Undecided
  <2>6. Warranted(k)
    BY <2>1 DEF Warranted
  <2> QED BY <2>1, <2>2, <2>3, <2>5, <2>6, StandMoves
<1> QED BY <1>1, <1>2, <1>3, <1>4, <1>5 DEF WorkerStep

LEMMA RecoveryStands ==
    ASSUME TypeOK, LockInv, PubInv, StandInv, NEW t \in Watchers \cup Mains, RecoveryStep(t)
    PROVE  Stood
<1> t \in Threads
  BY ThreadKinds
<1>1. CASE RetryStep(t)
  BY <1>1, RetryStands
<1>2. CASE DeferRecovery(t) \/ Announce(t) \/ ReleaseRecovered(t) \/ EnqueueRecovered(t)
  <2>1. PICK l \in {"watching", "watch", "recovered", "leaving", "idle", "announce", "discard", "requeue"} :
            OnlyMoves(t) /\ pc'[t] = l
    BY <1>2, MoveFacts DEF DeferRecovery, Announce, ReleaseRecovered, EnqueueRecovered, StaysWith, TypeOK
  <2>2. Bystanders
    BY <2>1, StandAside DEF Undecided
  <2>3. UNCHANGED rec
    BY <1>2 DEF DeferRecovery, Announce, ReleaseRecovered, EnqueueRecovered
  <2> QED BY <2>2, <2>3, StandFrame, StandStays
<1>3. CASE Recover(t) \/ Reconciles(t) \/ RecoverUnpublished(t) \/ RecoverCompleted(t) \/ FinishFailed(t)
  <2>1. OnlyMoves(t) /\ job'[t] = job[t] /\ pc'[t] \in {"recover", "recovered", "retry", "unpublished", "finishFailed", "announce"}
    BY <1>3, MoveFacts DEF Recover, Reconciles, RecoverCommitting, RecoverFailed, RecoverUnpublished, RecoverCompleted,
                           FinishFailed, StaysWith, TypeOK
  <2>2. pc[t] \in {"recover", "unpublished", "recoverFailed", "finishFailed"}
    BY <1>3 DEF Recover, Reconciles, RecoverCommitting, RecoverFailed, RecoverUnpublished, RecoverCompleted, FinishFailed, At
  <2>3. PICK k \in Jobs : k = job[t]
    BY <2>2 DEF TypeOK, ThreadType
  <2>4. Needs(t, pc[t]) /\ Stands(pc[t], k)
    BY <2>2, <2>3 DEF Needs, Recovering, StandInv
  <2>r. rec[k] \in RecType
    BY DEF TypeOK, StoreType
  <2>s. ASSUME NEW q, Save(k, q) PROVE rec'[k] = q /\ \A j \in Jobs : j # k => rec'[j] = rec[j]
    BY <2>s DEF Save, TypeOK, StoreType
  <2>m. ASSUME \A j \in Jobs : j # k => rec'[j] = rec[j], Stands(pc[t], k)', Warranted(k) PROVE Stood
    BY <2>1, <2>3, <2>4, <2>m, StandMoves
  <2>5. CASE UNCHANGED rec /\ pc'[t] \notin {"unpublished", "finishFailed"}
    BY <2>1, <2>5, <2>m DEF Stands, Warranted, Undecided
  <2>6. CASE Recover(t)
    <3>1. pc'[t] \in {"recovered", "retry"}
      BY <2>6, MoveFacts DEF Recover, StaysWith, TypeOK
    <3>2. UNCHANGED rec \/ (IsActive(k) /\ \E q : Save(k, q))
      BY <2>3, <2>6 DEF Recover, IsActive, Active
    <3> QED BY <2>5, <2>m, <2>s, <3>1, <3>2 DEF Stands, Warranted, Undecided, Results, IsActive, Active
  <2>7. CASE RecoverCommitting(t)
    <3>1. rec[k].status = "running" /\ (ReconcileFinds(k) \/ ReconcileFindsNothing(k)) /\ pc'[t] \in {"recover", "unpublished"}
      BY <2>3, <2>7, MoveFacts DEF RecoverCommitting, StaysWith, TypeOK
    <3> QED BY <2>m, <3>1, ResolvedStatus DEF Stands, Warranted, Results
  <2>8. CASE RecoverFailed(t) /\ ~(UNCHANGED rec /\ pc'[t] = "recovered")
    <3>1. /\ rec[k].status = "error" /\ CommitPending(k)
          /\ \/ ReconcileFinds(k) /\ pc'[t] = "finishFailed"
             \/ ReconcileFindsNothing(k) /\ pc'[t] = "recovered"
      BY <2>3, <2>8, MoveFacts DEF RecoverFailed, ReconcileFinds, ReconcileFindsNothing, StaysWith, TypeOK
    <3>2. ~rec[k].cancel
      BY <3>1 DEF PubInv, GateExcludesCancel
    <3> QED BY <2>m, <3>1, <3>2, ResolvedStatus DEF Stands, Warranted, Undecided
  <2>9. CASE RecoverUnpublished(t)
    <3>1. rec[k].status \notin Results
      BY <2>3, <2>4, <2>9 DEF RecoverUnpublished, At, Stands, Undecided, Results
    <3>2. pc'[t] \in {"recover", "recovered"}
      BY <2>9, MoveFacts DEF RecoverUnpublished, StaysWith, TypeOK
    <3>3. \E q : Save(k, q)
      BY <2>3, <2>9 DEF RecoverUnpublished
    <3> QED BY <2>m, <2>s, <3>1, <3>2, <3>3 DEF Stands, Warranted, Undecided
  <2>10. CASE RecoverCompleted(t) \/ FinishFailed(t)
    <3>1. pc'[t] \in {"announce", "recovered"}
      BY <2>10, MoveFacts DEF RecoverCompleted, FinishFailed, StaysWith, TypeOK
    <3>2. /\ rec[k].status # "finished"
          /\ rec[k].status = "error" => ~rec[k].cancel /\ rec[k].pub.state = "completed"
      BY <2>3, <2>4, <2>10 DEF RecoverCompleted, FinishFailed, At, Stands
    <3>3. ASSUME NEW q, Save(k, q), ~rec[k].cancel => q.status = "finished" PROVE Stood
      <4>1. Warranted(k)
        BY <2>s, <3>2, <3>3 DEF Warranted, Results
      <4> QED BY <2>m, <2>s, <3>1, <3>3, <4>1 DEF Stands, Undecided
    <3> QED BY <2>3, <2>10, <2>r, <3>3 DEF RecoverCompleted, FinishFailed, Finish, RecType
  <2> QED BY <1>3, <2>5, <2>6, <2>7, <2>8, <2>9, <2>10 DEF Reconciles
<1> QED BY <1>1, <1>2, <1>3 DEF RecoveryStep

LEMMA WatcherStands ==
    ASSUME TypeOK, LockInv, PubInv, StandInv, NEW w \in Watchers, WatcherStep(w)
    PROVE  Stood
<1> w \in Threads
  BY ThreadKinds
<1>1. CASE RecoveryStep(w)
  BY <1>1, RecoveryStands
<1>2. CASE ~RecoveryStep(w)
  <2>1. OnlyMoves(w) /\ pc'[w] \in {"recoverFailed", "recover", "leaving", "requeue", "idle"}
    BY <1>2, MoveFacts DEF WatcherStep, WatcherLease, WatcherStops, WatcherDiscards, WatcherLeaves, StaysWith, TypeOK
  <2>2. Bystanders
    BY <2>1, StandAside DEF Undecided
  <2>3. UNCHANGED rec
    BY <1>2 DEF WatcherStep, WatcherLease, WatcherStops, WatcherDiscards, WatcherLeaves
  <2> QED BY <2>2, <2>3, StandFrame, StandStays
<1> QED BY <1>1, <1>2

LEMMA MainStands ==
    ASSUME TypeOK, LockInv, PubInv, StandInv, NEW m \in Mains, MainStep(m)
    PROVE  Stood
<1> m \in Threads
  BY ThreadKinds
<1>1. CASE RecoveryStep(m)
  BY <1>1, RecoveryStands
<1>2. CASE StartWatcher(m)
  BY <1>2, StartWatcherStands
<1>3. ASSUME NEW k \in Jobs, RecoverNext(m, k) \/ ReplayClaim(m, k) PROVE Stood
  <2>1. OnlyMoves(m) /\ pc'[m] \in {"recover", "recoverFailed", "watch", "requeue"}
    BY <1>3, MoveFacts DEF RecoverNext, ReplayClaim, TypeOK
  <2>2. Bystanders
    BY <2>1, StandAside DEF Undecided
  <2>3. rec[k] \in RecType
    BY DEF TypeOK, StoreType
  <2>4. \A j \in Jobs : NoResult(j) /\ Warranted(j)
    BY <1>3, <2>3, StandSaves, StandFrame DEF RecoverNext, ReplayClaim, RecType, Results
  <2> QED BY <2>2, <2>4, StandStays
<1>4. CASE BeginReconciling(m) \/ BeginReplay(m) \/ Replay(m)
  <2>1. UNCHANGED <<rec, pc, job>>
    BY <1>4 DEF BeginReconciling, BeginReplay, Replay, local
  <2> QED BY <2>1, StandFrame, StandStays DEF Bystanders
<1> QED BY <1>1, <1>2, <1>3, <1>4 DEF MainStep

\* Processes, timers, the passing of a backoff, ingestions and stuttering.
LEMMA OtherStands ==
    ASSUME TypeOK, StandInv,
           \/ \E p \in Procs, j \in Jobs : TimerStep(p, j)
           \/ \E j \in Jobs : BackoffPasses(j)
           \/ \E p \in Procs : ProcessStep(p)
           \/ IngestBegins \/ IngestEnds \/ UNCHANGED vars
    PROVE  Stood
<1>1. CASE ~ \E j \in Jobs : BackoffPasses(j)
  <2>1. UNCHANGED rec
    BY <1>1 DEF TimerStep, TimerFires, EnqueueRetry, ProcessStep, StartProcess, Shutdown, CloseExecutor, Exit, Crash,
                Die, IngestBegins, IngestEnds, vars
  <2>2. \A u \in Threads : pc'[u] = "idle" \/ (pc'[u] = pc[u] /\ job'[u] = job[u])
    BY <1>1 DEF TimerStep, TimerFires, EnqueueRetry, ProcessStep, StartProcess, Shutdown, CloseExecutor, Exit, Crash,
                Die, IngestBegins, IngestEnds, vars, local
  <2>3. Bystanders
    BY <2>2 DEF Bystanders, Undecided
  <2> QED BY <2>1, <2>3, StandFrame, StandStays
<1>2. CASE \E j \in Jobs : BackoffPasses(j)
  <2>1. PICK j \in Jobs : BackoffPasses(j)
    BY <1>2
  <2>2. rec[j] \in RecType
    BY DEF TypeOK, StoreType
  <2>3. \A i \in Jobs : NoResult(i) /\ Warranted(i)
    BY <2>1, <2>2, StandSaves DEF BackoffPasses, RecType, Results
  <2> QED BY <2>1, <2>3, StandStays DEF BackoffPasses, Bystanders, local
<1> QED BY <1>1, <1>2

LEMMA StandStep == ASSUME TypeOK, LockInv, PubInv, StandInv, [Next]_vars PROVE Stood
BY HandlerStands, WorkerStands, WatcherStands, MainStands, OtherStands DEF Next

LEMMA StandInit == Init => StandInv
BY DEF Init, StandInv, Needs, WorkerLeased, Attempting, Recovering, RetryAt

(* No two threads of any number of overlapping processes attempt or        *)
(* recover one job at once, no process starts a job before its backoff has *)
(* passed, and a job that finished or failed stays so until another run is *)
(* asked for or its publication is completed.                              *)
THEOREM OverlapsAreSafe == Spec => OverlapIsSafe
<1>1. TypeOK /\ LockInv /\ [Next]_vars =>
        [\A j \in Jobs : rec'[j].status = "running" /\ rec[j].status # "running" => ~rec[j].waiting]_vars
  <2> SUFFICES ASSUME TypeOK, LockInv, [Next]_vars, NEW j \in Jobs,
                      rec'[j].status = "running", rec[j].status # "running"
               PROVE  ~rec[j].waiting
    OBVIOUS
  <2>1. PICK t \in Workers : StartAttempt(t) /\ job[t] = j
    BY StartsRunning
  <2> QED BY <2>1 DEF LockInv, StartInv, StartAttempt, At, Starting
<1>2. TypeOK /\ LockInv /\ PubInv /\ StandInv /\ [Next]_vars =>
        /\ StandInv'
        /\ [\A j \in Jobs : rec[j].status \in Results /\ rec'[j].status # rec[j].status =>
              \/ runs'[j] > runs[j]
              \/ rec[j].status = "error" /\ rec'[j].status = "finished" /\ rec[j].pub.state = "completed"]_vars
  BY StandStep DEF Stood, Warranted
<1>3. Init => TypeOK /\ LockInv /\ PubInv /\ StandInv
  BY InitType, LocksInit, PubsInit, StandInit
<1>4. TypeOK /\ LockInv /\ PubInv /\ [Next]_vars => TypeOK' /\ LockInv' /\ PubInv'
  BY NextType, LocksStep, PubsStep
<1>5. TypeOK /\ LockInv => ExecutionIsExclusive
  BY LocksExclude
<1>6. Spec => []ExecutionIsExclusive
  BY <1>3, <1>4, <1>5, PTL DEF Spec
<1>7. Spec => BackoffRespected
  BY <1>1, <1>3, <1>4, PTL DEF Spec, BackoffRespected
<1>8. Spec => ResultsStand
  BY <1>2, <1>3, <1>4, PTL DEF Spec, ResultsStand
<1> QED BY <1>6, <1>7, <1>8 DEF OverlapIsSafe

=============================================================================
