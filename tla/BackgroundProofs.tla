-------------------------- MODULE BackgroundProofs ---------------------------
(***************************************************************************)
(* What keeps the server going in the background: the sync schedules, the  *)
(* feature collections and the syncs of a dataset.                         *)
(***************************************************************************)
EXTENDS MCBackground, FiniteSetTheorems, TLAPS

(***************************************************************************)
(* The sync schedules, for any datasets, settings and number of writes,    *)
(* refusals and starts: the clock runs what the status shows, a request    *)
(* answered without an error is in force, and a dataset has one scheduled  *)
(* sync.                                                                   *)
(***************************************************************************)
-----------------------------------------------------------------------------
(* Types. *)

Tables    == [Datasets -> Entry \cup {None}]
Plans     == [Datasets -> Active \cup {None}]
Revisions == 1..(MaxWrites + 1)

StoreType ==
    /\ store \in [rev : Revisions, readable : BOOLEAN, of : Tables]
    /\ spent \in [writes : 0..MaxWrites, faults : 0..MaxFaults, starts : 0..MaxStarts]
    /\ store.rev = spent.writes + 1
    /\ resolves \subseteq Datasets

ClockType ==
    /\ service \in [up : BOOLEAN, rev : 0..(MaxWrites + 1), listed : Tables, runnable : Plans, stamp : 0..Broken,
                    error : {"none", "kept", "restored", "unknown"},
                    refused : 0..(MaxWrites + 1), astray : SUBSET Datasets]
    /\ clock \in Plans

Reloads ==
    [at : {"idle"}]
    \cup [at : {"stamped"}, stamp : 0..Broken]
    \cup [at : {"planned", "refused"}, stamp : 0..Broken, rev : Revisions, listed : Tables, runnable : Plans]

RequestType ==
    /\ reload \in Reloads
    /\ \A q \in requests :
          q \in [rev : Nat, at : {"reload", "reloading", "answer"}] /\ q.rev \in 2..store.rev
    /\ \A q, r \in requests : q.at = "reloading" /\ r.at = "reloading" => q = r
    /\ reload = NoReload => \A q \in requests : q.at # "reloading"
    /\ ~service.up => clock = Empty /\ reload = NoReload /\ requests = {}

SyncType ==
    syncs \in [Datasets -> [check : {"none", "clear"}, scheduled : Nat, retrying : BOOLEAN, manual : BOOLEAN]]

SchedType == StoreType /\ ClockType /\ RequestType /\ SyncType

(* What is listed covers what should run, and that is what does.  While the *)
(* clock has refused a plan it may run jobs of either list.                 *)
PlanInv ==
    /\ Listed(service.runnable) \subseteq Listed(service.listed)
    /\ reload.at \in {"planned", "refused"} => Listed(reload.runnable) \subseteq Listed(reload.listed)
    /\ \A d \in Datasets \ service.astray :
          (reload.at = "refused" /\ d \in Known) \/ clock[d] = service.runnable[d]

(* A reload that has read the store has read what the requests it is for,   *)
(* and those that only wait for their answer, have written.                 *)
AnswerInv ==
    /\ reload.at = "planned" => \A q \in requests : q.at # "reload" => q.rev <= reload.rev
    /\ service.error = "none" => \A q \in requests : q.at = "answer" => q.rev <= service.rev

(* A check found no scheduled sync and none was submitted since. *)
CheckInv ==
    \A d \in Datasets : /\ syncs[d].check = "clear" => syncs[d].scheduled = 0
                        /\ syncs[d].scheduled <= 1

SchedInv == SchedType /\ PlanInv /\ AnswerInv /\ CheckInv

LEMMA SchedInitInv == SchedInit => SchedInv
<1> SUFFICES ASSUME SchedInit PROVE SchedInv
  OBVIOUS
<1>1. StoreType
  <2>1. 1 \in Revisions /\ 0 \in 0..MaxWrites /\ 0 \in 0..MaxFaults /\ 0 \in 0..MaxStarts
    BY SchedAssumption DEF Revisions
  <2>2. store \in [rev : Revisions, readable : BOOLEAN, of : Tables] /\ store.rev = 1
    BY <2>1 DEF SchedInit, Tables
  <2>3. spent \in [writes : 0..MaxWrites, faults : 0..MaxFaults, starts : 0..MaxStarts] /\ spent.writes = 0
    BY <2>1 DEF SchedInit
  <2> QED BY <2>2, <2>3 DEF SchedInit, StoreType
<1>2. Empty \in Tables /\ Empty \in Plans /\ Listed(Empty) = {}
  BY DEF Empty, Tables, Plans, Listed
<1>3. ClockType
  BY <1>2, SchedAssumption DEF SchedInit, ClockType, Down, Broken
<1>4. reload.at = "idle"
  BY DEF SchedInit, NoReload
<1>5. RequestType
  BY <1>4 DEF SchedInit, RequestType, Reloads, NoReload, Down
<1>6. SyncType /\ CheckInv
  BY DEF SchedInit, SyncType, CheckInv
<1>7. PlanInv
  BY <1>2, <1>4 DEF SchedInit, PlanInv, Down
<1>8. AnswerInv
  BY <1>4 DEF SchedInit, AnswerInv
<1> QED BY <1>1, <1>3, <1>5, <1>6, <1>7, <1>8 DEF SchedInv, SchedType

-----------------------------------------------------------------------------
(* Helpers. *)

LEMMA StampType == ASSUME StoreType PROVE Stamp \in 0..Broken
BY SchedAssumption DEF StoreType, Stamp, Broken, Revisions

(* What a reload looks for on the clock is removed or replaced. *)
LEMMA PlanFacts ==
    ASSUME ClockType, NEW plan \in Plans
    PROVE  /\ Applied(plan) \in Plans
           /\ \A d \in Datasets : Applied(plan)[d] = IF plan[d] # None \/ d \in Known THEN plan[d] ELSE clock[d]
           /\ \A c \in PartlyApplied(plan) :
                 c \in Plans /\ \A d \in Datasets : plan[d] = None /\ d \notin Known => c[d] = clock[d]
<1>1. Applied(plan) \in Plans
  BY DEF Applied, Plans, ClockType
<1>2. \A d \in Datasets : Applied(plan)[d] = IF plan[d] # None \/ d \in Known THEN plan[d] ELSE clock[d]
  BY DEF Applied
<1>3. ASSUME NEW c \in PartlyApplied(plan)
      PROVE  c \in Plans /\ \A d \in Datasets : plan[d] = None /\ d \notin Known => c[d] = clock[d]
  <2>1. CASE \E S \in SUBSET Listed(plan) : c = [d \in Datasets |-> IF d \in S THEN plan[d] ELSE clock[d]]
    BY <2>1 DEF Plans, ClockType, Listed
  <2>2. CASE \E S \in SUBSET (Known \ Listed(plan)) :
                c = [d \in Datasets |-> IF d \in S THEN None ELSE IF plan[d] # None THEN plan[d] ELSE clock[d]]
    BY <2>2 DEF Plans, ClockType, Listed
  <2> QED BY <1>3, <2>1, <2>2 DEF PartlyApplied
<1> QED BY <1>1, <1>2, <1>3

(* A schedule nobody knows is neither listed nor to run. *)
LEMMA UnknownFacts ==
    ASSUME PlanInv, ClockType, NEW d \in Datasets, d \notin Known, reload.at \in {"planned", "refused"}
    PROVE  service.runnable[d] = None /\ reload.runnable[d] = None
  BY DEF PlanInv, Known, Listed

LEMMA RunnableFacts ==
    ASSUME NEW table \in Tables
    PROVE  Runnable(table) \in Plans /\ Listed(Runnable(table)) \subseteq Listed(table)
<1>1. \A d \in Datasets : Runnable(table)[d] \in Active \cup {None}
  BY DEF Runnable
<1>2. Runnable(table) \in Plans
  BY <1>1 DEF Runnable, Plans
<1>3. \A d \in Datasets : Runnable(table)[d] # None => table[d] # None
  BY DEF Runnable
<1> QED BY <1>2, <1>3 DEF Listed

(* Requests after the reload they took part in. *)
LEMMA ReleasedFacts ==
    ASSUME RequestType
    PROVE  \A r \in Released :
              /\ r \in [rev : Nat, at : {"reload", "answer"}] /\ r.rev \in 2..store.rev
              /\ r.at = "answer" => \E q \in requests : q.at # "reload" /\ q.rev = r.rev
              /\ r.at = "reload" => r \in requests
<1> SUFFICES ASSUME NEW r \in Released
             PROVE  /\ r \in [rev : Nat, at : {"reload", "answer"}] /\ r.rev \in 2..store.rev
                    /\ r.at = "answer" => \E q \in requests : q.at # "reload" /\ q.rev = r.rev
                    /\ r.at = "reload" => r \in requests
  OBVIOUS
<1>1. PICK q \in requests : r = IF q.at = "reloading" THEN [q EXCEPT !.at = "answer"] ELSE q
  BY DEF Released
<1>2. q \in [rev : Nat, at : {"reload", "reloading", "answer"}] /\ q.rev \in 2..store.rev
  BY DEF RequestType
<1>3. CASE q.at = "reloading"
  <2>1. r.at = "answer" /\ r.rev = q.rev /\ r \in [rev : Nat, at : {"reload", "answer"}]
    BY <1>1, <1>2, <1>3
  <2> QED BY <1>2, <1>3, <2>1
<1>4. CASE q.at # "reloading"
  BY <1>1, <1>2, <1>4
<1> QED BY <1>3, <1>4
-----------------------------------------------------------------------------
(* The store. *)

LEMMA ChangeFacts ==
    ASSUME StoreType, NEW d \in Datasets, NEW entry \in Entry \cup {None}, Change(d, entry)
    PROVE  /\ store' \in [rev : Revisions, readable : BOOLEAN, of : Tables]
           /\ spent' \in [writes : 0..MaxWrites, faults : 0..MaxFaults, starts : 0..MaxStarts]
           /\ store'.rev = spent'.writes + 1 /\ store'.rev = store.rev + 1
<1>1. PICK table : table = [store.of EXCEPT ![d] = entry]
  OBVIOUS
<1>2. table \in Tables
  BY <1>1 DEF StoreType, Tables
<1>3. store' = [store EXCEPT !.rev = store.rev + 1, !.of = table]
  BY <1>1 DEF Change
<1>4. spent.writes < MaxWrites /\ spent' = [spent EXCEPT !.writes = spent.writes + 1]
  BY DEF Change
<1>5. spent'.writes = spent.writes + 1 /\ store'.rev = store.rev + 1
  BY <1>3, <1>4 DEF StoreType
<1>6. store.rev + 1 \in Revisions /\ spent.writes + 1 \in 0..MaxWrites
  BY <1>4, SchedAssumption DEF StoreType, Revisions
<1> QED BY <1>2, <1>3, <1>4, <1>5, <1>6 DEF StoreType

(* Nothing but the store changes, and its revision does not go back. *)
LEMMA StoreFrame ==
    ASSUME SchedInv, store'.rev \in Nat, store'.rev >= store.rev, UNCHANGED <<service, clock, reload, requests, syncs>>
    PROVE  ClockType' /\ RequestType' /\ SyncType' /\ PlanInv' /\ AnswerInv' /\ CheckInv'
<1>1. RequestType'
  <2>1. \A q \in requests : q.rev \in 2..store'.rev
    BY DEF SchedInv, SchedType, RequestType, StoreType, Revisions
  <2> QED BY <2>1 DEF SchedInv, SchedType, RequestType, Reloads
<1>2. ClockType' /\ SyncType' /\ PlanInv' /\ AnswerInv' /\ CheckInv'
  BY DEF SchedInv, SchedType, ClockType, SyncType, PlanInv, AnswerInv, CheckInv, Known
<1> QED BY <1>1, <1>2

LEMMA WriteElsewhereInv == ASSUME SchedInv, WriteElsewhere PROVE SchedInv'
<1>1. PICK d \in Datasets, entry \in Entry \cup {None} : Change(d, entry)
  BY DEF WriteElsewhere
<1>2. StoreType /\ UNCHANGED <<resolves, service, clock, reload, requests, syncs>>
  BY DEF WriteElsewhere, SchedInv, SchedType
<1>3. StoreType' /\ store'.rev = store.rev + 1
  BY <1>1, <1>2, ChangeFacts DEF StoreType
<1>4. store'.rev \in Nat /\ store'.rev >= store.rev
  BY <1>2, <1>3 DEF StoreType, Revisions
<1> QED BY <1>2, <1>3, <1>4, StoreFrame DEF SchedInv, SchedType

LEMMA WriteHereInv == ASSUME SchedInv, WriteHere PROVE SchedInv'
<1>1. PICK d \in Datasets, entry \in Entry \cup {None} : Change(d, entry)
  BY DEF WriteHere
<1>2. service.up /\ StoreType /\ RequestType /\ UNCHANGED <<resolves, service, clock, reload, syncs>>
  BY DEF WriteHere, SchedInv, SchedType
<1>3. PICK r : r = [rev |-> store.rev + 1, at |-> "reload"]
  OBVIOUS
<1>4. requests' = requests \cup {r} /\ r.at = "reload" /\ r.rev = store.rev + 1
  BY <1>3 DEF WriteHere
<1>5. StoreType' /\ store'.rev = store.rev + 1
  BY <1>1, <1>2, ChangeFacts DEF StoreType
<1>6. \A q \in requests' : q \in [rev : Nat, at : {"reload", "reloading", "answer"}] /\ q.rev \in 2..store'.rev
  <2>1. store.rev \in Nat \ {0}
    BY <1>2 DEF StoreType, Revisions
  <2>2. r \in [rev : Nat, at : {"reload", "reloading", "answer"}] /\ r.rev \in 2..store'.rev
    BY <1>3, <1>5, <2>1
  <2> QED BY <1>2, <1>4, <1>5, <2>1, <2>2 DEF RequestType
<1>7. RequestType'
  BY <1>2, <1>4, <1>6 DEF RequestType, Reloads
<1>8. ClockType' /\ SyncType' /\ PlanInv' /\ CheckInv'
  BY <1>2 DEF SchedInv, SchedType, ClockType, SyncType, PlanInv, CheckInv, Known
<1>9. AnswerInv'
  BY <1>2, <1>4 DEF SchedInv, AnswerInv
<1> QED BY <1>5, <1>7, <1>8, <1>9 DEF SchedInv, SchedType

LEMMA HandEditInv == ASSUME SchedInv, HandEdit PROVE SchedInv'
<1>1. StoreType /\ UNCHANGED <<resolves, service, clock, reload, requests, syncs>>
  BY DEF HandEdit, SchedInv, SchedType
<1>2. store' = [store EXCEPT !.readable = ~store.readable]
  BY DEF HandEdit
<1>3. PICK b \in BOOLEAN : b = ~store.readable
  OBVIOUS
<1>4. store' \in [rev : Revisions, readable : BOOLEAN, of : Tables] /\ store'.rev = store.rev
  BY <1>1, <1>2, <1>3 DEF StoreType
<1>5. Fault \/ UNCHANGED spent
  BY DEF HandEdit
<1>6. StoreType'
  BY <1>1, <1>4, <1>5, SchedAssumption DEF StoreType, Fault
<1>7. store'.rev \in Nat /\ store'.rev >= store.rev
  BY <1>1, <1>4 DEF StoreType, Revisions
<1> QED BY <1>1, <1>6, <1>7, StoreFrame DEF SchedInv, SchedType

LEMMA TargetChangesInv == ASSUME SchedInv, TargetChanges PROVE SchedInv'
<1>1. StoreType /\ UNCHANGED <<store, service, clock, reload, requests, syncs>> /\ Fault /\ resolves' \subseteq Datasets
  BY DEF TargetChanges, SchedInv, SchedType, StoreType
<1>2. StoreType'
  BY <1>1, SchedAssumption DEF StoreType, Fault
<1>3. store'.rev \in Nat /\ store'.rev >= store.rev
  BY <1>1 DEF StoreType, Revisions
<1> QED BY <1>1, <1>2, <1>3, StoreFrame DEF SchedInv, SchedType

-----------------------------------------------------------------------------
(* The process. *)

LEMMA StartInv == ASSUME SchedInv, Start PROVE SchedInv'
<1>1. StoreType /\ ClockType /\ RequestType /\ ~service.up
      /\ UNCHANGED <<store, resolves, reload, requests, syncs>>
  BY DEF Start, SchedInv, SchedType
<1>2. PICK table \in Tables : table = IF store.readable THEN store.of ELSE Empty
  BY <1>1 DEF StoreType, Tables, Empty
<1>3. PICK k \in 0..(MaxWrites + 1), e \in {"none", "kept"}, s \in 0..Broken :
        /\ service' = [Down EXCEPT !.up = TRUE, !.listed = table, !.runnable = Runnable(table),
                                   !.rev = k, !.stamp = s, !.error = e]
        /\ clock' = Runnable(table)
  <2>1. CASE store.readable
    <3>1. Stamp = store.rev /\ Stamp \in 0..(MaxWrites + 1) /\ Stamp \in 0..Broken
      BY <1>1, <2>1, SchedAssumption DEF Stamp, StoreType, Revisions, Broken
    <3> QED BY <1>2, <2>1, <3>1 DEF Start
  <2>2. CASE ~store.readable
    <3>1. 0 \in 0..(MaxWrites + 1) /\ 0 \in 0..Broken
      BY SchedAssumption DEF Broken
    <3> QED BY <1>2, <2>2, <3>1 DEF Start
  <2> QED BY <2>1, <2>2
<1>4. Runnable(table) \in Plans /\ Listed(Runnable(table)) \subseteq Listed(table)
  BY RunnableFacts
<1>5. service' = [up |-> TRUE, rev |-> k, listed |-> table, runnable |-> Runnable(table), stamp |-> s,
                  error |-> e, refused |-> 0, astray |-> {}]
  BY <1>3 DEF Down
<1>6. ClockType'
  <2>1. 0 \in 0..(MaxWrites + 1) /\ e \in {"none", "kept", "restored", "unknown"}
    BY SchedAssumption
  <2>2. clock' \in Plans
    BY <1>3, <1>4
  <2> QED BY <1>4, <1>5, <2>1, <2>2 DEF ClockType
<1>7. StoreType'
  BY <1>1, SchedAssumption DEF Start, StoreType
<1>8. RequestType' /\ reload.at = "idle" /\ requests = {}
  BY <1>1, <1>5 DEF RequestType, Reloads, NoReload
<1>9. PlanInv'
  BY <1>1, <1>3, <1>4, <1>5, <1>8 DEF PlanInv
<1>10. AnswerInv' /\ SyncType' /\ CheckInv'
  BY <1>1, <1>8 DEF SchedInv, SchedType, AnswerInv, SyncType, CheckInv
<1> QED BY <1>6, <1>7, <1>8, <1>9, <1>10 DEF SchedInv, SchedType

LEMMA StopInv == ASSUME SchedInv, Stop PROVE SchedInv'
<1>1. StoreType' /\ service' = Down /\ clock' = Empty /\ reload' = NoReload /\ requests' = {}
  BY DEF Stop, SchedInv, SchedType, StoreType
<1>2. Empty \in Tables /\ Empty \in Plans /\ Listed(Empty) = {}
  BY DEF Empty, Tables, Plans, Listed
<1>3. ClockType'
  BY <1>1, <1>2, SchedAssumption DEF ClockType, Down, Broken
<1>4. RequestType' /\ PlanInv' /\ AnswerInv'
  BY <1>1, <1>2 DEF RequestType, Reloads, NoReload, PlanInv, AnswerInv, Down
<1>5. SyncType' /\ CheckInv'
  <2>1. \A d \in Datasets : /\ syncs'[d].check = "none" /\ syncs'[d].scheduled = syncs[d].scheduled
                            /\ syncs'[d] \in [check : {"none", "clear"}, scheduled : Nat, retrying : BOOLEAN, manual : BOOLEAN]
    BY DEF Stop, SchedInv, SchedType, SyncType
  <2>2. syncs' = [d \in Datasets |-> [syncs[d] EXCEPT !.check = "none"]]
    BY DEF Stop
  <2> QED BY <2>1, <2>2 DEF SyncType, CheckInv, SchedInv
<1> QED BY <1>1, <1>3, <1>4, <1>5 DEF SchedInv, SchedType

-----------------------------------------------------------------------------
(* The reload. *)

LEMMA BeginReloadInv == ASSUME SchedInv, BeginReload PROVE SchedInv'
<1>1. StoreType /\ RequestType /\ service.up /\ reload = NoReload
      /\ UNCHANGED <<store, resolves, service, clock, syncs, spent>>
  BY DEF BeginReload, SchedInv, SchedType
<1>2. Stamp \in 0..Broken
  BY <1>1, StampType
<1>3. reload' = [at |-> "stamped", stamp |-> Stamp] /\ reload' \in Reloads /\ reload'.at = "stamped"
  BY <1>2 DEF BeginReload, Reloads
<1>4. StoreType' /\ ClockType' /\ SyncType' /\ CheckInv'
  BY <1>1 DEF SchedInv, SchedType, StoreType, ClockType, SyncType, CheckInv
<1>5. reload.at = "idle"
  BY <1>1 DEF NoReload
<1>6. PlanInv'
  BY <1>1, <1>3, <1>5 DEF SchedInv, PlanInv
<1>7. RequestType' /\ AnswerInv'
  <2>1. reload' # NoReload
    BY <1>3 DEF NoReload
  <2>2. CASE UNCHANGED requests
    BY <1>1, <1>3, <2>1, <2>2 DEF RequestType, SchedInv, AnswerInv
  <2>3. CASE \E q \in requests : q.at = "reload"
                                 /\ requests' = (requests \ {q}) \cup {[q EXCEPT !.at = "reloading"]}
    <3>1. PICK q \in requests : q.at = "reload"
                                /\ requests' = (requests \ {q}) \cup {[q EXCEPT !.at = "reloading"]}
      BY <2>3
    <3>2. PICK r : r = [q EXCEPT !.at = "reloading"]
      OBVIOUS
    <3>3. /\ r \in [rev : Nat, at : {"reload", "reloading", "answer"}] /\ r.rev \in 2..store.rev
          /\ r.at = "reloading" /\ requests' = (requests \ {q}) \cup {r}
      BY <1>1, <3>1, <3>2 DEF RequestType
    <3>4. RequestType'
      BY <1>1, <1>3, <2>1, <3>3 DEF RequestType
    <3> QED BY <1>1, <1>3, <3>3, <3>4 DEF SchedInv, AnswerInv
  <2> QED BY <2>2, <2>3 DEF BeginReload
<1> QED BY <1>4, <1>6, <1>7 DEF SchedInv, SchedType

LEMMA LoadStoreInv == ASSUME SchedInv, LoadStore PROVE SchedInv'
<1>1. /\ StoreType /\ RequestType /\ reload.at = "stamped"
      /\ UNCHANGED <<store, resolves, service, clock, requests, syncs, spent>>
  BY DEF LoadStore, SchedInv, SchedType
<1>2. Runnable(store.of) \in Plans /\ Listed(Runnable(store.of)) \subseteq Listed(store.of)
  BY <1>1, RunnableFacts DEF StoreType
<1>3. reload.stamp \in 0..Broken
  BY <1>1 DEF RequestType, Reloads
<1>4. reload' = [at |-> "planned", stamp |-> reload.stamp, rev |-> store.rev,
                 listed |-> store.of, runnable |-> Runnable(store.of)]
  BY DEF LoadStore
<1>5. reload' \in Reloads
  BY <1>1, <1>2, <1>3, <1>4 DEF Reloads, StoreType
<1>6. reload # NoReload /\ reload' # NoReload
  BY <1>1, <1>4 DEF NoReload
<1>7. RequestType' /\ StoreType' /\ ClockType' /\ SyncType' /\ CheckInv'
  BY <1>1, <1>5, <1>6 DEF RequestType, SchedInv, SchedType, StoreType, ClockType, SyncType, CheckInv
<1>8. PlanInv'
  BY <1>1, <1>2, <1>4 DEF SchedInv, PlanInv
<1>9. \A q \in requests : q.rev <= store.rev
  BY <1>1 DEF RequestType, StoreType, Revisions
<1>10. AnswerInv'
  BY <1>1, <1>4, <1>9 DEF SchedInv, AnswerInv
<1> QED BY <1>7, <1>8, <1>10 DEF SchedInv, SchedType

(* A reload is over: no request is in it any more. *)
LEMMA ReloadEnds ==
    ASSUME SchedInv, reload # NoReload, reload' = NoReload, requests' = Released, UNCHANGED store, service'.up
    PROVE  RequestType'
<1>1. \A r \in requests' : r \in [rev : Nat, at : {"reload", "answer"}] /\ r.rev \in 2..store'.rev
  BY ReleasedFacts DEF SchedInv, SchedType
<1>2. \A r \in requests' : r.at # "reloading"
  BY <1>1
<1>3. reload' \in Reloads
  BY DEF Reloads, NoReload
<1> QED BY <1>1, <1>2, <1>3 DEF RequestType

LEMMA IsUp == ASSUME SchedInv, reload.at # "idle" PROVE service.up /\ reload # NoReload
BY DEF SchedInv, SchedType, RequestType, NoReload

LEMMA FaultType == ASSUME SchedInv, Fault \/ UNCHANGED spent, UNCHANGED <<store, resolves>> PROVE StoreType'
BY SchedAssumption DEF SchedInv, SchedType, StoreType, Fault

LEMMA LoadFailsInv == ASSUME SchedInv, LoadFails PROVE SchedInv'
<1>1. /\ ClockType /\ reload.at = "stamped" /\ service' = [service EXCEPT !.error = "kept"]
      /\ reload' = NoReload /\ requests' = Released /\ UNCHANGED <<store, resolves, clock, syncs>>
  BY DEF LoadFails, SchedInv, SchedType
<1>2. StoreType'
  BY <1>1, FaultType DEF LoadFails
<1>3. /\ ClockType' /\ service'.up = service.up /\ service'.listed = service.listed
      /\ service'.runnable = service.runnable /\ service'.astray = service.astray /\ service'.error = "kept"
  BY <1>1 DEF ClockType
<1>4. RequestType'
  BY <1>1, <1>3, IsUp, ReloadEnds
<1>5. PlanInv' /\ AnswerInv' /\ SyncType' /\ CheckInv'
  BY <1>1, <1>3 DEF SchedInv, SchedType, PlanInv, AnswerInv, SyncType, CheckInv, NoReload
<1> QED BY <1>2, <1>3, <1>4, <1>5 DEF SchedInv, SchedType

LEMMA ApplyInv == ASSUME SchedInv, Apply PROVE SchedInv'
<1>1. /\ ClockType /\ RequestType /\ PlanInv /\ reload.at = "planned" /\ clock' = Applied(reload.runnable)
      /\ reload' = NoReload /\ requests' = Released /\ UNCHANGED <<store, resolves, syncs, spent>>
  BY DEF Apply, SchedInv, SchedType
<1>2. /\ reload.runnable \in Plans /\ reload.listed \in Tables /\ reload.rev \in 0..(MaxWrites + 1)
      /\ reload.stamp \in 0..Broken
  BY <1>1 DEF RequestType, Reloads, Revisions
<1>3. service' = [service EXCEPT !.rev = reload.rev, !.listed = reload.listed, !.runnable = reload.runnable,
                                 !.stamp = reload.stamp, !.error = "none", !.refused = 0,
                                 !.astray = @ \ Known]
  BY DEF Apply, KnownStamp
<1>4. /\ service'.up = service.up /\ service'.listed = reload.listed /\ service'.runnable = reload.runnable
      /\ service'.astray = service.astray \ Known /\ service'.rev = reload.rev
  BY <1>1, <1>3 DEF ClockType
<1>5. clock' \in Plans
  BY <1>1, <1>2, PlanFacts
<1>6. ClockType'
  <2>1. 0 \in 0..(MaxWrites + 1)
    BY SchedAssumption
  <2>2. service' \in [up : BOOLEAN, rev : 0..(MaxWrites + 1), listed : Tables, runnable : Plans, stamp : 0..Broken,
                      error : {"none", "kept", "restored", "unknown"},
                      refused : 0..(MaxWrites + 1), astray : SUBSET Datasets]
    BY <1>1, <1>2, <1>3, <2>1 DEF ClockType
  <2> QED BY <1>5, <2>2 DEF ClockType
<1>7. RequestType'
  BY <1>1, <1>4, IsUp, ReloadEnds
<1>8. PlanInv'
  <2>1. Listed(service'.runnable) \subseteq Listed(service'.listed) /\ reload'.at = "idle"
    BY <1>1, <1>4 DEF PlanInv, NoReload
  <2>2. ASSUME NEW d \in Datasets \ service'.astray PROVE clock'[d] = service'.runnable[d]
    <3>1. clock'[d] = IF reload.runnable[d] # None \/ d \in Known THEN reload.runnable[d] ELSE clock[d]
      BY <1>1, <1>2, PlanFacts
    <3>2. d \notin Known => clock[d] = None /\ reload.runnable[d] = None
      BY <1>1, <1>4, <2>2, UnknownFacts DEF PlanInv
    <3> QED BY <1>4, <3>1, <3>2
  <2> QED BY <2>1, <2>2 DEF PlanInv
<1>9. AnswerInv'
  <2>1. \A r \in requests' : r.at = "answer" => r.rev <= service'.rev
    BY <1>1, <1>4, ReleasedFacts DEF SchedInv, AnswerInv
  <2> QED BY <1>1, <2>1 DEF AnswerInv, NoReload
<1>10. StoreType' /\ SyncType' /\ CheckInv'
  BY <1>1 DEF SchedInv, SchedType, StoreType, SyncType, CheckInv
<1> QED BY <1>6, <1>7, <1>8, <1>9, <1>10 DEF SchedInv, SchedType

LEMMA ClockRefusesInv == ASSUME SchedInv, ClockRefuses PROVE SchedInv'
<1>1. /\ ClockType /\ RequestType /\ PlanInv /\ reload.at = "planned" /\ clock' \in PartlyApplied(reload.runnable)
      /\ reload' = [reload EXCEPT !.at = "refused"] /\ UNCHANGED <<store, resolves, service, requests, syncs>>
  BY DEF ClockRefuses, SchedInv, SchedType
<1>2. reload.runnable \in Plans
  BY <1>1 DEF RequestType, Reloads
<1>3. /\ clock' \in Plans
      /\ \A d \in Datasets : reload.runnable[d] = None /\ d \notin Known => clock'[d] = clock[d]
  BY <1>1, <1>2, PlanFacts
<1>4. /\ reload' \in Reloads /\ reload'.at = "refused" /\ reload'.listed = reload.listed
      /\ reload'.runnable = reload.runnable
  BY <1>1 DEF RequestType, Reloads
<1>5. StoreType'
  BY <1>1, FaultType DEF ClockRefuses
<1>6. PlanInv'
  <2>1. Known' = Known
    BY <1>1, <1>4 DEF Known
  <2>2. ASSUME NEW d \in Datasets \ service.astray, d \notin Known PROVE clock'[d] = service.runnable[d]
    <3>1. reload.runnable[d] = None /\ clock[d] = service.runnable[d]
      BY <1>1, <2>2, UnknownFacts DEF PlanInv
    <3> QED BY <1>3, <2>2, <3>1
  <2> QED BY <1>1, <1>4, <2>1, <2>2 DEF PlanInv
<1>7. reload # NoReload /\ reload' # NoReload
  BY <1>1, <1>4 DEF NoReload
<1>8. RequestType' /\ ClockType' /\ AnswerInv' /\ SyncType' /\ CheckInv'
  <2>1. service.up
    BY <1>1, IsUp
  <2> QED BY <1>1, <1>3, <1>4, <1>7, <2>1
          DEF SchedInv, SchedType, RequestType, ClockType, AnswerInv, SyncType, CheckInv
<1> QED BY <1>5, <1>6, <1>8 DEF SchedInv, SchedType

LEMMA RestoreInv == ASSUME SchedInv, Restore PROVE SchedInv'
<1>1. /\ ClockType /\ RequestType /\ PlanInv /\ reload.at = "refused" /\ reload' = NoReload
      /\ requests' = Released /\ UNCHANGED <<store, resolves, syncs>>
  BY DEF Restore, SchedInv, SchedType
<1>2. reload.stamp \in 0..Broken /\ reload.rev \in 0..(MaxWrites + 1) /\ service.runnable \in Plans
  BY <1>1 DEF RequestType, Reloads, Revisions, ClockType
<1>3. PICK e \in {"restored", "unknown"} :
        /\ service' = [Refused(e) EXCEPT !.astray = IF e = "unknown" THEN @ \cup Known ELSE @ \ Known]
        /\ e = "restored" => clock' = Applied(service.runnable) /\ UNCHANGED spent
        /\ e = "unknown" => Fault /\ clock' \in PartlyApplied(service.runnable)
  BY DEF Restore
<1>4. StoreType'
  BY <1>1, <1>3, FaultType
<1> DEFINE b == IF e = "unknown" THEN service.astray \cup Known ELSE service.astray \ Known
<1>5. b \in SUBSET Datasets
  <2>1. Known \subseteq Datasets
    BY DEF Known, Listed
  <2> QED BY <1>1, <2>1 DEF ClockType
<1>6. service' = [service EXCEPT !.stamp = reload.stamp, !.error = e, !.refused = reload.rev, !.astray = b]
  BY <1>1, <1>3 DEF Refused, ClockType
<1> HIDE DEF b
<1>7. /\ service'.up = service.up /\ service'.listed = service.listed /\ service'.runnable = service.runnable
      /\ service'.astray = b /\ service'.error = e
  BY <1>1, <1>6 DEF ClockType
<1>8. clock' \in Plans
  BY <1>1, <1>2, <1>3, PlanFacts
<1>9. ClockType'
  <2>1. e \in {"none", "kept", "restored", "unknown"}
    OBVIOUS
  <2>2. service' \in [up : BOOLEAN, rev : 0..(MaxWrites + 1), listed : Tables, runnable : Plans, stamp : 0..Broken,
                      error : {"none", "kept", "restored", "unknown"},
                      refused : 0..(MaxWrites + 1), astray : SUBSET Datasets]
    BY <1>1, <1>2, <1>5, <1>6, <2>1 DEF ClockType
  <2> QED BY <1>8, <2>2 DEF ClockType
<1>10. RequestType'
  BY <1>1, <1>7, IsUp, ReloadEnds
<1>11. PlanInv'
  <2>1. reload'.at = "idle"
    BY <1>1 DEF NoReload
  <2>2. ASSUME NEW d \in Datasets \ b PROVE clock'[d] = service.runnable[d]
    <3>1. d \notin Known => d \notin service.astray /\ service.runnable[d] = None
      BY <1>1, <2>2, UnknownFacts DEF b
    <3>2. d \notin Known => clock[d] = None
      BY <1>1, <3>1 DEF PlanInv
    <3>3. CASE e = "restored"
      <4>1. clock'[d] = IF service.runnable[d] # None \/ d \in Known THEN service.runnable[d] ELSE clock[d]
        BY <1>2, <1>1, <1>3, <3>3, PlanFacts
      <4> QED BY <3>1, <3>2, <4>1
    <3>4. CASE e = "unknown"
      <4>1. d \notin Known /\ clock'[d] = clock[d]
        BY <1>1, <1>2, <1>3, <2>2, <3>1, <3>4, PlanFacts DEF b
      <4> QED BY <3>1, <3>2, <4>1
    <3> QED BY <3>3, <3>4
  <2> QED BY <1>1, <1>7, <2>1, <2>2 DEF PlanInv
<1>12. AnswerInv' /\ SyncType' /\ CheckInv'
  <2>1. service'.error # "none" /\ reload'.at = "idle"
    BY <1>1, <1>7 DEF NoReload
  <2> QED BY <1>1, <2>1 DEF SchedInv, SchedType, AnswerInv, SyncType, CheckInv
<1> QED BY <1>4, <1>9, <1>10, <1>11, <1>12 DEF SchedInv, SchedType

LEMMA AnswerStepInv == ASSUME SchedInv, Answer PROVE SchedInv'
<1>1. requests' \subseteq requests /\ UNCHANGED <<store, resolves, service, clock, reload, syncs, spent>>
  BY DEF Answer
<1>2. StoreType' /\ ClockType' /\ SyncType' /\ PlanInv' /\ CheckInv'
  BY <1>1 DEF SchedInv, SchedType, StoreType, ClockType, SyncType, PlanInv, CheckInv, Known
<1>3. RequestType' /\ AnswerInv'
  BY <1>1 DEF SchedInv, SchedType, RequestType, AnswerInv
<1> QED BY <1>2, <1>3 DEF SchedInv, SchedType

-----------------------------------------------------------------------------
(* The checks. *)

LEMMA ChecksInv == ASSUME SchedInv, Checks PROVE SchedInv'
<1>1. SyncType /\ CheckInv /\ UNCHANGED <<store, resolves, service, clock, reload, requests, spent>>
  BY DEF Checks, SchedInv, SchedType
<1>2. PICK d \in Datasets :
        Fire(d) \/ Submit(d) \/ SubmitManual(d) \/ Retry(d) \/ EndScheduled(d) \/ EndManual(d)
  BY DEF Checks
<1> DEFINE Sync == [check : {"none", "clear"}, scheduled : Nat, retrying : BOOLEAN, manual : BOOLEAN]
<1>3. syncs[d] \in Sync /\ syncs[d].scheduled \in {0, 1} /\ (syncs[d].check = "none" \/ syncs[d].scheduled = 0)
  BY <1>1 DEF SyncType, CheckInv
<1>4. ASSUME NEW s, s \in Sync, s.scheduled \in {0, 1}, s.check = "none" \/ s.scheduled = 0,
             syncs' = [syncs EXCEPT ![d] = s]
      PROVE  SyncType' /\ CheckInv'
  BY <1>1, <1>4 DEF SyncType, CheckInv
<1> HIDE DEF Sync
<1>5. SyncType' /\ CheckInv'
  <2>1. CASE Fire(d)
    <3>1. PICK s : s = [syncs[d] EXCEPT !.check = "clear"]
      OBVIOUS
    <3>2. syncs' = [syncs EXCEPT ![d] = s] /\ ~(syncs[d].scheduled > 0)
      BY <1>3, <2>1, <3>1 DEF Fire, Writers
    <3>3. s \in Sync /\ s.scheduled = syncs[d].scheduled
      BY <1>3, <3>1, <3>2 DEF Sync
    <3>4. s.scheduled \in {0, 1} /\ (s.check = "none" \/ s.scheduled = 0)
      BY <1>3, <3>2, <3>3
    <3> QED BY <1>4, <3>2, <3>3, <3>4
  <2>2. CASE Submit(d)
    <3>1. PICK n : n = syncs[d].scheduled + 1
      OBVIOUS
    <3>2. PICK s : s = [syncs[d] EXCEPT !.check = "none", !.scheduled = n]
      OBVIOUS
    <3>3. syncs' = [syncs EXCEPT ![d] = s] /\ syncs[d].check = "clear"
      BY <2>2, <3>1, <3>2 DEF Submit
    <3>4. n = 1
      BY <1>3, <3>1, <3>3
    <3>5. s \in Sync /\ s.scheduled = n /\ s.check = "none"
      BY <1>3, <3>2, <3>4 DEF Sync
    <3> QED BY <1>4, <3>3, <3>4, <3>5
  <2>3. CASE SubmitManual(d)
    <3>1. PICK s : s = [syncs[d] EXCEPT !.manual = TRUE]
      OBVIOUS
    <3>2. syncs' = [syncs EXCEPT ![d] = s]
      BY <1>3, <2>3, <3>1 DEF SubmitManual
    <3>3. s \in Sync /\ s.scheduled = syncs[d].scheduled /\ s.check = syncs[d].check
      BY <1>3, <3>1, <3>2 DEF Sync
    <3>4. s.scheduled \in {0, 1} /\ (s.check = "none" \/ s.scheduled = 0)
      BY <1>3, <3>2, <3>3
    <3> QED BY <1>4, <3>2, <3>3, <3>4
  <2>4. CASE EndManual(d)
    <3>1. PICK s : s = [syncs[d] EXCEPT !.manual = FALSE]
      OBVIOUS
    <3>2. syncs' = [syncs EXCEPT ![d] = s]
      BY <1>3, <2>4, <3>1 DEF EndManual
    <3>3. s \in Sync /\ s.scheduled = syncs[d].scheduled /\ s.check = syncs[d].check
      BY <1>3, <3>1, <3>2 DEF Sync
    <3>4. s.scheduled \in {0, 1} /\ (s.check = "none" \/ s.scheduled = 0)
      BY <1>3, <3>2, <3>3
    <3> QED BY <1>4, <3>2, <3>3, <3>4
  <2>5. CASE Retry(d)
    <3>1. PICK b \in BOOLEAN : b = ~syncs[d].retrying
      OBVIOUS
    <3>2. PICK s : s = [syncs[d] EXCEPT !.retrying = b]
      OBVIOUS
    <3>3. syncs' = [syncs EXCEPT ![d] = s]
      BY <2>5, <3>1, <3>2 DEF Retry
    <3>4. s \in Sync /\ s.scheduled = syncs[d].scheduled /\ s.check = syncs[d].check
      BY <1>3, <3>2 DEF Sync
    <3> QED BY <1>3, <1>4, <3>3, <3>4
  <2>6. CASE EndScheduled(d)
    <3>1. PICK n : n = syncs[d].scheduled - 1
      OBVIOUS
    <3>2. PICK s : s = [syncs[d] EXCEPT !.scheduled = n, !.retrying = FALSE]
      OBVIOUS
    <3>3. syncs' = [syncs EXCEPT ![d] = s] /\ syncs[d].scheduled > 0
      BY <2>6, <3>1, <3>2 DEF EndScheduled
    <3>4. n = 0
      BY <1>3, <3>1, <3>3
    <3>5. s \in Sync /\ s.scheduled = n /\ s.check = syncs[d].check
      BY <1>3, <3>2, <3>4 DEF Sync
    <3> QED BY <1>4, <3>3, <3>4, <3>5
  <2> QED BY <1>2, <2>1, <2>2, <2>3, <2>4, <2>5, <2>6
<1>6. StoreType' /\ ClockType' /\ RequestType' /\ PlanInv' /\ AnswerInv'
  BY <1>1 DEF SchedInv, SchedType, StoreType, ClockType, RequestType, PlanInv, AnswerInv, Known
<1> QED BY <1>5, <1>6 DEF SchedInv, SchedType

-----------------------------------------------------------------------------
(* The theorems. *)

LEMMA SchedStep == ASSUME SchedInv, [SchedNext]_schedVars PROVE SchedInv'
<1>1. CASE UNCHANGED schedVars
  BY <1>1 DEF schedVars, SchedInv, SchedType, StoreType, ClockType, RequestType, SyncType, PlanInv, AnswerInv,
              CheckInv, Known
<1> QED BY <1>1, WriteElsewhereInv, WriteHereInv, HandEditInv, TargetChangesInv, StartInv, StopInv,
           BeginReloadInv, LoadStoreInv, LoadFailsInv, ApplyInv, ClockRefusesInv, RestoreInv, AnswerStepInv,
           ChecksInv DEF SchedNext, Reloading

(* The schedules' invariant: what is listed covers what runs, a reload has  *)
(* read what it answers for, and a check that is clear has no sync beside.  *)
THEOREM SchedulesHold == SchedSpec => []SchedInv
BY SchedInitInv, SchedStep, PTL DEF SchedSpec

LEMMA SchedTypesOf == SchedInv => SchedTypeOK
<1> SUFFICES ASSUME SchedInv PROVE SchedTypeOK
  OBVIOUS
<1>1. Cardinality({q \in requests : q.at = "reloading"}) <= IF reload = NoReload THEN 0 ELSE 1
  <2>1. CASE \E q \in requests : q.at = "reloading"
    <3>1. PICK q \in requests : q.at = "reloading"
      BY <2>1
    <3>2. {r \in requests : r.at = "reloading"} = {q} /\ reload # NoReload
      BY <3>1 DEF SchedInv, SchedType, RequestType
    <3> QED BY <3>2, FS_Singleton
  <2>2. CASE ~\E q \in requests : q.at = "reloading"
    <3>1. {q \in requests : q.at = "reloading"} = {}
      BY <2>2
    <3> QED BY <3>1, FS_EmptySet
  <2> QED BY <2>1, <2>2
<1>2. /\ store \in [rev : 1..(MaxWrites + 1), readable : BOOLEAN, of : [Datasets -> Entry \cup {None}]]
      /\ resolves \subseteq Datasets
  BY DEF SchedInv, SchedType, StoreType, Tables, Revisions
<1>3. /\ service \in [up : BOOLEAN, rev : 0..(MaxWrites + 1), listed : [Datasets -> Entry \cup {None}],
                      runnable : [Datasets -> Active \cup {None}], stamp : 0..Broken,
                      error : {"none", "kept", "restored", "unknown"},
                      refused : 0..(MaxWrites + 1), astray : SUBSET Datasets]
      /\ clock \in [Datasets -> Active \cup {None}]
  BY DEF SchedInv, SchedType, ClockType, Tables, Plans
<1>4. /\ \A q \in requests : q.rev \in 2..store.rev /\ q.at \in {"reload", "reloading", "answer"}
      /\ ~service.up => clock = Empty /\ reload = NoReload /\ requests = {}
  BY DEF SchedInv, SchedType, RequestType
<1> QED BY <1>1, <1>2, <1>3, <1>4 DEF SchedTypeOK

(* What is stored, listed, on the clock and asked for has its type, and one *)
(* request at most is in the reload.                                        *)
THEOREM SchedTypes == SchedSpec => []SchedTypeOK
  BY SchedTypesOf, SchedulesHold, PTL

(* The clock runs of a schedule what the status shows, whatever reloads,     *)
(* failed loads and refusals there were.  Excepted is a schedule known when  *)
(* the clock refused the previous schedules too, until a reload that knows   *)
(* of it succeeds.                                                           *)
THEOREM StatusShowsTheClock == SchedSpec => []StatusIsTheClock
<1>1. SchedInv => StatusIsTheClock
  BY DEF SchedInv, PlanInv, StatusIsTheClock, NoReload
<1> QED BY <1>1, SchedulesHold, PTL

(* No dataset ever has two scheduled syncs that are not finished. *)
THEOREM SyncsAreSingle == SchedSpec => []OneScheduledSync
<1>1. SchedInv => OneScheduledSync
  BY DEF SchedInv, CheckInv, OneScheduledSync
<1> QED BY <1>1, SchedulesHold, PTL

(* A request that is answered without an error is in force: its change, or  *)
(* a later one of the store, is what the clock was given.                   *)
THEOREM AnswersAreTrue == SchedSpec => AnsweredIsApplied
<1>1. ASSUME SchedInv, [SchedNext]_schedVars, NEW q \in requests, q.at = "answer", q \notin requests',
             service.error = "none"
      PROVE  service.rev >= q.rev
  <2>1. q.rev <= service.rev /\ q.rev \in Nat /\ service.rev \in Nat
    BY <1>1, SchedAssumption DEF SchedInv, SchedType, RequestType, ClockType, AnswerInv
  <2> QED BY <2>1
<1>2. SchedInv /\ [SchedNext]_schedVars =>
        [\A q \in requests : q.at = "answer" /\ q \notin requests' /\ service.error = "none" /\ service'.up
            => service.rev >= q.rev]_schedVars
  BY <1>1
<1> QED BY <1>2, SchedulesHold, PTL DEF SchedSpec, AnsweredIsApplied

-----------------------------------------------------------------------------
(***************************************************************************)
(* Proofs about the feature collections, for any number of refreshing      *)
(* threads, providers, readers, files and kills.                           *)
(*                                                                         *)
(* A reader is safe because a file goes through four hands in one          *)
(* direction: the record's, superseded and unmarked, young, old.  Only an  *)
(* old file is deleted, a file becomes old when nobody reads it, and it is *)
(* read for the first time while it is the record's, whose marker is clear.*)
(* What a refresh may still put back, its prior record, counts as the      *)
(* record's until the refresh lets go of the lock.                         *)
(***************************************************************************)
Records == [file : Names \cup {NoFile}, owner : Providers \cup {Hand}, published : BOOLEAN]
Called  == [at : {"called"}, by : Providers \cup {Hand}, publish : BOOLEAN, seen : Records]
In      == [at |-> "in"]
Refresh == [at : {"writing", "registering", "publishing", "restoring", "pruning"},
            by : Providers \cup {Hand}, publish : BOOLEAN, prior : Records, new : Names \cup {NoFile}]

Shapes ==
    /\ record \in Records
    /\ files \in SUBSET Names
    /\ marker \in [Names -> {"none", "young", "old"}]
    /\ refreshes \in [Threads -> {Out, In} \cup Called]
    /\ holder \in {Free} \cup Refresh
    /\ reading \in [Readers -> Names \cup {NoFile}]
    /\ written \in [files : 0..MaxFiles, kills : Nat]

(* One thread at most is inside its refresh: the one with the lock. *)
Inside(t) == refreshes[t].at = "in"
LockHeld ==
    /\ holder = Free => \A t \in Threads : ~Inside(t)
    /\ holder # Free => \E t \in Threads : Inside(t)
    /\ \A t, u \in Threads : Inside(t) /\ Inside(u) => t = u

(* A record that may be read, now or after a roll-back: a file that exists *)
(* and that nobody marked, or none, and then nothing is published.         *)
Readable(r) ==
    /\ r.file # NoFile => r.file \in files /\ marker[r.file] = "none"
    /\ r.published => r.file # NoFile

Marked ==
    /\ \A f \in files : f <= written.files
    /\ \A f \in Names : marker[f] # "none" => f \in files
    /\ \A f \in Names : marker[f] = "old" => \A r \in Readers : reading[r] # f

(* What the refresh under way knows, at each of its steps. *)
Knows ==
    holder # Free =>
        /\ Readable(holder.prior)
        /\ holder.at \in {"writing", "registering"} =>
              /\ record = holder.prior
              /\ holder.by = Hand \/ record.file = NoFile \/ record.owner = holder.by
        /\ holder.at \in {"registering", "publishing", "restoring"} =>
              /\ holder.new \in files /\ marker[holder.new] = "none"
              /\ record.published = holder.prior.published
        /\ holder.at \in {"publishing", "pruning"} => holder.new = record.file

FeatInv == Shapes /\ LockHeld /\ Readable(record) /\ Marked /\ ReadersFindTheirFile /\ Knows

LEMMA NamesFact == NoFile \notin Names /\ \A f \in Names : f \in Nat /\ f # 0 /\ f <= MaxFiles
BY FeatAssumption DEF Names, NoFile

LEMMA FeatInitInv == FeatInit => FeatInv
<1> SUFFICES ASSUME FeatInit PROVE FeatInv
  OBVIOUS
<1> USE DEF FeatInit
<1>1. Shapes
  BY FeatAssumption DEF Shapes, Records, NoRecord, Free, Out
<1>2. LockHeld
  BY DEF LockHeld, Inside, Out
<1>3. Readable(record)
  BY DEF Readable, NoRecord
<1>4. Marked
  BY DEF Marked
<1>5. ReadersFindTheirFile
  BY DEF ReadersFindTheirFile
<1>6. Knows
  BY DEF Knows
<1> QED BY <1>1, <1>2, <1>3, <1>4, <1>5, <1>6 DEF FeatInv

(* A step under the lock lets the holder move from one place to the next.  *)
LEMMA HolderIs == ASSUME Shapes PROVE holder.at # "free" <=> holder \in Refresh
BY DEF Shapes, Free, Refresh

LEMMA UnlockKeeps == ASSUME Shapes, LockHeld, Unlock PROVE LockHeld' /\ holder' = Free
                     /\ refreshes' \in [Threads -> {Out, In} \cup Called]
BY DEF Shapes, LockHeld, Unlock, Inside, Out, In, Called

-----------------------------------------------------------------------------
(* Each step keeps the invariant. *)

LEMMA CallKeeps == ASSUME FeatInv, NEW t \in Threads, Call(t) PROVE FeatInv'
<1> USE DEF FeatInv
<1>1. PICK by \in Providers \cup {Hand}, publish \in BOOLEAN :
        refreshes' = [refreshes EXCEPT ![t] = [at |-> "called", by |-> by, publish |-> publish, seen |-> record]]
  BY DEF Call
<1>2. UNCHANGED <<record, files, marker, holder, reading, written>> /\ refreshes[t] = Out
  BY DEF Call
<1>3. Shapes'
  BY <1>1, <1>2 DEF Shapes, Called
<1>4. LockHeld'
  BY <1>1, <1>2 DEF LockHeld, Inside, Shapes, Out
<1> QED BY <1>2, <1>3, <1>4 DEF Readable, Marked, ReadersFindTheirFile, Knows

LEMMA LockedKeeps == ASSUME FeatInv, NEW t \in Threads, Locked(t) PROVE FeatInv'
<1> USE DEF FeatInv
<1>1. /\ UNCHANGED <<record, files, marker, reading, written>>
      /\ holder = Free /\ refreshes[t].at = "called"
  BY DEF Locked
<1>2. refreshes[t] \in Called
  BY <1>1 DEF Shapes, Out, In
<1>3. CASE Owned(t)
  <2>1. /\ holder' = [at |-> "writing", by |-> refreshes[t].by, publish |-> refreshes[t].publish,
                      prior |-> record, new |-> NoFile]
        /\ refreshes' = [refreshes EXCEPT ![t] = In]
    BY <1>3 DEF Locked, In
  <2>2. holder' \in Refresh /\ holder' # Free
    BY <1>2, <2>1 DEF Shapes, Refresh, Called, Free
  <2>3. Shapes'
    BY <1>1, <2>1, <2>2 DEF Shapes
  <2>4. LockHeld'
    BY <1>1, <2>1, <2>2 DEF LockHeld, Inside, Shapes, In
  <2>5. Knows'
    BY <1>1, <1>3, <2>1, <2>2 DEF Knows, Readable, Owned
  <2> QED BY <1>1, <2>3, <2>4, <2>5 DEF Readable, Marked, ReadersFindTheirFile
<1>4. CASE ~Owned(t)
  <2>1. UNCHANGED holder /\ refreshes' = [refreshes EXCEPT ![t] = Out]
    BY <1>4 DEF Locked
  <2>2. Shapes' /\ LockHeld'
    BY <1>1, <2>1 DEF Shapes, LockHeld, Inside, Out
  <2> QED BY <1>1, <2>1, <2>2 DEF Readable, Marked, ReadersFindTheirFile, Knows
<1> QED BY <1>3, <1>4

LEMMA RefusedKeeps == ASSUME FeatInv, FeaturesRefused PROVE FeatInv'
<1> USE DEF FeatInv
<1>1. UNCHANGED <<record, files, marker, reading, written>> /\ Unlock
  BY DEF FeaturesRefused
<1>2. LockHeld' /\ Shapes' /\ holder' = Free
  BY <1>1, UnlockKeeps DEF Shapes
<1> QED BY <1>1, <1>2 DEF Readable, Marked, ReadersFindTheirFile, Knows

LEMMA WriteKeeps == ASSUME FeatInv, Write PROVE FeatInv'
<1> DEFINE f == written.files + 1
<1> USE DEF FeatInv
<1>1. /\ holder.at = "writing" /\ files' = files \cup {f}
      /\ holder' = [holder EXCEPT !.at = "registering", !.new = f]
      /\ written' = [written EXCEPT !.files = f]
      /\ UNCHANGED <<record, marker, refreshes, reading>> /\ written.files < MaxFiles
  BY DEF Write
<1>2. holder \in Refresh /\ holder # Free
  BY <1>1, HolderIs DEF Free
<1>3. f \in Names /\ f \in 0..MaxFiles /\ f \notin files /\ written'.files = f
  BY <1>1, FeatAssumption DEF Shapes, Marked, Names
<1>4. marker[f] = "none"
  BY <1>3 DEF Marked
<1>5. holder' \in Refresh /\ holder' # Free
  BY <1>1, <1>2, <1>3 DEF Refresh, Free
<1>6. Shapes'
  BY <1>1, <1>3, <1>5 DEF Shapes
<1>7. LockHeld'
  BY <1>1, <1>2, <1>5 DEF LockHeld, Inside
<1>8. Readable(record)' /\ ReadersFindTheirFile'
  BY <1>1 DEF Readable, ReadersFindTheirFile
<1>9. Marked'
  <2>1. \A g \in files' : g <= written'.files
    BY <1>1, <1>3, NamesFact DEF Marked, Shapes, Names
  <2> QED BY <1>1, <2>1 DEF Marked
<1>10. Knows'
  BY <1>1, <1>2, <1>4 DEF Knows, Readable, Refresh
<1> QED BY <1>6, <1>7, <1>8, <1>9, <1>10

LEMMA RegisterKeeps == ASSUME FeatInv, Register PROVE FeatInv'
<1> USE DEF FeatInv
<1>1. /\ holder.at = "registering"
      /\ record' = [file |-> holder.new, owner |-> holder.by, published |-> record.published]
      /\ UNCHANGED <<files, marker, refreshes, reading, written>>
  BY DEF Register
<1>2. holder \in Refresh /\ holder # Free
  BY <1>1, HolderIs DEF Free
<1>3. PICK l \in {"publishing", "pruning"} : holder' = [holder EXCEPT !.at = l]
  BY DEF Register
<1>4. holder' \in Refresh /\ holder' # Free
  BY <1>2, <1>3 DEF Refresh, Free
<1>5. Shapes' /\ LockHeld'
  BY <1>1, <1>2, <1>4 DEF Shapes, LockHeld, Inside, Records, Refresh
<1>6. Readable(record)' /\ Marked' /\ ReadersFindTheirFile'
  BY <1>1, <1>2, NamesFact DEF Readable, Marked, ReadersFindTheirFile, Knows, Shapes
<1>7. Knows'
  BY <1>1, <1>2, <1>3 DEF Knows, Readable, Refresh
<1> QED BY <1>5, <1>6, <1>7

LEMMA PublishKeeps == ASSUME FeatInv, Publish PROVE FeatInv'
<1> USE DEF FeatInv
<1>1. /\ holder.at = "publishing" /\ record' = [record EXCEPT !.published = TRUE]
      /\ holder' = [holder EXCEPT !.at = "pruning"]
      /\ UNCHANGED <<files, marker, refreshes, reading, written>>
  BY DEF Publish
<1>2. holder \in Refresh /\ holder # Free
  BY <1>1, HolderIs DEF Free
<1>3. holder' \in Refresh /\ holder' # Free
  BY <1>1, <1>2 DEF Refresh, Free
<1>4. record' \in Records /\ record'.file = record.file /\ record.file \in files
  BY <1>1, <1>2 DEF Knows, Shapes, Records
<1>5. Shapes' /\ LockHeld'
  BY <1>1, <1>2, <1>3, <1>4 DEF Shapes, LockHeld, Inside
<1>6. Readable(record)' /\ Marked' /\ ReadersFindTheirFile'
  BY <1>1, <1>4, NamesFact DEF Readable, Marked, ReadersFindTheirFile, Shapes
<1>7. Knows'
  BY <1>1, <1>2, <1>4 DEF Knows, Readable, Refresh
<1> QED BY <1>5, <1>6, <1>7

LEMMA FailsKeeps == ASSUME FeatInv, Fails PROVE FeatInv'
<1> USE DEF FeatInv
<1>1. /\ holder.at \in {"registering", "publishing"} /\ holder' = [holder EXCEPT !.at = "restoring"]
      /\ UNCHANGED <<record, files, marker, refreshes, reading, written>>
  BY DEF Fails
<1>2. holder \in Refresh /\ holder # Free
  BY <1>1, HolderIs DEF Free
<1>3. holder' \in Refresh /\ holder' # Free
  BY <1>1, <1>2 DEF Refresh, Free
<1>4. Shapes' /\ LockHeld'
  BY <1>1, <1>2, <1>3 DEF Shapes, LockHeld, Inside
<1>5. Knows'
  BY <1>1, <1>2 DEF Knows, Readable, Refresh
<1> QED BY <1>1, <1>4, <1>5 DEF Readable, Marked, ReadersFindTheirFile

LEMMA RestoreKeeps == ASSUME FeatInv, RestoreRecords PROVE FeatInv'
<1> USE DEF FeatInv
<1>1. /\ holder.at = "restoring" /\ record' = holder.prior
      /\ holder' = [holder EXCEPT !.at = "pruning", !.new = holder.prior.file]
      /\ UNCHANGED <<files, marker, refreshes, reading, written>>
  BY DEF RestoreRecords, Restored
<1>2. holder \in Refresh /\ holder # Free
  BY <1>1, HolderIs DEF Free
<1>3. holder.prior \in Records /\ holder.prior.file \in Names \cup {NoFile}
  BY <1>2 DEF Refresh, Records
<1>4. holder' \in Refresh /\ holder' # Free
  BY <1>1, <1>2, <1>3 DEF Refresh, Free
<1>5. Shapes' /\ LockHeld'
  BY <1>1, <1>2, <1>3, <1>4 DEF Shapes, LockHeld, Inside
<1>6. Readable(record)' /\ Marked' /\ ReadersFindTheirFile'
  BY <1>1, <1>2 DEF Readable, Marked, ReadersFindTheirFile, Knows
<1>7. Knows'
  BY <1>1, <1>2 DEF Knows, Readable, Refresh
<1> QED BY <1>5, <1>6, <1>7

(* What pruning deletes was old, so nobody reads it, and was not the       *)
(* record's.                                                               *)
LEMMA PruneKeeps == ASSUME FeatInv, Prune PROVE FeatInv'
<1> USE DEF FeatInv
<1> DEFINE keep == holder.new
<1>1. /\ holder.at = "pruning" /\ files' = files \ Expired(keep)
      /\ marker' = [f \in Names |-> IF f \in Expired(keep) THEN "none"
                                   ELSE IF f \in Superseded(keep) /\ marker[f] = "none" THEN "young"
                                   ELSE marker[f]]
      /\ Unlock /\ UNCHANGED <<record, reading, written>>
  BY DEF Prune
<1>2. holder # Free /\ keep = record.file
  BY <1>1 DEF Knows, Free
<1>3. LockHeld' /\ holder' = Free /\ refreshes' \in [Threads -> {Out, In} \cup Called]
  BY <1>1, UnlockKeeps
<1>4. Shapes'
  BY <1>1, <1>3 DEF Shapes, Expired
<1>5. Readable(record)'
  BY <1>1, <1>2 DEF Readable, Expired, Superseded, Shapes
<1>6. Marked'
  BY <1>1 DEF Marked, Expired, Superseded, Shapes
<1>7. ReadersFindTheirFile'
  BY <1>1 DEF ReadersFindTheirFile, Marked, Expired, Shapes
<1> QED BY <1>3, <1>4, <1>5, <1>6, <1>7 DEF Knows

LEMMA KillKeeps == ASSUME FeatInv, Kill PROVE FeatInv'
<1> USE DEF FeatInv
<1>1. /\ written' = [written EXCEPT !.kills = @ + 1] /\ holder' = Free
      /\ refreshes' = [t \in Threads |-> Out] /\ reading' = [r \in Readers |-> NoFile]
      /\ UNCHANGED <<record, files, marker>>
  BY DEF Kill
<1>2. Shapes' /\ written'.files = written.files
  BY <1>1 DEF Shapes
<1>3. LockHeld' /\ Knows'
  BY <1>1 DEF LockHeld, Inside, Out, Knows
<1>4. Readable(record)' /\ Marked' /\ ReadersFindTheirFile'
  BY <1>1, <1>2, NamesFact DEF Readable, Marked, ReadersFindTheirFile
<1> QED BY <1>2, <1>3, <1>4

LEMMA ReaderKeeps ==
    ASSUME FeatInv, NEW r \in Readers, Resolve(r) \/ Open(r) PROVE FeatInv'
<1> USE DEF FeatInv
<1>1. /\ UNCHANGED <<record, files, marker, refreshes, holder, written>>
      /\ \/ record.file # NoFile /\ reading' = [reading EXCEPT ![r] = record.file]
         \/ reading' = [reading EXCEPT ![r] = NoFile]
  BY DEF Resolve, Open
<1>2. record.file \in Names \cup {NoFile}
  BY DEF Shapes, Records
<1>3. Shapes'
  BY <1>1, <1>2 DEF Shapes
<1>4. Marked'
  BY <1>1, NamesFact DEF Marked, Readable, Shapes
<1>5. ReadersFindTheirFile'
  BY <1>1 DEF ReadersFindTheirFile, Readable, Shapes
<1>6. LockHeld' /\ Readable(record)' /\ Knows'
  BY <1>1 DEF LockHeld, Inside, Readable, Knows
<1> QED BY <1>3, <1>4, <1>5, <1>6

LEMMA GraceKeeps == ASSUME FeatInv, NEW f \in Names, GracePasses(f) PROVE FeatInv'
<1> USE DEF FeatInv
<1>1. /\ marker[f] = "young" /\ \A r \in Readers : reading[r] # f
      /\ marker' = [marker EXCEPT ![f] = "old"]
      /\ UNCHANGED <<record, files, refreshes, holder, reading, written>>
  BY DEF GracePasses
<1>2. Shapes' /\ LockHeld' /\ ReadersFindTheirFile'
  BY <1>1 DEF Shapes, LockHeld, Inside, ReadersFindTheirFile
<1>3. \A g : g # f /\ marker[g] = "none" => marker'[g] = "none"
  BY <1>1 DEF Shapes
<1>4. Readable(record)' /\ Marked'
  BY <1>1 DEF Readable, Marked, Shapes
<1>5. Knows'
  BY <1>1 DEF Knows, Readable, Shapes
<1> QED BY <1>2, <1>4, <1>5

LEMMA FeatStep == ASSUME FeatInv, [FeatNext]_featVars PROVE FeatInv'
<1>1. CASE Refreshing
  BY <1>1, CallKeeps, LockedKeeps, RefusedKeeps, WriteKeeps, RegisterKeeps, PublishKeeps, FailsKeeps, RestoreKeeps,
     PruneKeeps DEF Refreshing
<1>2. CASE Kill
  BY <1>2, KillKeeps
<1>3. CASE \E r \in Readers : Resolve(r) \/ Open(r)
  BY <1>3, ReaderKeeps
<1>4. CASE \E f \in Names : GracePasses(f)
  BY <1>4, GraceKeeps
<1>5. CASE UNCHANGED featVars
  BY <1>5 DEF featVars, FeatInv, Shapes, LockHeld, Inside, Readable, Marked, ReadersFindTheirFile, Knows
<1> QED BY <1>1, <1>2, <1>3, <1>4, <1>5 DEF FeatNext

(* The inductive invariant of the feature collections: the four hands a     *)
(* file goes through, and the lock that a refresh holds.                    *)
THEOREM FeatInvariant == FeatSpec => []FeatInv
<1> QED BY FeatInitInv, FeatStep, PTL DEF FeatSpec

-----------------------------------------------------------------------------
LEMMA FeatTypesOf == FeatInv => FeatTypeOK
<1> SUFFICES ASSUME FeatInv PROVE FeatTypeOK
  OBVIOUS
<1> DEFINE Insiders == {t \in Threads : refreshes[t].at = "in"}
<1>1. Cardinality(Insiders) = IF holder = Free THEN 0 ELSE 1
  <2>1. CASE holder = Free
    <3>1. Insiders = {}
      BY <2>1 DEF FeatInv, LockHeld, Inside
    <3> QED BY <2>1, <3>1, FS_EmptySet
  <2>2. CASE holder # Free
    <3>1. PICK t \in Threads : Insiders = {t}
      BY <2>2 DEF FeatInv, LockHeld, Inside
    <3> HIDE DEF Insiders
    <3> QED BY <2>2, <3>1, FS_Singleton
  <2> QED BY <2>1, <2>2
<1>2. \A f \in Names : marker[f] # "none" => f \in files /\ f # record.file
  BY NamesFact DEF FeatInv, Marked, Readable
<1> QED BY <1>1, <1>2 DEF FeatInv, Shapes, Records, FeatTypeOK

(* Every reachable state has the types, and one thread at most is inside a *)
(* refresh of the collection, however many call and are killed.            *)
THEOREM FeatTypes == FeatSpec => []FeatTypeOK
  BY FeatTypesOf, FeatInvariant, PTL

(* A reader finds the file its record named, however many refreshes,       *)
(* failures, roll-backs, prunings and kills come between its two steps.    *)
THEOREM ReadersAreSafe == FeatSpec => []ReadersFindTheirFile
<1>1. FeatInv => ReadersFindTheirFile
  BY DEF FeatInv
<1> QED BY <1>1, FeatInvariant, PTL

(* Three steps change the record.                                          *)
LEMMA RecordSteps == [FeatNext]_featVars => UNCHANGED record \/ Register \/ Publish \/ RestoreRecords
BY DEF FeatNext, Refreshing, Call, Locked, FeaturesRefused, Write, Fails, Prune, Kill, Resolve, Open, GracePasses,
   featVars

LEMMA OwnerStep ==
    ASSUME FeatInv, [FeatNext]_featVars, record'.owner # record.owner, record'.owner \in Providers
    PROVE  record.file = NoFile \/ record' = holder.prior
<1>1. CASE Register
  <2>1. holder.at = "registering" /\ holder # Free /\ record'.owner = holder.by
    BY <1>1 DEF Register, Free
  <2> QED BY <2>1, FeatAssumption DEF FeatInv, Knows
<1>2. CASE Publish
  BY <1>2 DEF Publish, FeatInv, Shapes, Records
<1>3. CASE RestoreRecords
  BY <1>3 DEF RestoreRecords, Restored
<1> QED BY <1>1, <1>2, <1>3, RecordSteps

LEMMA PublishedStep ==
    ASSUME FeatInv, [FeatNext]_featVars, record.published
    PROVE  record'.published /\ record'.file \in files'
<1>1. record'.published
  <2>1. CASE UNCHANGED record
    BY <2>1
  <2>2. CASE Register
    BY <2>2 DEF Register
  <2>3. CASE Publish
    BY <2>3 DEF Publish, FeatInv, Shapes, Records
  <2>4. CASE RestoreRecords
    <3>1. holder.at = "restoring" /\ record' = holder.prior
      BY <2>4 DEF RestoreRecords, Restored
    <3>2. holder # Free
      BY <3>1 DEF Free
    <3>3. record.published = holder.prior.published
      BY <3>1, <3>2 DEF FeatInv, Knows
    <3>4. record'.published = record.published
      BY <3>1, <3>3
    <3> QED BY <3>4
  <2> QED BY <2>1, <2>2, <2>3, <2>4, RecordSteps
<1>2. FeatInv'
  BY FeatStep
<1> QED BY <1>1, <1>2 DEF FeatInv, Readable

(* No refresh takes another provider's collection, or a published one from *)
(* the catalogue, or its file from the record.                             *)
THEOREM NothingIsTaken == FeatSpec => NothingTaken
<1>1. FeatInv /\ [FeatNext]_featVars => [record'.owner # record.owner /\ record'.owner \in Providers
                                           => record.file = NoFile \/ record' = holder.prior]_featVars
  BY OwnerStep
<1>2. FeatInv /\ [FeatNext]_featVars => [record.published => record'.published /\ record'.file \in files']_featVars
  BY PublishedStep
<1> QED BY <1>1, <1>2, FeatInvariant, PTL DEF FeatSpec, NothingTaken, OwnerKept, PublishedStays
(***************************************************************************)
(* The syncs of a dataset, for any number of periods, changes of the       *)
(* source and other ingests: a plan for a release is not refused whatever  *)
(* the source does meanwhile, and an answer is true of what it left.       *)
(***************************************************************************)
-----------------------------------------------------------------------------
Coverages == [start : {1}, end : Periods, recorded : Periods, version : 0..2, mixed : BOOLEAN, icechunk : BOOLEAN]
Templates == [kind : Kinds, append : BOOLEAN, version : 0..2]
Sources   == [first : Periods, last : [Releases -> 0..MaxPeriod]]
Spans     == [from : Nat, to : Nat]

Orders ==
    [action : {"no_op"},
     reason : {"no_new_period", "no_new_release", "release_version_unavailable", "static_dataset"}]
    \cup [action : {"append", "rematerialize"}, reason : {"new"}, to : Nat, periods : Spans]

Runs ==
    [at : {"planned", "completed", "refused", "failed", "up_to_date", "not_syncable", "waiting_for_source"},
     plan : Orders, target : Periods, template : Templates, alone : BOOLEAN, fresh : BOOLEAN, before : Coverages]

\* Only a store that is not Icechunk is known by its record, and its record has all.
WellRecorded(h) == h.recorded <= h.end /\ (h.icechunk \/ h.recorded = h.end)
Versioned(t)    == t.kind # "release" => t.version = Unknown

CoverageInv ==
    /\ held \in Coverages /\ WellRecorded(held)
    /\ template \in Templates /\ Versioned(template)
    /\ source \in Sources
    /\ run \in {NoRun} \cup Runs /\ left \in [changes : Nat, ingests : Nat]

(* What a plan asks for can be done, by what it was made of: nothing that a  *)
(* source has is taken back, but for its beginning.                          *)
Feasible(plan, t, before) ==
    /\ plan.action = "append" =>
          t.kind = "temporal" /\ before.icechunk /\ ~IsEmpty(plan.periods) /\ plan.periods.to <= MaxPeriod
    /\ plan.action = "rematerialize" =>
          /\ plan.to <= source.last[Revision(t)]
          /\ IF IsEmpty(plan.periods)
             THEN plan.to > before.end /\ t.version \in {Unknown, before.version}
             ELSE /\ plan.periods.from = before.start
                  /\ plan.periods.to \in before.end..MaxPeriod

RunInv ==
    /\ run.at = "planned" =>
          /\ WellRecorded(run.before) /\ Versioned(run.template) /\ (run.before.icechunk => held.icechunk)
          /\ Feasible(run.plan, run.template, run.before)
          /\ run.fresh => template = run.template
          /\ run.alone => held = run.before
          /\ run.fresh /\ run.alone => run.plan = PlanFor(run.target)
    /\ CompletedSettles /\ UpToDateIsCurrent

PlanningInv == CoverageInv /\ RunInv

-----------------------------------------------------------------------------
(* What a plan is. *)

LEMMA AvailableFacts ==
    ASSUME CoverageInv, NEW t \in Templates, NEW from \in Nat, NEW to \in Nat
    PROVE  /\ Available(t, from, to) \in Spans
           /\ Available(t, from, to).from = Greater(from, source.first)
           /\ Available(t, from, to).from >= from
           /\ Available(t, from, to).to = Least(to, source.last[Revision(t)])
           /\ Available(t, from, to).to <= to /\ Available(t, from, to).to <= source.last[Revision(t)]
           /\ source.last[Revision(t)] \in 0..MaxPeriod
<1>1. Revision(t) \in Releases
  BY DEF Revision, Templates, Releases, Unknown
<1>2. source.last[Revision(t)] \in 0..MaxPeriod /\ source.first \in Nat /\ MaxPeriod \in Nat
  BY <1>1, PlanAssumption DEF CoverageInv, Sources, Periods
<1> QED BY <1>2 DEF Available, Span, Spans, Greater, Least

LEMMA EndFacts ==
    ASSUME CoverageInv
    PROVE  /\ CurrentEnd = held.end /\ held.end \in Periods /\ held.end \in Nat /\ held.start = 1
           /\ MaxPeriod \in Nat /\ held.version \in 0..2
  BY PlanAssumption DEF CoverageInv, CurrentEnd, Coverages, WellRecorded, Periods

LEMMA PlanForFacts ==
    ASSUME CoverageInv, NEW target \in Periods
    PROVE  PlanFor(target) \in Orders /\ Feasible(PlanFor(target), template, held)
<1>1. target \in Nat /\ template \in Templates /\ Versioned(template)
  BY PlanAssumption DEF CoverageInv, Periods
<1>2. CASE template.kind = "static"
  BY <1>2 DEF PlanFor, Wait, Orders, Feasible
<1>3. CASE template.kind = "temporal"
  <2> DEFINE delta == Available(template, CurrentEnd + 1, target)
  <2>1. template.version = Unknown
    BY <1>1, <1>3 DEF Versioned
  <2>2. PlanFor(target) = PlanTemporal(target)
    BY <1>3 DEF PlanFor
  <2>3. /\ delta \in Spans /\ delta.from >= held.end + 1 /\ delta.to <= source.last[Revision(template)]
        /\ source.last[Revision(template)] \in 0..MaxPeriod
    BY <1>1, AvailableFacts, EndFacts
  <2>4. CASE CurrentEnd + 1 > target \/ IsEmpty(delta)
    BY <2>2, <2>4 DEF PlanTemporal, Wait, Orders, Feasible
  <2>5. CASE ~(CurrentEnd + 1 > target \/ IsEmpty(delta)) /\ template.append /\ held.icechunk
    <3>1. PlanFor(target) = Do("append", delta.to, delta)
      BY <2>2, <2>5 DEF PlanTemporal
    <3> HIDE DEF delta
    <3> QED BY <1>3, <2>3, <2>5, <3>1, EndFacts DEF Do, Orders, Feasible, IsEmpty, Spans
  <2>6. CASE ~(CurrentEnd + 1 > target \/ IsEmpty(delta)) /\ ~(template.append /\ held.icechunk)
    <3>1. PlanFor(target) = Do("rematerialize", delta.to, Unplanned)
      BY <2>2, <2>6 DEF PlanTemporal
    <3> HIDE DEF delta
    <3>2. IsEmpty(Unplanned) /\ Unplanned \in Spans
      BY DEF IsEmpty, Unplanned, Span, Spans
    <3> QED BY <2>1, <2>3, <2>6, <3>1, <3>2, EndFacts DEF Do, Orders, Feasible, IsEmpty, Spans
  <2> QED BY <2>4, <2>5, <2>6
<1>4. CASE template.kind = "release" /\ NewRelease
  <2> DEFINE upto == Greater(target, CurrentEnd)
             all  == Available(template, held.start, upto)
  <2>1. PlanFor(target) = PlanRelease(target)
    BY <1>4 DEF PlanFor
  <2>2. upto \in Nat /\ held.start \in Nat
    BY <1>1, EndFacts DEF Greater
  <2>3. /\ all \in Spans /\ all.from >= held.start /\ all.to <= source.last[Revision(template)]
        /\ source.last[Revision(template)] \in 0..MaxPeriod
    <3> HIDE DEF upto
    <3> QED BY <1>1, <2>2, AvailableFacts
  <2>4. CASE Covers(all)
    <3>1. PlanFor(target) = Do("rematerialize", all.to, all)
      BY <2>1, <2>4 DEF PlanRelease
    <3> HIDE DEF upto, all
    <3> QED BY <2>2, <2>3, <2>4, <3>1, EndFacts DEF Do, Orders, Feasible, IsEmpty, Spans, Covers
  <2>5. CASE ~Covers(all)
    BY <2>1, <2>5 DEF PlanRelease, Wait, Orders, Feasible
  <2> QED BY <2>4, <2>5
<1>5. CASE template.kind = "release" /\ ~NewRelease
  <2> DEFINE seen == Available(template, CurrentEnd, target)
  <2>1. PlanFor(target) = PlanPeriods(target)
    BY <1>5 DEF PlanFor
  <2>2. seen \in Spans /\ seen.to <= source.last[Revision(template)]
    BY <1>1, AvailableFacts, EndFacts
  <2>3. CASE IsEmpty(seen) \/ CurrentEnd >= seen.to
    BY <2>1, <2>3 DEF PlanPeriods, Wait, Orders, Feasible
  <2>4. CASE ~(IsEmpty(seen) \/ CurrentEnd >= seen.to)
    <3>1. PlanFor(target) = Do("rematerialize", seen.to, Unplanned)
      BY <2>1, <2>4 DEF PlanPeriods
    <3>2. IsEmpty(Unplanned) /\ Unplanned \in Spans
      BY DEF IsEmpty, Unplanned, Span, Spans
    <3>3. template.version \in {Unknown, held.version}
      BY <1>5 DEF NewRelease
    <3> HIDE DEF seen
    <3> QED BY <2>2, <2>4, <3>1, <3>2, <3>3, EndFacts DEF Do, Orders, Feasible, IsEmpty, Spans
  <2> QED BY <2>3, <2>4
<1> QED BY <1>1, <1>2, <1>3, <1>4, <1>5 DEF Templates, Kinds

-----------------------------------------------------------------------------
(* What is left to do when a plan is carried out, or there was none. *)

LEMMA NothingLeft ==
    ASSUME CoverageInv', NEW target \in Periods,
           held'.end >= Least(target, source'.last[Revision(template')]),
           template'.kind = "temporal" \/ (template'.kind = "release" /\ ~NewRelease')
    PROVE  PlanFor(target)'.action = "no_op"
<1> DEFINE last == source'.last[Revision(template')]
           first == source'.first
<1>1. /\ held'.end \in Nat /\ last \in Nat /\ first \in Nat /\ target \in Nat
      /\ CurrentEnd' = held'.end
  <2>1. Revision(template') \in Releases
    BY DEF CoverageInv, Revision, Templates, Releases, Unknown
  <2> QED BY <2>1, PlanAssumption DEF CoverageInv, CurrentEnd, Coverages, WellRecorded, Periods, Sources
<1>2. ASSUME NEW from \in Nat
      PROVE  Available(template, from, target)' = Span(Greater(from, first), Least(target, last))
  BY DEF Available
<1>3. CASE template'.kind = "temporal"
  <2> DEFINE delta == Span(Greater(held'.end + 1, first), Least(target, last))
  <2>1. PlanFor(target)' = IF held'.end + 1 > target \/ IsEmpty(delta) THEN Wait("no_new_period")
                           ELSE IF template'.append /\ held'.icechunk THEN Do("append", delta.to, delta)
                           ELSE Do("rematerialize", delta.to, Unplanned)
    BY <1>1, <1>2, <1>3 DEF PlanFor, PlanTemporal, Unplanned
  <2>2. IsEmpty(delta)
    <3> HIDE DEF last, first
    <3> QED BY <1>1 DEF IsEmpty, Span, Greater, Least, last
  <2> QED BY <2>1, <2>2 DEF Wait
<1>4. CASE template'.kind = "release" /\ ~NewRelease'
  <2> DEFINE seen == Span(Greater(held'.end, first), Least(target, last))
  <2>1. PlanFor(target)' = IF IsEmpty(seen) \/ held'.end >= seen.to THEN Wait("no_new_release")
                           ELSE Do("rematerialize", seen.to, Unplanned)
    BY <1>1, <1>2, <1>4 DEF PlanFor, PlanPeriods, Unplanned
  <2>2. held'.end >= seen.to
    BY DEF Span
  <2> QED BY <2>1, <2>2 DEF Wait
<1> QED BY <1>3, <1>4

LEMMA WaitsWithAll ==
    ASSUME CoverageInv, NEW target \in Periods, PlanFor(target).action = "no_op",
           PlanFor(target).reason \in {"no_new_period", "no_new_release"}
    PROVE  template.version \in {Unknown, held.version} /\ IsEmpty(Available(template, held.end + 1, target))
<1>1. target \in Nat /\ template \in Templates /\ Versioned(template) /\ source.first \in Nat
  BY PlanAssumption DEF CoverageInv, Periods, Sources
<1>2. CASE template.kind = "temporal"
  <2> DEFINE delta == Available(template, CurrentEnd + 1, target)
  <2>1. PlanFor(target) = PlanTemporal(target)
    BY <1>2 DEF PlanFor
  <2>2. CurrentEnd + 1 > target \/ IsEmpty(delta)
    BY <2>1 DEF PlanTemporal, Do
  <2>3. delta \in Spans /\ delta.from >= held.end + 1 /\ delta.to <= target
    <3>1. CurrentEnd + 1 \in Nat /\ CurrentEnd + 1 = held.end + 1
      BY EndFacts
    <3> QED BY ONLY <1>1, <3>1, AvailableFacts, CoverageInv
  <2>4. IsEmpty(delta)
    <3> HIDE DEF delta
    <3> QED BY <1>1, <2>2, <2>3, EndFacts DEF IsEmpty, Spans
  <2> QED BY <1>1, <1>2, <2>4, EndFacts DEF Versioned
<1>3. CASE template.kind = "release" /\ ~NewRelease
  <2> DEFINE seen == Available(template, CurrentEnd, target)
             rest == Available(template, CurrentEnd + 1, target)
  <2>1. PlanFor(target) = PlanPeriods(target)
    BY <1>3 DEF PlanFor
  <2>2. IsEmpty(seen) \/ CurrentEnd >= seen.to
    BY <2>1 DEF PlanPeriods, Do
  <2>3. /\ seen \in Spans /\ rest \in Spans /\ rest.to = seen.to /\ rest.from >= CurrentEnd + 1
        /\ seen.from = Greater(CurrentEnd, source.first) /\ rest.from = Greater(CurrentEnd + 1, source.first)
    BY <1>1, AvailableFacts, EndFacts
  <2>4. IsEmpty(rest)
    <3> HIDE DEF seen, rest
    <3> QED BY <1>1, <2>2, <2>3, EndFacts DEF IsEmpty, Spans, Greater
  <2> QED BY <1>3, <2>4, EndFacts DEF NewRelease
<1>4. CASE template.kind = "release" /\ NewRelease
  BY <1>4 DEF PlanFor, PlanRelease, Wait, Do
<1>5. CASE template.kind = "static"
  BY <1>5 DEF PlanFor, Wait
<1> QED BY <1>1, <1>2, <1>3, <1>4, <1>5 DEF Templates, Kinds

-----------------------------------------------------------------------------
(* The steps. *)

LEMMA PlanInitInv == PlanInit => PlanningInv
<1> SUFFICES ASSUME PlanInit PROVE PlanningInv
  OBVIOUS
<1>1. /\ held \in [start : {1}, end : Periods, recorded : Periods, version : {Unknown, 1}, mixed : {FALSE}, icechunk : BOOLEAN]
      /\ held.recorded = held.end
      /\ template \in [kind : Kinds, append : BOOLEAN, version : {Unknown, 1}]
      /\ template.kind # "release" => template.version = Unknown
      /\ source \in [first : {1}, last : [Releases -> 0..MaxPeriod]]
      /\ run = NoRun /\ left = [changes |-> MaxChanges, ingests |-> MaxIngests]
  BY DEF PlanInit
<1>2. run.at = "idle"
  BY <1>1 DEF NoRun
<1>3. 1 \in Periods
  BY PlanAssumption DEF Periods
<1>4. held \in Coverages /\ WellRecorded(held)
  <2>1. held.end \in Nat
    BY <1>1, PlanAssumption DEF Periods
  <2>2. held \in Coverages
    <3> DEFINE Old == {Unknown, 1}
               Plain == {FALSE}
    <3>1. Old \subseteq 0..2 /\ Plain \subseteq BOOLEAN
      BY DEF Unknown
    <3>2. held \in [start : {1}, end : Periods, recorded : Periods, version : Old, mixed : Plain, icechunk : BOOLEAN]
      BY <1>1
    <3> HIDE DEF Old, Plain
    <3> QED BY ONLY <3>1, <3>2 DEF Coverages
  <2> QED BY <1>1, <2>1, <2>2 DEF WellRecorded
<1>5. template \in Templates /\ Versioned(template)
  BY <1>1 DEF Templates, Versioned, Unknown
<1>6. source \in Sources
  BY <1>1, <1>3 DEF Sources
<1>7. left \in [changes : Nat, ingests : Nat]
  BY <1>1, PlanAssumption
<1>8. CoverageInv
  BY <1>1, <1>4, <1>5, <1>6, <1>7 DEF CoverageInv
<1>9. RunInv
  BY <1>2 DEF RunInv, CompletedSettles, UpToDateIsCurrent
<1> QED BY <1>8, <1>9 DEF PlanningInv

LEMMA PlanKeeps == ASSUME PlanningInv, Plan PROVE PlanningInv'
<1>1. PICK target \in Periods :
          run' = [at |-> "planned", plan |-> PlanFor(target), target |-> target, template |-> template,
                  alone |-> TRUE, fresh |-> TRUE, before |-> held]
  BY DEF Plan
<1>2. UNCHANGED <<held, template, source, left>>
  BY DEF Plan
<1>3. CoverageInv /\ PlanFor(target) \in Orders /\ Feasible(PlanFor(target), template, held)
  BY PlanForFacts DEF PlanningInv
<1>4. CoverageInv'
  <2>1. run' \in Runs
    BY <1>1, <1>3 DEF Runs, CoverageInv
  <2> QED BY <1>2, <1>3, <2>1 DEF CoverageInv
<1>5. Feasible(run.plan, run.template, run.before)'
  BY <1>1, <1>2, <1>3 DEF Feasible
<1>6. run'.plan = PlanFor(target)' /\ run'.target = target
  BY <1>1, <1>2 DEF PlanFor, PlanTemporal, PlanRelease, PlanPeriods, NewRelease, Available, CurrentEnd, Covers
<1>7. RunInv'
  <2>1. run'.at = "planned" /\ run'.template = template' /\ run'.before = held'
    BY <1>1, <1>2
  <2>2. WellRecorded(held') /\ Versioned(template')
    BY <1>4 DEF CoverageInv
  <2> QED BY <1>5, <1>6, <2>1, <2>2 DEF RunInv, CompletedSettles, UpToDateIsCurrent
<1> QED BY <1>4, <1>7 DEF PlanningInv

\* A plan that was made of what is still there.
LEMMA PlannedFacts ==
    ASSUME PlanningInv, run.at = "planned"
    PROVE  /\ run \in Runs /\ run.plan \in Orders /\ run.target \in Periods /\ run.template \in Templates
           /\ run.before \in Coverages /\ WellRecorded(run.before) /\ Versioned(run.template)
           /\ run.before.icechunk => held.icechunk
           /\ Feasible(run.plan, run.template, run.before)
           /\ CoverageInv
<1>1. run \in Runs
  BY DEF PlanningInv, CoverageInv, NoRun
<1> QED BY <1>1 DEF PlanningInv, RunInv, Runs

LEMMA AnsweredRun ==
    ASSUME PlanningInv, run.at = "planned", NEW status, Answered(status),
           status \in {"completed", "refused", "failed", "up_to_date", "not_syncable", "waiting_for_source"}
    PROVE  /\ run' \in Runs /\ run'.at = status /\ run'.plan = run.plan /\ run'.target = run.target
           /\ run'.alone = run.alone /\ run'.fresh = run.fresh
           /\ run'.template = run.template /\ run'.before = run.before
<1>1. run \in Runs
  BY PlannedFacts
<1> QED BY <1>1 DEF Answered, Runs

LEMMA SkipKeeps == ASSUME PlanningInv, Skip PROVE PlanningInv'
<1> DEFINE status == Status(run.plan.reason)
<1>1. run.at = "planned" /\ run.plan.action = "no_op" /\ Answered(status)
  BY DEF Skip
<1>2. UNCHANGED <<held, template, source, left>>
  BY DEF Skip
<1>3. status \in {"up_to_date", "not_syncable", "waiting_for_source"}
  BY DEF Status
<1>4. /\ run' \in Runs /\ run'.at = status /\ run'.plan = run.plan /\ run'.target = run.target
      /\ run'.alone = run.alone /\ run'.fresh = run.fresh
  <2> HIDE DEF status
  <2> QED BY <1>1, <1>3, AnsweredRun
<1>5. CoverageInv'
  BY <1>2, <1>4 DEF PlanningInv, CoverageInv
<1>6. UpToDateIsCurrent'
  <2> SUFFICES ASSUME run'.at = "up_to_date", run'.fresh, run'.alone
               PROVE  /\ template'.version \in {Unknown, held'.version}
                      /\ IsEmpty(Available(template, held.end + 1, run.target)')
    BY DEF UpToDateIsCurrent
  <2>1. template = run.template /\ run.plan = PlanFor(run.target)
    BY <1>1, <1>4 DEF PlanningInv, RunInv
  <2>2. run.plan.reason \in {"no_new_period", "no_new_release"}
    <3>1. run.plan.reason \in {"no_new_period", "no_new_release", "release_version_unavailable", "static_dataset"}
      BY <1>1, PlannedFacts DEF Orders
    <3> QED BY <1>4, <3>1 DEF Status
  <2>3. template.version \in {Unknown, held.version} /\ IsEmpty(Available(template, held.end + 1, run.target))
    BY <1>1, <2>1, <2>2, PlannedFacts, WaitsWithAll
  <2>4. Available(template, held.end + 1, run.target)' = Available(template, held.end + 1, run.target)
    BY <1>2, <1>4 DEF Available
  <2> QED BY <1>2, <2>3, <2>4
<1>7. CompletedSettles' /\ run'.at # "planned"
  BY <1>3, <1>4 DEF CompletedSettles
<1> QED BY <1>5, <1>6, <1>7 DEF PlanningInv, RunInv

LEMMA AppendKeeps == ASSUME PlanningInv, Append PROVE PlanningInv' /\ held'.end >= held.end
<1> DEFINE delta == Span(Greater(run.plan.periods.from, held.end + 1), run.plan.periods.to)
<1>1. run.at = "planned" /\ run.plan.action = "append" /\ UNCHANGED <<template, source, left>>
  BY DEF Append
<1>2. /\ run.plan.periods.from \in Nat /\ run.plan.periods.to \in 0..MaxPeriod /\ ~IsEmpty(run.plan.periods)
      /\ run.template.kind = "temporal" /\ held.icechunk /\ run.template.version = Unknown
  <2>1. run.plan.periods \in Spans
    BY <1>1, PlannedFacts DEF Orders
  <2> QED BY <1>1, <2>1, PlannedFacts, PlanAssumption DEF Feasible, Versioned, Spans
<1>3. held \in Coverages /\ held.end \in 1..MaxPeriod /\ MaxPeriod \in Nat /\ WellRecorded(held)
  BY PlanAssumption DEF PlanningInv, CoverageInv, Coverages, Periods
<1>4. CASE IsEmpty(delta) /\ Answered("completed") /\ held' = [held EXCEPT !.recorded = held.end]
  <2>1. /\ run' \in Runs /\ run'.at = "completed" /\ run'.target = run.target /\ run'.alone = run.alone /\ run'.fresh = run.fresh
    BY <1>1, <1>4, AnsweredRun
  <2>2. held' \in Coverages /\ WellRecorded(held') /\ held'.end = held.end
    BY <1>3, <1>4 DEF Coverages, WellRecorded, Periods
  <2>3. CoverageInv'
    BY <1>1, <2>1, <2>2 DEF PlanningInv, CoverageInv
  <2>4. ~(run.fresh /\ run.alone)
    <3> SUFFICES ASSUME run.fresh, run.alone PROVE FALSE
      OBVIOUS
    <3>1. run.plan = PlanFor(run.target) /\ template = run.template
      BY <1>1 DEF PlanningInv, RunInv
    <3>2. run.plan.periods = Available(template, CurrentEnd + 1, run.target)
      BY <1>1, <1>2, <3>1 DEF PlanFor, PlanTemporal, Do, Wait
    <3>3. run.plan.periods.from >= held.end + 1
      <4>1. template \in Templates /\ run.target \in Nat /\ CurrentEnd + 1 \in Nat /\ CurrentEnd = held.end /\ CoverageInv
        BY <1>1, PlannedFacts, EndFacts, PlanAssumption DEF CoverageInv, Periods
      <4> QED BY ONLY <3>2, <4>1, AvailableFacts
    <3>4. delta.from = run.plan.periods.from /\ delta.to = run.plan.periods.to
      BY <1>2, <1>3, <3>3 DEF Span, Greater
    <3> QED BY <1>2, <1>4, <3>4 DEF IsEmpty
  <2>5. RunInv'
    BY <2>1, <2>4 DEF RunInv, CompletedSettles, UpToDateIsCurrent
  <2> QED BY <1>3, <2>2, <2>3, <2>5 DEF PlanningInv
<1>5. CASE ~IsEmpty(delta) /\ delta.from > held.end + 1 /\ Answered("refused") /\ UNCHANGED held
  <2>1. run' \in Runs /\ run'.at = "refused"
    BY <1>1, <1>5, AnsweredRun
  <2> QED BY <1>1, <1>3, <1>5, <2>1 DEF PlanningInv, CoverageInv, RunInv, CompletedSettles, UpToDateIsCurrent
<1>6. CASE /\ ~IsEmpty(delta) /\ delta.from = held.end + 1 /\ Answered("completed")
           /\ held' = [held EXCEPT !.end = delta.to, !.recorded = delta.to, !.version = run.template.version]
  <2>1. /\ run' \in Runs /\ run'.at = "completed" /\ run'.target = run.target /\ run'.alone = run.alone /\ run'.fresh = run.fresh
    BY <1>1, <1>6, AnsweredRun
  <2>2. delta.to = run.plan.periods.to /\ delta.to \in held.end + 1..MaxPeriod
    BY <1>2, <1>3, <1>6 DEF IsEmpty, Span
  <2>3. held' \in Coverages /\ WellRecorded(held') /\ held'.end = delta.to /\ held'.end >= held.end
    <3>1. run.template.version \in 0..2
      BY <1>2 DEF Unknown
    <3>2. delta.to \in Periods
      BY <1>3, <2>2 DEF Periods
    <3> HIDE DEF delta
    <3>3. held' \in Coverages /\ held'.end = delta.to /\ held'.recorded = delta.to
      BY <1>3, <1>6, <3>1, <3>2 DEF Coverages
    <3> QED BY <1>3, <2>2, <3>3 DEF WellRecorded
  <2>4. CoverageInv'
    BY <1>1, <2>1, <2>3 DEF PlanningInv, CoverageInv
  <2>5. CompletedSettles'
    <3> SUFFICES ASSUME run.fresh, run.alone PROVE PlanFor(run.target)'.action = "no_op"
      BY <2>1 DEF CompletedSettles
    <3>1. run.plan = PlanFor(run.target) /\ template = run.template
      BY <1>1 DEF PlanningInv, RunInv
    <3>2. run.plan.periods = Available(template, CurrentEnd + 1, run.target)
      BY <1>1, <1>2, <3>1 DEF PlanFor, PlanTemporal, Do, Wait
    <3>3. run.plan.periods.to = Least(run.target, source.last[Revision(template)])
      BY <3>2 DEF Available, Span
    <3>4. held'.end >= Least(run.target, source'.last[Revision(template')])
      BY <1>1, <1>3, <2>2, <2>3, <3>3
    <3>5. PICK target \in Periods : target = run.target
      BY <1>1, PlannedFacts
    <3>6. PlanFor(target)'.action = "no_op"
      BY <1>1, <1>2, <2>4, <3>1, <3>4, <3>5, NothingLeft
    <3> QED BY <2>1, <3>5, <3>6
  <2>6. RunInv'
    BY <2>1, <2>5 DEF RunInv, UpToDateIsCurrent
  <2> QED BY <2>3, <2>4, <2>6 DEF PlanningInv
<1>7. ASSUME ~IsEmpty(delta), Answered("failed"),
             \E upto \in held.end..(delta.to - 1) : held' = [held EXCEPT !.end = upto]
      PROVE  PlanningInv' /\ held'.end >= held.end
  <2>1. run' \in Runs /\ run'.at = "failed"
    BY <1>1, <1>7, AnsweredRun
  <2>2. PICK upto \in held.end..(delta.to - 1) : held' = [held EXCEPT !.end = upto]
    BY <1>7
  <2>3. upto \in Periods /\ upto \in Nat /\ upto >= held.end
    <3>1. delta.to \in 0..MaxPeriod
      BY <1>2 DEF Span
    <3> HIDE DEF delta
    <3> QED BY <1>3, <2>2, <3>1 DEF Periods
  <2>4. held' \in Coverages /\ WellRecorded(held') /\ held'.end = upto /\ held'.icechunk = held.icechunk
    <3>1. /\ held' \in Coverages /\ held'.end = upto /\ held'.recorded = held.recorded
          /\ held'.icechunk = held.icechunk
      BY <1>3, <2>2, <2>3 DEF Coverages
    <3>2. held.recorded \in Nat /\ held.recorded <= held.end
      BY <1>3 DEF Coverages, WellRecorded, Periods
    <3> QED BY <1>2, <1>3, <2>3, <3>1, <3>2 DEF WellRecorded
  <2> QED BY <1>1, <2>1, <2>3, <2>4 DEF PlanningInv, CoverageInv, RunInv, CompletedSettles, UpToDateIsCurrent
<1> QED BY <1>4, <1>5, <1>6, <1>7 DEF Append, SyncFails

\* A rewrite reaches what the source has up to the end asked for.
LEMMA RewriteReaches ==
    ASSUME CoverageInv, NEW target \in Periods, PlanFor(target).action = "rematerialize"
    PROVE  LET plan == PlanFor(target) IN
           /\ template.kind # "static"
           /\ plan.to >= Least(target, source.last[Revision(template)])
           /\ ~IsEmpty(plan.periods) => plan.periods.to = plan.to
<1>1. target \in Nat /\ template \in Templates
  BY PlanAssumption DEF CoverageInv, Periods
<1>2. IsEmpty(Unplanned)
  BY DEF IsEmpty, Unplanned, Span
<1>3. CASE template.kind = "static"
  BY <1>3 DEF PlanFor, Wait
<1>4. CASE template.kind = "temporal"
  <2>1. PlanFor(target) = Do("rematerialize", Available(template, CurrentEnd + 1, target).to, Unplanned)
    BY <1>4 DEF PlanFor, PlanTemporal, Do, Wait
  <2>2. Available(template, CurrentEnd + 1, target).to = Least(target, source.last[Revision(template)])
    BY DEF Available, Span
  <2>3. source.last[Revision(template)] \in Nat
    BY <1>1, AvailableFacts
  <2> QED BY <1>1, <1>2, <1>4, <2>1, <2>2, <2>3 DEF Do, Least
<1>5. CASE template.kind = "release" /\ NewRelease
  <2> DEFINE upto == Greater(target, CurrentEnd)
             all  == Available(template, held.start, upto)
  <2>1. PlanFor(target) = Do("rematerialize", all.to, all)
    BY <1>5 DEF PlanFor, PlanRelease, Do, Wait
  <2>2. upto \in Nat /\ upto >= target
    BY <1>1, EndFacts DEF Greater
  <2>3. all.to = Least(upto, source.last[Revision(template)])
    BY DEF Available, Span
  <2>4. source.last[Revision(template)] \in Nat
    BY <1>1, AvailableFacts
  <2> HIDE DEF upto, all
  <2> QED BY <1>1, <1>5, <2>1, <2>2, <2>3, <2>4 DEF Do, Least
<1>6. CASE template.kind = "release" /\ ~NewRelease
  <2>1. PlanFor(target) = Do("rematerialize", Available(template, CurrentEnd, target).to, Unplanned)
    BY <1>6 DEF PlanFor, PlanPeriods, Do, Wait
  <2>2. Available(template, CurrentEnd, target).to = Least(target, source.last[Revision(template)])
    BY DEF Available, Span
  <2>3. source.last[Revision(template)] \in Nat
    BY <1>1, AvailableFacts
  <2> QED BY <1>1, <1>2, <1>6, <2>1, <2>2, <2>3 DEF Do, Least
<1> QED BY <1>1, <1>3, <1>4, <1>5, <1>6 DEF Templates, Kinds

\* What a rewrite writes, whatever the source did since the plan.
LEMMA RewrittenFacts ==
    ASSUME PlanningInv, run.at = "planned", run.plan.action = "rematerialize"
    PROVE  /\ Rewritten \in Spans /\ Rewritten.to \in 0..MaxPeriod /\ Rewritten.to >= run.before.end
           /\ ~IsEmpty(run.plan.periods) => Rewritten = run.plan.periods /\ Rewritten.from = run.before.start
           /\ IsEmpty(run.plan.periods) => Rewritten.to = run.plan.to
           /\ run.before.start = 1 /\ run.before.end \in 1..MaxPeriod
<1>1. /\ run.plan \in Orders /\ run.template \in Templates /\ run.before \in Coverages /\ CoverageInv
      /\ Feasible(run.plan, run.template, run.before)
  BY PlannedFacts
<1>2. run.plan.to \in Nat /\ run.plan.periods \in Spans
  BY <1>1 DEF Orders
<1>3. run.before.start = 1 /\ run.before.end \in 1..MaxPeriod /\ MaxPeriod \in Nat
  BY <1>1, PlanAssumption DEF Coverages, Periods
<1>4. CASE IsEmpty(run.plan.periods)
  <2>1. Rewritten = Available(run.template, run.before.start, run.plan.to)
    BY <1>4 DEF Rewritten
  <2>2. /\ Rewritten \in Spans /\ Rewritten.to = Least(run.plan.to, source.last[Revision(run.template)])
        /\ source.last[Revision(run.template)] \in 0..MaxPeriod
    <3>1. run.before.start \in Nat
      BY <1>3
    <3> QED BY ONLY <1>1, <1>2, <2>1, <3>1, AvailableFacts
  <2>3. run.plan.to <= source.last[Revision(run.template)] /\ run.plan.to > run.before.end
    BY <1>1, <1>4 DEF Feasible
  <2> QED BY <1>2, <1>3, <1>4, <2>2, <2>3 DEF Least
<1>5. CASE ~IsEmpty(run.plan.periods)
  <2>1. Rewritten = run.plan.periods
    BY <1>5 DEF Rewritten
  <2> QED BY <1>1, <1>2, <1>3, <1>5, <2>1 DEF Feasible
<1> QED BY <1>4, <1>5

LEMMA RematerializeKeeps ==
    ASSUME PlanningInv, Rematerialize
    PROVE  /\ PlanningInv' /\ (run.alone => held'.end >= held.end)
           /\ run.template.version # Unknown /\ run.template.version # run.before.version => run'.at # "refused"
           /\ run'.at = "failed" => held' = held
<1>1. run.at = "planned" /\ run.plan.action = "rematerialize" /\ UNCHANGED <<template, source, left>>
  BY DEF Rematerialize
<1>2. /\ Rewritten \in Spans /\ Rewritten.to \in 0..MaxPeriod /\ Rewritten.to >= run.before.end
      /\ ~IsEmpty(run.plan.periods) => Rewritten = run.plan.periods /\ Rewritten.from = run.before.start
      /\ IsEmpty(run.plan.periods) => Rewritten.to = run.plan.to
      /\ run.before.start = 1 /\ run.before.end \in 1..MaxPeriod
  BY <1>1, RewrittenFacts
<1>3. held \in Coverages /\ held.end \in 1..MaxPeriod /\ MaxPeriod \in Nat /\ WellRecorded(held)
  BY PlanAssumption DEF PlanningInv, CoverageInv, Coverages, Periods
<1>4. CASE (IsEmpty(Rewritten) \/ Rewritten.from # run.before.start) /\ Answered("refused") /\ UNCHANGED held
  <2>1. run' \in Runs /\ run'.at = "refused"
    BY <1>1, <1>4, AnsweredRun
  <2>2. PlanningInv'
    BY <1>1, <1>4, <2>1 DEF PlanningInv, CoverageInv, RunInv, CompletedSettles, UpToDateIsCurrent
  <2>3. IsEmpty(run.plan.periods)
    BY <1>2, <1>4
  <2>4. run.template.version \in {Unknown, run.before.version}
    BY <1>1, <2>3, PlannedFacts DEF Feasible
  <2> QED BY <1>3, <1>4, <2>2, <2>4
<1>6. CASE Answered("failed") /\ UNCHANGED held
  <2>1. run' \in Runs /\ run'.at = "failed"
    BY <1>1, <1>6, AnsweredRun
  <2>2. PlanningInv'
    BY <1>1, <1>6, <2>1 DEF PlanningInv, CoverageInv, RunInv, CompletedSettles, UpToDateIsCurrent
  <2> QED BY <1>3, <1>6, <2>1, <2>2
<1>5. CASE /\ ~(IsEmpty(Rewritten) \/ Rewritten.from # run.before.start) /\ Answered("completed")
           /\ held' = [start |-> run.before.start, end |-> Rewritten.to, recorded |-> Rewritten.to,
                       version |-> Stamped, mixed |-> FALSE, icechunk |-> TRUE]
  <2>1. /\ run' \in Runs /\ run'.at = "completed" /\ run'.target = run.target /\ run'.alone = run.alone /\ run'.fresh = run.fresh
    BY <1>1, <1>5, AnsweredRun
  <2>2. held' \in Coverages /\ WellRecorded(held')
    <3>1. run.template.version \in 0..2
      BY <1>1, PlannedFacts DEF Templates
    <3>2. Rewritten.to \in Periods /\ Rewritten.to <= Rewritten.to
      BY <1>2, <1>3 DEF Periods
    <3> QED BY <1>2, <1>5, <3>1, <3>2 DEF Coverages, WellRecorded, Stamped
  <2>3. CoverageInv'
    BY <1>1, <2>1, <2>2 DEF PlanningInv, CoverageInv
  <2>4. run.alone => held'.end >= held.end
    BY <1>1, <1>2, <1>5 DEF PlanningInv, RunInv
  <2>5. CompletedSettles'
    <3> SUFFICES ASSUME run.fresh, run.alone PROVE PlanFor(run.target)'.action = "no_op"
      BY <2>1 DEF CompletedSettles
    <3>1. run.plan = PlanFor(run.target) /\ template = run.template
      BY <1>1 DEF PlanningInv, RunInv
    <3>2. PICK target \in Periods : target = run.target
      BY <1>1, PlannedFacts
    <3>3. /\ template.kind # "static" /\ run.plan.to >= Least(target, source.last[Revision(template)])
          /\ ~IsEmpty(run.plan.periods) => run.plan.periods.to = run.plan.to
      BY <1>1, <3>1, <3>2, RewriteReaches DEF PlanningInv
    <3>4. held'.end = run.plan.to /\ held'.version = template.version
      BY <1>2, <1>5, <3>1, <3>3 DEF Stamped
    <3>5. held'.end >= Least(target, source'.last[Revision(template')])
      BY <1>1, <3>3, <3>4
    <3>6. template'.kind = "temporal" \/ (template'.kind = "release" /\ ~NewRelease')
      BY <1>1, <3>3, <3>4 DEF NewRelease, PlanningInv, CoverageInv, Templates, Kinds
    <3>7. PlanFor(target)'.action = "no_op"
      BY <2>3, <3>5, <3>6, NothingLeft
    <3> QED BY <2>1, <3>2, <3>7
  <2>6. RunInv'
    BY <2>1, <2>5 DEF RunInv, UpToDateIsCurrent
  <2> QED BY <2>1, <2>3, <2>4, <2>6 DEF PlanningInv
<1> QED BY <1>4, <1>5, <1>6 DEF Rematerialize, SyncFails

\* What goes on meanwhile leaves the plan, and notes that it is not alone or not fresh.
LEMMA NotedKeeps ==
    ASSUME PlanningInv, NEW field \in {"fresh", "alone"}, Note(field)
    PROVE  \/ run' = NoRun
           \/ /\ run.at = "planned" /\ run' \in Runs /\ run'.at = "planned" /\ run'.plan = run.plan /\ run'.target = run.target
              /\ run'.template = run.template /\ run'.before = run.before
              /\ field = "fresh" => ~run'.fresh /\ run'.alone = run.alone
              /\ field = "alone" => ~run'.alone /\ run'.fresh = run.fresh
<1>1. CASE run.at # "planned"
  BY <1>1 DEF Note
<1>2. CASE run.at = "planned"
  <2>1. run \in Runs
    BY <1>2, PlannedFacts
  <2>2. CASE field = "fresh"
    <3>1. run' = [run EXCEPT !.fresh = FALSE]
      BY <1>2, <2>2 DEF Note
    <3> QED BY <1>2, <2>1, <2>2, <3>1 DEF Runs
  <2>3. CASE field = "alone"
    <3>1. run' = [run EXCEPT !.alone = FALSE]
      BY <1>2, <2>3 DEF Note
    <3> QED BY <1>2, <2>1, <2>3, <3>1 DEF Runs
  <2> QED BY <2>2, <2>3
<1> QED BY <1>1, <1>2

LEMMA IdleAnswers == ASSUME run' = NoRun PROVE RunInv'
  BY DEF NoRun, RunInv, CompletedSettles, UpToDateIsCurrent

LEMMA SourceMovesKeeps == ASSUME PlanningInv, SourceMoves PROVE PlanningInv'
<1>1. UNCHANGED <<held, template>> /\ left' = [left EXCEPT !.changes = @ - 1] /\ left.changes > 0 /\ Note("fresh")
  BY DEF SourceMoves, Changes
<1>2. /\ run' = NoRun \/ /\ run.at = "planned" /\ run' \in Runs /\ run'.at = "planned" /\ run'.plan = run.plan
                         /\ run'.template = run.template /\ run'.before = run.before
                         /\ ~run'.fresh /\ run'.alone = run.alone
  BY <1>1, NotedKeeps
<1>3. source \in Sources /\ MaxPeriod \in Nat /\ left \in [changes : Nat, ingests : Nat]
  BY PlanAssumption DEF PlanningInv, CoverageInv
<1>4. source' \in Sources /\ \A v \in Releases : source.last[v] \in Nat /\ source'.last[v] >= source.last[v]
  <2>1. source.first \in 1..MaxPeriod /\ source.last \in [Releases -> 0..MaxPeriod]
    BY <1>3 DEF Sources, Periods
  <2>2. ASSUME NEW v \in Releases, source.last[v] < MaxPeriod, source' = [source EXCEPT !.last[v] = @ + 1]
        PROVE  source' \in Sources /\ source'.last = [source.last EXCEPT ![v] = @ + 1]
    <3>1. [source.last EXCEPT ![v] = @ + 1] \in [Releases -> 0..MaxPeriod]
      BY <1>3, <2>1, <2>2
    <3> QED BY <1>3, <2>2, <3>1 DEF Sources
  <2>3. CASE \E v \in Releases : source.last[v] < MaxPeriod /\ source' = [source EXCEPT !.last[v] = @ + 1]
    <3>1. PICK v \in Releases : source.last[v] < MaxPeriod /\ source' = [source EXCEPT !.last[v] = @ + 1]
      BY <2>3
    <3>2. source' \in Sources /\ source'.last = [source.last EXCEPT ![v] = @ + 1]
      BY <2>2, <3>1
    <3> QED BY <1>3, <2>1, <3>2
  <2>4. CASE source.first < MaxPeriod /\ source' = [source EXCEPT !.first = @ + 1]
    <3>1. source.first + 1 \in Periods
      BY <1>3, <2>1, <2>4 DEF Periods
    <3>2. source' \in Sources /\ source'.last = source.last
      BY <1>3, <2>4, <3>1 DEF Sources
    <3> QED BY <1>3, <2>1, <3>2
  <2> QED BY <2>3, <2>4 DEF SourceMoves
<1>5. CoverageInv'
  <2>1. left' \in [changes : Nat, ingests : Nat]
    BY <1>1, <1>3
  <2> QED BY <1>1, <1>2, <1>4, <2>1 DEF PlanningInv, CoverageInv
<1>6. CASE run' = NoRun
  BY <1>5, <1>6, IdleAnswers DEF PlanningInv
<1>7. CASE /\ run.at = "planned" /\ run' \in Runs /\ run'.at = "planned" /\ run'.plan = run.plan
           /\ run'.template = run.template /\ run'.before = run.before
           /\ ~run'.fresh /\ run'.alone = run.alone
  <2>1. Feasible(run.plan, run.template, run.before)'
    <3>1. Revision(run.template) \in Releases
      BY <1>7, PlannedFacts DEF Revision, Templates, Releases, Unknown
    <3>2. /\ source.last[Revision(run.template)] \in Nat /\ source'.last[Revision(run.template)] \in Nat
          /\ source'.last[Revision(run.template)] >= source.last[Revision(run.template)]
      BY <1>3, <1>4, <3>1 DEF Sources
    <3>3. run.plan.action = "rematerialize" => run.plan.to \in Nat
      BY <1>7, PlannedFacts DEF Orders
    <3>4. Feasible(run.plan, run.template, run.before)
      BY <1>7, PlannedFacts
    <3>5. run.plan.action = "rematerialize" => run.plan.to <= source'.last[Revision(run.template)]
      BY <3>2, <3>3, <3>4 DEF Feasible
    <3> QED BY <1>7, <3>4, <3>5 DEF Feasible
  <2>2. WellRecorded(run.before) /\ Versioned(run.template) /\ (run.before.icechunk => held.icechunk)
        /\ (run.alone => held = run.before)
    BY <1>7 DEF PlanningInv, RunInv
  <2> QED BY <1>1, <1>5, <1>7, <2>1, <2>2 DEF PlanningInv, RunInv, CompletedSettles, UpToDateIsCurrent
<1> QED BY <1>2, <1>6, <1>7

LEMMA DeclareKeeps == ASSUME PlanningInv, Declare PROVE PlanningInv'
<1>1. /\ UNCHANGED <<held, source>> /\ left' = [left EXCEPT !.changes = @ - 1] /\ left.changes > 0 /\ Note("fresh")
      /\ template.kind = "release" /\ template.version < 2 /\ template' = [template EXCEPT !.version = @ + 1]
  BY DEF Declare, Changes
<1>2. /\ run' = NoRun \/ /\ run.at = "planned" /\ run' \in Runs /\ run'.at = "planned" /\ run'.plan = run.plan
                         /\ run'.template = run.template /\ run'.before = run.before
                         /\ ~run'.fresh /\ run'.alone = run.alone
  BY <1>1, NotedKeeps
<1>3. template' \in Templates /\ Versioned(template')
  <2>1. template \in Templates /\ template.version + 1 \in 0..2
    BY <1>1 DEF PlanningInv, CoverageInv, Templates
  <2> QED BY <1>1, <2>1 DEF Templates, Versioned
<1>4. CoverageInv'
  <2>1. left' \in [changes : Nat, ingests : Nat]
    BY <1>1 DEF PlanningInv, CoverageInv
  <2> QED BY <1>1, <1>2, <1>3, <2>1 DEF PlanningInv, CoverageInv
<1>5. CASE run' = NoRun
  BY <1>4, <1>5, IdleAnswers DEF PlanningInv
<1>6. CASE /\ run.at = "planned" /\ run' \in Runs /\ run'.at = "planned" /\ run'.plan = run.plan
           /\ run'.template = run.template /\ run'.before = run.before
           /\ ~run'.fresh /\ run'.alone = run.alone
  <2>1. Feasible(run.plan, run.template, run.before)'
    BY <1>1, <1>6, PlannedFacts DEF Feasible
  <2>2. WellRecorded(run.before) /\ Versioned(run.template) /\ (run.before.icechunk => held.icechunk)
        /\ (run.alone => held = run.before)
    BY <1>6 DEF PlanningInv, RunInv
  <2> QED BY <1>1, <1>4, <1>6, <2>1, <2>2 DEF PlanningInv, RunInv, CompletedSettles, UpToDateIsCurrent
<1> QED BY <1>2, <1>5, <1>6

LEMMA IngestKeeps == ASSUME PlanningInv, Ingest PROVE PlanningInv' /\ held'.end >= held.end
<1>1. /\ UNCHANGED <<template, source>> /\ left' = [left EXCEPT !.ingests = @ - 1] /\ left.ingests > 0 /\ Note("alone")
      /\ held.icechunk /\ held.end < source.last[Revision(template)]
      /\ \/ held' = [held EXCEPT !.end = @ + 1, !.recorded = held.end + 1, !.version = template.version,
                                 !.mixed = @ \/ held.version # template.version]
         \/ held' = [held EXCEPT !.end = @ + 1, !.mixed = @ \/ held.version # template.version]
  BY DEF Ingest, Other
<1>2. /\ run' = NoRun \/ /\ run.at = "planned" /\ run' \in Runs /\ run'.at = "planned" /\ run'.plan = run.plan
                         /\ run'.template = run.template /\ run'.before = run.before
                         /\ ~run'.alone /\ run'.fresh = run.fresh
  BY <1>1, NotedKeeps
<1>3. held' \in Coverages /\ WellRecorded(held') /\ held'.end >= held.end /\ held'.icechunk
  <2>1. /\ held \in Coverages /\ WellRecorded(held) /\ template.version \in 0..2 /\ held.end \in 1..MaxPeriod
        /\ held.recorded \in 1..MaxPeriod /\ MaxPeriod \in Nat /\ held.mixed \in BOOLEAN
    BY PlanAssumption DEF PlanningInv, CoverageInv, Coverages, Templates, Periods
  <2>2. source.last[Revision(template)] \in 0..MaxPeriod
    BY AvailableFacts DEF PlanningInv, CoverageInv
  <2>3. held.end + 1 \in Periods
    BY <1>1, <2>1, <2>2 DEF Periods
  <2> DEFINE mixed == held.mixed \/ held.version # template.version
  <2>4. mixed \in BOOLEAN
    OBVIOUS
  <2>5. CASE held' = [held EXCEPT !.end = @ + 1, !.recorded = held.end + 1, !.version = template.version, !.mixed = mixed]
    <3> HIDE DEF mixed
    <3>1. /\ held' \in Coverages /\ held'.end = held.end + 1 /\ held'.recorded = held.end + 1
          /\ held'.icechunk = held.icechunk
      BY <2>1, <2>3, <2>4, <2>5 DEF Coverages
    <3> QED BY <1>1, <2>1, <3>1 DEF WellRecorded
  <2>6. CASE held' = [held EXCEPT !.end = @ + 1, !.mixed = mixed]
    <3> HIDE DEF mixed
    <3>1. /\ held' \in Coverages /\ held'.end = held.end + 1 /\ held'.recorded = held.recorded
          /\ held'.icechunk = held.icechunk
      BY <2>1, <2>3, <2>4, <2>6 DEF Coverages
    <3> QED BY <1>1, <2>1, <3>1 DEF WellRecorded
  <2> QED BY <1>1, <2>5, <2>6
<1>4. CoverageInv'
  <2>1. left' \in [changes : Nat, ingests : Nat]
    BY <1>1 DEF PlanningInv, CoverageInv
  <2> QED BY <1>1, <1>2, <1>3, <2>1 DEF PlanningInv, CoverageInv
<1>5. CASE run' = NoRun
  BY <1>3, <1>4, <1>5, IdleAnswers DEF PlanningInv
<1>6. CASE /\ run.at = "planned" /\ run' \in Runs /\ run'.at = "planned" /\ run'.plan = run.plan
           /\ run'.template = run.template /\ run'.before = run.before
           /\ ~run'.alone /\ run'.fresh = run.fresh
  <2>1. Feasible(run.plan, run.template, run.before)'
    BY <1>1, <1>6, PlannedFacts DEF Feasible
  <2>2. WellRecorded(run.before) /\ Versioned(run.template) /\ (run.fresh => template = run.template)
    BY <1>6 DEF PlanningInv, RunInv
  <2> QED BY <1>1, <1>3, <1>4, <1>6, <2>1, <2>2 DEF PlanningInv, RunInv, CompletedSettles, UpToDateIsCurrent
<1> QED BY <1>2, <1>5, <1>6

LEMMA PlanStutters == ASSUME PlanningInv, UNCHANGED planVars PROVE PlanningInv'
<1>1. UNCHANGED <<held, template, source, run, left>>
  BY DEF planVars
<1>2. CoverageInv'
  BY <1>1 DEF PlanningInv, CoverageInv
<1>3. Feasible(run.plan, run.template, run.before)' = Feasible(run.plan, run.template, run.before)
  BY <1>1 DEF Feasible
<1>4. PlanFor(run.target)' = PlanFor(run.target)
  BY <1>1 DEF PlanFor, PlanTemporal, PlanRelease, PlanPeriods, NewRelease, Available, CurrentEnd, Covers
<1>5. IsEmpty(Available(template, held.end + 1, run.target))' = IsEmpty(Available(template, held.end + 1, run.target))
  BY <1>1 DEF Available
<1>6. RunInv'
  BY <1>1, <1>3, <1>4, <1>5 DEF PlanningInv, RunInv, CompletedSettles, UpToDateIsCurrent
<1> QED BY <1>2, <1>6 DEF PlanningInv

LEMMA PlanNextInv == PlanningInv /\ [PlanNext]_planVars => PlanningInv'
  BY PlanStutters, PlanKeeps, SkipKeeps, AppendKeeps, RematerializeKeeps, SourceMovesKeeps, DeclareKeeps, IngestKeeps
  DEF PlanNext

\* Only what carries a plan out, or comes in between, changes the store; of a plan for a
\* release that is a rewrite, which neither refuses it nor changes the store if it fails.
LEMMA CoverageStep ==
    PlanningInv /\ [PlanNext]_planVars => (run.at = "planned" /\ (run.alone \/ run.plan.action = "append") => held'.end >= held.end)
<1> SUFFICES ASSUME PlanningInv, [PlanNext]_planVars, run.at = "planned", run.alone \/ run.plan.action = "append"
             PROVE  held'.end >= held.end
  OBVIOUS
<1>1. held.end \in Nat
  BY EndFacts DEF PlanningInv
<1>2. held' = held => held'.end >= held.end
  BY <1>1
<1>3. Rematerialize => run.alone
  BY DEF Rematerialize
<1> QED BY <1>2, <1>3, AppendKeeps, RematerializeKeeps, IngestKeeps
        DEF PlanNext, Plan, Skip, SourceMoves, Declare, planVars

LEMMA ReleaseStep ==
    PlanningInv /\ [PlanNext]_planVars =>
        (run.at = "planned" /\ run.template.version # Unknown /\ run.template.version # run.before.version
            => run'.at # "refused" /\ (run'.at = "failed" => held' = held))
<1> SUFFICES ASSUME PlanningInv, [PlanNext]_planVars, run.at = "planned", run.template.version # Unknown,
                    run.template.version # run.before.version
             PROVE  run'.at # "refused" /\ (run'.at = "failed" => held' = held)
  OBVIOUS
<1>1. CASE UNCHANGED planVars \/ Plan
  BY <1>1 DEF planVars, Plan
<1>2. CASE Skip
  <2> DEFINE status == Status(run.plan.reason)
  <2>1. status \in {"up_to_date", "not_syncable", "waiting_for_source"} /\ Answered(status)
    BY <1>2 DEF Skip, Status
  <2> HIDE DEF status
  <2>2. run'.at = status
    BY <2>1, AnsweredRun
  <2> QED BY <2>1, <2>2
<1>3. CASE Append
  BY <1>3, PlannedFacts DEF Append, Feasible, Versioned
<1>4. CASE Rematerialize
  BY <1>4, RematerializeKeeps
<1>5. CASE SourceMoves \/ Declare \/ Ingest
  <2>1. PICK field \in {"fresh", "alone"} : Note(field)
    BY <1>5 DEF SourceMoves, Declare, Ingest
  <2> QED BY <2>1, NotedKeeps DEF NoRun
<1> QED BY <1>1, <1>2, <1>3, <1>4, <1>5 DEF PlanNext

(* A sync that ends alone shortens nothing, and an append never does; it     *)
(* leaves nothing of what it was asked for undone and says up to date of     *)
(* what is; the rewrite for a new release is never refused, and if a fetch   *)
(* of it fails the dataset is as it was (sync_engine.py plan_sync, run_sync).*)
THEOREM PlansAreKept == PlanSpec => PlansHold
<1>1. PlanningInv => CompletedSettles /\ UpToDateIsCurrent
  BY DEF PlanningInv, RunInv
<1> DEFINE Keeps    == run.at = "planned" /\ (run.alone \/ run.plan.action = "append") => held'.end >= held.end
           Executes == run.at = "planned" /\ run.template.version # Unknown /\ run.template.version # run.before.version
                          => run'.at # "refused" /\ (run'.at = "failed" => held' = held)
<1>2. PlanningInv /\ [PlanNext]_planVars => Keeps /\ Executes
  BY CoverageStep, ReleaseStep
<1>3. PlansHold <=> [](CompletedSettles /\ UpToDateIsCurrent) /\ [][Keeps]_planVars /\ [][Executes]_planVars
  BY DEF PlansHold, SyncKeepsCoverage, ReleasePlansExecute
<1> HIDE DEF Keeps, Executes
<1> QED BY <1>1, <1>2, <1>3, PlanInitInv, PlanNextInv, PTL DEF PlanSpec

LEMMA PlanTypesOf == PlanningInv => PlanTypeOK
  BY DEF PlanningInv, CoverageInv, PlanTypeOK, Coverages, Templates, Sources, WellRecorded

(* Every variable of the schedules, the collections and the syncs has its     *)
(* type, whatever runs behind the requests.                                   *)
THEOREM BackgroundTypes == MCSpec => []MCTypeOK
<1> DEFINE Inv == SchedInv /\ FeatInv /\ PlanningInv
<1>1. MCInit => Inv
  BY SchedInitInv, FeatInitInv, PlanInitInv DEF MCInit
<1>2. Inv /\ [MCNext]_mcVars => Inv'
  <2> SUFFICES ASSUME Inv, [MCNext]_mcVars PROVE Inv'
    OBVIOUS
  <2>1. [SchedNext]_schedVars /\ [FeatNext]_featVars /\ [PlanNext]_planVars
    <3>1. CASE UNCHANGED mcVars
      BY <3>1 DEF mcVars
    <3>2. CASE MCNext
      BY <3>2 DEF MCNext
    <3> QED BY <3>1, <3>2
  <2> QED BY <2>1, SchedStep, FeatStep, PlanNextInv
<1>3. Inv => MCTypeOK
  BY SchedTypesOf, FeatTypesOf, PlanTypesOf DEF MCTypeOK
<1> HIDE DEF Inv
<1> QED BY <1>1, <1>2, <1>3, PTL DEF MCSpec

=============================================================================
