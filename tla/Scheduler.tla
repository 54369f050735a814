------------------------------ MODULE Scheduler ------------------------------
(***************************************************************************)
(* The sync schedules: the store every process writes (scheduler/store.py),*)
(* the list and the clock of the process that runs it (scheduler/          *)
(* service.py), the requests that change a schedule and reload             *)
(* (scheduler/routes.py), and the checks the clock fires (dispatcher.py).  *)
(*                                                                         *)
(* One process runs the clock, as the code asks; the others only write the *)
(* store.  A revision stands for the store's bytes, so for its stamp.      *)
(***************************************************************************)
EXTENDS Naturals, FiniteSets

CONSTANTS
    Datasets,
    None,         \* no schedule
    Settings,     \* what a schedule may say: its cron, publication and attempts
    MaxWrites,    \* bound: changes of the store
    MaxFaults,    \* bound: hand edits, refusals of the clock, failed loads, targets lost
    MaxStarts     \* bound: starts of the process

ASSUME SchedAssumption ==
    /\ IsFiniteSet(Datasets)
    /\ MaxWrites \in Nat /\ MaxFaults \in Nat /\ MaxStarts \in Nat \ {0}

VARIABLES
    store,      \* schedules.json: its revision, whether it parses, the schedule of each dataset
    resolves,   \* the datasets a clock can sync
    service,    \* the process: what is listed, what should run, the stamp, the error,
                \* and (for a property) the schedules whose jobs nobody knows
    clock,      \* the jobs of APScheduler
    reload,     \* the reload that holds the lock
    requests,   \* changes whose request is not answered: revision, and how far it is
    syncs,      \* per dataset: the check under way and the jobs that write it
    spent       \* bounds: writes, faults, starts

schedVars == <<store, resolves, service, clock, reload, requests, syncs, spent>>

Active == [setting : Settings, enabled : {TRUE}]
Entry  == [setting : Settings, enabled : BOOLEAN]
NoReload   == [at |-> "idle"]
Empty  == [d \in Datasets |-> None]
Down   == [up |-> FALSE, rev |-> 0, listed |-> Empty, runnable |-> Empty, stamp |-> 0,
           error |-> "none", refused |-> 0, astray |-> {}]

Listed(table) == {d \in Datasets : table[d] # None}
\* Revision 0 is no file; the store a process finds first is at revision 1.
Broken == MaxWrites + 2
Stamp  == IF store.readable THEN store.rev ELSE Broken

SchedInit ==
    /\ store \in [rev : {1}, readable : {TRUE}, of : [Datasets -> Entry \cup {None}]]
    /\ resolves = Datasets
    /\ service = Down /\ clock = Empty /\ reload = NoReload /\ requests = {}
    /\ syncs = [d \in Datasets |-> [check |-> "none", scheduled |-> 0, retrying |-> FALSE, manual |-> FALSE]]
    /\ spent = [writes |-> 0, faults |-> 0, starts |-> 0]

Fault == spent.faults < MaxFaults /\ spent' = [spent EXCEPT !.faults = @ + 1]

(***************************************************************************)
(* The store.                                                              *)
(***************************************************************************)
\* Save, pause or resume (an entry), delete (none); an unreadable store takes none.
Change(d, entry) ==
    /\ store.readable /\ store.of[d] # entry
    /\ spent.writes < MaxWrites /\ spent' = [spent EXCEPT !.writes = @ + 1]
    /\ entry # None => d \in resolves \/ (store.of[d] # None /\ store.of[d].setting = entry.setting)
    /\ store' = [store EXCEPT !.rev = @ + 1, !.of[d] = entry]

\* Another process of the data directory answers a request.
WriteElsewhere ==
    /\ \E d \in Datasets, entry \in Entry \cup {None} : Change(d, entry)
    /\ UNCHANGED <<resolves, service, clock, reload, requests, syncs>>

\* This one does: the request then reloads, and answers by the error it finds.
WriteHere ==
    /\ service.up
    /\ \E d \in Datasets, entry \in Entry \cup {None} : Change(d, entry)
    /\ requests' = requests \cup {[rev |-> store.rev + 1, at |-> "reload"]}
    /\ UNCHANGED <<resolves, service, clock, reload, syncs>>

\* A hand edit that does not parse, and its repair: the bytes are those it was made from.
HandEdit ==
    /\ IF store.readable THEN Fault ELSE UNCHANGED spent
    /\ store' = [store EXCEPT !.readable = ~@]
    /\ UNCHANGED <<resolves, service, clock, reload, requests, syncs>>

\* A template goes or comes back: no reload hears of it.
TargetChanges ==
    /\ Fault
    /\ \E d \in Datasets : resolves' = IF d \in resolves THEN resolves \ {d} ELSE resolves \cup {d}
    /\ UNCHANGED <<store, service, clock, reload, requests, syncs>>

(***************************************************************************)
(* The process.                                                            *)
(***************************************************************************)
Runnable(table) ==
    [d \in Datasets |-> IF table[d] \in Active /\ d \in resolves THEN table[d] ELSE None]

\* A broken store leaves the clock without schedules and the stamp without value.
Start ==
    /\ ~service.up /\ spent.starts < MaxStarts
    /\ LET table == IF store.readable THEN store.of ELSE Empty IN
       /\ service' = [Down EXCEPT !.up = TRUE, !.listed = table, !.runnable = Runnable(table),
                                  !.rev = IF store.readable THEN Stamp ELSE 0,
                                  !.stamp = IF store.readable THEN Stamp ELSE 0,
                                  !.error = IF store.readable THEN "none" ELSE "kept"]
       /\ clock' = Runnable(table)
    /\ spent' = [spent EXCEPT !.starts = @ + 1]
    /\ UNCHANGED <<store, resolves, reload, requests, syncs>>

\* A stop or a crash: the jobs submitted are not the clock's.
Stop ==
    /\ service.up /\ spent.starts < MaxStarts
    /\ service' = Down /\ clock' = Empty /\ reload' = NoReload /\ requests' = {}
    /\ syncs' = [d \in Datasets |-> [syncs[d] EXCEPT !.check = "none"]]
    /\ UNCHANGED <<store, resolves, spent>>

\* The lock is taken: by a request, or by the watch when the stamp is not the one
\* it knows.  The stamp is read before the store is.
Watches == Stamp # service.stamp

BeginReload ==
    /\ service.up /\ reload = NoReload
    /\ \/ \E q \in requests : q.at = "reload"
             /\ requests' = (requests \ {q}) \cup {[q EXCEPT !.at = "reloading"]}
       \/ Watches /\ UNCHANGED requests
    /\ reload' = [at |-> "stamped", stamp |-> Stamp]
    /\ UNCHANGED <<store, resolves, service, clock, syncs, spent>>

\* Mutant: a request takes the lock and never leaves it.
ReleasedNever == requests

\* A request answers once its reload is over.
Released == {IF q.at = "reloading" THEN [q EXCEPT !.at = "answer"] ELSE q : q \in requests}

LoadStore ==
    /\ reload.at = "stamped" /\ store.readable
    /\ reload' = [at |-> "planned", stamp |-> reload.stamp, rev |-> store.rev,
                  listed |-> store.of, runnable |-> Runnable(store.of)]
    /\ UNCHANGED <<store, resolves, service, clock, requests, syncs, spent>>

\* The previous list and its stamp stay: the next watch tries again.
LoadFails ==
    /\ reload.at = "stamped"
    /\ IF store.readable THEN Fault ELSE UNCHANGED spent
    /\ service' = [service EXCEPT !.error = "kept"]
    /\ reload' = NoReload /\ requests' = Released
    /\ UNCHANGED <<store, resolves, clock, syncs>>

\* Mutant: only the schedules listed before are looked for on the clock.
KnownBefore == Listed(service.listed)

Known == Listed(service.listed) \cup Listed(reload.listed)

\* The clock with exactly the jobs of a plan, among those known.
Applied(plan) ==
    [d \in Datasets |-> IF plan[d] # None THEN plan[d]
                        ELSE IF d \in Known THEN None ELSE clock[d]]

\* The clock when it refused a job on the way: jobs are added first, then removed.
PartlyApplied(plan) ==
    {[d \in Datasets |-> IF d \in S THEN plan[d] ELSE clock[d]] : S \in SUBSET Listed(plan)}
    \cup {[d \in Datasets |-> IF d \in S THEN None ELSE IF plan[d] # None THEN plan[d] ELSE clock[d]] :
             S \in SUBSET (Known \ Listed(plan))}

\* Mutant: the stamp of the store once the clock has its jobs.
KnownStampLate == Stamp

KnownStamp == reload.stamp

Apply ==
    /\ reload.at = "planned"
    /\ clock' = Applied(reload.runnable)
    /\ service' = [service EXCEPT !.rev = reload.rev, !.listed = reload.listed,
                                  !.runnable = reload.runnable, !.stamp = KnownStamp,
                                  !.error = "none", !.refused = 0, !.astray = @ \ Known]
    /\ reload' = NoReload /\ requests' = Released
    /\ UNCHANGED <<store, resolves, syncs, spent>>

ClockRefuses ==
    /\ reload.at = "planned" /\ Fault
    /\ clock' \in PartlyApplied(reload.runnable)
    /\ reload' = [reload EXCEPT !.at = "refused"]
    /\ UNCHANGED <<store, resolves, service, requests, syncs>>

\* Mutant: the error is kept for failed loads alone.
RefusedSilently(error) ==
    [service EXCEPT !.stamp = reload.stamp, !.error = "none", !.refused = reload.rev]

Refused(error) ==
    [service EXCEPT !.stamp = reload.stamp, !.error = error, !.refused = reload.rev]

\* What the clock was left with when it refused the previous schedules as well stays
\* astray until a reload that knows of the schedule, listed now or before, succeeds.
Restore ==
    /\ reload.at = "refused"
    /\ \/ /\ clock' = Applied(service.runnable) /\ UNCHANGED spent
          /\ service' = [Refused("restored") EXCEPT !.astray = @ \ Known]
       \/ /\ Fault /\ clock' \in PartlyApplied(service.runnable)
          /\ service' = [Refused("unknown") EXCEPT !.astray = @ \cup Known]
    /\ reload' = NoReload /\ requests' = Released
    /\ UNCHANGED <<store, resolves, syncs>>

\* 200, 201 or 204 without an error, 409 (stored, not applied) with one.  (The
\* status looks for a change once more: a reload of the watch, as in BeginReload.)
Answer ==
    /\ \E q \in requests : q.at = "answer" /\ requests' = requests \ {q}
    /\ UNCHANGED <<store, resolves, service, clock, reload, syncs, spent>>

(***************************************************************************)
(* Checks.                                                                 *)
(***************************************************************************)
\* Mutant: a job that waits for its next attempt does not count.
WritersNow(d) == (syncs[d].scheduled > 0 /\ ~syncs[d].retrying) \/ syncs[d].manual

Writers(d) == syncs[d].scheduled > 0 \/ syncs[d].manual

\* The clock runs one check of a schedule at a time.
Fire(d) ==
    /\ service.up /\ clock[d] # None /\ syncs[d].check = "none" /\ ~Writers(d)
    /\ syncs' = [syncs EXCEPT ![d].check = "clear"]

Submit(d) == syncs[d].check = "clear" /\ syncs' = [syncs EXCEPT ![d].check = "none", ![d].scheduled = @ + 1]

\* An operator's ingest or sync, and the fate of jobs.
SubmitManual(d) == ~syncs[d].manual /\ syncs' = [syncs EXCEPT ![d].manual = TRUE]
Retry(d)        == syncs[d].scheduled > 0 /\ syncs' = [syncs EXCEPT ![d].retrying = ~@]
EndScheduled(d) == syncs[d].scheduled > 0
                   /\ syncs' = [syncs EXCEPT ![d].scheduled = @ - 1, ![d].retrying = FALSE]
EndManual(d)    == syncs[d].manual /\ syncs' = [syncs EXCEPT ![d].manual = FALSE]

Checks ==
    /\ \E d \in Datasets :
          Fire(d) \/ Submit(d) \/ SubmitManual(d) \/ Retry(d) \/ EndScheduled(d) \/ EndManual(d)
    /\ UNCHANGED <<store, resolves, service, clock, reload, requests, spent>>

Reloading == BeginReload \/ LoadStore \/ LoadFails \/ Apply \/ ClockRefuses \/ Restore \/ Answer

SchedNext ==
    \/ WriteElsewhere \/ WriteHere \/ HandEdit \/ TargetChanges
    \/ Start \/ Stop \/ Reloading \/ Checks

SchedSpec == SchedInit /\ [][SchedNext]_schedVars

\* The watch fires every half minute, and a reload that has begun goes on.
SchedFairness ==
    WF_schedVars(BeginReload \/ LoadStore \/ (LoadFails /\ ~store.readable) \/ Apply \/ Restore \/ Answer)

(***************************************************************************)
(* Properties.                                                             *)
(***************************************************************************)
SchedTypeOK ==
    /\ store \in [rev : 1..(MaxWrites + 1), readable : BOOLEAN, of : [Datasets -> Entry \cup {None}]]
    /\ resolves \subseteq Datasets
    /\ service \in [up : BOOLEAN, rev : 0..(MaxWrites + 1), listed : [Datasets -> Entry \cup {None}],
                    runnable : [Datasets -> Active \cup {None}], stamp : 0..Broken,
                    error : {"none", "kept", "restored", "unknown"},
                    refused : 0..(MaxWrites + 1), astray : SUBSET Datasets]
    /\ clock \in [Datasets -> Active \cup {None}]
    /\ \A q \in requests : q.rev \in 2..store.rev /\ q.at \in {"reload", "reloading", "answer"}
    /\ Cardinality({q \in requests : q.at = "reloading"}) <= IF reload = NoReload THEN 0 ELSE 1
    /\ ~service.up => clock = Empty /\ reload = NoReload /\ requests = {}

(* The clock runs what the status shows of a schedule, whatever its reloads *)
(* met on the way.  Excepted is a schedule that was known when the clock     *)
(* refused the new schedules and the previous ones too, and only until a     *)
(* reload that knows of it succeeds.  (One deleted before that reload is not *)
(* known to it: its job fires on under a status without an error, though     *)
(* service.py:261-264 has the list and the clock describe one set.)          *)
StatusIsTheClock ==
    reload = NoReload => \A d \in Datasets \ service.astray : clock[d] = service.runnable[d]

(* A change that is answered without an error is in force, or a later one   *)
(* of the store is, however many reloads and refusals there were meanwhile. *)
AnsweredIsApplied ==
    [][\A q \in requests : q.at = "answer" /\ q \notin requests' /\ service.error = "none" /\ service'.up
          => service.rev >= q.rev]_schedVars

(* A dataset never has two scheduled syncs that are not finished.           *)
OneScheduledSync == \A d \in Datasets : syncs[d].scheduled <= 1

(* What any process has stored reaches the clock, or is known as refused by *)
(* it: a change in the middle of a load is not taken for the loaded one.    *)
ClockFollowsStore ==
    \A r \in 1..(MaxWrites + 1) :
        (service.up /\ store.rev = r /\ store.readable) ~>
            \/ ~service.up \/ store.rev # r \/ ~store.readable
            \/ service.rev = r /\ service.listed = store.of
            \/ service.refused = r

(* A change is in force in the end, and whoever is told so is told right. *)
ChangesReachTheClock == AnsweredIsApplied /\ ClockFollowsStore
=============================================================================
