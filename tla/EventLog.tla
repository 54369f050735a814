------------------------------ MODULE EventLog ------------------------------
(***************************************************************************)
(* The durable event log (jobs/events.py) and the life of the process that *)
(* writes and reads it (main.py _lifespan).                                *)
(*                                                                         *)
(* A dataset.updated event is stored with the job whose work it tells of.  *)
(* A native job takes its completion time first and writes later, still    *)
(* unfinished in the store meanwhile; an openEO job takes the time inside  *)
(* the write.  There is no cursor: a reader reads both stores, one after   *)
(* the other, while jobs go on writing them.                               *)
(*                                                                         *)
(* Time is a counter.  WriteDelay bounds how long an openEO job's write    *)
(* may take after its stamp; nothing bounds a native job's.                *)
(***************************************************************************)
EXTENDS Naturals, FiniteSets, Sequences

CONSTANTS
    Updates,       \* the updates of one behaviour, each the event of one job
    Native,        \* those whose job is native; the others are openEO's
    WriteDelay,    \* ticks an openEO job's write may take after its stamp
    MaxClock,      \* bound: time, startups aside
    MaxStarts      \* bound: process starts

Never == 0         \* no time: the clock starts at 1

ASSUME LogAssumption ==
    /\ Native \subseteq Updates
    /\ WriteDelay \in Nat /\ MaxClock \in Nat \ {Never} /\ MaxStarts \in Nat

VARIABLES
    clock,
    phase,         \* how far startup or shutdown is
    starts,        \* process starts so far (bound)
    stage,         \* of an update's job: none, open, stamped, persisted
    created,       \* the created_at of its job
    time,          \* the time its event carries
    hand           \* whose turn it is with an event given to the consumers

log == <<clock, phase, starts, stage, created, time, hand>>

Persisted == {u \in Updates : stage[u] = "persisted"}

\* The consumers are set from the end of recovery until shutdown begins.
Listening == phase \in {"listening", "replaying", "serving"}

LogInit ==
    /\ clock = 1 /\ phase = "down" /\ starts = 0
    /\ stage = [u \in Updates |-> "none"]
    /\ created = [u \in Updates |-> Never]
    /\ time = [u \in Updates |-> Never]
    /\ hand = [u \in Updates |-> "none"]

Tick ==
    /\ clock < MaxClock
    /\ \A u \in Updates \ Native : stage[u] = "stamped" => clock < time[u] + WriteDelay
    /\ clock' = clock + 1
    /\ UNCHANGED <<phase, starts, stage, created, time, hand>>

\* A job that will publish an update is accepted.
OpenJob(u) ==
    /\ phase = "serving" /\ stage[u] = "none"
    /\ stage' = [stage EXCEPT ![u] = "open"]
    /\ created' = [created EXCEPT ![u] = clock]
    /\ UNCHANGED <<clock, phase, starts, time, hand>>

\* Native jobs are recovered first, openEO jobs once the consumers are set.
MayRun(u) == phase \notin {"down"} /\ (phase = "recovering" => u \in Native)

\* _execute_job takes completed_at; _record_event takes its time in the write.
Stamp(u) ==
    /\ MayRun(u) /\ stage[u] = "open"
    /\ stage' = [stage EXCEPT ![u] = "stamped"]
    /\ time' = [time EXCEPT ![u] = clock]
    /\ UNCHANGED <<clock, phase, starts, created, hand>>

\* The write that stores the event; its worker owes it to the consumers.
Persist(u) ==
    /\ MayRun(u) /\ stage[u] = "stamped"
    /\ stage' = [stage EXCEPT ![u] = "persisted"]
    /\ hand' = [hand EXCEPT ![u] = "triggers"]
    /\ UNCHANGED <<clock, phase, starts, created, time>>

\* The worker finds no consumer set: the event waits in the log for the next start.
NotConsumed(u) ==
    /\ phase # "down" /\ ~Listening /\ hand[u] = "triggers"
    /\ hand' = [hand EXCEPT ![u] = "done"]
    /\ UNCHANGED <<clock, phase, starts, stage, created, time>>

\* Work not written is done again after the restart; events being consumed are dropped.
LogCrash ==
    /\ phase # "down" /\ starts < MaxStarts
    /\ phase' = "down"
    /\ stage' = [u \in Updates |-> IF stage[u] = "stamped" THEN "open" ELSE stage[u]]
    /\ hand' = [u \in Updates |-> IF hand[u] = "none" THEN "none" ELSE "done"]
    /\ UNCHANGED <<clock, starts, created, time>>

\* Shutdown unsets the consumers; running jobs are not waited for.
LogStop ==
    /\ phase = "serving" /\ starts < MaxStarts
    /\ phase' = "stopping"
    /\ UNCHANGED <<clock, starts, stage, created, time, hand>>

LogStart ==
    /\ phase = "down" /\ starts < MaxStarts
    /\ starts' = starts + 1 /\ phase' = "recovering"
    /\ UNCHANGED <<clock, stage, created, time, hand>>

(* read_event_log: the native records first, then the openEO ones.         *)
ReadNative == Persisted \cap Native
\* Mutant: only the native records, as before openEO jobs owned events.
ReadOpenEONone == {}

ReadOpenEO == Persisted \ Native

\* Mutant: unfinished jobs do not hold the bound back.
OpenSinceNow(bound) == bound

\* The earliest time an unseen event can carry: the oldest unfinished native job's creation.
Unfinished == {u \in Native : stage[u] \in {"open", "stamped"}}
OpenSince(bound) ==
    LET times == {created[u] : u \in Unfinished} \cup {bound}
    IN  CHOOSE t \in times : \A s \in times : t <= s
=============================================================================
