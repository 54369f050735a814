-------------------------- MODULE WorkflowTriggers --------------------------
(***************************************************************************)
(* Workflow triggers (automation/service.py): each dataset update starts   *)
(* one openEO job of every trigger on that dataset, live or by the replay  *)
(* at startup.                                                             *)
(*                                                                         *)
(* The job's id is a function of the update and the trigger, so creating   *)
(* it again finds it, and starting it is a claim.  A trigger is activated  *)
(* the first time the process starts with it configured; the replay leaves *)
(* older updates alone unless the trigger asks for them.  The              *)
(* configuration is read once per start.                                   *)
(***************************************************************************)
EXTENDS EventLog

CONSTANTS
    Triggers,           \* ids of triggers that are ever configured
    OnUpdateOf,         \* the updates of the dataset a trigger watches
    ReplayExisting,     \* triggers with replay_existing
    MaxRefusals         \* bound: submissions that fail

ASSUME TriggerAssumption ==
    /\ OnUpdateOf \in [Triggers -> SUBSET Updates]
    /\ ReplayExisting \subseteq Triggers /\ MaxRefusals \in Nat /\ "replay" \notin Updates

VARIABLES
    configured,    \* the triggers of this start's configuration
    activation,    \* the activation file: trigger -> time, Never when it has none
    jobs,          \* of a trigger and an update: none, created, started
    claims,        \* history: times the job was claimed and enqueued
    submitting,    \* the submissions each consumer still has to make
    found,         \* its job found or created, not yet started
    refused,       \* history: submissions that failed in this process
    old            \* history: updates persisted before a trigger's first start

trig == <<configured, activation, jobs, claims, submitting, found, refused, old>>

Pairs     == Triggers \X Updates
Consumers == Updates \cup {"replay"}

TrigInit ==
    /\ configured = {} /\ activation = [t \in Triggers |-> Never]
    /\ jobs = [p \in Pairs |-> "none"] /\ claims = [p \in Pairs |-> 0]
    /\ submitting = [c \in Consumers |-> {}] /\ found = [c \in Consumers |-> {}]
    /\ refused = {} /\ old = [t \in Triggers |-> {}]

(* start: the configuration is read and new triggers are stamped, in a      *)
(* process that has recovered its native jobs and not yet set the consumers *)
(* (_lifespan); time has moved since the last update was stored.            *)
Activations(config) ==
    [t \in Triggers |-> IF t \in config /\ activation[t] = Never THEN clock + 1 ELSE activation[t]]

Activate(config) ==
    /\ clock' = clock + 1
    /\ configured' = config
    /\ activation' = Activations(config)
    /\ old' = [t \in Triggers |-> IF t \in config /\ activation[t] = Never THEN {u \in Persisted : hand[u] # "triggers"} ELSE old[t]]

\* Mutant: the boundary is not consulted.
IsBeforeActivationNever(t, u) == FALSE

\* A missing activation counts as before.
IsBeforeActivation(t, u) == activation[t] = Never \/ time[u] < activation[t]

\* consume: an event in the thread of its job; every trigger of its dataset.
ConsumeTriggers(u) ==
    /\ Listening /\ hand[u] = "triggers"
    /\ hand' = [hand EXCEPT ![u] = "submitting"]
    /\ submitting' = [submitting EXCEPT ![u] = {<<t, u>> : t \in {s \in configured : u \in OnUpdateOf[s]}}]
    /\ UNCHANGED <<clock, phase, starts, stage, created, time,
                   configured, activation, jobs, claims, found, refused, old>>

\* Then it is the pipelines' turn.
ConsumedTriggers(u) ==
    /\ phase # "down" /\ hand[u] = "submitting" /\ submitting[u] = {} /\ found[u] = {}
    /\ hand' = [hand EXCEPT ![u] = "pipelines"]
    /\ UNCHANGED <<clock, phase, starts, stage, created, time, trig>>

\* replay: the native records, then the openEO ones, each against the boundary.
Due(read) == {p \in configured \X read :
                 /\ p[2] \in OnUpdateOf[p[1]]
                 /\ p[1] \in ReplayExisting \/ ~IsBeforeActivation(p[1], p[2])}

Replay(read) ==
    /\ phase = "replaying"
    /\ submitting' = [submitting EXCEPT !["replay"] = @ \cup Due(read)]
    /\ UNCHANGED <<configured, activation, jobs, claims, found, refused, old>>

(* create_triggered_job: at most one job for an update and a trigger; or    *)
(* the submission fails, which is logged and leaves the next one alone.     *)
Submit(c, p) ==
    /\ phase # "down" /\ p \in submitting[c] /\ found[c] = {}
    /\ submitting' = [submitting EXCEPT ![c] = @ \ {p}]
    /\ \/ /\ jobs' = [jobs EXCEPT ![p] = IF @ = "none" THEN "created" ELSE @]
          /\ found' = [found EXCEPT ![c] = {p}]
          /\ UNCHANGED refused
       \/ /\ Cardinality(refused) < MaxRefusals
          /\ refused' = refused \cup {p}
          /\ UNCHANGED <<jobs, found>>
    /\ UNCHANGED <<log, configured, activation, claims, old>>

\* Mutant: a job found already claimed is enqueued all the same.
ClaimableAny(p) == jobs[p] \in {"created", "started"}

Claimable(p) == jobs[p] = "created"

(* start_triggered_job: the conditional transition, then the queue.         *)
StartTriggered(c, p) ==
    /\ phase # "down" /\ p \in found[c]
    /\ found' = [found EXCEPT ![c] = {}]
    /\ IF Claimable(p)
       THEN /\ jobs' = [jobs EXCEPT ![p] = "started"]
            /\ claims' = [claims EXCEPT ![p] = @ + 1]
       ELSE UNCHANGED <<jobs, claims>>
    /\ UNCHANGED <<log, configured, activation, submitting, refused, old>>

TrigCrash ==
    /\ submitting' = [c \in Consumers |-> {}] /\ found' = [c \in Consumers |-> {}]
    /\ refused' = {}
    /\ UNCHANGED <<configured, activation, jobs, claims, old>>

TrigStep ==
    \/ \E u \in Updates : ConsumeTriggers(u) \/ ConsumedTriggers(u)
    \/ \E c \in Consumers, p \in Pairs : Submit(c, p) \/ StartTriggered(c, p)

-----------------------------------------------------------------------------
TrigTypeOK ==
    /\ configured \subseteq Triggers /\ activation \in [Triggers -> 0..(MaxClock + MaxStarts)]
    /\ jobs \in [Pairs -> {"none", "created", "started"}]
    /\ \A c \in Consumers : submitting[c] \subseteq Pairs /\ Cardinality(found[c]) <= 1
    /\ refused \subseteq Pairs /\ old \in [Triggers -> SUBSET Updates]

(* A trigger's history is left alone: an update stored before the process   *)
(* first started with the trigger never gets a job of it, however often the *)
(* process restarts, unless the trigger replays existing updates.  An update*)
(* whose worker still owes it to the consumers at that start is live.       *)
HistoryLeftAlone ==
    \A t \in Triggers \ ReplayExisting : \A u \in old[t] : jobs[<<t, u>>] = "none"

(* An update's job is started once: the consumer, the replay and a second   *)
(* replay after a crash between its creation and its start find one job and *)
(* one of them claims it.                                                   *)
StartedOnce == \A p \in Pairs : claims[p] <= 1

(* Nobody misses an update: in a process that has finished its replay, each *)
(* stored update since a configured trigger's activation has its job        *)
(* started, is being submitted, or failed to be submitted in this process.  *)
NoUpdateMissed ==
    phase = "serving" =>
        \A t \in configured : \A u \in Persisted \cap OnUpdateOf[t] :
            \/ time[u] < activation[t]
            \/ jobs[<<t, u>>] = "started"
            \/ <<t, u>> \in refused
            \/ hand[u] = "triggers"
            \/ \E c \in Consumers : <<t, u>> \in submitting[c] \cup found[c]
=============================================================================
