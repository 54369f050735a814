----------------------------- MODULE UpdateFlow -----------------------------
(***************************************************************************)
(* Workflow triggers and a pipeline on one event log, in one server        *)
(* process that is started, stopped, crashed and started again (main.py    *)
(* _lifespan): native jobs are recovered, the triggers are loaded, the     *)
(* consumers are set, the pipeline's startup pass runs, then the replay.   *)
(* Jobs go on finishing all the while.                                     *)
(***************************************************************************)
EXTENDS PipelineUpdates, WorkflowTriggers

CONSTANT Configs   \* the configurations the process may be started with

ASSUME FlowAssumption == Configs \subseteq SUBSET Triggers

vars == <<log, pipe, trig>>

Init == LogInit /\ PipeInit /\ TrigInit

Start == LogStart /\ UNCHANGED <<pipe, trig>>

\* automation_service.start, then both set_event_consumer calls.
Listen ==
    /\ phase = "recovering" /\ phase' = "listening"
    /\ \E config \in Configs : Activate(config)
    /\ UNCHANGED <<starts, stage, created, time, hand, jobs, claims, submitting, found, refused, pipe>>

\* pipeline_runner.reconcile has returned; replay reads the native records.
ReplayNative ==
    /\ phase = "listening" /\ pass.at = "done" /\ task[Startup] = Idle
    /\ phase' = "replaying"
    /\ submitting' = [submitting EXCEPT !["replay"] = Due(ReadNative)]
    /\ UNCHANGED <<clock, starts, stage, created, time, hand, pipe,
                   configured, activation, jobs, claims, found, refused, old>>

\* Then the openEO ones; the process serves once all are submitted.
ReplayOpenEO ==
    /\ pass.at = "done" /\ Replay(ReadOpenEO)
    /\ pass' = [at |-> "replayed"]
    /\ UNCHANGED <<log, record, task, edits, faults>>

Serve ==
    /\ phase = "replaying" /\ pass.at = "replayed"
    /\ submitting["replay"] = {} /\ found["replay"] = {}
    /\ phase' = "serving"
    /\ UNCHANGED <<clock, starts, stage, created, time, hand, pipe, trig>>

Stop == LogStop /\ UNCHANGED <<pipe, trig>>

Crash == LogCrash /\ PipeCrash /\ TrigCrash

JobsAndTime == (Tick \/ \E u \in Updates : OpenJob(u)) /\ UNCHANGED <<pipe, trig>>

JobsFinish == (\E u \in Updates : Stamp(u) \/ Persist(u) \/ NotConsumed(u)) /\ UNCHANGED <<pipe, trig>>

Operator == phase = "serving" /\ EditStep /\ UNCHANGED trig

Pipeline ==
    /\ DecideStep \/ PassStep \/ \E u \in Updates : Consume(u)
    /\ UNCHANGED trig

Automation == TrigStep /\ UNCHANGED pipe

Next ==
    \/ Start \/ Listen \/ ReplayNative \/ ReplayOpenEO \/ Serve \/ Stop \/ Crash
    \/ JobsAndTime \/ JobsFinish \/ Operator \/ Pipeline \/ Automation

Spec == Init /\ [][Next]_vars

(* A process that is down comes back (while starts remain), one that stops  *)
(* ends, startup goes on, and of the threads with something to do one moves *)
(* (what each has to do is bounded).  Time, new jobs, edits, stops and      *)
(* crashes need not happen; after the last start the process stays up.      *)
Fairness ==
    /\ WF_vars(Start \/ Listen \/ ReplayNative \/ ReplayOpenEO \/ Serve)
    /\ WF_vars(phase = "stopping" /\ Crash)
    /\ WF_vars(JobsFinish \/ Pipeline \/ Automation)

FairSpec == Spec /\ Fairness

TypeOK == PipeTypeOK /\ TrigTypeOK

(* No update is run twice, by the pipeline or by a trigger, and none from   *)
(* before a trigger was first configured is run by it at all.               *)
DecidedOnce == OneRunPerUpdate /\ StartedOnce /\ HistoryLeftAlone

(* No update is passed over, by the pipeline's checkpoint or by a replay. *)
NothingMissed == NoUpdateLost /\ NoUpdateMissed

(* Every stored update is settled in the end, through crashes and restarts: *)
(* the pipeline runs it, lists it, or has no business with it (it does not  *)
(* automate, does not read the dataset, or the update is from before its    *)
(* automation period), or a failure left it to be retried at the next start.*)
UpdatesSettle ==
    \A u \in Updates :
        (stage[u] = "persisted") ~>
            \/ RanFor(record, u) \/ u \in record.skipped
            \/ ~Automates(record) \/ u \notin Reads[record.workflow]
            \/ time[u] <= record.since \/ record.retries[u] > 0
=============================================================================
