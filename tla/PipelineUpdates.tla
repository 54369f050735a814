-------------------------- MODULE PipelineUpdates --------------------------
(***************************************************************************)
(* How a pipeline decides dataset updates (pipelines/runner.py, store.py). *)
(*                                                                         *)
(* One pipeline with the policy on_update.  An update is decided once: run *)
(* (in the same locked write as the run's record), listed as skipped, or   *)
(* none of its business.  Updates arrive live, in the thread of the job    *)
(* that made them, and again from the log at startup; a checkpoint says    *)
(* before which time every update is decided.  Meanwhile an operator edits *)
(* the pipeline, pauses it and makes it live; each of those starts a new   *)
(* automation period, and nothing older is ever run by itself.             *)
(*                                                                         *)
(* A decision reads the record without the lock, prepares the run without  *)
(* the lock and reads it again under the lock: a task is one such decision *)
(* between its steps.                                                      *)
(***************************************************************************)
EXTENDS EventLog

CONSTANTS
    Workflows,          \* what the pipeline may be edited to compute
    Reads,              \* the updates of datasets a workflow reads
    Nameless,           \* updates whose data name no interval
    MaxEventAttempts,   \* MAX_EVENT_ATTEMPTS
    Margin,             \* _EVENT_MARGIN
    MaxEdits,           \* bound: edits by the operator
    MaxFaults,          \* bound: transient failures
    Startup             \* the decider that is the startup pass

ASSUME PipelineAssumption ==
    /\ Reads \in [Workflows -> SUBSET Updates]
    /\ Nameless \subseteq Updates /\ Startup \notin Updates
    /\ MaxEventAttempts \in Nat \ {0}
    /\ Margin \in Nat /\ MaxEdits \in Nat /\ MaxFaults \in Nat
    /\ Margin >= WriteDelay

VARIABLES
    record,      \* the pipeline's stored record
    task,        \* each decider's decision in progress
    pass,        \* the startup pass
    edits,       \* edits so far (bound)
    faults       \* transient failures so far (bound)

pipe == <<record, task, pass, edits, faults>>

Modes    == {"dry_run", "live", "paused"}
Deciders == Updates \cup {Startup}
Idle     == [at |-> "idle"]

Automates(r) == r.mode # "paused"

Decided(r, u) == u \in r.handled \/ (r.through # Never /\ time[u] < r.through)

RanFor(r, u) == \E i \in 1..Len(r.runs) : r.runs[i].event = u

PipeInit ==
    /\ \E mode \in Modes \ {"live"}, workflow \in Workflows :
          LET period == IF mode = "paused" THEN Never ELSE clock IN
          record = [mode |-> mode, workflow |-> workflow, revision |-> 1, valid |-> TRUE,
                    since |-> period, through |-> period, handled |-> {},
                    retries |-> [u \in Updates |-> 0], skipped |-> {}, runs |-> <<>>]
    /\ task = [d \in Deciders |-> Idle]
    /\ pass = Idle
    /\ edits = 0 /\ faults = 0

-----------------------------------------------------------------------------
(* The operator: PUT /pipelines/{id}, /mode/{mode} and /validate.  Each     *)
(* judges the spec outside the lock and is refused when the revision moved. *)

NewPeriod(r, now) ==
    [r EXCEPT !.since = now, !.through = now, !.handled = {},
              !.retries = [u \in Updates |-> 0]]

\* Mutant: pausing does not end the automation period.
ReplaceSpecPaused(mode, workflow) ==
    LET new == [record EXCEPT !.mode = mode, !.workflow = workflow,
                              !.revision = @ + 1, !.valid = TRUE]
    IN  IF Automates(new) /\ (mode # record.mode \/ workflow # record.workflow)
        THEN NewPeriod(new, clock) ELSE new

ReplaceSpec(mode, workflow) ==
    LET new     == [record EXCEPT !.mode = mode, !.workflow = workflow,
                                  !.revision = @ + 1, !.valid = TRUE]
        changed == mode # record.mode \/ workflow # record.workflow
    IN  IF ~Automates(new) THEN NewPeriod(new, Never)
        ELSE IF changed THEN NewPeriod(new, clock) ELSE new

\* A mode switch, new bindings, or an edit of something else (a new name).
Edit(mode, workflow) ==
    /\ edits < MaxEdits /\ edits' = edits + 1
    /\ mode = record.mode \/ workflow = record.workflow
    /\ record' = ReplaceSpec(mode, workflow)
    /\ UNCHANGED <<log, task, pass, faults>>

\* A re-check finds the bindings broken, or whole again.
Revalidate ==
    /\ edits < MaxEdits /\ edits' = edits + 1
    /\ record' = [record EXCEPT !.valid = ~@]
    /\ UNCHANGED <<log, task, pass, faults>>

-----------------------------------------------------------------------------
(* _dispatch: what a decider does with an update, judged on the record it   *)
(* listed.                                                                  *)

Verdict(r, u, live) ==
    CASE ~Automates(r) -> IF live /\ u \in Reads[r.workflow] THEN "list" ELSE "idle"
      [] Automates(r) /\ time[u] < r.since -> "idle"
      [] Automates(r) /\ time[u] >= r.since ->
            CASE u \in r.handled -> "idle"
              [] Decided(r, u) /\ u \notin r.handled ->
                    IF live /\ u \in Reads[r.workflow] THEN "skip" ELSE "idle"
              [] ~Decided(r, u) ->
                    IF u \notin Reads[r.workflow] THEN "idle"
                    ELSE IF u \in Nameless THEN "skip" ELSE "run"

Begin(d, u, verdict) ==
    task' = [task EXCEPT ![d] = IF verdict = "idle" THEN Idle
                                ELSE [at |-> verdict, event |-> u]]

\* consume: after the triggers, in the thread of the job that made the update.
Consume(u) ==
    /\ phase # "down" /\ hand[u] = "pipelines" /\ task[u] = Idle
    /\ hand' = [hand EXCEPT ![u] = "done"]
    /\ Begin(u, u, Verdict(record, u, TRUE))
    /\ UNCHANGED <<clock, phase, starts, stage, created, time, record, pass, edits, faults>>

At(d, where) == phase # "down" /\ task[d].at = where
Becomes(d, t) == task' = [task EXCEPT ![d] = t]

(* run_pipeline, first half: the record is read again and may refuse; what  *)
(* the run needs is resolved, which may fail for good or for now.           *)
Prepare(d) ==
    /\ At(d, "run")
    /\ \/ /\ record.valid /\ Automates(record)
          /\ Becomes(d, [at |-> "prepared", event |-> task[d].event, mode |-> record.mode,
                         workflow |-> record.workflow, revision |-> record.revision])
          /\ UNCHANGED faults
       \/ /\ ~(record.valid /\ Automates(record))
          /\ Becomes(d, [task[d] EXCEPT !.at = "skip"])
          /\ UNCHANGED faults
       \/ /\ faults < MaxFaults /\ faults' = faults + 1
          /\ \E next \in {"skip", "defer"} : Becomes(d, [task[d] EXCEPT !.at = next])
    /\ UNCHANGED <<log, record, pass, edits>>

\* Mutant: matched by idempotency key alone, which names the mode.
ExistingKey(u, mode) ==
    \E i \in 1..Len(record.runs) : record.runs[i].event = u /\ record.runs[i].mode = mode

\* A run the update, or the request, already has.
Existing(u, mode) == RanFor(record, u)

\* Mutant: the revision is not compared again under the lock.
RevisionMovedNever(d) == FALSE

RevisionMoved(d) == record.revision # task[d].revision

(* _record_intent, under the record's lock.                                 *)
RecordIntent(d) ==
    /\ At(d, "prepared")
    /\ LET u == task[d].event IN
       \/ /\ Existing(u, task[d].mode)
          /\ Becomes(d, Idle) /\ UNCHANGED record
       \/ /\ ~Existing(u, task[d].mode)
          /\ Decided(record, u) \/ RevisionMoved(d)
          /\ Becomes(d, [at |-> "skip", event |-> u]) /\ UNCHANGED record
       \/ /\ ~Existing(u, task[d].mode)
          /\ ~Decided(record, u) /\ ~RevisionMoved(d)
          /\ record' = [record EXCEPT
                 !.runs = <<[event |-> u, mode |-> task[d].mode,
                             workflow |-> task[d].workflow]>> \o @,
                 !.handled = @ \cup {u}]
          /\ Becomes(d, Idle)
    /\ UNCHANGED <<log, pass, edits, faults>>

(* _skip: listed once; decided too, unless the pipeline was paused.         *)
Skip(d) ==
    /\ At(d, "skip") \/ At(d, "list")
    /\ LET u == task[d].event IN
       record' = IF task[d].at = "skip"
                 THEN [record EXCEPT !.handled = @ \cup {u}, !.retries[u] = 0, !.skipped = @ \cup {u}]
                 ELSE [record EXCEPT !.skipped = @ \cup {u}]
    /\ Becomes(d, Idle)
    /\ UNCHANGED <<log, pass, edits, faults>>

(* _defer: counted; when the attempts run out the update is skipped.        *)
Defer(d) ==
    /\ At(d, "defer")
    /\ LET u == task[d].event  n == record.retries[u] + 1 IN
       /\ record' = [record EXCEPT !.retries[u] = n]
       /\ IF n >= MaxEventAttempts
          THEN Becomes(d, [task[d] EXCEPT !.at = "skip"]) /\ UNCHANGED pass
          ELSE /\ Becomes(d, Idle)
               /\ pass' = IF d = Startup THEN [pass EXCEPT !.retry = @ \cup {time[u]}] ELSE pass
    /\ UNCHANGED <<log, edits, faults>>

-----------------------------------------------------------------------------
(* reconcile_events, once per start.                                        *)

\* The start of the pass is noted, then the records are listed.
ScanStart ==
    /\ phase = "listening" /\ pass = Idle
    /\ pass' = [at |-> "list", start |-> clock]
    /\ UNCHANGED <<log, record, task, edits, faults>>

ListRecords ==
    /\ phase = "listening" /\ pass.at = "list"
    /\ pass' = IF Automates(record)
               THEN [at |-> "native", start |-> pass.start, of |-> record]
               ELSE [at |-> "done"]
    /\ UNCHANGED <<log, record, task, edits, faults>>

ReadNativeLog ==
    /\ phase = "listening" /\ pass.at = "native"
    /\ pass' = [at |-> "openeo", of |-> pass.of, bound |-> OpenSince(pass.start), todo |-> ReadNative]
    /\ UNCHANGED <<log, record, task, edits, faults>>

ReadOpenEOLog ==
    /\ phase = "listening" /\ pass.at = "openeo"
    /\ pass' = [at |-> "decide", of |-> pass.of, bound |-> pass.bound,
                todo |-> pass.todo \cup ReadOpenEO, retry |-> {}]
    /\ UNCHANGED <<log, record, task, edits, faults>>

\* The updates read, in the order of their times, each judged on the listed record.
DecideNext ==
    /\ phase = "listening" /\ pass.at = "decide" /\ task[Startup] = Idle
    /\ \E u \in pass.todo :
          /\ \A v \in pass.todo : time[u] <= time[v]
          /\ pass' = [pass EXCEPT !.todo = @ \ {u}]
          /\ Begin(Startup, u, Verdict(pass.of, u, FALSE))
    /\ UNCHANGED <<log, record, edits, faults>>

Safe == LET times == pass.retry \cup {pass.bound}
            least == CHOOSE t \in times : \A s \in times : t <= s
        IN  IF least > Margin THEN least - Margin ELSE Never

(* _advance_checkpoint: never back, and not in an automation period that    *)
(* started meanwhile.                                                       *)
AdvanceCheckpoint ==
    /\ phase = "listening" /\ pass.at = "decide" /\ pass.todo = {} /\ task[Startup] = Idle
    /\ pass' = [at |-> "done"]
    /\ record' = IF record.since # pass.of.since \/ Safe <= record.through THEN record
                 ELSE [record EXCEPT !.through = Safe,
                                     !.handled = {u \in @ : time[u] >= Safe}]
    /\ UNCHANGED <<log, task, edits, faults>>

-----------------------------------------------------------------------------
PipeCrash == task' = [d \in Deciders |-> Idle] /\ pass' = Idle /\ UNCHANGED <<record, edits, faults>>

DecideStep == \E d \in Deciders : Prepare(d) \/ RecordIntent(d) \/ Skip(d) \/ Defer(d)
PassStep   == ScanStart \/ ListRecords \/ ReadNativeLog \/ ReadOpenEOLog \/ DecideNext \/ AdvanceCheckpoint
EditStep   == Revalidate \/ \E m \in Modes, w \in Workflows : Edit(m, w)

-----------------------------------------------------------------------------
PipeTypeOK ==
    /\ Automates(record) <=> record.since # Never
    /\ record.mode \in Modes /\ record.workflow \in Workflows /\ record.valid \in BOOLEAN
    /\ {record.since, record.through} \subseteq 0..(MaxClock + MaxStarts)
    /\ record.handled \subseteq Updates /\ record.skipped \subseteq Updates
    /\ \A i \in 1..Len(record.runs) : record.runs[i].event \in Updates
    /\ \A d \in Deciders : task[d].at \in {"idle", "run", "prepared", "skip", "list", "defer"}

(* The checkpoint loses no update: one it has passed, of a dataset the      *)
(* pipeline reads and from its current automation period, was run or is     *)
(* listed for the operator, although jobs persist their events while the    *)
(* startup pass reads the log, and write them later than they stamp them.   *)
NoUpdateLost ==
    \A u \in Persisted :
        (/\ Automates(record) /\ u \in Reads[record.workflow]
         /\ record.since <= time[u] /\ time[u] < record.through)
        => RanFor(record, u) \/ u \in record.skipped

(* One run per update, whatever the mode: neither the live consumer and the *)
(* startup pass deciding it at once, nor a replay after the pipeline was    *)
(* made live, runs it twice.                                                *)
OneRunPerUpdate ==
    \A i, j \in 1..Len(record.runs) : record.runs[i].event = record.runs[j].event => i = j

(* A run starts by itself only while the pipeline automates, for an update  *)
(* of its current automation period, with the workflow and mode it has at   *)
(* that moment: a decision prepared before a pause, an edit or going live   *)
(* is refused when it reaches the record.                                   *)
RunsAreCurrent ==
    [][Len(record'.runs) > Len(record.runs) =>
          LET run == Head(record'.runs) IN
          /\ Automates(record) /\ time[run.event] >= record.since
          /\ run.workflow = record.workflow /\ run.mode = record.mode]_<<record>>
=============================================================================
