------------------------- MODULE TriggerDeliveries -------------------------
(***************************************************************************)
(* How a workflow trigger's job is delivered (automation/service.py), for  *)
(* one triggered job, ExportDelivery's source, and the life of the server  *)
(* processes that run it.                                                  *)
(*                                                                         *)
(* A trigger may deliver, as a dry run or live.  A process reads that when *)
(* it starts and stamps a boundary on what is new; a job records what it   *)
(* owes in the write that finishes it.  A process that is told to stop     *)
(* does not wait for its jobs: one may finish under the old configuration  *)
(* while the next process runs under another.                              *)
(***************************************************************************)
EXTENDS ExportDelivery

CONSTANTS
    Hook, Sweep,    \* the completion hook's thread, the startup pass
    Configs,        \* what a process may be started with
    MaxStarts       \* bound: process starts

Threads == {Hook, Sweep}

ASSUME TriggerAssumption ==
    /\ Threads \subseteq Callers
    /\ Configs \subseteq {"none", "dry_run", "live", "read_only"}
    /\ MaxStarts \in Nat

VARIABLES
    phase,       \* of the process: down, starting (hooks set), serving
    epoch,       \* time, as process starts
    host,        \* the process the source job runs in: this, old or none
    boundary,    \* the trigger's stored activation: mode and time
    step,        \* the process's delivery step, and
    stepOld,     \* that of the process before it
    due,         \* delivery_due of the source, stored as it finished, and
    finishedAt,  \* when
    problem,     \* delivery_error of the source
    trigger,     \* what a thread is doing
    late,        \* the old process finished the job after the startup pass
    modes        \* the modes a result finished under (for a property)

trig == <<phase, epoch, host, boundary, step, stepOld, due, finishedAt, problem, trigger, late, modes>>

NoStep == [mode |-> "none", since |-> 0]

TrigInit ==
    /\ phase = "down" /\ epoch = 0 /\ host = "none"
    /\ boundary = NoStep /\ step = NoStep /\ stepOld = NoStep
    /\ due = "none" /\ finishedAt = 0 /\ problem = FALSE /\ late = FALSE
    /\ trigger = [t \in Threads |-> "idle"]
    /\ modes = [v \in 1..MaxVersion |-> {}]

Listening == phase \in {"starting", "serving"}

-----------------------------------------------------------------------------
(* start: _sync_delivery_activations and _delivery_steps.                   *)

Sync(config) ==
    CASE config = "read_only" -> boundary
      [] config = "none"      -> NoStep
      [] OTHER -> IF boundary.mode = config THEN boundary ELSE [mode |-> config, since |-> epoch + 1]

Start(config) ==
    /\ phase = "down" /\ epoch < MaxStarts
    /\ phase' = "starting" /\ epoch' = epoch + 1
    /\ boundary' = Sync(config)
    /\ step' = IF config = "read_only" THEN NoStep ELSE boundary'
    /\ host' = IF host = "none" /\ source.status = "running" THEN "this" ELSE host
    /\ trigger' = [trigger EXCEPT ![Sweep] = "list"]
    /\ late' = FALSE
    /\ UNCHANGED <<stepOld, due, finishedAt, problem, modes>>

\* A watched job whose process ended is taken over.
TakeOver ==
    /\ Listening /\ host = "none" /\ source.status = "running"
    /\ host' = "this"
    /\ UNCHANGED <<phase, epoch, boundary, step, stepOld, due, finishedAt, problem, trigger, late, modes, exp>>

\* The process ends; told to stop, it leaves its running job to itself.
Ends(graceful) ==
    /\ Listening
    /\ phase' = "down"
    /\ host' = IF host = "old" THEN host
               ELSE IF graceful /\ host = "this" THEN "old" ELSE "none"
    /\ stepOld' = IF graceful /\ host = "this" THEN step ELSE stepOld
    /\ trigger' = [t \in Threads |-> "idle"]
    /\ UNCHANGED <<epoch, boundary, step, due, finishedAt, problem, late, modes>>

OldDies ==
    /\ host = "old" /\ host' = "none"
    /\ UNCHANGED <<phase, epoch, boundary, step, stepOld, due, finishedAt, problem, trigger, late, modes, exp>>

-----------------------------------------------------------------------------
(* _active_step, delivery_due_for and _due_step.                            *)

Active(s, at) == s # NoStep /\ at >= s.since

\* Mutant: what the job recorded as it finished is not compared.
OwesAny(s, owed) == TRUE

Owes(s, owed) == owed = s.mode

\* Mutant: a delivery the source lists does not count.
UnlistedAlways == TRUE

Unlisted == source.links = {}

Due == Finished /\ Active(step, finishedAt) /\ Owes(step, due) /\ Unlisted

\* _finish stores the obligation; _after_finished calls the hook, if one is set.
FinishTriggered ==
    LET s == IF host = "old" THEN stepOld ELSE step IN
    /\ due' = IF Active(s, epoch) THEN s.mode ELSE "none"
    /\ finishedAt' = epoch
    /\ modes' = [modes EXCEPT ![source'.version] = @ \cup {due'}]
    /\ trigger[Hook] = "idle"
    /\ trigger' = [trigger EXCEPT ![Hook] =
                     IF host = "this" /\ Listening /\ due' # "none" /\ Unlisted THEN "due" ELSE "idle"]
    /\ late' = (host = "old" /\ Listening /\ trigger[Sweep] # "list")

-----------------------------------------------------------------------------
(* on_job_finished, reconcile_deliveries and _deliver_safely.               *)

\* Mutant: the startup pass leaves what was missed.
SweptNever == FALSE

Swept == Due

Reconcile ==
    /\ trigger[Sweep] = "list"
    /\ trigger' = [trigger EXCEPT ![Sweep] = IF Swept THEN "due" ELSE "idle"]
    /\ UNCHANGED <<phase, epoch, host, boundary, step, stepOld, due, finishedAt, problem, late, modes, exp>>

SubmitDue(t) ==
    /\ trigger[t] = "due"
    /\ Submit(t, <<"auto", step.mode>>, step.mode = "dry_run")
    /\ trigger' = [trigger EXCEPT ![t] = "submitting"]
    /\ UNCHANGED <<phase, epoch, host, boundary, step, stepOld, due, finishedAt, problem, late, modes,
                   source, lease, submission, reserved, delivery, runs, faults>>

SetDeliveryError(t) ==
    /\ trigger[t] = "submitting" /\ Returned(t)
    /\ problem' = (call[t].at # "done")
    /\ Forget(t)
    /\ trigger' = [trigger EXCEPT ![t] = "idle"]
    /\ UNCHANGED <<phase, epoch, host, boundary, step, stepOld, due, finishedAt, late, modes,
                   source, lease, submission, reserved, delivery, runs, faults>>

Serve ==
    /\ phase = "starting" /\ trigger[Sweep] = "idle"
    /\ phase' = "serving"
    /\ UNCHANGED <<epoch, host, boundary, step, stepOld, due, finishedAt, problem, trigger, late, modes, exp>>

TriggerStep ==
    Reconcile \/ \E t \in Threads : SubmitDue(t) \/ SetDeliveryError(t)

-----------------------------------------------------------------------------
TrigTypeOK ==
    /\ phase \in {"down", "starting", "serving"} /\ epoch \in 0..MaxStarts
    /\ host \in {"this", "old", "none"}
    /\ {boundary.mode, step.mode, stepOld.mode, due} \subseteq {"none", "dry_run", "live"}
    /\ step # NoStep => step = boundary
    /\ finishedAt <= epoch /\ {problem, late} \subseteq BOOLEAN
    /\ trigger[Hook] \in {"idle", "due", "submitting"}
    /\ trigger[Sweep] \in {"list", "idle", "due", "submitting"}
    /\ \A v \in 1..MaxVersion : modes[v] \subseteq {"none", "dry_run", "live"}

Automatic(d) == Created(d) /\ delivery[d].key[1] = "auto"

(* A result that was made while the trigger was a dry run, or delivered       *)
(* nothing, is never imported live by itself: not after the switch, nor after *)
(* a restart, nor from a process that outlived it (service.py:126-130).       *)
LiveFinishedLive ==
    \A d \in Ids : Automatic(d) =>
        (IF delivery[d].dry THEN "dry_run" ELSE "live") \in modes[delivery[d].version]

(* A source that already lists a delivery gets no other by itself, also when  *)
(* it is run again or the mode was switched (service.py:660-662).             *)
ListedIsNotRepeated ==
    [][\A d \in Ids : ~Created(d) /\ Created(d)' /\ delivery'[d].key[1] = "auto" => source.links = {}]_<<exp, trig>>

(* A delivery a finished job owes is submitted, or the reason it was not is    *)
(* shown on the job, however the hook and the startup pass were interrupted:   *)
(* unless the source changes, the configuration does, or the job was finished  *)
(* by an old process once the startup pass was over.                           *)
OwedIsSubmitted ==
    (Due /\ Listening) ~> (~Due \/ problem \/ late \/ ~Listening)
=============================================================================
