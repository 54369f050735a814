------------------------- MODULE PipelineDeliveries -------------------------
(***************************************************************************)
(* How a pipeline run's result is handed to delivery (pipelines/runner.py, *)
(* routes.py), for one run of one pipeline whose job is ExportDelivery's   *)
(* source.                                                                 *)
(*                                                                         *)
(* Three threads work on the run's record at once: the one in which its    *)
(* job finished, the recovery pass of startup and of every 15 minutes, and *)
(* the operator's requests.  Each reads the record, decides on what it     *)
(* read, calls the delivery framework and writes single fields back; only  *)
(* the writes are atomic.                                                  *)
(***************************************************************************)
EXTENDS ExportDelivery

CONSTANTS
    Finisher, Recoverer, Operator,   \* the threads
    RunModes,            \* dry_run, live: what the run was started as
    MaxDeliveryAttempts, \* MAX_DELIVERY_ATTEMPTS
    MaxRequests          \* bound: the operator's requests

Actors == {Finisher, Recoverer, Operator}

ASSUME RunAssumption ==
    /\ Actors \subseteq Callers
    /\ RunModes \subseteq {"dry_run", "live"}
    /\ MaxDeliveryAttempts \in Nat \ {0} /\ MaxRequests \in Nat

VARIABLES
    run,        \* the run, in the pipeline's stored record
    mode,       \* the pipeline's delivery mode, in the same record
    act,        \* what each thread is doing, with the record it read
    requests,   \* so far (bound)
    rounds      \* Send again requests that reached the framework (for a property)

runVars == <<run, mode, act, requests, rounds>>

Modes   == {"dry_run", "live", "paused"}
Unowed  == [at |-> "idle"]
Settled == {"delivered", "validated", "acknowledged"}

RunInit ==
    /\ \E m \in RunModes :
          run = [mode |-> m, outcome |-> "none", delivery |-> "awaiting", attempts |-> 0,
                 id |-> Free, result |-> "none", round |-> 0]
    /\ mode \in Modes
    /\ act = [a \in Actors |-> Unowed]
    /\ requests = 0 /\ rounds = 0

\* Mutant: every attempt to hand off has a key of its own.
KeyAttempt(r, round) == <<"run", r.attempts>>

\* _delivery_key.
Key(r, round) == <<"run", round>>

\* Mutant: a delivery that ended without an answer counts as delivered.
ResultHopeful(d) == IF delivery[d].state = "successful" THEN "delivered" ELSE "none"

\* delivery_result: none while the job may still end.
Result(d) ==
    LET j == delivery[d] IN
    CASE j.state \in {"failed", "cancelled"} -> j.state
      [] j.state = "successful" ->
            (CASE j.outcome = "success" -> IF j.dry THEN "validated" ELSE "delivered"
               [] j.outcome = "conflicts" -> "partial"
               [] OTHER -> "unknown")
      [] OTHER -> "none"

Go(a, next) == act' = [act EXCEPT ![a] = next]
Leave(a)    == Go(a, Unowed)

\* A thread decides on the record as it read it, and holds on to what it still needs.
Read(at, manual, again) ==
    [at |-> at, seen |-> run, mode |-> mode, manual |-> manual, again |-> again]

Seen(at, r, again) ==
    [at |-> at, seen |-> [attempts |-> r.attempts, round |-> r.round], again |-> again]

At(a, place) == act[a].at = place

Quiet == UNCHANGED <<mode, requests, rounds>>

-----------------------------------------------------------------------------
(* deliver_run.                                                             *)

Deliver(a) ==
    /\ At(a, "deliver")
    /\ LET again == act[a].again IN
       IF again <=> (run.id = Free) THEN Leave(a)
       ELSE Go(a, Read(IF again THEN "refresh" ELSE "job", act[a].manual, again))
    /\ Quiet /\ UNCHANGED <<run, exp>>

\* _refresh_delivery_result, before a redelivery, an acknowledgement or by itself.
Refresh(a) ==
    /\ At(a, "refresh")
    /\ LET seen   == act[a].seen
           result == IF seen.id = Free \/ seen.result # "none" THEN "none" ELSE Result(seen.id)
       IN  Go(a, IF result = "none" THEN [act[a] EXCEPT !.at = "refreshed"]
                 ELSE [act[a] EXCEPT !.at = "observed", !.seen.result = result])
    /\ Quiet /\ UNCHANGED <<run, exp>>

\* _update_run returns the record it wrote.
RecordResult(a) ==
    /\ At(a, "observed")
    /\ run' = [run EXCEPT !.result = act[a].seen.result]
    /\ Go(a, [act[a] EXCEPT !.at = "refreshed", !.seen = run'])
    /\ Quiet /\ UNCHANGED exp

\* _check_redelivery, acknowledge_delivery; the destination declares redelivery_safe.
Refreshed(a) ==
    /\ At(a, "refreshed")
    /\ LET seen == act[a].seen IN
       IF seen.result = "none" \/ seen.result \in Settled THEN Leave(a)
       ELSE CASE act[a].again  -> Go(a, [act[a] EXCEPT !.at = "job"])
              [] ~act[a].again -> IF act[a].manual THEN Go(a, [at |-> "acknowledge"])
                                                   ELSE Leave(a)
    /\ Quiet /\ UNCHANGED <<run, exp>>

Acknowledge(a) ==
    /\ At(a, "acknowledge")
    /\ run' = [run EXCEPT !.result = "acknowledged"]
    /\ Leave(a) /\ Quiet /\ UNCHANGED exp

\* _hold_reason; a live run also needs the bindings it was computed for approved.
Held(m, manual) ==
    IF run.mode = "live" THEN m # "live" ELSE m = "paused" /\ ~manual

\* _record_job_outcome, and whether the delivery must wait.
JudgeJob(a) ==
    /\ At(a, "job")
    /\ LET outcome == CASE source.status = "deleted" -> "missing"
                        [] source.status = "failed"  -> "error"
                        [] OTHER -> "none"
       IN  /\ run' = IF outcome \in {"none", act[a].seen.outcome} THEN run
                     ELSE [run EXCEPT !.outcome = outcome]
           /\ IF ~Finished THEN Leave(a)
              ELSE IF ~Held(act[a].mode, act[a].manual)
                   THEN Go(a, Seen("submit", act[a].seen, act[a].again))
                   ELSE IF act[a].manual THEN Leave(a) ELSE Go(a, [at |-> "hold"])
    /\ Quiet /\ UNCHANGED exp

Hold(a) ==
    /\ At(a, "hold")
    /\ run' = [run EXCEPT !.delivery = "held"]
    /\ Leave(a) /\ Quiet /\ UNCHANGED exp

HandOff(a) ==
    /\ At(a, "submit")
    /\ LET seen == act[a].seen IN
       Submit(a, Key(seen, seen.round + (IF act[a].again THEN 1 ELSE 0)), run.mode = "dry_run")
    /\ Go(a, [act[a] EXCEPT !.at = "submitting"])
    /\ rounds' = IF act[a].again THEN rounds + 1 ELSE rounds
    /\ UNCHANGED <<run, mode, requests, source, lease, submission, reserved, delivery, runs, faults>>

\* A new round exists only with the delivery that opens it.
HandedOff(a) ==
    /\ At(a, "submitting") /\ call[a].at = "done"
    /\ LET seen == act[a].seen IN
       run' = [run EXCEPT !.delivery = "submitted", !.id = call[a].id,
                 !.attempts = IF act[a].again THEN 1 ELSE seen.attempts + 1,
                 !.round = IF act[a].again THEN seen.round + 1 ELSE @,
                 !.result = IF act[a].again THEN "none" ELSE @]
    /\ Forget(a) /\ Leave(a)
    /\ Quiet /\ UNCHANGED <<source, lease, submission, reserved, delivery, runs, faults>>

\* The earlier round stays as it was; a first hand-off counts its attempts.
HandOffFails(a) ==
    /\ At(a, "submitting") /\ call[a].at \in {"busy", "refused"}
    /\ LET attempts == act[a].seen.attempts + 1 IN
       run' = IF act[a].again THEN run
              ELSE [run EXCEPT !.attempts = attempts,
                      !.delivery = IF call[a].at = "refused" \/ attempts >= MaxDeliveryAttempts
                                   THEN "failed" ELSE "awaiting"]
    /\ Forget(a) /\ Leave(a)
    /\ Quiet /\ UNCHANGED <<source, lease, submission, reserved, delivery, runs, faults>>

-----------------------------------------------------------------------------
(* on_job_finished, in the thread of the job; release_held; recover_runs.   *)

Notify == act' = [act EXCEPT ![Finisher] = [at |-> "notified"]]

OnJobFinished ==
    /\ At(Finisher, "notified")
    /\ IF run.delivery = "awaiting"
       THEN Go(Finisher, [at |-> "deliver", manual |-> FALSE, again |-> FALSE])
       ELSE Leave(Finisher)
    /\ Quiet /\ UNCHANGED <<run, exp>>

ReleaseHeld(a) ==
    /\ At(a, "release")
    /\ IF run.delivery = "held" /\ ~Held(mode, FALSE) THEN Go(a, [at |-> "unhold"]) ELSE Leave(a)
    /\ Quiet /\ UNCHANGED <<run, exp>>

Unhold(a) ==
    /\ At(a, "unhold")
    /\ run' = [run EXCEPT !.delivery = "awaiting"]
    /\ Go(a, [at |-> "deliver", manual |-> FALSE, again |-> FALSE])
    /\ Quiet /\ UNCHANGED exp

\* Mutant: the pass leaves missed hand-offs to the completion hook.
MissedNever(r) == FALSE

Missed(r) == r.delivery = "awaiting" /\ r.outcome = "none"

Unconfirmed(r) == r.delivery = "submitted" /\ r.result = "none"

\* The pass lists the records, then asks for the job of a run that awaits.  One
\* that would find nothing to do is left out: it comes again.
RecoverRuns ==
    /\ At(Recoverer, "idle")
    /\ \/ Missed(run) /\ source.status # "running" /\ Go(Recoverer, [at |-> "missed"])
       \/ Unconfirmed(run) /\ Result(run.id) # "none" /\ Go(Recoverer, Read("refresh", FALSE, FALSE))
       \/ run.delivery = "held" /\ ~Held(mode, FALSE) /\ Go(Recoverer, [at |-> "release"])
    /\ Quiet /\ UNCHANGED <<run, exp>>

RecoverMissed ==
    /\ At(Recoverer, "missed")
    /\ run' = CASE source.status = "deleted" -> [run EXCEPT !.outcome = "missing"]
                [] source.status = "failed"  -> [run EXCEPT !.outcome = "error"]
                [] OTHER -> run
    /\ IF Finished THEN Go(Recoverer, [at |-> "deliver", manual |-> FALSE, again |-> FALSE])
                   ELSE Leave(Recoverer)
    /\ Quiet /\ UNCHANGED exp

-----------------------------------------------------------------------------
(* The operator: Deliver, Send again, Checked at the destination, and the   *)
(* mode, whose change releases what is held.                                *)

Request ==
    /\ At(Operator, "idle") /\ requests < MaxRequests /\ requests' = requests + 1
    /\ \/ \E again \in BOOLEAN : Go(Operator, [at |-> "deliver", manual |-> TRUE, again |-> again])
       \/ Go(Operator, Read("refresh", TRUE, FALSE))
    /\ UNCHANGED <<run, mode, rounds, exp>>

SetMode ==
    /\ At(Operator, "idle") /\ requests < MaxRequests /\ requests' = requests + 1
    /\ mode' \in Modes \ {mode}
    /\ IF mode' = "paused" THEN UNCHANGED act ELSE Go(Operator, [at |-> "release"])
    /\ UNCHANGED <<run, rounds, exp>>

RunCrash == act' = [a \in Actors |-> Unowed] /\ UNCHANGED <<run, mode, requests, rounds>>

ActorStep ==
    \/ OnJobFinished \/ RecoverRuns \/ RecoverMissed
    \/ \E a \in Actors :
          \/ Deliver(a) \/ Refresh(a) \/ RecordResult(a) \/ Refreshed(a) \/ Acknowledge(a)
          \/ JudgeJob(a) \/ Hold(a) \/ HandOff(a) \/ HandedOff(a) \/ HandOffFails(a)
          \/ ReleaseHeld(a) \/ Unhold(a)

RequestStep == Request \/ SetMode

-----------------------------------------------------------------------------
Results == Settled \cup {"none", "partial", "unknown", "failed", "cancelled"}

RunTypeOK ==
    /\ run.mode \in RunModes /\ run.outcome \in {"none", "error", "missing"}
    /\ run.delivery \in {"awaiting", "held", "failed", "submitted"}
    /\ run.attempts \in Nat /\ run.round \in Nat /\ run.id \in Ids \cup {Free}
    /\ run.result \in Results
    /\ run.delivery = "submitted" => run.id # Free
    /\ \A a \in Actors : call[a].at # "idle" <=> At(a, "submitting")

(* A payload is sent a second time only because an operator asked: however   *)
(* often the hand-off is repeated by the completion, the recovery pass, the  *)
(* operator or a restart, whatever failed, the run has one delivery job more *)
(* than the Send again requests that reached the framework at most           *)
(* (docs/web_interface.md:254-259).                                          *)
SentAgainOnRequest ==
    Cardinality({d \in Ids : Created(d) /\ delivery[d].key[1] = "run"}) <= 1 + rounds

(* A run is called delivered, or validated, only when a delivery job of its  *)
(* source was confirmed by the destination, of that kind.                    *)
ConfirmedByDestination ==
    run.result \in {"delivered", "validated"} =>
        \E d \in Ids : /\ delivery[d].state = "successful" /\ delivery[d].outcome = "success"
                       /\ delivery[d].dry <=> (run.result = "validated")

(* "the delivery job's outcome is recorded on the run"                       *)
(* (docs/web_interface.md:248): an outcome the run shows is its current      *)
(* delivery job's own, or the operator's acknowledgement.                    *)
OutcomeIsItsDeliverys ==
    run.result \in {"none", "acknowledged"} \/ (run.id # Free /\ run.result = Result(run.id))
=============================================================================
