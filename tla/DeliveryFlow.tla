---------------------------- MODULE DeliveryFlow ----------------------------
(***************************************************************************)
(* Everything that delivers one job's result, in the processes that do     *)
(* (main.py _lifespan): a pipeline's run, a workflow trigger or clients of *)
(* POST /exports/{id}, whose source is deleted and run again meanwhile.    *)
(***************************************************************************)
EXTENDS PipelineDeliveries, TriggerDeliveries

CONSTANTS Clients, Owners

\* Each thread has one thing to do; clients have threads of their own.
ASSUME FlowAssumption ==
    /\ Finisher # Recoverer /\ Finisher # Operator /\ Recoverer # Operator /\ Hook # Sweep
    /\ Clients \subseteq Callers /\ Clients \cap (Actors \cup Threads) = {}
    /\ Actors \cap Threads = {}

VARIABLE owner     \* whose job the source is: pipeline, trigger or client

vars == <<exp, runVars, trig, owner>>

Init == ExpInit /\ RunInit /\ TrigInit /\ owner \in Owners

Working == host = "old" \/ (host = "this" /\ phase # "down")

\* _finish and _after_finished: the listeners are told unless the process is stopping.
Finish ==
    /\ Working
    /\ \E version \in 1..MaxVersion : Finishing(version)
    /\ IF owner = "trigger" THEN FinishTriggered
       ELSE UNCHANGED <<due, finishedAt, trigger, late, modes>>
    /\ IF owner = "pipeline" /\ host = "this" /\ Listening
       THEN act[Finisher].at = "idle" /\ Notify ELSE UNCHANGED act
    /\ host' = "none"
    /\ UNCHANGED <<phase, epoch, boundary, step, stepOld, problem, run, mode, requests, rounds, owner,
                   lease, submission, reserved, delivery, call, runs, faults>>

Fail ==
    /\ Working /\ SourceFails /\ host' = "none"
    /\ UNCHANGED <<phase, epoch, boundary, step, stepOld, due, finishedAt, problem, trigger, late, modes,
                   runVars, owner>>

\* A re-run's worker waits for the first one's, which is still telling the listeners.
Again ==
    /\ phase = "serving" /\ RunAgain /\ host' = "this"
    /\ UNCHANGED <<phase, epoch, boundary, step, stepOld, due, finishedAt, problem, trigger, late, modes,
                   runVars, owner>>

Delete == phase = "serving" /\ DeleteSource /\ UNCHANGED <<trig, runVars, owner>>

StartProcess ==
    /\ \E config \in Configs : Start(config)
    /\ UNCHANGED <<exp, runVars, owner>>

\* Killed, or told to stop: of what runs only the source job may outlive the stop.
EndProcess ==
    /\ \E graceful \in BOOLEAN : Ends(graceful)
    /\ epoch < MaxStarts
    /\ ExpCrash /\ RunCrash
    /\ UNCHANGED <<source, owner>>

Client(a) ==
    /\ owner = "client" /\ phase = "serving"
    /\ \/ call[a].at = "idle" /\ \E dry \in BOOLEAN : Submit(a, <<"client">>, dry)
       \/ Returned(a) /\ Forget(a)
    /\ UNCHANGED <<source, lease, submission, reserved, delivery, runs, faults, runVars, trig, owner>>

Submissions ==
    /\ \E a \in Callers : SubmitStep(a)
    /\ UNCHANGED <<runVars, trig, owner>>

Faults == (\E a \in Callers : SubmissionFails(a)) /\ UNCHANGED <<runVars, trig, owner>>

Deliveries == Listening /\ DeliveryStep /\ UNCHANGED <<runVars, trig, owner>>

Pipeline == owner = "pipeline" /\ Listening /\ ActorStep /\ UNCHANGED <<trig, owner>>

Requests == owner = "pipeline" /\ phase = "serving" /\ RequestStep /\ UNCHANGED <<trig, owner>>

Triggers == TriggerStep /\ UNCHANGED <<runVars, owner>>

Life == (TakeOver \/ OldDies) /\ UNCHANGED <<runVars, owner>>

Serving == Serve /\ UNCHANGED <<runVars, owner>>

Next ==
    \/ Finish \/ Fail \/ Again \/ Delete \/ StartProcess \/ EndProcess \/ Life \/ Serving
    \/ Submissions \/ Faults \/ Deliveries \/ Pipeline \/ Requests \/ Triggers
    \/ \E a \in Clients : Client(a)

Spec == Init /\ [][Next]_vars

Progress == StartProcess \/ Serving \/ Submissions \/ Triggers \/ Pipeline

(* A process that is down is started again, and of the threads with something *)
(* to do one moves.  How deliveries end, and what operators and clients do,   *)
(* is left open.                                                              *)
Fairness == WF_vars(Progress)

FairSpec == Spec /\ Fairness

TypeOK == ExpTypeOK /\ RunTypeOK /\ TrigTypeOK

(* A finished run's result is handed to delivery by itself, whatever was      *)
(* missed, interrupted or failed on the way, unless the run is held, refused  *)
(* for good, or its job ended without a result or was run again               *)
(* (docs/web_interface.md:250-252).                                           *)
ResultsAreHandedOff ==
    owner = "pipeline" =>
        (Finished ~> \/ run.id # Free \/ run.delivery \in {"held", "failed"}
                     \/ ~Finished \/ run.outcome # "none")

(* Nobody sends what was sent, under the key it had or under another, unless  *)
(* an operator asked.                                                         *)
SentOnce == []KeyOwnsItsJob /\ []SentAgainOnRequest /\ ListedIsNotRepeated

(* What a delivery is taken for is what it was: confirmed, and of the mode in *)
(* which its source was finished.                                             *)
KnownForWhatItIs == ConfirmedByDestination /\ LiveFinishedLive
=============================================================================
