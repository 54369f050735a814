--------------------------- MODULE ExportDelivery ---------------------------
(***************************************************************************)
(* Handing one openEO job's exported result to its destination             *)
(* (exports/delivery.py, reservations.py, retention.py, delivery_input.py).*)
(*                                                                         *)
(* A delivery is a native job made under an idempotency key.  Submitting   *)
(* one finds or reserves the key, creates the job, and links it to the     *)
(* source, under one lock; a crash may fall between any two of these.      *)
(* The sender holds the source's result lease, and so does whoever deletes *)
(* the source, updates it or runs it again.                                *)
(*                                                                         *)
(* Submissions are calls, made by the threads of PipelineDeliveries and    *)
(* TriggerDeliveries and by clients of POST /exports/{id}; ChunkedSend is  *)
(* the inside of a delivery job.                                           *)
(***************************************************************************)
EXTENDS Naturals, FiniteSets

CONSTANTS
    Callers,       \* threads that submit
    MaxJobs,       \* bound: delivery jobs
    MaxVersion,    \* bound: different results of the source
    MaxRuns,       \* bound: runs of the source after the first
    MaxFaults      \* bound: submissions that fail

ASSUME DeliveryAssumption ==
    /\ MaxJobs \in Nat /\ MaxVersion \in Nat \ {0} /\ MaxRuns \in Nat /\ MaxFaults \in Nat
    /\ 0 \notin Callers

VARIABLES
    source,       \* the job whose result is delivered: its record and its files
    lease,        \* the delivery job that holds the source's result lease, or Free
    submission,   \* who holds the submission lock, or Free
    reserved,     \* the reservation index
    delivery,     \* the delivery jobs, by id
    call,         \* each caller's submission
    runs, faults  \* so far (bounds)

exp == <<source, lease, submission, reserved, delivery, call, runs, faults>>

Free == 0
Ids  == 1..MaxJobs

NoJob  == [state |-> "none", key |-> <<>>, dry |-> FALSE, version |-> 0, outcome |-> "none"]
NoCall == [at |-> "idle", key |-> <<>>, dry |-> FALSE, version |-> 0, id |-> Free]

Reservations(key) == {r \in reserved : r.key = key}
Created(d)  == delivery[d].state # "none"

ExpInit ==
    /\ source = [status |-> "running", version |-> 0, links |-> {}]
    /\ lease = Free /\ submission = Free /\ reserved = {}
    /\ delivery = [d \in Ids |-> NoJob]
    /\ call = [a \in Callers |-> NoCall]
    /\ runs = 0 /\ faults = 0

-----------------------------------------------------------------------------
(* The source job.  Its manifest says which result this is; a later run may *)
(* produce the same one.                                                    *)

Finished == source.status = "finished"

\* Mutant: the source is run again or deleted without its lease.
UnusedAlways == TRUE

Unused == lease = Free

Finishing(version) ==
    /\ source.status = "running"
    /\ version \in {source.version, source.version + 1} /\ version \in 1..MaxVersion
    /\ source' = [source EXCEPT !.status = "finished", !.version = version]

SourceFails ==
    /\ source.status = "running"
    /\ source' = [source EXCEPT !.status = "failed"]
    /\ UNCHANGED <<lease, submission, reserved, delivery, call, runs, faults>>

RunAgain ==
    /\ source.status \in {"finished", "failed"} /\ Unused
    /\ runs < MaxRuns /\ runs' = runs + 1
    /\ source' = [source EXCEPT !.status = "running"]
    /\ UNCHANGED <<lease, submission, reserved, delivery, call, faults>>

DeleteSource ==
    /\ source.status \in {"finished", "failed"} /\ Unused
    /\ source' = [source EXCEPT !.status = "deleted"]
    /\ UNCHANGED <<lease, submission, reserved, delivery, call, runs, faults>>

-----------------------------------------------------------------------------
(* submit_delivery.  A caller finds its outcome at "done" (the id),         *)
(* "busy" (worth another try) or "refused" (not).                           *)

Submit(a, key, dry) ==
    call' = [call EXCEPT ![a] = [at |-> "find", key |-> key, dry |-> dry, version |-> 0, id |-> Free]]

\* The caller goes on, with the lock, for the job it found or is to make.
Goes(a, at, version, id) ==
    /\ call' = [call EXCEPT ![a] = [at |-> at, key |-> @.key, dry |-> @.dry, version |-> version, id |-> id]]
    /\ submission' = a

Returned(a) == call[a].at \in {"done", "busy", "refused"}
Forget(a)   == call' = [call EXCEPT ![a] = NoCall]

Return(a, outcome) ==
    /\ call' = [call EXCEPT ![a].at = outcome]
    /\ submission' = Free

\* Mutant: finding the key, reserving it and enqueueing are not one critical section.
LocksAnyway(a) == call[a].at = "find"

Locks(a) == submission = Free /\ call[a].at = "find"

\* The key's job exists: its id, for a source that is gone or unchanged.
FindReused(a) ==
    /\ Locks(a)
    /\ \E r \in Reservations(call[a].key) :
          /\ Created(r.id)
          /\ IF /\ r.dry = call[a].dry
                /\ source.status = "deleted"
                   \/ (Finished /\ source.version = delivery[r.id].version)
             THEN Goes(a, "link", call[a].version, r.id)
             ELSE Return(a, "refused")
    /\ UNCHANGED <<source, lease, reserved, delivery, runs, faults>>

\* lease_export_input: exclusive, for as long as the files are read.
FindNew(a) ==
    /\ Locks(a)
    /\ LET found   == Reservations(call[a].key)
           agrees  == \A r \in found : r.dry = call[a].dry /\ r.version = source.version
           fresh   == {d \in Ids : ~Created(d) /\ \A r \in reserved : r.id # d}
       IN  /\ \A r \in found : ~Created(r.id)
           /\ IF \E r \in found : r.dry # call[a].dry THEN Return(a, "refused")
              ELSE IF lease # Free THEN Return(a, "busy")
              ELSE IF ~Finished \/ ~agrees THEN Return(a, "refused")
              ELSE IF found = {}
                   THEN /\ fresh # {}
                        /\ Goes(a, "reserve", source.version, CHOOSE d \in fresh : \A e \in fresh : d <= e)
                   ELSE Goes(a, "create", source.version, (CHOOSE r \in found : TRUE).id)
    /\ UNCHANGED <<source, lease, reserved, delivery, runs, faults>>

Reserve(a) ==
    /\ call[a].at = "reserve"
    /\ LET c == call[a] IN
       reserved' = reserved \cup {[key |-> c.key, dry |-> c.dry, version |-> c.version, id |-> c.id]}
    /\ call' = [call EXCEPT ![a].at = "create"]
    /\ UNCHANGED <<source, lease, submission, delivery, runs, faults>>

Enqueue(a) ==
    /\ call[a].at = "create"
    /\ delivery' = [delivery EXCEPT ![call[a].id] =
                      [state |-> "accepted", key |-> call[a].key, dry |-> call[a].dry,
                       version |-> call[a].version, outcome |-> "none"]]
    /\ call' = [call EXCEPT ![a].at = "link"]
    /\ UNCHANGED <<source, lease, submission, reserved, runs, faults>>

\* A source that is gone meanwhile is no error.
Link(a) ==
    /\ call[a].at = "link"
    /\ source' = IF source.status = "deleted" THEN source
                 ELSE [source EXCEPT !.links = @ \cup {call[a].id}]
    /\ Return(a, "done")
    /\ UNCHANGED <<lease, reserved, delivery, runs, faults>>

\* A store or lock error, or a mapping, renderer or target that changed.
SubmissionFails(a) ==
    /\ faults < MaxFaults /\ faults' = faults + 1
    /\ \/ Locks(a) /\ Return(a, "refused")
       \/ submission = a /\ Return(a, "busy")
    /\ UNCHANGED <<source, lease, reserved, delivery, runs>>

SubmitStep(a) == FindReused(a) \/ FindNew(a) \/ Reserve(a) \/ Enqueue(a) \/ Link(a)

-----------------------------------------------------------------------------
(* deliver_named_export, on the native job's thread.                        *)

\* Mutant: the worker sends whatever result it finds.
SameAny(d) == TRUE

Same(d) == source.version = delivery[d].version

\* Refused when the source is not what was submitted, or it or the export is in use.
StartDelivery(d) ==
    /\ delivery[d].state = "accepted"
    /\ \/ /\ lease = Free /\ Finished /\ Same(d)
          /\ lease' = d
          /\ delivery' = [delivery EXCEPT ![d].state = "running"]
       \/ /\ delivery' = [delivery EXCEPT ![d].state = "failed"]
          /\ UNCHANGED lease
    /\ UNCHANGED <<source, submission, reserved, call, runs, faults>>

EndDelivery(d) ==
    /\ delivery[d].state = "running" /\ lease' = Free
    /\ \/ \E outcome \in {"success", "conflicts", "unknown"} :
             delivery' = [delivery EXCEPT ![d].state = "successful", ![d].outcome = outcome]
       \/ \E state \in {"failed", "cancelled"} :
             delivery' = [delivery EXCEPT ![d].state = state]
    /\ UNCHANGED <<source, submission, reserved, call, runs, faults>>

DeliveryStep == \E d \in Ids : StartDelivery(d) \/ EndDelivery(d)

\* Mutant: the submission lock outlives the process that held it.
ExpCrashLocked ==
    /\ lease' = Free
    /\ call' = [a \in Callers |-> NoCall]
    /\ delivery' = [d \in Ids |-> IF delivery[d].state = "running"
                                  THEN [delivery[d] EXCEPT !.state = "accepted"] ELSE delivery[d]]
    /\ UNCHANGED <<submission, reserved, runs, faults>>

\* Locks go with the process; an interrupted delivery job is requeued.
ExpCrash ==
    /\ lease' = Free /\ submission' = Free
    /\ call' = [a \in Callers |-> NoCall]
    /\ delivery' = [d \in Ids |-> IF delivery[d].state = "running"
                                  THEN [delivery[d] EXCEPT !.state = "accepted"] ELSE delivery[d]]
    /\ UNCHANGED <<reserved, runs, faults>>

-----------------------------------------------------------------------------
ExpTypeOK ==
    /\ source \in [status : {"running", "finished", "failed", "deleted"},
                   version : 0..MaxVersion, links : SUBSET Ids]
    /\ lease \in Ids \cup {Free} /\ submission \in Callers \cup {Free}
    /\ \A r \in reserved : r.dry \in BOOLEAN /\ r.version \in 1..MaxVersion /\ r.id \in Ids
    /\ \A d \in Ids : /\ DOMAIN delivery[d] = DOMAIN NoJob
                      /\ delivery[d].state \in {"none", "accepted", "running", "successful",
                                                "failed", "cancelled"}
                      /\ delivery[d].version \in 0..MaxVersion
    /\ \A a \in Callers : /\ DOMAIN call[a] = DOMAIN NoCall
                          /\ call[a].at \in {"idle", "find", "reserve", "create", "link",
                                             "done", "busy", "refused"}
                          /\ submission = a <=> call[a].at \in {"reserve", "create", "link"}
    /\ runs \in 0..MaxRuns /\ faults \in 0..MaxFaults

(* Every delivery job belongs to its key, and a key to one job for ever:     *)
(* whoever submits again under it, after whatever crash, is given that job   *)
(* (exports/reservations.py, docs/web_interface.md:254-256).                 *)
KeyOwnsItsJob ==
    /\ \A d \in Ids : Created(d) => \E r \in Reservations(delivery[d].key) : r.id = d
    /\ \A r, s \in reserved : r.key = s.key => r = s

(* While a delivery job sends, the source is the finished result that was     *)
(* submitted: nobody deletes it, runs it again or sends it beside it, and a   *)
(* job requeued after a crash looks again before it sends.                    *)
SentIsSubmitted ==
    \A d \in Ids : delivery[d].state = "running" =>
        /\ lease = d /\ Finished
        /\ \E r \in reserved : /\ r.id = d /\ r.version = source.version
                               /\ r.dry = delivery[d].dry
=============================================================================
