---------------------------- MODULE MCDeliveries ----------------------------
(* One source, delivered by a pipeline, a trigger or two clients; or one      *)
(* delivery job seen from inside.  The four share no behaviour, so each is    *)
(* examined with the others at rest, and each several times: with more of     *)
(* one kind of trouble (restarts, runs and deletions of the source, failures, *)
(* requests) and less of another.                                             *)
EXTENDS DeliveryFlow, ChunkedSend

CONSTANTS finish, recover, operator, hook, sweep, c1, c2

VARIABLE focus     \* the trouble of this behaviour; none for a send

Trouble(s, r, f, q) == [starts |-> s, runs |-> r, faults |-> f, requests |-> q]
Sending == Trouble(0, 0, 0, 0)

Focuses ==
    CASE owner = "pipeline" -> {Trouble(2, 0, 1, 0), Trouble(2, 0, 0, 1), Trouble(1, 1, 0, 0), Trouble(1, 0, 0, 2)}
      [] owner = "trigger"  -> {Trouble(2, 1, 0, 0), Trouble(2, 0, 1, 0)}
      [] owner = "client"   -> {Trouble(2, 1, 0, 0), Sending}

\* How a delivery ends matters to a pipeline only; not all of it to two requests at once, which are of live runs.
Told == IF owner # "pipeline" THEN {"none", "success"}
        ELSE IF focus.requests > 1 THEN {"none", "conflicts"}
        ELSE {"none", "success", "conflicts", "unknown"}

Within == /\ epoch' <= focus.starts /\ (phase' = "down" => epoch' < focus.starts) /\ faults' <= focus.faults
          /\ runs' <= focus.runs /\ requests' <= focus.requests
          /\ source'.status = "deleted" => focus.runs > 0
          /\ mode' \in {run.mode, "paused"}   \* the third holds a live run, and is no hold of a dry one
          /\ \A d \in Ids : delivery'[d].outcome \in Told
          /\ owner # "trigger" => boundary' = NoStep /\ host' # "old"

MCInit == /\ Init /\ SendInit /\ focus \in Focuses
          /\ mode \in {run.mode, "paused"}
          /\ owner # "pipeline" => run.mode = "dry_run" /\ mode = "dry_run"
          /\ focus.requests > 0 => run.mode = "live" /\ mode = "live"

MCNext == /\ UNCHANGED focus
          /\ \/ focus # Sending /\ Next /\ Within /\ UNCHANGED sendVars
             \/ focus = Sending /\ SendNext /\ UNCHANGED vars

MCSpec     == MCInit /\ [][MCNext]_<<vars, sendVars, focus>>
\* Fairness and SendFairness, one of which has something to say.
MCFairness == WF_<<vars, sendVars>>(\/ focus # Sending /\ Progress /\ Within /\ UNCHANGED sendVars
                                    \/ focus = Sending /\ Worker /\ UNCHANGED vars)
MCFairSpec == MCSpec /\ MCFairness

(* Every variable of the two has its type. *)
MCTypeOK == TypeOK /\ SendTypeOK

(* Every delivery that is owed is handed off, and every one that sends ends.  *)
DeliveriesSettle == OwedIsSubmitted /\ ResultsAreHandedOff /\ EverySendEnds
=============================================================================
