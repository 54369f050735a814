-------------------------- MODULE PublicationLedger --------------------------
(***************************************************************************)
(* What the publication protocol of openeo/jobs.py promises, with no       *)
(* process, attempt or recovery in it.  A commit to a managed store lands  *)
(* in one place and its event is recorded in another, later; between the   *)
(* two, which a crash may stretch, the job can neither commit again nor be *)
(* asked to cancel, and a job asked to cancel commits nothing.             *)
(***************************************************************************)
EXTENDS Naturals

CONSTANT Jobs

VARIABLES
    landed,    \* commits of a job in the store
    recorded,  \* events on the job's record
    asked      \* whether its cancellation is asked for

vars == <<landed, recorded, asked>>

Settled(j) == recorded[j] = landed[j]

Init ==
    /\ landed = [j \in Jobs |-> 0]
    /\ recorded = [j \in Jobs |-> 0]
    /\ asked = [j \in Jobs |-> FALSE]

Land(j) ==
    /\ Settled(j) /\ ~asked[j]
    /\ landed' = [landed EXCEPT ![j] = @ + 1]
    /\ UNCHANGED <<recorded, asked>>

Record(j) ==
    /\ ~Settled(j)
    /\ recorded' = [recorded EXCEPT ![j] = landed[j]]
    /\ UNCHANGED <<landed, asked>>

AskToCancel(j) ==
    /\ Settled(j)
    /\ asked' = [asked EXCEPT ![j] = TRUE]
    /\ UNCHANGED <<landed, recorded>>

(* A new run does not inherit the request. *)
AskToRun(j) ==
    /\ asked' = [asked EXCEPT ![j] = FALSE]
    /\ UNCHANGED <<landed, recorded>>

Next == \E j \in Jobs : Land(j) \/ Record(j) \/ AskToCancel(j) \/ AskToRun(j)

Spec == Init /\ [][Next]_vars

=============================================================================
