---------------------------- MODULE JobLifecycle ----------------------------
(***************************************************************************)
(* What the job API promises of one job record, with no process, thread,   *)
(* lease or queue in it: a job waits, runs and ends; failed attempts are   *)
(* counted against a budget and interrupted ones are not; a cancellation   *)
(* asked for while the job waits ends it without another attempt.          *)
(***************************************************************************)
EXTENDS Naturals

CONSTANTS Jobs, MaxAttempts

VARIABLES state, failed, asked

vars == <<state, failed, asked>>

Ended == {"SUCCESSFUL", "FAILED", "CANCELLED"}

Init ==
    /\ state = [j \in Jobs |-> "none"]
    /\ failed = [j \in Jobs |-> 0]
    /\ asked = [j \in Jobs |-> FALSE]

Move(j, from, to) ==
    /\ state[j] = from
    /\ state' = [state EXCEPT ![j] = to]

(* A job is accepted, or recorded as already done. *)
Accept(j) ==
    /\ \E s \in {"waiting", "SUCCESSFUL"} : Move(j, "none", s)
    /\ UNCHANGED <<failed, asked>>

AskToCancel(j) ==
    /\ state[j] \in {"waiting", "running"}
    /\ asked' = [asked EXCEPT ![j] = TRUE]
    /\ UNCHANGED <<state, failed>>

Begin(j) ==
    /\ ~asked[j] /\ failed[j] < MaxAttempts
    /\ Move(j, "waiting", "running")
    /\ UNCHANGED <<failed, asked>>

Succeed(j) ==
    /\ Move(j, "running", "SUCCESSFUL")
    /\ UNCHANGED <<failed, asked>>

Fail(j) ==
    /\ Move(j, "running", IF failed[j] + 1 < MaxAttempts THEN "waiting" ELSE "FAILED")
    /\ failed' = [failed EXCEPT ![j] = @ + 1]
    /\ UNCHANGED asked

(* The attempt was cut off; it is not held against the job. *)
Interrupt(j) ==
    /\ ~asked[j]
    /\ Move(j, "running", "waiting")
    /\ UNCHANGED <<failed, asked>>

Cancel(j) ==
    /\ asked[j]
    /\ \E s \in {"waiting", "running"} : Move(j, s, "CANCELLED")
    /\ UNCHANGED <<failed, asked>>

Next ==
    \E j \in Jobs :
        \/ Accept(j) \/ AskToCancel(j) \/ Begin(j) \/ Succeed(j)
        \/ Fail(j) \/ Interrupt(j) \/ Cancel(j)

Spec == Init /\ [][Next]_vars

=============================================================================
