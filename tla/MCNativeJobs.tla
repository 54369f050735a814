---------------------------- MODULE MCNativeJobs ----------------------------
(***************************************************************************)
(* One server process, stopped, crashed and started again: with one job,   *)
(* which competes with an openEO job for the slot, or with two.            *)
(***************************************************************************)
EXTENDS NativeJobs

CONSTANTS p1, w1, w2, v1, m1, h1, j1, j2

MCProcs == {p1}
MCMains == {m1}
MCHome  == [t \in Threads |-> p1]

Alone == status'[j2] = "none" /\ pc'[w2] = "idle"

(* Two jobs meet one restart less, and no openEO job. *)
Paired ==
    /\ openeo'[p1] = OpenEORuns
    /\ starts' < MaxStarts
    /\ starts' = MaxStarts - 1 => mode'[p1] \notin {"stopping", "down"}

OneOrTwo == Alone \/ Paired

MCSpec == Spec /\ Fairness

=============================================================================
