-------------------------- MODULE MCOpenEOJobsRerun --------------------------
(***************************************************************************)
(* One process: a triggered job that is run, cancelled and run again by    *)
(* two users, or two jobs that publish the same dataset.                   *)
(***************************************************************************)
EXTENDS OpenEOJobs, TLC

CONSTANTS p1, w1, w2, v1, m1, h1, h2, j1, j2, j3

MCProcs == {p1}
MCMains == {m1}
MCHome  == [t \in Threads |-> p1]

(* The second user is not there when the server is restarted. *)
OneRunAgain ==
    /\ \A j \in {j2, j3} : rec'[j].status = "none"
    /\ pc'[w2] = "idle"
    /\ starts' = MaxStarts => pc'[h2] = "idle"

TwoRunOnce ==
    /\ rec'[j1].status = "none" /\ pc'[h2] = "idle"
    /\ \A j \in {j2, j3} : runs'[j] <= 1

OneOrTwo == OneRunAgain \/ TwoRunOnce

(* The two jobs that run once are interchangeable. *)
JobSymmetry == Permutations({j2, j3})

=============================================================================
