---------------------------- MODULE MCOpenEOJobs ----------------------------
(***************************************************************************)
(* One server process, stopped, crashed and started again, with a          *)
(* triggered job that publishes a managed dataset or with one that does    *)
(* not and may be cancelled.                                               *)
(***************************************************************************)
EXTENDS OpenEOJobs

CONSTANTS p1, w1, v1, m1, h1, managed, plain

MCProcs == {p1}
MCMains == {m1}
MCHome  == [t \in Threads |-> p1]

(* No ingestion writes while the job that publishes nothing is there. *)
OneJob ==
    \/ rec'[plain].status = "none"
    \/ rec'[managed].status = "none" /\ history' = <<>> /\ writer' = NoThread /\ ingests' = 0

MCSpec == Spec /\ Fairness

=============================================================================
