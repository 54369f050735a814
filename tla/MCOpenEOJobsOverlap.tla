------------------------ MODULE MCOpenEOJobsOverlap ------------------------
(* Two server processes over one data directory: an overlapping restart. *)
EXTENDS OpenEOJobs

CONSTANTS p1, p2, w1, w2, v1, v2, m1, m2, h1, j1

MCProcs == {p1, p2}
MCMains == {m1, m2}
MCHome  == [t \in Threads |-> IF t \in {w1, v1, m1, h1} THEN p1 ELSE p2]

=============================================================================
