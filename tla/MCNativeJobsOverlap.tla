------------------------ MODULE MCNativeJobsOverlap ------------------------
(* Two server processes over one data directory: an overlapping restart. *)
EXTENDS NativeJobs, TLC

CONSTANTS p1, p2, w1, w2, v1, v2, v3, v4, m1, m2, h1, h2, j1

MCProcs == {p1, p2}
MCMains == {m1, m2}
MCHome  == [t \in Threads |-> IF t \in {w1, v1, v3, m1, h1} THEN p1 ELSE p2]

(* The watcher threads of the second process are interchangeable. *)
WatcherSymmetry == Permutations({v2, v4})

(* The processes are alike, so p1 is the one that starts first; and the    *)
(* second process's request thread works only while its watchers do not.   *)
FirstThenSecond ==
    /\ starts' = 1 => mode'[p2] = "down"
    /\ pc'[h2] = "idle" \/ (pc'[v2] = "idle" /\ pc'[v4] = "idle")

=============================================================================
