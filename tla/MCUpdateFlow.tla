---------------------------- MODULE MCUpdateFlow ----------------------------
(* A native update and one of an openEO job, both read by the pipeline's     *)
(* first workflow and watched by the trigger; the second workflow reads one. *)
(* The consumers share nothing but the log, so the triggers are examined     *)
(* with the pipeline paused throughout and the pipeline with no trigger:     *)
(* once while the operator edits it, once while calls fail and time passes    *)
(* during the startup pass, where its races are.                             *)
EXTENDS UpdateFlow

CONSTANTS n1, o1, w1, w2, t1

MCReads      == [w \in Workflows |-> IF w = w1 THEN {n1, o1} ELSE {o1}]
MCOnUpdateOf == [t \in Triggers |-> {n1, o1}]
MCConfigs    == {{}, {t1}}

VARIABLE focus

MCInit == Init /\ focus \in {"edits", "time", "triggers"}
          /\ CASE focus = "triggers" -> record.mode = "paused"
               [] focus = "time"     -> record.mode = "dry_run" /\ record.workflow = w1
               [] OTHER              -> TRUE
MCNext == /\ Next
          /\ focus # "triggers" => configured' = {}
          /\ focus # "edits" => edits' = edits
          /\ focus # "time" => faults' = faults
          /\ clock' # clock => phase' # phase \/ (focus = "time" /\ phase = "listening")
          /\ UNCHANGED focus
MCSpec     == MCInit /\ [][MCNext]_<<vars, focus>>
MCFairSpec == MCSpec /\ Fairness
=============================================================================
