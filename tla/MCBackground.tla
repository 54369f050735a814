----------------------------- MODULE MCBackground -----------------------------
(***************************************************************************)
(* What runs behind the requests: the scheduler (its clock, or its checks),*)
(* the refreshes of a feature collection and the planning of syncs.  They  *)
(* share no state, so each behaviour looks at one of them.                 *)
(***************************************************************************)
EXTENDS Scheduler, FeatureCollections, SyncPlanning

CONSTANTS d1, d2, daily, provincial

VARIABLE focus
mcVars == <<schedVars, featVars, planVars, focus>>

\* One schedule at first, of two datasets that can be synced.
OneSchedule == store.of[d1] # None /\ store.of[d1].enabled /\ store.of[d2] = None

Planned ==
    /\ held = [start |-> 1, end |-> 1, recorded |-> 1, version |-> Unknown, mixed |-> FALSE, icechunk |-> TRUE]
    /\ template = [kind |-> "static", append |-> FALSE, version |-> Unknown]
    /\ source.last = [v \in Releases |-> 1]

MCInit ==
    /\ focus \in {"clock", "checks", "features", "plans"}
    /\ SchedInit /\ OneSchedule /\ FeatInit /\ PlanInit
    /\ focus # "plans" => Planned

MCNext ==
    /\ UNCHANGED focus
    /\ \/ focus = "clock"    /\ SchedNext /\ UNCHANGED <<syncs, featVars, planVars>>
       \/ focus = "checks"   /\ SchedNext /\ UNCHANGED <<featVars, planVars>>
          /\ spent'.faults = 0 /\ spent'.writes <= 1 /\ syncs'[d2] = syncs[d2]
       \/ focus = "features" /\ FeatNext  /\ UNCHANGED <<schedVars, planVars>>
       \/ focus = "plans"    /\ PlanNext  /\ UNCHANGED <<schedVars, featVars>>

\* The watch of the clock's process; the rest may stop anywhere.
MCSpec == MCInit /\ [][MCNext]_mcVars /\ SchedFairness

(* Every variable of the three has its type. *)
MCTypeOK == SchedTypeOK /\ FeatTypeOK /\ PlanTypeOK
=============================================================================
