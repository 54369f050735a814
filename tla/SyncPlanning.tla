----------------------------- MODULE SyncPlanning -----------------------------
(***************************************************************************)
(* The syncs of one managed dataset (ingestions/sync_engine.py): a plan is *)
(* made from the stored coverage, the template and what the source has,    *)
(* then the ingest it asks for runs.  The source publishes, rolls and      *)
(* brings out new revisions; ingests of operators come in between.         *)
(*                                                                         *)
(* Periods are numbered.  The ingest is one step here, with the checks of  *)
(* ingestions/services.py _plan_streaming_materialization; ManagedStore    *)
(* has its steps.  Every ingestable template has a plugin, so the source   *)
(* is always asked.                                                        *)
(***************************************************************************)
EXTENDS Naturals

CONSTANTS
    MaxPeriod,   \* bound: periods
    MaxChanges,  \* bound: changes of the source and the template, each
    MaxIngests   \* bound: ingests of operators and interrupted syncs
ASSUME PlanAssumption == MaxPeriod \in Nat \ {0} /\ MaxChanges \in Nat /\ MaxIngests \in Nat

VARIABLES
    held,      \* the store and its record
    template,  \* sync.kind, sync.execution, sync.version
    source,    \* what the plugin configured for each release has
    run,       \* the sync under way, or its answer
    left       \* bounds

planVars == <<held, template, source, run, left>>

Periods  == 1..MaxPeriod
Unknown  == 0                \* no version: undeclared, or a record from before versions
Releases == 1..2
NoRun     == [at |-> "idle"]
Kinds    == {"temporal", "release", "static"}

\* The record may fall behind a store whose ingest was killed; it does not run ahead.
PlanInit ==
    /\ held \in [start : {1}, end : Periods, recorded : Periods, version : {Unknown, 1},
                 mixed : {FALSE}, icechunk : BOOLEAN]
    /\ held.recorded = held.end
    /\ template \in [kind : Kinds, append : BOOLEAN, version : {Unknown, 1}]
    /\ template.kind # "release" => template.version = Unknown /\ held.version = Unknown
    /\ source \in [first : {1}, last : [Releases -> 0..MaxPeriod]]
    /\ source.last[1] >= held.end
    /\ run = NoRun /\ left = [changes |-> MaxChanges, ingests |-> MaxIngests]

Least(m, n)   == IF m < n THEN m ELSE n
Greater(m, n) == IF m > n THEN m ELSE n

\* plugin.periods(from, to): a range, empty when its end is before its start.
Span(from, to) == [from |-> from, to |-> to]
IsEmpty(r)      == r.to < r.from
Revision(t)     == IF t.version = Unknown THEN 1 ELSE t.version
Available(t, from, to) == Span(Greater(from, source.first), Least(to, source.last[Revision(t)]))

(***************************************************************************)
(* plan_sync.                                                              *)
(***************************************************************************)
\* The committed periods, for an Icechunk store: the record may be behind them.
CurrentEnd == IF held.icechunk THEN held.end ELSE held.recorded

Wait(reason) == [action |-> "no_op", reason |-> reason]
Do(action, to, periods) == [action |-> action, reason |-> "new", to |-> to, periods |-> periods]
Unplanned == Span(1, 0)

PlanTemporal(target) ==
    LET delta == Available(template, CurrentEnd + 1, target) IN
    IF CurrentEnd + 1 > target \/ IsEmpty(delta) THEN Wait("no_new_period")
    ELSE IF template.append /\ held.icechunk THEN Do("append", delta.to, delta)
    ELSE Do("rematerialize", delta.to, Unplanned)

\* Mutant: only the end of what the source has is compared with the coverage.
CoversTail(all) == ~IsEmpty(all) /\ all.to >= CurrentEnd

\* Mutant: only its beginning is.
CoversHead(all) == ~IsEmpty(all) /\ all.from <= held.start

Covers(all) == ~IsEmpty(all) /\ all.to >= CurrentEnd /\ all.from <= held.start

\* A new release rewrites the span held: the source must have it all.
PlanRelease(target) ==
    LET upto == Greater(target, CurrentEnd)
        all  == Available(template, held.start, upto)
    IN  IF Covers(all) THEN Do("rematerialize", all.to, all) ELSE Wait("release_version_unavailable")

PlanPeriods(target) ==
    LET found == Available(template, CurrentEnd, target) IN
    IF IsEmpty(found) \/ CurrentEnd >= found.to THEN Wait("no_new_release")
    ELSE Do("rematerialize", found.to, Unplanned)

NewRelease == template.version # Unknown /\ template.version # held.version

PlanFor(target) ==
    CASE template.kind = "static"                  -> Wait("static_dataset")
      [] template.kind = "temporal"                -> PlanTemporal(target)
      [] template.kind = "release" /\ NewRelease   -> PlanRelease(target)
      [] template.kind = "release" /\ ~NewRelease  -> PlanPeriods(target)

(***************************************************************************)
(* run_sync.                                                               *)
(***************************************************************************)
\* The end asked for, or today.
Plan ==
    /\ run.at # "planned"
    /\ \E target \in Periods :
          run' = [at |-> "planned", plan |-> PlanFor(target), target |-> target, template |-> template,
                  alone |-> TRUE, fresh |-> TRUE, before |-> held]
    /\ UNCHANGED <<held, template, source, left>>

Answered(status) == run' = [run EXCEPT !.at = status]

\* Mutant: whatever is not to be done is current.
StatusCurrent(reason) == IF reason = "static_dataset" THEN "not_syncable" ELSE "up_to_date"

Status(reason) ==
    CASE reason = "release_version_unavailable" -> "waiting_for_source"
      [] reason = "static_dataset"              -> "not_syncable"
      [] OTHER                                  -> "up_to_date"

Skip ==
    /\ run.at = "planned" /\ run.plan.action = "no_op"
    /\ Answered(Status(run.plan.reason))
    /\ UNCHANGED <<held, template, source, left>>

\* fetch_period: what the source has forgotten meanwhile can only fail, and all else may.
CanFetch(r) == r.from >= source.first /\ r.to <= source.last[Revision(run.template)]
SyncFails   == Answered("failed")

\* The committed periods stay in a forward extension; one that is already there is no failure.
\* A fetch that fails keeps what was committed before it, and the record says nothing of it.
Append ==
    /\ run.at = "planned" /\ run.plan.action = "append"
    /\ LET delta == Span(Greater(run.plan.periods.from, held.end + 1), run.plan.periods.to) IN
       \/ IsEmpty(delta) /\ Answered("completed") /\ held' = [held EXCEPT !.recorded = held.end]
       \/ ~IsEmpty(delta) /\ delta.from > held.end + 1 /\ Answered("refused") /\ UNCHANGED held
       \/ ~IsEmpty(delta) /\ delta.from = held.end + 1 /\ CanFetch(delta) /\ Answered("completed")
          /\ held' = [held EXCEPT !.end = delta.to, !.recorded = delta.to,
                                  !.version = run.template.version]
       \/ ~IsEmpty(delta) /\ delta.from = held.end + 1 /\ SyncFails
          /\ \E upto \in held.end..(delta.to - 1) :
                /\ upto > held.end => CanFetch(Span(delta.from, upto))
                /\ held' = [held EXCEPT !.end = upto]
    /\ UNCHANGED <<template, source, left>>

\* A plan with periods is executed with them; one without asks the source again.
Rewritten == IF IsEmpty(run.plan.periods) THEN Available(run.template, run.before.start, run.plan.to)
             ELSE run.plan.periods

\* Mutant: the rewritten store keeps the release of its record.
StampedNever == held.version

Stamped == run.template.version

\* Its periods are checked before the first fetch; a rewrite that fails leaves the store.
Rematerialize ==
    /\ run.at = "planned" /\ run.plan.action = "rematerialize"
    /\ IF IsEmpty(Rewritten) \/ Rewritten.from # run.before.start
       THEN Answered("refused") /\ UNCHANGED held
       ELSE \/ SyncFails /\ UNCHANGED held
            \/ /\ CanFetch(Rewritten) /\ Answered("completed")
               /\ held' = [start |-> run.before.start, end |-> Rewritten.to, recorded |-> Rewritten.to,
                           version |-> Stamped, mixed |-> FALSE, icechunk |-> TRUE]
    /\ UNCHANGED <<template, source, left>>

(***************************************************************************)
(* What goes on meanwhile.                                                 *)
(***************************************************************************)
Changes == left.changes > 0 /\ left' = [left EXCEPT !.changes = @ - 1]
Other  == left.ingests > 0 /\ left' = [left EXCEPT !.ingests = @ - 1]

\* What happens while a sync has its plan is noted; what happens later ends its answer.
Note(field) == run' = IF run.at = "planned" THEN [run EXCEPT ![field] = FALSE] ELSE NoRun

\* The source publishes; a rolling one forgets its beginning.
SourceMoves ==
    /\ Changes
    /\ \/ \E v \in Releases : source.last[v] < MaxPeriod /\ source' = [source EXCEPT !.last[v] = @ + 1]
       \/ source.first < MaxPeriod /\ source' = [source EXCEPT !.first = @ + 1]
    /\ Note("fresh")
    /\ UNCHANGED <<held, template>>

\* The operator declares the next release.
Declare ==
    /\ Changes /\ template.kind = "release" /\ template.version < 2
    /\ template' = [template EXCEPT !.version = @ + 1]
    /\ Note("fresh")
    /\ UNCHANGED <<held, source>>

\* An ingest of the next period, in full or killed before its record.  The record
\* takes the release the template declares, whatever the periods before are of.
Ingest ==
    /\ Other /\ held.icechunk /\ held.end < source.last[Revision(template)]
    /\ \/ held' = [held EXCEPT !.end = @ + 1, !.recorded = held.end + 1, !.version = template.version,
                               !.mixed = @ \/ held.version # template.version]
       \/ held' = [held EXCEPT !.end = @ + 1, !.mixed = @ \/ held.version # template.version]
    /\ Note("alone")
    /\ UNCHANGED <<template, source>>

PlanNext == Plan \/ Skip \/ Append \/ Rematerialize \/ SourceMoves \/ Declare \/ Ingest

PlanSpec == PlanInit /\ [][PlanNext]_planVars

(***************************************************************************)
(* Properties.                                                             *)
(***************************************************************************)
PlanTypeOK ==
    /\ held \in [start : {1}, end : Periods, recorded : Periods, version : 0..2,
                 mixed : BOOLEAN, icechunk : BOOLEAN]
    /\ held.recorded <= held.end
    /\ template \in [kind : Kinds, append : BOOLEAN, version : 0..2]
    /\ source.first \in Periods /\ source.last \in [Releases -> 0..MaxPeriod]

(* A sync never shortens a dataset, not for a new release either: an append  *)
(* whatever other ingests do between its plan and its own, a rewrite when    *)
(* none ends there.  (A rewrite planned before another ingest ended does     *)
(* shorten what that one added.)                                             *)
SyncKeepsCoverage ==
    [][run.at = "planned" /\ (run.alone \/ run.plan.action = "append") => held'.end >= held.end]_planVars

(* Once a sync has completed, the same sync has nothing left to do: a       *)
(* changed or unknown release is rewritten once, not at every check.        *)
CompletedSettles ==
    run.at = "completed" /\ run.fresh /\ run.alone => PlanFor(run.target).action = "no_op"

(* A plan for a new release is never refused when it is carried out, as one  *)
(* whose periods do not begin where the store does is (sync_engine.py:       *)
(* 231-235): the plan carries the periods it was made from, whatever the     *)
(* source offers by then.  It may still fail, at the fetch of a period the   *)
(* source has forgotten meanwhile, or never had (sync_engine.py:246-252);    *)
(* the dataset is then as it was.                                            *)
ReleasePlansExecute ==
    [][run.at = "planned" /\ run.template.version # Unknown /\ run.template.version # run.before.version
          => run'.at # "refused" /\ (run'.at = "failed" => held' = held)]_planVars

(* A dataset is called current only if it has all that the source has up to *)
(* the end asked for, of the release its template declares.                 *)
UpToDateIsCurrent ==
    run.at = "up_to_date" /\ run.fresh /\ run.alone =>
        /\ template.version \in {Unknown, held.version}
        /\ IsEmpty(Available(template, held.end + 1, run.target))

(* What a sync answers holds (done is done, and current is current), and    *)
(* what it planned is not refused and loses nothing; whether the source then *)
(* gives it the periods is not the plan's to promise.                        *)
PlansHold == /\ [](CompletedSettles /\ UpToDateIsCurrent)
             /\ SyncKeepsCoverage /\ ReleasePlansExecute

(* docs/adding_custom_datasets.md:318: after a new release is declared, the *)
(* next sync rewrites the dataset: none says it is current before.          *)
BumpIsRewritten == run.at = "up_to_date" /\ template.version # Unknown => ~held.mixed
=============================================================================
