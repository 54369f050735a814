---------------------------- MODULE ManagedStore ----------------------------
(***************************************************************************)
(* Ingests of one managed dataset (ingestions/services.py                  *)
(* _create_streaming_artifact), its directories on disk, the index of      *)
(* artifact records and the maintenance of main.py.                        *)
(*                                                                         *)
(* An append commits period by period to the published store, under a      *)
(* rollback branch; a prepend or overwrite builds a replacement beside it, *)
(* and a pyramid is rebuilt beside it too.  A replacement takes its place  *)
(* by two renames, is registered, and only then is the old store removed.  *)
(* The process may be killed before any step, and most steps may fail.     *)
(* The writer lock is held while pc is not idle.                           *)
(***************************************************************************)
EXTENDS StreamingIngest

CONSTANTS
    Requests,      \* [from, to, over]: the scopes asked for, overwriting or not
    MaxIngests,    \* bound: ingests
    MaxFaults,     \* bound: steps that fail
    MaxKills       \* bound: kills of the process

ASSUME StoreAssumption ==
    /\ Requests \subseteq [from : Periods, to : Periods, over : BOOLEAN]
    /\ MaxIngests \in Nat /\ MaxFaults \in Nat /\ MaxKills \in Nat

VARIABLES
    disk,       \* the store and the directories beside it
    marker,     \* of a pending collection, by age
    records,    \* the artifact index, oldest first
    pc, job,    \* the ingest that holds the lock, or how the last one ended
    found,      \* the published data it found (for a property)
    ingests, faults, kills   \* so far (bounds)

storeVars == <<stream, asked, disk, marker, records, pc, job, found, ingests, faults, kills>>
bounds    == <<ingests, faults, kills>>

\* The last two are beside the replacement: its rebuild, and what that replaces.
Paths == {"target", "retired", "failed", "replacement", "rebuild", "draft", "spare"}

Nothing == [periods |-> <<>>, version |-> 0]

\* The data main reaches, the snapshot a rollback branch holds, and what no branch
\* reaches: which ingest's, and whether it is an hour old.
Absent == [there |-> FALSE, data |-> Nothing, branch |-> Nothing, waste |-> {}]
Empty  == [Absent EXCEPT !.there = TRUE]

\* path is where it writes; committed, that it found data; done, that every period is
\* written; swapped, that the old store is retired; broken, that a rollback failed; and,
\* for the properties, unmarked, that what a rollback left is not (surely) marked, and
\* untidy, that what its recovery could not remove is still there.
NoJob == [request |-> [from |-> 1, to |-> 1, over |-> FALSE], action |-> "none", path |-> "target",
          committed |-> FALSE, done |-> FALSE, branched |-> FALSE, swapped |-> FALSE,
          broken |-> FALSE, unmarked |-> FALSE, untidy |-> FALSE, result |-> "none"]

Target == disk["target"]
There(p) == disk[p].there

StoreInit ==
    /\ StreamInit
    /\ disk = [p \in Paths |-> Absent] /\ marker = "none" /\ records = <<>>
    /\ pc = "idle" /\ job = NoJob /\ found = Nothing
    /\ ingests = 0 /\ faults = 0 /\ kills = 0

Go(next)  == pc' = next
Fault     == faults < MaxFaults /\ faults' = faults + 1
NoFault   == UNCHANGED faults
Same      == UNCHANGED <<stream, asked>>

-----------------------------------------------------------------------------
(* recover_interrupted_swap, before anything looks at the store.            *)

Request(r) ==
    /\ pc = "idle" /\ ingests < MaxIngests
    /\ ingests' = ingests + 1
    /\ job' = [NoJob EXCEPT !.request = r]
    /\ asked' = FALSE /\ Go("restore")
    /\ UNCHANGED <<stream, disk, marker, records, found, faults, kills>>

Moved(p, q) == [disk EXCEPT ![q] = disk[p], ![p] = Absent]
Removed(ps) == [p \in Paths |-> IF p \in ps THEN Absent ELSE disk[p]]

\* Mutant: the store is planned on as it is found.
RestoreNever ==
    /\ pc = "restore"
    /\ Go("sweep") /\ Same /\ UNCHANGED <<disk, marker, records, job, found, bounds>>

Restore ==
    /\ pc = "restore"
    /\ disk' = IF ~There("target") /\ There("retired") THEN Moved("retired", "target") ELSE disk
    /\ Go("sweep") /\ Same /\ UNCHANGED <<marker, records, job, found, bounds>>

\* Mutant: an interrupted rebuild is left for the next one to overwrite.
SweepNothing ==
    /\ pc = "sweep" /\ Go("branches")
    /\ Same /\ UNCHANGED <<disk, marker, records, job, found, bounds>>

\* A rebuild that cannot be removed is left, with a warning.
SweepLeftovers ==
    /\ pc = "sweep"
    /\ \E swept \in BOOLEAN :
          /\ IF swept THEN NoFault ELSE There("rebuild") /\ Fault
          /\ disk' = Removed((IF swept THEN {"rebuild"} ELSE {}) \cup (IF There("target") THEN {"failed"} ELSE {}))
          /\ IF ~There("target") /\ There("failed")
             THEN Go("release") /\ job' = [job EXCEPT !.result = "failed"]
             ELSE Go("branches") /\ job' = [job EXCEPT !.untidy = ~swept]
    /\ Same /\ UNCHANGED <<marker, records, found, ingests, kills>>

\* A branch that a killed ingest left; where it cannot be removed nothing is collected.
Branches ==
    /\ pc = "branches"
    /\ \/ Target.branch = Nothing /\ Go("pending") /\ NoFault /\ UNCHANGED <<disk, job>>
       \/ /\ Target.branch # Nothing /\ NoFault
          /\ disk' = [disk EXCEPT !["target"].branch = Nothing]
          /\ Go("collect") /\ UNCHANGED job
       \/ /\ Target.branch # Nothing /\ Fault
          /\ job' = [job EXCEPT !.untidy = TRUE]
          /\ Go("plan") /\ UNCHANGED disk
    /\ Same /\ UNCHANGED <<marker, records, found, ingests, kills>>

Collected == [disk EXCEPT !["target"].waste = {w \in @ : ~w.old}]

\* collect_unreachable_objects, then _mark_collection_pending, in recovery or in rollback:
\* neither raises.
Collect ==
    /\ pc = "collect"
    /\ \/ disk' = Collected /\ NoFault
       \/ Fault /\ UNCHANGED disk
    /\ Go("mark") /\ Same /\ UNCHANGED <<marker, records, job, found, ingests, kills>>

\* A mark that could not be written is as it was, or unreadable: due at once.
BadMark == {marker, "old"}

Mark ==
    /\ pc = "mark"
    /\ \/ marker' = "new" /\ NoFault /\ UNCHANGED job
       \/ marker' \in BadMark /\ Fault /\ job' = [job EXCEPT !.unmarked = TRUE]
    /\ Go(IF job.action = "none" THEN "pending" ELSE "release")
    /\ Same /\ UNCHANGED <<disk, records, found, ingests, kills>>

\* collect_pending_garbage: an hour after the mark, which stays if the collection fails,
\* and is dropped where there is no store.
CollectIfDue ==
    \/ marker # "old" /\ NoFault /\ UNCHANGED <<disk, marker>>
    \/ marker = "old" /\ NoFault /\ disk' = Collected /\ marker' = "none"
    \/ marker = "old" /\ There("target") /\ Fault /\ UNCHANGED <<disk, marker>>

Pending ==
    /\ pc = "pending" /\ CollectIfDue
    /\ Go("plan") /\ Same /\ UNCHANGED <<records, job, found, ingests, kills>>

-----------------------------------------------------------------------------
(* _plan_streaming_materialization, with what the source has by then.       *)

Greater(m, n) == IF m > n THEN m ELSE n
Sequence(m, n) == [i \in 1..(IF n < m THEN 0 ELSE n - m + 1) |-> m + i - 1]

Refuse == Go("release") /\ job' = [job EXCEPT !.result = "failed"] /\ UNCHANGED <<stream, disk, found>>

Planned(action, path) ==
    /\ job' = [job EXCEPT !.action = action, !.path = path, !.committed = Target.data # Nothing]
    /\ found' = Target.data

Forward(first, last) ==
    LET periods == Target.data.periods
        expected == periods[Len(periods)] + 1
        upto     == Least(job.request.to, last)
    IN  IF upto < expected THEN Planned("no_op", "target") /\ Go("known") /\ UNCHANGED <<stream, disk>>
        ELSE IF first > expected THEN Refuse
        ELSE /\ Planned("append", "target")
             /\ StreamStart(Sequence(expected, upto))
             /\ Go("branch") /\ UNCHANGED disk

\* A new version, in place where there is none yet, or beside the published one.
Whole(from, to, first, last, action) ==
    LET beside == There("target") /\ action = "rematerialize"
        path   == IF beside THEN "replacement" ELSE "target"
    IN  IF first > from \/ Least(to, last) < from THEN Refuse
        ELSE /\ Planned(action, path)
             /\ disk' = [disk EXCEPT ![path] = IF There(path) /\ ~beside THEN @ ELSE Empty]
             /\ StreamStart(Sequence(from, Least(to, last)))
             /\ Go("fetch")

Plan ==
    /\ pc = "plan"
    /\ \E first \in {1, job.request.from}, last \in Periods :
          LET r == job.request
              held == Target.data.periods
              from == IF held = <<>> \/ r.over THEN r.from ELSE Least(r.from, held[1])
              to   == IF held = <<>> \/ r.over THEN r.to ELSE Greater(r.to, held[Len(held)])
          IN  CASE r.over \/ held = <<>> ->
                       Whole(from, to, first, last, IF r.over THEN "rematerialize" ELSE "append")
                [] ~r.over /\ held # <<>> /\ from = held[1] -> Forward(first, last)
                [] ~r.over /\ held # <<>> /\ from < held[1] ->
                       IF last < held[Len(held)] THEN Refuse
                       ELSE Whole(from, to, first, last, "rematerialize")
    /\ UNCHANGED <<asked, marker, records, bounds>>

\* Nothing to fetch: the record is current, or is registered again.
Latest == IF records = <<>> THEN <<>> ELSE records[Len(records)].periods

\* Mutant: any record will do.
KnownAlways ==
    /\ pc = "known"
    /\ Go("release") /\ job' = [job EXCEPT !.result = "stored"]
    /\ Same /\ UNCHANGED <<disk, marker, records, found, bounds>>

Known ==
    /\ pc = "known"
    /\ IF Latest = Target.data.periods
       THEN Go("release") /\ job' = [job EXCEPT !.result = "stored"]
       ELSE Go("normalize") /\ UNCHANGED job
    /\ Same /\ UNCHANGED <<disk, marker, records, found, bounds>>

Branch ==
    /\ pc = "branch"
    /\ disk' = [disk EXCEPT !["target"].branch = Target.data]
    /\ job' = [job EXCEPT !.branched = TRUE]
    /\ Go("fetch") /\ Same /\ UNCHANGED <<marker, records, found, bounds>>

-----------------------------------------------------------------------------
(* The fetch, and what follows it.                                          *)

Cancel == pc = "fetch" /\ Running /\ ~asked /\ asked' = TRUE
          /\ UNCHANGED <<stream, disk, marker, records, pc, job, found, bounds>>

Fetch ==
    /\ pc = "fetch"
    /\ \/ (Await \/ FetchEnds("fetched")) /\ NoFault
       \/ FetchEnds("failed") /\ Fault
       \/ (Cancelled \/ FetchFailed) /\ NoFault /\ UNCHANGED asked
    /\ UNCHANGED <<disk, marker, records, pc, job, found, ingests, kills>>

CommitPeriod ==
    /\ pc = "fetch" /\ stream.state = "awaiting"
    /\ \E i \in Ready :
          \/ /\ disk' = [disk EXCEPT ![job.path].data =
                           [periods |-> Append(@.periods, stream.window[i].period),
                            version |-> IF @ = Nothing THEN ingests ELSE @.version]]
             /\ Committed(i) /\ NoFault
          \/ Fault /\ StreamFails /\ UNCHANGED disk
    /\ UNCHANGED <<asked, marker, records, pc, job, found, ingests, kills>>

Fetched ==
    /\ pc = "fetch" /\ stream.state \in {"done", "failed"}
    /\ stream' = NoStream
    /\ IF stream.state = "done" THEN Go("normalize") /\ job' = [job EXCEPT !.done = TRUE]
                                ELSE Go("unwind") /\ UNCHANGED job
    /\ UNCHANGED <<asked, disk, marker, records, found, bounds>>

Replacing == job.path = "replacement"
Onward == Go(IF Replacing THEN "aside" ELSE "register")

\* A store that was never normalized may be registered, but no update of one.
NotNormalized == IF job.action # "no_op" /\ job.committed THEN Go("unwind") ELSE Onward

Draft == IF Replacing THEN "draft" ELSE "rebuild"

\* The coverage is validated; then _maybe_build_pyramid: nothing to do or done in place,
\* or built beside the store that was written.
Normalize ==
    /\ pc = "normalize"
    /\ \/ Onward /\ NoFault /\ UNCHANGED disk
       \/ /\ disk' = [disk EXCEPT ![Draft] = [Empty EXCEPT !.data = disk[job.path].data]]
          /\ Go(IF Replacing THEN "exchange" ELSE "aside") /\ NoFault
       \/ Fault /\ disk' \in {disk, Removed({Draft})} /\ (NotNormalized \/ Go("unwind"))
    /\ Same /\ UNCHANGED <<marker, records, job, found, ingests, kills>>

\* The swap of a rebuilt replacement, which nobody reads yet.
Exchange ==
    /\ pc = "exchange"
    /\ \/ disk' = Moved("replacement", "spare") /\ Go("install") /\ NoFault
       \/ Fault /\ NotNormalized /\ disk' = Removed({"draft"})
    /\ Same /\ UNCHANGED <<marker, records, job, found, ingests, kills>>

Install ==
    /\ pc = "install"
    /\ \/ Onward /\ NoFault /\ disk' = [Moved("draft", "replacement") EXCEPT !["spare"] = Absent]
       \/ Onward /\ Fault /\ disk' = Moved("draft", "replacement")
       \/ NotNormalized /\ Fault /\ disk' = [Moved("spare", "replacement") EXCEPT !["draft"] = Absent]
    /\ Same /\ UNCHANGED <<marker, records, job, found, ingests, kills>>

Staging == IF Replacing THEN "replacement" ELSE "rebuild"

\* _swap_store raised and left the store as it was.
NotSwapped == IF Replacing THEN Go("unwind") /\ disk' = disk
              ELSE NotNormalized /\ disk' = Removed({"rebuild"})

Aside ==
    /\ pc = "aside"
    /\ \/ disk' = Moved("target", "retired") /\ Go("into") /\ NoFault
       \/ Fault /\ NotSwapped
    /\ Same /\ UNCHANGED <<marker, records, job, found, ingests, kills>>

PutAsideBack ==
    LET back == Moved("retired", "target") IN
    IF Replacing THEN Go("unwind") /\ disk' = back
    ELSE NotNormalized /\ disk' = [back EXCEPT !["rebuild"] = Absent]

\* Mutant: the old store is removed as soon as the new one is in its place.
RetainsNothing == FALSE

\* Until it is registered, what replaces a store with data can be taken back.
Retains == Replacing \/ job.committed

Into ==
    /\ pc = "into"
    /\ \/ /\ LET moved == Moved(Staging, "target") IN
             disk' = IF Retains THEN moved ELSE [moved EXCEPT !["retired"] = Absent]
          /\ job' = [job EXCEPT !.swapped = Retains]
          /\ Go("register") /\ NoFault
       \/ ~Retains /\ Fault /\ disk' = Moved(Staging, "target") /\ Go("register") /\ UNCHANGED job
       \/ Fault /\ PutAsideBack /\ UNCHANGED job
    /\ Same /\ UNCHANGED <<marker, records, found, ingests, kills>>

\* _upsert_artifact_record: the latest of the same scope is kept when it says the same,
\* and replaced by an overwrite.
Upsert ==
    LET scope == <<job.request.from, job.request.to>>
        new   == [scope |-> scope, periods |-> Target.data.periods]
        alike == {i \in 1..Len(records) : records[i].scope = scope}
        last  == CHOOSE i \in alike : \A j \in alike : j <= i
    IN  CASE alike = {} -> Append(records, new)
          [] alike # {} /\ job.request.over -> Append(Without(records, last), new)
          [] OTHER -> IF records[last] = new THEN records ELSE Append(records, new)

Register ==
    /\ pc = "register"
    /\ \/ /\ records' = Upsert
          /\ job' = [job EXCEPT !.result = "stored", !.branched = @ /\ ~job.swapped]
          /\ Go("finalize") /\ NoFault
       \/ Fault /\ Go("unwind") /\ UNCHANGED <<records, job>>
    /\ Same /\ UNCHANGED <<disk, marker, found, ingests, kills>>

\* The retired store may fail to go.
Finalize ==
    /\ pc = "finalize"
    /\ \/ disk' = Removed(IF job.swapped THEN {"retired"} ELSE {}) /\ NoFault
       \/ job.swapped /\ Fault /\ UNCHANGED disk
    /\ Go(IF job.branched THEN "unbranch" ELSE "release")
    /\ Same /\ UNCHANGED <<marker, records, job, found, ingests, kills>>

-----------------------------------------------------------------------------
(* The finally block after a failure: _rollback_store_swap, then the branch.*)

Unwind ==
    /\ pc = "unwind"
    /\ job' = [job EXCEPT !.result = "failed"]
    /\ Go(IF job.swapped THEN "outgoing" ELSE IF job.branched THEN "reset" ELSE "release")
    /\ Same /\ UNCHANGED <<disk, marker, records, found, bounds>>

Broken == job' = [job EXCEPT !.broken = TRUE] /\ Go("release")

Outgoing ==
    /\ pc = "outgoing"
    /\ \/ disk' = Moved("target", "failed") /\ Go("incoming") /\ NoFault /\ UNCHANGED job
       \/ Fault /\ Broken /\ UNCHANGED disk
    /\ Same /\ UNCHANGED <<marker, records, found, ingests, kills>>

Incoming ==
    /\ pc = "incoming"
    /\ \/ disk' = Moved("retired", "target") /\ Go("reject") /\ NoFault /\ UNCHANGED job
       \/ Fault /\ Broken /\ disk' = Moved("failed", "target")
    /\ Same /\ UNCHANGED <<marker, records, found, ingests, kills>>

Reject ==
    /\ pc = "reject"
    /\ \/ /\ disk' = Removed({"failed"}) /\ NoFault
          /\ Go(IF job.branched THEN "reset" ELSE "release") /\ UNCHANGED job
       \/ Fault /\ Broken /\ UNCHANGED disk
    /\ Same /\ UNCHANGED <<marker, records, found, ingests, kills>>

\* Mutant: the branch is given up, and main keeps what was committed.
ResetNever ==
    /\ pc = "reset"
    /\ Go("unbranch") /\ Same /\ UNCHANGED <<disk, marker, records, job, found, bounds>>

\* A fetch that did not end keeps the periods it committed.
Reset ==
    /\ pc = "reset"
    /\ \/ /\ disk' = IF ~job.done THEN disk
                     ELSE [disk EXCEPT !["target"].data = Target.branch, !["target"].waste = @ \cup {[of |-> ingests, old |-> FALSE]}]
          /\ Go("unbranch") /\ NoFault /\ UNCHANGED job
       \/ job.done /\ Fault /\ Broken /\ UNCHANGED disk
    /\ Same /\ UNCHANGED <<marker, records, found, ingests, kills>>

\* A branch that cannot be removed breaks a rollback; after a success it is only logged.
Unbranch ==
    /\ pc = "unbranch"
    /\ \/ /\ disk' = [disk EXCEPT !["target"].branch = Nothing] /\ NoFault
          /\ job' = [job EXCEPT !.branched = FALSE]
          /\ Go(IF job.done /\ job.result = "failed" THEN "collect" ELSE "release")
       \/ job.result = "failed" /\ Fault /\ Broken /\ UNCHANGED disk
       \/ job.result # "failed" /\ Fault /\ Go("release") /\ UNCHANGED <<disk, job>>
    /\ Same /\ UNCHANGED <<marker, records, found, ingests, kills>>

\* What is left of a replacement goes, if it can be removed.
Release ==
    /\ pc = "release"
    /\ \/ disk' = Removed(IF Replacing THEN {"replacement"} ELSE {}) /\ NoFault
       \/ Replacing /\ There("replacement") /\ Fault /\ UNCHANGED disk
    /\ Go("idle") /\ Same /\ UNCHANGED <<marker, records, job, found, ingests, kills>>

-----------------------------------------------------------------------------
(* The process is killed; what it held in memory and its lock are gone.     *)

Killed ==
    /\ pc # "idle" /\ kills < MaxKills /\ kills' = kills + 1
    /\ Go("idle") /\ stream' = NoStream /\ asked' = FALSE
    /\ job' = [NoJob EXCEPT !.result = "killed", !.unmarked = pc \in {"collect", "mark"}]
    \* Both are written in place.
    /\ records' \in IF pc = "register" THEN {records, <<>>} ELSE {records}
    /\ marker' \in IF pc = "mark" THEN BadMark ELSE {marker}
    /\ UNCHANGED <<disk, found, ingests, faults>>

(* Startup and every 15 minutes, also beside an older process: the writer    *)
(* lock is taken or the store left alone.                                    *)

\* Mutant: what looks like a leftover is removed without the lock.
UnlockedAlways == TRUE

Unlocked == pc = "idle"

RemoveRebuilds ==
    /\ Unlocked /\ There("rebuild")
    /\ disk' = Removed({"rebuild"})
    /\ Same /\ UNCHANGED <<marker, records, pc, job, found, bounds>>

\* Mutant: a collection that is not due drops its mark.
CollectPendingEarly ==
    /\ Unlocked /\ marker # "none"
    /\ disk' = Collected /\ marker' = "none"
    /\ Same /\ UNCHANGED <<records, pc, job, found, bounds>>

CollectPending ==
    /\ Unlocked /\ marker = "old" /\ CollectIfDue
    /\ Same /\ UNCHANGED <<records, pc, job, found, ingests, kills>>

\* An hour passes: _GC_RETENTION.
HourPasses ==
    /\ marker = "new" \/ \E p \in Paths : \E w \in disk[p].waste : ~w.old
    /\ marker' = IF marker = "new" THEN "old" ELSE marker
    /\ disk' = [p \in Paths |-> [disk[p] EXCEPT !.waste = {[w EXCEPT !.old = TRUE] : w \in @}]]
    /\ Same /\ UNCHANGED <<records, pc, job, found, bounds>>

-----------------------------------------------------------------------------
Recovery == Restore \/ SweepLeftovers \/ Branches \/ Pending
Ingest   == Plan \/ Known \/ Branch \/ Fetch \/ CommitPeriod \/ Fetched \/ Normalize \/ Exchange \/ Install
            \/ Aside \/ Into \/ Register \/ Finalize
Rollback == Unwind \/ Outgoing \/ Incoming \/ Reject \/ Reset \/ Unbranch \/ Collect \/ Mark \/ Release
Maintenance == RemoveRebuilds \/ CollectPending

Progress == Recovery \/ Ingest \/ Rollback \/ Maintenance \/ HourPasses

StoreNext == Progress \/ Cancel \/ Killed \/ \E r \in Requests : Request(r)

StoreSpec == StoreInit /\ [][StoreNext]_storeVars

(* Whoever has something to do does it: each of these ends in bounded time. *)
StoreFairSpec == StoreSpec /\ WF_storeVars(Progress)

-----------------------------------------------------------------------------
Datum == [periods : Seq(Periods), version : 0..MaxIngests]

StoreTypeOK ==
    /\ StreamTypeOK
    /\ \A p \in Paths : /\ disk[p].there \in BOOLEAN /\ disk[p].waste \subseteq [of : 1..MaxIngests, old : BOOLEAN]
                        /\ {disk[p].data, disk[p].branch} \subseteq Datum
                        /\ ~There(p) => disk[p] = Absent
    /\ marker \in {"none", "new", "old"}
    /\ \A i \in 1..Len(records) : records[i].periods \in Seq(Periods)
    /\ DOMAIN job = DOMAIN NoJob /\ found \in Datum
    /\ pc \in {"exchange", "install"} => There("draft") /\ There(IF pc = "exchange" THEN "replacement" ELSE "spare")
    /\ pc \in {"aside", "outgoing"} => There("target") /\ (pc = "aside" => There(Staging))
    /\ pc \in {"into", "incoming"} => ~There("target") /\ There("retired")

(* What readers are given, once recovery has run, is what StoreLedger        *)
(* promises: through appends, rebuilds and replacements, through every kill  *)
(* between their renames and every failed step and rollback, the published   *)
(* data only grows, is replaced whole, or is put back as it was found        *)
(* (services.py:1801-1817 and :1599-1620).                                   *)
Published == IF There("target") THEN Target.data ELSE disk["retired"].data

Ledger == INSTANCE StoreLedger WITH
    data <- Published,
    open <- pc \notin {"idle", "restore", "sweep", "branches", "pending", "plan"} /\ job.action # "none"

KeepsPublished == Ledger!Spec

(* An ingest that failed, its rollback done, left the data it found; at most *)
(* the periods a fetch that did not end had committed are added              *)
(* (services.py:1376-1379).                                                  *)
FailureLeavesData ==
    pc = "idle" /\ job.result = "failed" /\ job.committed /\ ~job.broken =>
        /\ Published.version = found.version
        /\ SubSeq(Published.periods, 1, Len(found.periods)) = found.periods
        /\ job.done => Published = found

(* An ingest that succeeded leaves a record that says what the store holds,   *)
(* whatever killed or failed ingests came before: a store that outlived its   *)
(* record, or an index lost by a kill, is registered again                    *)
(* (services.py:1330-1354).                                                   *)
SuccessIsRecorded ==
    pc = "idle" /\ job.result = "stored" =>
        There("target") /\ \E i \in 1..Len(records) : records[i].periods = Target.data.periods

(* It also leaves no rejected store, no partial rebuild of the store, its own *)
(* or a killed ingest's, and no rollback branch (services.py:1606-1614), but  *)
(* what it could not remove itself: its own branch, and what its recovery     *)
(* found.  What is left of a replacement (itself, the rebuild beside it, what *)
(* that replaced) is not among these: a killed ingest leaves it, and no later *)
(* success, recovery or sweep removes the last two.                           *)
NothingLeftBehind ==
    pc = "idle" /\ job.result = "stored" /\ ~job.untidy =>
        ~There("failed") /\ ~There("rebuild") /\ (Target.branch = Nothing \/ job.branched)

(* An ingest ends as it says: stored and recorded, and the store without      *)
(* debris, or failed and without a trace in the store's data.                 *)
EndsAsItSays == FailureLeavesData /\ SuccessIsRecorded /\ NothingLeftBehind

(* What a failed attempt's rollback left unreachable is freed in the end,     *)
(* though it is too recent when the rollback collects, and no other ingest    *)
(* may come (services.py:1777-1782): by a pending collection or with the      *)
(* store.  Excepted is what loses the mark, of which there are three: it      *)
(* cannot be written (then or by a later rollback), a kill comes before it    *)
(* is, or a kill between the renames of a later swap, after which a sweep     *)
(* finds no store to collect.  The waste then stays until another rollback.   *)
WasteOf(n) == \E w \in (IF There("target") THEN Target ELSE disk["retired"]).waste : w.of = n

MarkLost == job.unmarked \/ (pc = "idle" /\ job.result = "killed" /\ ~There("target"))

FailedIsFreed ==
    \A n \in 1..MaxIngests :
        pc = "collect" /\ job.result = "failed" /\ ingests = n /\ WasteOf(n) ~> ~WasteOf(n) \/ MarkLost
=============================================================================
