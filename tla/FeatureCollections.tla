-------------------------- MODULE FeatureCollections --------------------------
(***************************************************************************)
(* One feature collection: refreshes write a file of their own, switch the *)
(* record to it and leave the older files to age (features/services.py,    *)
(* features/store.py prune_superseded_files), while readers resolve the    *)
(* record and open its file, which are two steps.                          *)
(*                                                                         *)
(* Threads of one process, whose collection lock serialises the refreshes; *)
(* the process may be killed between any two steps.                        *)
(***************************************************************************)
EXTENDS Naturals, FiniteSets

CONSTANTS
    Threads,      \* callers of a refresh
    Providers,    \* the registered feature providers
    Hand,         \* a collection registered by hand: no provider
    Readers,
    MaxFiles,     \* bound: files written
    MaxKills      \* bound: kills of the process

ASSUME FeatAssumption == MaxFiles \in Nat /\ MaxKills \in Nat /\ Hand \notin Providers

VARIABLES
    record,      \* the collection's record: its file (0: none), who produced it, whether published
    files,       \* the files that exist
    marker,      \* per file: no .superseded marker, or a young one, or one past the grace period
    refreshes,   \* per thread: where its refresh is
    holder,      \* the thread with the collection lock, and what its refresh knows
    reading,     \* per reader: the file its record named
    written      \* bounds: files written, kills

featVars == <<record, files, marker, refreshes, holder, reading, written>>

Names  == 1..MaxFiles
NoFile == 0
NoRecord == [file |-> NoFile, owner |-> Hand, published |-> FALSE]
Out    == [at |-> "out"]
Free   == [at |-> "free"]

FeatInit ==
    /\ record = NoRecord /\ files = {} /\ marker = [f \in Names |-> "none"]
    /\ refreshes = [t \in Threads |-> Out] /\ holder = Free
    /\ reading = [r \in Readers |-> NoFile]
    /\ written = [files |-> 0, kills |-> 0]

(***************************************************************************)
(* A refresh.                                                              *)
(***************************************************************************)
Call(t) ==
    /\ refreshes[t] = Out
    /\ \E by \in Providers \cup {Hand}, publish \in BOOLEAN :
          refreshes' = [refreshes EXCEPT ![t] = [at |-> "called", by |-> by, publish |-> publish,
                                                 seen |-> record]]
    /\ UNCHANGED <<record, files, marker, holder, reading, written>>

\* Mutant: ownership is looked up before the lock is asked for.
OwnedBefore(t) ==
    LET current == refreshes[t].seen IN
    refreshes[t].by = Hand \/ current.file = NoFile \/ current.owner = refreshes[t].by

\* A provider may make a collection, or refresh its own; a hand-made one has no question to ask.
Owned(t) == refreshes[t].by = Hand \/ record.file = NoFile \/ record.owner = refreshes[t].by

Locked(t) ==
    /\ refreshes[t].at = "called" /\ holder = Free
    /\ IF Owned(t)
       THEN holder' = [at |-> "writing", by |-> refreshes[t].by, publish |-> refreshes[t].publish,
                       prior |-> record, new |-> NoFile]
            /\ refreshes' = [refreshes EXCEPT ![t] = [at |-> "in"]]
       ELSE refreshes' = [refreshes EXCEPT ![t] = Out] /\ UNCHANGED holder
    /\ UNCHANGED <<record, files, marker, reading, written>>

Unlock == holder' = Free /\ refreshes' = [t \in Threads |-> IF refreshes[t].at = "in" THEN Out ELSE refreshes[t]]

\* The provider fails, or the features are refused: nothing is written.
FeaturesRefused == holder.at = "writing" /\ Unlock /\ UNCHANGED <<record, files, marker, reading, written>>

Write ==
    /\ holder.at = "writing" /\ written.files < MaxFiles
    /\ LET f == written.files + 1 IN
       /\ files' = files \cup {f}
       /\ holder' = [holder EXCEPT !.at = "registering", !.new = f]
       /\ written' = [written EXCEPT !.files = f]
    /\ UNCHANGED <<record, marker, refreshes, reading>>

\* The record keeps the publication it had.
Register ==
    /\ holder.at = "registering"
    /\ record' = [file |-> holder.new, owner |-> holder.by, published |-> record.published]
    /\ holder' = [holder EXCEPT !.at = IF holder.publish /\ ~record.published THEN "publishing" ELSE "pruning"]
    /\ UNCHANGED <<files, marker, refreshes, reading, written>>

Publish ==
    /\ holder.at = "publishing"
    /\ record' = [record EXCEPT !.published = TRUE]
    /\ holder' = [holder EXCEPT !.at = "pruning"]
    /\ UNCHANGED <<files, marker, refreshes, reading, written>>

Fails ==
    /\ holder.at \in {"registering", "publishing"}
    /\ holder' = [holder EXCEPT !.at = "restoring"]
    /\ UNCHANGED <<record, files, marker, refreshes, reading, written>>

\* Mutant: the records of the collection are removed, those before it are not put back.
RestoredNone == NoRecord

Restored == holder.prior

\* Records first, then the files.
RestoreRecords ==
    /\ holder.at = "restoring"
    /\ record' = Restored
    /\ holder' = [holder EXCEPT !.at = "pruning", !.new = holder.prior.file]
    /\ UNCHANGED <<files, marker, refreshes, reading, written>>

\* Mutant: what is superseded is deleted at once.
ExpiredAtOnce(keep) == files \ {keep}

\* Files other than the one kept whose marker is past the grace period.
Expired(keep) == {f \in files \ {keep} : marker[f] = "old"}

\* Mutant: pruning finds every file, the current one too.
SupersededAll(keep) == files

Superseded(keep) == files \ {keep}

Prune ==
    /\ holder.at = "pruning"
    /\ LET keep == holder.new IN
       /\ files' = files \ Expired(keep)
       /\ marker' = [f \in Names |->
                        IF f \in Expired(keep) THEN "none"
                        ELSE IF f \in Superseded(keep) /\ marker[f] = "none" THEN "young"
                        ELSE marker[f]]
    /\ Unlock
    /\ UNCHANGED <<record, reading, written>>

\* The process is killed; the lock goes with it.
Kill ==
    /\ written.kills < MaxKills /\ written' = [written EXCEPT !.kills = @ + 1]
    /\ holder' = Free /\ refreshes' = [t \in Threads |-> Out]
    /\ reading' = [r \in Readers |-> NoFile]
    /\ UNCHANGED <<record, files, marker>>

(***************************************************************************)
(* Readers, and time: a reader opens its file well within the grace period.*)
(***************************************************************************)
Resolve(r) ==
    /\ reading[r] = NoFile /\ record.file # NoFile
    /\ reading' = [reading EXCEPT ![r] = record.file]
    /\ UNCHANGED <<record, files, marker, refreshes, holder, written>>

Open(r) ==
    /\ reading[r] # NoFile
    /\ reading' = [reading EXCEPT ![r] = NoFile]
    /\ UNCHANGED <<record, files, marker, refreshes, holder, written>>

\* Whoever had resolved the file before it was marked has opened it by then.
GracePasses(f) ==
    /\ marker[f] = "young" /\ \A r \in Readers : reading[r] # f
    /\ marker' = [marker EXCEPT ![f] = "old"]
    /\ UNCHANGED <<record, files, refreshes, holder, reading, written>>

Refreshing ==
    \/ \E t \in Threads : Call(t) \/ Locked(t)
    \/ FeaturesRefused \/ Write \/ Register \/ Publish \/ Fails \/ RestoreRecords \/ Prune

FeatNext ==
    \/ Refreshing \/ Kill
    \/ \E r \in Readers : Resolve(r) \/ Open(r)
    \/ \E f \in Names : GracePasses(f)

FeatSpec == FeatInit /\ [][FeatNext]_featVars

(***************************************************************************)
(* Properties.                                                             *)
(***************************************************************************)
FeatTypeOK ==
    /\ record \in [file : Names \cup {NoFile}, owner : Providers \cup {Hand}, published : BOOLEAN]
    /\ files \subseteq Names /\ marker \in [Names -> {"none", "young", "old"}]
    /\ reading \in [Readers -> Names \cup {NoFile}]
    /\ Cardinality({t \in Threads : refreshes[t].at = "in"}) = IF holder = Free THEN 0 ELSE 1
    /\ \A f \in Names : marker[f] # "none" => f \in files /\ f # record.file

(* A reader finds the file that its record named, whatever refreshes,       *)
(* failures, roll-backs and kills came between its two steps.               *)
ReadersFindTheirFile == \A r \in Readers : reading[r] # NoFile => reading[r] \in files

(* A provider never replaces what another one, or nobody, provided, however *)
(* the calls of several wait for each other.                                *)
OwnerKept ==
    [][record'.owner # record.owner /\ record'.owner \in Providers
          => record.file = NoFile \/ record' = holder.prior]_featVars

(* A published collection is published for good, with a file that exists:   *)
(* neither a failed refresh, nor one that does not publish, nor a kill      *)
(* between its steps takes it from the catalogue.                           *)
PublishedStays == [][record.published => record'.published /\ record'.file \in files']_featVars

(* A refresh takes nothing from others: their collection, or its readers'. *)
NothingTaken == OwnerKept /\ PublishedStays
=============================================================================
