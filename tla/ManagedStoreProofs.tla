------------------------- MODULE ManagedStoreProofs -------------------------
(***************************************************************************)
(* An ingest of a managed dataset ends as it says, and its readers are     *)
(* given what StoreLedger promises, for any periods, requests, faults and  *)
(* kills.                                                                  *)
(*                                                                         *)
(* At every place of an ingest one directory holds the store it found,     *)
(* grown by at most what it committed, and, where there are two, another   *)
(* holds the new one.  A rename moves one of them; a kill leaves both, and *)
(* recovery looks first for the old one.                                   *)
(***************************************************************************)
EXTENDS MCStores, RecordIndexProofs, SequenceTheorems, WellFoundedInduction

(* The types, of which the runs check the less detailed StoreTypeOK.  What  *)
(* is published, or was, follows day by day and has a version unless it is  *)
(* empty.                                                                   *)
Data     == {d \in Datum : Ledger!Follows(d.periods) /\ (d.periods = <<>> <=> d.version = 0)}
Wastes   == SUBSET [of : 1..MaxIngests, old : BOOLEAN]
Stores   == [there : BOOLEAN, data : Data, branch : Data, waste : Wastes]
Scopes   == [from : Nat, to : Nat, over : BOOLEAN]
Records  == [scope : Nat \X Nat, periods : Seq(Periods)]
Fetches  == [period : Periods, state : {"fetching", "fetched", "failed"}]
Streams  == [state : {"idle", "running", "awaiting", "done", "failed"}, queue : Seq(Periods), window : Seq(Fetches)]
Jobs     == [request : Scopes, action : {"none", "no_op", "append", "rematerialize"},
             path : {"target", "replacement"}, committed : BOOLEAN, done : BOOLEAN, branched : BOOLEAN,
             swapped : BOOLEAN, broken : BOOLEAN, unmarked : BOOLEAN, untidy : BOOLEAN,
             result : {"none", "stored", "failed", "killed"}]

Early    == {"restore", "sweep", "branches", "pending", "plan"}
Clearing == {"collect", "mark"}
Updating == {"known", "branch", "fetch", "normalize", "exchange", "install", "aside", "into", "register",
             "unwind", "outgoing", "incoming", "reject", "reset"}
Ending   == {"finalize", "unbranch", "release", "idle"}
Places   == Early \cup Clearing \cup Updating \cup Ending

DiskInv ==
    /\ disk \in [Paths -> Stores] /\ ingests \in 0..MaxIngests
    /\ \A p \in Paths : (~There(p) => disk[p] = Absent) /\ disk[p].data.version <= ingests

TypeInv ==
    /\ stream \in Streams /\ asked \in BOOLEAN /\ marker \in {"none", "new", "old"} /\ records \in Seq(Records)
    /\ pc \in Places /\ job \in Jobs /\ found \in Data

(* What is fetched and what waits for it line up behind what is committed.  *)
Lined(n) ==
    /\ \A i \in 1..Len(stream.window) : stream.window[i].period = n + i - 1
    /\ \A i \in 1..Len(stream.queue) : stream.queue[i] = n + Len(stream.window) + i - 1

Continues(n, periods) == periods # <<>> => n = periods[Len(periods)] + 1

StreamInv ==
    /\ Len(stream.window) <= MaxParallel
    /\ ~Running => stream.window = <<>> /\ stream.queue = <<>>
    /\ pc \in {"branch", "fetch"} =>
          /\ Running => \E n \in 1..MaxPeriod + 1 : Lined(n) /\ Continues(n, disk[job.path].data.periods)
          /\ stream.state = "done" => disk[job.path].data # Nothing

(* What the ingest has said and done, by the place it is at.                *)
JobInv ==
    /\ pc # "idle" => job.request \in Requests /\ ingests > 0
    /\ job.action = "none" =>
          ~job.committed /\ ~job.done /\ ~job.branched /\ ~job.swapped /\ job.path = "target"
    /\ pc \in Early => job.action = "none" /\ job.result = "none"
    /\ pc \in Clearing => job.result = IF job.action = "none" THEN "none" ELSE "failed"
    /\ pc \in Updating \cup {"finalize", "unbranch"} => job.action # "none"
    /\ pc \in {"known", "branch", "fetch", "normalize", "exchange", "install", "aside", "into", "register", "unwind"} =>
          job.result = "none"
    /\ pc \in {"outgoing", "incoming", "reject", "reset"} => job.result = "failed"
    /\ pc = "finalize" => job.result = "stored"
    /\ pc \in {"unbranch", "release"} => job.result \in {"stored", "failed"}

PlanInv ==
    /\ Replacing => job.action = "rematerialize" /\ found.version < ingests
    /\ job.branched => job.action = "append" /\ job.committed
    /\ job.committed => Replacing \/ job.action \in {"append", "no_op"}
    /\ job.committed /\ job.action = "append" /\ pc \in Updating \ {"branch"} => job.branched
    /\ job.action = "no_op" => job.committed /\ ~job.done
    /\ pc = "known" => job.action = "no_op"
    /\ pc = "branch" => job.action = "append" /\ job.committed /\ ~job.branched /\ disk["target"].data = found
    /\ pc \in {"outgoing", "incoming"} => job.swapped
    /\ pc \in {"known", "branch", "fetch", "normalize", "exchange", "install", "aside", "into"} => ~job.swapped
    /\ pc = "fetch" => job.action # "no_op"
    /\ pc = "reset" => job.branched

(* Before the plan: what recovery has put right.                            *)
Unplanned == pc \in Early \/ (pc \in Clearing /\ job.action = "none")

EarlyInv ==
    /\ Unplanned => \A p \in Paths : disk[p].data.version < ingests
    /\ Unplanned /\ pc # "restore" => There("target") \/ ~There("retired")
    /\ Unplanned /\ pc \notin {"restore", "sweep", "branches"} => disk["target"].branch = Nothing \/ job.untidy

(* From the plan to the end: where the store it found is, and the new one.  *)
Swapped  == job.swapped /\ pc \in {"register", "unwind", "outgoing"}
OldPlace == IF pc \in {"into", "incoming"} \/ Swapped THEN "retired" ELSE "target"
NewPlace == IF Swapped THEN "target" ELSE IF pc = "incoming" THEN "failed" ELSE Staging
HasNew   == pc \in {"aside", "into", "incoming"} \/ Swapped \/ (pc = "normalize" /\ Replacing)

Grown(data) ==
    /\ data.version = found.version /\ Len(found.periods) <= Len(data.periods)
    /\ \A i \in 1..Len(found.periods) : data.periods[i] = found.periods[i]

OldInv(p) ==
    /\ There(p) /\ (job.branched => disk[p].branch = found)
    /\ ~job.branched => disk[p].branch = Nothing \/ job.untidy
    /\ job.committed => Grown(disk[p].data)
    /\ Replacing \/ job.action = "no_op" => disk[p].data = found

NewInv(p) ==
    /\ There(p) /\ disk[p].branch = Nothing
    /\ IF Replacing THEN disk[p].data.version = ingests ELSE disk[p].data = disk[OldPlace].data

\* A replacement that is written, while its rebuild is beside it.
Fresh(p) == There(p) /\ disk[p].branch = Nothing /\ disk[p].data.version = ingests

UpdateInv ==
    pc \in Updating =>
        /\ job.committed <=> found # Nothing
        /\ OldInv(OldPlace)
        /\ HasNew => NewInv(NewPlace)
        /\ pc \in {"branch", "fetch"} /\ Replacing =>
              /\ There("replacement") /\ disk["replacement"].branch = Nothing
              /\ disk["replacement"].data.version \in {0, ingests}
        /\ pc \in {"exchange", "install"} =>
              Replacing /\ Fresh("draft") /\ Fresh(IF pc = "exchange" THEN "replacement" ELSE "spare")

(* Nothing of an earlier ingest is beside the store, unless one fails, but  *)
(* what could not be removed.                                               *)
TidyInv ==
    pc \notin {"restore", "sweep"} /\ (pc = "idle" => job.result = "stored") /\ job.result # "failed" =>
        /\ ~There("failed")
        /\ There("rebuild") => (pc \in {"aside", "into"} /\ ~Replacing) \/ job.untidy

Left == Grown(Published) /\ (job.done => Published = found)

EndInv ==
    /\ pc \in Ending /\ job.result = "stored" =>
          /\ There("target") /\ \E i \in 1..Len(records) : records[i].periods = disk["target"].data.periods
          /\ disk["target"].branch # Nothing => job.branched \/ job.untidy
    /\ pc \in Ending \cup Clearing /\ job.result = "failed" /\ job.committed /\ ~job.broken => Left

StoreInv == DiskInv /\ TypeInv /\ StreamInv /\ JobInv /\ PlanInv /\ EarlyInv /\ UpdateInv /\ TidyInv /\ EndInv
-----------------------------------------------------------------------------
(* Sequences. *)

\* A set of natural numbers that is not empty has a least element.
LEMMA LeastNatural ==
    ASSUME NEW S, S \subseteq Nat, S # {} PROVE \E d \in S : \A e \in S : d <= e
<1>1. PICK R : R = {ss \in Nat \X Nat : ss[1] < ss[2]}
  OBVIOUS
<1>2. IsWellFoundedOn(R, Nat)
  BY <1>1, NatLessThanWellFounded DEF OpToRel
<1>3. PICK d \in S : \A e \in S : ~ (<<e, d>> \in R)
  BY <1>2, WFMin
<1>4. ASSUME NEW e \in S PROVE d <= e
  <2>1. d \in Nat /\ e \in Nat
    OBVIOUS
  <2>2. e < d => <<e, d>> \in R
    BY <1>1, <2>1
  <2> QED BY <1>3, <2>1, <2>2
<1> QED BY <1>3, <1>4

\* A set of places in a sequence that is not empty has a last one.
LEMMA LastOf ==
    ASSUME NEW n \in Nat, NEW S \in SUBSET (1..n), S # {}
    PROVE  \E i \in S : \A j \in S : j <= i
<1> DEFINE Rest == {n - i : i \in S}
<1>1. Rest \subseteq Nat /\ Rest # {}
  <2>1. PICK i \in S : TRUE
    OBVIOUS
  <2>2. n - i \in Rest
    BY <2>1
  <2> QED BY <2>2
<1>2. PICK k \in Rest : \A m \in Rest : k <= m
  BY <1>1, LeastNatural
<1>3. PICK i \in S : k = n - i
  BY <1>2
<1>4. ASSUME NEW j \in S PROVE j <= i
  <2>1. n - j \in Rest /\ j \in Nat /\ i \in Nat
    OBVIOUS
  <2> QED BY <1>2, <1>3, <2>1
<1> QED BY <1>4

LEMMA StartedIs ==
    ASSUME NEW s \in Seq(Periods)
    PROVE  /\ Started(s) \in Seq(Fetches) /\ Len(Started(s)) = Len(s)
           /\ \A i \in 1..Len(s) : Started(s)[i] = [period |-> s[i], state |-> "fetching"]
  BY DEF Started, Fetches

LEMMA SequenceIs ==
    ASSUME NEW m \in Nat, NEW n \in Nat
    PROVE  /\ Sequence(m, n) \in Seq(m..n)
           /\ Len(Sequence(m, n)) = IF n < m THEN 0 ELSE n - m + 1
           /\ \A i \in 1..Len(Sequence(m, n)) : Sequence(m, n)[i] = m + i - 1
<1> DEFINE k == IF n < m THEN 0 ELSE n - m + 1
           s == [i \in 1..k |-> m + i - 1]
<1>1. k \in Nat /\ \A i \in 1..k : m + i - 1 \in m..n
  OBVIOUS
<1> HIDE DEF k
<1>2. s \in Seq(m..n) /\ Len(s) = k /\ \A i \in 1..k : s[i] = m + i - 1
  BY <1>1
<1>3. Sequence(m, n) = s
  BY DEF Sequence, k
<1> QED BY <1>2, <1>3 DEF k

LEMMA WithoutIs ==
    ASSUME NEW S, NEW s \in Seq(S), NEW i \in 1..Len(s)
    PROVE  /\ Without(s, i) \in Seq(S) /\ Len(Without(s, i)) = Len(s) - 1
           /\ \A j \in 1..Len(s) - 1 : Without(s, i)[j] = IF j < i THEN s[j] ELSE s[j + 1]
<1> DEFINE a == SubSeq(s, 1, i - 1)  b == SubSeq(s, i + 1, Len(s))
<1>1. a \in Seq(S) /\ Len(a) = i - 1 /\ \A j \in 1..i - 1 : a[j] = s[j]
  <2>1. /\ i - 1 \in Int /\ 1 \in Int /\ \A j \in 1..i - 1 : s[j] \in S
    BY ElementOfSeq
  <2> QED BY <2>1, SubSeqProperties
<1>2. b \in Seq(S) /\ Len(b) = Len(s) - i /\ \A j \in 1..Len(s) - i : b[j] = s[i + j]
  <2>1. /\ i + 1 \in Int /\ Len(s) \in Int /\ \A j \in i + 1..Len(s) : s[j] \in S
    BY ElementOfSeq
  <2> QED BY <2>1, SubSeqProperties
<1> HIDE DEF a, b
<1>3. /\ a \o b \in Seq(S) /\ Len(a \o b) = Len(s) - 1
      /\ \A j \in 1..Len(s) - 1 : (a \o b)[j] = IF j <= i - 1 THEN a[j] ELSE b[j - (i - 1)]
  <2>1. Len(s) \in Nat /\ Len(a) + Len(b) = Len(s) - 1
    BY <1>1, <1>2, LenProperties
  <2>2. /\ a \o b \in Seq(S) /\ Len(a \o b) = Len(s) - 1
        /\ \A j \in 1..Len(s) - 1 : (a \o b)[j] = IF j <= Len(a) THEN a[j] ELSE b[j - Len(a)]
    <3>1. /\ a \o b \in Seq(S) /\ Len(a \o b) = Len(a) + Len(b)
          /\ \A j \in 1..Len(a) + Len(b) : (a \o b)[j] = IF j <= Len(a) THEN a[j] ELSE b[j - Len(a)]
      <4>1. a \in Seq(S) /\ b \in Seq(S)
        BY <1>1, <1>2
      <4> QED BY ONLY <4>1, ConcatProperties
    <3> QED BY <2>1, <3>1
  <2> QED BY <1>1, <2>2
<1>4. Without(s, i) = a \o b
  BY DEF Without, a, b
<1>5. ASSUME NEW j \in 1..Len(s) - 1 PROVE (a \o b)[j] = IF j < i THEN s[j] ELSE s[j + 1]
  <2>1. Len(s) \in Nat /\ i \in Nat /\ j \in Nat /\ (j <= i - 1 <=> j < i)
    BY LenProperties
  <2>2. CASE j < i
    BY <1>1, <1>3, <2>1, <2>2
  <2>3. CASE ~(j < i)
    <3>1. j - (i - 1) \in 1..Len(s) - i /\ i + (j - (i - 1)) = j + 1
      BY <2>1, <2>3
    <3> QED BY <1>2, <1>3, <2>1, <2>3, <3>1
  <2> QED BY <2>2, <2>3
<1> QED BY <1>3, <1>4, <1>5

-----------------------------------------------------------------------------
(* Directories. *)

LEMMA NothingIs ==
    /\ Nothing \in Data /\ Nothing.version = 0 /\ Nothing.periods = <<>> /\ Len(Nothing.periods) = 0
    /\ \A d \in Data : /\ d \in [periods : Seq(Periods), version : Nat] /\ d.version <= MaxIngests
                       /\ (d.periods = <<>> <=> d = Nothing) /\ (d.version = 0 <=> d = Nothing)
<1>1. Nothing = [periods |-> <<>>, version |-> 0] /\ MaxIngests \in Nat
  BY StoreAssumption DEF Nothing
<1>2. Nothing \in Datum /\ Ledger!Follows(<<>>) /\ Len(<<>>) = 0
  BY <1>1, EmptySeq DEF Datum, Ledger!Follows
<1>3. ASSUME NEW d \in Data
      PROVE  /\ d \in [periods : Seq(Periods), version : Nat] /\ d.version <= MaxIngests
             /\ (d.periods = <<>> <=> d = Nothing) /\ (d.version = 0 <=> d = Nothing)
  BY <1>1 DEF Data, Datum
<1> QED BY <1>1, <1>2, <1>3 DEF Data

LEMMA AbsentIs ==
    /\ Absent \in Stores /\ ~Absent.there /\ Absent.data = Nothing /\ Absent.branch = Nothing /\ Absent.waste = {}
    /\ Empty \in Stores /\ Empty.there /\ Empty.data = Nothing /\ Empty.branch = Nothing /\ Empty.waste = {}
  BY NothingIs DEF Absent, Empty, Stores, Wastes

LEMMA MovedIs ==
    ASSUME disk \in [Paths -> Stores], NEW p \in Paths, NEW q \in Paths, p # q
    PROVE  /\ Moved(p, q) \in [Paths -> Stores] /\ Moved(p, q)[p] = Absent /\ Moved(p, q)[q] = disk[p]
           /\ \A r \in Paths \ {p, q} : Moved(p, q)[r] = disk[r]
  BY AbsentIs DEF Moved

LEMMA RemovedIs ==
    ASSUME disk \in [Paths -> Stores], NEW S \in SUBSET Paths
    PROVE  /\ Removed(S) \in [Paths -> Stores] /\ \A p \in S : Removed(S)[p] = Absent
           /\ \A p \in Paths \ S : Removed(S)[p] = disk[p]
  BY AbsentIs DEF Removed

LEMMA UnbranchedIs ==
    ASSUME disk \in [Paths -> Stores], NEW d, d = [disk EXCEPT !["target"].branch = Nothing]
    PROVE  /\ d \in [Paths -> Stores] /\ d["target"].branch = Nothing
           /\ d["target"].there = disk["target"].there /\ d["target"].data = disk["target"].data
           /\ d["target"].waste = disk["target"].waste
           /\ \A p \in Paths \ {"target"} : d[p] = disk[p]
<1> DEFINE s == [disk["target"] EXCEPT !.branch = Nothing]
<1>1. disk["target"] \in Stores /\ "target" \in Paths
  BY DEF Paths
<1>2. /\ s \in Stores /\ s.branch = Nothing /\ s.there = disk["target"].there
      /\ s.data = disk["target"].data /\ s.waste = disk["target"].waste
  BY <1>1, NothingIs DEF Stores
<1>3. d = [disk EXCEPT !["target"] = s]
  OBVIOUS
<1> HIDE DEF s
<1> QED BY <1>1, <1>2, <1>3

LEMMA CollectedIs ==
    ASSUME disk \in [Paths -> Stores]
    PROVE  /\ Collected \in [Paths -> Stores]
           /\ \A p \in Paths : /\ Collected[p].there = disk[p].there /\ Collected[p].data = disk[p].data
                               /\ Collected[p].branch = disk[p].branch
                               /\ disk[p] = Absent => Collected[p] = Absent
<1> DEFINE s == [disk["target"] EXCEPT !.waste = {w \in @ : ~w.old}]
<1>1. disk["target"] \in Stores /\ "target" \in Paths
  BY DEF Paths
<1>2. /\ s \in Stores /\ s.there = disk["target"].there /\ s.branch = disk["target"].branch
      /\ s.data = disk["target"].data /\ s.waste = {w \in disk["target"].waste : ~w.old}
  BY <1>1, NothingIs DEF Stores, Wastes
<1>3. disk["target"] = Absent => s = Absent
  BY <1>1, <1>2, AbsentIs DEF Stores
<1>4. Collected = [disk EXCEPT !["target"] = s]
  BY DEF Collected
<1> HIDE DEF s
<1> QED BY <1>1, <1>2, <1>3, <1>4

-----------------------------------------------------------------------------
(* What types say. *)

LEMMA PathsAre ==
    ASSUME DiskInv, found \in Data
    PROVE  /\ disk \in [Paths -> Stores] /\ {"target", "retired", "failed", "replacement", "rebuild", "draft", "spare"} = Paths
           /\ \A p \in Paths : /\ disk[p].there \in BOOLEAN /\ disk[p].data \in Data /\ disk[p].branch \in Data
                               /\ disk[p].data.version \in Nat /\ disk[p].data.version <= ingests
                               /\ ~disk[p].there => disk[p] = Absent
           /\ ingests \in Nat /\ MaxIngests \in Nat /\ found.version \in Nat
<1>1. ASSUME NEW d \in Data PROVE d.version \in Nat
  BY NothingIs
<1>2. ASSUME NEW p \in Paths PROVE disk[p] \in Stores
  BY DEF DiskInv
<1>3. ASSUME NEW p \in Paths PROVE disk[p].there \in BOOLEAN /\ disk[p].data \in Data /\ disk[p].branch \in Data
  BY <1>2 DEF Stores
<1> QED BY <1>1, <1>3, StoreAssumption DEF DiskInv, Paths, There

LEMMA NoJobIs ==
    /\ ~NoJob.committed /\ ~NoJob.done /\ ~NoJob.branched /\ ~NoJob.swapped /\ ~NoJob.broken
    /\ NoJob.action = "none" /\ NoJob.path = "target" /\ NoJob.result = "none" /\ NoJob \in Jobs
  BY DEF NoJob, Jobs, Scopes

\* The job goes on as it was.
SameJob(j) ==
    /\ job' \in Jobs /\ job'.request = j.request /\ job'.action = j.action /\ job'.path = j.path
    /\ job'.committed = j.committed /\ job'.untidy = j.untidy

LEMMA ResultIs ==
    ASSUME TypeInv, NEW r \in {"none", "stored", "failed", "killed"}, job' = [job EXCEPT !.result = r]
    PROVE  SameJob(job) /\ job'.result = r /\ UNCHANGED <<job.done, job.branched, job.swapped, job.broken, job.untidy>>
  BY DEF TypeInv, Jobs, SameJob

LEMMA UntidyIs ==
    ASSUME TypeInv, NEW b \in BOOLEAN, job' = [job EXCEPT !.untidy = b]
    PROVE  /\ job' \in Jobs /\ job'.untidy = b
           /\ UNCHANGED <<job.request, job.action, job.path, job.committed, job.done, job.branched, job.swapped, job.broken,
                         job.result>>
  BY DEF TypeInv, Jobs

LEMMA StreamRests == ASSUME StreamInv, UNCHANGED stream, pc' \notin {"branch", "fetch"} PROVE StreamInv'
  BY DEF StreamInv, Running

-----------------------------------------------------------------------------
(* Recovery. *)

LEMMA RequestInv == ASSUME StoreInv, NEW r \in Requests, Request(r) PROVE StoreInv'
<1> USE DEF StoreInv
<1>a. /\ pc = "idle" /\ pc' = "restore" /\ ingests \in 0..MaxIngests /\ ingests' = ingests + 1 /\ ingests' <= MaxIngests
      /\ UNCHANGED <<stream, disk, marker, records, found>> /\ asked' = FALSE
  BY StoreAssumption DEF DiskInv, Request, Go
<1>b. /\ job' \in Jobs /\ job'.request = r /\ ~job'.committed /\ ~job'.done /\ ~job'.branched /\ ~job'.swapped
      /\ ~job'.broken /\ job'.action = "none" /\ job'.path = "target" /\ job'.result = "none"
  <2>1. r \in Scopes
    BY StoreAssumption DEF Scopes, Periods
  <2> QED BY <2>1, NoJobIs DEF Request, Jobs
<1>c. found \in Data
  BY DEF TypeInv
<1>1. DiskInv'
  BY <1>a, <1>c, PathsAre DEF DiskInv, There
<1>2. TypeInv'
  BY <1>a, <1>b, StoreAssumption DEF TypeInv, Places, Early, Clearing, Updating, Ending
<1>3. StreamInv'
  BY <1>a, StreamRests DEF StreamInv
<1>4. JobInv'
  BY <1>a, <1>b DEF JobInv, TypeInv, Places, Early, Clearing, Updating, Ending, DiskInv
<1>5. PlanInv'
  BY <1>a, <1>b DEF PlanInv, TypeInv, Places, Early, Clearing, Updating, Ending, Replacing
<1>6. EarlyInv'
  <2>1. \A p \in Paths : disk[p].data.version < ingests'
    BY <1>a, <1>c, PathsAre
  <2> QED BY <1>a, <2>1 DEF EarlyInv, Unplanned
<1>7. UpdateInv'
  BY <1>a DEF UpdateInv, Places, Early, Clearing, Updating, Ending
<1>8. TidyInv'
  BY <1>a DEF TidyInv, JobInv, Places, Early, Clearing, Updating, Ending, There, Replacing
<1>9. EndInv'
  BY <1>a DEF EndInv, JobInv, Places, Early, Clearing, Updating, Ending
<1> QED BY <1>1, <1>2, <1>3, <1>4, <1>5, <1>6, <1>7, <1>8, <1>9

LEMMA RestoreInv == StoreInv /\ Restore => StoreInv'
<1> SUFFICES ASSUME StoreInv, Restore PROVE StoreInv'
  OBVIOUS
<1> USE DEF StoreInv
<1>c. found \in Data
  BY DEF TypeInv
<1> DEFINE back == ~There("target") /\ There("retired")
<1>a. /\ disk \in [Paths -> Stores] /\ {"target", "retired"} \subseteq Paths /\ disk' \in [Paths -> Stores]
      /\ back => disk'["target"] = disk["retired"] /\ disk'["retired"] = Absent
      /\ ~back => disk' = disk
      /\ \A p \in Paths \ {"target", "retired"} : disk'[p] = disk[p]
  BY <1>c, PathsAre, MovedIs DEF Restore
<1>1. DiskInv'
  BY <1>a, <1>c, AbsentIs, PathsAre, NothingIs DEF DiskInv, There, Restore, Go, Same, bounds
<1>2. TypeInv'
  BY DEF TypeInv, Places, Early, Clearing, Updating, Ending, Restore, Go, Same, bounds
<1>3. StreamInv'
  BY StreamRests DEF StreamInv, Restore, Go, Same, bounds
<1>4. JobInv'
  BY <1>a DEF JobInv, TypeInv, Places, Early, Clearing, Updating, Ending, Restore, Go, Same, bounds
<1>5. PlanInv'
  BY DEF PlanInv, TypeInv, Places, Early, Clearing, Updating, Ending, Replacing, Restore, Go, Same, bounds
<1>6. EarlyInv'
  <2>1. pc = "restore" /\ pc' = "sweep" /\ UNCHANGED ingests
    BY DEF Restore, Go, bounds
  <2>2. Absent.data.version = 0 /\ ~Absent.there
    BY AbsentIs, NothingIs
  <2>3. \A p \in Paths : disk[p].data.version < ingests
    BY <2>1 DEF EarlyInv, Unplanned, Early
  <2>4. ingests > 0
    BY <2>1 DEF JobInv
  <2>5. \A p \in Paths : disk'[p].data.version < ingests
    BY <1>a, <2>2, <2>3, <2>4
  <2>6. There("target")' \/ ~There("retired")'
    BY <1>a, <2>2 DEF There
  <2> QED BY <2>1, <2>5, <2>6 DEF EarlyInv, Unplanned
<1>7. UpdateInv'
  BY DEF UpdateInv, Places, Early, Clearing, Updating, Ending, Restore, Go, Same, bounds
<1>8. TidyInv'
  BY DEF TidyInv, JobInv, Places, Early, Clearing, Updating, Ending, There, Replacing, Restore, Go, Same, bounds
<1>9. EndInv'
  BY DEF EndInv, JobInv, Places, Early, Clearing, Updating, Ending, Restore, Go, Same, bounds
<1> QED BY <1>1, <1>2, <1>3, <1>4, <1>5, <1>6, <1>7, <1>8, <1>9

LEMMA SweepLeftoversInv == StoreInv /\ SweepLeftovers => StoreInv'
<1> SUFFICES ASSUME StoreInv, SweepLeftovers PROVE StoreInv'
  OBVIOUS
<1> USE DEF StoreInv
<1>c. found \in Data
  BY DEF TypeInv
<1>s. PICK swept \in BOOLEAN :
          /\ disk' = Removed((IF swept THEN {"rebuild"} ELSE {}) \cup (IF There("target") THEN {"failed"} ELSE {}))
          /\ IF ~There("target") /\ There("failed")
             THEN Go("release") /\ job' = [job EXCEPT !.result = "failed"]
             ELSE Go("branches") /\ job' = [job EXCEPT !.untidy = ~swept]
  BY DEF SweepLeftovers
<1> DEFINE gone == (IF swept THEN {"rebuild"} ELSE {}) \cup (IF There("target") THEN {"failed"} ELSE {})
<1>a. /\ disk' \in [Paths -> Stores] /\ disk'["rebuild"] = (IF swept THEN Absent ELSE disk["rebuild"])
      /\ disk'["failed"] = IF There("target") THEN Absent ELSE disk["failed"]
      /\ \A p \in {"target", "retired", "replacement", "draft", "spare"} : disk'[p] = disk[p]
  <2>1. gone \in SUBSET Paths /\ disk' = Removed(gone)
    BY <1>s DEF Paths
  <2> QED BY <2>1, <1>c, RemovedIs, PathsAre
<1>d. \A p \in Paths : disk'[p] \in {Absent, disk[p]}
  BY <1>a DEF Paths
<1>e. Absent.data.version = 0 /\ ~Absent.there
  BY AbsentIs, NothingIs
<1>b. /\ job' \in Jobs
      /\ UNCHANGED <<job.request, job.action, job.path, job.committed, job.done, job.branched, job.swapped, job.broken>>
      /\ pc = "sweep" /\ UNCHANGED <<stream, asked, marker, records, found, ingests>>
      /\ \/ pc' = "release" /\ job'.result = "failed"
         \/ /\ pc' = "branches" /\ job'.result = job.result /\ (There("target") \/ ~There("failed"))
            /\ job'.untidy = ~swept
  <2>1. pc = "sweep" /\ UNCHANGED <<stream, asked, marker, records, found, ingests>> /\ TypeInv
    BY DEF SweepLeftovers, Same
  <2>2. CASE ~There("target") /\ There("failed")
    BY <1>s, <2>1, <2>2, ResultIs DEF Go, SameJob
  <2>3. CASE There("target") \/ ~There("failed")
    BY <1>s, <2>1, <2>3, UntidyIs DEF Go
  <2> QED BY <2>2, <2>3
<1>1. DiskInv'
  BY <1>a, <1>b, <1>c, <1>d, <1>e, PathsAre DEF DiskInv, There
<1>2. TypeInv'
  BY <1>b DEF TypeInv, Places, Early, Clearing, Updating, Ending
<1>3. StreamInv'
  BY <1>b, StreamRests DEF StreamInv
<1>4. JobInv'
  BY <1>b DEF JobInv, TypeInv, Places, Early, Clearing, Updating, Ending
<1>5. PlanInv'
  BY <1>a, <1>b, <1>c, AbsentIs, PathsAre DEF PlanInv, TypeInv, Places, Early, Clearing, Updating, Ending, Replacing, JobInv
<1>6. EarlyInv'
  BY <1>a, <1>b, <1>c, <1>d, <1>e, PathsAre DEF EarlyInv, TypeInv, Places, Early, Clearing, Updating, Ending, Unplanned, There, Paths, JobInv
<1>7. UpdateInv'
  BY <1>b DEF UpdateInv, Places, Early, Clearing, Updating, Ending
<1>8. TidyInv'
  BY <1>a, <1>b, <1>c, AbsentIs, PathsAre DEF TidyInv, JobInv, Places, Early, Clearing, Updating, Ending, There, Replacing
<1>9. EndInv'
  BY <1>b DEF EndInv, JobInv, Places, Early, Clearing, Updating, Ending
<1> QED BY <1>1, <1>2, <1>3, <1>4, <1>5, <1>6, <1>7, <1>8, <1>9

LEMMA BranchesInv == StoreInv /\ Branches => StoreInv'
<1> SUFFICES ASSUME StoreInv, Branches PROVE StoreInv'
  OBVIOUS
<1> USE DEF StoreInv
<1>c. found \in Data
  BY DEF TypeInv
<1>a. /\ disk' \in [Paths -> Stores] /\ (disk'["target"].branch = Nothing \/ job'.untidy)
      /\ disk'["target"].there = disk["target"].there /\ disk'["target"].data = disk["target"].data
      /\ disk["target"] = Absent => disk'["target"] = Absent
      /\ \A p \in Paths \ {"target"} : disk'[p] = disk[p]
  <2>1. CASE disk["target"].branch = Nothing /\ disk' = disk
    BY <2>1, <1>c, PathsAre
  <2>3. CASE job' = [job EXCEPT !.untidy = TRUE] /\ disk' = disk
    BY <2>3, <1>c, PathsAre, UntidyIs
  <2>2. CASE disk' = [disk EXCEPT !["target"].branch = Nothing]
    <3>1. disk["target"] = Absent => disk'["target"] = Absent
      BY <2>2, <1>c, UnbranchedIs, PathsAre, AbsentIs DEF Stores
    <3> QED BY <2>2, <3>1, <1>c, UnbranchedIs, PathsAre
  <2> QED BY <2>1, <2>2, <2>3 DEF Branches, Target
<1>b. /\ pc = "branches" /\ pc' \in {"pending", "collect", "plan"} /\ job.action = "none" /\ job.result = "none"
      /\ UNCHANGED <<stream, asked, marker, records, found, ingests>>
  BY DEF Branches, Go, JobInv, Early, Same
<1>j. /\ job' \in Jobs /\ (job.untidy => job'.untidy)
      /\ UNCHANGED <<job.request, job.action, job.path, job.committed, job.done, job.branched, job.swapped, job.broken,
                    job.result>>
  <2>1. CASE job' = job
    BY <2>1 DEF TypeInv
  <2>2. CASE job' = [job EXCEPT !.untidy = TRUE]
    BY <2>2, UntidyIs DEF TypeInv, Jobs
  <2> QED BY <2>1, <2>2 DEF Branches
<1>1. DiskInv'
  BY <1>a, <1>b, <1>j, <1>c, AbsentIs, PathsAre DEF DiskInv, There
<1>2. TypeInv'
  BY <1>b, <1>j DEF TypeInv, Places, Early, Clearing, Updating, Ending
<1>3. StreamInv'
  BY <1>b, StreamRests DEF StreamInv
<1>4. JobInv'
  BY <1>a, <1>b, <1>j DEF JobInv, TypeInv, Places, Early, Clearing, Updating, Ending
<1>5. PlanInv'
  BY <1>a, <1>b, <1>j, <1>c, AbsentIs, PathsAre DEF PlanInv, TypeInv, Places, Early, Clearing, Updating, Ending, Replacing
<1>6. EarlyInv'
  BY <1>a, <1>b, <1>j, <1>c, AbsentIs, PathsAre DEF EarlyInv, TypeInv, Places, Early, Clearing, Updating, Ending, Unplanned, There, Paths
<1>7. UpdateInv'
  BY <1>b, <1>j DEF UpdateInv, Places, Early, Clearing, Updating, Ending
<1>8. TidyInv'
  BY <1>a, <1>b, <1>j, <1>c, AbsentIs, PathsAre DEF TidyInv, JobInv, Places, Early, Clearing, Updating, Ending, There, Replacing
<1>9. EndInv'
  BY <1>b, <1>j DEF EndInv, JobInv, Places, Early, Clearing, Updating, Ending
<1> QED BY <1>1, <1>2, <1>3, <1>4, <1>5, <1>6, <1>7, <1>8, <1>9

\* Only what no branch reaches is touched.
SameStores ==
    /\ disk' \in [Paths -> Stores]
    /\ \A p \in Paths : /\ disk'[p].there = disk[p].there /\ disk'[p].data = disk[p].data
                        /\ disk'[p].branch = disk[p].branch
                        /\ disk[p] = Absent => disk'[p] = Absent

LEMMA SameStoresDisk == ASSUME DiskInv, SameStores, UNCHANGED ingests PROVE DiskInv'
  BY DEF DiskInv, SameStores, There

LEMMA SameStoresPublished == ASSUME SameStores PROVE Published' = Published
  BY DEF SameStores, Published, There, Target, Paths

LEMMA SameStoresLeft == ASSUME SameStores, UNCHANGED <<job, found>>, Left PROVE Left'
  BY SameStoresPublished DEF Left, Grown

LEMMA CollectedSame == ASSUME DiskInv, disk' = Collected PROVE SameStores
  BY CollectedIs DEF DiskInv, SameStores

LEMMA PlacesAreKept ==
    ASSUME UNCHANGED <<pc, job>>
    PROVE  OldPlace' = OldPlace /\ NewPlace' = NewPlace /\ (Swapped' <=> Swapped) /\ (HasNew' <=> HasNew)
           /\ (Replacing' <=> Replacing) /\ OldPlace \in Paths /\ NewPlace \in Paths
  BY DEF OldPlace, NewPlace, Swapped, HasNew, Replacing, Staging, Paths

LEMMA WasteOnly ==
    ASSUME StoreInv, SameStores, UNCHANGED <<stream, asked, records, pc, job, found, ingests>>,
           marker' \in {"none", "new", "old"}
    PROVE  StoreInv'
<1> USE DEF StoreInv
<1>1. DiskInv'
  BY SameStoresDisk
<1>2. TypeInv'
  BY DEF TypeInv
<1>3. StreamInv'
  <2>1. Running' = Running
    BY DEF Running
  <2>2. ASSUME pc \in {"branch", "fetch"} PROVE disk'[job.path].data = disk[job.path].data
    <3>1. job.path \in Paths
      BY <2>2 DEF TypeInv, Jobs, Paths
    <3> QED BY <3>1 DEF SameStores
  <2>3. \A n : Lined(n)' = Lined(n)
    BY DEF Lined
  <2>4. ASSUME pc' \in {"branch", "fetch"}
        PROVE  /\ Running' => \E n \in 1..MaxPeriod + 1 : Lined(n)' /\ Continues(n, disk'[job.path].data.periods)
               /\ stream.state = "done" => disk'[job.path].data # Nothing
    BY <2>1, <2>2, <2>3, <2>4 DEF StreamInv
  <2> QED BY <2>1, <2>4 DEF StreamInv, Continues, Lined, Running
<1>4. JobInv'
  BY DEF JobInv
<1>5. PlanInv'
  BY DEF PlanInv, SameStores, Paths, Replacing
<1>6. EarlyInv'
  BY DEF EarlyInv, Unplanned, SameStores, There, Paths
<1>7. UpdateInv'
  <2>1. OldInv(OldPlace) => OldInv(OldPlace)'
    BY PlacesAreKept DEF OldInv, SameStores, There, Grown
  <2>2. NewInv(NewPlace) => NewInv(NewPlace)'
    BY PlacesAreKept DEF NewInv, SameStores, There
  <2> QED BY <2>1, <2>2, PlacesAreKept DEF UpdateInv, SameStores, There, Paths, Fresh
<1>8. TidyInv'
  BY DEF TidyInv, SameStores, There, Paths, Replacing
<1>9. EndInv'
  BY SameStoresLeft DEF EndInv, SameStores, There, Paths
<1> QED BY <1>1, <1>2, <1>3, <1>4, <1>5, <1>6, <1>7, <1>8, <1>9


LEMMA CollectInv == StoreInv /\ Collect => StoreInv'
<1> SUFFICES ASSUME StoreInv, Collect PROVE StoreInv'
  OBVIOUS
<1> USE DEF StoreInv
<1>c. found \in Data
  BY DEF TypeInv
<1>a. SameStores /\ UNCHANGED <<stream, asked, records, job, found, ingests, marker>> /\ pc = "collect" /\ pc' = "mark"
  BY CollectedSame DEF Collect, Go, Same, SameStores, DiskInv
<1>1. DiskInv'
  BY <1>a, SameStoresDisk DEF DiskInv, There
<1>2. TypeInv'
  BY <1>a DEF TypeInv, Places, Early, Clearing, Updating, Ending
<1>3. StreamInv'
  BY <1>a, StreamRests DEF StreamInv
<1>4. JobInv'
  BY <1>a DEF JobInv, TypeInv, Places, Early, Clearing, Updating, Ending
<1>5. PlanInv'
  BY <1>a DEF PlanInv, TypeInv, Places, Early, Clearing, Updating, Ending, Replacing, SameStores
<1>6. EarlyInv'
  BY <1>a DEF EarlyInv, TypeInv, Places, Early, Clearing, Updating, Ending, Unplanned, There, Paths, SameStores
<1>7. UpdateInv'
  BY <1>a DEF UpdateInv, Places, Early, Clearing, Updating, Ending
<1>8. TidyInv'
  BY <1>a DEF TidyInv, JobInv, Places, Early, Clearing, Updating, Ending, There, Replacing, SameStores, Paths
<1>9. EndInv'
  BY <1>a, SameStoresLeft DEF EndInv, JobInv, Places, Early, Clearing, Updating, Ending, SameStores, There, Paths
<1> QED BY <1>1, <1>2, <1>3, <1>4, <1>5, <1>6, <1>7, <1>8, <1>9

LEMMA MarkInv == StoreInv /\ Mark => StoreInv'
<1> SUFFICES ASSUME StoreInv, Mark PROVE StoreInv'
  OBVIOUS
<1> USE DEF StoreInv
<1>a. /\ UNCHANGED <<stream, asked, disk, records, found, ingests>> /\ marker' \in {"none", "new", "old"} /\ pc = "mark"
      /\ pc' = (IF job.action = "none" THEN "pending" ELSE "release")
  BY DEF Mark, BadMark, Go, Same, TypeInv
<1>j. SameJob(job) /\ UNCHANGED <<job.done, job.branched, job.swapped, job.broken, job.result>>
  BY DEF Mark, TypeInv, Jobs, SameJob
<1>b. SameStores
  BY <1>a DEF SameStores, DiskInv
<1>1. DiskInv'
  BY <1>a, <1>b, <1>j, SameStoresDisk DEF DiskInv, There
<1>2. TypeInv'
  BY <1>a, <1>b, <1>j DEF SameJob, TypeInv, Places, Early, Clearing, Updating, Ending
<1>3. StreamInv'
  BY <1>a, <1>b, <1>j, StreamRests DEF StreamInv
<1>4. JobInv'
  BY <1>a, <1>b, <1>j DEF SameJob, JobInv, TypeInv, Places, Early, Clearing, Updating, Ending
<1>5. PlanInv'
  BY <1>a, <1>b, <1>j DEF SameJob, PlanInv, TypeInv, Places, Early, Clearing, Updating, Ending, Replacing, SameStores
<1>6. EarlyInv'
  BY <1>a, <1>b, <1>j DEF SameJob, EarlyInv, TypeInv, Places, Early, Clearing, Updating, Ending, Unplanned, There, Paths, SameStores
<1>7. UpdateInv'
  BY <1>a, <1>b, <1>j DEF UpdateInv, Places, Early, Clearing, Updating, Ending
<1>8. TidyInv'
  BY <1>a, <1>b, <1>j DEF SameJob, TidyInv, JobInv, Places, Early, Clearing, Updating, Ending, There, Replacing, SameStores, Paths
<1>9. EndInv'
  BY <1>a, <1>b, <1>j, SameStoresPublished DEF SameJob, Left, Grown, EndInv, JobInv, Places, Early, Clearing, Updating, Ending, SameStores, There, Paths
<1> QED BY <1>1, <1>2, <1>3, <1>4, <1>5, <1>6, <1>7, <1>8, <1>9

LEMMA PendingInv == StoreInv /\ Pending => StoreInv'
<1> SUFFICES ASSUME StoreInv, Pending PROVE StoreInv'
  OBVIOUS
<1> USE DEF StoreInv
<1>a. /\ UNCHANGED <<stream, asked, records, job, found, ingests>> /\ marker' \in {marker, "none"} /\ pc = "pending" /\ pc' = "plan"
      /\ disk' \in {disk, Collected}
  BY DEF Pending, CollectIfDue, Go, Same, bounds
<1>b. SameStores
  BY <1>a, CollectedSame DEF SameStores, DiskInv
<1>1. DiskInv'
  BY <1>a, <1>b, SameStoresDisk DEF DiskInv, There
<1>2. TypeInv'
  BY <1>a, <1>b DEF TypeInv, Places, Early, Clearing, Updating, Ending
<1>3. StreamInv'
  BY <1>a, <1>b, StreamRests DEF StreamInv
<1>4. JobInv'
  BY <1>a, <1>b DEF JobInv, TypeInv, Places, Early, Clearing, Updating, Ending
<1>5. PlanInv'
  BY <1>a, <1>b DEF PlanInv, TypeInv, Places, Early, Clearing, Updating, Ending, Replacing, SameStores
<1>6. EarlyInv'
  BY <1>a, <1>b DEF EarlyInv, TypeInv, Places, Early, Clearing, Updating, Ending, Unplanned, There, Paths, SameStores
<1>7. UpdateInv'
  BY <1>a, <1>b DEF UpdateInv, Places, Early, Clearing, Updating, Ending
<1>8. TidyInv'
  BY <1>a, <1>b DEF TidyInv, JobInv, Places, Early, Clearing, Updating, Ending, There, Replacing, SameStores, Paths
<1>9. EndInv'
  BY <1>a, <1>b, SameStoresLeft DEF EndInv, JobInv, Places, Early, Clearing, Updating, Ending, SameStores, There, Paths
<1> QED BY <1>1, <1>2, <1>3, <1>4, <1>5, <1>6, <1>7, <1>8, <1>9

LEMMA CollectPendingInv == StoreInv /\ CollectPending => StoreInv'
<1> SUFFICES ASSUME StoreInv, CollectPending PROVE StoreInv'
  OBVIOUS
<1>1. /\ disk' \in {disk, Collected} /\ marker' \in {"none", "new", "old"}
      /\ UNCHANGED <<stream, asked, records, pc, job, found, ingests>>
  BY DEF CollectPending, CollectIfDue, Same, StoreInv, TypeInv
<1>2. SameStores
  BY <1>1, CollectedSame DEF SameStores, StoreInv, DiskInv
<1> QED BY <1>1, <1>2, WasteOnly

LEMMA HourPassesInv == StoreInv /\ HourPasses => StoreInv'
<1> SUFFICES ASSUME StoreInv, HourPasses PROVE StoreInv'
  OBVIOUS
<1> DEFINE Aged(W) == {[w EXCEPT !.old = TRUE] : w \in W}
           Older(s) == [s EXCEPT !.waste = Aged(s.waste)]
<1>1. /\ marker' \in {"none", "new", "old"} /\ UNCHANGED <<stream, asked, records, pc, job, found, ingests>>
      /\ disk' = [p \in Paths |-> Older(disk[p])]
  BY DEF HourPasses, Same, bounds, StoreInv, TypeInv
<1>2. ASSUME NEW s \in Stores
      PROVE  /\ Older(s) \in Stores /\ Older(s).there = s.there /\ Older(s).data = s.data /\ Older(s).branch = s.branch
             /\ s = Absent => Older(s) = Absent
  <2>1. Aged(s.waste) \in Wastes /\ (s.waste = {} => Aged(s.waste) = {})
    BY DEF Stores, Wastes
  <2> HIDE DEF Aged
  <2>2. /\ Older(s) \in Stores /\ Older(s).there = s.there /\ Older(s).data = s.data /\ Older(s).branch = s.branch
        /\ Older(s).waste = Aged(s.waste)
    BY <2>1 DEF Stores
  <2> HIDE DEF Older
  <2>3. s = Absent => Older(s) = Absent
    BY <2>1, <2>2, AbsentIs DEF Stores
  <2> QED BY <2>2, <2>3
<1>3. SameStores
  <2> HIDE DEF Older
  <2> QED BY <1>1, <1>2 DEF SameStores, StoreInv, DiskInv
<1> QED BY <1>1, <1>3, WasteOnly

\* A published store stays published when another directory goes.
LEMMA PublishedStays ==
    ASSUME There("target"), There("target")', disk'["target"].data = disk["target"].data PROVE Published' = Published
  BY DEF Published, Target

LEMMA CancelInv == StoreInv /\ Cancel => StoreInv'
<1> SUFFICES ASSUME StoreInv, Cancel PROVE StoreInv'
  OBVIOUS
<1>1. UNCHANGED <<stream, disk, marker, records, pc, job, found, ingests>> /\ asked' = TRUE
  BY DEF Cancel, bounds
<1> QED BY <1>1 DEF StoreInv, DiskInv, TypeInv, StreamInv, JobInv, PlanInv, EarlyInv, UpdateInv, TidyInv, EndInv, There,
       Running, Lined, Continues, Replacing, Unplanned, Swapped, OldPlace, NewPlace, HasNew, Staging, Grown, OldInv, NewInv, Fresh,
       Left, Published, Target

LEMMA RemoveRebuildsInv == StoreInv /\ RemoveRebuilds => StoreInv'
<1> SUFFICES ASSUME StoreInv, RemoveRebuilds PROVE StoreInv'
  OBVIOUS
<1> USE DEF StoreInv
<1>c. found \in Data
  BY DEF TypeInv
<1>a. /\ pc = "idle" /\ UNCHANGED <<stream, asked, marker, records, pc, job, found, ingests>>
      /\ disk' = Removed({"rebuild"})
  BY DEF RemoveRebuilds, Unlocked, Same, bounds
<1>b. /\ disk' \in [Paths -> Stores] /\ disk'["rebuild"] = Absent /\ \A p \in Paths \ {"rebuild"} : disk'[p] = disk[p]
  BY <1>a, <1>c, PathsAre, RemovedIs
<1>d. \A p \in Paths : disk'[p] \in {Absent, disk[p]}
  BY <1>b DEF Paths
<1>e. Absent.data.version = 0 /\ ~Absent.there
  BY AbsentIs, NothingIs
<1>1. DiskInv'
  BY <1>a, <1>b, <1>c, <1>d, <1>e, PathsAre DEF DiskInv, There
<1>2. TypeInv'
  BY <1>a, <1>b, <1>c, <1>d, <1>e, PathsAre DEF TypeInv, Places, Early, Clearing, Updating, Ending
<1>3. StreamInv'
  BY <1>a, <1>b, <1>c, <1>d, <1>e, PathsAre, StreamRests DEF StreamInv
<1>4. JobInv'
  BY <1>a, <1>b, <1>c, <1>d, <1>e, PathsAre DEF JobInv, TypeInv, Places, Early, Clearing, Updating, Ending
<1>5. PlanInv'
  BY <1>a, <1>b, <1>c, <1>d, <1>e, PathsAre DEF PlanInv, TypeInv, Places, Early, Clearing, Updating, Ending, Replacing
<1>6. EarlyInv'
  BY <1>a, <1>b, <1>c, <1>d, <1>e, PathsAre DEF EarlyInv, TypeInv, Places, Early, Clearing, Updating, Ending, Unplanned, There, Paths
<1>7. UpdateInv'
  BY <1>a, <1>b, <1>c, <1>d, <1>e, PathsAre DEF UpdateInv, Places, Early, Clearing, Updating, Ending
<1>8. TidyInv'
  BY <1>a, <1>b, <1>c, <1>d, <1>e, PathsAre DEF TidyInv, JobInv, Places, Early, Clearing, Updating, Ending, There, Replacing
<1>9. EndInv'
  BY <1>a, <1>b, <1>c, <1>d, <1>e, PathsAre DEF EndInv, JobInv, Places, Early, Clearing, Updating, Ending, Left, Grown, Published, Target, There
<1> QED BY <1>1, <1>2, <1>3, <1>4, <1>5, <1>6, <1>7, <1>8, <1>9

LEMMA KilledInv == StoreInv /\ Killed => StoreInv'
<1> SUFFICES ASSUME StoreInv, Killed PROVE StoreInv'
  OBVIOUS
<1> USE DEF StoreInv
<1>c. found \in Data
  BY DEF TypeInv
<1>a. /\ pc # "idle" /\ pc' = "idle" /\ stream' = NoStream /\ asked' = FALSE /\ records' \in {records, <<>>}
      /\ marker' \in {"none", "new", "old"} /\ UNCHANGED <<disk, found, ingests>>
  BY DEF Killed, BadMark, Go, TypeInv
<1>b. /\ job' \in Jobs /\ ~job'.committed /\ ~job'.done /\ ~job'.branched /\ ~job'.swapped /\ ~job'.broken
      /\ job'.action = "none" /\ job'.path = "target" /\ job'.result = "killed"
  <2>1. PICK b \in BOOLEAN : job' = [NoJob EXCEPT !.result = "killed", !.unmarked = b]
    <3>1. (pc \in {"collect", "mark"}) \in BOOLEAN
      OBVIOUS
    <3> QED BY <3>1, Zenon DEF Killed
  <2> QED BY <2>1, NoJobIs DEF Jobs
<1>1. DiskInv'
  BY <1>a, <1>b DEF DiskInv, There
<1>2. TypeInv'
  BY <1>a, <1>b, EmptySeq DEF TypeInv, Places, Early, Clearing, Updating, Ending, NoStream, Streams
<1>3. StreamInv'
  BY <1>a, <1>b, StreamAssumption DEF StreamInv, NoStream, Running
<1>4. JobInv'
  BY <1>a, <1>b DEF JobInv, TypeInv, Places, Early, Clearing, Updating, Ending
<1>5. PlanInv'
  BY <1>a, <1>b DEF PlanInv, TypeInv, Places, Early, Clearing, Updating, Ending, Replacing
<1>6. EarlyInv'
  BY <1>a, <1>b DEF EarlyInv, TypeInv, Places, Early, Clearing, Updating, Ending, Unplanned, There, Paths
<1>7. UpdateInv'
  BY <1>a, <1>b DEF UpdateInv, Places, Early, Clearing, Updating, Ending
<1>8. TidyInv'
  BY <1>a, <1>b DEF TidyInv, JobInv, Places, Early, Clearing, Updating, Ending, There, Replacing
<1>9. EndInv'
  BY <1>a, <1>b DEF EndInv, JobInv, Places, Early, Clearing, Updating, Ending
<1> QED BY <1>1, <1>2, <1>3, <1>4, <1>5, <1>6, <1>7, <1>8, <1>9

LEMMA KnownInv == StoreInv /\ Known => StoreInv'
<1> SUFFICES ASSUME StoreInv, Known PROVE StoreInv'
  OBVIOUS
<1> USE DEF StoreInv
<1>c. found \in Data
  BY DEF TypeInv
<1>a. UNCHANGED <<stream, asked, disk, marker, records, found, ingests>> /\ pc = "known" /\ job.action = "no_op"
  BY DEF Known, Same, bounds, PlanInv
<1>b. /\ OldPlace = "target" /\ ~job.branched /\ There("target") /\ disk["target"].data = found /\ found # Nothing
      /\ (disk["target"].branch = Nothing \/ job.untidy) /\ job.committed
  BY <1>a DEF OldPlace, Swapped, UpdateInv, OldInv, PlanInv, Updating
<1>d. \/ pc' = "normalize" /\ job' = job
      \/ /\ pc' = "release" /\ SameJob(job) /\ job'.result = "stored" /\ Latest = disk["target"].data.periods
         /\ UNCHANGED <<job.done, job.branched, job.swapped, job.broken>>
  BY ResultIs DEF Known, Target, Go, TypeInv
<1>e. Latest = disk["target"].data.periods => \E i \in 1..Len(records) : records[i].periods = disk["target"].data.periods
  <2>1. found.periods # <<>>
    BY <1>b, <1>c, NothingIs
  <2>2. records \in Seq(Records)
    BY DEF TypeInv
  <2>3. Len(records) \in Nat /\ (records # <<>> => Len(records) > 0)
    BY <2>2, EmptySeq, LenProperties
  <2> QED BY <1>b, <2>1, <2>3 DEF Latest
<1>1. DiskInv'
  BY <1>a, <1>b, <1>d DEF DiskInv, There
<1>2. TypeInv'
  BY <1>a, <1>b, <1>d DEF TypeInv, Places, Early, Clearing, Updating, Ending, SameJob
<1>3. StreamInv'
  BY <1>a, <1>b, <1>d, StreamRests DEF StreamInv
<1>4. JobInv'
  BY <1>a, <1>b, <1>d DEF JobInv, TypeInv, Places, Early, Clearing, Updating, Ending, SameJob
<1>5. PlanInv'
  BY <1>a, <1>b, <1>d DEF PlanInv, TypeInv, Places, Early, Clearing, Updating, Ending, Replacing, SameJob
<1>6. EarlyInv'
  BY <1>a, <1>b, <1>d DEF EarlyInv, TypeInv, Places, Early, Clearing, Updating, Ending, Unplanned, There, Paths
<1>7. UpdateInv'
  BY <1>a, <1>b, <1>d DEF UpdateInv, Places, Early, Clearing, Updating, Ending, PlanInv, OldPlace, NewPlace, Swapped, HasNew, OldInv, NewInv, There, Grown, Replacing
<1>8. TidyInv'
  BY <1>a, <1>b, <1>d DEF TidyInv, JobInv, Places, Early, Clearing, Updating, Ending, There, Replacing, SameJob
<1>9. EndInv'
  BY <1>a, <1>b, <1>d, <1>e DEF EndInv, JobInv, Places, Early, Clearing, Updating, Ending, SameJob, There
<1> QED BY <1>1, <1>2, <1>3, <1>4, <1>5, <1>6, <1>7, <1>8, <1>9

LEMMA UnwindInv == StoreInv /\ Unwind => StoreInv'
<1> SUFFICES ASSUME StoreInv, Unwind PROVE StoreInv'
  OBVIOUS
<1> USE DEF StoreInv
<1>c. found \in Data
  BY DEF TypeInv
<1>a. UNCHANGED <<stream, asked, disk, marker, records, found, ingests>> /\ pc = "unwind"
  BY DEF Unwind, Same, bounds
<1>b. SameJob(job) /\ job'.result = "failed" /\ UNCHANGED <<job.done, job.branched, job.swapped, job.broken>>
  BY ResultIs DEF Unwind, TypeInv
<1>d. pc' = (IF job.swapped THEN "outgoing" ELSE IF job.branched THEN "reset" ELSE "release")
  BY DEF Unwind, Go
<1>e. job.swapped \/ job.branched =>
          OldPlace' = OldPlace /\ (HasNew' <=> HasNew) /\ (HasNew => NewPlace' = NewPlace) /\ (Replacing' <=> Replacing)
  BY <1>a, <1>b, <1>d DEF OldPlace, NewPlace, HasNew, Swapped, Replacing, Staging, SameJob
<1>f. ~job.swapped => OldPlace = "target"
  BY <1>a DEF OldPlace, Swapped
<1>1. DiskInv'
  BY <1>a, <1>b, <1>d DEF DiskInv, There
<1>2. TypeInv'
  BY <1>a, <1>b, <1>d DEF TypeInv, Places, Early, Clearing, Updating, Ending, SameJob
<1>3. StreamInv'
  BY <1>a, <1>b, <1>d, StreamRests DEF StreamInv
<1>4. JobInv'
  BY <1>a, <1>b, <1>d DEF JobInv, TypeInv, Places, Early, Clearing, Updating, Ending, SameJob
<1>5. PlanInv'
  BY <1>a, <1>b, <1>d DEF PlanInv, TypeInv, Places, Early, Clearing, Updating, Ending, Replacing, SameJob, JobInv
<1>6. EarlyInv'
  BY <1>a, <1>b, <1>d DEF EarlyInv, TypeInv, Places, Early, Clearing, Updating, Ending, Unplanned, There, Paths
<1>7. UpdateInv'
  BY <1>a, <1>b, <1>d, <1>e DEF UpdateInv, Places, Early, Clearing, Updating, Ending, SameJob, OldInv, NewInv, There, Grown
<1>8. TidyInv'
  BY <1>a, <1>b, <1>d DEF TidyInv, JobInv, Places, Early, Clearing, Updating, Ending, There, Replacing, SameJob
<1>9. EndInv'
  BY <1>a, <1>b, <1>d, <1>f DEF EndInv, JobInv, Places, Early, Clearing, Updating, Ending, SameJob, Left, Published, UpdateInv, OldInv, PlanInv, Target, There, Grown, TypeInv
<1> QED BY <1>1, <1>2, <1>3, <1>4, <1>5, <1>6, <1>7, <1>8, <1>9

\* One more failed step; the job says nothing else.
LEMMA BrokenIs ==
    ASSUME TypeInv, Broken
    PROVE  /\ SameJob(job) /\ job'.broken /\ pc' = "release" /\ job'.result = job.result
           /\ UNCHANGED <<job.done, job.branched, job.swapped>>
  BY DEF TypeInv, Jobs, SameJob, Broken, Go

LEMMA ResetIs ==
    ASSUME disk \in [Paths -> Stores], ingests \in 1..MaxIngests, NEW d,
           d = [disk EXCEPT !["target"].data = Target.branch,
                            !["target"].waste = @ \cup {[of |-> ingests, old |-> FALSE]}]
    PROVE  /\ d \in [Paths -> Stores] /\ d["target"].data = disk["target"].branch
           /\ d["target"].there = disk["target"].there /\ d["target"].branch = disk["target"].branch
           /\ \A p \in Paths \ {"target"} : d[p] = disk[p]
<1> DEFINE W == disk["target"].waste \cup {[of |-> ingests, old |-> FALSE]}
           s == [disk["target"] EXCEPT !.data = disk["target"].branch, !.waste = W]
<1>1. disk["target"] \in Stores /\ "target" \in Paths
  BY DEF Paths
<1>2. W \in Wastes
  BY <1>1 DEF Stores, Wastes
<1>3. d = [disk EXCEPT !["target"] = s]
  BY DEF Target
<1> HIDE DEF W
<1>4. /\ s \in Stores /\ s.data = disk["target"].branch /\ s.there = disk["target"].there
      /\ s.branch = disk["target"].branch
  BY <1>1, <1>2 DEF Stores
<1> HIDE DEF s
<1> QED BY <1>1, <1>3, <1>4


LEMMA FinalizeInv == StoreInv /\ Finalize => StoreInv'
<1> SUFFICES ASSUME StoreInv, Finalize PROVE StoreInv'
  OBVIOUS
<1> USE DEF StoreInv
<1>c. found \in Data
  BY DEF TypeInv
<1>a. /\ pc = "finalize" /\ UNCHANGED <<stream, asked, marker, records, job, found, ingests>>
      /\ pc' = IF job.branched THEN "unbranch" ELSE "release"
  BY DEF Finalize, Same, bounds, Go
<1>b. /\ disk' \in [Paths -> Stores] /\ disk'["retired"] \in {Absent, disk["retired"]}
      /\ \A p \in Paths \ {"retired"} : disk'[p] = disk[p]
  BY <1>c, PathsAre, RemovedIs DEF Finalize
<1>d. \A p \in Paths : disk'[p] \in {Absent, disk[p]}
  BY <1>b DEF Paths
<1>e. Absent.data.version = 0 /\ ~Absent.there
  BY AbsentIs, NothingIs
<1>1. DiskInv'
  BY <1>a, <1>b, <1>c, <1>d, <1>e, PathsAre DEF DiskInv, There
<1>2. TypeInv'
  BY <1>a, <1>b, <1>c, <1>d, <1>e, PathsAre DEF TypeInv, Places, Early, Clearing, Updating, Ending
<1>3. StreamInv'
  BY <1>a, <1>b, <1>c, <1>d, <1>e, PathsAre, StreamRests DEF StreamInv
<1>4. JobInv'
  BY <1>a, <1>b, <1>c, <1>d, <1>e, PathsAre DEF JobInv, TypeInv, Places, Early, Clearing, Updating, Ending
<1>5. PlanInv'
  BY <1>a, <1>b, <1>c, <1>d, <1>e, PathsAre DEF PlanInv, TypeInv, Places, Early, Clearing, Updating, Ending, Replacing
<1>6. EarlyInv'
  BY <1>a, <1>b, <1>c, <1>d, <1>e, PathsAre DEF EarlyInv, TypeInv, Places, Early, Clearing, Updating, Ending, Unplanned, There, Paths
<1>7. UpdateInv'
  BY <1>a, <1>b, <1>c, <1>d, <1>e, PathsAre DEF UpdateInv, Places, Early, Clearing, Updating, Ending
<1>8. TidyInv'
  BY <1>a, <1>b, <1>c, <1>d, <1>e, PathsAre DEF TidyInv, JobInv, Places, Early, Clearing, Updating, Ending, There, Replacing
<1>9. EndInv'
  BY <1>a, <1>b, <1>c, <1>d, <1>e, PathsAre DEF EndInv, JobInv, Places, Early, Clearing, Updating, Ending, There
<1> QED BY <1>1, <1>2, <1>3, <1>4, <1>5, <1>6, <1>7, <1>8, <1>9

LEMMA UnbranchInv == StoreInv /\ Unbranch => StoreInv'
<1> SUFFICES ASSUME StoreInv, Unbranch PROVE StoreInv'
  OBVIOUS
<1> USE DEF StoreInv
<1>c. found \in Data
  BY DEF TypeInv
<1>p. pc = "unbranch" /\ UNCHANGED <<stream, asked, marker, records, found, ingests>>
  BY DEF Unbranch, Same
<1>u. CASE /\ disk' = [disk EXCEPT !["target"].branch = Nothing]
           /\ job' = [job EXCEPT !.branched = FALSE]
           /\ Go(IF job.done /\ job.result = "failed" THEN "collect" ELSE "release")
  <2>a. /\ job' \in Jobs /\ ~job'.branched
        /\ UNCHANGED <<job.request, job.action, job.path, job.committed, job.done, job.swapped, job.broken, job.untidy, job.result>>
        /\ pc' = IF job.done /\ job.result = "failed" THEN "collect" ELSE "release"
    BY <1>u DEF TypeInv, Jobs, Go
  <2>b. /\ disk' \in [Paths -> Stores] /\ disk'["target"].branch = Nothing
        /\ disk'["target"].there = disk["target"].there /\ disk'["target"].data = disk["target"].data
        /\ \A p \in Paths \ {"target"} : disk'[p] = disk[p]
    BY <1>u, <1>c, PathsAre, UnbranchedIs
  <2>d. disk["target"] = Absent => disk'["target"] = Absent
    BY <1>u, <1>c, UnbranchedIs, PathsAre, AbsentIs DEF Stores
  <2>e. Published' = Published
    BY <2>b DEF Published, Target, There, Paths
  <2>1. DiskInv'
    BY <1>p, <2>a, <2>b, <2>d, <1>c, PathsAre DEF DiskInv, There
  <2>2. TypeInv'
    BY <1>p, <2>a, <2>b, <2>d DEF TypeInv, Places, Early, Clearing, Updating, Ending, SameJob
  <2>3. StreamInv'
    BY <1>p, <2>a, <2>b, <2>d, StreamRests DEF StreamInv
  <2>4. JobInv'
    BY <1>p, <2>a, <2>b, <2>d DEF JobInv, TypeInv, Places, Early, Clearing, Updating, Ending, SameJob
  <2>5. PlanInv'
    BY <1>p, <2>a, <2>b, <2>d DEF PlanInv, TypeInv, Places, Early, Clearing, Updating, Ending, Replacing, SameJob, JobInv
  <2>6. EarlyInv'
    BY <1>p, <2>a, <2>b, <2>d DEF EarlyInv, TypeInv, Places, Early, Clearing, Updating, Ending, Unplanned, There, Paths, JobInv, SameJob
  <2>7. UpdateInv'
    BY <1>p, <2>a, <2>b, <2>d DEF UpdateInv, Places, Early, Clearing, Updating, Ending
  <2>8. TidyInv'
    BY <1>p, <2>a, <2>b, <2>d, PathsAre, <1>c, <2>e DEF TidyInv, JobInv, Places, Early, Clearing, Updating, Ending, There, Replacing, SameJob
  <2>9. EndInv'
    BY <1>p, <2>a, <2>b, <2>d, PathsAre, <1>c, <2>e DEF EndInv, JobInv, Places, Early, Clearing, Updating, Ending, There, Left, Grown, SameJob
  <2> QED BY <2>1, <2>2, <2>3, <2>4, <2>5, <2>6, <2>7, <2>8, <2>9
<1>f. CASE job.result = "failed" /\ Broken /\ UNCHANGED disk
  <2>a. SameJob(job) /\ job'.broken /\ pc' = "release" /\ job'.result = job.result /\ UNCHANGED <<job.done, job.branched, job.swapped>>
    BY <1>f, BrokenIs
  <2>1. DiskInv'
    BY <1>p, <1>f, <2>a, <1>c, PathsAre DEF DiskInv, There
  <2>2. TypeInv'
    BY <1>p, <1>f, <2>a DEF TypeInv, Places, Early, Clearing, Updating, Ending, SameJob
  <2>3. StreamInv'
    BY <1>p, <1>f, <2>a, StreamRests DEF StreamInv
  <2>4. JobInv'
    BY <1>p, <1>f, <2>a DEF JobInv, TypeInv, Places, Early, Clearing, Updating, Ending, SameJob
  <2>5. PlanInv'
    BY <1>p, <1>f, <2>a DEF PlanInv, TypeInv, Places, Early, Clearing, Updating, Ending, Replacing, SameJob, JobInv
  <2>6. EarlyInv'
    BY <1>p, <1>f, <2>a DEF EarlyInv, TypeInv, Places, Early, Clearing, Updating, Ending, Unplanned, There, Paths, JobInv, SameJob
  <2>7. UpdateInv'
    BY <1>p, <1>f, <2>a DEF UpdateInv, Places, Early, Clearing, Updating, Ending
  <2>8. TidyInv'
    BY <1>p, <1>f, <2>a DEF TidyInv, JobInv, Places, Early, Clearing, Updating, Ending, There, Replacing, SameJob
  <2>9. EndInv'
    BY <1>p, <1>f, <2>a DEF EndInv, JobInv, Places, Early, Clearing, Updating, Ending, There, Left, Grown, SameJob
  <2> QED BY <2>1, <2>2, <2>3, <2>4, <2>5, <2>6, <2>7, <2>8, <2>9
<1>l. CASE job.result # "failed" /\ Go("release") /\ UNCHANGED <<disk, job>>
  <2>a. pc' = "release" /\ job' = job /\ job.result = "stored"
    BY <1>p, <1>l DEF Go, JobInv
  <2>1. DiskInv'
    BY <1>p, <1>l, <2>a, <1>c, PathsAre DEF DiskInv, There
  <2>2. TypeInv'
    BY <1>p, <1>l, <2>a DEF TypeInv, Places, Early, Clearing, Updating, Ending, SameJob
  <2>3. StreamInv'
    BY <1>p, <1>l, <2>a, StreamRests DEF StreamInv
  <2>4. JobInv'
    BY <1>p, <1>l, <2>a DEF JobInv, TypeInv, Places, Early, Clearing, Updating, Ending, SameJob
  <2>5. PlanInv'
    BY <1>p, <1>l, <2>a DEF PlanInv, TypeInv, Places, Early, Clearing, Updating, Ending, Replacing, SameJob, JobInv
  <2>6. EarlyInv'
    BY <1>p, <1>l, <2>a DEF EarlyInv, TypeInv, Places, Early, Clearing, Updating, Ending, Unplanned, There, Paths, JobInv, SameJob
  <2>7. UpdateInv'
    BY <1>p, <1>l, <2>a DEF UpdateInv, Places, Early, Clearing, Updating, Ending
  <2>8. TidyInv'
    BY <1>p, <1>l, <2>a DEF TidyInv, JobInv, Places, Early, Clearing, Updating, Ending, There, Replacing, SameJob
  <2>9. EndInv'
    BY <1>p, <1>l, <2>a DEF EndInv, JobInv, Places, Early, Clearing, Updating, Ending, There, Left, Grown, SameJob
  <2> QED BY <2>1, <2>2, <2>3, <2>4, <2>5, <2>6, <2>7, <2>8, <2>9
<1> QED BY <1>u, <1>f, <1>l DEF Unbranch

LEMMA ReleaseInv == StoreInv /\ Release => StoreInv'
<1> SUFFICES ASSUME StoreInv, Release PROVE StoreInv'
  OBVIOUS
<1> USE DEF StoreInv
<1>c. found \in Data
  BY DEF TypeInv
<1>a. /\ pc = "release" /\ pc' = "idle" /\ UNCHANGED <<stream, asked, marker, records, job, found, ingests>>
  BY DEF Release, Same, bounds, Go
<1>b. /\ disk' \in [Paths -> Stores] /\ disk'["replacement"] \in {Absent, disk["replacement"]}
      /\ \A p \in Paths \ {"replacement"} : disk'[p] = disk[p]
  BY <1>c, PathsAre, RemovedIs DEF Release
<1>d. \A p \in Paths : disk'[p] \in {Absent, disk[p]}
  BY <1>b DEF Paths
<1>e. Absent.data.version = 0 /\ ~Absent.there
  BY AbsentIs, NothingIs
<1>f. Published' = Published
  BY <1>b DEF Published, Target, There, Paths
<1>1. DiskInv'
  BY <1>a, <1>b, <1>c, <1>d, <1>e, PathsAre DEF DiskInv, There
<1>2. TypeInv'
  BY <1>a, <1>b, <1>c, <1>d, <1>e, PathsAre DEF TypeInv, Places, Early, Clearing, Updating, Ending
<1>3. StreamInv'
  BY <1>a, <1>b, <1>c, <1>d, <1>e, PathsAre, StreamRests DEF StreamInv
<1>4. JobInv'
  BY <1>a, <1>b, <1>c, <1>d, <1>e, PathsAre DEF JobInv, TypeInv, Places, Early, Clearing, Updating, Ending
<1>5. PlanInv'
  BY <1>a, <1>b, <1>c, <1>d, <1>e, PathsAre DEF PlanInv, TypeInv, Places, Early, Clearing, Updating, Ending, Replacing
<1>6. EarlyInv'
  BY <1>a, <1>b, <1>c, <1>d, <1>e, PathsAre DEF EarlyInv, TypeInv, Places, Early, Clearing, Updating, Ending, Unplanned, There, Paths
<1>7. UpdateInv'
  BY <1>a, <1>b, <1>c, <1>d, <1>e, PathsAre DEF UpdateInv, Places, Early, Clearing, Updating, Ending
<1>8. TidyInv'
  BY <1>a, <1>b, <1>c, <1>d, <1>e, PathsAre DEF TidyInv, JobInv, Places, Early, Clearing, Updating, Ending, There, Replacing
<1>9. EndInv'
  BY <1>a, <1>b, <1>c, <1>d, <1>e, PathsAre, <1>f DEF EndInv, JobInv, Places, Early, Clearing, Updating, Ending, There, Left, Grown
<1> QED BY <1>1, <1>2, <1>3, <1>4, <1>5, <1>6, <1>7, <1>8, <1>9

LEMMA BrokenInv ==
    ASSUME StoreInv, Broken, DiskInv', pc \in {"outgoing", "incoming", "reject", "reset"},
           UNCHANGED <<stream, asked, marker, records, found, ingests>>
    PROVE  StoreInv'
<1> USE DEF StoreInv
<1>a. UNCHANGED <<stream, asked, marker, records, found, ingests>>
  OBVIOUS
<1>b. /\ SameJob(job) /\ job'.broken /\ pc' = "release" /\ job'.result = job.result
      /\ UNCHANGED <<job.done, job.branched, job.swapped>>
  BY BrokenIs
<1>1. DiskInv'
  BY <1>a, <1>b DEF DiskInv, There
<1>2. TypeInv'
  BY <1>a, <1>b DEF TypeInv, Places, Early, Clearing, Updating, Ending, SameJob
<1>3. StreamInv'
  BY <1>a, <1>b, StreamRests DEF StreamInv
<1>4. JobInv'
  BY <1>a, <1>b DEF JobInv, TypeInv, Places, Early, Clearing, Updating, Ending, SameJob
<1>5. PlanInv'
  BY <1>a, <1>b DEF PlanInv, TypeInv, Places, Early, Clearing, Updating, Ending, Replacing, SameJob, JobInv
<1>6. EarlyInv'
  BY <1>a, <1>b DEF EarlyInv, TypeInv, Places, Early, Clearing, Updating, Ending, Unplanned, There, Paths, SameJob
<1>7. UpdateInv'
  BY <1>a, <1>b DEF UpdateInv, Places, Early, Clearing, Updating, Ending
<1>8. TidyInv'
  BY <1>a, <1>b DEF TidyInv, JobInv, Places, Early, Clearing, Updating, Ending, There, Replacing, SameJob
<1>9. EndInv'
  BY <1>a, <1>b DEF EndInv, JobInv, Places, Early, Clearing, Updating, Ending
<1> QED BY <1>1, <1>2, <1>3, <1>4, <1>5, <1>6, <1>7, <1>8, <1>9

LEMMA OutgoingInv == StoreInv /\ Outgoing => StoreInv'
<1> SUFFICES ASSUME StoreInv, Outgoing PROVE StoreInv'
  OBVIOUS
<1>a. UNCHANGED <<stream, asked, marker, records, found, ingests>> /\ pc = "outgoing" /\ DiskInv /\ found \in Data
  BY DEF Outgoing, Same, bounds, StoreInv, TypeInv
<1>b. CASE Broken /\ UNCHANGED disk
  BY <1>a, <1>b, BrokenInv DEF DiskInv, There
<1>c. CASE disk' = Moved("target", "failed") /\ Go("incoming") /\ UNCHANGED job
  <2> USE DEF StoreInv
  <2>a. pc = "outgoing" /\ pc' = "incoming" /\ job' = job /\ job.swapped
    BY <1>a, <1>c DEF Go, PlanInv
  <2>b. /\ disk' \in [Paths -> Stores] /\ disk'["target"] = Absent /\ disk'["failed"] = disk["target"]
        /\ \A p \in Paths \ {"target", "failed"} : disk'[p] = disk[p]
    <3>1. disk \in [Paths -> Stores] /\ "target" \in Paths /\ "failed" \in Paths
      BY <1>a, PathsAre
    <3> QED BY <1>c, <3>1, MovedIs
  <2>d. \A p \in Paths : disk'[p] \in {Absent} \cup {disk[q] : q \in Paths}
    BY <2>b DEF Paths
  <2>e. Absent.data.version = 0 /\ ~Absent.there
    BY AbsentIs, NothingIs
  <2>1. DiskInv'
    BY <1>a, <2>a, <2>b, <2>d, <2>e, PathsAre DEF DiskInv, There
  <2>2. TypeInv'
    BY <1>a, <2>a, <2>b, <2>d, <2>e, PathsAre DEF TypeInv, Places, Early, Clearing, Updating, Ending
  <2>3. StreamInv'
    BY <1>a, <2>a, <2>b, <2>d, <2>e, PathsAre, StreamRests DEF StreamInv
  <2>4. JobInv'
    BY <1>a, <2>a, <2>b, <2>d, <2>e, PathsAre DEF JobInv, TypeInv, Places, Early, Clearing, Updating, Ending
  <2>5. PlanInv'
    BY <1>a, <2>a, <2>b, <2>d, <2>e, PathsAre DEF PlanInv, TypeInv, Places, Early, Clearing, Updating, Ending, Replacing
  <2>6. EarlyInv'
    BY <1>a, <2>a, <2>b, <2>d, <2>e, PathsAre DEF EarlyInv, TypeInv, Places, Early, Clearing, Updating, Ending, Unplanned, There, Paths
  <2>7. UpdateInv'
    BY <1>a, <2>a, <2>b, <2>d, <2>e, PathsAre DEF UpdateInv, Places, Early, Clearing, Updating, Ending, PlanInv, OldPlace, NewPlace, Swapped, HasNew, OldInv, NewInv, There, Grown, Replacing
  <2>8. TidyInv'
    BY <1>a, <2>a, <2>b, <2>d, <2>e, PathsAre DEF TidyInv, JobInv, Places, Early, Clearing, Updating, Ending, There, Replacing
  <2>9. EndInv'
    BY <1>a, <2>a, <2>b, <2>d, <2>e, PathsAre DEF EndInv, JobInv, Places, Early, Clearing, Updating, Ending
  <2> QED BY <2>1, <2>2, <2>3, <2>4, <2>5, <2>6, <2>7, <2>8, <2>9
<1> QED BY <1>b, <1>c DEF Outgoing

LEMMA IncomingInv == StoreInv /\ Incoming => StoreInv'
<1> SUFFICES ASSUME StoreInv, Incoming PROVE StoreInv'
  OBVIOUS
<1>a. UNCHANGED <<stream, asked, marker, records, found, ingests>> /\ pc = "incoming" /\ DiskInv /\ found \in Data
  BY DEF Incoming, Same, bounds, StoreInv, TypeInv
<1>d. LET d == Moved("retired", "target") IN
      /\ d \in [Paths -> Stores] /\ d["retired"] = Absent /\ d["target"] = disk["retired"]
      /\ \A p \in Paths \ {"target", "retired"} : d[p] = disk[p]
  <2>1. disk \in [Paths -> Stores] /\ "retired" \in Paths /\ "target" \in Paths
    BY <1>a, PathsAre
  <2> QED BY <2>1, MovedIs
<1>f. LET d == Moved("failed", "target") IN
      /\ d \in [Paths -> Stores] /\ d["failed"] = Absent /\ d["target"] = disk["failed"]
      /\ \A p \in Paths \ {"target", "failed"} : d[p] = disk[p]
  <2>1. disk \in [Paths -> Stores] /\ "failed" \in Paths /\ "target" \in Paths
    BY <1>a, PathsAre
  <2> QED BY <2>1, MovedIs
<1>g. disk' \in [Paths -> Stores] /\ \A p \in Paths : disk'[p] \in {Absent} \cup {disk[q] : q \in Paths}
  BY <1>a, <1>d, <1>f, PathsAre DEF Incoming
<1>e. Absent.data.version = 0 /\ ~Absent.there
  BY AbsentIs, NothingIs
<1>1. DiskInv'
  BY <1>a, <1>e, <1>g, PathsAre DEF DiskInv, There
<1>b. CASE Broken
  BY <1>a, <1>b, <1>1, BrokenInv
<1>c. CASE disk' = Moved("retired", "target") /\ Go("reject") /\ UNCHANGED job
  <2> USE DEF StoreInv
  <2>a. pc = "incoming" /\ pc' = "reject" /\ job' = job /\ job.swapped
    BY <1>a, <1>c DEF Go, PlanInv
  <2>b. /\ disk' \in [Paths -> Stores] /\ disk'["retired"] = Absent /\ disk'["target"] = disk["retired"]
        /\ \A p \in Paths \ {"target", "retired"} : disk'[p] = disk[p]
    BY <1>c, <1>d
  <2>1. DiskInv'
    BY <1>a, <2>a, <2>b, PathsAre, <1>1 DEF DiskInv, There
  <2>2. TypeInv'
    BY <1>a, <2>a, <2>b, PathsAre DEF TypeInv, Places, Early, Clearing, Updating, Ending
  <2>3. StreamInv'
    BY <1>a, <2>a, <2>b, PathsAre, StreamRests DEF StreamInv
  <2>4. JobInv'
    BY <1>a, <2>a, <2>b, PathsAre DEF JobInv, TypeInv, Places, Early, Clearing, Updating, Ending
  <2>5. PlanInv'
    BY <1>a, <2>a, <2>b, PathsAre DEF PlanInv, TypeInv, Places, Early, Clearing, Updating, Ending, Replacing
  <2>6. EarlyInv'
    BY <1>a, <2>a, <2>b, PathsAre DEF EarlyInv, TypeInv, Places, Early, Clearing, Updating, Ending, Unplanned, There, Paths
  <2>7. UpdateInv'
    BY <1>a, <2>a, <2>b, PathsAre DEF UpdateInv, Places, Early, Clearing, Updating, Ending, PlanInv, OldPlace, NewPlace, Swapped, HasNew, OldInv, NewInv, There, Grown, Replacing
  <2>8. TidyInv'
    BY <1>a, <2>a, <2>b, PathsAre DEF TidyInv, JobInv, Places, Early, Clearing, Updating, Ending, There, Replacing
  <2>9. EndInv'
    BY <1>a, <2>a, <2>b, PathsAre DEF EndInv, JobInv, Places, Early, Clearing, Updating, Ending
  <2> QED BY <2>1, <2>2, <2>3, <2>4, <2>5, <2>6, <2>7, <2>8, <2>9
<1> QED BY <1>b, <1>c DEF Incoming

LEMMA RejectInv == StoreInv /\ Reject => StoreInv'
<1> SUFFICES ASSUME StoreInv, Reject PROVE StoreInv'
  OBVIOUS
<1>a. UNCHANGED <<stream, asked, marker, records, found, ingests>> /\ pc = "reject" /\ DiskInv /\ found \in Data
  BY DEF Reject, Same, bounds, StoreInv, TypeInv
<1>b. CASE Broken /\ UNCHANGED disk
  BY <1>a, <1>b, BrokenInv DEF DiskInv, There
<1>c. CASE disk' = Removed({"failed"}) /\ Go(IF job.branched THEN "reset" ELSE "release") /\ UNCHANGED job
  <2> USE DEF StoreInv
  <2>a. pc = "reject" /\ pc' = (IF job.branched THEN "reset" ELSE "release") /\ job' = job
    BY <1>a, <1>c DEF Go
  <2>b. /\ disk' \in [Paths -> Stores] /\ disk'["failed"] = Absent /\ \A p \in Paths \ {"failed"} : disk'[p] = disk[p]
    BY <1>a, <1>c, PathsAre, RemovedIs
  <2>d. \A p \in Paths : disk'[p] \in {Absent, disk[p]}
    BY <2>b DEF Paths
  <2>e. Absent.data.version = 0 /\ ~Absent.there
    BY AbsentIs, NothingIs
  <2>1. DiskInv'
    BY <1>a, <2>a, <2>b, <2>d, <2>e, PathsAre DEF DiskInv, There
  <2>2. TypeInv'
    BY <1>a, <2>a, <2>b, <2>d, <2>e, PathsAre DEF TypeInv, Places, Early, Clearing, Updating, Ending
  <2>3. StreamInv'
    BY <1>a, <2>a, <2>b, <2>d, <2>e, PathsAre, StreamRests DEF StreamInv
  <2>4. JobInv'
    BY <1>a, <2>a, <2>b, <2>d, <2>e, PathsAre DEF JobInv, TypeInv, Places, Early, Clearing, Updating, Ending
  <2>5. PlanInv'
    BY <1>a, <2>a, <2>b, <2>d, <2>e, PathsAre DEF PlanInv, TypeInv, Places, Early, Clearing, Updating, Ending, Replacing
  <2>6. EarlyInv'
    BY <1>a, <2>a, <2>b, <2>d, <2>e, PathsAre DEF EarlyInv, TypeInv, Places, Early, Clearing, Updating, Ending, Unplanned, There, Paths
  <2>7. UpdateInv'
    BY <1>a, <2>a, <2>b, <2>d, <2>e, PathsAre DEF UpdateInv, Places, Early, Clearing, Updating, Ending, PlanInv, OldPlace, NewPlace, Swapped, HasNew, OldInv, NewInv, There, Grown, Replacing
  <2>8. TidyInv'
    BY <1>a, <2>a, <2>b, <2>d, <2>e, PathsAre DEF TidyInv, JobInv, Places, Early, Clearing, Updating, Ending, There, Replacing
  <2>9. EndInv'
    BY <1>a, <2>a, <2>b, <2>d, <2>e, PathsAre DEF EndInv, JobInv, Places, Early, Clearing, Updating, Ending, PlanInv, OldPlace, NewPlace, Swapped, HasNew, OldInv, NewInv, There, Grown, Replacing, UpdateInv, Left, Published, Target
  <2> QED BY <2>1, <2>2, <2>3, <2>4, <2>5, <2>6, <2>7, <2>8, <2>9
<1> QED BY <1>b, <1>c DEF Reject

LEMMA ResetInv == StoreInv /\ Reset => StoreInv'
<1> SUFFICES ASSUME StoreInv, Reset PROVE StoreInv'
  OBVIOUS
<1>a. /\ UNCHANGED <<stream, asked, marker, records, found, ingests>> /\ pc = "reset" /\ DiskInv /\ found \in Data
      /\ ingests \in 1..MaxIngests
  BY StoreAssumption DEF Reset, Same, bounds, StoreInv, TypeInv, DiskInv, JobInv
<1>b. CASE Broken /\ UNCHANGED disk
  BY <1>a, <1>b, BrokenInv DEF DiskInv, There
<1>c. CASE /\ disk' = IF ~job.done THEN disk
                      ELSE [disk EXCEPT !["target"].data = Target.branch,
                                        !["target"].waste = @ \cup {[of |-> ingests, old |-> FALSE]}]
           /\ Go("unbranch") /\ UNCHANGED job
  <2> USE DEF StoreInv
  <2>a. pc = "reset" /\ pc' = "unbranch" /\ job' = job
    BY <1>a, <1>c DEF Go
  <2>f. OldPlace = "target" /\ ~HasNew /\ job.branched /\ job.committed
    BY <1>a DEF OldPlace, HasNew, Swapped, PlanInv
  <2>b. /\ disk' \in [Paths -> Stores] /\ disk'["target"].there = disk["target"].there
        /\ disk'["target"].data = IF job.done THEN found ELSE disk["target"].data
        /\ \A p \in Paths \ {"target"} : disk'[p] = disk[p]
    <3>1. disk["target"].branch = found
      BY <1>a, <2>f DEF UpdateInv, OldInv, Updating
    <3>2. CASE ~job.done
      BY <1>c, <3>2, <1>a, PathsAre
    <3>3. CASE job.done
      <4>1. disk' = [disk EXCEPT !["target"].data = Target.branch,
                                 !["target"].waste = @ \cup {[of |-> ingests, old |-> FALSE]}]
        BY <1>c, <3>3, Zenon
      <4> QED BY <3>1, <3>3, <4>1, <1>a, PathsAre, ResetIs
    <3> QED BY <3>2, <3>3
  <2>g. \A p \in Paths : disk'[p].there = disk[p].there /\ disk'[p].data.version <= ingests
    <3>1. found.version <= ingests
      BY <1>a, <2>f, PathsAre DEF UpdateInv, OldInv, Updating, Grown
    <3>2. ASSUME NEW p \in Paths PROVE disk'[p].there = disk[p].there /\ disk'[p].data.version <= ingests
      BY <2>b, <3>1, <1>a, PathsAre
    <3> QED BY <3>2
  <2>d. /\ There("target") /\ Grown(disk["target"].data) /\ found.version <= ingests
    BY <1>a, <2>f, PathsAre DEF UpdateInv, OldInv, Updating, There, Grown
  <2>e. /\ found.version \in Nat /\ Grown(found)
    BY <1>a, PathsAre, NothingIs DEF Grown
  <2>h. Left'
    <3>1. Published' = disk'["target"].data
      BY <2>b, <2>d DEF Published, Target, There
    <3>2. CASE job.done
      BY <1>a, <2>a, <2>b, <2>e, <3>1, <3>2 DEF Left, Grown
    <3>3. CASE ~job.done
      BY <1>a, <2>a, <2>b, <2>d, <3>1, <3>3 DEF Left, Grown
    <3> QED BY <3>2, <3>3
  <2>1. DiskInv'
    BY <1>a, <2>a, <2>b, <2>d, <2>e, <2>f, PathsAre, <2>g DEF DiskInv, There
  <2>2. TypeInv'
    BY <1>a, <2>a, <2>b, <2>d, <2>e, <2>f, PathsAre DEF TypeInv, Places, Early, Clearing, Updating, Ending
  <2>3. StreamInv'
    BY <1>a, <2>a, <2>b, <2>d, <2>e, <2>f, PathsAre, StreamRests DEF StreamInv
  <2>4. JobInv'
    BY <1>a, <2>a, <2>b, <2>d, <2>e, <2>f, PathsAre DEF JobInv, TypeInv, Places, Early, Clearing, Updating, Ending
  <2>5. PlanInv'
    BY <1>a, <2>a, <2>b, <2>d, <2>e, <2>f, PathsAre DEF PlanInv, TypeInv, Places, Early, Clearing, Updating, Ending, Replacing
  <2>6. EarlyInv'
    BY <1>a, <2>a, <2>b, <2>d, <2>e, <2>f, PathsAre DEF EarlyInv, TypeInv, Places, Early, Clearing, Updating, Ending, Unplanned, There, Paths
  <2>7. UpdateInv'
    BY <1>a, <2>a, <2>b, <2>d, <2>e, <2>f, PathsAre DEF UpdateInv, Places, Early, Clearing, Updating, Ending
  <2>8. TidyInv'
    BY <1>a, <2>a, <2>b, <2>d, <2>e, <2>f, PathsAre DEF TidyInv, JobInv, Places, Early, Clearing, Updating, Ending, There, Replacing
  <2>9. EndInv'
    BY <1>a, <2>a, <2>b, <2>d, <2>e, <2>f, PathsAre, <2>h DEF EndInv, JobInv, Places, Early, Clearing, Updating, Ending
  <2> QED BY <2>1, <2>2, <2>3, <2>4, <2>5, <2>6, <2>7, <2>8, <2>9
<1> QED BY <1>b, <1>c, Zenon DEF Reset

-----------------------------------------------------------------------------
(* The fetch. *)

LEMMA NoStreamIs ==
    /\ NoStream \in Streams /\ NoStream.state = "idle" /\ NoStream.window = <<>> /\ NoStream.queue = <<>>
    /\ [NoStream EXCEPT !.state = "failed"] \in Streams
    /\ Len(<<>>) = 0
  BY EmptySeq DEF NoStream, Streams

LEMMA StreamAlone ==
    ASSUME StoreInv, pc = "fetch", UNCHANGED <<disk, marker, records, pc, job, found, ingests>>,
           asked' \in BOOLEAN, stream' \in Streams, StreamInv'
    PROVE  StoreInv'
<1>1. UNCHANGED <<disk, marker, records, pc, job, found, ingests>>
  OBVIOUS
<1> QED BY <1>1 DEF StoreInv, DiskInv, TypeInv, JobInv, PlanInv, EarlyInv, UpdateInv, TidyInv, EndInv, There,
       Replacing, Unplanned, Swapped, OldPlace, NewPlace, HasNew, Staging, Grown, OldInv, NewInv, Left, Published, Target

\* A run that fails drops what it fetches.
LEMMA StreamFailsInv ==
    ASSUME StreamFails, UNCHANGED <<disk, job>>
    PROVE  stream' \in Streams /\ StreamInv'
<1>1. /\ stream' \in Streams /\ stream'.state = "failed" /\ stream'.window = <<>> /\ stream'.queue = <<>>
  BY NoStreamIs DEF StreamFails, NoStream
<1> QED BY <1>1, NoStreamIs, StreamAssumption DEF StreamInv, Running

LEMMA AwaitInv ==
    ASSUME TypeInv, StreamInv, Await, UNCHANGED <<disk, pc, job>>
    PROVE  stream' \in Streams /\ StreamInv'
<1>1. /\ stream' \in Streams /\ stream'.state = "awaiting" /\ stream'.window = stream.window /\ stream'.queue = stream.queue
      /\ stream.state = "running"
  BY DEF Await, TypeInv, Streams
<1> QED BY <1>1 DEF StreamInv, Running, Lined, Continues

LEMMA FetchEndsInv ==
    ASSUME TypeInv, StreamInv, NEW s \in {"fetched", "failed"}, FetchEnds(s), UNCHANGED <<disk, pc, job>>
    PROVE  stream' \in Streams /\ StreamInv'
<1>1. PICK i \in 1..Len(stream.window) : stream' = [stream EXCEPT !.window[i].state = s]
  BY DEF FetchEnds
<1> DEFINE e == [stream.window[i] EXCEPT !.state = s]
           w == [stream.window EXCEPT ![i] = e]
<1>2. stream \in Streams /\ stream.window \in Seq(Fetches) /\ stream.window[i] \in Fetches /\ Running
  BY ElementOfSeq DEF TypeInv, Streams, FetchEnds
<1>3. e \in Fetches /\ e.period = stream.window[i].period
  BY <1>2 DEF Fetches
<1>4. stream' = [stream EXCEPT !.window = w]
  BY <1>1
<1> HIDE DEF e
<1>5. /\ w \in Seq(Fetches) /\ Len(w) = Len(stream.window)
      /\ \A j \in 1..Len(stream.window) : w[j] = IF j = i THEN e ELSE stream.window[j]
  BY <1>2, <1>3, ExceptSeq
<1>6. \A j \in 1..Len(stream.window) : w[j].period = stream.window[j].period
  BY <1>3, <1>5
<1> HIDE DEF w
<1>7. stream' \in Streams /\ stream'.state = stream.state /\ stream'.window = w /\ stream'.queue = stream.queue
  BY <1>2, <1>4, <1>5 DEF Streams
<1>8. \A n : Lined(n) => Lined(n)'
  BY <1>5, <1>6, <1>7 DEF Lined
<1>9. Running' /\ Len(stream'.window) <= MaxParallel /\ stream'.state # "done"
  BY <1>2, <1>5, <1>7 DEF Running, StreamInv
<1> QED BY <1>2, <1>7, <1>8, <1>9 DEF StreamInv, Continues

LEMMA FetchInv == StoreInv /\ Fetch => StoreInv'
<1> SUFFICES ASSUME StoreInv, Fetch PROVE StoreInv'
  OBVIOUS
<1>1. /\ pc = "fetch" /\ UNCHANGED <<disk, marker, records, pc, job, found, ingests>> /\ asked' \in BOOLEAN
      /\ TypeInv /\ StreamInv
  BY DEF Fetch, StoreInv, TypeInv, Await, FetchEnds
<1>2. Await \/ FetchEnds("fetched") \/ FetchEnds("failed") \/ StreamFails
  BY DEF Fetch, Cancelled, FetchFailed
<1>3. stream' \in Streams /\ StreamInv'
  BY <1>1, <1>2, AwaitInv, FetchEndsInv, StreamFailsInv
<1> QED BY <1>1, <1>3, StreamAlone

LEMMA FetchedInv == StoreInv /\ Fetched => StoreInv'
<1> SUFFICES ASSUME StoreInv, Fetched PROVE StoreInv'
  OBVIOUS
<1> USE DEF StoreInv
<1>a. pc = "fetch" /\ stream' = NoStream /\ UNCHANGED <<asked, disk, marker, records, found, ingests>>
  BY DEF Fetched, bounds
<1>b. \/ stream.state = "done" /\ pc' = "normalize" /\ job' = [job EXCEPT !.done = TRUE]
      \/ pc' = "unwind" /\ job' = job
  BY DEF Fetched, Go
<1>d. /\ SameJob(job) /\ UNCHANGED <<job.branched, job.swapped, job.broken, job.result>>
  BY <1>b DEF TypeInv, Jobs, SameJob
<1>e. OldPlace = "target" /\ OldPlace' = "target" /\ ~job.swapped /\ job.action # "no_op"
  BY <1>a, <1>b, <1>d DEF OldPlace, Swapped, PlanInv
<1>f. Replacing /\ pc' = "normalize" => disk["replacement"].data.version = ingests
  BY <1>a, <1>b, PathsAre, NothingIs DEF StreamInv, UpdateInv, Updating, Replacing, TypeInv
<1>1. DiskInv'
  BY <1>a, <1>b, <1>d, <1>e DEF DiskInv, There
<1>2. TypeInv'
  BY <1>a, <1>b, <1>d, <1>e, NoStreamIs DEF TypeInv, Places, Early, Clearing, Updating, Ending, SameJob
<1>3. StreamInv'
  BY <1>a, <1>b, <1>d, <1>e, NoStreamIs, StreamAssumption DEF StreamInv, Running
<1>4. JobInv'
  BY <1>a, <1>b, <1>d, <1>e DEF JobInv, TypeInv, Places, Early, Clearing, Updating, Ending, SameJob
<1>5. PlanInv'
  BY <1>a, <1>b, <1>d, <1>e DEF PlanInv, TypeInv, Places, Early, Clearing, Updating, Ending, Replacing, SameJob
<1>6. EarlyInv'
  BY <1>a, <1>b, <1>d, <1>e DEF EarlyInv, TypeInv, Places, Early, Clearing, Updating, Ending, Unplanned, There, Paths, SameJob
<1>7. UpdateInv'
  BY <1>a, <1>b, <1>d, <1>e, <1>f DEF UpdateInv, Places, Early, Clearing, Updating, Ending, OldInv, NewInv, NewPlace, Staging, HasNew, Swapped, There, Grown, Replacing, SameJob
<1>8. TidyInv'
  BY <1>a, <1>b, <1>d, <1>e DEF TidyInv, JobInv, Places, Early, Clearing, Updating, Ending, There, Replacing, SameJob
<1>9. EndInv'
  BY <1>a, <1>b, <1>d, <1>e DEF EndInv, JobInv, Places, Early, Clearing, Updating, Ending, SameJob
<1> QED BY <1>1, <1>2, <1>3, <1>4, <1>5, <1>6, <1>7, <1>8, <1>9

\* The first period of the window is committed; what lines up behind it moves on.
LEMMA CommittedIs ==
    ASSUME TypeInv, StreamInv, NEW i \in Ready, Committed(i), NEW n \in 1..MaxPeriod + 1, Lined(n)
    PROVE  /\ i = 1 /\ 1 \in 1..Len(stream.window) /\ stream.window[1].period = n /\ n \in Periods
           /\ stream' \in Streams /\ Len(stream'.window) <= MaxParallel /\ stream'.state \in {"done", "running"}
           /\ stream'.state = "done" => stream'.window = <<>> /\ stream'.queue = <<>>
           /\ Lined(n + 1)'
<1> DEFINE W == stream.window  Q == stream.queue
<1>1. /\ W \in Seq(Fetches) /\ Q \in Seq(Periods) /\ Len(W) \in Nat /\ Len(Q) \in Nat /\ Len(W) <= MaxParallel
      /\ MaxParallel \in Nat
  BY LenProperties, StreamAssumption DEF TypeInv, Streams, StreamInv
<1>l. /\ \A j \in 1..Len(W) : W[j].period = n + j - 1
      /\ \A j \in 1..Len(Q) : Q[j] = n + Len(W) + j - 1
  BY DEF Lined
<1>r. i \in 1..Least(1, Len(W)) /\ n \in Nat
  BY StreamAssumption DEF Ready
<1> HIDE DEF W, Q
<1>2. i = 1 /\ Len(W) >= 1
  BY <1>1, <1>r DEF Least
<1>3. W[1].period = n /\ n \in Periods /\ n \in Nat
  <2>1. W[1] \in Fetches
    BY <1>1, <1>2, ElementOfSeq
  <2> QED BY <1>1, <1>2, <1>l, <1>r, <2>1 DEF Fetches, Periods
<1> DEFINE more == Least(1, Len(Q))
           Rest == Without(W, 1)
           Q1   == SubSeq(Q, 1, more)
           Q2   == SubSeq(Q, more + 1, Len(Q))
           W2   == Rest \o Started(Q1)
<1>4. more \in {0, 1} /\ more <= Len(Q) /\ (more = 0 => Len(Q) = 0)
  <2>1. more = (IF 1 < Len(Q) THEN 1 ELSE Len(Q)) /\ Len(Q) \in Nat
    BY <1>1 DEF Least
  <2>2. CASE Len(Q) = 0
    BY <2>1, <2>2
  <2>3. CASE Len(Q) = 1
    BY <2>1, <2>3
  <2>4. CASE 1 < Len(Q)
    <3>1. more = 1
      BY <2>1, <2>4
    <3> HIDE DEF more
    <3> QED BY <2>1, <2>4, <3>1
  <2>5. Len(Q) = 0 \/ Len(Q) = 1 \/ 1 < Len(Q)
    <3>1. \A k \in Nat : k = 0 \/ k = 1 \/ 1 < k
      OBVIOUS
    <3> HIDE DEF more
    <3> QED BY <2>1, <3>1
  <2> QED BY <2>2, <2>3, <2>4, <2>5
<1>5. Rest \in Seq(Fetches) /\ Len(Rest) = Len(W) - 1 /\ \A j \in 1..Len(W) - 1 : Rest[j] = W[j + 1]
  <2>1. 1 \in 1..Len(W)
    BY <1>1, <1>2
  <2>2. /\ Rest \in Seq(Fetches) /\ Len(Rest) = Len(W) - 1
        /\ \A j \in 1..Len(W) - 1 : Rest[j] = IF j < 1 THEN W[j] ELSE W[j + 1]
    BY ONLY <1>1, <2>1, WithoutIs
  <2> QED BY <1>1, <2>2
<1> HIDE DEF more
<1>6. Q1 \in Seq(Periods) /\ Len(Q1) = more /\ \A j \in 1..more : Q1[j] = Q[j]
  <2>1. 1 \in Int /\ more \in Int /\ \A j \in 1..more : Q[j] \in Periods
    BY <1>1, <1>4, ElementOfSeq
  <2> QED BY <1>4, <2>1, SubSeqProperties
<1>7. Q2 \in Seq(Periods) /\ Len(Q2) = Len(Q) - more /\ \A j \in 1..Len(Q) - more : Q2[j] = Q[more + j]
  <2>1. more + 1 \in Int /\ Len(Q) \in Int /\ \A j \in more + 1..Len(Q) : Q[j] \in Periods
    BY <1>1, <1>4, ElementOfSeq
  <2> QED BY <1>1, <1>4, <2>1, SubSeqProperties
<1> HIDE DEF Q1, Q2, Rest
<1>8. Started(Q1) \in Seq(Fetches) /\ Len(Started(Q1)) = more /\ \A j \in 1..more : Started(Q1)[j].period = Q[j]
  <2>1. /\ Started(Q1) \in Seq(Fetches) /\ Len(Started(Q1)) = Len(Q1)
        /\ \A j \in 1..Len(Q1) : Started(Q1)[j] = [period |-> Q1[j], state |-> "fetching"]
    BY ONLY <1>6, StartedIs
  <2> QED BY <1>6, <2>1
<1>9. /\ W2 \in Seq(Fetches) /\ Len(W2) = Len(W) - 1 + more
      /\ \A j \in 1..Len(W) - 1 + more :
            W2[j] = IF j <= Len(W) - 1 THEN Rest[j] ELSE Started(Q1)[j - (Len(W) - 1)]
  <2>1. /\ W2 \in Seq(Fetches) /\ Len(W2) = Len(Rest) + Len(Started(Q1))
        /\ \A j \in 1..Len(Rest) + Len(Started(Q1)) :
              W2[j] = IF j <= Len(Rest) THEN Rest[j] ELSE Started(Q1)[j - Len(Rest)]
    BY ONLY <1>5, <1>8, ConcatProperties
  <2> QED BY <1>5, <1>8, <2>1
<1> HIDE DEF W2
<1>10. ASSUME NEW j \in 1..Len(W2) PROVE W2[j].period = n + 1 + j - 1
  <2>1. CASE j <= Len(W) - 1
    <3>1. W2[j] = W[j + 1] /\ j + 1 \in 1..Len(W)
      BY <1>1, <1>4, <1>5, <1>9, <2>1
    <3> QED BY <1>1, <1>3, <1>l, <3>1
  <2>2. CASE j > Len(W) - 1
    <3>1. more = 1 /\ j = Len(W) /\ j - (Len(W) - 1) = 1
      BY <1>1, <1>2, <1>4, <1>9, <2>2
    <3>2. W2[j].period = Q[1] /\ 1 \in 1..Len(Q)
      BY <1>1, <1>4, <1>8, <1>9, <2>2, <3>1
    <3> QED BY <1>1, <1>3, <1>l, <3>1, <3>2
  <2> QED BY <1>1, <1>9, <2>1, <2>2
<1>11. ASSUME NEW j \in 1..Len(Q2) PROVE Q2[j] = n + 1 + Len(W2) + j - 1
  <2>1. Q2[j] = Q[more + j] /\ more + j \in 1..Len(Q)
    BY <1>1, <1>4, <1>7
  <2> QED BY <1>1, <1>3, <1>4, <1>9, <1>l, <2>1
<1>12. stream' = [state |-> IF W2 = <<>> THEN "done" ELSE "running", queue |-> Q2, window |-> W2]
  BY <1>2 DEF Committed, more, Q1, Q2, W2, Rest, W, Q
<1>13. W2 = <<>> => Q2 = <<>>
  <2>1. W2 = <<>> => Len(Q2) = 0
    BY <1>1, <1>2, <1>4, <1>7, <1>9, NoStreamIs
  <2> QED BY <1>7, <2>1, EmptySeq
<1>14. stream' \in Streams /\ stream'.window = W2 /\ stream'.queue = Q2 /\ stream'.state \in {"done", "running"}
  BY <1>7, <1>9, <1>12 DEF Streams
<1>15. Lined(n + 1)'
  BY <1>10, <1>11, <1>14 DEF Lined
<1>16. Len(W2) <= MaxParallel
  BY <1>1, <1>4, <1>9
<1> QED BY <1>1, <1>2, <1>3, <1>12, <1>13, <1>14, <1>15, <1>16 DEF W

\* What is published after a period more.
LEMMA MoreIs ==
    ASSUME NEW d \in Data, NEW n \in Periods, NEW v \in 1..MaxIngests, Continues(n, d.periods), NEW more,
           more = [periods |-> Append(d.periods, n), version |-> IF d = Nothing THEN v ELSE d.version]
    PROVE  /\ more \in Data /\ more # Nothing /\ Len(more.periods) = Len(d.periods) + 1 /\ Len(d.periods) \in Nat
           /\ \A k \in 1..Len(d.periods) : more.periods[k] = d.periods[k]
           /\ more.periods[Len(more.periods)] = n
<1>1. d.periods \in Seq(Periods) /\ d.version \in Nat /\ (d.version = 0 <=> d = Nothing) /\ d.version <= MaxIngests
  BY NothingIs
<1>2. /\ Append(d.periods, n) \in Seq(Periods) /\ Append(d.periods, n) # <<>>
      /\ Len(Append(d.periods, n)) = Len(d.periods) + 1 /\ Append(d.periods, n)[Len(d.periods) + 1] = n
      /\ \A k \in 1..Len(d.periods) : Append(d.periods, n)[k] = d.periods[k]
  BY <1>1, AppendProperties
<1>3. Len(d.periods) \in Nat /\ (d.periods = <<>> <=> Len(d.periods) = 0)
  BY <1>1, EmptySeq, LenProperties
<1>4. ASSUME NEW k \in 1..Len(d.periods) PROVE Append(d.periods, n)[k + 1] = Append(d.periods, n)[k] + 1
  <2>1. CASE k < Len(d.periods)
    <3>1. k \in 1..Len(d.periods) - 1 /\ k + 1 \in 1..Len(d.periods)
      BY <1>3, <2>1
    <3> QED BY <1>2, <3>1 DEF Data, Ledger!Follows
  <2>2. CASE k = Len(d.periods)
    BY <1>2, <1>3, <2>2 DEF Continues
  <2> QED BY <1>3, <2>1, <2>2
<1>5. more.version \in Nat /\ more.version # 0 /\ more.version <= MaxIngests
  BY <1>1, StoreAssumption
<1>6. more.periods = Append(d.periods, n) /\ Ledger!Follows(more.periods)
  BY <1>2, <1>3, <1>4 DEF Ledger!Follows
<1>7. more \in Datum /\ more.periods # <<>>
  BY <1>2, <1>5, <1>6, StoreAssumption DEF Datum
<1> QED BY <1>2, <1>3, <1>5, <1>6, <1>7, NothingIs DEF Data

LEMMA CommitPeriodInv == StoreInv /\ CommitPeriod => StoreInv'
<1> SUFFICES ASSUME StoreInv, CommitPeriod PROVE StoreInv'
  OBVIOUS
<1> USE DEF StoreInv
<1> DEFINE p == job.path
           d == disk[p].data
<1>1. /\ pc = "fetch" /\ stream.state = "awaiting" /\ Running
      /\ UNCHANGED <<asked, marker, records, pc, job, found, ingests>> /\ asked' \in BOOLEAN
      /\ found \in Data /\ job \in Jobs /\ "target" \in Paths /\ "replacement" \in Paths
      /\ p \in {"target", "replacement"} /\ p \in Paths
  BY DEF CommitPeriod, Running, TypeInv, Jobs, Paths
<1>2. /\ disk \in [Paths -> Stores] /\ disk[p] \in Stores /\ d \in Data /\ d.version \in Nat /\ d.version <= ingests
      /\ ingests \in 1..MaxIngests
  BY <1>1, PathsAre DEF JobInv, DiskInv
<1>3. /\ There("target") /\ There(p) /\ OldInv("target") /\ OldPlace = "target" /\ OldPlace' = "target"
      /\ ~HasNew /\ ~HasNew' /\ (Replacing' <=> Replacing) /\ (Replacing <=> p = "replacement")
      /\ job.action # "no_op" /\ (p = "target" /\ job.committed => d # Nothing)
      /\ (Replacing => d.version \in {0, ingests})
  <2>1. OldPlace = "target" /\ OldPlace' = "target" /\ ~HasNew /\ ~HasNew' /\ OldInv(OldPlace)
    BY <1>1 DEF OldPlace, Swapped, HasNew, UpdateInv, Updating
  <2>2. job.committed /\ p = "target" => d # Nothing
    BY <1>1, <1>2, <2>1, NothingIs DEF OldInv, Grown, UpdateInv, Updating
  <2> QED BY <1>1, <2>1, <2>2 DEF OldInv, UpdateInv, Updating, Replacing, PlanInv
<1>4. CASE StreamFails /\ UNCHANGED disk
  BY <1>1, <1>4, StreamFailsInv, StreamAlone
<1>5. ASSUME NEW i \in Ready, Committed(i), NEW more,
             more = [periods |-> Append(d.periods, stream.window[i].period),
                     version |-> IF d = Nothing THEN ingests ELSE d.version],
             disk' = [disk EXCEPT ![p] = [disk[p] EXCEPT !.data = more]]
      PROVE StoreInv'
  <2>1. PICK n \in 1..MaxPeriod + 1 : Lined(n) /\ Continues(n, d.periods)
    BY <1>1 DEF StreamInv
  <2>2. /\ i = 1 /\ stream.window[1].period = n /\ n \in Periods
        /\ stream' \in Streams /\ Len(stream'.window) <= MaxParallel /\ stream'.state \in {"done", "running"}
        /\ stream'.state = "done" => stream'.window = <<>> /\ stream'.queue = <<>>
        /\ Lined(n + 1)'
    BY <1>5, <2>1, CommittedIs
  <2>3. /\ more \in Data /\ more # Nothing /\ Len(more.periods) = Len(d.periods) + 1 /\ Len(d.periods) \in Nat
        /\ \A k \in 1..Len(d.periods) : more.periods[k] = d.periods[k]
        /\ more.periods[Len(more.periods)] = n
    <3>1. more = [periods |-> Append(d.periods, n), version |-> IF d = Nothing THEN ingests ELSE d.version]
      BY <1>5, <2>2
    <3> HIDE DEF d
    <3> QED BY <1>2, <2>1, <2>2, <3>1, MoreIs
  <2>4. /\ more.version = (IF d = Nothing THEN ingests ELSE d.version) /\ more.version \in Nat /\ more.version <= ingests
        /\ d = Nothing <=> d.version = 0
    BY <1>2, <1>5, NothingIs
  <2> DEFINE s == [disk[p] EXCEPT !.data = more]
  <2>5. /\ s \in Stores /\ s.there = disk[p].there /\ s.branch = disk[p].branch /\ s.data = more
    BY <1>2, <2>3 DEF Stores
  <2>6. disk' \in [Paths -> Stores] /\ disk'[p] = s /\ \A q \in Paths \ {p} : disk'[q] = disk[q]
    <3> HIDE DEF s
    <3>1. disk' = [disk EXCEPT ![p] = s]
      BY <1>5 DEF s
    <3> HIDE DEF p
    <3> QED BY <1>1, <1>2, <2>5, <3>1
  <2>7. /\ \A q \in Paths : disk'[q].there = disk[q].there /\ disk'[q].branch = disk[q].branch
        /\ disk'[p].data = more /\ \A q \in Paths \ {p} : disk'[q].data = disk[q].data
    <3> HIDE DEF s
    <3> QED BY <2>5, <2>6
  <2> HIDE DEF s
  <2>8. DiskInv'
    BY <1>1, <1>2, <1>3, <2>4, <2>6, <2>7 DEF DiskInv, There
  <2>9. TypeInv'
    BY <1>1, <2>2 DEF TypeInv
  <2>10. StreamInv'
    <3>1. n + 1 \in 1..MaxPeriod + 1
      BY <2>2, StreamAssumption DEF Periods
    <3>2. Continues(n + 1, disk'[p].data.periods)
      BY <2>2, <2>3, <2>7 DEF Continues, Periods
    <3>3. job'.path = p
      BY <1>1
    <3>4. Continues(n + 1, disk[job.path].data.periods)' 
      BY <3>2, <3>3 DEF Continues
    <3>5. disk'[job'.path].data # Nothing
      BY <2>3, <2>7, <3>3
    <3> HIDE DEF p, d
    <3> QED BY <1>1, <2>2, <3>1, <3>4, <3>5 DEF StreamInv, Running
  <2>11. JobInv' /\ PlanInv'
    BY <1>1 DEF JobInv, PlanInv, Replacing
  <2>12. EarlyInv'
    BY <1>1 DEF EarlyInv, Unplanned, Early, Clearing
  <2>13. UpdateInv'
    <3>1. CASE p = "target"
      <4>1. job.committed => Grown(more)
        <5> SUFFICES ASSUME job.committed PROVE Grown(more)
          OBVIOUS
        <5>1. /\ d.version = found.version /\ Len(found.periods) <= Len(d.periods)
              /\ \A k \in 1..Len(found.periods) : d.periods[k] = found.periods[k]
          BY <1>3, <3>1 DEF OldInv, Grown
        <5>2. Len(found.periods) \in Nat
          BY <1>1, NothingIs, LenProperties
        <5>3. d # Nothing /\ more.version = found.version
          BY <1>3, <2>4, <3>1, <5>1
        <5> HIDE DEF d
        <5> QED BY <2>3, <5>1, <5>2, <5>3 DEF Grown
      <4>2. Grown(disk["target"].data)' <=> Grown(more)
        BY <1>1, <2>7, <3>1 DEF Grown
      <4>3. OldInv("target")'
        BY <1>1, <1>3, <2>7, <3>1, <4>1, <4>2 DEF OldInv, There
      <4> QED BY <1>1, <1>3, <3>1, <4>3 DEF UpdateInv
    <3>2. CASE p = "replacement"
      <4>1. disk'["target"] = disk["target"]
        BY <1>1, <2>6, <3>2
      <4>2. OldInv("target")'
        BY <1>1, <1>3, <4>1 DEF OldInv, There, Grown
      <4>3. disk'["replacement"].there /\ disk'["replacement"].branch = Nothing /\ more.version = ingests
        BY <1>1, <1>3, <2>4, <2>7, <3>2 DEF UpdateInv, Updating, There
      <4> QED BY <1>1, <1>3, <2>7, <3>2, <4>2, <4>3 DEF UpdateInv, There
    <3> QED BY <1>1, <3>1, <3>2
  <2>14. TidyInv'
    BY <1>1, <2>7 DEF TidyInv, There, Paths, Replacing
  <2>15. EndInv'
    BY <1>1 DEF EndInv, Ending, Clearing
  <2> QED BY <2>8, <2>9, <2>10, <2>11, <2>12, <2>13, <2>14, <2>15
<1>6. QED
  <2>1. \/ StreamFails /\ UNCHANGED disk
        \/ \E i \in Ready : Committed(i) /\
              disk' = [disk EXCEPT ![p].data = [periods |-> Append(@.periods, stream.window[i].period),
                                                version |-> IF @ = Nothing THEN ingests ELSE @.version]]
    BY DEF CommitPeriod
  <2>2. ASSUME NEW i \in Ready, Committed(i),
               disk' = [disk EXCEPT ![p].data = [periods |-> Append(@.periods, stream.window[i].period),
                                                 version |-> IF @ = Nothing THEN ingests ELSE @.version]]
        PROVE StoreInv'
    <3> DEFINE more == [periods |-> Append(d.periods, stream.window[i].period),
                        version |-> IF d = Nothing THEN ingests ELSE d.version]
    <3>1. disk' = [disk EXCEPT ![p] = [disk[p] EXCEPT !.data = more]]
      BY <2>2
    <3>2. \E m : m = more
      OBVIOUS
    <3> QED BY <1>5, <2>2, <3>1, <3>2
  <2> QED BY <1>4, <2>1, <2>2

-----------------------------------------------------------------------------
(* The new store takes its place. *)

LEMMA BranchInv == StoreInv /\ Branch => StoreInv'
<1> SUFFICES ASSUME StoreInv, Branch PROVE StoreInv'
  OBVIOUS
<1> USE DEF StoreInv
<1>c. found \in Data
  BY DEF TypeInv
<1>a. /\ pc = "branch" /\ pc' = "fetch" /\ UNCHANGED <<stream, asked, marker, records, found, ingests>>
      /\ job' = [job EXCEPT !.branched = TRUE] /\ disk["target"].data = found /\ job.committed /\ job.action = "append"
  BY DEF Branch, Same, bounds, Go, PlanInv
<1>b. /\ SameJob(job) /\ job'.branched /\ UNCHANGED <<job.done, job.swapped, job.broken, job.result>> /\ ~job.swapped
      /\ job.path = "target"
  BY <1>a DEF TypeInv, Jobs, SameJob, PlanInv, Replacing
<1>d. /\ disk' \in [Paths -> Stores] /\ disk'["target"].branch = found
      /\ disk'["target"].there = disk["target"].there /\ disk'["target"].data = disk["target"].data
      /\ \A p \in Paths \ {"target"} : disk'[p] = disk[p]
  <2> DEFINE s == [disk["target"] EXCEPT !.branch = found]
  <2>1. disk \in [Paths -> Stores] /\ disk["target"] \in Stores /\ "target" \in Paths
    BY <1>c, PathsAre DEF Paths
  <2>2. /\ s \in Stores /\ s.branch = found /\ s.there = disk["target"].there /\ s.data = disk["target"].data
    BY <1>c, <2>1 DEF Stores
  <2>3. disk' = [disk EXCEPT !["target"] = s]
    BY <1>a DEF Branch, Target
  <2> HIDE DEF s
  <2> QED BY <2>1, <2>2, <2>3
<1>e. OldPlace = "target" /\ OldPlace' = "target" /\ ~HasNew' /\ There("target") /\ ~Replacing'
  BY <1>a, <1>b DEF OldPlace, Swapped, HasNew, UpdateInv, OldInv, Updating, Replacing, SameJob
<1>f. Grown(disk'["target"].data)
  BY <1>a, <1>c, <1>d, NothingIs, LenProperties DEF Grown
<1>1. DiskInv'
  BY <1>a, <1>b, <1>d, <1>c, <1>e, PathsAre DEF DiskInv, There
<1>2. TypeInv'
  BY <1>a, <1>b, <1>d DEF TypeInv, Places, Early, Clearing, Updating, Ending, SameJob
<1>3. StreamInv'
  BY <1>a, <1>b, <1>d DEF StreamInv, SameJob, Running, Lined, Continues
<1>4. JobInv'
  BY <1>a, <1>b, <1>d DEF JobInv, TypeInv, Places, Early, Clearing, Updating, Ending, SameJob
<1>5. PlanInv'
  BY <1>a, <1>b, <1>d DEF PlanInv, TypeInv, Places, Early, Clearing, Updating, Ending, Replacing, SameJob
<1>6. EarlyInv'
  BY <1>a, <1>b, <1>d DEF EarlyInv, TypeInv, Places, Early, Clearing, Updating, Ending, Unplanned, There, Paths
<1>7. UpdateInv'
  BY <1>a, <1>b, <1>d, <1>e, <1>f DEF UpdateInv, Places, Early, Clearing, Updating, Ending, SameJob, OldInv, NewInv, There, Grown, Replacing
<1>8. TidyInv'
  BY <1>a, <1>b, <1>d DEF TidyInv, JobInv, Places, Early, Clearing, Updating, Ending, There, Replacing, SameJob, Paths
<1>9. EndInv'
  BY <1>a, <1>b, <1>d DEF EndInv, JobInv, Places, Early, Clearing, Updating, Ending, SameJob
<1> QED BY <1>1, <1>2, <1>3, <1>4, <1>5, <1>6, <1>7, <1>8, <1>9

LEMMA UpdateGoesOn ==
    ASSUME StoreInv, pc \in {"normalize", "exchange", "install", "aside", "into", "register"},
           pc' \in {"exchange", "install", "aside", "into", "register", "unwind"},
           UNCHANGED <<stream, asked, marker, records, found, ingests>>,
           SameJob(job), UNCHANGED <<job.done, job.branched, job.broken, job.result>>,
           pc' \in {"exchange", "install", "aside", "into"} => ~job'.swapped,
           DiskInv', OldInv(OldPlace)', HasNew' => NewInv(NewPlace)',
           pc' \in {"exchange", "install"} =>
              Replacing /\ Fresh("draft")' /\ Fresh(IF pc = "exchange" THEN "replacement" ELSE "spare")',
           ~There("failed")', There("rebuild")' => (pc' \in {"aside", "into"} /\ ~Replacing) \/ job.untidy
    PROVE  StoreInv'
<1> USE DEF StoreInv
<1>1. TypeInv'
  BY DEF TypeInv, Places, Updating, SameJob
<1>2. StreamInv'
  BY StreamRests
<1>3. JobInv'
  BY DEF JobInv, TypeInv, Places, Early, Clearing, Updating, Ending, SameJob
<1>4. PlanInv'
  BY DEF PlanInv, JobInv, Replacing, Updating, SameJob
<1>5. EarlyInv'
  BY DEF EarlyInv, Unplanned, Early, Clearing
<1>6. UpdateInv'
  BY DEF UpdateInv, Updating, SameJob, Replacing
<1>7. TidyInv'
  BY DEF TidyInv, Replacing, SameJob
<1>8. EndInv'
  BY DEF EndInv, Ending, Clearing
<1> QED BY <1>1, <1>2, <1>3, <1>4, <1>5, <1>6, <1>7, <1>8

LEMMA UpdateIs ==
    ASSUME StoreInv, pc \in {"normalize", "aside", "into", "register"}
    PROVE  /\ disk \in [Paths -> Stores] /\ DiskInv /\ TypeInv /\ found \in Data /\ job \in Jobs
           /\ OldInv(OldPlace) /\ (HasNew => NewInv(NewPlace))
           /\ OldPlace = (IF pc = "into" \/ (pc = "register" /\ job.swapped) THEN "retired" ELSE "target")
           /\ NewPlace = (IF pc = "register" /\ job.swapped THEN "target" ELSE Staging)
           /\ (HasNew <=> \/ pc \in {"aside", "into"} \/ (pc = "register" /\ job.swapped)
                          \/ pc = "normalize" /\ Replacing)
           /\ Staging = (IF Replacing THEN "replacement" ELSE "rebuild")
           /\ ~There("failed") /\ (There("rebuild") => (pc \in {"aside", "into"} /\ ~Replacing) \/ job.untidy)
           /\ (pc # "register" => ~job.swapped) /\ (job.branched => job.committed) /\ job.result = "none"
           /\ (Replacing <=> job.path = "replacement")
           /\ (job.action = "no_op" => job.committed)
<1>1. DiskInv /\ TypeInv /\ PlanInv /\ TidyInv /\ JobInv /\ UpdateInv
  BY DEF StoreInv
<1>2. disk \in [Paths -> Stores] /\ found \in Data /\ job \in Jobs
  BY <1>1 DEF DiskInv, TypeInv
<1>3. OldInv(OldPlace) /\ (HasNew => NewInv(NewPlace))
  BY <1>1 DEF UpdateInv, Updating
<1>4. /\ (pc # "register" => ~job.swapped) /\ (job.branched => job.committed) /\ job.result = "none"
      /\ (job.action = "no_op" => job.committed)
  BY <1>1 DEF PlanInv, JobInv
<1>5. ~There("failed") /\ (There("rebuild") => (pc \in {"aside", "into"} /\ ~Replacing) \/ job.untidy)
  BY <1>1, <1>4 DEF TidyInv
<1>6. /\ OldPlace = (IF pc = "into" \/ (pc = "register" /\ job.swapped) THEN "retired" ELSE "target")
      /\ NewPlace = (IF pc = "register" /\ job.swapped THEN "target" ELSE Staging)
  BY DEF OldPlace, NewPlace, Swapped
<1>7. HasNew <=> \/ pc \in {"aside", "into"} \/ (pc = "register" /\ job.swapped)
                 \/ pc = "normalize" /\ Replacing
  <2>1. CASE pc = "normalize"
    BY <2>1 DEF HasNew, Swapped
  <2>2. CASE pc \in {"aside", "into"}
    BY <2>2 DEF HasNew, Swapped
  <2>3. CASE pc = "register"
    BY <2>3 DEF HasNew, Swapped
  <2> QED BY <2>1, <2>2, <2>3
<1>8. Staging = (IF Replacing THEN "replacement" ELSE "rebuild") /\ (Replacing <=> job.path = "replacement")
  BY DEF Staging, Replacing
<1> QED BY <1>1, <1>2, <1>3, <1>4, <1>5, <1>6, <1>7, <1>8

\* What is beside the store has changed, and the place.
LEMMA OnlyGoes ==
    ASSUME StoreInv, pc \in {"normalize", "aside", "register"}, UNCHANGED <<stream, asked, marker, records, job, found, ingests>>,
           NEW S \in SUBSET {"draft", "rebuild"}, disk' = disk \/ disk' = Removed(S), DiskInv',
           \/ pc = "normalize" /\ pc' = IF Replacing THEN "aside" ELSE "register"
           \/ pc \in {"normalize", "register"} /\ pc' = "unwind"
           \/ pc = "aside" /\ Replacing /\ pc' = "unwind"
    PROVE  StoreInv'
<1>1. /\ OldPlace' = OldPlace /\ (HasNew' => HasNew /\ NewPlace' = NewPlace) /\ (Replacing' <=> Replacing)
      /\ OldPlace \in {"target", "retired"} /\ (HasNew' => NewPlace \in {"target", "replacement"})
  BY UpdateIs DEF OldPlace, NewPlace, Swapped, HasNew, Staging, Replacing
<1>2. /\ \A p \in {"target", "retired", "replacement", "failed"} : disk'[p] = disk[p]
      /\ disk'["rebuild"] \in {Absent, disk["rebuild"]}
  <2>1. disk \in [Paths -> Stores] /\ S \in SUBSET Paths
    BY UpdateIs DEF Paths
  <2> QED BY <2>1, RemovedIs DEF Paths
<1>3. OldInv(OldPlace)' /\ (HasNew' => NewInv(NewPlace)')
  BY <1>1, <1>2, UpdateIs DEF OldInv, NewInv, There, Grown
<1>4. ~There("failed")' /\ (There("rebuild")' => (pc' \in {"aside", "into"} /\ ~Replacing) \/ job.untidy)
  BY <1>1, <1>2, UpdateIs, AbsentIs DEF There
<1>5. SameJob(job)
  BY UpdateIs DEF SameJob
<1> QED BY <1>3, <1>4, <1>5, UpdateGoesOn, UpdateIs

\* Directories come and go as they are.
LEMMA DiskStays ==
    ASSUME DiskInv, disk' \in [Paths -> Stores], UNCHANGED ingests,
           \A p \in Paths : disk'[p] \in {Absent} \cup {disk[q] : q \in Paths}
    PROVE  DiskInv'
<1>1. Absent.data.version = 0 /\ ~Absent.there
  BY AbsentIs, NothingIs
<1> QED BY <1>1 DEF DiskInv, There

LEMMA NormalizeInv == StoreInv /\ Normalize => StoreInv'
<1> SUFFICES ASSUME StoreInv, Normalize PROVE StoreInv'
  OBVIOUS
<1>1. pc = "normalize" /\ UNCHANGED <<stream, asked, marker, records, job, found, ingests>>
  BY DEF Normalize, Same
<1>0. /\ disk \in [Paths -> Stores] /\ DiskInv /\ OldInv("target") /\ OldPlace = "target" /\ SameJob(job)
      /\ disk["target"].data \in Data /\ Draft \in Paths /\ "target" \in Paths /\ "replacement" \in Paths /\ ~job.swapped
      /\ ~There("failed") /\ (There("rebuild") => job.untidy) /\ found \in Data
      /\ (Replacing => NewInv("replacement")) /\ (Replacing <=> job.path = "replacement") /\ job \in Jobs
  BY <1>1, UpdateIs, PathsAre DEF SameJob, Draft
<1>2. CASE disk' \in {disk, Removed({Draft})} /\ (Onward \/ Go("unwind"))
  <2>1. Removed({Draft}) \in [Paths -> Stores] /\ \A p \in Paths : Removed({Draft})[p] \in {Absent, disk[p]}
    BY <1>0, RemovedIs
  <2>2. DiskInv'
    BY <1>0, <1>1, <1>2, <2>1, DiskStays
  <2>3. {Draft} \in SUBSET {"draft", "rebuild"}
    BY DEF Draft
  <2> QED BY <1>1, <1>2, <2>2, <2>3, OnlyGoes DEF Onward, Go
<1>3. CASE /\ disk' = [disk EXCEPT ![Draft] = [Empty EXCEPT !.data = disk[job.path].data]]
           /\ pc' = IF Replacing THEN "exchange" ELSE "aside"
  <2> DEFINE s == [Empty EXCEPT !.data = disk[job.path].data]
  <2>2. s \in Stores /\ s.there /\ s.data = disk[job.path].data /\ s.branch = Nothing /\ s.data \in Data
    <3>1. job.path \in Paths
      BY <1>0 DEF Jobs, Paths
    <3>2. disk[job.path].data \in Data
      BY <1>0, <3>1, PathsAre
    <3> QED BY <3>2, AbsentIs DEF Stores
  <2>3. disk' \in [Paths -> Stores] /\ disk'[Draft] = s /\ \A p \in Paths \ {Draft} : disk'[p] = disk[p]
    <3> HIDE DEF s
    <3>1. disk' = [disk EXCEPT ![Draft] = s]
      BY <1>3 DEF s
    <3> QED BY <1>0, <2>2, <3>1
  <2> HIDE DEF s
  <2>4. /\ OldPlace' = "target" /\ NewPlace' = Staging /\ (Replacing' <=> Replacing) /\ (HasNew' <=> ~Replacing)
    BY <1>1, <1>3 DEF OldPlace, NewPlace, Swapped, Staging, Replacing, HasNew
  <2>5. OldInv("target")'
    <3>1. disk'["target"] = disk["target"]
      BY <2>3 DEF Paths, Draft
    <3> QED BY <1>0, <1>1, <2>4, <3>1 DEF OldInv, There, Grown
  <2>6. ~Replacing => NewInv("rebuild")' /\ NewPlace' = "rebuild"
    <3> SUFFICES ASSUME ~Replacing PROVE NewInv("rebuild")' /\ NewPlace' = "rebuild"
      OBVIOUS
    <3>1. Draft = "rebuild" /\ NewPlace' = "rebuild" /\ job.path = "target"
      BY <1>0, <2>4 DEF Draft, Staging, Jobs
    <3>2. disk'["rebuild"].data = disk'["target"].data
      BY <2>2, <2>3, <3>1 DEF Paths
    <3> QED BY <2>2, <2>3, <2>4, <3>1, <3>2 DEF NewInv, There
  <2>7. Replacing => Fresh("draft")' /\ Fresh("replacement")'
    <3> SUFFICES ASSUME Replacing PROVE Fresh("draft")' /\ Fresh("replacement")'
      OBVIOUS
    <3>1. Draft = "draft" /\ disk'["replacement"] = disk["replacement"]
      BY <2>3 DEF Draft, Paths
    <3>2. There("replacement") /\ disk["replacement"].branch = Nothing /\ disk["replacement"].data.version = ingests
      BY <1>0 DEF NewInv
    <3> QED BY <1>0, <1>1, <2>2, <2>3, <3>1, <3>2 DEF Fresh, There
  <2>8. DiskInv'
    <3>1. s.data.version <= ingests
      <4>1. job.path \in Paths
        BY <1>0 DEF Jobs, Paths
      <4> QED BY <1>0, <2>2, <4>1, PathsAre
    <3> QED BY <1>0, <1>1, <2>2, <2>3, <3>1 DEF DiskInv, There
  <2>9. ~There("failed")' /\ (There("rebuild")' => ~Replacing \/ job.untidy)
    BY <1>0, <2>3 DEF There, Paths, Draft
  <2> QED BY <1>0, <1>1, <1>3, <2>4, <2>5, <2>6, <2>7, <2>8, <2>9, UpdateGoesOn
<1> QED BY <1>2, <1>3, Zenon DEF Normalize, NotNormalized, Go, Onward

\* The swap of a rebuilt replacement: what is new is in one directory or in two.
LEMMA SwapIs ==
    ASSUME StoreInv, pc \in {"exchange", "install"}
    PROVE  /\ disk \in [Paths -> Stores] /\ DiskInv /\ OldInv("target") /\ OldPlace = "target" /\ job \in Jobs
           /\ {"target", "draft", "spare", "replacement", "failed", "rebuild"} \subseteq Paths /\ ~job.swapped
           /\ ~There("failed") /\ (There("rebuild") => job.untidy) /\ Replacing /\ Fresh("draft")
           /\ Fresh(IF pc = "exchange" THEN "replacement" ELSE "spare")
<1>1. DiskInv /\ TypeInv /\ PlanInv /\ JobInv /\ TidyInv /\ UpdateInv
  BY DEF StoreInv
<1>2. OldPlace = "target" /\ ~job.swapped /\ job.result = "none"
  BY <1>1 DEF OldPlace, Swapped, PlanInv, JobInv
<1>3. ~There("failed") /\ (There("rebuild") => job.untidy)
  BY <1>1, <1>2 DEF TidyInv
<1>4. OldInv("target") /\ Replacing /\ Fresh("draft") /\ Fresh(IF pc = "exchange" THEN "replacement" ELSE "spare")
  BY <1>1, <1>2 DEF UpdateInv, Updating
<1> QED BY <1>1, <1>2, <1>3, <1>4 DEF DiskInv, TypeInv, Paths

LEMMA SwapGoesOn ==
    ASSUME StoreInv, pc \in {"exchange", "install"}, pc' \in {"install", "aside", "unwind"},
           UNCHANGED <<stream, asked, marker, records, job, found, ingests>>, DiskInv',
           \A p \in {"target", "failed", "rebuild"} : disk'[p] = disk[p],
           pc' = "aside" => Fresh("replacement")',
           pc' = "install" => Fresh("draft")' /\ Fresh("spare")'
    PROVE  StoreInv'
<1>1. OldPlace' = "target" /\ NewPlace' = Staging /\ (Replacing' <=> Replacing) /\ (HasNew' <=> pc' = "aside")
  BY SwapIs DEF OldPlace, NewPlace, Swapped, Staging, Replacing, HasNew
<1>2. OldInv("target")'
  BY <1>1, SwapIs DEF OldInv, There, Grown
<1>3. pc' = "aside" => NewInv(NewPlace)'
  BY <1>1, SwapIs DEF NewInv, Fresh, Staging
<1>4. ~There("failed")' /\ (There("rebuild")' => job.untidy)
  BY SwapIs DEF There
<1>5. SameJob(job)
  BY SwapIs DEF SameJob
<1> QED BY <1>1, <1>2, <1>3, <1>4, <1>5, SwapIs, UpdateGoesOn

LEMMA ExchangeInv == StoreInv /\ Exchange => StoreInv'
<1> SUFFICES ASSUME StoreInv, Exchange PROVE StoreInv'
  OBVIOUS
<1>1. pc = "exchange" /\ UNCHANGED <<stream, asked, marker, records, job, found, ingests>>
  BY DEF Exchange, Same
<1>2. disk \in [Paths -> Stores] /\ DiskInv /\ Fresh("draft") /\ Fresh("replacement") /\ Replacing
  BY <1>1, SwapIs
<1>3. CASE disk' = Moved("replacement", "spare") /\ pc' = "install"
  <2>1. /\ disk' \in [Paths -> Stores] /\ disk'["replacement"] = Absent /\ disk'["spare"] = disk["replacement"]
        /\ \A p \in Paths \ {"replacement", "spare"} : disk'[p] = disk[p]
    <3>1. "replacement" \in Paths /\ "spare" \in Paths
      BY DEF Paths
    <3> QED BY <1>2, <1>3, <3>1, MovedIs
  <2>2. \A p \in Paths : disk'[p] \in {Absent} \cup {disk[q] : q \in Paths}
    BY <2>1 DEF Paths
  <2>3. Fresh("draft")' /\ Fresh("spare")' /\ \A p \in {"target", "failed", "rebuild"} : disk'[p] = disk[p]
    BY <1>1, <1>2, <2>1 DEF Fresh, There, Paths
  <2> QED BY <1>1, <1>2, <1>3, <2>1, <2>2, <2>3, DiskStays, SwapGoesOn
<1>4. CASE disk' = Removed({"draft"}) /\ pc' \in {"unwind", "aside"}
  <2>1. /\ disk' \in [Paths -> Stores] /\ disk'["draft"] = Absent
        /\ \A p \in Paths \ {"draft"} : disk'[p] = disk[p]
    <3>1. {"draft"} \in SUBSET Paths
      BY DEF Paths
    <3> QED BY <1>2, <1>4, <3>1, RemovedIs
  <2>2. \A p \in Paths : disk'[p] \in {Absent} \cup {disk[q] : q \in Paths}
    BY <2>1 DEF Paths
  <2>3. Fresh("replacement")' /\ \A p \in {"target", "failed", "rebuild"} : disk'[p] = disk[p]
    BY <1>1, <1>2, <2>1 DEF Fresh, There, Paths
  <2> QED BY <1>1, <1>2, <1>4, <2>1, <2>2, <2>3, DiskStays, SwapGoesOn
<1> QED BY <1>2, <1>3, <1>4 DEF Exchange, NotNormalized, Onward, Go

LEMMA InstallInv == StoreInv /\ Install => StoreInv'
<1> SUFFICES ASSUME StoreInv, Install PROVE StoreInv'
  OBVIOUS
<1>1. pc = "install" /\ UNCHANGED <<stream, asked, marker, records, job, found, ingests>>
  BY DEF Install, Same
<1>2. disk \in [Paths -> Stores] /\ DiskInv /\ Fresh("draft") /\ Fresh("spare") /\ Replacing
  BY <1>1, SwapIs
<1>p. {"target", "draft", "spare", "replacement", "failed", "rebuild"} \subseteq Paths
  BY DEF Paths
<1>m. ASSUME NEW new \in {"draft", "spare"}, NEW old \in {"draft", "spare"}, new # old,
             disk' \in {Moved(new, "replacement"), [Moved(new, "replacement") EXCEPT ![old] = Absent]},
             pc' \in {"aside", "unwind"}
      PROVE  StoreInv'
  <2>1. /\ Moved(new, "replacement") \in [Paths -> Stores] /\ Moved(new, "replacement")["replacement"] = disk[new]
        /\ \A p \in Paths : Moved(new, "replacement")[p] \in {Absent} \cup {disk[q] : q \in Paths}
        /\ \A p \in Paths \ {new, "replacement"} : Moved(new, "replacement")[p] = disk[p]
    <3>1. new \in Paths /\ "replacement" \in Paths /\ new # "replacement"
      BY <1>p
    <3>2. /\ Moved(new, "replacement") \in [Paths -> Stores] /\ Moved(new, "replacement")["replacement"] = disk[new]
          /\ Moved(new, "replacement")[new] = Absent
          /\ \A p \in Paths \ {new, "replacement"} : Moved(new, "replacement")[p] = disk[p]
      BY <1>2, <3>1, MovedIs
    <3> QED BY <3>1, <3>2
  <2>2. /\ disk' \in [Paths -> Stores] /\ disk'["replacement"] = disk[new]
        /\ \A p \in Paths : disk'[p] \in {Absent} \cup {disk[q] : q \in Paths}
        /\ \A p \in Paths \ {new, old, "replacement"} : disk'[p] = disk[p]
    BY <1>m, <1>p, <2>1, AbsentIs
  <2>3. Fresh("replacement")' /\ \A p \in {"target", "failed", "rebuild"} : disk'[p] = disk[p]
    BY <1>1, <1>2, <1>m, <1>p, <2>2 DEF Fresh, There
  <2> QED BY <1>1, <1>2, <1>m, <2>2, <2>3, DiskStays, SwapGoesOn
<1> QED BY <1>2, <1>m DEF Install, NotNormalized, Onward, Go

LEMMA AsideInv == StoreInv /\ Aside => StoreInv'
<1> SUFFICES ASSUME StoreInv, Aside PROVE StoreInv'
  OBVIOUS
<1>1. /\ pc = "aside" /\ UNCHANGED <<stream, asked, marker, records, job, found, ingests>> /\ SameJob(job) /\ ~job.swapped
      /\ (Replacing' <=> Replacing)
  BY UpdateIs DEF Aside, Same, SameJob, Replacing
<1>2. /\ disk \in [Paths -> Stores] /\ DiskInv /\ found \in Data /\ OldPlace = "target" /\ NewPlace = Staging /\ OldInv("target") /\ NewInv(Staging)
      /\ Staging \in {"replacement", "rebuild"} /\ Staging \in Paths /\ "target" \in Paths /\ "retired" \in Paths
      /\ ~There("failed") /\ (There("rebuild") => ~Replacing \/ job.untidy)
  <2>1. Staging \in {"replacement", "rebuild"} /\ Staging \in Paths /\ "target" \in Paths /\ "retired" \in Paths
    BY DEF Staging, Paths
  <2>2. pc \in {"normalize", "aside", "into", "register"}
    BY <1>1
  <2>3. /\ disk \in [Paths -> Stores] /\ DiskInv /\ found \in Data /\ OldInv(OldPlace)
        /\ HasNew /\ NewInv(NewPlace)
    <3>1. pc \in {"aside", "into"} => HasNew
      BY ONLY StoreInv, <2>2, UpdateIs
    <3>2. disk \in [Paths -> Stores] /\ DiskInv /\ found \in Data /\ OldInv(OldPlace) /\ (HasNew => NewInv(NewPlace))
      BY ONLY StoreInv, <2>2, UpdateIs
    <3> QED BY <1>1, <3>1, <3>2
  <2>4. OldPlace = "target" /\ NewPlace = Staging
    BY ONLY StoreInv, <1>1, <2>2, UpdateIs
  <2>5. /\ Staging = (IF Replacing THEN "replacement" ELSE "rebuild")
        /\ ~There("failed") /\ (There("rebuild") => ~Replacing \/ job.untidy) /\ (job.branched => job.committed) /\ ~job.swapped
        /\ (job.action = "no_op" => job.committed)
    BY ONLY StoreInv, <1>1, <2>2, UpdateIs
  <2> QED BY <2>1, <2>3, <2>4, <2>5
<1>e. Absent.data.version = 0 /\ ~Absent.there
  BY AbsentIs, NothingIs
<1>3. CASE disk' = Moved("target", "retired") /\ pc' = "into"
  <2>1. /\ disk' \in [Paths -> Stores] /\ disk'["target"] = Absent /\ disk'["retired"] = disk["target"]
        /\ \A p \in Paths \ {"target", "retired"} : disk'[p] = disk[p]
    BY <1>2, <1>3, MovedIs
  <2>2. OldPlace' = "retired" /\ NewPlace' = Staging
    BY <1>1, <1>3 DEF OldPlace, NewPlace, Swapped, Staging, Replacing
  <2>3. disk'[Staging] = disk[Staging]
    BY <1>2, <2>1
  <2>4. OldInv("retired")'
    BY <1>1, <1>2, <2>1 DEF OldInv, There, Grown
  <2>5. NewInv(NewPlace)'
    BY <1>1, <1>2, <2>1, <2>2, <2>3 DEF NewInv, There
  <2>6. DiskInv'
    BY <1>1, <1>2, <1>e, <2>1, PathsAre DEF DiskInv, There
  <2>7. ~There("failed")' /\ (There("rebuild")' => ~Replacing \/ job.untidy)
    BY <1>2, <2>1 DEF There, Paths
  <2> QED BY <1>1, <1>3, <2>2, <2>4, <2>5, <2>6, <2>7, UpdateGoesOn
<1>4. CASE Replacing /\ pc' = "unwind" /\ disk' = disk
  <2>1. DiskInv'
    BY <1>1, <1>2, <1>4 DEF DiskInv, There
  <2> QED BY <1>1, <1>4, <2>1, OnlyGoes
<1>5. CASE ~Replacing /\ pc' \in {"unwind", "register"} /\ disk' = Removed({"rebuild"})
  <2>1. /\ disk' \in [Paths -> Stores] /\ disk'["rebuild"] = Absent
        /\ \A p \in Paths \ {"rebuild"} : disk'[p] = disk[p]
    BY <1>2, <1>5, RemovedIs DEF Paths
  <2>2. OldPlace' = "target" /\ ~HasNew' /\ disk'["target"] = disk["target"]
    BY <1>1, <1>2, <1>5, <2>1 DEF OldPlace, Swapped, HasNew, Paths
  <2>3. OldInv("target")'
    BY <1>1, <1>2, <2>2 DEF OldInv, There, Grown
  <2>4. DiskInv'
    BY <1>1, <1>2, <1>e, <2>1, PathsAre DEF DiskInv, There
  <2>5. ~There("failed")' /\ ~There("rebuild")'
    BY <1>2, <1>e, <2>1 DEF There, Paths
  <2> QED BY <1>1, <1>5, <2>2, <2>3, <2>4, <2>5, UpdateGoesOn
<1> QED BY <1>3, <1>4, <1>5 DEF Aside, NotSwapped, NotNormalized, Onward, Go

LEMMA IntoInv == StoreInv /\ Into => StoreInv'
<1> SUFFICES ASSUME StoreInv, Into PROVE StoreInv'
  OBVIOUS
<1>1. pc = "into" /\ UNCHANGED <<stream, asked, marker, records, found, ingests>> /\ job \in Jobs
  BY UpdateIs DEF Into, Same
<1>2. /\ disk \in [Paths -> Stores] /\ DiskInv /\ found \in Data /\ OldPlace = "retired" /\ OldInv("retired") /\ NewInv(Staging)
      /\ Staging = (IF Replacing THEN "replacement" ELSE "rebuild")
      /\ Staging \in {"replacement", "rebuild"} /\ Staging \in Paths /\ "target" \in Paths /\ "retired" \in Paths
      /\ "rebuild" \in Paths
      /\ ~There("failed") /\ (There("rebuild") => ~Replacing \/ job.untidy) /\ (job.branched => job.committed) /\ ~job.swapped
      /\ (job.action = "no_op" => job.committed)
  <2>1. Staging \in {"replacement", "rebuild"} /\ Staging \in Paths /\ "target" \in Paths /\ "retired" \in Paths
        /\ "rebuild" \in Paths
    BY DEF Staging, Paths
  <2>2. pc \in {"normalize", "aside", "into", "register"}
    BY <1>1
  <2>3. /\ disk \in [Paths -> Stores] /\ DiskInv /\ found \in Data /\ OldInv(OldPlace)
        /\ HasNew /\ NewInv(NewPlace)
    <3>1. pc \in {"aside", "into"} => HasNew
      BY ONLY StoreInv, <2>2, UpdateIs
    <3>2. disk \in [Paths -> Stores] /\ DiskInv /\ found \in Data /\ OldInv(OldPlace) /\ (HasNew => NewInv(NewPlace))
      BY ONLY StoreInv, <2>2, UpdateIs
    <3> QED BY <1>1, <3>1, <3>2
  <2>4. OldPlace = "retired" /\ NewPlace = Staging
    BY ONLY StoreInv, <1>1, <2>2, UpdateIs
  <2>5. /\ Staging = (IF Replacing THEN "replacement" ELSE "rebuild")
        /\ ~There("failed") /\ (There("rebuild") => ~Replacing \/ job.untidy) /\ (job.branched => job.committed) /\ ~job.swapped
        /\ (job.action = "no_op" => job.committed)
    BY ONLY StoreInv, <1>1, <2>2, UpdateIs
  <2> QED BY <2>1, <2>3, <2>4, <2>5
<1>e. Absent.data.version = 0 /\ ~Absent.there
  BY AbsentIs, NothingIs
<1>3. ASSUME pc' = "register", NEW b \in BOOLEAN, b <=> Retains, job' = [job EXCEPT !.swapped = b],
             IF Retains THEN disk' = Moved(Staging, "target")
             ELSE disk' \in {Moved(Staging, "target"), [Moved(Staging, "target") EXCEPT !["retired"] = Absent]}
      PROVE  StoreInv'
  <2>1. /\ Moved(Staging, "target") \in [Paths -> Stores] /\ Moved(Staging, "target")[Staging] = Absent
        /\ Moved(Staging, "target")["target"] = disk[Staging]
        /\ \A p \in Paths \ {Staging, "target"} : Moved(Staging, "target")[p] = disk[p]
    BY <1>2, MovedIs
  <2>2. /\ disk' \in [Paths -> Stores] /\ disk'[Staging] = Absent /\ disk'["target"] = disk[Staging]
        /\ disk'["retired"] \in {Absent, disk["retired"]} /\ (Retains => disk'["retired"] = disk["retired"])
        /\ \A p \in {"draft", "spare"} : disk'[p] = disk[p]
        /\ disk'["failed"] = disk["failed"] /\ (Replacing => disk'["rebuild"] = disk["rebuild"])
        /\ (~Replacing => disk'["replacement"] = disk["replacement"])
    <3> DEFINE m == Moved(Staging, "target")
    <3>1. /\ m["failed"] = disk["failed"] /\ m["retired"] = disk["retired"] /\ (Replacing => m["rebuild"] = disk["rebuild"])
          /\ (~Replacing => m["replacement"] = disk["replacement"]) /\ \A p \in {"draft", "spare"} : m[p] = disk[p]
      BY <1>2, <2>1 DEF Paths
    <3>2. m \in [Paths -> Stores] /\ m[Staging] = Absent /\ m["target"] = disk[Staging]
      BY <2>1
    <3>3. IF Retains THEN disk' = m ELSE disk' \in {m, [m EXCEPT !["retired"] = Absent]}
      BY <1>3
    <3> HIDE DEF m
    <3>4. CASE Retains
      BY <3>1, <3>2, <3>3, <3>4
    <3>5. CASE ~Retains
      <4>1. disk' = m \/ disk' = [m EXCEPT !["retired"] = Absent]
        BY <3>3, <3>5
      <4>2. CASE disk' = [m EXCEPT !["retired"] = Absent]
        <5>1. disk' \in [Paths -> Stores] /\ disk'["retired"] = Absent /\ \A p \in Paths \ {"retired"} : disk'[p] = m[p]
          BY <1>2, <3>2, <4>2, AbsentIs
        <5>2. {"draft", "spare", "failed", "rebuild", "replacement", "target", Staging} \subseteq Paths \ {"retired"}
          BY <1>2 DEF Paths
        <5> QED BY <3>1, <3>2, <3>5, <5>1, <5>2
      <4> QED BY <3>1, <3>2, <3>5, <4>1, <4>2
    <3> QED BY <3>4, <3>5
  <2>3. /\ SameJob(job) /\ (job'.swapped <=> Retains) /\ UNCHANGED <<job.done, job.branched, job.broken, job.result>>
        /\ (Replacing' <=> Replacing)
    BY <1>1, <1>3 DEF Jobs, SameJob, Replacing, Retains
  <2>4. /\ OldPlace' = (IF Retains THEN "retired" ELSE "target") /\ NewPlace' = (IF Retains THEN "target" ELSE Staging)
        /\ (HasNew' <=> Retains)
    BY <1>3, <2>3 DEF OldPlace, NewPlace, Swapped, Staging, HasNew
  <2>5. OldInv(OldPlace)'
    <3>1. CASE Retains
      BY <1>1, <1>2, <2>2, <2>3, <2>4, <3>1 DEF OldInv, There, Grown, SameJob
    <3>2. CASE ~Retains
      BY <1>1, <1>2, <2>2, <2>3, <2>4, <3>2 DEF OldInv, NewInv, There, Grown, SameJob, Retains
    <3> QED BY <3>1, <3>2
  <2>6. HasNew' => NewInv(NewPlace)'
    BY <1>1, <1>2, <2>2, <2>3, <2>4 DEF NewInv, There
  <2>7. DiskInv'
    <3>1. \A p \in Paths : disk'[p] \in {Absent} \cup {disk[q] : q \in Paths}
      BY <1>2, <2>2 DEF Paths
    <3> QED BY <1>1, <1>2, <1>e, <2>2, <3>1, PathsAre DEF DiskInv, There
  <2>8. ~There("failed")' /\ (There("rebuild")' => job.untidy)
    BY <1>2, <1>e, <2>2 DEF There
  <2> QED BY <1>1, <1>3, <2>3, <2>5, <2>6, <2>7, <2>8, UpdateGoesOn
<1>4. CASE job' = job /\ PutAsideBack
  <2> DEFINE back == Moved("retired", "target")
  <2>1. /\ back \in [Paths -> Stores] /\ back["retired"] = Absent /\ back["target"] = disk["retired"]
        /\ \A p \in Paths \ {"retired", "target"} : back[p] = disk[p]
    BY <1>2, MovedIs
  <2>2. /\ pc' \in {"unwind", "register"} /\ disk' = IF Replacing THEN back ELSE [back EXCEPT !["rebuild"] = Absent]
    BY <1>4 DEF PutAsideBack, NotNormalized, Onward, Go
  <2>3. /\ disk' \in [Paths -> Stores] /\ disk'["retired"] = Absent /\ disk'["target"] = disk["retired"]
        /\ disk'["failed"] = disk["failed"] /\ disk'["rebuild"] = (IF Replacing THEN disk["rebuild"] ELSE Absent)
        /\ \A p \in {"replacement", "draft", "spare"} : disk'[p] = disk[p]
    <3>1. back["failed"] = disk["failed"] /\ back["rebuild"] = disk["rebuild"] /\ \A p \in {"replacement", "draft", "spare"} : back[p] = disk[p]
      BY <2>1 DEF Paths
    <3> HIDE DEF back
    <3>2. CASE Replacing
      BY <2>1, <2>2, <3>1, <3>2
    <3>3. CASE ~Replacing
      BY <1>2, <2>1, <2>2, <3>1, <3>3, AbsentIs
    <3> QED BY <3>2, <3>3
  <2>4. SameJob(job) /\ (Replacing' <=> Replacing) /\ OldPlace' = "target" /\ ~HasNew'
    BY <1>1, <1>2, <1>4, <2>2 DEF SameJob, Replacing, OldPlace, Swapped, HasNew
  <2>5. OldInv("target")'
    BY <1>1, <1>2, <1>4, <2>3, <2>4 DEF OldInv, There, Grown
  <2>6. DiskInv'
    <3>1. \A p \in Paths : disk'[p] \in {Absent} \cup {disk[q] : q \in Paths}
      BY <2>3 DEF Paths
    <3> QED BY <1>1, <1>2, <1>e, <2>3, <3>1, PathsAre DEF DiskInv, There
  <2>7. ~There("failed")' /\ (There("rebuild")' => job.untidy)
    BY <1>2, <1>e, <2>3 DEF There
  <2> QED BY <1>1, <1>4, <2>2, <2>4, <2>5, <2>6, <2>7, UpdateGoesOn
<1>5. CASE ~Retains /\ disk' = Moved(Staging, "target") /\ pc' = "register" /\ job' = job
  <2>1. job' = [job EXCEPT !.swapped = FALSE]
    BY <1>1, <1>2, <1>5 DEF Jobs
  <2> QED BY <1>3, <1>5, <2>1
<1>6. CASE /\ pc' = "register" /\ job' = [job EXCEPT !.swapped = Retains]
           /\ disk' = IF Retains THEN Moved(Staging, "target") ELSE [Moved(Staging, "target") EXCEPT !["retired"] = Absent]
  <2>1. PICK b \in BOOLEAN : (b <=> Retains) /\ job' = [job EXCEPT !.swapped = b]
    BY <1>6 DEF Retains
  <2>2. IF Retains THEN disk' = Moved(Staging, "target")
        ELSE disk' \in {Moved(Staging, "target"), [Moved(Staging, "target") EXCEPT !["retired"] = Absent]}
    BY <1>6
  <2> QED BY <1>3, <1>6, <2>1, <2>2
<1> QED BY <1>4, <1>5, <1>6 DEF Into, Go

\* The index of records says what the store holds.
LEMMA UpsertIs ==
    ASSUME TypeInv, DiskInv
    PROVE  Upsert \in Seq(Records) /\ \E i \in 1..Len(Upsert) : Upsert[i].periods = disk["target"].data.periods
<1> DEFINE scope == <<job.request.from, job.request.to>>
           new   == [scope |-> scope, periods |-> Target.data.periods]
           alike == {i \in 1..Len(records) : records[i].scope = scope}
           last  == CHOOSE i \in alike : \A j \in alike : j <= i
<1>1. records \in Seq(Records) /\ Len(records) \in Nat /\ new \in Records /\ new.periods = disk["target"].data.periods
  <2>1. scope \in Nat \X Nat /\ disk["target"].data \in Data
    BY PathsAre DEF TypeInv, Jobs, Scopes
  <2>2. records \in Seq(Records)
    BY DEF TypeInv
  <2> QED BY <2>1, <2>2, NothingIs, LenProperties DEF Records, Target
<1>2. Upsert = CASE alike = {} -> Append(records, new)
                 [] alike # {} /\ job.request.over -> Append(Without(records, last), new)
                 [] OTHER -> IF records[last] = new THEN records ELSE Append(records, new)
  BY DEF Upsert
<1>3. alike # {} => last \in 1..Len(records)
  <2>1. alike \in SUBSET (1..Len(records))
    OBVIOUS
  <2> HIDE DEF alike
  <2>2. alike # {} => \E i \in alike : \A j \in alike : j <= i
    BY <1>1, <2>1, LastOf
  <2> QED BY <2>1, <2>2
<1> HIDE DEF new, alike, last
<1>4. ASSUME NEW s \in Seq(Records)
      PROVE  /\ Append(s, new) \in Seq(Records)
             /\ \E i \in 1..Len(Append(s, new)) : Append(s, new)[i].periods = disk["target"].data.periods
  <2>1. /\ Append(s, new) \in Seq(Records) /\ Len(Append(s, new)) = Len(s) + 1 /\ Append(s, new)[Len(s) + 1] = new
        /\ Len(s) \in Nat
    BY <1>1, AppendProperties, LenProperties
  <2>2. Len(s) + 1 \in 1..Len(Append(s, new))
    BY <2>1
  <2> QED BY <1>1, <2>1, <2>2
<1>5. alike # {} => Without(records, last) \in Seq(Records)
  BY <1>1, <1>3, WithoutIs
<1>6. CASE alike = {}
  BY <1>1, <1>2, <1>4, <1>6
<1>7. CASE alike # {} /\ job.request.over
  BY <1>2, <1>4, <1>5, <1>7
<1>8. CASE alike # {} /\ ~job.request.over
  <2>1. Upsert = IF records[last] = new THEN records ELSE Append(records, new)
    BY <1>2, <1>8
  <2> QED BY <1>1, <1>3, <1>4, <1>8, <2>1
<1> QED BY <1>6, <1>7, <1>8

LEMMA RegisterInv == StoreInv /\ Register => StoreInv'
<1> SUFFICES ASSUME StoreInv, Register PROVE StoreInv'
  OBVIOUS
<1>0. pc = "register" /\ UNCHANGED <<stream, asked, disk, marker, found, ingests>>
  BY DEF Register, Same
<1>1. CASE records' = records /\ job' = job /\ pc' = "unwind"
  <2>1. /\ OldPlace' = OldPlace /\ NewPlace' = NewPlace /\ (HasNew' <=> HasNew) /\ (Replacing' <=> Replacing)
    BY <1>0, <1>1, UpdateIs DEF OldPlace, NewPlace, Swapped, HasNew, Staging, Replacing
  <2>2. OldInv(OldPlace)' /\ (HasNew' => NewInv(NewPlace)')
    BY <1>0, <1>1, <2>1, UpdateIs DEF OldInv, NewInv, There, Grown
  <2>3. DiskInv' /\ ~There("failed")' /\ (There("rebuild")' => job.untidy)
    BY <1>0, UpdateIs DEF DiskInv, There
  <2>4. SameJob(job)
    BY <1>0, <1>1, UpdateIs DEF SameJob
  <2> QED BY <1>0, <1>1, <2>2, <2>3, <2>4, UpdateGoesOn
<1>2. CASE /\ records' = Upsert /\ pc' = "finalize"
           /\ job' = [job EXCEPT !.result = "stored", !.branched = @ /\ ~job.swapped]
  <2> USE DEF StoreInv
  <2>c. found \in Data /\ TypeInv /\ DiskInv
    BY DEF StoreInv, TypeInv
  <2>a. records' \in Seq(Records) /\ \E i \in 1..Len(records') : records'[i].periods = disk["target"].data.periods
    BY <1>2, <2>c, UpsertIs
  <2>b. /\ SameJob(job) /\ job'.result = "stored" /\ (job'.branched <=> job.branched /\ ~job.swapped)
        /\ UNCHANGED <<job.done, job.swapped, job.broken>>
    BY <1>2, <2>c DEF TypeInv, Jobs, SameJob
  <2>d. /\ There("target") /\ (disk["target"].branch # Nothing => job'.branched \/ job'.untidy)
        /\ ~There("failed") /\ (There("rebuild") => job'.untidy)
    BY <1>0, <2>b, UpdateIs DEF OldInv, NewInv, SameJob
  <2>1. DiskInv'
    BY <1>0, <1>2, <2>a, <2>b DEF DiskInv, There
  <2>2. TypeInv'
    BY <1>0, <1>2, <2>a, <2>b DEF TypeInv, Places, Early, Clearing, Updating, Ending, SameJob
  <2>3. StreamInv'
    BY <1>0, <1>2, <2>a, <2>b, StreamRests DEF StreamInv
  <2>4. JobInv'
    BY <1>0, <1>2, <2>a, <2>b DEF JobInv, TypeInv, Places, Early, Clearing, Updating, Ending, SameJob
  <2>5. PlanInv'
    BY <1>0, <1>2, <2>a, <2>b DEF PlanInv, TypeInv, Places, Early, Clearing, Updating, Ending, Replacing, SameJob, JobInv
  <2>6. EarlyInv'
    BY <1>0, <1>2, <2>a, <2>b DEF EarlyInv, TypeInv, Places, Early, Clearing, Updating, Ending, Unplanned, There, Paths
  <2>7. UpdateInv'
    BY <1>0, <1>2, <2>a, <2>b DEF UpdateInv, Places, Early, Clearing, Updating, Ending
  <2>8. TidyInv'
    BY <1>0, <1>2, <2>a, <2>b, <2>d DEF TidyInv, JobInv, Places, Early, Clearing, Updating, Ending, There, Replacing
  <2>9. EndInv'
    BY <1>0, <1>2, <2>a, <2>b, <2>d DEF EndInv, JobInv, Places, Early, Clearing, Updating, Ending, There
  <2> QED BY <2>1, <2>2, <2>3, <2>4, <2>5, <2>6, <2>7, <2>8, <2>9
<1> QED BY <1>0, <1>1, <1>2 DEF Register, Go

-----------------------------------------------------------------------------
(* The plan. *)

LEMMA StreamStartIs ==
    ASSUME NEW m \in Periods, NEW n \in Periods, m <= n, StreamStart(Sequence(m, n))
    PROVE  /\ stream' \in Streams /\ stream'.state = "running" /\ Len(stream'.window) <= MaxParallel
           /\ Lined(m)'
<1> DEFINE s == Sequence(m, n)
           k == Least(MaxParallel, Len(s))
           Q == SubSeq(s, k + 1, Len(s))
           F == SubSeq(s, 1, k)
<1>1. /\ s \in Seq(Periods) /\ Len(s) = n - m + 1 /\ Len(s) \in Nat /\ Len(s) > 0 /\ m \in Nat /\ n \in Nat
      /\ \A i \in 1..Len(s) : s[i] = m + i - 1
  <2>1. m \in Nat /\ n \in Nat /\ m..n \subseteq Periods
    BY StreamAssumption DEF Periods
  <2>2. s \in Seq(m..n) /\ Len(s) = n - m + 1 /\ \A i \in 1..Len(s) : s[i] = m + i - 1
    BY <2>1, SequenceIs
  <2> HIDE DEF s
  <2>3. s \in Seq(Periods)
    BY <2>1, <2>2
  <2> QED BY <2>1, <2>2, <2>3
<1>2. k \in Nat /\ k <= Len(s) /\ k <= MaxParallel /\ k > 0
  <2> HIDE DEF s
  <2> QED BY <1>1, StreamAssumption DEF Least
<1>3. stream' = [state |-> IF s = <<>> THEN "done" ELSE "running", queue |-> Q, window |-> Started(F)]
  BY DEF StreamStart
<1> HIDE DEF s, k
<1>4. F \in Seq(Periods) /\ Len(F) = k /\ \A j \in 1..k : F[j] = s[j]
  <2>1. 1 \in Int /\ k \in Int /\ \A j \in 1..k : s[j] \in Periods
    BY <1>1, <1>2, ElementOfSeq
  <2> QED BY <1>2, <2>1, SubSeqProperties
<1>5. Q \in Seq(Periods) /\ Len(Q) = Len(s) - k /\ \A j \in 1..Len(s) - k : Q[j] = s[k + j]
  <2>1. k + 1 \in Int /\ Len(s) \in Int /\ \A j \in k + 1..Len(s) : s[j] \in Periods
    BY <1>1, <1>2, ElementOfSeq
  <2>2. /\ Q \in Seq(Periods) /\ Len(Q) = IF k + 1 <= Len(s) THEN Len(s) - (k + 1) + 1 ELSE 0
        /\ \A j \in 1..Len(s) - (k + 1) + 1 : Q[j] = s[k + 1 + j - 1]
    BY ONLY <2>1, SubSeqProperties DEF Q
  <2>3. Len(s) - (k + 1) + 1 = Len(s) - k /\ (k + 1 <= Len(s) \/ Len(s) - k = 0)
    BY <1>1, <1>2
  <2>4. \A j \in 1..Len(s) - k : k + 1 + j - 1 = k + j
    BY <1>1, <1>2
  <2> QED BY <2>2, <2>3, <2>4
<1> HIDE DEF F, Q
<1> DEFINE W == Started(F)
<1>6. W \in Seq(Fetches) /\ Len(W) = k /\ \A j \in 1..k : W[j].period = s[j]
  <2>1. /\ Started(F) \in Seq(Fetches) /\ Len(Started(F)) = Len(F)
        /\ \A i \in 1..Len(F) : Started(F)[i] = [period |-> F[i], state |-> "fetching"]
    BY ONLY <1>4, StartedIs
  <2> QED BY <1>4, <2>1
<1> HIDE DEF W
<1>7. stream' = [state |-> "running", queue |-> Q, window |-> W]
  BY <1>1, <1>3, NoStreamIs DEF W
<1>8. stream' \in Streams /\ stream'.window = W /\ stream'.queue = Q /\ stream'.state = "running"
  BY <1>5, <1>6, <1>7 DEF Streams
<1>9. ASSUME NEW i \in 1..Len(W) PROVE W[i].period = m + i - 1
  <2>1. i \in 1..k /\ i \in 1..Len(s)
    BY <1>1, <1>2, <1>6
  <2> QED BY <1>1, <1>6, <2>1
<1>10. ASSUME NEW i \in 1..Len(Q) PROVE Q[i] = m + Len(W) + i - 1
  <2>1. Q[i] = s[k + i] /\ k + i \in 1..Len(s)
    BY <1>1, <1>2, <1>5
  <2> QED BY <1>1, <1>2, <1>6, <2>1
<1> QED BY <1>2, <1>6, <1>8, <1>9, <1>10 DEF Lined

LEMMA PlannedIs ==
    ASSUME TypeInv, DiskInv, NEW a \in {"no_op", "append", "rematerialize"}, NEW p \in {"target", "replacement"},
           Planned(a, p)
    PROVE  /\ job' \in Jobs /\ job'.action = a /\ job'.path = p /\ (job'.committed <=> disk["target"].data # Nothing)
           /\ found' = disk["target"].data /\ found' \in Data
           /\ UNCHANGED <<job.request, job.done, job.branched, job.swapped, job.broken, job.result, job.untidy>>
<1>1. job \in Jobs /\ disk["target"].data \in Data
  BY PathsAre DEF TypeInv
<1>2. job' = [job EXCEPT !.action = a, !.path = p, !.committed = disk["target"].data # Nothing]
  BY DEF Planned, Target
<1>3. PICK b \in BOOLEAN : b = (disk["target"].data # Nothing)
  OBVIOUS
<1>4. job' = [job EXCEPT !.action = a, !.path = p, !.committed = b]
  BY <1>2, <1>3
<1>5. /\ job' \in Jobs /\ job'.action = a /\ job'.path = p /\ job'.committed = b
      /\ UNCHANGED <<job.request, job.done, job.branched, job.swapped, job.broken, job.result, job.untidy>>
  BY <1>1, <1>4 DEF Jobs
<1> QED BY <1>1, <1>3, <1>5 DEF Planned, Target

\* What the plan finds.
LEMMA PlanIs ==
    ASSUME StoreInv, pc = "plan"
    PROVE  /\ TypeInv /\ DiskInv /\ disk \in [Paths -> Stores] /\ ingests \in Nat /\ disk["target"] \in Stores
           /\ disk["target"].data \in Data /\ disk["target"].data.version < ingests
           /\ (disk["target"].branch = Nothing \/ job.untidy) /\ (~There("target") => disk["target"].data = Nothing)
           /\ job.action = "none" /\ job.result = "none" /\ job.path = "target" /\ job.request \in Requests
           /\ ~job.committed /\ ~job.done /\ ~job.branched /\ ~job.swapped
           /\ ~There("failed") /\ (There("rebuild") => job.untidy)
<1>1. TypeInv /\ DiskInv /\ EarlyInv /\ JobInv /\ TidyInv
  BY DEF StoreInv
<1>2. /\ disk \in [Paths -> Stores] /\ ingests \in Nat /\ disk["target"].data \in Data /\ disk["target"] \in Stores
      /\ (~There("target") => disk["target"].data = Nothing)
  BY <1>1, PathsAre, AbsentIs DEF TypeInv, There
<1>3. disk["target"].data.version < ingests /\ (disk["target"].branch = Nothing \/ job.untidy)
  BY <1>1 DEF EarlyInv, Unplanned, Early, Paths
<1>4. /\ job.action = "none" /\ job.result = "none" /\ job.request \in Requests
  BY <1>1 DEF JobInv, Early
<1>5. /\ ~job.committed /\ ~job.done /\ ~job.branched /\ ~job.swapped /\ job.path = "target"
  BY <1>1, <1>4 DEF JobInv
<1>6. ~There("failed") /\ (There("rebuild") => job.untidy)
  BY <1>1, <1>4 DEF TidyInv
<1> QED BY <1>1, <1>2, <1>3, <1>4, <1>5, <1>6

LEMMA PlanGoesOn ==
    ASSUME StoreInv, pc = "plan", pc' \in {"known", "branch", "fetch"}, UNCHANGED <<asked, marker, records, ingests>>,
           NEW a \in {"no_op", "append", "rematerialize"}, NEW p \in {"target", "replacement"}, Planned(a, p),
           DiskInv', stream' \in Streams, StreamInv', PlanInv', OldInv("target")',
           disk'["failed"] = disk["failed"], disk'["rebuild"] = disk["rebuild"],
           pc' \in {"branch", "fetch"} /\ p = "replacement" => disk'["replacement"] = Empty
    PROVE  StoreInv'
<1>1. /\ job' \in Jobs /\ job'.action = a /\ job'.path = p /\ (job'.committed <=> disk["target"].data # Nothing)
      /\ found' = disk["target"].data /\ found' \in Data
      /\ UNCHANGED <<job.request, job.done, job.branched, job.swapped, job.broken, job.result, job.untidy>>
  BY PlanIs, PlannedIs
<1>2. TypeInv'
  BY <1>1, PlanIs DEF TypeInv, Places, Updating
<1>3. JobInv'
  BY <1>1, PlanIs DEF StoreInv, JobInv, Early, Clearing
<1>4. EarlyInv'
  BY DEF EarlyInv, Unplanned, Early, Clearing
<1>5. UpdateInv'
  <2>1. OldPlace' = "target" /\ ~HasNew' /\ (Replacing' <=> p = "replacement")
    BY <1>1 DEF OldPlace, Swapped, HasNew, Replacing
  <2>2. Empty.there /\ Empty.branch = Nothing /\ Empty.data.version = 0
    BY AbsentIs, NothingIs
  <2> QED BY <1>1, <2>1, <2>2 DEF UpdateInv, There
<1>6. TidyInv'
  BY <1>1, PlanIs DEF TidyInv, There
<1>7. EndInv'
  BY DEF EndInv, Ending, Clearing
<1> QED BY <1>2, <1>3, <1>4, <1>5, <1>6, <1>7 DEF StoreInv


LEMMA RefuseInv == ASSUME StoreInv, pc = "plan", Refuse, UNCHANGED <<asked, marker, records, bounds>> PROVE StoreInv'
<1> USE DEF StoreInv
<1>c. found \in Data
  BY DEF TypeInv
<1>a. /\ UNCHANGED <<stream, asked, disk, marker, records, found, ingests>> /\ pc = "plan" /\ pc' = "release"
  BY DEF Refuse, Go, bounds
<1>b. SameJob(job) /\ job'.result = "failed" /\ UNCHANGED <<job.done, job.branched, job.swapped, job.broken>>
  BY ResultIs DEF Refuse
<1>d. job.action = "none" /\ ~job.committed /\ ~job.swapped /\ ~job.branched
  BY PlanIs
<1>1. DiskInv'
  BY <1>a, <1>b DEF DiskInv, There
<1>2. TypeInv'
  BY <1>a, <1>b DEF TypeInv, Places, Early, Clearing, Updating, Ending, SameJob
<1>3. StreamInv'
  BY <1>a, <1>b, StreamRests DEF StreamInv
<1>4. JobInv'
  BY <1>a, <1>b, <1>d DEF JobInv, TypeInv, Places, Early, Clearing, Updating, Ending, SameJob
<1>5. PlanInv'
  BY <1>a, <1>b DEF PlanInv, TypeInv, Places, Early, Clearing, Updating, Ending, Replacing, SameJob, JobInv
<1>6. EarlyInv'
  BY <1>a, <1>b, <1>d DEF EarlyInv, TypeInv, Places, Early, Clearing, Updating, Ending, Unplanned, There, Paths, SameJob, JobInv
<1>7. UpdateInv'
  BY <1>a, <1>b DEF UpdateInv, Places, Early, Clearing, Updating, Ending
<1>8. TidyInv'
  BY <1>a, <1>b DEF TidyInv, JobInv, Places, Early, Clearing, Updating, Ending, There, Replacing
<1>9. EndInv'
  BY <1>a, <1>b, <1>d DEF EndInv, JobInv, Places, Early, Clearing, Updating, Ending, SameJob
<1> QED BY <1>1, <1>2, <1>3, <1>4, <1>5, <1>6, <1>7, <1>8, <1>9

LEMMA ForwardInv ==
    ASSUME StoreInv, pc = "plan", NEW first, NEW last \in Periods, Forward(first, last),
           Target.data.periods # <<>>, UNCHANGED <<asked, marker, records, bounds>>
    PROVE  StoreInv'
<1> DEFINE d == disk["target"].data
           held == d.periods
           expected == held[Len(held)] + 1
           upto     == Least(job.request.to, last)
<1>1. /\ disk \in [Paths -> Stores] /\ d \in Data /\ d # Nothing /\ There("target") /\ (disk["target"].branch = Nothing \/ job.untidy)
      /\ held \in Seq(Periods) /\ Len(held) \in 1..Len(held) /\ held[Len(held)] \in Periods
      /\ DiskInv /\ stream \in Streams /\ StreamInv /\ ~job.branched /\ ~job.done /\ ~job.swapped /\ job.result = "none"
  <2>1. d \in Data /\ held # <<>> /\ DiskInv /\ TypeInv /\ disk \in [Paths -> Stores]
    BY PlanIs DEF Target
  <2>2. held \in Seq(Periods) /\ d # Nothing
    BY <2>1, NothingIs
  <2>3. Len(held) \in 1..Len(held)
    BY <2>1, <2>2, EmptySeq, LenProperties
  <2>4. held[Len(held)] \in Periods
    BY <2>2, <2>3, ElementOfSeq
  <2> QED BY <2>1, <2>2, <2>3, <2>4, PlanIs DEF StoreInv, TypeInv
<1>2. ASSUME NEW a \in {"no_op", "append"}, Planned(a, "target"), disk' = disk
      PROVE  /\ job'.action = a /\ job'.path = "target" /\ job'.committed /\ ~job'.branched /\ ~job'.done
             /\ ~job'.swapped /\ job'.untidy = job.untidy /\ found' = d
             /\ OldInv("target")' /\ DiskInv' /\ ~Replacing'
  <2>1. TypeInv /\ DiskInv /\ a \in {"no_op", "append", "rematerialize"} /\ "target" \in {"target", "replacement"}
    BY PlanIs
  <2>2. /\ job' \in Jobs /\ job'.action = a /\ job'.path = "target" /\ (job'.committed <=> disk["target"].data # Nothing)
        /\ found' = disk["target"].data /\ found' \in Data
        /\ UNCHANGED <<job.request, job.done, job.branched, job.swapped, job.broken, job.result, job.untidy>>
    BY <1>2, <2>1, PlannedIs
  <2>3. Len(held) \in Nat
    BY <1>1, LenProperties
  <2>4. Grown(disk["target"].data)'
    BY <1>2, <2>2, <2>3 DEF Grown
  <2> QED BY <1>1, <1>2, <2>2, <2>4 DEF OldInv, There, DiskInv, Replacing, bounds
<1>3. CASE Planned("no_op", "target") /\ pc' = "known" /\ UNCHANGED <<stream, disk>>
  <2>1. PlanInv'
    BY <1>2, <1>3 DEF PlanInv
  <2>2. StreamInv'
    BY <1>1, <1>3, StreamRests
  <2> QED BY <1>1, <1>2, <1>3, <2>1, <2>2, PlanGoesOn DEF bounds
<1>4. CASE Planned("append", "target") /\ StreamStart(Sequence(expected, upto)) /\ pc' = "branch" /\ disk' = disk /\ ~(upto < expected)
  <2>1. expected \in Periods /\ upto \in Periods /\ expected <= upto
    <3>1. job.request.to \in Periods
      BY PlanIs, StoreAssumption
    <3>2. upto \in Periods /\ upto <= last
      BY <3>1 DEF Least, Periods
    <3> HIDE DEF upto
    <3>3. expected \in Nat /\ expected >= 1
      <4> DEFINE e == held[Len(held)]
      <4>1. e \in Nat
        BY <1>1 DEF Periods
      <4> HIDE DEF e
      <4>2. e + 1 \in Nat /\ e + 1 >= 1
        BY <4>1
      <4> QED BY <4>2 DEF e
    <3> HIDE DEF expected
    <3> QED BY <1>4, <3>2, <3>3, StreamAssumption DEF Periods
  <2>n. PICK n \in Periods : n = expected
    BY <2>1
  <2>2. /\ stream' \in Streams /\ stream'.state = "running" /\ Len(stream'.window) <= MaxParallel /\ Lined(n)'
    <3>1. PICK m \in Periods : m = upto
      BY <2>1
    <3>2. n <= m /\ StreamStart(Sequence(n, m))
      <4> HIDE DEF expected, upto
      <4> QED BY <1>4, <2>1, <2>n, <3>1
    <3> QED BY ONLY <3>2, StreamStartIs
  <2>3. job'.action = "append" /\ job'.path = "target" /\ job'.committed /\ ~job'.branched /\ ~job'.done /\ found' = d /\ ~job'.swapped
    BY <1>2, <1>4
  <2>4. StreamInv'
    <3>1. Continues(n, d.periods)
      BY <2>n DEF Continues
    <3>2. n \in 1..MaxPeriod + 1
      BY StreamAssumption DEF Periods
    <3>3. Continues(n, disk[job.path].data.periods)'
      BY <1>4, <2>3, <3>1 DEF Continues
    <3> HIDE DEF expected
    <3> QED BY <2>2, <3>2, <3>3 DEF StreamInv, Running
  <2>5. PlanInv'
    BY <1>2, <1>4 DEF PlanInv
  <2> QED BY <1>1, <1>2, <1>4, <2>2, <2>4, <2>5, PlanGoesOn DEF bounds
<1> QED BY <1>3, <1>4, RefuseInv DEF Forward, Go, Target

LEMMA WholeInv ==
    ASSUME StoreInv, pc = "plan", NEW from \in Periods, NEW to \in Periods, NEW first, NEW last \in Periods,
           NEW a \in {"append", "rematerialize"}, Whole(from, to, first, last, a),
           a = "append" => Target.data.periods = <<>>, UNCHANGED <<asked, marker, records, bounds>>
    PROVE  StoreInv'
<1> DEFINE d == disk["target"].data
           beside == There("target") /\ a = "rematerialize"
           path   == IF beside THEN "replacement" ELSE "target"
           upto   == Least(to, last)
<1>1. /\ disk \in [Paths -> Stores] /\ disk["target"] \in Stores /\ d \in Data /\ d.version < ingests /\ (disk["target"].branch = Nothing \/ job.untidy)
      /\ (~There("target") => d = Nothing) /\ (a = "append" => d = Nothing) /\ TypeInv
      /\ DiskInv /\ ~job.branched /\ ~job.done /\ ~job.swapped /\ job.result = "none"
  BY PlanIs, NothingIs DEF Target
<1>2. CASE Refuse
  BY <1>2, RefuseInv
<1>3. CASE /\ Planned(a, path) /\ StreamStart(Sequence(from, upto)) /\ pc' = "fetch" /\ ~(upto < from)
           /\ disk' = [disk EXCEPT ![path] = IF There(path) /\ ~beside THEN @ ELSE Empty]
  <2>p. path \in {"target", "replacement"} /\ path \in Paths /\ "target" \in Paths
    BY DEF Paths
  <2>1. /\ disk' \in [Paths -> Stores] /\ \A q \in Paths \ {path} : disk'[q] = disk[q]
        /\ disk'[path] = IF There(path) /\ ~beside THEN disk[path] ELSE Empty
    <3> HIDE DEF path, beside
    <3>1. disk[path] \in Stores /\ Empty \in Stores
      BY <1>1, <2>p, AbsentIs
    <3>2. PICK s \in Stores : s = IF There(path) /\ ~beside THEN disk[path] ELSE Empty
      BY <3>1
    <3>3. disk' = [disk EXCEPT ![path] = s]
      BY <1>3, <3>2
    <3> QED BY <1>1, <2>p, <3>2, <3>3
  <2>2. /\ job' \in Jobs /\ job'.action = a /\ job'.path = path /\ (job'.committed <=> d # Nothing)
        /\ found' = d /\ found' \in Data
        /\ UNCHANGED <<job.request, job.done, job.branched, job.swapped, job.broken, job.result, job.untidy>>
    <3>1. a \in {"no_op", "append", "rematerialize"}
      OBVIOUS
    <3> HIDE DEF path
    <3> QED BY <1>1, <1>3, <2>p, <3>1, PlannedIs
  <2>e. Empty.there /\ Empty.branch = Nothing /\ Empty.data = Nothing /\ Nothing.version = 0 /\ Nothing.periods = <<>>
    BY AbsentIs, NothingIs
  <2>3. disk'[path].data = Nothing /\ (beside => disk'["target"] = disk["target"] /\ disk'["replacement"] = Empty)
    <3>1. CASE beside
      BY <2>1, <2>p, <2>e, <3>1 DEF Paths
    <3>2. CASE ~beside
      BY <1>1, <2>1, <2>e, <3>2
    <3> QED BY <3>1, <3>2
  <2>4. disk'["target"].there /\ (disk'["target"].branch = Nothing \/ job.untidy) /\ disk'["target"].data = d
    <3>1. CASE beside
      BY <1>1, <2>3, <3>1 DEF There
    <3>2. CASE ~beside /\ There("target")
      BY <1>1, <2>1, <3>2 DEF There
    <3>3. CASE ~There("target")
      BY <1>1, <2>1, <2>e, <3>3
    <3> QED BY <3>1, <3>2, <3>3
  <2>5. (Replacing' <=> beside) /\ (beside => a = "rematerialize")
    BY <2>2 DEF Replacing
  <2>6. OldInv("target")'
    <3>1. Grown(disk["target"].data)'
      BY <1>1, <2>2, <2>4, NothingIs, LenProperties DEF Grown
    <3> QED BY <1>1, <2>2, <2>4, <2>5, <3>1 DEF OldInv, There
  <2>7. DiskInv'
    <3>1. \A q \in Paths : disk'[q] \in {disk[q], Empty}
      BY <2>1
    <3> QED BY <1>1, <2>1, <2>e, <3>1, PathsAre DEF DiskInv, There, bounds, TypeInv
  <2>8. PlanInv'
    BY <1>1, <1>3, <2>2, <2>5 DEF PlanInv, bounds
  <2>9. /\ stream' \in Streams /\ stream'.state = "running" /\ Len(stream'.window) <= MaxParallel /\ Lined(from)'
    <3>1. upto \in Periods /\ from <= upto
      BY <1>3 DEF Least, Periods
    <3> HIDE DEF upto
    <3> QED BY <1>3, <3>1, StreamStartIs
  <2>10. StreamInv'
    <3>1. from \in 1..MaxPeriod + 1
      BY StreamAssumption DEF Periods
    <3>2. Continues(from, disk[job.path].data.periods)'
      BY <2>2, <2>3, <2>e DEF Continues
    <3> QED BY <2>9, <3>1, <3>2 DEF StreamInv, Running
  <2>11. disk'["failed"] = disk["failed"] /\ disk'["rebuild"] = disk["rebuild"] /\ (path = "replacement" => disk'["replacement"] = Empty)
    BY <2>1, <2>3 DEF Paths
  <2> HIDE DEF path, upto
  <2> QED BY <1>3, <2>p, <2>6, <2>7, <2>8, <2>9, <2>10, <2>11, PlanGoesOn DEF bounds
<1> QED BY <1>2, <1>3 DEF Whole, Go

LEMMA PlanCases ==
    ASSUME StoreInv, Plan
    PROVE  /\ pc = "plan" /\ UNCHANGED <<asked, marker, records, bounds>>
           /\ \E from \in Periods, to \in Periods, first \in Periods, last \in Periods :
                 \/ Whole(from, to, first, last, "rematerialize")
                 \/ Whole(from, to, first, last, "append") /\ Target.data.periods = <<>>
                 \/ Target.data.periods # <<>> /\ Forward(first, last)
                 \/ Refuse
<1> DEFINE r == job.request
           held == Target.data.periods
<1>1. /\ pc = "plan" /\ UNCHANGED <<asked, marker, records, bounds>> /\ r.from \in Periods /\ r.to \in Periods
      /\ held \in Seq(Periods)
  BY PlanIs, StoreAssumption, NothingIs DEF Plan, Target
<1>2. held # <<>> => held[1] \in Periods /\ held[Len(held)] \in Periods
  <2> HIDE DEF held
  <2>1. held # <<>> => 1 \in 1..Len(held) /\ Len(held) \in 1..Len(held)
    BY <1>1, EmptySeq, LenProperties
  <2> QED BY <1>1, <2>1, ElementOfSeq
<1> DEFINE from == IF held = <<>> \/ r.over THEN r.from ELSE Least(r.from, held[1])
           to   == IF held = <<>> \/ r.over THEN r.to ELSE Greater(r.to, held[Len(held)])
<1>3. from \in Periods /\ to \in Periods
  BY <1>1, <1>2 DEF Least, Greater
<1>t. ~r.over /\ held # <<>> => from = held[1] \/ from < held[1]
  BY <1>1, <1>2 DEF Least, Periods
<1>p. PICK first \in {1, r.from}, last \in Periods :
          CASE r.over \/ held = <<>> ->
                   Whole(from, to, first, last, IF r.over THEN "rematerialize" ELSE "append")
            [] ~r.over /\ held # <<>> /\ from = held[1] -> Forward(first, last)
            [] ~r.over /\ held # <<>> /\ from < held[1] ->
                   IF last < held[Len(held)] THEN Refuse ELSE Whole(from, to, first, last, "rematerialize")
  BY DEF Plan
<1> HIDE DEF from, to
<1>f. first \in Periods
  BY <1>1, <1>3, StreamAssumption DEF Periods
<1>4. \/ Whole(from, to, first, last, "rematerialize")
      \/ Whole(from, to, first, last, "append") /\ held = <<>>
      \/ held # <<>> /\ Forward(first, last)
      \/ Refuse
  <2> HIDE DEF held
  <2>1. CASE r.over
    BY <1>p, <2>1
  <2>2. CASE ~r.over /\ held = <<>>
    BY <1>p, <2>2
  <2>3. CASE ~r.over /\ held # <<>> /\ from = held[1]
    BY <1>p, <2>3
  <2>4. CASE ~r.over /\ held # <<>> /\ from # held[1]
    BY <1>p, <1>t, <2>4
  <2> QED BY <2>1, <2>2, <2>3, <2>4
<1> QED BY <1>1, <1>3, <1>f, <1>4

LEMMA PlanActionInv == StoreInv /\ Plan => StoreInv'
<1> SUFFICES ASSUME StoreInv, Plan PROVE StoreInv'
  OBVIOUS
<1>1. pc = "plan" /\ UNCHANGED <<asked, marker, records, bounds>>
  BY PlanCases
<1>2. PICK from \in Periods, to \in Periods, first \in Periods, last \in Periods :
          \/ Whole(from, to, first, last, "rematerialize")
          \/ Whole(from, to, first, last, "append") /\ Target.data.periods = <<>>
          \/ Target.data.periods # <<>> /\ Forward(first, last)
          \/ Refuse
  BY PlanCases
<1> QED BY <1>1, <1>2, ForwardInv, RefuseInv, WholeInv

-----------------------------------------------------------------------------
(* Every step. *)

LEMMA StoreInitInv == StoreInit => StoreInv
<1> SUFFICES ASSUME StoreInit PROVE StoreInv
  OBVIOUS
<1>1. /\ stream = NoStream /\ asked = FALSE /\ disk = [p \in Paths |-> Absent] /\ marker = "none" /\ records = <<>>
      /\ pc = "idle" /\ job = NoJob /\ found = Nothing /\ ingests = 0
  BY DEF StoreInit, StreamInit
<1>2. DiskInv
  BY <1>1, AbsentIs, NothingIs, StoreAssumption DEF DiskInv, There
<1>3. TypeInv
  BY <1>1, NoStreamIs, NoJobIs, NothingIs, EmptySeq DEF TypeInv, Places, Ending
<1>4. StreamInv
  BY <1>1, NoStreamIs, StreamAssumption DEF StreamInv, Running
<1>5. JobInv /\ PlanInv /\ EarlyInv /\ UpdateInv /\ TidyInv /\ EndInv
  BY <1>1, NoJobIs DEF JobInv, PlanInv, EarlyInv, UpdateInv, TidyInv, EndInv, Replacing, Early, Clearing, Updating, Ending,
     Unplanned
<1> QED BY <1>2, <1>3, <1>4, <1>5 DEF StoreInv

LEMMA StoreIdleInv == StoreInv /\ UNCHANGED storeVars => StoreInv'
<1> SUFFICES ASSUME StoreInv, UNCHANGED storeVars PROVE StoreInv'
  OBVIOUS
<1>1. UNCHANGED <<stream, asked, disk, marker, records, pc, job, found, ingests>>
  BY DEF storeVars
<1>2. SameStores /\ marker' \in {"none", "new", "old"}
  BY <1>1 DEF SameStores, StoreInv, DiskInv, TypeInv
<1> QED BY <1>1, <1>2, WasteOnly

LEMMA StoreNextInv == StoreInv /\ [StoreNext]_storeVars => StoreInv'
<1> SUFFICES ASSUME StoreInv, [StoreNext]_storeVars PROVE StoreInv'
  OBVIOUS
<1>1. CASE Recovery
  BY <1>1, RestoreInv, SweepLeftoversInv, BranchesInv, PendingInv DEF Recovery
<1>2. CASE Ingest
  BY <1>2, PlanActionInv, KnownInv, BranchInv, FetchInv, CommitPeriodInv, FetchedInv, NormalizeInv, ExchangeInv, InstallInv, AsideInv, IntoInv,
     RegisterInv, FinalizeInv DEF Ingest
<1>3. CASE Rollback
  BY <1>3, UnwindInv, OutgoingInv, IncomingInv, RejectInv, ResetInv, UnbranchInv, CollectInv, MarkInv, ReleaseInv DEF Rollback
<1>4. CASE Maintenance \/ HourPasses \/ Cancel \/ Killed
  BY <1>4, RemoveRebuildsInv, CollectPendingInv, HourPassesInv, CancelInv, KilledInv DEF Maintenance
<1>5. CASE \E r \in Requests : Request(r)
  BY <1>5, RequestInv
<1> QED BY <1>1, <1>2, <1>3, <1>4, <1>5, StoreIdleInv DEF StoreNext, Progress

(* Whatever is asked for, fails or is killed, the ingest and its directories *)
(* are where StoreInv says (services.py _create_streaming_artifact).         *)
THEOREM StoreInductive == StoreSpec => []StoreInv
<1>1. StoreInit => StoreInv
  BY StoreInitInv
<1>2. StoreInv /\ [StoreNext]_storeVars => StoreInv'
  BY StoreNextInv
<1> QED BY <1>1, <1>2, PTL DEF StoreSpec

\* A sequence begins with another.
LEMMA PrefixIs ==
    ASSUME NEW s \in Seq(Periods), NEW t \in Seq(Periods), Len(s) <= Len(t), \A i \in 1..Len(s) : t[i] = s[i]
    PROVE  SubSeq(t, 1, Len(s)) = s
<1> DEFINE n == Len(s)
           u == SubSeq(t, 1, n)
<1>1. n \in Nat /\ Len(t) \in Nat /\ n <= Len(t) /\ \A i \in 1..n : t[i] = s[i]
  BY LenProperties
<1> HIDE DEF n
<1>2. u \in Seq(Periods) /\ Len(u) = n /\ \A i \in 1..n : u[i] = t[i]
  <2>1. 1 \in Int /\ n \in Int /\ \A i \in 1..n : t[i] \in Periods
    BY <1>1, ElementOfSeq
  <2>2. /\ u \in Seq(Periods) /\ Len(u) = IF 1 <= n THEN n - 1 + 1 ELSE 0
        /\ \A i \in 1..n - 1 + 1 : u[i] = t[1 + i - 1]
    BY ONLY <2>1, SubSeqProperties DEF u
  <2>3. n - 1 + 1 = n /\ (1 <= n \/ n = 0) /\ \A i \in 1..n : 1 + i - 1 = i
    BY <1>1
  <2> QED BY <2>2, <2>3
<1> HIDE DEF u
<1>3. u = s
  BY <1>1, <1>2, SeqEqual DEF n
<1> QED BY <1>3 DEF u, n

\* What is published begins with what the ingest found.
LEMMA GrownIs ==
    ASSUME NEW d \in Data, found \in Data, Grown(d)
    PROVE  d.version = found.version /\ SubSeq(d.periods, 1, Len(found.periods)) = found.periods
<1>1. found.periods \in Seq(Periods) /\ d.periods \in Seq(Periods)
  BY NothingIs
<1> QED BY <1>1, PrefixIs DEF Grown

LEMMA EndsWell == StoreInv => EndsAsItSays
<1> SUFFICES ASSUME StoreInv PROVE EndsAsItSays
  OBVIOUS
<1>1. DiskInv /\ TypeInv /\ TidyInv /\ EndInv /\ found \in Data
  BY DEF StoreInv, TypeInv
<1>2. Published \in Data
  BY <1>1, PathsAre DEF Published, Target, Paths
<1>3. FailureLeavesData
  <2>1. pc = "idle" /\ job.result = "failed" /\ job.committed /\ ~job.broken => Left
    BY <1>1 DEF EndInv, Ending
  <2> QED BY <1>1, <1>2, <2>1, GrownIs DEF FailureLeavesData, Left
<1>4. SuccessIsRecorded
  BY <1>1 DEF EndInv, Ending, SuccessIsRecorded, Target
<1>5. NothingLeftBehind
  BY <1>1 DEF EndInv, TidyInv, Ending, NothingLeftBehind, Target
<1> QED BY <1>3, <1>4, <1>5 DEF EndsAsItSays

(* An ingest that is stored has a record of what the store holds, and of the *)
(* store itself leaves no debris that it, or its recovery, did not try to    *)
(* remove in vain; one that failed left what it found, and at most the       *)
(* periods a fetch that did not end had committed (services.py:1376-1379,    *)
(* :1330-1354, :1606-1614).  What is left of a replacement is not among what *)
(* it removes.                                                               *)
THEOREM EndsAsItSaysHolds == StoreSpec => []EndsAsItSays
  BY StoreInductive, EndsWell, PTL

-----------------------------------------------------------------------------
(* The types that the runs check. *)

\* While a rename is in between, nothing is at the store's own place.
Between == pc \in {"into", "incoming"} => ~There("target")

LEMMA BetweenInv == StoreInv /\ Between /\ [StoreNext]_storeVars => Between'
<1> SUFFICES ASSUME StoreInv, Between, [StoreNext]_storeVars, pc' \in {"into", "incoming"} PROVE ~There("target")'
  BY DEF Between
<1>1. \/ Aside \/ Outgoing
      \/ pc' = pc /\ UNCHANGED disk
      \/ HourPasses
  <2>1. CASE Recovery
    BY <2>1 DEF Recovery, Restore, SweepLeftovers, Branches, Pending, Go
  <2>2. CASE Ingest
    <3>1. CASE Plan
      <4>1. pc' \in {"release", "known", "branch", "fetch"}
        BY <3>1, PlanCases DEF Whole, Forward, Refuse, Go
      <4> QED BY <4>1
    <3>2. CASE Known \/ Branch \/ Fetch \/ CommitPeriod \/ Fetched
      BY <3>2 DEF Known, Branch, Fetch, CommitPeriod, Fetched, Go
    <3>3. CASE Normalize \/ Exchange \/ Install \/ Into \/ Register \/ Finalize
      BY <3>3 DEF Normalize, Exchange, Install, Into, Register, Finalize, Onward, NotNormalized, PutAsideBack, Go
    <3> QED BY <2>2, <3>1, <3>2, <3>3 DEF Ingest
  <2>3. CASE Rollback
    BY <2>3 DEF Rollback, Unwind, Incoming, Reject, Reset, Unbranch, Collect, Mark, Release, Broken, Go
  <2>4. CASE Maintenance \/ Cancel \/ Killed
    BY <2>4 DEF Maintenance, RemoveRebuilds, CollectPending, Unlocked, Cancel, Killed, Go
  <2>5. CASE \E r \in Requests : Request(r)
    BY <2>5 DEF Request, Go
  <2>6. CASE UNCHANGED storeVars
    BY <2>6 DEF storeVars
  <2> QED BY <2>1, <2>2, <2>3, <2>4, <2>5, <2>6 DEF StoreNext, Progress
<1>2. /\ disk \in [Paths -> Stores] /\ "target" \in Paths /\ "retired" \in Paths /\ "failed" \in Paths
  BY DEF StoreInv, DiskInv, Paths
<1>3. CASE Aside \/ Outgoing
  <2>1. pc' # "unwind" /\ pc' # "register" /\ pc' # "release"
    OBVIOUS
  <2>2. disk' = Moved("target", "retired") \/ disk' = Moved("target", "failed")
    BY <1>3, <2>1 DEF Aside, Outgoing, NotSwapped, NotNormalized, Onward, Broken, Go, Staging, Replacing, StoreInv
  <2>3. Moved("target", "retired")["target"] = Absent /\ Moved("target", "failed")["target"] = Absent
    BY <1>2, MovedIs
  <2> QED BY <2>2, <2>3, AbsentIs DEF There
<1>4. CASE HourPasses
  BY <1>2, <1>4 DEF HourPasses, Between, There, bounds, StoreInv, DiskInv, Stores
<1>5. CASE pc' = pc /\ UNCHANGED disk
  BY <1>5 DEF Between, There
<1> QED BY <1>1, <1>3, <1>4, <1>5

LEMMA StoreTypesOf == StoreInv /\ Between => StoreTypeOK
<1> SUFFICES ASSUME StoreInv, Between PROVE StoreTypeOK
  OBVIOUS
<1>1. DiskInv /\ TypeInv /\ StreamInv /\ PlanInv /\ UpdateInv /\ found \in Data
  BY DEF StoreInv, TypeInv
<1>2. StreamTypeOK
  <2>1. stream \in Streams /\ stream.window \in Seq(Fetches)
    BY <1>1 DEF TypeInv, Streams
  <2>2. \A i \in 1..Len(stream.window) : stream.window[i] \in Fetches
    BY <2>1, ElementOfSeq
  <2> QED BY <1>1, <2>1, <2>2 DEF StreamTypeOK, Streams, Fetches, StreamInv, TypeInv
<1>3. \A p \in Paths : /\ disk[p].there \in BOOLEAN /\ disk[p].waste \subseteq [of : 1..MaxIngests, old : BOOLEAN]
                       /\ {disk[p].data, disk[p].branch} \subseteq Datum
                       /\ ~There(p) => disk[p] = Absent
  BY <1>1 DEF DiskInv, Stores, Wastes, Data
<1>4. \A i \in 1..Len(records) : records[i].periods \in Seq(Periods)
  <2>1. records \in Seq(Records)
    BY <1>1 DEF TypeInv
  <2>2. \A i \in 1..Len(records) : records[i] \in Records
    BY <2>1, ElementOfSeq
  <2> QED BY <2>2 DEF Records
<1>5. DOMAIN job = DOMAIN NoJob
  BY <1>1 DEF TypeInv, Jobs, NoJob
<1>6. pc \in {"aside", "outgoing"} => There("target") /\ (pc = "aside" => There(Staging))
  BY <1>1 DEF UpdateInv, Updating, PlanInv, OldPlace, NewPlace, Swapped, HasNew, OldInv, NewInv
<1>8. pc \in {"exchange", "install"} => There("draft") /\ There(IF pc = "exchange" THEN "replacement" ELSE "spare")
  BY <1>1 DEF UpdateInv, Updating, Fresh
<1>7. pc \in {"into", "incoming"} => ~There("target") /\ There("retired")
  BY <1>1 DEF UpdateInv, Updating, OldPlace, OldInv, Between
<1> QED BY <1>1, <1>2, <1>3, <1>4, <1>5, <1>6, <1>7, <1>8 DEF StoreTypeOK, TypeInv, Data

-----------------------------------------------------------------------------
(* StoreLedger is implemented. *)

Open == pc \notin {"idle", "restore", "sweep", "branches", "pending", "plan"} /\ job.action # "none"

LedgerStep == [Ledger!Next]_(Ledger!vars)

LEMMA Stutters == ASSUME UNCHANGED <<Published, found>>, Open' <=> Open PROVE LedgerStep
  BY DEF LedgerStep, Ledger!vars, Open

LEMMA Begins == ASSUME Open', found' = Published, Published' = Published PROVE LedgerStep
  BY DEF LedgerStep, Ledger!Next, Ledger!Begin, Open

LEMMA Ends == ASSUME Open, ~Open', UNCHANGED <<Published, found>> PROVE LedgerStep
  BY DEF LedgerStep, Ledger!Next, Ledger!End, Open

LEMMA PutsBack == ASSUME Open, Open', Published' = found, found' = found PROVE LedgerStep
  BY DEF LedgerStep, Ledger!Next, Ledger!PutBack, Open

LEMMA Replaces ==
    ASSUME Open, Open', found' = found, Published' \in Data, Published' # Nothing, Published'.version > Published.version
    PROVE  LedgerStep
<1>1. Ledger!Follows(Published'.periods) /\ Published'.periods # <<>>
  BY NothingIs DEF Data
<1> QED BY <1>1 DEF LedgerStep, Ledger!Next, Ledger!Replace, Open

LEMMA Extends ==
    ASSUME Open, Open', found' = found, NEW d \in Data, NEW more \in Data, Published = d, Published' = more,
           Len(more.periods) = Len(d.periods) + 1, \A k \in 1..Len(d.periods) : more.periods[k] = d.periods[k],
           more.version = d.version \/ d = Nothing
    PROVE  LedgerStep
<1>1. d.periods \in Seq(Periods) /\ more.periods \in Seq(Periods) /\ Len(d.periods) \in Nat
      /\ (d = Nothing => d.periods = <<>>) /\ Ledger!Follows(more.periods)
  BY NothingIs, LenProperties DEF Data
<1>2. SubSeq(more.periods, 1, Len(d.periods)) = d.periods
  <2>1. Len(d.periods) <= Len(more.periods)
    BY <1>1
  <2> QED BY <1>1, <2>1, PrefixIs
<1> QED BY <1>1, <1>2 DEF LedgerStep, Ledger!Next, Ledger!Extend, Open

LEMMA PublishedFrom ==
    ASSUME disk'["target"].there = disk["target"].there, disk'["target"].data = disk["target"].data,
           disk'["retired"].data = disk["retired"].data
    PROVE  Published' = Published
  BY DEF Published, Target, There

\* Recovery, and what ends or interrupts an ingest.
LEMMA AroundSteps ==
    ASSUME StoreInv, \/ Recovery \/ HourPasses \/ Maintenance \/ Cancel \/ Killed \/ Release \/ Collect \/ Mark
                     \/ UNCHANGED storeVars \/ \E r \in Requests : Request(r)
    PROVE  LedgerStep
<1>1. /\ DiskInv /\ found \in Data /\ disk \in [Paths -> Stores] /\ JobInv
      /\ {"target", "retired", "failed", "replacement", "rebuild", "draft", "spare"} = Paths
      /\ \A p \in Paths : ~There(p) => disk[p] = Absent
  BY PathsAre DEF StoreInv, TypeInv, There
<1>2. CASE Restore
  <2>1. Published' = Published
    <3>1. CASE ~There("target") /\ There("retired")
      <4>1. Moved("retired", "target")["target"] = disk["retired"]
        BY <1>1, MovedIs
      <4> QED BY <1>2, <3>1, <4>1 DEF Restore, Published, Target, There
    <3>2. CASE ~(~There("target") /\ There("retired"))
      BY <1>2, <3>2 DEF Restore, Published, Target, There
    <3> QED BY <3>1, <3>2
  <2> QED BY <1>2, <2>1, Stutters DEF Restore, Go, Open
<1>3. CASE SweepLeftovers
  <2>1. PICK gone \in SUBSET {"rebuild", "failed"} : disk' = Removed(gone)
    BY <1>3 DEF SweepLeftovers
  <2>2. disk'["target"] = disk["target"] /\ disk'["retired"] = disk["retired"]
    <3>1. gone \in SUBSET Paths /\ {"target", "retired"} \subseteq Paths \ gone
      BY DEF Paths
    <3> QED BY <1>1, <2>1, <3>1, RemovedIs
  <2>3. job.action = "none" /\ job'.action = "none"
    <3>1. job.action = "none" /\ TypeInv
      BY <1>1, <1>3 DEF SweepLeftovers, JobInv, Early, StoreInv
    <3>2. job' = [job EXCEPT !.result = "failed"] \/ \E b \in BOOLEAN : job' = [job EXCEPT !.untidy = b]
      BY <1>3 DEF SweepLeftovers
    <3> QED BY <3>1, <3>2, ResultIs, UntidyIs DEF SameJob
  <2> QED BY <1>3, <2>2, <2>3, PublishedFrom, Stutters DEF SweepLeftovers, Open
<1>4. CASE Branches
  <2>1. Published' = Published
    <3>1. CASE disk' = disk
      BY <3>1, PublishedFrom
    <3>2. CASE disk' = [disk EXCEPT !["target"].branch = Nothing]
      BY <1>1, <3>2, UnbranchedIs, PublishedFrom
    <3> QED BY <1>4, <3>1, <3>2 DEF Branches
  <2>2. job.action = "none" /\ job'.action = "none"
    <3>1. job.action = "none" /\ TypeInv
      BY <1>1, <1>4 DEF Branches, JobInv, Early, StoreInv
    <3> QED BY <1>4, <3>1, UntidyIs DEF Branches
  <2> QED BY <1>4, <2>1, <2>2, Stutters DEF Branches, Open
<1>5. CASE disk' = Collected /\ UNCHANGED found /\ (Open' <=> Open)
  BY <1>1, <1>5, CollectedSame, SameStoresPublished, Stutters
<1>6. CASE UNCHANGED <<disk, found>> /\ (Open' <=> Open)
  BY <1>6, PublishedFrom, Stutters
<1>7. CASE Pending
  <2>1. ~Open /\ ~Open' /\ UNCHANGED found
    BY <1>7 DEF Pending, Go, Open
  <2> QED BY <1>5, <1>6, <1>7, <2>1 DEF Pending, CollectIfDue
<1>8. CASE HourPasses
  <2>1. disk' = [p \in Paths |-> [disk[p] EXCEPT !.waste = {[w EXCEPT !.old = TRUE] : w \in @}]]
        /\ UNCHANGED <<pc, job, found>>
    BY <1>8 DEF HourPasses
  <2>2. \A p \in Paths : disk'[p].there = disk[p].there /\ disk'[p].data = disk[p].data
    <3> SUFFICES ASSUME NEW p \in Paths PROVE disk'[p].there = disk[p].there /\ disk'[p].data = disk[p].data
      OBVIOUS
    <3>1. disk[p] \in Stores
      BY <1>1
    <3> QED BY <2>1, <3>1 DEF Stores
  <2> QED BY <1>1, <2>1, <2>2, PublishedFrom, Stutters DEF Open
<1>9. CASE RemoveRebuilds
  <2>1. disk'["target"] = disk["target"] /\ disk'["retired"] = disk["retired"]
    BY <1>1, <1>9, RemovedIs DEF RemoveRebuilds
  <2> QED BY <1>9, <2>1, PublishedFrom, Stutters DEF RemoveRebuilds, Open
<1>10. CASE CollectPending
  <2>1. (Open' <=> Open) /\ UNCHANGED found /\ disk' \in {disk, Collected}
    BY <1>10 DEF CollectPending, CollectIfDue, Open
  <2> QED BY <1>5, <1>6, <2>1
<1>11. CASE Collect \/ Mark
  <2>1. UNCHANGED <<found, job.action>> /\ disk' \in {disk, Collected} /\ pc \in Clearing
        /\ (job.action = "none" \/ pc' \in {"mark", "release"})
    BY <1>11 DEF Collect, Mark, Go, Clearing, StoreInv, TypeInv, Jobs
  <2>2. Open' <=> Open
    BY <2>1 DEF Open, Clearing
  <2> QED BY <1>5, <1>6, <2>1, <2>2
<1>12. CASE Cancel \/ UNCHANGED storeVars
  <2>1. UNCHANGED <<disk, found, pc, job>>
    BY <1>12 DEF Cancel, storeVars
  <2>2. Open' <=> Open
    BY <2>1 DEF Open
  <2> QED BY <1>6, <2>1, <2>2
<1>13. CASE \E r \in Requests : Request(r)
  <2>1. UNCHANGED <<disk, found>> /\ (Open' <=> Open)
    BY <1>13 DEF Request, Go, Open
  <2> QED BY <1>6, <2>1
<1>14. CASE Killed
  <2>1. UNCHANGED <<disk, found>> /\ ~Open'
    BY <1>14 DEF Killed, Go, Open
  <2>2. Published' = Published
    BY <2>1, PublishedFrom
  <2> QED BY <2>1, <2>2, Ends, Stutters
<1>15. CASE Release
  <2>1. disk'["target"] = disk["target"] /\ disk'["retired"] = disk["retired"]
    BY <1>1, <1>15, RemovedIs DEF Release
  <2>2. Published' = Published /\ ~Open' /\ UNCHANGED found
    BY <1>15, <2>1, PublishedFrom DEF Release, Go, Open
  <2> QED BY <2>2, Ends, Stutters
<1> QED BY <1>2, <1>3, <1>4, <1>7, <1>8, <1>9, <1>10, <1>11, <1>12, <1>13, <1>14, <1>15 DEF Recovery, Maintenance

LEMMA PlanOpens == ASSUME StoreInv, Plan PROVE LedgerStep
<1>1. pc = "plan" /\ UNCHANGED <<asked, marker, records, bounds>>
  BY PlanCases
<1>2. PICK from \in Periods, to \in Periods, first \in Periods, last \in Periods :
          \/ Whole(from, to, first, last, "rematerialize")
          \/ Whole(from, to, first, last, "append") /\ Target.data.periods = <<>>
          \/ Target.data.periods # <<>> /\ Forward(first, last)
          \/ Refuse
  BY PlanCases
<1>3. /\ TypeInv /\ DiskInv /\ disk \in [Paths -> Stores] /\ disk["target"] \in Stores
      /\ (~There("target") => disk["target"].data = Nothing) /\ job.action = "none"
      /\ (~There("retired") => disk["retired"] = Absent) /\ "target" \in Paths /\ "retired" \in Paths
      /\ "replacement" \in Paths
  BY <1>1, PlanIs DEF DiskInv, Paths
<1>4. Published = disk["target"].data
  <2>1. There("target") \/ ~There("retired")
    BY <1>1 DEF StoreInv, EarlyInv, Unplanned, Early
  <2> QED BY <1>3, <2>1, AbsentIs DEF Published, Target
<1>5. CASE Refuse
  <2>1. UNCHANGED <<disk, found>> /\ job'.action = "none"
    BY <1>3, <1>5, ResultIs DEF Refuse, SameJob
  <2> QED BY <1>1, <1>3, <2>1, PublishedFrom, Stutters DEF Open
<1>6. ASSUME NEW a \in {"no_op", "append", "rematerialize"}, NEW p \in {"target", "replacement"}, Planned(a, p),
             pc' \in {"known", "branch", "fetch"}, disk'["target"].data = disk["target"].data,
             disk'["target"].there \/ disk' = disk
      PROVE LedgerStep
  <2>1. found' = disk["target"].data /\ job'.action = a
    BY <1>3, <1>6, PlannedIs
  <2>2. Open'
    BY <1>6, <2>1 DEF Open
  <2>3. Published' = Published
    BY <1>4, <1>6, PublishedFrom DEF Published, Target, There
  <2> QED BY <1>4, <2>1, <2>2, <2>3, Begins
<1>7. CASE Forward(first, last)
  BY <1>5, <1>6, <1>7 DEF Forward, Go
<1>8. ASSUME NEW a \in {"append", "rematerialize"}, Whole(from, to, first, last, a) PROVE LedgerStep
  <2> DEFINE beside == There("target") /\ a = "rematerialize"
             path   == IF beside THEN "replacement" ELSE "target"
  <2>1. CASE /\ Planned(a, path) /\ pc' = "fetch"
             /\ disk' = [disk EXCEPT ![path] = IF There(path) /\ ~beside THEN @ ELSE Empty]
    <3>1. CASE beside
      <4>1. disk'["target"] = disk["target"] /\ There("target")
        BY <1>3, <2>1, <3>1
      <4> QED BY <1>6, <2>1, <3>1, <4>1 DEF There
    <3>2. CASE ~beside
      <4>1. disk'["target"] = IF There("target") THEN disk["target"] ELSE Empty
        BY <1>3, <2>1, <3>2
      <4>2. disk'["target"].there /\ disk'["target"].data = disk["target"].data
        BY <1>3, <4>1, AbsentIs DEF There
      <4>3. Planned(a, "target") /\ "target" \in {"target", "replacement"} /\ a \in {"no_op", "append", "rematerialize"}
        BY <2>1, <3>2
      <4> QED BY <1>6, <2>1, <4>2, <4>3
    <3> QED BY <3>1, <3>2
  <2> QED BY <1>5, <1>8, <2>1 DEF Whole, Go
<1> QED BY <1>2, <1>5, <1>7, <1>8

LEMMA CommitExtends == ASSUME StoreInv, CommitPeriod PROVE LedgerStep
<1> DEFINE p == job.path
           d == disk[p].data
<1>1. /\ pc = "fetch" /\ Running /\ UNCHANGED <<pc, job, found>> /\ p \in {"target", "replacement"} /\ p \in Paths
      /\ "target" \in Paths /\ disk \in [Paths -> Stores] /\ "retired" \in Paths
      /\ found \in Data /\ DiskInv /\ TypeInv /\ StreamInv
  BY DEF CommitPeriod, Running, StoreInv, TypeInv, DiskInv, Jobs, Paths
<1>2. There("target") /\ Open /\ Open'
  <2>1. There("target")
    BY <1>1 DEF StoreInv, UpdateInv, Updating, OldPlace, Swapped, OldInv
  <2>2. job.action # "none"
    BY <1>1 DEF StoreInv, JobInv, Updating
  <2> QED BY <1>1, <2>1, <2>2 DEF Open
<1>3. CASE disk' = disk
  BY <1>1, <1>2, <1>3, PublishedFrom, Stutters
<1>4. ASSUME NEW i \in Ready, Committed(i), NEW more,
             more = [periods |-> Append(d.periods, stream.window[i].period),
                     version |-> IF d = Nothing THEN ingests ELSE d.version],
             disk' = [disk EXCEPT ![p] = [disk[p] EXCEPT !.data = more]]
      PROVE LedgerStep
  <2>1. CASE p = "replacement"
    <3>1. disk'["target"] = disk["target"] /\ disk'["retired"] = disk["retired"]
      BY <1>1, <1>4, <2>1
    <3> QED BY <1>1, <1>2, <3>1, PublishedFrom, Stutters
  <2>2. CASE p = "target"
    <3>1. PICK n \in 1..MaxPeriod + 1 : Lined(n) /\ Continues(n, d.periods)
      BY <1>1 DEF StreamInv
    <3>2. i = 1 /\ stream.window[1].period = n /\ n \in Periods
      BY <1>1, <1>4, <3>1, CommittedIs
    <3>3. d \in Data /\ ingests \in 1..MaxIngests /\ disk[p] \in Stores
      BY <1>1, PathsAre DEF StoreInv, JobInv, DiskInv
    <3>4. /\ more \in Data /\ Len(more.periods) = Len(d.periods) + 1
          /\ \A k \in 1..Len(d.periods) : more.periods[k] = d.periods[k]
      <4>1. more = [periods |-> Append(d.periods, n), version |-> IF d = Nothing THEN ingests ELSE d.version]
        BY <1>4, <3>2
      <4> HIDE DEF d
      <4> QED BY <3>1, <3>2, <3>3, <4>1, MoreIs
    <3>5. more.version = d.version \/ d = Nothing
      BY <1>4
    <3>6. disk'["target"].there /\ disk'["target"].data = more
      <4> DEFINE s == [disk[p] EXCEPT !.data = more]
      <4>1. s.there = disk[p].there /\ s.data = more
        BY <3>3 DEF Stores
      <4>2. disk'["target"] = s
        BY <1>1, <1>4, <2>2
      <4> HIDE DEF s
      <4> QED BY <1>2, <2>2, <4>1, <4>2 DEF There
    <3>7. Published = d /\ Published' = more
      BY <1>2, <2>2, <3>6 DEF Published, Target, There
    <3> HIDE DEF d
    <3> QED BY <1>1, <1>2, <3>3, <3>4, <3>5, <3>7, Extends
  <2> QED BY <1>1, <2>1, <2>2
<1> QED
  <2>1. \/ disk' = disk
        \/ \E i \in Ready : Committed(i) /\
              disk' = [disk EXCEPT ![p].data = [periods |-> Append(@.periods, stream.window[i].period),
                                                version |-> IF @ = Nothing THEN ingests ELSE @.version]]
    BY DEF CommitPeriod
  <2>2. ASSUME NEW i \in Ready, Committed(i),
               disk' = [disk EXCEPT ![p].data = [periods |-> Append(@.periods, stream.window[i].period),
                                                 version |-> IF @ = Nothing THEN ingests ELSE @.version]]
        PROVE LedgerStep
    <3> DEFINE more == [periods |-> Append(d.periods, stream.window[i].period),
                        version |-> IF d = Nothing THEN ingests ELSE d.version]
    <3>1. disk' = [disk EXCEPT ![p] = [disk[p] EXCEPT !.data = more]]
      BY <2>2
    <3>2. \E m : m = more
      OBVIOUS
    <3> QED BY <1>4, <2>2, <3>1, <3>2
  <2> QED BY <1>3, <2>1, <2>2

LEMMA StaysOpen ==
    ASSUME StoreInv, pc \in Updating \cup {"finalize", "unbranch"},
           pc' \in Updating \cup {"finalize", "unbranch", "release", "collect"}, job'.action = job.action
    PROVE  Open /\ Open'
  BY DEF StoreInv, JobInv, Updating, Open

\* What moves nothing at the store's place or beside it.
LEMMA InPlaceSteps ==
    ASSUME StoreInv, \/ Known \/ Branch \/ Fetch \/ Fetched \/ Normalize \/ Exchange \/ Install \/ Register \/ Finalize
                     \/ Unwind \/ Reject \/ Unbranch
    PROVE  LedgerStep
<1>1. /\ DiskInv /\ TypeInv /\ found \in Data /\ disk \in [Paths -> Stores] /\ job \in Jobs
      /\ {"target", "retired", "failed", "replacement", "rebuild", "draft", "spare"} = Paths
      /\ disk["target"] \in Stores
  BY PathsAre DEF StoreInv, TypeInv, Paths
<1>2. ASSUME pc \in Updating \cup {"finalize", "unbranch"},
             pc' \in Updating \cup {"finalize", "unbranch", "release", "collect"}, job'.action = job.action,
             UNCHANGED found, Published' = Published
      PROVE  LedgerStep
  BY <1>2, StaysOpen, Stutters
<1>3. CASE Known \/ Fetch \/ Fetched \/ Register \/ Unwind
  <2>1. /\ pc \in Updating \cup {"finalize", "unbranch"} /\ UNCHANGED <<disk, found>>
        /\ pc' \in Updating \cup {"finalize", "unbranch", "release", "collect"}
    BY <1>3 DEF Known, Fetch, Fetched, Register, Unwind, Go, Updating
  <2>2. job'.action = job.action
    BY <1>1, <1>3 DEF Known, Fetch, Fetched, Register, Unwind, Jobs
  <2> QED BY <1>2, <2>1, <2>2, PublishedFrom
<1>4. CASE Branch
  <2>1. /\ disk'["target"].there = disk["target"].there /\ disk'["target"].data = disk["target"].data
        /\ disk'["retired"] = disk["retired"]
    <3> DEFINE s == [disk["target"] EXCEPT !.branch = Target.data]
    <3>1. s.there = disk["target"].there /\ s.data = disk["target"].data
      BY <1>1 DEF Stores
    <3>2. disk' = [disk EXCEPT !["target"] = s]
      BY <1>4 DEF Branch
    <3> HIDE DEF s
    <3> QED BY <1>1, <3>1, <3>2
  <2>2. Published' = Published
    BY <2>1, PublishedFrom
  <2>3. job'.action = job.action
    BY <1>1, <1>4 DEF Branch, Jobs
  <2> QED BY <1>2, <1>4, <2>2, <2>3 DEF Branch, Go, Updating
<1>5. CASE Normalize
  <2>1. Published' = Published
    <3>d. Draft \in Paths \ {"target", "retired"} /\ {Draft} \in SUBSET Paths
      BY DEF Draft, Paths
    <3>1. CASE disk' = disk
      BY <3>1, PublishedFrom
    <3>2. CASE disk' = [disk EXCEPT ![Draft] = [Empty EXCEPT !.data = disk[job.path].data]]
      <4>1. disk'["target"] = disk["target"] /\ disk'["retired"] = disk["retired"]
        BY <1>1, <3>d, <3>2
      <4> QED BY <4>1, PublishedFrom
    <3>3. CASE disk' = Removed({Draft})
      <4>1. disk'["target"] = disk["target"] /\ disk'["retired"] = disk["retired"]
        BY <1>1, <3>d, <3>3, RemovedIs
      <4> QED BY <4>1, PublishedFrom
    <3> QED BY <1>5, <3>1, <3>2, <3>3 DEF Normalize
  <2> QED BY <1>2, <1>5, <2>1 DEF Normalize, Onward, NotNormalized, Go, Updating
<1>9. CASE Exchange \/ Install
  <2>1. disk'["target"] = disk["target"] /\ disk'["retired"] = disk["retired"]
    <3>1. {"draft", "spare", "replacement", "target", "retired"} \subseteq Paths
      BY <1>1
    <3>2. CASE Exchange
      BY <1>1, <3>1, <3>2, MovedIs, RemovedIs DEF Exchange
    <3>3. CASE Install
      <4>1. PICK new \in {"draft", "spare"}, old \in {"draft", "spare"} :
                disk' \in {Moved(new, "replacement"), [Moved(new, "replacement") EXCEPT ![old] = Absent]}
        BY <3>3 DEF Install
      <4> QED BY <1>1, <3>1, <4>1, MovedIs
    <3> QED BY <1>9, <3>2, <3>3
  <2>2. Published' = Published
    BY <2>1, PublishedFrom
  <2> QED BY <1>2, <1>9, <2>2 DEF Exchange, Install, Onward, NotNormalized, Go, Updating
<1>6. CASE Finalize
  <2>1. Published' = Published
    <3>1. There("target")
      BY <1>6 DEF Finalize, StoreInv, EndInv, Ending, JobInv
    <3>2. disk'["target"] = disk["target"]
      BY <1>1, <1>6, RemovedIs DEF Finalize
    <3> QED BY <3>1, <3>2 DEF Published, Target, There
  <2> QED BY <1>2, <1>6, <2>1 DEF Finalize, Go
<1>7. CASE Reject
  <2>1. Published' = Published
    <3>1. disk'["target"] = disk["target"] /\ disk'["retired"] = disk["retired"]
      BY <1>1, <1>7, RemovedIs DEF Reject
    <3> QED BY <3>1, PublishedFrom
  <2>2. job'.action = job.action
    BY <1>1, <1>7 DEF Reject, Broken, Jobs
  <2> QED BY <1>2, <1>7, <2>1, <2>2 DEF Reject, Broken, Go, Updating
<1>8. CASE Unbranch
  <2>1. Published' = Published
    <3>1. CASE disk' = [disk EXCEPT !["target"].branch = Nothing]
      BY <1>1, <3>1, UnbranchedIs, PublishedFrom
    <3>2. CASE disk' = disk
      BY <3>2, PublishedFrom
    <3> QED BY <1>8, <3>1, <3>2 DEF Unbranch
  <2>2. job'.action = job.action
    BY <1>1, <1>8 DEF Unbranch, Broken, Jobs
  <2> QED BY <1>2, <1>8, <2>1, <2>2 DEF Unbranch, Broken, Go
<1> QED BY <1>3, <1>4, <1>5, <1>6, <1>7, <1>8, <1>9

\* The renames, and the reset of main to what the ingest found.
LEMMA MovingSteps == ASSUME StoreInv, Between, Aside \/ Into \/ Outgoing \/ Incoming \/ Reset PROVE LedgerStep
<1>1. /\ DiskInv /\ TypeInv /\ PlanInv /\ UpdateInv /\ found \in Data /\ disk \in [Paths -> Stores] /\ job \in Jobs
      /\ {"target", "retired", "failed", "replacement", "rebuild", "draft", "spare"} = Paths
      /\ \A p \in Paths : disk[p].data \in Data /\ (~There(p) => disk[p] = Absent)
      /\ ingests \in Nat /\ found.version \in Nat
  BY PathsAre DEF StoreInv, TypeInv, There
<1>2. /\ pc \in {"aside", "into", "outgoing", "incoming", "reset"} /\ UNCHANGED found
      /\ pc' \in Updating \cup {"finalize", "unbranch", "release", "collect"} /\ job'.action = job.action
  BY <1>1 DEF Aside, Into, Outgoing, Incoming, Reset, NotSwapped, PutAsideBack, NotNormalized, Onward, Broken, Go, Updating, Jobs
<1>3. Open /\ Open'
  BY <1>2, StaysOpen DEF Updating
<1>4. /\ OldInv(OldPlace) /\ (HasNew => NewInv(NewPlace))
      /\ (Replacing => found.version < ingests) /\ (pc = "outgoing" => job.swapped) /\ (pc = "reset" => job.branched)
  BY <1>1, <1>2 DEF UpdateInv, Updating, PlanInv
<1>5. ASSUME UNCHANGED Published PROVE LedgerStep
  BY <1>2, <1>3, <1>5, Stutters
\* The new version comes instead of the old one.
<1>6. ASSUME NEW p \in Paths, NEW q \in Paths, Published' = disk[p].data, Published = disk[q].data, Replacing,
             disk[p].data.version = ingests, disk[q].data = found
      PROVE  LedgerStep
  <2>1. disk[p].data \in Data /\ disk[p].data.version > disk[q].data.version /\ disk[p].data # Nothing
    BY <1>1, <1>4, <1>6, NothingIs
  <2> QED BY <1>2, <1>3, <1>6, <2>1, Replaces
<1>7. CASE Aside
  <2>1. OldPlace = "target" /\ There("target")
    BY <1>4, <1>7 DEF Aside, OldPlace, Swapped, OldInv
  <2>2. CASE disk' = Moved("target", "retired")
    <3>1. disk'["target"] = Absent /\ disk'["retired"] = disk["target"]
      BY <1>1, <2>2, MovedIs
    <3> QED BY <1>5, <2>1, <3>1, AbsentIs DEF Published, Target, There
  <2>3. CASE disk' = disk
    BY <1>5, <2>3, PublishedFrom
  <2>4. CASE disk' = Removed({"rebuild"})
    <3>1. disk'["target"] = disk["target"] /\ disk'["retired"] = disk["retired"]
      BY <1>1, <2>4, RemovedIs
    <3> QED BY <1>5, <3>1, PublishedFrom
  <2> QED BY <1>7, <2>2, <2>3, <2>4 DEF Aside, NotSwapped
<1>8. CASE Into
  <2>1. /\ OldPlace = "retired" /\ NewPlace = Staging /\ There("retired") /\ There(Staging) /\ ~There("target")
        /\ (Replacing => disk["retired"].data = found /\ disk[Staging].data.version = ingests)
        /\ (~Replacing => disk[Staging].data = disk["retired"].data)
        /\ Staging \in {"replacement", "rebuild"} /\ Staging \in Paths
    <3>1. pc = "into"
      BY <1>8 DEF Into
    <3>2. OldPlace = "retired" /\ NewPlace = Staging /\ HasNew
      BY <3>1 DEF OldPlace, NewPlace, HasNew, Swapped
    <3>3. Staging \in {"replacement", "rebuild"} /\ Staging \in Paths
      BY DEF Staging, Paths
    <3>4. OldInv("retired") /\ NewInv(Staging)
      BY <1>4, <3>2
    <3> QED BY <3>1, <3>2, <3>3, <3>4 DEF OldInv, NewInv, Between
  <2>2. Published = disk["retired"].data
    BY <2>1 DEF Published
  <2>3. CASE disk' \in {Moved(Staging, "target"), [Moved(Staging, "target") EXCEPT !["retired"] = Absent]}
    <3>1. Moved(Staging, "target") \in [Paths -> Stores] /\ Moved(Staging, "target")["target"] = disk[Staging]
      BY <1>1, <2>1, MovedIs
    <3>2. disk'["target"] = disk[Staging]
      BY <1>1, <2>3, <3>1
    <3>3. Published' = disk[Staging].data
      BY <2>1, <3>2 DEF Published, Target, There
    <3> QED BY <1>1, <1>5, <1>6, <2>1, <2>2, <3>3
  <2>4. CASE PutAsideBack
    <3>1. Moved("retired", "target") \in [Paths -> Stores] /\ Moved("retired", "target")["target"] = disk["retired"]
      BY <1>1, MovedIs
    <3>2. disk'["target"] = disk["retired"]
      BY <1>1, <2>4, <3>1 DEF PutAsideBack
    <3>3. Published' = disk["retired"].data
      BY <2>1, <3>2 DEF Published, Target, There
    <3> QED BY <1>5, <2>2, <3>3
  <2> QED BY <1>8, <2>3, <2>4 DEF Into
<1>9. CASE Outgoing
  <2>1. /\ There("target") /\ (Replacing => disk["retired"].data = found)
        /\ (~Replacing => disk["target"].data = disk["retired"].data)
    <3>1. OldPlace = "retired" /\ NewPlace = "target" /\ HasNew
      BY <1>4, <1>9 DEF Outgoing, OldPlace, NewPlace, HasNew, Swapped
    <3>2. OldInv("retired") /\ NewInv("target")
      BY <1>4, <3>1
    <3> QED BY <3>1, <3>2 DEF OldInv, NewInv
  <2>2. CASE disk' = disk
    BY <1>5, <2>2, PublishedFrom
  <2>3. CASE disk' = Moved("target", "failed")
    <3>1. disk'["target"] = Absent /\ disk'["retired"] = disk["retired"]
      <4>1. "target" \in Paths /\ "failed" \in Paths /\ "retired" \in Paths \ {"target", "failed"}
        BY DEF Paths
      <4> QED BY <1>1, <2>3, <4>1, MovedIs
    <3>2. Published = disk["target"].data /\ Published' = disk["retired"].data
      BY <2>1, <3>1, AbsentIs DEF Published, Target, There
    <3> QED BY <1>2, <1>3, <1>5, <2>1, <3>2, PutsBack
  <2> QED BY <1>9, <2>2, <2>3 DEF Outgoing
<1>10. CASE Incoming
  <2>1. /\ ~There("target") /\ There("retired") /\ There("failed") /\ (Replacing => disk["retired"].data = found)
        /\ (Replacing => disk["failed"].data.version = ingests)
        /\ (~Replacing => disk["failed"].data = disk["retired"].data)
    <3>1. pc = "incoming"
      BY <1>10 DEF Incoming
    <3>2. OldPlace = "retired" /\ NewPlace = "failed" /\ HasNew
      BY <3>1 DEF OldPlace, NewPlace, HasNew, Swapped
    <3>3. OldInv("retired") /\ NewInv("failed")
      BY <1>4, <3>2
    <3> QED BY <3>1, <3>2, <3>3 DEF OldInv, NewInv, Between
  <2>2. Published = disk["retired"].data
    BY <2>1 DEF Published
  <2>3. CASE disk' = Moved("retired", "target")
    <3>1. disk'["target"] = disk["retired"]
      BY <1>1, <2>3, MovedIs
    <3> QED BY <1>5, <2>1, <2>2, <3>1 DEF Published, Target, There
  <2>4. CASE disk' = Moved("failed", "target")
    <3>1. disk'["target"] = disk["failed"]
      BY <1>1, <2>4, MovedIs
    <3>2. Published' = disk["failed"].data
      BY <2>1, <3>1 DEF Published, Target, There
    <3> QED BY <1>1, <1>5, <1>6, <2>1, <2>2, <3>2
  <2> QED BY <1>10, <2>3, <2>4 DEF Incoming
<1>11. CASE Reset
  <2>1. There("target") /\ disk["target"].branch = found /\ ingests \in 1..MaxIngests
    BY <1>1, <1>4, <1>11 DEF Reset, OldPlace, Swapped, OldInv, StoreInv, JobInv, DiskInv
  <2>2. CASE disk' = disk
    BY <1>5, <2>2, PublishedFrom
  <2>3. CASE disk' = [disk EXCEPT !["target"].data = Target.branch,
                                  !["target"].waste = @ \cup {[of |-> ingests, old |-> FALSE]}]
    <3>1. disk'["target"].data = disk["target"].branch /\ disk'["target"].there = disk["target"].there
      BY <1>1, <2>1, <2>3, ResetIs
    <3>2. Published' = found
      BY <2>1, <3>1 DEF Published, Target, There
    <3> QED BY <1>2, <1>3, <3>2, PutsBack
  <2> QED BY <1>11, <2>2, <2>3 DEF Reset
<1> QED BY <1>7, <1>8, <1>9, <1>10, <1>11

LEMMA LedgerSteps == StoreInv /\ Between /\ [StoreNext]_storeVars => LedgerStep
<1> SUFFICES ASSUME StoreInv, Between, [StoreNext]_storeVars PROVE LedgerStep
  OBVIOUS
<1>1. CASE Recovery \/ HourPasses \/ Maintenance \/ Cancel \/ Killed \/ UNCHANGED storeVars \/ \E r \in Requests : Request(r)
  BY <1>1, AroundSteps
<1>2. CASE Ingest
  BY <1>2, PlanOpens, CommitExtends, InPlaceSteps, MovingSteps DEF Ingest
<1>3. CASE Rollback
  BY <1>3, AroundSteps, InPlaceSteps, MovingSteps DEF Rollback
<1> QED BY <1>1, <1>2, <1>3 DEF StoreNext, Progress

LEMMA LedgerInit == StoreInit => Ledger!Init /\ Between
  BY AbsentIs DEF StoreInit, Ledger!Init, Published, There, Target, Paths, Between, Ledger!Nothing, Nothing

(* Through appends, rebuilds and replacements, every kill between their       *)
(* renames and every failed step and rollback, the published data only grows, *)
(* is replaced whole, or is put back as it was found (services.py:1801-1817   *)
(* and :1599-1620).                                                           *)
THEOREM KeepsPublishedHolds == StoreSpec => KeepsPublished
<1>1. StoreInit => Ledger!Init /\ Between
  BY LedgerInit
<1>2. StoreInv /\ Between /\ [StoreNext]_storeVars => Between' /\ LedgerStep
  BY BetweenInv, LedgerSteps
<1>3. LedgerStep <=> [Ledger!Next]_(Ledger!vars)
  BY DEF LedgerStep
<1> HIDE DEF LedgerStep
<1> QED BY <1>1, <1>2, <1>3, StoreInductive, PTL DEF StoreSpec, KeepsPublished, Ledger!Spec

(* Every variable of the store has its type, wherever an ingest is.           *)
THEOREM StoreTypesHold == StoreSpec => []StoreTypeOK
<1>1. StoreInit => Between
  BY LedgerInit
<1>2. StoreInv /\ Between /\ [StoreNext]_storeVars => Between'
  BY BetweenInv
<1>3. StoreInv /\ Between => StoreTypeOK
  BY StoreTypesOf
<1> QED BY <1>1, <1>2, <1>3, StoreInductive, PTL DEF StoreSpec
-----------------------------------------------------------------------------
(* The exports and the runs' module: every variable keeps its type.          *)

Entry(e) == e.method \in Reducers /\ e.counted \in BOOLEAN

\* Nothing is known of the labels of an entry but that there are some.
EvidenceInv == \E T : evidence \in Seq(T) /\ \A e \in T : Entry(e)

ExportInv ==
    /\ loaded = NoLoad => cube = [stamps |-> {}, empty |-> {}, cadence |-> Unknowable, sound |-> TRUE]
    /\ loaded \in Loads \cup {NoLoad}
    /\ cube.empty \subseteq cube.stamps /\ cube.cadence \in Cadences \cup {Unknowable}
    /\ export.state \in {"working", "refused", "saved", "trimmed"}
    /\ EvidenceInv

LEMMA EvidenceGrows ==
    ASSUME EvidenceInv, NEW e, Entry(e), evidence' = Append(evidence, e) PROVE EvidenceInv'
<1>1. PICK T : evidence \in Seq(T) /\ \A x \in T : Entry(x)
  BY DEF EvidenceInv
<1> DEFINE U == T \cup {e}
<1>2. evidence \in Seq(U)
  BY <1>1, SeqDef
<1>3. e \in U /\ \A x \in U : Entry(x)
  BY <1>1
<1> HIDE DEF U
<1>4. Append(evidence, e) \in Seq(U)
  BY ONLY <1>2, <1>3, AppendProperties
<1>5. evidence' \in Seq(U)
  BY <1>4
<1>6. \A x \in U : Entry(x)'
  BY <1>3 DEF Entry
<1> QED BY <1>5, <1>6 DEF EvidenceInv

LEMMA EvidenceStays == ASSUME EvidenceInv, evidence' = evidence PROVE EvidenceInv'
  BY DEF EvidenceInv, Entry

LEMMA ExportInitInv == ExportInit => ExportInv
<1> SUFFICES ASSUME ExportInit PROVE ExportInv
  OBVIOUS
<1>1. EvidenceInv
  <2>1. evidence \in Seq({}) /\ \A e \in {} : Entry(e)
    BY DEF ExportInit
  <2> QED BY <2>1 DEF EvidenceInv
<1> QED BY <1>1 DEF ExportInit, ExportInv

LEMMA LoadInv == ASSUME ExportInv, NEW l \in Loads, Load(l) PROVE ExportInv'
<1>1. EvidenceInv'
  BY EvidenceStays DEF ExportInv, Load
<1>2. l.cadence \in Countable /\ l.stamps # {}
  BY ExportAssumption
<1> DEFINE c == IF l.carried THEN l.cadence ELSE Unknowable
<1>3. cube' = [stamps |-> l.stamps, empty |-> {}, cadence |-> c, sound |-> TRUE]
  <2> HIDE DEF c
  <2>1. cube = [stamps |-> {}, empty |-> {}, cadence |-> Unknowable, sound |-> TRUE]
    BY DEF ExportInv, Load
  <2>2. cube' = [cube EXCEPT !.stamps = l.stamps, !.cadence = c]
    BY DEF Load, c
  <2> QED BY <2>1, <2>2
<1>4. loaded' # NoLoad
  BY <1>2 DEF Load, NoLoad
<1> QED BY <1>1, <1>2, <1>3, <1>4 DEF ExportInv, Load, Countable, Cadences

LEMMA AggregateInv ==
    ASSUME ExportInv, NEW period \in OpenEOPeriods, NEW method \in Reducers, Aggregate(period, method)
    PROVE ExportInv'
<1> DEFINE counts == /\ CadenceOf(period) # Unknowable /\ Source # Unknowable
                     /\ (Source = CadenceOf(period) \/ Source \in Countable)
           told == IF counts THEN Told(Source, CadenceOf(period)) ELSE {}
           entry == [period |-> CadenceOf(period), method |-> method, incomplete |-> told, counted |-> counts]
<1>1. evidence' = Append(evidence, entry)
  BY DEF Aggregate, Evidence
<1>2. Entry(entry)
  <2>1. counts \in BOOLEAN
    OBVIOUS
  <2> QED BY <2>1 DEF Entry
<1>3. EvidenceInv'
  <2> HIDE DEF entry
  <2> QED BY <1>1, <1>2, EvidenceGrows DEF ExportInv
<1>4. cube'.empty \subseteq cube'.stamps /\ cube'.cadence = CadenceOf(period)
  BY DEF Aggregate
<1>5. CadenceOf(period) \in Cadences \cup {Unknowable}
  BY DEF OpenEOPeriods, CadenceOf, Cadences, Unknowable
<1>6. loaded' = loaded /\ loaded # NoLoad /\ export' = export
  BY DEF Aggregate, Working
<1> QED BY <1>3, <1>4, <1>5, <1>6 DEF ExportInv

LEMMA AggregateDekadsInv ==
    ASSUME ExportInv, NEW period \in {"weekly", "monthly"}, NEW method \in Reducers, AggregateDekads(period, method)
    PROVE ExportInv'
<1>1. PICK short : evidence' = Append(evidence, [period |-> period, method |-> method, incomplete |-> short, counted |-> TRUE])
  BY DEF AggregateDekads, Evidence
<1>2. EvidenceInv'
  <2> DEFINE entry == [period |-> period, method |-> method, incomplete |-> short, counted |-> TRUE]
  <2>1. Entry(entry)
    BY DEF Entry
  <2>2. evidence' = Append(evidence, entry)
    BY <1>1
  <2> HIDE DEF entry
  <2> QED BY <2>1, <2>2, EvidenceGrows DEF ExportInv
<1>3. cube'.empty \subseteq cube'.stamps /\ cube'.cadence = period
  BY DEF AggregateDekads
<1>4. period \in Cadences
  BY DEF Cadences
<1>5. loaded' = loaded /\ loaded # NoLoad /\ export' = export
  BY DEF AggregateDekads, Working
<1> QED BY <1>2, <1>3, <1>4, <1>5 DEF ExportInv

LEMMA SaveInv == ASSUME ExportInv, NEW e \in Exports, Save(e) PROVE ExportInv'
<1>1. loaded' = loaded /\ cube' = cube /\ evidence' = evidence
  BY DEF Save
<1>2. export'.state \in {"refused", "saved", "trimmed"}
  BY DEF Save
<1>3. EvidenceInv'
  BY <1>1, EvidenceStays DEF ExportInv
<1> QED BY <1>1, <1>2, <1>3 DEF ExportInv

LEMMA ExportNextInv == ExportInv /\ [ExportNext]_exportVars => ExportInv'
<1> SUFFICES ASSUME ExportInv, [ExportNext]_exportVars PROVE ExportInv'
  OBVIOUS
<1>1. CASE UNCHANGED exportVars
  <2>1. EvidenceInv'
    BY <1>1, EvidenceStays DEF ExportInv, exportVars
  <2> QED BY <1>1, <2>1 DEF ExportInv, exportVars
<1> QED BY <1>1, LoadInv, AggregateInv, AggregateDekadsInv, SaveInv DEF ExportNext

LEMMA ExportTypesOf == ExportInv => ExportTypeOK
<1> SUFFICES ASSUME ExportInv PROVE ExportTypeOK
  OBVIOUS
<1>1. loaded.carried \in BOOLEAN /\ (loaded.stamps # {} => loaded.cadence \in Countable)
  <2>1. CASE loaded = NoLoad
    BY <2>1 DEF NoLoad
  <2>2. CASE loaded \in Loads
    BY <2>2, ExportAssumption
  <2> QED BY <2>1, <2>2 DEF ExportInv
<1>2. PICK T : evidence \in Seq(T) /\ \A e \in T : Entry(e)
  BY DEF ExportInv, EvidenceInv
<1>3. \A i \in 1..Len(evidence) : evidence[i] \in T
  BY <1>2
<1>4. \A entry \in Entries : entry.method \in Reducers /\ entry.counted \in BOOLEAN
  BY <1>2, <1>3 DEF Entries, Entry
<1> QED BY <1>1, <1>4 DEF ExportInv, ExportTypeOK

(* Every variable of the store, of the index and of an export has its type,   *)
(* however they are used side by side.                                        *)
THEOREM MCTypesHold == MCSpec => []MCTypeOK
<1> DEFINE Inv == StoreInv /\ Between /\ IndexInv /\ ExportInv
<1>1. MCInit => Inv
  BY StoreInitInv, LedgerInit, IndexInitInv, ExportInitInv DEF MCInit
<1>2. Inv /\ [MCNext]_mcVars => Inv'
  <2> SUFFICES ASSUME Inv, [MCNext]_mcVars PROVE Inv'
    OBVIOUS
  <2>1. [StoreNext]_storeVars /\ [IndexNext]_indexVars /\ [ExportNext]_exportVars
    <3>1. CASE UNCHANGED mcVars
      BY <3>1 DEF mcVars
    <3>2. CASE MCNext
      BY <3>2 DEF MCNext
    <3> QED BY <3>1, <3>2
  <2> QED BY <2>1, StoreNextInv, BetweenInv, IndexNextInv, ExportNextInv
<1>3. Inv => MCTypeOK
  BY StoreTypesOf, ExportTypesOf DEF IndexInv, MCTypeOK
<1> HIDE DEF Inv
<1> QED BY <1>1, <1>2, <1>3, PTL DEF MCSpec

=============================================================================
