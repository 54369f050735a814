------------------------------ MODULE RecordIndex ------------------------------
(***************************************************************************)
(* A JSON index shared by threads and processes, in the three ways the     *)
(* code keeps one:                                                         *)
(*   replaced   jobs/store.py over shared/persistence.py: everything under *)
(*              a lock file beside it, and the file replaced whole;        *)
(*   shared     openeo/jobs.py, openeo/workflows.py: created without the   *)
(*              lock, read under a shared one, written in place;           *)
(*   open       ingestions/services.py: created and read without the lock, *)
(*              truncated and written in place, and cached by what stat    *)
(*              says of the file and the writes this process made.         *)
(* A thread updates an entry of its own, which every update makes one      *)
(* newer and none makes longer; a process may be killed between any steps. *)
(***************************************************************************)
EXTENDS Naturals, FiniteSets

CONSTANTS
    Users,         \* threads that read and update the index
    Hosts,         \* their processes
    NoOne,
    MaxUpdates,    \* bound: updates in all
    MaxTicks,      \* bound: changes of the clock behind the modification time
    MaxIndexKills  \* bound: kills

ASSUME IndexAssumption ==
    /\ NoOne \notin Users /\ IsFiniteSet(Users)
    /\ MaxUpdates \in Nat /\ MaxTicks \in Nat /\ MaxIndexKills \in Nat

VARIABLES
    kind,     \* how the index is kept
    hostOf,   \* the process of each thread
    index,    \* the file: absent, empty, torn (no JSON) or whole, its entries, its modification time
    guard,    \* the thread that holds the exclusive lock
    calls,    \* per thread: its call, where it is, and what it knows
    caches,   \* per process: what the last lookup kept
    writes,   \* per process: record writes it made
    done,     \* per thread: the update it was last told is stored
    sound,    \* the index was there from the start, and nobody was killed
    updates, ticks, killed    \* bounds

indexVars == <<kind, hostOf, index, guard, calls, caches, writes, done, sound, updates, ticks, killed>>

Contents == [Users -> Nat]
Blank    == [u \in Users |-> 0]
NoKey    == [mtime |-> 0, size |-> 0, writes |-> 0, known |-> FALSE]
Resting  == {"out", "answered", "raised"}
Quiet    == [does |-> "read", at |-> "out", base |-> Blank, got |-> Blank, seen |-> Blank, key |-> NoKey, lacks |-> {}]
NoCache  == [key |-> NoKey, of |-> Blank]

IndexInit ==
    /\ kind \in {"replaced", "shared", "open"} /\ hostOf \in [Users -> Hosts]
    /\ \E s \in {"absent", "whole"} : /\ sound = (s = "whole")
                                      /\ done = [u \in Users |-> IF sound THEN 1 ELSE 0]
                                      /\ index = [state |-> s, of |-> done, mtime |-> 0]
    /\ guard = NoOne /\ calls = [u \in Users |-> Quiet] /\ caches = [h \in Hosts |-> NoCache]
    /\ writes = [h \in Hosts |-> 0] /\ updates = 0 /\ ticks = 0 /\ killed = 0

Is(u, at)        == calls[u].at = at
Goes(u, at)        == calls' = [calls EXCEPT ![u].at = at]
Raises(u)        == calls' = [calls EXCEPT ![u] = [Quiet EXCEPT !.at = "raised"]]
Holds(s, of)     == index' = [state |-> s, of |-> of, mtime |-> ticks]
OnlyCall         == UNCHANGED <<kind, hostOf, index, guard, caches, writes, done, sound, updates, ticks, killed>>
OnlyCallAndIndex == UNCHANGED <<kind, hostOf, guard, caches, writes, done, sound, updates, ticks, killed>>

Ask(u, what) ==
    /\ calls[u].at \in Resting
    /\ IF what = "update" THEN updates < MaxUpdates /\ updates' = updates + 1 ELSE UNCHANGED updates
    /\ what = "lookup" => kind = "open"
    /\ calls' = [calls EXCEPT ![u] = [Quiet EXCEPT !.does = what, !.seen = done,
                                                   !.at = IF what = "lookup" THEN "stat" ELSE "ensure"]]
    /\ UNCHANGED <<kind, hostOf, index, guard, caches, writes, done, sound, ticks, killed>>

(***************************************************************************)
(* ensure_store.                                                           *)
(***************************************************************************)
EnsureLocked(u) ==
    /\ Is(u, "ensure") /\ kind = "replaced" /\ guard = NoOne
    /\ IF index.state = "absent" THEN Holds("whole", Blank) ELSE UNCHANGED index
    /\ Goes(u, "ready") /\ OnlyCallAndIndex

CheckFile(u) ==
    /\ Is(u, "ensure") /\ kind # "replaced"
    /\ Goes(u, IF index.state = "absent" THEN "create" ELSE "ready") /\ OnlyCall

\* write_text truncates, then writes at the start, whatever others wrote there since.
CreateFile(u) == Is(u, "create") /\ Holds("empty", Blank) /\ Goes(u, "fill") /\ OnlyCallAndIndex

FillFile(u) ==
    /\ Is(u, "fill") /\ Holds(IF index.state = "empty" THEN "whole" ELSE "torn", Blank)
    /\ Goes(u, "ready") /\ OnlyCallAndIndex

(***************************************************************************)
(* An update.                                                              *)
(***************************************************************************)
\* _mutate_records of the artifacts takes an empty file for an empty index.
Readable == index.state = "whole" \/ (kind = "open" /\ index.state = "empty")

\* Mutant: the records are read before the lock is held.
LoadedEarly(u) == calls[u].seen

Loaded(u) == index.of

Lock(u) ==
    /\ Is(u, "ready") /\ calls[u].does = "update" /\ guard = NoOne
    /\ IF Readable THEN /\ guard' = u
                        /\ calls' = [calls EXCEPT ![u].at = "locked", ![u].base = Loaded(u)]
                   ELSE UNCHANGED guard /\ Raises(u)
    /\ UNCHANGED <<kind, hostOf, index, caches, writes, done, sound, updates, ticks, killed>>

Updated(u) == [calls[u].base EXCEPT ![u] = @ + 1]

\* atomic_json: a temporary file, and os.replace.
Replace(u) ==
    /\ Is(u, "locked") /\ kind = "replaced"
    /\ Holds("whole", Updated(u)) /\ Goes(u, "saved") /\ OnlyCallAndIndex

\* In place: the JSON is written over the old one and cut, or the old one is cut first.
Cut == IF kind = "shared" THEN "torn" ELSE "empty"

StartWriting(u) ==
    /\ Is(u, "locked") /\ kind # "replaced"
    /\ Holds(Cut, index.of) /\ Goes(u, "writing") /\ OnlyCallAndIndex

\* Without what someone who created the file wrote in between.
EndWriting(u) ==
    /\ Is(u, "writing")
    /\ IF index.state = Cut THEN Holds("whole", Updated(u)) ELSE Holds("torn", Blank)
    /\ Goes(u, "saved") /\ OnlyCallAndIndex

\* Mutant: a write is not counted.
CountedNever(h) == writes

Counted(h) == [writes EXCEPT ![h] = @ + 1]

UnlockIndex(u) ==
    /\ Is(u, "saved") /\ guard' = NoOne
    /\ writes' = IF kind = "open" THEN Counted(hostOf[u]) ELSE writes
    /\ done' = [done EXCEPT ![u] = calls[u].base[u] + 1]
    /\ calls' = [calls EXCEPT ![u] = Quiet] /\ UNCHANGED <<kind, hostOf, index, caches, sound, updates, ticks, killed>>

(***************************************************************************)
(* A read, and a lookup through the cache.                                 *)
(***************************************************************************)
\* Mutant: a reader of a locked index does not wait for the writer.
MayReadAlways == TRUE

MayRead == kind = "open" \/ guard = NoOne

\* An answer, and whose stored updates it lacks.
AnswerWith(u, of) ==
    [calls EXCEPT ![u] = [Quiet EXCEPT !.does = calls[u].does, !.at = "answered",
                                       !.lacks = {v \in Users : of[v] < calls[u].seen[v]}]]

Read(u) ==
    /\ Is(u, "ready") /\ calls[u].does # "update" /\ MayRead
    /\ IF index.state = "whole"
       THEN calls' = IF calls[u].key.known THEN [calls EXCEPT ![u].got = index.of, ![u].at = "keep"]
                                           ELSE AnswerWith(u, index.of)
       ELSE Raises(u)
    /\ OnlyCall

\* An entry's update does not change its length; a file without them all is shorter.
Size == IF index.state = "whole" THEN Cardinality({u \in Users : index.of[u] > 0}) + 1 ELSE 0

Stat(u) ==
    LET h   == hostOf[u]
        key == [mtime |-> index.mtime, size |-> Size, writes |-> writes[h], known |-> TRUE] IN
    /\ Is(u, "stat")
    /\ calls' = IF index.state = "absent" THEN [calls EXCEPT ![u].at = "ensure"]
                ELSE IF caches[h].key = key
                     THEN AnswerWith(u, caches[h].of)
                     ELSE [calls EXCEPT ![u].at = "ready", ![u].key = key]
    /\ OnlyCall

Keep(u) ==
    /\ Is(u, "keep") /\ calls' = AnswerWith(u, calls[u].got)
    /\ caches' = [caches EXCEPT ![hostOf[u]] = [key |-> calls[u].key, of |-> calls[u].got]]
    /\ UNCHANGED <<kind, hostOf, index, guard, writes, done, sound, updates, ticks, killed>>

(***************************************************************************)
(* The environment.                                                        *)
(***************************************************************************)
KillHost(h) ==
    /\ killed < MaxIndexKills /\ killed' = killed + 1 /\ sound' = FALSE
    /\ calls' = [u \in Users |-> IF hostOf[u] = h THEN Quiet ELSE calls[u]]
    /\ guard' = IF guard # NoOne /\ hostOf[guard] = h THEN NoOne ELSE guard
    /\ caches' = [caches EXCEPT ![h] = NoCache] /\ writes' = [writes EXCEPT ![h] = 0]
    /\ UNCHANGED <<kind, hostOf, index, done, updates, ticks>>

\* Only the cache looks at the file's time.
Tick ==
    /\ kind = "open" /\ ticks < MaxTicks /\ ticks' = ticks + 1
    /\ UNCHANGED <<kind, hostOf, index, guard, calls, caches, writes, done, sound, updates, killed>>

UserStep(u) ==
    \/ \E what \in {"read", "update", "lookup"} : Ask(u, what)
    \/ EnsureLocked(u) \/ CheckFile(u) \/ CreateFile(u) \/ FillFile(u)
    \/ Lock(u) \/ Replace(u) \/ StartWriting(u) \/ EndWriting(u) \/ UnlockIndex(u)
    \/ Read(u) \/ Stat(u) \/ Keep(u)

IndexNext == (\E u \in Users : UserStep(u)) \/ (\E h \in Hosts : KillHost(h)) \/ Tick

IndexSpec == IndexInit /\ [][IndexNext]_indexVars

-----------------------------------------------------------------------------
KeyType == [mtime : Nat, size : Nat, writes : Nat, known : BOOLEAN]
CallType == [does : {"read", "update", "lookup"}, base : Contents, got : Contents, seen : Contents, key : KeyType, lacks : SUBSET Users,
             at : {"out", "answered", "raised", "ensure", "create", "fill", "ready", "locked",
                   "writing", "saved", "stat", "keep"}]

(* Every variable has its type.                                            *)
IndexTypeOK ==
    /\ kind \in {"replaced", "shared", "open"} /\ hostOf \in [Users -> Hosts] /\ guard \in Users \cup {NoOne}
    /\ index \in [state : {"absent", "empty", "torn", "whole"}, of : Contents, mtime : Nat]
    /\ calls \in [Users -> CallType] /\ caches \in [Hosts -> [key : KeyType, of : Contents]]
    /\ writes \in [Hosts -> Nat] /\ done \in Contents /\ sound \in BOOLEAN
    /\ updates \in Nat /\ ticks \in Nat /\ killed \in Nat

\* What is promised of every index, and of those written in place while nothing breaks them.
Promised == kind = "replaced" \/ sound

(* No update that a thread was told is stored is lost: between two writes   *)
(* the index is whole and has it, and one that is replaced is whole always  *)
(* (jobs/store.py:114-120: "delivery checkpoints and idempotency state      *)
(* durable across a crash").                                                *)
NothingLost ==
    Promised => /\ \A u \in Users : guard = NoOne => index.of[u] >= done[u]
                /\ guard = NoOne \/ kind = "replaced" => index.state \in {"absent", "whole"}

(* A reader is given a whole index, with all that was stored when it asked. *)
ReadsAreWhole ==
    Promised => \A u \in Users :
        /\ kind # "open" => calls[u].at # "raised"
        /\ calls[u].at = "answered" /\ calls[u].does = "read" =>
              calls[u].lacks = {}

(* A cached lookup misses no write its own process made before it, though   *)
(* the file's time may not tell the two apart (services.py:2136-2140).      *)
LookupsAreCurrent ==
    sound => \A u, v \in Users :
        calls[u].at = "answered" /\ calls[u].does = "lookup" /\ hostOf[u] = hostOf[v] =>
            v \notin calls[u].lacks

(* An index keeps what it is given and shows it to whoever asks.            *)
IndexHolds == NothingLost /\ ReadsAreWhole /\ LookupsAreCurrent
=============================================================================
