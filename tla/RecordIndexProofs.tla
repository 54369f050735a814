-------------------------- MODULE RecordIndexProofs --------------------------
(***************************************************************************)
(* A JSON index keeps what it is given and shows it to whoever asks, for   *)
(* any number of threads, processes, updates and kills.                    *)
(*                                                                         *)
(* An index that is replaced whole, and one written in place that nothing  *)
(* has broken, is what the holder of the lock read or wrote; it is never   *)
(* behind an update that is told to be stored, and so no reader is.  A     *)
(* cached lookup is no older than its own process's writes, because every  *)
(* one of them is counted in the key.                                      *)
(***************************************************************************)
EXTENDS RecordIndex, FiniteSetTheorems, TLAPS

Held == {"locked", "writing", "saved"}
Past == {"ready", "keep"} \cup Held

(* The file. *)
FileInv ==
    /\ Promised =>
          /\ \A v \in Users : index.of[v] >= done[v]
          /\ index.state = "absent" => guard = NoOne /\ \A v \in Users : done[v] = 0
          /\ guard = NoOne \/ kind = "replaced" => index.state \in {"absent", "whole"}
    /\ sound => index.state # "absent"

(* What a thread's call may count on, wherever it is. *)
CallInv(u) ==
    /\ guard = u <=> calls[u].at \in Held
    /\ calls[u].at = "stat" => calls[u].does = "lookup"
    /\ calls[u].does = "lookup" \/ calls[u].key.known => kind = "open"
    /\ calls[u].at = "keep" => calls[u].key.known
    /\ calls[u].at = "writing" => kind # "replaced"

(* ... and while the index keeps its promise. *)
PromisedInv(u) ==
    Promised =>
        /\ \A v \in Users : calls[u].seen[v] <= done[v]
        /\ calls[u].at \notin {"create", "fill"}
        /\ calls[u].at \in Past => index.state # "absent"
        /\ calls[u].at = "locked" => index.of = calls[u].base /\ index.state = "whole"
        /\ calls[u].at = "writing" => index.of = calls[u].base /\ index.state = Cut
        /\ calls[u].at = "saved" => index.of = Updated(u) /\ index.state = "whole"
        /\ kind # "open" => calls[u].at # "raised"
        /\ calls[u].at = "answered" /\ calls[u].does = "read" => calls[u].lacks = {}
        /\ calls[u].at = "keep" => \A v \in Users : calls[u].got[v] >= calls[u].seen[v]

Beside(h) == {v \in Users : hostOf[v] = h}

(* What it keeps in the cache, or got from there, misses no write of its    *)
(* own process.                                                             *)
LookupInv(u) ==
    sound =>
        /\ calls[u].key.known => calls[u].key.writes <= writes[hostOf[u]]
        /\ calls[u].at = "keep" /\ calls[u].key.writes = writes[hostOf[u]] =>
              \A v \in Beside(hostOf[u]) : calls[u].got[v] >= done[v]
        /\ calls[u].at = "answered" /\ calls[u].does = "lookup" =>
              \A v \in Beside(hostOf[u]) : v \notin calls[u].lacks

CacheInv(h) ==
    sound /\ caches[h].key.known =>
        /\ kind = "open" /\ caches[h].key.writes <= writes[h]
        /\ caches[h].key.writes = writes[h] => \A v \in Beside(h) : caches[h].of[v] >= done[v]

CallsInv == \A u \in Users : CallInv(u) /\ PromisedInv(u) /\ LookupInv(u)
CachesInv == \A h \in Hosts : CacheInv(h)

IndexInv == IndexTypeOK /\ FileInv /\ CallsInv /\ CachesInv

-----------------------------------------------------------------------------
(* Helpers. *)

LEMMA Constants ==
    /\ Blank \in Contents /\ \A u \in Users : Blank[u] = 0
    /\ NoKey \in KeyType /\ ~NoKey.known
    /\ Quiet \in CallType /\ Quiet.at = "out" /\ Quiet.does = "read" /\ Quiet.seen = Blank /\ Quiet.key = NoKey
    /\ NoCache \in [key : KeyType, of : Contents] /\ NoCache.key = NoKey
BY DEF Blank, Contents, NoKey, KeyType, Quiet, CallType, NoCache

LEMMA SizeType == Size \in Nat
<1>1. IsFiniteSet({u \in Users : index.of[u] > 0})
  BY IndexAssumption, FS_Subset
<1> QED BY <1>1, FS_CardinalityType DEF Size

(* One call changes. *)
LEMMA CallMoves ==
    ASSUME calls \in [Users -> CallType], NEW u \in Users, NEW c \in CallType, calls' = [calls EXCEPT ![u] = c]
    PROVE  /\ calls' \in [Users -> CallType] /\ calls'[u] = c
           /\ \A w \in Users \ {u} : calls'[w] = calls[w]
OBVIOUS

LEMMA GoesMoves ==
    ASSUME calls \in [Users -> CallType], NEW u \in Users, NEW at,
           at \in {"out", "ensure", "create", "fill", "ready", "locked", "writing", "saved", "stat", "keep"},
           Goes(u, at)
    PROVE  /\ calls' \in [Users -> CallType] /\ calls'[u].at = at
           /\ calls'[u].does = calls[u].does /\ calls'[u].base = calls[u].base /\ calls'[u].got = calls[u].got
           /\ calls'[u].seen = calls[u].seen /\ calls'[u].key = calls[u].key /\ calls'[u].lacks = calls[u].lacks
           /\ \A w \in Users \ {u} : calls'[w] = calls[w]
<1>1. PICK c : c = [calls[u] EXCEPT !.at = at]
  OBVIOUS
<1>2. /\ c \in CallType /\ c.at = at /\ c.does = calls[u].does /\ c.base = calls[u].base
      /\ c.got = calls[u].got /\ c.seen = calls[u].seen /\ c.key = calls[u].key /\ c.lacks = calls[u].lacks
  BY <1>1 DEF CallType
<1>3. calls' = [calls EXCEPT ![u] = c]
  BY <1>1 DEF Goes
<1> QED BY <1>2, <1>3, CallMoves

LEMMA RaisesMoves ==
    ASSUME calls \in [Users -> CallType], NEW u \in Users, Raises(u)
    PROVE  /\ calls' \in [Users -> CallType] /\ calls'[u].at = "raised" /\ calls'[u].does = "read"
           /\ calls'[u].seen = Blank /\ calls'[u].key = NoKey
           /\ \A w \in Users \ {u} : calls'[w] = calls[w]
<1>1. PICK c : c = [Quiet EXCEPT !.at = "raised"]
  OBVIOUS
<1>2. c \in CallType /\ c.at = "raised" /\ c.does = "read" /\ c.seen = Blank /\ c.key = NoKey
  BY <1>1, Constants DEF CallType
<1>3. calls' = [calls EXCEPT ![u] = c]
  BY <1>1 DEF Raises
<1> QED BY <1>2, <1>3, CallMoves

LEMMA AnswerMoves ==
    ASSUME calls \in [Users -> CallType], NEW u \in Users, NEW of \in Contents, calls' = AnswerWith(u, of)
    PROVE  /\ calls' \in [Users -> CallType] /\ calls'[u].at = "answered" /\ calls'[u].does = calls[u].does
           /\ calls'[u].seen = Blank /\ calls'[u].key = NoKey
           /\ calls'[u].lacks = {v \in Users : of[v] < calls[u].seen[v]}
           /\ \A w \in Users \ {u} : calls'[w] = calls[w]
<1>1. PICK S : S = {v \in Users : of[v] < calls[u].seen[v]}
  OBVIOUS
<1>2. PICK d \in {"read", "update", "lookup"} : d = calls[u].does
  BY DEF CallType
<1>3. PICK c : c = [Quiet EXCEPT !.does = d, !.at = "answered", !.lacks = S]
  OBVIOUS
<1>4. c \in CallType /\ c.at = "answered" /\ c.does = d /\ c.seen = Blank /\ c.key = NoKey /\ c.lacks = S
  <2>1. S \in SUBSET Users
    BY <1>1
  <2> QED BY <1>3, <2>1, Constants DEF CallType
<1>5. calls' = [calls EXCEPT ![u] = c]
  BY <1>1, <1>2, <1>3 DEF AnswerWith
<1> QED BY <1>1, <1>2, <1>4, <1>5, CallMoves

(* Two fields of a call change. *)
LEMMA Based ==
    ASSUME NEW old \in CallType, NEW of \in Contents
    PROVE  LET c == [old EXCEPT !.at = "locked", !.base = of] IN
           /\ c \in CallType /\ c.at = "locked" /\ c.base = of
           /\ c.does = old.does /\ c.seen = old.seen /\ c.key = old.key
BY DEF CallType

LEMMA Filled ==
    ASSUME NEW old \in CallType, NEW of \in Contents
    PROVE  LET c == [old EXCEPT !.got = of, !.at = "keep"] IN
           /\ c \in CallType /\ c.at = "keep" /\ c.got = of
           /\ c.does = old.does /\ c.seen = old.seen /\ c.key = old.key
BY DEF CallType

LEMMA IndexInitInv == IndexInit => IndexInv
<1> SUFFICES ASSUME IndexInit PROVE IndexInv
  OBVIOUS
<1>1. PICK s \in {"absent", "whole"} :
        /\ sound = (s = "whole") /\ done = [u \in Users |-> IF sound THEN 1 ELSE 0]
        /\ index = [state |-> s, of |-> done, mtime |-> 0]
  BY DEF IndexInit
<1>2. done \in Contents /\ (~sound => \A v \in Users : done[v] = 0) /\ sound \in BOOLEAN
  BY <1>1 DEF Contents
<1>3. IndexTypeOK
  <2>1. index \in [state : {"absent", "empty", "torn", "whole"}, of : Contents, mtime : Nat]
    BY <1>1, <1>2
  <2>2. /\ calls \in [Users -> CallType] /\ caches \in [Hosts -> [key : KeyType, of : Contents]]
        /\ writes \in [Hosts -> Nat]
    BY Constants DEF IndexInit
  <2> QED BY <1>2, <2>1, <2>2 DEF IndexInit, IndexTypeOK
<1>4. FileInv
  <2>1. index.of = done /\ index.state = s /\ guard = NoOne
    BY <1>1 DEF IndexInit
  <2>2. \A v \in Users : done[v] >= done[v]
    BY <1>2 DEF Contents
  <2> QED BY <1>1, <1>2, <2>1, <2>2 DEF FileInv
<1>5. \A u \in Users : calls[u] = Quiet /\ guard # u
  BY IndexAssumption DEF IndexInit
<1>6. CallsInv
  BY <1>2, <1>5, Constants DEF CallsInv, CallInv, PromisedInv, LookupInv, Held, Past, Contents
<1>7. CachesInv
  BY Constants DEF IndexInit, CachesInv, CacheInv
<1> QED BY <1>3, <1>4, <1>6, <1>7 DEF IndexInv
-----------------------------------------------------------------------------
(* Frames. *)

(* Nothing but the call of one thread changes. *)
LEMMA OnlyCallStep ==
    ASSUME IndexInv, NEW u \in Users, UNCHANGED <<kind, hostOf, index, guard, caches, writes, done, sound>>,
           UNCHANGED <<ticks, killed>>, updates' \in Nat,
           calls' \in [Users -> CallType], \A w \in Users \ {u} : calls'[w] = calls[w],
           CallInv(u)', PromisedInv(u)', LookupInv(u)'
    PROVE  IndexInv'
<1>1. IndexTypeOK' /\ FileInv'
  BY DEF IndexInv, IndexTypeOK, FileInv, Promised
<1>2. CachesInv'
  BY DEF IndexInv, CachesInv, CacheInv, Beside
<1>3. ASSUME NEW w \in Users \ {u} PROVE CallInv(w)' /\ PromisedInv(w)' /\ LookupInv(w)'
  <2>1. CallInv(w) /\ PromisedInv(w) /\ LookupInv(w) /\ calls'[w] = calls[w]
    BY <1>3 DEF IndexInv, CallsInv
  <2>2. CallInv(w)'
    BY <2>1 DEF CallInv
  <2>3. PromisedInv(w)'
    BY <2>1 DEF PromisedInv, Promised, Updated, Cut
  <2>4. LookupInv(w)'
    BY <2>1 DEF LookupInv, Beside
  <2> QED BY <2>2, <2>3, <2>4
<1> QED BY <1>1, <1>2, <1>3 DEF IndexInv, CallsInv

(* The holder of the lock, or whoever creates the file under it, writes it. *)
LEMMA IndexStep ==
    ASSUME IndexInv, NEW u \in Users, UNCHANGED <<kind, hostOf, guard, caches, writes, done, sound>>,
           UNCHANGED <<ticks, killed, updates>>,
           index' \in [state : {"absent", "empty", "torn", "whole"}, of : Contents, mtime : Nat],
           index'.state # "absent",
           calls' \in [Users -> CallType], \A w \in Users \ {u} : calls'[w] = calls[w],
           CallInv(u)', PromisedInv(u)', LookupInv(u)',
           Promised => guard \in {u, NoOne} /\ \A v \in Users : index'.of[v] >= done[v],
           Promised /\ (guard = NoOne \/ kind = "replaced") => index'.state = "whole"
    PROVE  IndexInv'
<1>1. IndexTypeOK'
  BY DEF IndexInv, IndexTypeOK
<1>2. FileInv'
  BY DEF IndexInv, FileInv, Promised
<1>3. CachesInv'
  BY DEF IndexInv, CachesInv, CacheInv, Beside
<1>4. ASSUME NEW w \in Users \ {u} PROVE CallInv(w)' /\ PromisedInv(w)' /\ LookupInv(w)'
  <2>1. CallInv(w)' /\ LookupInv(w)'
    BY <1>4 DEF IndexInv, CallsInv, CallInv, LookupInv, Beside
  <2>2. ASSUME Promised PROVE calls[w].at \notin Held
    BY <1>4, <2>2, IndexAssumption DEF IndexInv, CallsInv, CallInv
  <2>3. PromisedInv(w)'
    BY <1>4, <2>2 DEF IndexInv, CallsInv, PromisedInv, Promised, Held
  <2> QED BY <2>1, <2>3
<1> QED BY <1>1, <1>2, <1>3, <1>4 DEF IndexInv, CallsInv

LEMMA CallFacts ==
    ASSUME IndexInv, NEW u \in Users
    PROVE  /\ CallInv(u) /\ PromisedInv(u) /\ LookupInv(u) /\ FileInv
           /\ calls \in [Users -> CallType] /\ calls[u] \in CallType /\ done \in Contents /\ ticks \in Nat
           /\ index \in [state : {"absent", "empty", "torn", "whole"}, of : Contents, mtime : Nat]
           /\ sound \in BOOLEAN
BY DEF IndexInv, CallsInv, IndexTypeOK

-----------------------------------------------------------------------------
(* A call begins, and finds its file. *)

LEMMA AskStep == ASSUME IndexInv, NEW u \in Users, NEW what \in {"read", "update", "lookup"}, Ask(u, what) PROVE IndexInv'
<1>1. /\ calls[u].at \in Resting /\ (what = "lookup" => kind = "open")
      /\ UNCHANGED <<kind, hostOf, index, guard, caches, writes, done, sound, ticks, killed>>
  BY DEF Ask
<1>2. updates' \in Nat
  BY DEF Ask, IndexInv, IndexTypeOK
<1>3. PICK at \in {"stat", "ensure"} : at = IF what = "lookup" THEN "stat" ELSE "ensure"
  OBVIOUS
<1>4. PICK c : c = [Quiet EXCEPT !.does = what, !.seen = done, !.at = at]
  OBVIOUS
<1>5. /\ c \in CallType /\ c.does = what /\ c.at = at /\ c.seen = done /\ c.key = NoKey
  BY <1>4, Constants, CallFacts DEF CallType
<1>6. calls' = [calls EXCEPT ![u] = c]
  BY <1>3, <1>4 DEF Ask
<1>7. calls' \in [Users -> CallType] /\ calls'[u] = c /\ \A w \in Users \ {u} : calls'[w] = calls[w]
  BY <1>5, <1>6, CallFacts, CallMoves
<1>8. guard # u
  BY <1>1, CallFacts DEF CallInv, Resting, Held
<1>9. CallInv(u)'
  BY <1>1, <1>3, <1>5, <1>7, <1>8, Constants DEF CallInv, Held
<1>10. PromisedInv(u)'
  <2>1. \A v \in Users : c.seen[v] <= done'[v]
    BY <1>1, <1>5, CallFacts DEF Contents
  <2> QED BY <1>5, <1>7, <2>1 DEF PromisedInv, Past, Held
<1>11. LookupInv(u)'
  BY <1>5, <1>7, Constants DEF LookupInv
<1> QED BY <1>1, <1>2, <1>7, <1>9, <1>10, <1>11, OnlyCallStep

LEMMA EnsureLockedStep == ASSUME IndexInv, NEW u \in Users, EnsureLocked(u) PROVE IndexInv'
<1>1. /\ calls[u].at = "ensure" /\ kind = "replaced" /\ guard = NoOne /\ Goes(u, "ready")
      /\ UNCHANGED <<kind, hostOf, guard, caches, writes, done, sound, updates, ticks, killed>>
      /\ IF index.state = "absent" THEN Holds("whole", Blank) ELSE UNCHANGED index
  BY DEF EnsureLocked, Is, OnlyCallAndIndex
<1>2. /\ calls' \in [Users -> CallType] /\ calls'[u].at = "ready" /\ calls'[u].does = calls[u].does
      /\ calls'[u].seen = calls[u].seen /\ calls'[u].key = calls[u].key
      /\ \A w \in Users \ {u} : calls'[w] = calls[w]
  BY <1>1, CallFacts, GoesMoves
<1>3. Promised
  BY <1>1 DEF Promised
<1>4. /\ index' \in [state : {"absent", "empty", "torn", "whole"}, of : Contents, mtime : Nat]
      /\ index'.state = "whole" /\ \A v \in Users : index'.of[v] >= done[v]
  <2>1. CASE index.state = "absent"
    <3>1. index' = [state |-> "whole", of |-> Blank, mtime |-> ticks]
      BY <1>1, <2>1 DEF Holds
    <3>2. \A v \in Users : done[v] = 0
      BY <1>3, <2>1, CallFacts DEF FileInv
    <3> QED BY <3>1, <3>2, Constants, CallFacts
  <2>2. CASE index.state # "absent"
    BY <1>1, <1>3, <2>2, CallFacts DEF FileInv
  <2> QED BY <2>1, <2>2
<1>5. CallInv(u)'
  BY <1>1, <1>2, CallFacts, IndexAssumption DEF CallInv, Held
<1>6. PromisedInv(u)' /\ LookupInv(u)'
  BY <1>1, <1>2, <1>4, CallFacts DEF PromisedInv, Promised, LookupInv, Held, Past
<1> QED BY <1>1, <1>2, <1>4, <1>5, <1>6, IndexStep

LEMMA CheckFileStep == ASSUME IndexInv, NEW u \in Users, CheckFile(u) PROVE IndexInv'
<1>1. PICK at \in {"create", "ready"} : at = IF index.state = "absent" THEN "create" ELSE "ready"
  OBVIOUS
<1>2. /\ calls[u].at = "ensure" /\ kind # "replaced" /\ Goes(u, at)
      /\ UNCHANGED <<kind, hostOf, index, guard, caches, writes, done, sound, updates, ticks, killed>>
  BY <1>1 DEF CheckFile, Is, OnlyCall
<1>3. /\ calls' \in [Users -> CallType] /\ calls'[u].at = at /\ calls'[u].does = calls[u].does
      /\ calls'[u].seen = calls[u].seen /\ calls'[u].key = calls[u].key
      /\ \A w \in Users \ {u} : calls'[w] = calls[w]
  BY <1>2, CallFacts, GoesMoves
<1>4. CallInv(u)'
  BY <1>2, <1>3, CallFacts DEF CallInv, Held
<1>5. PromisedInv(u)' /\ LookupInv(u)'
  BY <1>1, <1>2, <1>3, CallFacts DEF PromisedInv, LookupInv, Promised, FileInv, Held, Past
<1>6. updates' \in Nat
  BY <1>2 DEF IndexInv, IndexTypeOK
<1> QED BY <1>2, <1>3, <1>4, <1>5, <1>6, OnlyCallStep

(* Nobody creates a file in place where an index is promised. *)
LEMMA CreateStep == ASSUME IndexInv, NEW u \in Users, CreateFile(u) \/ FillFile(u) PROVE IndexInv'
<1>1. /\ calls[u].at \in {"create", "fill"}
      /\ UNCHANGED <<kind, hostOf, guard, caches, writes, done, sound, updates, ticks, killed>>
  BY DEF CreateFile, FillFile, Is, OnlyCallAndIndex
<1>2. ~Promised /\ ~sound
  BY <1>1, CallFacts DEF PromisedInv, Promised
<1>3. PICK at \in {"fill", "ready"} : Goes(u, at)
  BY DEF CreateFile, FillFile
<1>4. PICK s \in {"empty", "whole", "torn"} : Holds(s, Blank)
  BY DEF CreateFile, FillFile
<1>5. /\ calls' \in [Users -> CallType] /\ calls'[u].at = at /\ calls'[u].does = calls[u].does
      /\ calls'[u].seen = calls[u].seen /\ calls'[u].key = calls[u].key
      /\ \A w \in Users \ {u} : calls'[w] = calls[w]
  BY <1>3, CallFacts, GoesMoves
<1>6. /\ index' \in [state : {"absent", "empty", "torn", "whole"}, of : Contents, mtime : Nat]
      /\ index'.state # "absent"
  BY <1>4, Constants, CallFacts DEF Holds
<1>7. CallInv(u)'
  BY <1>1, <1>5, CallFacts DEF CallInv, Held
<1>8. PromisedInv(u)' /\ LookupInv(u)'
  BY <1>1, <1>2 DEF PromisedInv, LookupInv, Promised
<1> QED BY <1>1, <1>2, <1>5, <1>6, <1>7, <1>8, IndexStep

-----------------------------------------------------------------------------
(* An update. *)

(* Whoever waits for the lock finds the index whole where it is promised. *)
LEMMA ReadyFinds ==
    ASSUME IndexInv, NEW u \in Users, calls[u].at = "ready", guard = NoOne, Promised
    PROVE  index.state = "whole"
BY CallFacts DEF FileInv, PromisedInv, Past

LEMMA LockStep == ASSUME IndexInv, NEW u \in Users, Lock(u) PROVE IndexInv'
<1>1. /\ calls[u].at = "ready" /\ guard = NoOne
      /\ UNCHANGED <<kind, hostOf, index, caches, writes, done, sound, updates, ticks, killed>>
  BY DEF Lock, Is
<1>2. CASE ~Readable
  <2>1. UNCHANGED guard /\ Raises(u)
    BY <1>2 DEF Lock
  <2>2. /\ calls' \in [Users -> CallType] /\ calls'[u].at = "raised" /\ calls'[u].does = "read"
        /\ calls'[u].seen = Blank /\ calls'[u].key = NoKey
        /\ \A w \in Users \ {u} : calls'[w] = calls[w]
    BY <2>1, CallFacts, RaisesMoves
  <2>3. ~Promised
    BY <1>1, <1>2, ReadyFinds DEF Readable
  <2>4. CallInv(u)'
    <3>1. \A v \in Users : Blank[v] <= done[v]
      BY Constants, CallFacts DEF Contents
    <3> QED BY <1>1, <2>1, <2>2, <3>1, Constants, IndexAssumption DEF CallInv, Held
  <2>5. PromisedInv(u)' /\ LookupInv(u)'
    BY <1>1, <2>3 DEF PromisedInv, LookupInv, Promised
  <2>6. updates' \in Nat
    BY <1>1 DEF IndexInv, IndexTypeOK
  <2> QED BY <1>1, <2>1, <2>2, <2>4, <2>5, <2>6, OnlyCallStep
<1>3. CASE Readable
  <2>1. guard' = u /\ calls' = [calls EXCEPT ![u].at = "locked", ![u].base = index.of]
    BY <1>3 DEF Lock, Loaded
  <2>0. PICK of \in Contents : of = index.of
    BY CallFacts
  <2>2. PICK c : c = [calls[u] EXCEPT !.at = "locked", !.base = of]
    OBVIOUS
  <2>3. /\ c \in CallType /\ c.at = "locked" /\ c.base = index.of /\ c.does = calls[u].does
        /\ c.seen = calls[u].seen /\ c.key = calls[u].key
    <3>1. PICK old \in CallType : old = calls[u]
      BY CallFacts
    <3> QED BY <2>2, <2>0, <3>1, Based
  <2>4. calls' = [calls EXCEPT ![u] = c]
    BY <2>1, <2>2, <2>0
  <2>5. calls' \in [Users -> CallType] /\ calls'[u] = c /\ \A w \in Users \ {u} : calls'[w] = calls[w]
    BY <2>3, <2>4, CallFacts, CallMoves
  <2>6. IndexTypeOK' /\ CachesInv'
    BY <1>1, <2>1, <2>5 DEF IndexInv, IndexTypeOK, CachesInv, CacheInv, Beside
  <2>7. Promised => index.state = "whole"
    BY <1>1, ReadyFinds
  <2>8. FileInv'
    BY <1>1, <2>1, <2>7, CallFacts DEF FileInv, Promised
  <2>9. CallInv(u)' /\ PromisedInv(u)' /\ LookupInv(u)'
    <3>1. CallInv(u)'
      BY <1>1, <2>1, <2>3, <2>5, CallFacts DEF CallInv, Held
    <3>2. PromisedInv(u)'
      BY <1>1, <2>3, <2>5, <2>7, CallFacts DEF PromisedInv, Promised
    <3>3. LookupInv(u)'
      BY <1>1, <2>3, <2>5, CallFacts DEF LookupInv
    <3> QED BY <3>1, <3>2, <3>3
  <2>10. ASSUME NEW w \in Users \ {u} PROVE CallInv(w)' /\ PromisedInv(w)' /\ LookupInv(w)'
    <3>1. CallInv(w) /\ PromisedInv(w) /\ LookupInv(w) /\ calls'[w] = calls[w] /\ guard # w /\ guard' # w
      BY <1>1, <2>1, <2>5, <2>10, IndexAssumption DEF IndexInv, CallsInv
    <3>2. CallInv(w)'
      BY <1>1, <3>1 DEF CallInv
    <3>3. PromisedInv(w)'
      BY <1>1, <3>1 DEF PromisedInv, Promised, Updated, Cut
    <3>4. LookupInv(w)'
      BY <1>1, <3>1 DEF LookupInv, Beside
    <3> QED BY <3>2, <3>3, <3>4
  <2> QED BY <2>6, <2>8, <2>9, <2>10 DEF IndexInv, CallsInv
<1> QED BY <1>2, <1>3

LEMMA UpdatedFacts ==
    ASSUME IndexInv, NEW u \in Users
    PROVE  /\ Updated(u) \in Contents /\ Updated(u)[u] = calls[u].base[u] + 1
           /\ \A v \in Users : Updated(u)[v] >= calls[u].base[v]
<1>1. calls[u].base \in Contents
  BY CallFacts DEF CallType
<1> QED BY <1>1 DEF Updated, Contents

LEMMA ReplaceStep == ASSUME IndexInv, NEW u \in Users, Replace(u) PROVE IndexInv'
<1>1. /\ calls[u].at = "locked" /\ kind = "replaced" /\ Holds("whole", Updated(u)) /\ Goes(u, "saved")
      /\ UNCHANGED <<kind, hostOf, guard, caches, writes, done, sound, updates, ticks, killed>>
  BY DEF Replace, Is, OnlyCallAndIndex
<1>2. /\ calls' \in [Users -> CallType] /\ calls'[u].at = "saved" /\ calls'[u].does = calls[u].does
      /\ calls'[u].seen = calls[u].seen /\ calls'[u].key = calls[u].key /\ calls'[u].base = calls[u].base
      /\ \A w \in Users \ {u} : calls'[w] = calls[w]
  BY <1>1, CallFacts, GoesMoves
<1>3. index' = [state |-> "whole", of |-> Updated(u), mtime |-> ticks] /\ Updated(u)' = Updated(u)
  BY <1>1, <1>2 DEF Holds, Updated
<1>4. /\ index' \in [state : {"absent", "empty", "torn", "whole"}, of : Contents, mtime : Nat]
      /\ index'.state = "whole" /\ index'.of = Updated(u)
  BY <1>3, UpdatedFacts, CallFacts
<1>5. Promised => \A v \in Users : Updated(u)[v] >= done[v]
  <2>1. ASSUME Promised, NEW v \in Users PROVE Updated(u)[v] >= done[v]
    <3>1. calls[u].base[v] >= done[v] /\ Updated(u)[v] >= calls[u].base[v]
      BY <1>1, <2>1, CallFacts, UpdatedFacts DEF PromisedInv, FileInv
    <3>2. calls[u].base[v] \in Nat /\ done[v] \in Nat /\ Updated(u)[v] \in Nat
      BY CallFacts, UpdatedFacts DEF CallType, Contents
    <3> QED BY <3>1, <3>2
  <2> QED BY <2>1
<1>6. guard = u
  BY <1>1, CallFacts DEF CallInv, Held
<1>7. CallInv(u)' /\ PromisedInv(u)' /\ LookupInv(u)'
  <2>1. CallInv(u)'
    BY <1>1, <1>2, <1>6, CallFacts DEF CallInv, Held
  <2>2. PromisedInv(u)'
    BY <1>1, <1>2, <1>3, <1>4, CallFacts DEF PromisedInv, Promised
  <2>3. LookupInv(u)'
    BY <1>1, <1>2, CallFacts DEF LookupInv
  <2> QED BY <2>1, <2>2, <2>3
<1> QED BY <1>1, <1>2, <1>4, <1>5, <1>6, <1>7, IndexStep

LEMMA StartWritingStep == ASSUME IndexInv, NEW u \in Users, StartWriting(u) PROVE IndexInv'
<1>1. /\ calls[u].at = "locked" /\ kind # "replaced" /\ Holds(Cut, index.of) /\ Goes(u, "writing")
      /\ UNCHANGED <<kind, hostOf, guard, caches, writes, done, sound, updates, ticks, killed>>
  BY DEF StartWriting, Is, OnlyCallAndIndex
<1>2. /\ calls' \in [Users -> CallType] /\ calls'[u].at = "writing" /\ calls'[u].does = calls[u].does
      /\ calls'[u].seen = calls[u].seen /\ calls'[u].key = calls[u].key /\ calls'[u].base = calls[u].base
      /\ \A w \in Users \ {u} : calls'[w] = calls[w]
  BY <1>1, CallFacts, GoesMoves
<1>3. /\ index' \in [state : {"absent", "empty", "torn", "whole"}, of : Contents, mtime : Nat]
      /\ index'.state = Cut /\ index'.of = index.of /\ Cut # "absent" /\ Cut' = Cut
  BY <1>1, CallFacts DEF Holds, Cut
<1>4. guard = u /\ u # NoOne
  BY <1>1, CallFacts, IndexAssumption DEF CallInv, Held
<1>5. CallInv(u)' /\ PromisedInv(u)' /\ LookupInv(u)'
  <2>1. CallInv(u)'
    BY <1>1, <1>2, <1>4, CallFacts DEF CallInv, Held
  <2>2. PromisedInv(u)'
    BY <1>1, <1>2, <1>3, CallFacts DEF PromisedInv, Promised
  <2>3. LookupInv(u)'
    BY <1>1, <1>2, CallFacts DEF LookupInv
  <2> QED BY <2>1, <2>2, <2>3
<1>6. Promised => \A v \in Users : index'.of[v] >= done[v]
  BY <1>3, CallFacts DEF FileInv
<1> QED BY <1>1, <1>2, <1>3, <1>4, <1>5, <1>6, IndexStep

LEMMA EndWritingStep == ASSUME IndexInv, NEW u \in Users, EndWriting(u) PROVE IndexInv'
<1>1. /\ calls[u].at = "writing" /\ Goes(u, "saved")
      /\ UNCHANGED <<kind, hostOf, guard, caches, writes, done, sound, updates, ticks, killed>>
      /\ IF index.state = Cut THEN Holds("whole", Updated(u)) ELSE Holds("torn", Blank)
  BY DEF EndWriting, Is, OnlyCallAndIndex
<1>2. /\ calls' \in [Users -> CallType] /\ calls'[u].at = "saved" /\ calls'[u].does = calls[u].does
      /\ calls'[u].seen = calls[u].seen /\ calls'[u].key = calls[u].key /\ calls'[u].base = calls[u].base
      /\ \A w \in Users \ {u} : calls'[w] = calls[w]
  BY <1>1, CallFacts, GoesMoves
<1>3. guard = u /\ u # NoOne /\ kind # "replaced" /\ Updated(u)' = Updated(u)
  BY <1>1, <1>2, CallFacts, IndexAssumption DEF CallInv, Held, Updated
<1>4. /\ index' \in [state : {"absent", "empty", "torn", "whole"}, of : Contents, mtime : Nat]
      /\ index'.state # "absent"
      /\ index.state = Cut => index'.state = "whole" /\ index'.of = Updated(u)
  BY <1>1, Constants, UpdatedFacts, CallFacts DEF Holds
<1>5. ASSUME Promised, NEW v \in Users PROVE index'.of[v] >= done[v]
  <2>1. index.state = Cut /\ index.of = calls[u].base /\ index.of[v] >= done[v]
    BY <1>1, <1>5, CallFacts DEF PromisedInv, FileInv
  <2>2. calls[u].base[v] >= done[v] /\ Updated(u)[v] >= calls[u].base[v]
    BY <2>1, UpdatedFacts
  <2>3. calls[u].base[v] \in Nat /\ done[v] \in Nat /\ Updated(u)[v] \in Nat
    BY CallFacts, UpdatedFacts DEF CallType, Contents
  <2>4. index'.of[v] = Updated(u)[v]
    BY <1>4, <2>1
  <2> QED BY <2>2, <2>3, <2>4
<1>6. CallInv(u)' /\ PromisedInv(u)' /\ LookupInv(u)'
  <2>1. CallInv(u)'
    BY <1>1, <1>2, <1>3, CallFacts DEF CallInv, Held
  <2>2. Promised => index.state = Cut
    BY <1>1, CallFacts DEF PromisedInv
  <2>3. PromisedInv(u)'
    BY <1>1, <1>2, <1>3, <1>4, <2>2, CallFacts DEF PromisedInv, Promised
  <2>4. LookupInv(u)'
    BY <1>1, <1>2, CallFacts DEF LookupInv
  <2> QED BY <2>1, <2>3, <2>4
<1> QED BY <1>1, <1>2, <1>3, <1>4, <1>5, <1>6, IndexStep

(* The update is told to be stored, and in the cache's key it is counted. *)
LEMMA UnlockStep == ASSUME IndexInv, NEW u \in Users, UnlockIndex(u) PROVE IndexInv'
<1>1. /\ calls[u].at = "saved" /\ guard' = NoOne /\ calls' = [calls EXCEPT ![u] = Quiet]
      /\ done' = [done EXCEPT ![u] = calls[u].base[u] + 1]
      /\ writes' = IF kind = "open" THEN [writes EXCEPT ![hostOf[u]] = @ + 1] ELSE writes
      /\ UNCHANGED <<kind, hostOf, index, caches, sound, updates, ticks, killed>>
  BY DEF UnlockIndex, Is, Counted
<1>2. calls' \in [Users -> CallType] /\ calls'[u] = Quiet /\ \A w \in Users \ {u} : calls'[w] = calls[w]
  BY <1>1, CallFacts, CallMoves, Constants
<1>3. guard = u /\ u # NoOne /\ hostOf \in [Users -> Hosts] /\ writes \in [Hosts -> Nat]
  BY <1>1, CallFacts, IndexAssumption DEF CallInv, Held, IndexInv, IndexTypeOK
<1>4. calls[u].base \in Contents /\ done \in Contents
  BY CallFacts DEF CallType
<1>5. done' \in Contents /\ done'[u] = calls[u].base[u] + 1 /\ \A w \in Users \ {u} : done'[w] = done[w]
  BY <1>1, <1>4 DEF Contents
<1>6. /\ writes' \in [Hosts -> Nat]
      /\ \A h \in Hosts : writes'[h] >= writes[h] /\ (kind = "open" /\ h = hostOf[u] => writes'[h] = writes[h] + 1)
      /\ \A h \in Hosts \ {hostOf[u]} : writes'[h] = writes[h]
  BY <1>1, <1>3
<1>7. IndexTypeOK'
  BY <1>1, <1>2, <1>5, <1>6 DEF IndexInv, IndexTypeOK
<1>8. Promised => /\ index.state = "whole" /\ index.of = Updated(u)
                  /\ \A v \in Users : index.of[v] >= done'[v]
  <2>1. ASSUME Promised PROVE index.state = "whole" /\ index.of = Updated(u)
    BY <1>1, <2>1, CallFacts DEF PromisedInv
  <2>2. ASSUME Promised, NEW v \in Users PROVE index.of[v] >= done'[v]
    <3>1. CASE v = u
      BY <1>5, <2>1, <2>2, <3>1, <1>4, UpdatedFacts DEF Contents
    <3>2. CASE v # u
      BY <1>5, <2>2, <3>2, CallFacts DEF FileInv
    <3> QED BY <3>1, <3>2
  <2> QED BY <2>1, <2>2
<1>9. FileInv'
  BY <1>1, <1>8, CallFacts DEF FileInv, Promised
<1>10. Promised => \A v \in Users : done[v] <= done'[v] /\ done[v] \in Nat /\ done'[v] \in Nat
  <2>1. ASSUME Promised PROVE done[u] <= done'[u]
    <3>1. index.of[u] >= done[u] /\ index.of[u] = calls[u].base[u] + 1
      BY <1>8, <2>1, UpdatedFacts, CallFacts DEF FileInv
    <3>2. done[u] \in Nat /\ calls[u].base[u] \in Nat
      BY <1>4 DEF Contents
    <3> QED BY <1>5, <3>1, <3>2
  <2> QED BY <1>4, <1>5, <2>1 DEF Contents
<1>11. CallInv(u)' /\ PromisedInv(u)' /\ LookupInv(u)'
  <2>1. \A v \in Users : Quiet.seen[v] <= done'[v]
    BY <1>5, Constants DEF Contents
  <2> QED BY <1>1, <1>2, <1>3, <2>1, Constants, IndexAssumption DEF CallInv, PromisedInv, LookupInv, Held, Past
<1>12. ASSUME NEW w \in Users \ {u} PROVE CallInv(w)' /\ PromisedInv(w)' /\ LookupInv(w)'
  <2>1. CallInv(w) /\ PromisedInv(w) /\ LookupInv(w) /\ calls'[w] = calls[w] /\ calls[w] \in CallType
    BY <1>2, <1>12, CallFacts DEF IndexInv, CallsInv
  <2>2. calls[w].at \notin Held
    BY <1>3, <2>1 DEF CallInv
  <2>3. CallInv(w)'
    BY <1>1, <1>12, <2>1, <2>2, IndexAssumption DEF CallInv
  <2>4. ASSUME Promised, NEW v \in Users PROVE calls[w].seen[v] <= done'[v]
    <3>1. calls[w].seen[v] <= done[v] /\ calls[w].seen[v] \in Nat
      BY <2>1, <2>4 DEF PromisedInv, CallType, Contents
    <3> QED BY <1>10, <2>4, <3>1
  <2>5. PromisedInv(w)'
    BY <1>1, <2>1, <2>2, <2>4 DEF PromisedInv, Promised, Held
  <2>6. LookupInv(w)'
    <3> SUFFICES ASSUME sound PROVE LookupInv(w)'
      BY <1>1 DEF LookupInv
    <3>1. hostOf[w] \in Hosts /\ (calls[w].key.known => kind = "open") /\ (calls[w].at = "keep" => calls[w].key.known)
      BY <1>3, <2>1 DEF CallInv
    <3>2. calls[w].key.writes \in Nat /\ writes[hostOf[w]] \in Nat /\ writes'[hostOf[w]] >= writes[hostOf[w]]
      BY <1>3, <1>6, <2>1, <3>1 DEF CallType, KeyType
    <3>3. calls[w].key.known => calls[w].key.writes <= writes'[hostOf[w]]
      <4>1. calls[w].key.known => calls[w].key.writes <= writes[hostOf[w]]
        BY <2>1 DEF LookupInv
      <4> QED BY <1>6, <3>1, <3>2, <4>1
    <3>4. ASSUME calls[w].at = "keep", calls[w].key.writes = writes'[hostOf[w]], NEW v \in Beside(hostOf[w])
          PROVE  calls[w].got[v] >= done'[v]
      <4>1. kind = "open" /\ calls[w].key.writes <= writes[hostOf[w]]
        BY <2>1, <3>1, <3>4 DEF LookupInv
      <4>2. hostOf[w] # hostOf[u] /\ calls[w].key.writes = writes[hostOf[w]]
        BY <1>6, <3>1, <3>2, <3>4, <4>1
      <4>3. v # u /\ v \in Users /\ calls[w].got[v] >= done[v]
        BY <2>1, <3>4, <4>2 DEF LookupInv, Beside
      <4> QED BY <1>5, <4>3
    <3> QED BY <1>1, <2>1, <3>3, <3>4 DEF LookupInv, Beside
  <2> QED BY <2>3, <2>5, <2>6
<1>13. ASSUME NEW h \in Hosts PROVE CacheInv(h)'
  <2> SUFFICES ASSUME sound, caches[h].key.known PROVE CacheInv(h)'
    BY <1>1 DEF CacheInv
  <2>1. /\ kind = "open" /\ caches[h].key.writes <= writes[h]
        /\ caches[h].key.writes = writes[h] => \A v \in Beside(h) : caches[h].of[v] >= done[v]
    BY <1>13 DEF IndexInv, CachesInv, CacheInv
  <2>2. caches[h].key.writes \in Nat /\ writes[h] \in Nat
    BY <1>3, <1>13 DEF IndexInv, IndexTypeOK, KeyType
  <2>3. CASE h = hostOf[u]
    <3>1. writes'[h] = writes[h] + 1
      BY <1>6, <1>13, <2>1, <2>3
    <3> QED BY <1>1, <2>1, <2>2, <3>1 DEF CacheInv
  <2>4. CASE h # hostOf[u]
    <3>1. writes'[h] = writes[h] /\ \A v \in Beside(h) : v \in Users /\ v # u /\ done'[v] = done[v]
      BY <1>5, <1>6, <1>13, <2>4 DEF Beside
    <3> QED BY <1>1, <2>1, <3>1 DEF CacheInv, Beside
  <2> QED BY <2>3, <2>4
<1> QED BY <1>7, <1>9, <1>11, <1>12, <1>13 DEF IndexInv, CallsInv, CachesInv

-----------------------------------------------------------------------------
(* A read, and a lookup through the cache. *)

LEMMA ReadStep == ASSUME IndexInv, NEW u \in Users, Read(u) PROVE IndexInv'
<1>1. /\ calls[u].at = "ready" /\ MayRead
      /\ UNCHANGED <<kind, hostOf, index, guard, caches, writes, done, sound, updates, ticks, killed>>
      /\ IF index.state = "whole"
         THEN calls' = IF calls[u].key.known THEN [calls EXCEPT ![u].got = index.of, ![u].at = "keep"]
                                             ELSE AnswerWith(u, index.of)
         ELSE Raises(u)
  BY DEF Read, Is, OnlyCall
<1>2. updates' \in Nat /\ guard # u /\ index.of \in Contents
  BY <1>1, CallFacts DEF IndexInv, IndexTypeOK, CallInv, Held
<1>3. ASSUME Promised, NEW v \in Users PROVE index.of[v] >= done[v] /\ index.of[v] >= calls[u].seen[v]
  <2>1. index.of[v] >= done[v] /\ calls[u].seen[v] <= done[v]
    BY <1>3, CallFacts DEF FileInv, PromisedInv
  <2>2. index.of[v] \in Nat /\ done[v] \in Nat /\ calls[u].seen[v] \in Nat
    BY <1>2, CallFacts DEF CallType, Contents
  <2> QED BY <2>1, <2>2
<1>4. CASE index.state # "whole"
  <2>1. /\ calls' \in [Users -> CallType] /\ calls'[u].at = "raised" /\ calls'[u].does = "read"
        /\ calls'[u].seen = Blank /\ calls'[u].key = NoKey
        /\ \A w \in Users \ {u} : calls'[w] = calls[w]
    BY <1>1, <1>4, CallFacts, RaisesMoves
  <2>2. Promised => kind = "open"
    BY <1>1, <1>4, ReadyFinds DEF MayRead
  <2>3. CallInv(u)'
    BY <1>1, <1>2, <2>1, Constants DEF CallInv, Held
  <2>4. \A v \in Users : Blank[v] <= done[v]
    BY Constants, CallFacts DEF Contents
  <2>5. PromisedInv(u)'
    BY <1>1, <2>1, <2>2, <2>4 DEF PromisedInv, Promised, Past, Held
  <2>6. LookupInv(u)'
    BY <2>1, Constants DEF LookupInv
  <2> QED BY <1>1, <1>2, <2>1, <2>3, <2>5, <2>6, OnlyCallStep
<1>5. CASE index.state = "whole" /\ ~calls[u].key.known
  <2>1. /\ calls' \in [Users -> CallType] /\ calls'[u].at = "answered" /\ calls'[u].does = calls[u].does
        /\ calls'[u].seen = Blank /\ calls'[u].key = NoKey
        /\ calls'[u].lacks = {v \in Users : index.of[v] < calls[u].seen[v]}
        /\ \A w \in Users \ {u} : calls'[w] = calls[w]
    BY <1>1, <1>2, <1>5, CallFacts, AnswerMoves
  <2>2. Promised => calls'[u].lacks = {}
    <3>1. ASSUME Promised, NEW v \in Users PROVE ~(index.of[v] < calls[u].seen[v])
      <4>1. index.of[v] \in Nat /\ calls[u].seen[v] \in Nat
        BY <1>2, CallFacts DEF CallType, Contents
      <4> QED BY <1>3, <3>1, <4>1
    <3> QED BY <2>1, <3>1
  <2>3. CallInv(u)'
    BY <1>1, <1>2, <2>1, CallFacts, Constants DEF CallInv, Held
  <2>4. \A v \in Users : Blank[v] <= done[v]
    BY Constants, CallFacts DEF Contents
  <2>5. PromisedInv(u)'
    BY <1>1, <2>1, <2>2, <2>4 DEF PromisedInv, Promised, Past, Held
  <2>6. LookupInv(u)'
    BY <1>1, <2>1, <2>2, Constants DEF LookupInv, Promised
  <2> QED BY <1>1, <1>2, <2>1, <2>3, <2>5, <2>6, OnlyCallStep
<1>6. CASE index.state = "whole" /\ calls[u].key.known
  <2>1. calls' = [calls EXCEPT ![u].got = index.of, ![u].at = "keep"]
    BY <1>1, <1>6
  <2>0. PICK of \in Contents : of = index.of
    BY <1>2
  <2>2. PICK c : c = [calls[u] EXCEPT !.got = of, !.at = "keep"]
    OBVIOUS
  <2>3. /\ c \in CallType /\ c.at = "keep" /\ c.got = index.of /\ c.does = calls[u].does
        /\ c.seen = calls[u].seen /\ c.key = calls[u].key
    <3>1. PICK old \in CallType : old = calls[u]
      BY CallFacts
    <3> QED BY <2>0, <2>2, <3>1, Filled
  <2>4. calls' = [calls EXCEPT ![u] = c]
    BY <2>0, <2>1, <2>2
  <2>5. calls' \in [Users -> CallType] /\ calls'[u] = c /\ \A w \in Users \ {u} : calls'[w] = calls[w]
    BY <2>3, <2>4, CallFacts, CallMoves
  <2>6. CallInv(u)'
    BY <1>1, <1>2, <1>6, <2>3, <2>5, CallFacts DEF CallInv, Held
  <2>7. PromisedInv(u)'
    BY <1>1, <1>3, <1>6, <2>3, <2>5, CallFacts DEF PromisedInv, Promised, Past, Held
  <2>8. LookupInv(u)'
    <3>1. sound => \A v \in Beside(hostOf[u]) : c.got[v] >= done[v]
      BY <1>3, <2>3 DEF Promised, Beside
    <3> QED BY <1>1, <2>3, <2>5, <3>1, CallFacts DEF LookupInv, Beside
  <2> QED BY <1>1, <1>2, <2>5, <2>6, <2>7, <2>8, OnlyCallStep
<1> QED BY <1>4, <1>5, <1>6

LEMMA StatStep == ASSUME IndexInv, NEW u \in Users, Stat(u) PROVE IndexInv'
<1>1. PICK h \in Hosts : h = hostOf[u]
  BY DEF IndexInv, IndexTypeOK
<1>2. PICK key : key = [mtime |-> index.mtime, size |-> Size, writes |-> writes[h], known |-> TRUE]
  OBVIOUS
<1>3. key \in KeyType /\ key.known /\ key.writes = writes[h] /\ writes[h] \in Nat
  BY <1>1, <1>2, SizeType, CallFacts DEF KeyType, IndexInv, IndexTypeOK
<1>4. /\ calls[u].at = "stat"
      /\ UNCHANGED <<kind, hostOf, index, guard, caches, writes, done, sound, updates, ticks, killed>>
      /\ calls' = IF index.state = "absent" THEN [calls EXCEPT ![u].at = "ensure"]
                  ELSE IF caches[h].key = key
                       THEN AnswerWith(u, caches[h].of)
                       ELSE [calls EXCEPT ![u].at = "ready", ![u].key = key]
  BY <1>1, <1>2 DEF Stat, OnlyCall, Is
<1>5. updates' \in Nat /\ guard # u /\ kind = "open" /\ calls[u].does = "lookup"
  BY <1>4, CallFacts DEF IndexInv, IndexTypeOK, CallInv, Held
<1>6. \A v \in Users : Blank[v] <= done[v]
  BY Constants, CallFacts DEF Contents
<1>7. CASE index.state = "absent"
  <2>1. Goes(u, "ensure")
    BY <1>4, <1>7 DEF Goes
  <2>2. /\ calls' \in [Users -> CallType] /\ calls'[u].at = "ensure" /\ calls'[u].does = calls[u].does
        /\ calls'[u].seen = calls[u].seen /\ calls'[u].key = calls[u].key
        /\ \A w \in Users \ {u} : calls'[w] = calls[w]
    BY <2>1, CallFacts, GoesMoves
  <2>3. CallInv(u)'
    BY <1>4, <1>5, <2>2, CallFacts DEF CallInv, Held
  <2>4. PromisedInv(u)' /\ LookupInv(u)'
    BY <1>4, <2>2, CallFacts DEF PromisedInv, LookupInv, Promised, Past, Held
  <2> QED BY <1>4, <1>5, <2>2, <2>3, <2>4, OnlyCallStep
<1>8. CASE index.state # "absent" /\ caches[h].key = key
  <2>1. PICK of \in Contents : of = caches[h].of
    BY DEF IndexInv, IndexTypeOK
  <2>2. calls' = AnswerWith(u, of)
    BY <1>4, <1>8, <2>1
  <2>3. /\ calls' \in [Users -> CallType] /\ calls'[u].at = "answered" /\ calls'[u].does = calls[u].does
        /\ calls'[u].seen = Blank /\ calls'[u].key = NoKey
        /\ calls'[u].lacks = {v \in Users : of[v] < calls[u].seen[v]}
        /\ \A w \in Users \ {u} : calls'[w] = calls[w]
    BY <2>2, CallFacts, AnswerMoves
  <2>4. ASSUME sound, NEW v \in Beside(h) PROVE v \notin calls'[u].lacks
    <3>1. v \in Users /\ of[v] >= done[v]
      BY <1>3, <1>8, <2>1, <2>4 DEF IndexInv, CachesInv, CacheInv, Beside
    <3>2. calls[u].seen[v] <= done[v]
      BY <2>4, <3>1, CallFacts DEF PromisedInv, Promised
    <3>3. of[v] \in Nat /\ done[v] \in Nat /\ calls[u].seen[v] \in Nat
      BY <2>1, <3>1, CallFacts DEF CallType, Contents
    <3>4. ~(of[v] < calls[u].seen[v])
      BY <3>1, <3>2, <3>3
    <3> QED BY <2>3, <3>4
  <2>5. CallInv(u)'
    BY <1>4, <1>5, <2>3, CallFacts, Constants DEF CallInv, Held
  <2>6. PromisedInv(u)'
    BY <1>4, <1>5, <1>6, <2>3 DEF PromisedInv, Promised, Past, Held
  <2>7. LookupInv(u)'
    BY <1>1, <1>4, <2>3, <2>4, Constants DEF LookupInv, Beside
  <2> QED BY <1>4, <1>5, <2>3, <2>5, <2>6, <2>7, OnlyCallStep
<1>9. CASE index.state # "absent" /\ caches[h].key # key
  <2>1. calls' = [calls EXCEPT ![u].at = "ready", ![u].key = key]
    BY <1>4, <1>9
  <2>2. PICK c : c = [calls[u] EXCEPT !.at = "ready", !.key = key]
    OBVIOUS
  <2>3. /\ c \in CallType /\ c.at = "ready" /\ c.key = key /\ c.does = calls[u].does /\ c.seen = calls[u].seen
    BY <1>3, <2>2, CallFacts DEF CallType
  <2>4. calls' = [calls EXCEPT ![u] = c]
    BY <2>1, <2>2
  <2>5. calls' \in [Users -> CallType] /\ calls'[u] = c /\ \A w \in Users \ {u} : calls'[w] = calls[w]
    BY <2>3, <2>4, CallFacts, CallMoves
  <2>6. CallInv(u)'
    BY <1>4, <1>5, <2>3, <2>5, CallFacts DEF CallInv, Held
  <2>7. PromisedInv(u)'
    BY <1>4, <1>9, <2>3, <2>5, CallFacts DEF PromisedInv, Promised, Past, Held
  <2>8. LookupInv(u)'
    <3>1. calls'[u].at = "ready" /\ calls'[u].key.writes = writes'[h] /\ writes'[h] <= writes'[h] /\ hostOf'[u] = h
      <4>1. calls'[u] = c
        BY <2>5
      <4>2. writes'[h] = writes[h] /\ hostOf'[u] = h /\ c.at = "ready" /\ c.key.writes = writes[h]
        BY <1>1, <1>3, <1>4, <2>3
      <4> QED BY <1>3, <4>1, <4>2
    <3> QED BY <3>1 DEF LookupInv
  <2> QED BY <1>4, <1>5, <2>5, <2>6, <2>7, <2>8, OnlyCallStep
<1> QED BY <1>7, <1>8, <1>9

LEMMA KeepStep == ASSUME IndexInv, NEW u \in Users, Keep(u) PROVE IndexInv'
<1>1. PICK h \in Hosts : h = hostOf[u]
  BY DEF IndexInv, IndexTypeOK
<1>2. PICK of \in Contents : of = calls[u].got
  BY CallFacts DEF CallType
<1>3. PICK e : e = [key |-> calls[u].key, of |-> of]
  OBVIOUS
<1>4. /\ calls[u].at = "keep" /\ calls' = AnswerWith(u, of) /\ caches' = [caches EXCEPT ![h] = e]
      /\ UNCHANGED <<kind, hostOf, index, guard, writes, done, sound, updates, ticks, killed>>
  BY <1>1, <1>2, <1>3 DEF Keep, Is
<1>5. /\ calls' \in [Users -> CallType] /\ calls'[u].at = "answered" /\ calls'[u].does = calls[u].does
      /\ calls'[u].seen = Blank /\ calls'[u].key = NoKey
      /\ calls'[u].lacks = {v \in Users : of[v] < calls[u].seen[v]}
      /\ \A w \in Users \ {u} : calls'[w] = calls[w]
  BY <1>4, CallFacts, AnswerMoves
<1>6. e \in [key : KeyType, of : Contents] /\ e.key = calls[u].key /\ e.of = of
  BY <1>2, <1>3, CallFacts DEF CallType
<1>7. caches' \in [Hosts -> [key : KeyType, of : Contents]] /\ caches'[h] = e
      /\ \A g \in Hosts \ {h} : caches'[g] = caches[g]
  BY <1>4, <1>6 DEF IndexInv, IndexTypeOK
<1>8. kind = "open" /\ guard # u /\ calls[u].key.known
  BY <1>4, CallFacts DEF CallInv, Held
<1>9. IndexTypeOK' /\ FileInv'
  BY <1>4, <1>5, <1>7 DEF IndexInv, IndexTypeOK, FileInv, Promised
<1>10. Promised => calls'[u].lacks = {}
  <2>1. ASSUME Promised, NEW v \in Users PROVE ~(of[v] < calls[u].seen[v])
    <3>1. of[v] >= calls[u].seen[v] /\ of[v] \in Nat /\ calls[u].seen[v] \in Nat
      BY <1>2, <1>4, <2>1, CallFacts DEF PromisedInv, CallType, Contents
    <3> QED BY <3>1
  <2> QED BY <1>5, <2>1
<1>11. CallInv(u)' /\ PromisedInv(u)' /\ LookupInv(u)'
  <2>1. CallInv(u)'
    BY <1>4, <1>5, <1>8, Constants DEF CallInv, Held
  <2>2. \A v \in Users : Blank[v] <= done[v]
    BY Constants, CallFacts DEF Contents
  <2>3. PromisedInv(u)'
    BY <1>4, <1>5, <1>8, <1>10, <2>2 DEF PromisedInv, Promised, Past, Held
  <2>4. LookupInv(u)'
    BY <1>4, <1>5, <1>10, Constants DEF LookupInv, Promised
  <2> QED BY <2>1, <2>3, <2>4
<1>12. ASSUME NEW w \in Users \ {u} PROVE CallInv(w)' /\ PromisedInv(w)' /\ LookupInv(w)'
  <2>1. CallInv(w) /\ PromisedInv(w) /\ LookupInv(w) /\ calls'[w] = calls[w]
    BY <1>5, <1>12 DEF IndexInv, CallsInv
  <2>2. CallInv(w)'
    BY <1>4, <2>1 DEF CallInv
  <2>3. PromisedInv(w)'
    BY <1>4, <2>1 DEF PromisedInv, Promised, Updated, Cut
  <2>4. LookupInv(w)'
    BY <1>4, <2>1 DEF LookupInv, Beside
  <2> QED BY <2>2, <2>3, <2>4
<1>13. CachesInv'
  <2>1. ASSUME NEW g \in Hosts \ {h} PROVE CacheInv(g)'
    BY <1>4, <1>7, <2>1 DEF IndexInv, CachesInv, CacheInv, Beside
  <2>2. CacheInv(h)'
    BY <1>1, <1>2, <1>4, <1>6, <1>7, <1>8, CallFacts DEF LookupInv, CacheInv, Beside
  <2> QED BY <2>1, <2>2 DEF CachesInv
<1> QED BY <1>9, <1>11, <1>12, <1>13 DEF IndexInv, CallsInv

-----------------------------------------------------------------------------
(* A kill takes the calls and the cache of a process with it; from then on  *)
(* only an index that is replaced is promised.                              *)
LEMMA KillHostStep == ASSUME IndexInv, NEW h \in Hosts, KillHost(h) PROVE IndexInv'
<1>1. /\ killed' = killed + 1 /\ sound' = FALSE
      /\ calls' = [u \in Users |-> IF hostOf[u] = h THEN Quiet ELSE calls[u]]
      /\ guard' = IF guard # NoOne /\ hostOf[guard] = h THEN NoOne ELSE guard
      /\ caches' = [caches EXCEPT ![h] = NoCache] /\ writes' = [writes EXCEPT ![h] = 0]
      /\ UNCHANGED <<kind, hostOf, index, done, updates, ticks>>
  BY DEF KillHost
<1>2. calls' \in [Users -> CallType]
  BY <1>1, Constants DEF IndexInv, IndexTypeOK
<1>3. IndexTypeOK'
  <2>1. caches' \in [Hosts -> [key : KeyType, of : Contents]] /\ writes' \in [Hosts -> Nat]
    BY <1>1, Constants DEF IndexInv, IndexTypeOK
  <2>2. guard' \in Users \cup {NoOne} /\ killed' \in Nat
    BY <1>1 DEF IndexInv, IndexTypeOK
  <2> QED BY <1>1, <1>2, <2>1, <2>2 DEF IndexInv, IndexTypeOK
<1>4. Promised' => Promised /\ kind = "replaced"
  BY <1>1 DEF Promised
<1>5. FileInv'
  BY <1>1, <1>4 DEF IndexInv, FileInv
<1>6. ASSUME NEW w \in Users PROVE CallInv(w)' /\ PromisedInv(w)' /\ LookupInv(w)'
  <2>1. CallInv(w) /\ PromisedInv(w) /\ LookupInv(w)
    BY <1>6, CallFacts
  <2>2. LookupInv(w)'
    BY <1>1 DEF LookupInv
  <2>3. CASE hostOf[w] = h
    <3>1. calls'[w] = Quiet
      BY <1>1, <1>6, <2>3
    <3>2. guard' # w
      BY <1>1, <1>6, <2>3, IndexAssumption
    <3>3. \A v \in Users : Quiet.seen[v] <= done[v]
      BY Constants, CallFacts DEF Contents
    <3>4. CallInv(w)'
      BY <1>1, <3>1, <3>2, Constants DEF CallInv, Held
    <3>5. PromisedInv(w)'
      BY <1>1, <3>1, <3>3, Constants DEF PromisedInv, Past, Held
    <3> QED BY <2>2, <3>4, <3>5
  <2>4. CASE hostOf[w] # h
    <3>1. calls'[w] = calls[w]
      BY <1>1, <1>6, <2>4
    <3>2. guard' = w <=> guard = w
      BY <1>1, <1>6, <2>4, IndexAssumption
    <3>3. CallInv(w)'
      BY <1>1, <2>1, <3>1, <3>2 DEF CallInv
    <3>4. PromisedInv(w)'
      BY <1>1, <1>4, <2>1, <3>1 DEF PromisedInv, Updated, Cut
    <3> QED BY <2>2, <3>3, <3>4
  <2> QED BY <2>3, <2>4
<1>7. CachesInv'
  BY <1>1 DEF CachesInv, CacheInv
<1> QED BY <1>3, <1>5, <1>6, <1>7 DEF IndexInv, CallsInv

LEMMA IndexNextInv == IndexInv /\ [IndexNext]_indexVars => IndexInv'
<1> SUFFICES ASSUME IndexInv, [IndexNext]_indexVars PROVE IndexInv'
  OBVIOUS
<1>1. ASSUME NEW u \in Users, UserStep(u) PROVE IndexInv'
  BY <1>1, AskStep, EnsureLockedStep, CheckFileStep, CreateStep, LockStep, ReplaceStep, StartWritingStep,
     EndWritingStep, UnlockStep, ReadStep, StatStep, KeepStep DEF UserStep
<1>2. ASSUME NEW h \in Hosts, KillHost(h) PROVE IndexInv'
  BY <1>2, KillHostStep
<1>3. CASE Tick \/ UNCHANGED indexVars
  <2>1. /\ UNCHANGED <<kind, hostOf, index, guard, calls, caches, writes, done, sound, updates, killed>>
        /\ ticks' \in Nat
    BY <1>3 DEF Tick, indexVars, IndexInv, IndexTypeOK
  <2>2. IndexTypeOK' /\ FileInv' /\ CachesInv'
    BY <2>1 DEF IndexInv, IndexTypeOK, FileInv, Promised, CachesInv, CacheInv, Beside
  <2>3. CallsInv'
    BY <2>1 DEF IndexInv, CallsInv, CallInv, PromisedInv, LookupInv, Promised, Updated, Cut, Beside
  <2> QED BY <2>2, <2>3 DEF IndexInv
<1> QED BY <1>1, <1>2, <1>3 DEF IndexNext

LEMMA IndexInvIsEnough == IndexInv => IndexHolds
<1> SUFFICES ASSUME IndexInv PROVE IndexHolds
  OBVIOUS
<1>1. NothingLost
  BY DEF IndexInv, FileInv, NothingLost
<1>2. ReadsAreWhole
  BY DEF IndexInv, CallsInv, PromisedInv, ReadsAreWhole
<1>3. LookupsAreCurrent
  BY DEF IndexInv, CallsInv, LookupInv, LookupsAreCurrent, Beside
<1> QED BY <1>1, <1>2, <1>3 DEF IndexHolds

(* Every variable of a shared index has its type, and the invariant holds   *)
(* (jobs/store.py, openeo/jobs.py, openeo/workflows.py, ingestions/         *)
(* services.py: ensure_store, the mutations, the reads and the lookups).    *)
THEOREM IndexInvariant == IndexSpec => []IndexInv
<1>1. IndexInit => IndexInv
  BY IndexInitInv
<1>2. IndexInv /\ [IndexNext]_indexVars => IndexInv'
  BY IndexNextInv
<1> QED BY <1>1, <1>2, PTL DEF IndexSpec

(* An index that is replaced whole loses no stored update and shows no       *)
(* reader half of itself, whoever creates it and whatever is killed.  One     *)
(* written in place does neither as long as it was there from the start and   *)
(* nobody was killed (sound); no cached lookup misses a write of its own      *)
(* process on the same condition                                              *)
(* (jobs/store.py:114-120, ingestions/services.py:2136-2140).                 *)
THEOREM IndexKeepsAndShows == IndexSpec => []IndexHolds
<1>1. IndexInv => IndexHolds
  BY IndexInvIsEnough
<1> QED BY <1>1, IndexInvariant, PTL

=============================================================================
