-------------------------- MODULE DeliveryFlowProofs --------------------------
(***************************************************************************)
(* What is delivered is what was submitted, once, and known for what it    *)
(* is: for any callers, jobs, results, runs, failures, requests, process   *)
(* starts and configurations.                                              *)
(*                                                                         *)
(* The argument follows the modules.  Of ExportDelivery only its own steps *)
(* matter, whoever makes them (ExpNext); of the pipeline, the round of a   *)
(* hand-off and the result it observed; of the trigger, that from the      *)
(* moment a thread finds something due the source keeps the result, and    *)
(* the mode, it was found due for.                                         *)
(***************************************************************************)
EXTENDS MCDeliveries, ChunkedSendProofs, WellFoundedInduction, FiniteSetTheorems, TLAPS

-----------------------------------------------------------------------------
(* Submissions and deliveries. *)
JobStates == {"none", "accepted", "running", "successful", "failed", "cancelled"}
Statuses  == {"running", "finished", "failed", "deleted"}
Places    == {"idle", "find", "reserve", "create", "link", "done", "busy", "refused"}
Locked    == {"reserve", "create", "link"}
AutoModes == {"dry_run", "live"}
Kinds     == {"run", "auto", "client"}

\* The keys there may be, when an operator's request has reached the framework n times.
Round(k)  == <<"run", k>>
AutoKey(m)   == <<"auto", m>>
ClientKey == <<"client">>
NoKey     == <<>>
Keys(n)   == {Round(k) : k \in 0..n} \cup {AutoKey(m) : m \in AutoModes} \cup {ClientKey}
AllKeys   == {Round(k) : k \in Nat} \cup {AutoKey(m) : m \in AutoModes} \cup {ClientKey, NoKey}

Sources == [status : Statuses, version : 0..MaxVersion, links : SUBSET Ids]
Jobs    == [state : JobStates, key : AllKeys, dry : BOOLEAN, version : 0..MaxVersion,
            outcome : {"none", "success", "conflicts", "unknown"}]
Calls   == [at : Places, key : AllKeys, dry : BOOLEAN, version : 0..MaxVersion, id : Ids \cup {Free}]
Claims  == [key : AllKeys, dry : BOOLEAN, version : 1..MaxVersion, id : Ids]

ExpType ==
    /\ source \in Sources /\ lease \in Ids \cup {Free} /\ submission \in Callers \cup {Free}
    /\ reserved \in SUBSET Claims /\ delivery \in [Ids -> Jobs] /\ call \in [Callers -> Calls]
    /\ runs \in 0..MaxRuns /\ faults \in 0..MaxFaults

LeaseInv ==
    /\ Finished => source.version > 0
    /\ \A d \in Ids : lease = d <=> delivery[d].state = "running"
    /\ \A d \in Ids : lease = d => Finished /\ source.version = delivery[d].version

\* The reservation a delivery job, or a submission, goes by.
Claim(x, d) == [key |-> x.key, dry |-> x.dry, version |-> x.version, id |-> d]

ClaimInv ==
    /\ \A r, s \in reserved : r.key = s.key \/ r.id = s.id => r = s
    /\ \A d \in Ids : Created(d) => Claim(delivery[d], d) \in reserved

CallInv(a) ==
    LET c == call[a] IN
    /\ submission = a <=> c.at \in Locked
    /\ c.at \in Locked \cup {"done"} => c.id \in Ids
    /\ c.at \in {"reserve", "create"} => c.version > 0 /\ ~Created(c.id)
    /\ c.at = "reserve" => \A r \in reserved : r.key # c.key /\ r.id # c.id
    /\ c.at = "create" => Claim(c, c.id) \in reserved
    /\ c.at = "link" => Created(c.id) /\ delivery[c.id].key = c.key

ExpInv == ExpType /\ LeaseInv /\ ClaimInv /\ \A a \in Callers : CallInv(a)

(* Whose submission it is shows in its key. *)
KindInv ==
    /\ \A a \in Callers : call[a].at # "idle" =>
          /\ call[a].key \in Keys(rounds)
          /\ call[a].key[1] = "run"  => a \in Actors
          /\ call[a].key[1] = "auto" => a \in Threads
    /\ \A r \in reserved : r.key \in Keys(rounds)

-----------------------------------------------------------------------------
(* The pipeline. *)
RunRecords == [mode : RunModes, outcome : {"none", "error", "missing"},
               delivery : {"awaiting", "held", "failed", "submitted"}, attempts : Nat,
               id : Ids \cup {Free}, result : Results, round : Nat]
Reading == {"refresh", "observed", "refreshed", "job"}
Handing == {"submit", "submitting"}
Acts == [at : {"idle", "acknowledge", "hold", "notified", "release", "unhold", "missed"}]
        \cup [at : {"deliver"}, manual : BOOLEAN, again : BOOLEAN]
        \cup [at : Reading, seen : RunRecords, mode : Modes, manual : BOOLEAN, again : BOOLEAN]
        \cup [at : Handing, seen : [attempts : Nat, round : Nat], again : BOOLEAN]

RunType ==
    /\ run \in RunRecords /\ mode \in Modes /\ act \in [Actors -> Acts]
    /\ requests \in Nat /\ rounds \in Nat
    /\ run.delivery = "submitted" => run.id # Free

Confirmed(result) ==
    result \in {"delivered", "validated"} =>
        \E d \in Ids : /\ delivery[d].state = "successful" /\ delivery[d].outcome = "success"
                       /\ delivery[d].dry <=> (result = "validated")

ActInv(a) ==
    /\ call[a].at # "idle" <=> At(a, "submitting")
    /\ act[a].at \in Reading \cup Handing => act[a].seen.round <= rounds
    /\ At(a, "submitting") /\ act[a].again => act[a].seen.round < rounds
    /\ At(a, "observed") => Confirmed(act[a].seen.result)

RunInv ==
    /\ RunType /\ run.round <= rounds /\ Confirmed(run.result)
    /\ \A a \in Actors : ActInv(a)

-----------------------------------------------------------------------------
(* The trigger. *)
DueModes == {"none", "dry_run", "live"}
Steps    == {NoStep} \cup [mode : AutoModes, since : Nat]

TrigType ==
    /\ phase \in {"down", "starting", "serving"} /\ epoch \in 0..MaxStarts /\ host \in {"this", "old", "none"}
    /\ boundary \in Steps /\ step \in {NoStep, boundary} /\ stepOld \in Steps
    /\ due \in DueModes /\ finishedAt \in 0..epoch /\ problem \in BOOLEAN /\ late \in BOOLEAN
    /\ trigger \in [Threads -> {"list", "idle", "due", "submitting"}] /\ trigger[Hook] # "list"
    /\ modes \in [1..MaxVersion -> SUBSET DueModes]

Label(dry) == IF dry THEN "dry_run" ELSE "live"

Pending(t) == trigger[t] \in {"due", "submitting"}

\* A job that delivers is not run again before the pass is over.
PassInv ==
    /\ phase = "down" => trigger[Hook] = "idle"
    /\ trigger[Sweep] # "idle" => phase = "starting"
    /\ Pending(Sweep) => source.status # "running"

ModeInv ==
    /\ owner # "trigger" => due = "none"
    /\ owner = "trigger" /\ Finished => due \in modes[source.version]
    /\ \A r \in reserved : r.key[1] = "auto" => Label(r.dry) \in modes[r.version]

KeyMade(key) == \E d \in Ids : Created(d) /\ delivery[d].key = key

ThreadInv(t) ==
    LET c == call[t] IN
    /\ c.at # "idle" <=> trigger[t] = "submitting"
    /\ Pending(t) =>
          /\ owner = "trigger" /\ due = step.mode /\ due \in AutoModes
          /\ source.version > 0 /\ due \in modes[source.version]
          /\ source.links = {} \/ KeyMade(AutoKey(step.mode))
    /\ c.at # "idle" => c.key = AutoKey(step.mode) /\ c.dry = (step.mode = "dry_run")
    /\ c.at \in {"reserve", "create"} => source.links = {} /\ Label(c.dry) \in modes[c.version]

TrigInv == TrigType /\ PassInv /\ ModeInv /\ \A t \in Threads : ThreadInv(t)

(* Only the owner's threads submit. *)
OwnerInv ==
    \A a \in Callers : call[a].at # "idle" =>
        IF owner = "pipeline" THEN a \in Actors ELSE IF owner = "trigger" THEN a \in Threads ELSE a \in Clients

IInv == ExpInv /\ KindInv /\ RunInv /\ TrigInv /\ OwnerInv
-----------------------------------------------------------------------------
(* Keys. *)
LEMMA KeysAre ==
    /\ NoKey \in AllKeys /\ \A n \in Nat : Keys(n) \subseteq AllKeys
    /\ \A n \in Nat : ClientKey \in Keys(n) /\ \A m \in AutoModes : AutoKey(m) \in Keys(n)
    /\ \A n \in Nat : \A k \in 0..n : Round(k) \in Keys(n)
    /\ \A n \in Nat : \A key \in Keys(n) : key \in Keys(n + 1)
BY DEF AllKeys, Keys

LEMMA NoCallIs ==
    /\ NoCall = [at |-> "idle", key |-> NoKey, dry |-> FALSE, version |-> 0, id |-> 0]
    /\ NoJob = [state |-> "none", key |-> NoKey, dry |-> FALSE, version |-> 0, outcome |-> "none"]
    /\ NoCall \in Calls /\ NoJob \in Jobs
<1>1. /\ NoCall = [at |-> "idle", key |-> NoKey, dry |-> FALSE, version |-> 0, id |-> 0]
      /\ NoJob = [state |-> "none", key |-> NoKey, dry |-> FALSE, version |-> 0, outcome |-> "none"]
  BY Zenon DEF NoCall, NoJob, NoKey, Free
<1>2. QED BY <1>1, KeysAre, DeliveryAssumption DEF Calls, Jobs, Places, JobStates, Free

LEMMA KeyTag ==
    ASSUME NEW n \in Nat, NEW key \in Keys(n)
    PROVE  /\ key[1] \in Kinds
           /\ key[1] = "run" => \E k \in 0..n : key = Round(k)
           /\ key[1] = "auto" => \E m \in AutoModes : key = AutoKey(m)
<1>1. (\A k \in 0..n : Round(k)[1] = "run") /\ (\A m \in AutoModes : AutoKey(m)[1] = "auto") /\ ClientKey[1] = "client"
  BY DEF Round, AutoKey, ClientKey
<1>2. QED BY <1>1 DEF Keys, Kinds

-----------------------------------------------------------------------------
(* The steps of ExportDelivery, and what leaves its invariant alone. *)
(* What a delivery job was made for never changes, nor how it ended. *)
Kept ==
    \A d \in Ids : Created(d) =>
        /\ delivery'[d].state # "none" /\ delivery'[d].key = delivery[d].key
        /\ delivery'[d].dry = delivery[d].dry /\ delivery'[d].version = delivery[d].version
        /\ delivery[d].state = "successful" => delivery'[d] = delivery[d]

LEMMA CallsFrame ==
    ASSUME \A a \in Callers : CallInv(a), UNCHANGED <<submission, reserved, delivery, call>>
    PROVE  \A a \in Callers : CallInv(a)'
BY DEF CallInv, Created

LEMMA LeaseFrame ==
    ASSUME LeaseInv, UNCHANGED <<source, lease, delivery>>
    PROVE  LeaseInv'
BY DEF LeaseInv, Finished

LEMMA ClaimFrame ==
    ASSUME ClaimInv, UNCHANGED <<reserved, delivery>>
    PROVE  ClaimInv'
BY DEF ClaimInv, Created

(* A caller that does not hold the lock may be given any place outside it. *)
LEMMA ReturnFrame ==
    ASSUME ExpInv, NEW a \in Callers, NEW c \in Calls, call' = [call EXCEPT ![a] = c],
           c.at \notin Locked, c.at = "done" => c.id \in Ids,
           submission' = (IF submission = a THEN Free ELSE submission),
           UNCHANGED <<reserved, delivery>>
    PROVE  /\ submission' \in Callers \cup {Free} /\ call' \in [Callers -> Calls]
           /\ \A b \in Callers : CallInv(b)'
<1>1. submission' \in Callers \cup {Free} /\ call' \in [Callers -> Calls] BY DEF ExpInv, ExpType
<1>2. 0 \notin Callers BY DeliveryAssumption
<1>3. ASSUME NEW b \in Callers PROVE CallInv(b)'
  <2>1. CASE b = a
    <3>1. call'[b] = c BY <2>1 DEF ExpInv, ExpType
    <3>2. submission' # b BY <1>2, <2>1 DEF Free
    <3>3. QED BY <3>1, <3>2 DEF CallInv, Created, Locked
  <2>2. CASE b # a
    <3>1. call'[b] = call[b] /\ CallInv(b) BY <2>2 DEF ExpInv, ExpType
    <3>2. submission' = b <=> submission = b BY <1>2, <2>2 DEF Free
    <3>3. QED BY <3>1, <3>2 DEF CallInv, Created
  <2>3. QED BY <2>1, <2>2
<1>4. QED BY <1>1, <1>3

(* The holder of the lock moves: the others are elsewhere. *)
LEMMA HolderFrame ==
    ASSUME ExpInv, NEW a \in Callers, NEW c \in Calls, call' = [call EXCEPT ![a] = c],
           submission \in {a, Free}, submission' = a, CallInv(a)'
    PROVE  call' \in [Callers -> Calls] /\ \A b \in Callers : CallInv(b)'
<1>1. call' \in [Callers -> Calls] BY DEF ExpInv, ExpType
<1>2. 0 \notin Callers BY DeliveryAssumption
<1>3. ASSUME NEW b \in Callers, b # a PROVE CallInv(b)'
  <2>1. call'[b] = call[b] /\ CallInv(b) BY <1>3 DEF ExpInv, ExpType
  <2>2. submission # b /\ submission' # b BY <1>2, <1>3 DEF Free
  <2>3. call[b].at \notin Locked BY <2>1, <2>2 DEF CallInv
  <2>4. QED BY <2>1, <2>2, <2>3 DEF CallInv, Locked
<1>4. QED BY <1>1, <1>3

LEMMA ExpInitInv == ExpInit => ExpInv
<1> SUFFICES ASSUME ExpInit PROVE ExpInv OBVIOUS
<1>1. ExpType
  <2>1. source \in Sources BY DeliveryAssumption DEF ExpInit, Sources, Statuses
  <2>2. QED BY <2>1, NoCallIs, DeliveryAssumption DEF ExpInit, ExpType, Free
<1>2. LeaseInv BY DEF ExpInit, LeaseInv, Finished, Free, Ids, NoJob
<1>3. ClaimInv BY DEF ExpInit, ClaimInv, Created, NoJob
<1>4. \A a \in Callers : CallInv(a) BY DeliveryAssumption DEF ExpInit, CallInv, NoCall, Locked, Free
<1>5. QED BY <1>1, <1>2, <1>3, <1>4 DEF ExpInv

(* The source moves while nobody holds it, or before it has a result. *)
LEMMA SourceMoves ==
    ASSUME ExpInv, NEW s \in Sources, source' = s, lease = Free \/ source.status = "running",
           s.status = "finished" => s.version > 0,
           UNCHANGED <<lease, submission, reserved, delivery, call, faults>>, runs' \in 0..MaxRuns
    PROVE  ExpInv' /\ Kept
<1>1. ExpType' BY DEF ExpInv, ExpType
<1>2. LeaseInv' BY DEF ExpInv, ExpType, LeaseInv, Finished, Free, Ids
<1>3. ClaimInv' BY ClaimFrame DEF ExpInv
<1>4. \A a \in Callers : CallInv(a)' BY CallsFrame DEF ExpInv
<1>5. QED BY <1>1, <1>2, <1>3, <1>4 DEF ExpInv, Kept, Created

LEMMA SourceSteps ==
    ASSUME ExpInv
    PROVE  /\ RunAgain \/ DeleteSource \/ SourceFails => ExpInv' /\ Kept
           /\ \A v \in 1..MaxVersion :
                 Finishing(v) /\ UNCHANGED <<lease, submission, reserved, delivery, call, runs, faults>>
                    => ExpInv' /\ Kept
<1>1. source \in Sources /\ runs \in 0..MaxRuns BY DEF ExpInv, ExpType
<1>2. \A st \in Statuses : [source EXCEPT !.status = st] \in Sources BY <1>1 DEF Sources
<1>3. \A v \in 1..MaxVersion : /\ [source EXCEPT !.status = "finished", !.version = v] \in Sources
                               /\ [source EXCEPT !.status = "finished", !.version = v].version = v
  <2> SUFFICES ASSUME NEW v \in 1..MaxVersion
               PROVE  /\ [source EXCEPT !.status = "finished", !.version = v] \in Sources
                      /\ [source EXCEPT !.status = "finished", !.version = v].version = v
    OBVIOUS
  <2>1. v \in 0..MaxVersion BY DeliveryAssumption
  <2>2. QED BY <1>1, <2>1 DEF Sources, Statuses
<1>4. \A st \in Statuses : [source EXCEPT !.status = st].status = st BY <1>1 DEF Sources
<1>5. ASSUME RunAgain PROVE ExpInv' /\ Kept
  <2> DEFINE s == [source EXCEPT !.status = "running"]
  <2>1. s \in Sources /\ s.status = "running" BY <1>2, <1>4 DEF Statuses
  <2>2. runs' \in 0..MaxRuns BY <1>1, <1>5, DeliveryAssumption DEF RunAgain
  <2> HIDE DEF s
  <2>3. source' = s BY <1>5 DEF RunAgain, s
  <2>4. QED BY <1>5, <2>1, <2>2, <2>3, SourceMoves DEF RunAgain, Unused
<1>6. ASSUME DeleteSource PROVE ExpInv' /\ Kept
  <2> DEFINE s == [source EXCEPT !.status = "deleted"]
  <2>1. s \in Sources /\ s.status = "deleted" BY <1>2, <1>4 DEF Statuses
  <2> HIDE DEF s
  <2>3. source' = s BY <1>6 DEF DeleteSource, s
  <2>4. QED BY <1>1, <1>6, <2>1, <2>3, SourceMoves DEF DeleteSource, Unused
<1>7. ASSUME SourceFails PROVE ExpInv' /\ Kept
  <2> DEFINE s == [source EXCEPT !.status = "failed"]
  <2>1. s \in Sources /\ s.status = "failed" BY <1>2, <1>4 DEF Statuses
  <2> HIDE DEF s
  <2>3. source' = s BY <1>7 DEF SourceFails, s
  <2>4. QED BY <1>1, <1>7, <2>1, <2>3, SourceMoves DEF SourceFails
<1>8. ASSUME NEW v \in 1..MaxVersion, Finishing(v),
             UNCHANGED <<lease, submission, reserved, delivery, call, runs, faults>>
      PROVE  ExpInv' /\ Kept
  <2> DEFINE s == [source EXCEPT !.status = "finished", !.version = v]
  <2>1. s \in Sources /\ s.version = v BY <1>3
  <2> HIDE DEF s
  <2>3. source' = s BY <1>8 DEF Finishing, s
  <2>4. s.version > 0 BY <2>1, DeliveryAssumption
  <2>5. QED BY <1>1, <1>8, <2>1, <2>3, <2>4, SourceMoves DEF Finishing
<1>9. QED BY <1>5, <1>6, <1>7, <1>8

-----------------------------------------------------------------------------
(* A submission begins, and is forgotten. *)
LEMMA CallFields ==
    ASSUME ExpInv, NEW a \in Callers
    PROVE  /\ call[a] \in Calls /\ call[a].at \in Places /\ call[a].key \in AllKeys /\ call[a].dry \in BOOLEAN
           /\ call[a].version \in 0..MaxVersion /\ call[a].id \in Ids \cup {Free}
BY DEF ExpInv, ExpType, Calls

LEMMA OnlyCalls ==
    ASSUME ExpInv, UNCHANGED <<source, lease, reserved, delivery, runs>>, faults' \in 0..MaxFaults,
           submission' \in Callers \cup {Free}, call' \in [Callers -> Calls], \A b \in Callers : CallInv(b)'
    PROVE  ExpInv' /\ Kept
<1>1. ExpType' BY DEF ExpInv, ExpType
<1>2. LeaseInv' BY LeaseFrame DEF ExpInv
<1>3. ClaimInv' BY ClaimFrame DEF ExpInv
<1>4. QED BY <1>1, <1>2, <1>3 DEF ExpInv, Kept, Created

LEMMA SubmitStarts ==
    ASSUME ExpInv, NEW a \in Callers, call[a].at = "idle", NEW key \in AllKeys, NEW dry \in BOOLEAN,
           Submit(a, key, dry), UNCHANGED <<source, lease, submission, reserved, delivery, runs, faults>>
    PROVE  /\ ExpInv' /\ Kept
           /\ call'[a].at = "find" /\ call'[a].key = key /\ call'[a].dry = dry
           /\ \A b \in Callers \ {a} : call'[b] = call[b]
<1> DEFINE c == [at |-> "find", key |-> key, dry |-> dry, version |-> 0, id |-> 0]
<1>1. c \in Calls /\ c.at = "find" /\ c.key = key /\ c.dry = dry
  BY DeliveryAssumption DEF Calls, Places, Free
<1> HIDE DEF c
<1>2. call' = [call EXCEPT ![a] = c] BY DEF Submit, c, Free
<1>3. submission # a BY DEF ExpInv, CallInv, Locked
<1>4. /\ submission' \in Callers \cup {Free} /\ call' \in [Callers -> Calls]
      /\ \A b \in Callers : CallInv(b)'
  BY <1>1, <1>2, <1>3, ReturnFrame DEF Locked
<1>5. ExpInv' /\ Kept BY <1>4, OnlyCalls DEF ExpInv, ExpType
<1>6. QED BY <1>1, <1>2, <1>5 DEF ExpInv, ExpType

LEMMA Forgets ==
    ASSUME ExpInv, NEW a \in Callers, Returned(a),
           Forget(a), UNCHANGED <<source, lease, submission, reserved, delivery, runs, faults>>
    PROVE  /\ ExpInv' /\ Kept /\ call'[a].at = "idle"
           /\ \A b \in Callers \ {a} : call'[b] = call[b]
<1>1. NoCall \in Calls /\ NoCall.at = "idle" BY NoCallIs
<1>2. call' = [call EXCEPT ![a] = NoCall] BY DEF Forget
<1>3. submission # a BY DEF ExpInv, CallInv, Locked, Returned
<1>4. /\ submission' \in Callers \cup {Free} /\ call' \in [Callers -> Calls]
      /\ \A b \in Callers : CallInv(b)'
  BY <1>1, <1>2, <1>3, ReturnFrame DEF Locked
<1>5. ExpInv' /\ Kept BY <1>4, OnlyCalls DEF ExpInv, ExpType
<1>6. QED BY <1>1, <1>2, <1>5 DEF ExpInv, ExpType

LEMMA Returns ==
    ASSUME ExpInv, NEW a \in Callers, NEW outcome \in {"busy", "refused", "done"}, Return(a, outcome),
           outcome = "done" => call[a].id \in Ids, submission \in {a, Free}
    PROVE  /\ submission' \in Callers \cup {Free} /\ call' \in [Callers -> Calls]
           /\ UNCHANGED <<reserved, delivery>> => \A b \in Callers : CallInv(b)'
           /\ call'[a] = [call[a] EXCEPT !.at = outcome] /\ call'[a].at = outcome
           /\ \A b \in Callers \ {a} : call'[b] = call[b]
<1>1. PICK c : c = [call[a] EXCEPT !.at = outcome] OBVIOUS
<1>2. c \in Calls /\ c.at = outcome /\ c.id = call[a].id BY <1>1, CallFields DEF Calls, Places
<1>3. call' = [call EXCEPT ![a] = c] BY <1>1 DEF Return
<1>4. submission' = (IF submission = a THEN Free ELSE submission) BY DEF Return
<1>5. submission' \in Callers \cup {Free} /\ call' \in [Callers -> Calls]
  BY <1>2, <1>3 DEF Return, ExpInv, ExpType
<1>6. UNCHANGED <<reserved, delivery>> => \A b \in Callers : CallInv(b)'
  BY <1>2, <1>3, <1>4, ReturnFrame DEF Locked
<1>7. QED BY <1>1, <1>2, <1>3, <1>5, <1>6 DEF ExpInv, ExpType

-----------------------------------------------------------------------------
(* The steps of a submission. *)
LEMMA LeastId ==
    ASSUME NEW S, S \subseteq Ids, S # {} PROVE \E d \in S : \A e \in S : d <= e
<1>1. PICK R : R = {ss \in Nat \X Nat : ss[1] < ss[2]}
  OBVIOUS
<1>2. IsWellFoundedOn(R, Nat)
  BY <1>1, NatLessThanWellFounded DEF OpToRel
<1>3. S \subseteq Nat
  BY DeliveryAssumption DEF Ids
<1>4. PICK d \in S : \A e \in S : ~ (<<e, d>> \in R)
  BY <1>2, <1>3, WFMin
<1>5. ASSUME NEW e \in S PROVE d <= e
  <2>1. d \in Nat /\ e \in Nat
    BY <1>3
  <2>2. e < d => <<e, d>> \in R
    BY <1>1, <2>1
  <2> QED BY <1>4, <2>1, <2>2
<1> QED BY <1>4, <1>5

(* What a step of a's submission does to the rest. *)
Moves(a) ==
    LET c == call[a] IN
    /\ source'.status = source.status /\ source'.version = source.version
    /\ \A b \in Callers \ {a} : call'[b] = call[b]
    /\ c.at # "idle" /\ call'[a].at # "idle" /\ call'[a].key = c.key /\ call'[a].dry = c.dry
    /\ source'.links = source.links \/ (c.at = "link" /\ KeyMade(c.key))
    /\ reserved' = reserved \/ (c.at = "reserve" /\ reserved' = reserved \cup {Claim(c, c.id)})
    /\ call'[a].at \in {"reserve", "create"} =>
          \/ c.at \in {"reserve", "create"} /\ call'[a].version = c.version
          \/ Finished /\ call'[a].version = source.version /\ ~KeyMade(c.key)
    /\ \A d \in Ids : Created(d)' /\ ~Created(d) => c.at = "create" /\ delivery'[d].key = c.key

LEMMA ReturnMoves ==
    ASSUME ExpInv, NEW a \in Callers, NEW outcome \in {"busy", "refused", "done"}, Return(a, outcome),
           call[a].at # "idle", outcome = "done" => call[a].id \in Ids, submission \in {a, Free},
           UNCHANGED <<source, lease, reserved, delivery, runs>>, faults' \in 0..MaxFaults
    PROVE  ExpInv' /\ Kept /\ Moves(a)
<1>1. /\ submission' \in Callers \cup {Free} /\ call' \in [Callers -> Calls]
      /\ \A b \in Callers : CallInv(b)'
      /\ call'[a] = [call[a] EXCEPT !.at = outcome] /\ call'[a].at = outcome
      /\ \A b \in Callers \ {a} : call'[b] = call[b]
  BY Returns
<1>2. ExpInv' /\ Kept BY <1>1, OnlyCalls
<1>3. call'[a].key = call[a].key /\ call'[a].dry = call[a].dry BY <1>1, CallFields DEF Calls
<1>4. Moves(a) BY <1>1, <1>3 DEF Moves, Created
<1>5. QED BY <1>2, <1>4

LEMMA GoesOn ==
    ASSUME ExpInv, NEW a \in Callers, submission \in {a, Free}, NEW at \in {"link", "reserve", "create"},
           NEW version \in 0..MaxVersion, NEW id \in Ids, Goes(a, at, version, id)
    PROVE  /\ call' \in [Callers -> Calls] /\ submission' \in Callers \cup {Free}
           /\ call'[a].at = at /\ call'[a].key = call[a].key /\ call'[a].dry = call[a].dry
           /\ call'[a].version = version /\ call'[a].id = id
           /\ \A b \in Callers \ {a} : call'[b] = call[b]
           /\ CallInv(a)' => \A b \in Callers : CallInv(b)'
<1> DEFINE c == [at |-> at, key |-> call[a].key, dry |-> call[a].dry, version |-> version, id |-> id]
<1>1. /\ c \in Calls /\ c.at = at /\ c.key = call[a].key /\ c.dry = call[a].dry
      /\ c.version = version /\ c.id = id
  BY CallFields DEF Calls, Places
<1>2. call' = [call EXCEPT ![a] = c] /\ submission' = a BY DEF Goes
<1> HIDE DEF c
<1>3. CallInv(a)' => call' \in [Callers -> Calls] /\ \A b \in Callers : CallInv(b)'
  BY <1>1, <1>2, HolderFrame
<1>4. call' \in [Callers -> Calls] /\ call'[a] = c /\ \A b \in Callers \ {a} : call'[b] = call[b]
  BY <1>1, <1>2 DEF ExpInv, ExpType
<1>5. QED BY <1>1, <1>2, <1>3, <1>4

LEMMA FindReusedMoves ==
    ASSUME ExpInv, NEW a \in Callers, FindReused(a) PROVE ExpInv' /\ Kept /\ Moves(a)
<1>1. /\ submission = Free /\ call[a].at = "find"
      /\ UNCHANGED <<source, lease, reserved, delivery, runs, faults>>
  BY DEF FindReused, Locks
<1>2. PICK r \in reserved : /\ r.key = call[a].key /\ Created(r.id)
                            /\ Goes(a, "link", call[a].version, r.id) \/ Return(a, "refused")
  BY DEF FindReused, Reservations
<1>3. CASE Return(a, "refused") BY <1>1, <1>3, ReturnMoves DEF ExpInv, ExpType
<1>4. CASE Goes(a, "link", call[a].version, r.id)
  <2>1. r.id \in Ids /\ call[a].version \in 0..MaxVersion /\ r \in Claims
    BY CallFields DEF ExpInv, ExpType, Claims
  <2>2. delivery[r.id].key = r.key
    <3>1. Claim(delivery[r.id], r.id) \in reserved BY <1>2, <2>1 DEF ExpInv, ClaimInv
    <3>2. Claim(delivery[r.id], r.id) = r BY <3>1 DEF ExpInv, ClaimInv, Claim
    <3>3. QED BY <3>2 DEF Claim
  <2>3. /\ call' \in [Callers -> Calls] /\ submission' \in Callers \cup {Free}
        /\ call'[a].at = "link" /\ call'[a].key = call[a].key /\ call'[a].dry = call[a].dry /\ call'[a].id = r.id
        /\ \A b \in Callers \ {a} : call'[b] = call[b]
        /\ CallInv(a)' => \A b \in Callers : CallInv(b)'
    BY <1>1, <1>4, <2>1, GoesOn
  <2>4. submission' = a BY <1>4 DEF Goes
  <2>5. CallInv(a)' BY <1>1, <1>2, <2>1, <2>2, <2>3, <2>4 DEF CallInv, Created, Locked
  <2>6. ExpInv' /\ Kept BY <1>1, <2>3, <2>5, OnlyCalls DEF ExpInv, ExpType
  <2>7. Moves(a) BY <1>1, <2>3 DEF Moves, Created
  <2>8. QED BY <2>6, <2>7
<1>5. QED BY <1>2, <1>3, <1>4

(* Whose key has a reservation without a job has no job. *)
LEMMA NotMade ==
    ASSUME ExpInv, NEW key, \A r \in reserved : r.key = key => ~Created(r.id)
    PROVE  ~KeyMade(key)
<1> SUFFICES ASSUME NEW d \in Ids, Created(d), delivery[d].key = key PROVE FALSE BY DEF KeyMade
<1>1. PICK r : r = Claim(delivery[d], d) OBVIOUS
<1>2. r \in reserved BY <1>1 DEF ExpInv, ClaimInv
<1>3. r.key = key /\ r.id = d BY <1>1 DEF Claim
<1>4. QED BY <1>2, <1>3

LEMMA FindNewMoves ==
    ASSUME ExpInv, NEW a \in Callers, FindNew(a) PROVE ExpInv' /\ Kept /\ Moves(a)
<1> DEFINE found == Reservations(call[a].key)
           fresh == {d \in Ids : ~Created(d) /\ \A r \in reserved : r.id # d}
<1>1. /\ submission = Free /\ call[a].at = "find"
      /\ UNCHANGED <<source, lease, reserved, delivery, runs, faults>>
      /\ \A r \in found : ~Created(r.id)
  BY DEF FindNew, Locks
<1>2. ~KeyMade(call[a].key) BY <1>1, NotMade DEF Reservations
<1>3. \/ Return(a, "refused") \/ Return(a, "busy")
      \/ /\ Finished /\ \A r \in found : r.dry = call[a].dry /\ r.version = source.version
         /\ \/ /\ found = {} /\ fresh # {}
               /\ Goes(a, "reserve", source.version, CHOOSE d \in fresh : \A e \in fresh : d <= e)
            \/ found # {} /\ Goes(a, "create", source.version, (CHOOSE r \in found : TRUE).id)
  BY DEF FindNew
<1>4. CASE Return(a, "refused") \/ Return(a, "busy")
  BY <1>1, <1>4, ReturnMoves DEF ExpInv, ExpType
<1>5. source.version \in 0..MaxVersion /\ (Finished => source.version > 0)
  BY DEF ExpInv, ExpType, Sources, LeaseInv
<1>6. ASSUME NEW at \in {"reserve", "create"}, NEW id \in Ids, Finished, Goes(a, at, source.version, id),
             ~Created(id), at = "reserve" => \A r \in reserved : r.key # call[a].key /\ r.id # id,
             at = "create" => [key |-> call[a].key, dry |-> call[a].dry, version |-> source.version, id |-> id]
                                  \in reserved
      PROVE  ExpInv' /\ Kept /\ Moves(a)
  <2>1. /\ call' \in [Callers -> Calls] /\ submission' \in Callers \cup {Free}
        /\ call'[a].at = at /\ call'[a].key = call[a].key /\ call'[a].dry = call[a].dry
        /\ call'[a].version = source.version /\ call'[a].id = id
        /\ \A b \in Callers \ {a} : call'[b] = call[b]
        /\ CallInv(a)' => \A b \in Callers : CallInv(b)'
    BY <1>1, <1>5, <1>6, GoesOn
  <2>2. submission' = a BY <1>6 DEF Goes
  <2>3. at = "create" => Claim(call'[a], call'[a].id) \in reserved BY <1>6, <2>1 DEF Claim
  <2>4. CallInv(a)' BY <1>1, <1>5, <1>6, <2>1, <2>2, <2>3 DEF CallInv, Created, Locked, Claim
  <2>5. ExpInv' /\ Kept BY <1>1, <2>1, <2>4, OnlyCalls DEF ExpInv, ExpType
  <2>6. Moves(a) BY <1>1, <1>2, <1>6, <2>1 DEF Moves, Created
  <2>7. QED BY <2>5, <2>6
<1>7. CASE /\ Finished /\ found = {} /\ fresh # {}
           /\ Goes(a, "reserve", source.version, CHOOSE d \in fresh : \A e \in fresh : d <= e)
  <2>1. \E d \in fresh : \A e \in fresh : d <= e BY <1>7, LeastId
  <2>2. PICK id : id = CHOOSE d \in fresh : \A e \in fresh : d <= e OBVIOUS
  <2>3. id \in fresh BY <2>1, <2>2
  <2>4. Goes(a, "reserve", source.version, id) BY <1>7, <2>2
  <2>5. \A r \in reserved : r.key # call[a].key BY <1>7 DEF Reservations
  <2>6. QED BY <1>6, <1>7, <2>3, <2>4, <2>5
<1>8. CASE /\ Finished /\ \A r \in found : r.dry = call[a].dry /\ r.version = source.version
           /\ found # {} /\ Goes(a, "create", source.version, (CHOOSE r \in found : TRUE).id)
  <2>1. PICK r : r = CHOOSE q \in found : TRUE OBVIOUS
  <2>2. r \in found BY <1>8, <2>1
  <2>3. r \in reserved /\ r.key = call[a].key BY <2>2 DEF Reservations
  <2>4. r \in Claims BY <2>3 DEF ExpInv, ExpType
  <2>5. r.id \in Ids /\ r = [key |-> r.key, dry |-> r.dry, version |-> r.version, id |-> r.id]
    BY <2>4 DEF Claims
  <2>6. r = [key |-> call[a].key, dry |-> call[a].dry, version |-> source.version, id |-> r.id]
    BY <1>8, <2>2, <2>3, <2>5
  <2>7. Goes(a, "create", source.version, r.id) /\ ~Created(r.id) BY <1>1, <1>8, <2>1, <2>2
  <2>8. QED BY <1>6, <1>8, <2>3, <2>5, <2>6, <2>7
<1>9. QED BY <1>3, <1>4, <1>7, <1>8

(* A place alone changes. *)
LEMMA PlaceOnly ==
    ASSUME ExpInv, NEW a \in Callers, NEW at \in Places, call' = [call EXCEPT ![a].at = at]
    PROVE  \E c \in Calls : /\ call' = [call EXCEPT ![a] = c] /\ call'[a] = c /\ c.at = at
                            /\ c.key = call[a].key /\ c.dry = call[a].dry
                            /\ c.version = call[a].version /\ c.id = call[a].id
                            /\ \A b \in Callers \ {a} : call'[b] = call[b]
<1>1. PICK c : c = [call[a] EXCEPT !.at = at] OBVIOUS
<1>2. /\ c \in Calls /\ c.at = at /\ c.key = call[a].key /\ c.dry = call[a].dry
      /\ c.version = call[a].version /\ c.id = call[a].id
  BY <1>1, CallFields DEF Calls
<1>3. call' = [call EXCEPT ![a] = c] BY <1>1
<1>4. QED BY <1>2, <1>3 DEF ExpInv, ExpType

LEMMA ReserveMoves ==
    ASSUME ExpInv, NEW a \in Callers, Reserve(a) PROVE ExpInv' /\ Kept /\ Moves(a)
<1>1. /\ call[a].at = "reserve" /\ call' = [call EXCEPT ![a].at = "create"]
      /\ reserved' = reserved \cup {Claim(call[a], call[a].id)}
      /\ UNCHANGED <<source, lease, submission, delivery, runs, faults>>
  BY DEF Reserve, Claim
<1>2. PICK new : new = Claim(call[a], call[a].id) OBVIOUS
<1>3. /\ submission = a /\ call[a].id \in Ids /\ call[a].version > 0 /\ ~Created(call[a].id)
      /\ \A r \in reserved : r.key # call[a].key /\ r.id # call[a].id
  BY <1>1 DEF ExpInv, CallInv, Locked
<1>4. new \in Claims /\ new.key = call[a].key /\ new.id = call[a].id
  <2>1. call[a].version \in 1..MaxVersion BY <1>3, CallFields, DeliveryAssumption
  <2>2. QED BY <1>2, <1>3, <2>1, CallFields DEF Claim, Claims
<1>5. PICK c \in Calls :
        /\ call' = [call EXCEPT ![a] = c] /\ call'[a] = c /\ c.at = "create"
        /\ c.key = call[a].key /\ c.dry = call[a].dry /\ c.version = call[a].version /\ c.id = call[a].id
        /\ \A b \in Callers \ {a} : call'[b] = call[b]
  <2>1. PICK at \in Places : at = "create" BY DEF Places
  <2>2. call' = [call EXCEPT ![a].at = at] BY <1>1, <2>1
  <2>3. QED BY <2>1, <2>2, PlaceOnly
<1>6. Claim(c, c.id) = new BY <1>2, <1>5 DEF Claim
<1>7. CallInv(a)' BY <1>1, <1>2, <1>3, <1>5, <1>6 DEF CallInv, Locked, Created
<1>8. call' \in [Callers -> Calls] /\ \A b \in Callers : CallInv(b)'
  BY <1>1, <1>3, <1>5, <1>7, HolderFrame
<1>9. ClaimInv'
  <2>1. reserved' = reserved \cup {new} BY <1>1, <1>2
  <2>2. \A r \in reserved : r.key # new.key /\ r.id # new.id BY <1>3, <1>4
  <2>3. QED BY <1>1, <2>1, <2>2 DEF ExpInv, ClaimInv, Created
<1>10. ExpType' BY <1>1, <1>2, <1>4, <1>8 DEF ExpInv, ExpType
<1>11. LeaseInv' BY <1>1, LeaseFrame DEF ExpInv
<1>12. ExpInv' /\ Kept BY <1>1, <1>8, <1>9, <1>10, <1>11 DEF ExpInv, Kept, Created
<1>13. Moves(a) BY <1>1, <1>5 DEF Moves, Created
<1>14. QED BY <1>12, <1>13

LEMMA EnqueueMoves ==
    ASSUME ExpInv, NEW a \in Callers, Enqueue(a) PROVE ExpInv' /\ Kept /\ Moves(a)
<1> DEFINE d == call[a].id
           j == [state |-> "accepted", key |-> call[a].key, dry |-> call[a].dry,
                 version |-> call[a].version, outcome |-> "none"]
<1>1. /\ call[a].at = "create" /\ call' = [call EXCEPT ![a].at = "link"] /\ delivery' = [delivery EXCEPT ![d] = j]
      /\ UNCHANGED <<source, lease, submission, reserved, runs, faults>>
  BY DEF Enqueue
<1>2. submission = a /\ d \in Ids /\ ~Created(d) /\ Claim(call[a], d) \in reserved
  BY <1>1 DEF ExpInv, CallInv, Locked
<1>3. j \in Jobs /\ j.state = "accepted" /\ j.key = call[a].key /\ Claim(j, d) = Claim(call[a], d)
  BY CallFields DEF Jobs, JobStates, Claim
<1> HIDE DEF j
<1>4. /\ delivery' \in [Ids -> Jobs] /\ delivery'[d] = j
      /\ \A e \in Ids \ {d} : delivery'[e] = delivery[e]
  BY <1>1, <1>2, <1>3 DEF ExpInv, ExpType
<1>5. PICK c \in Calls :
        /\ call' = [call EXCEPT ![a] = c] /\ call'[a] = c /\ c.at = "link"
        /\ c.key = call[a].key /\ c.dry = call[a].dry /\ c.version = call[a].version /\ c.id = call[a].id
        /\ \A b \in Callers \ {a} : call'[b] = call[b]
  <2>1. PICK at \in Places : at = "link" BY DEF Places
  <2>2. call' = [call EXCEPT ![a].at = at] BY <1>1, <2>1
  <2>3. QED BY <2>1, <2>2, PlaceOnly
<1>6. CallInv(a)' BY <1>1, <1>2, <1>3, <1>4, <1>5 DEF CallInv, Locked, Created
<1>7. call' \in [Callers -> Calls] /\ \A b \in Callers : CallInv(b)'
  BY <1>1, <1>2, <1>5, <1>6, HolderFrame
<1>8. ClaimInv'
  <2>1. ASSUME NEW e \in Ids, Created(e)' PROVE Claim(delivery'[e], e) \in reserved'
    <3>1. CASE e = d BY <1>1, <1>2, <1>3, <1>4, <3>1
    <3>2. CASE e # d
      <4>1. delivery'[e] = delivery[e] /\ Created(e) BY <1>4, <2>1, <3>2 DEF Created
      <4>2. Claim(delivery[e], e) \in reserved BY <4>1 DEF ExpInv, ClaimInv
      <4>3. QED BY <1>1, <4>1, <4>2
    <3>3. QED BY <3>1, <3>2
  <2>2. \A r, s \in reserved' : r.key = s.key \/ r.id = s.id => r = s BY <1>1 DEF ExpInv, ClaimInv
  <2>3. QED BY <2>1, <2>2 DEF ClaimInv
<1>9. LeaseInv'
  <2>1. delivery[d].state # "running" BY <1>2 DEF Created
  <2>2. lease # d BY <1>2, <2>1 DEF ExpInv, LeaseInv
  <2>3. QED BY <1>1, <1>3, <1>4, <2>2 DEF ExpInv, LeaseInv, Finished
<1>10. ExpType' BY <1>1, <1>4, <1>7 DEF ExpInv, ExpType
<1>11. Kept BY <1>2, <1>4 DEF Kept, Created
<1>12. Moves(a) BY <1>1, <1>3, <1>4, <1>5 DEF Moves, Created
<1>13. QED BY <1>7, <1>8, <1>9, <1>10, <1>11, <1>12 DEF ExpInv

LEMMA LinkMoves ==
    ASSUME ExpInv, NEW a \in Callers, Link(a) PROVE ExpInv' /\ Kept /\ Moves(a)
<1>1. /\ call[a].at = "link" /\ Return(a, "done")
      /\ source' = IF source.status = "deleted" THEN source
                   ELSE [source EXCEPT !.links = source.links \cup {call[a].id}]
      /\ UNCHANGED <<lease, reserved, delivery, runs, faults>>
  BY DEF Link
<1>2. submission = a /\ call[a].id \in Ids /\ Created(call[a].id) /\ delivery[call[a].id].key = call[a].key
  BY <1>1 DEF ExpInv, CallInv, Locked
<1>3. /\ source' \in Sources /\ source'.status = source.status /\ source'.version = source.version
      /\ source'.links = source.links \cup {call[a].id} \/ source'.links = source.links
  <2>1. source \in Sources BY DEF ExpInv, ExpType
  <2>2. PICK links \in SUBSET Ids : links = source.links \cup {call[a].id} BY <1>2, <2>1 DEF Sources
  <2>3. source' = source \/ source' = [source EXCEPT !.links = links] BY <1>1, <2>2
  <2>4. QED BY <2>1, <2>2, <2>3 DEF Sources
<1>4. /\ submission' \in Callers \cup {Free} /\ call' \in [Callers -> Calls]
      /\ \A b \in Callers : CallInv(b)'
      /\ call'[a] = [call[a] EXCEPT !.at = "done"] /\ call'[a].at = "done"
      /\ \A b \in Callers \ {a} : call'[b] = call[b]
  BY <1>1, <1>2, Returns
<1>5. call'[a].key = call[a].key /\ call'[a].dry = call[a].dry BY <1>4, CallFields DEF Calls
<1>6. ExpType' BY <1>1, <1>3, <1>4 DEF ExpInv, ExpType
<1>7. LeaseInv' BY <1>1, <1>3 DEF ExpInv, LeaseInv, Finished
<1>8. ClaimInv' BY <1>1, ClaimFrame DEF ExpInv
<1>9. KeyMade(call[a].key) BY <1>2 DEF KeyMade
<1>10. Moves(a) BY <1>1, <1>3, <1>4, <1>5, <1>9 DEF Moves, Created
<1>11. QED BY <1>1, <1>4, <1>6, <1>7, <1>8, <1>10 DEF ExpInv, Kept, Created

LEMMA SubmissionFailsMoves ==
    ASSUME ExpInv, NEW a \in Callers, SubmissionFails(a) PROVE ExpInv' /\ Kept /\ Moves(a)
<1>1. /\ faults' \in 0..MaxFaults /\ UNCHANGED <<source, lease, reserved, delivery, runs>>
      /\ \/ submission = Free /\ call[a].at = "find" /\ Return(a, "refused")
         \/ submission = a /\ Return(a, "busy")
  BY DeliveryAssumption DEF SubmissionFails, Locks, ExpInv, ExpType
<1>2. submission = a => call[a].at # "idle" BY DEF ExpInv, CallInv, Locked
<1>3. QED BY <1>1, <1>2, ReturnMoves

-----------------------------------------------------------------------------
(* Delivery jobs. *)
LEMMA JobChanges ==
    ASSUME ExpInv, NEW d \in Ids, Created(d), NEW j \in Jobs, delivery' = [delivery EXCEPT ![d] = j],
           j.key = delivery[d].key, j.dry = delivery[d].dry, j.version = delivery[d].version, j.state # "none",
           delivery[d].state = "successful" => j = delivery[d],
           UNCHANGED <<source, submission, reserved, call, runs, faults>>, lease' \in Ids \cup {Free},
           LeaseInv'
    PROVE  ExpInv' /\ Kept /\ \A e \in Ids : Created(e)' <=> Created(e)
<1>1. /\ delivery' \in [Ids -> Jobs] /\ delivery'[d] = j
      /\ \A e \in Ids \ {d} : delivery'[e] = delivery[e]
  BY DEF ExpInv, ExpType
<1>2. \A e \in Ids : /\ delivery'[e].key = delivery[e].key /\ delivery'[e].dry = delivery[e].dry
                     /\ delivery'[e].version = delivery[e].version /\ (Created(e)' <=> Created(e))
  BY <1>1 DEF Created
<1>3. Kept BY <1>1, <1>2 DEF Kept, Created
<1>4. ExpType' BY <1>1 DEF ExpInv, ExpType
<1>5. ClaimInv'
  <2>1. \A e \in Ids : Claim(delivery'[e], e) = Claim(delivery[e], e) BY <1>2 DEF Claim
  <2>2. QED BY <1>2, <2>1 DEF ExpInv, ClaimInv
<1>6. ASSUME NEW a \in Callers PROVE CallInv(a)'
  <2>1. CallInv(a) BY DEF ExpInv
  <2>2. QED BY <1>2, <2>1 DEF CallInv, Locked
<1>7. QED BY <1>2, <1>3, <1>4, <1>5, <1>6 DEF ExpInv

\* A job whose state is set.
LEMMA JobState ==
    ASSUME ExpInv, NEW d \in Ids, NEW st \in JobStates, NEW j, j = [delivery[d] EXCEPT !.state = st]
    PROVE  /\ j \in Jobs /\ j.state = st /\ j.key = delivery[d].key /\ j.dry = delivery[d].dry
           /\ j.version = delivery[d].version /\ j.outcome = delivery[d].outcome
<1>1. delivery[d] \in Jobs BY DEF ExpInv, ExpType
<1>2. QED BY <1>1 DEF Jobs

LEMMA StartDeliveryKeeps ==
    ASSUME ExpInv, NEW d \in Ids, StartDelivery(d)
    PROVE  ExpInv' /\ Kept /\ \A e \in Ids : Created(e)' <=> Created(e)
<1>1. /\ delivery[d].state = "accepted" /\ UNCHANGED <<source, submission, reserved, call, runs, faults>>
      /\ \/ /\ lease = Free /\ Finished /\ Same(d) /\ lease' = d
            /\ delivery' = [delivery EXCEPT ![d].state = "running"]
         \/ delivery' = [delivery EXCEPT ![d].state = "failed"] /\ lease' = lease
  BY DEF StartDelivery
<1>2. PICK st \in {"running", "failed"} :
        /\ delivery' = [delivery EXCEPT ![d].state = st]
        /\ st = "running" => lease = Free /\ Finished /\ Same(d) /\ lease' = d
        /\ st = "failed" => lease' = lease
  BY <1>1
<1>3. PICK j : j = [delivery[d] EXCEPT !.state = st] OBVIOUS
<1>4. /\ j \in Jobs /\ j.state = st /\ j.key = delivery[d].key /\ j.dry = delivery[d].dry
      /\ j.version = delivery[d].version
  BY <1>3, JobState DEF JobStates
<1>5. delivery' = [delivery EXCEPT ![d] = j] BY <1>2, <1>3
<1>6. delivery'[d] = j /\ \A e \in Ids \ {d} : delivery'[e] = delivery[e] BY <1>5 DEF ExpInv, ExpType
<1>7. Free \notin Ids BY DEF Free, Ids
<1>8. LeaseInv'
  <2>1. CASE st = "running"
    BY <1>1, <1>2, <1>4, <1>6, <1>7, <2>1 DEF ExpInv, LeaseInv, Finished, Same
  <2>2. CASE st = "failed"
    BY <1>1, <1>2, <1>4, <1>6, <2>2 DEF ExpInv, LeaseInv, Finished
  <2>3. QED BY <2>1, <2>2
<1>9. lease' \in Ids \cup {Free} BY <1>1 DEF ExpInv, ExpType
<1>10. QED BY <1>1, <1>2, <1>4, <1>5, <1>8, <1>9, JobChanges DEF Created

LEMMA EndDeliveryKeeps ==
    ASSUME ExpInv, NEW d \in Ids, EndDelivery(d)
    PROVE  ExpInv' /\ Kept /\ \A e \in Ids : Created(e)' <=> Created(e)
<1>1. /\ delivery[d].state = "running" /\ lease' = Free
      /\ UNCHANGED <<source, submission, reserved, call, runs, faults>>
  BY DEF EndDelivery
<1>2. PICK j \in Jobs : /\ delivery' = [delivery EXCEPT ![d] = j]
                        /\ j.state \notin {"none", "running"} /\ j.key = delivery[d].key
                        /\ j.dry = delivery[d].dry /\ j.version = delivery[d].version
  <2>1. CASE \E outcome \in {"success", "conflicts", "unknown"} :
                delivery' = [delivery EXCEPT ![d].state = "successful", ![d].outcome = outcome]
    <3>1. PICK outcome \in {"success", "conflicts", "unknown"} :
              delivery' = [delivery EXCEPT ![d].state = "successful", ![d].outcome = outcome]
      BY <2>1
    <3>2. PICK k : k = [delivery[d] EXCEPT !.state = "successful"] OBVIOUS
    <3>3. /\ k \in Jobs /\ k.state = "successful" /\ k.key = delivery[d].key /\ k.dry = delivery[d].dry
          /\ k.version = delivery[d].version
      BY <3>2, JobState DEF JobStates
    <3>4. PICK j : j = [k EXCEPT !.outcome = outcome] OBVIOUS
    <3>5. /\ j \in Jobs /\ j.state = "successful" /\ j.key = delivery[d].key /\ j.dry = delivery[d].dry
          /\ j.version = delivery[d].version
      BY <3>3, <3>4 DEF Jobs
    <3>6. delivery' = [delivery EXCEPT ![d] = j]
      <4>1. delivery' = [[delivery EXCEPT ![d] = k] EXCEPT ![d] = j] BY <3>1, <3>2, <3>4 DEF ExpInv, ExpType
      <4>2. QED BY <4>1 DEF ExpInv, ExpType
    <3>7. QED BY <3>5, <3>6
  <2>2. CASE \E st \in {"failed", "cancelled"} : delivery' = [delivery EXCEPT ![d].state = st]
    <3>1. PICK st \in {"failed", "cancelled"} : delivery' = [delivery EXCEPT ![d].state = st] BY <2>2
    <3>2. PICK j : j = [delivery[d] EXCEPT !.state = st] OBVIOUS
    <3>3. /\ j \in Jobs /\ j.state = st /\ j.key = delivery[d].key /\ j.dry = delivery[d].dry
          /\ j.version = delivery[d].version
      BY <3>2, JobState DEF JobStates
    <3>4. delivery' = [delivery EXCEPT ![d] = j] BY <3>1, <3>2
    <3>5. QED BY <3>3, <3>4
  <2>3. QED BY <2>1, <2>2 DEF EndDelivery
<1>3. delivery'[d] = j /\ \A e \in Ids \ {d} : delivery'[e] = delivery[e] BY <1>2 DEF ExpInv, ExpType
<1>4. Free \notin Ids BY DEF Free, Ids
<1>5. lease = d BY <1>1 DEF ExpInv, LeaseInv
<1>6. LeaseInv' BY <1>1, <1>2, <1>3, <1>4, <1>5 DEF ExpInv, LeaseInv, Finished
<1>7. QED BY <1>1, <1>2, <1>6, JobChanges DEF Created

LEMMA CrashKeeps ==
    ASSUME ExpInv, ExpCrash, UNCHANGED source
    PROVE  /\ ExpInv' /\ Kept /\ \A e \in Ids : Created(e)' <=> Created(e)
           /\ \A a \in Callers : call'[a].at = "idle"
<1>1. /\ lease' = Free /\ submission' = Free /\ call' = [a \in Callers |-> NoCall]
      /\ UNCHANGED <<source, reserved, runs, faults>>
  BY DEF ExpCrash
<1>2. ASSUME NEW d \in Ids
      PROVE  /\ delivery'[d] \in Jobs /\ delivery'[d].state # "running" /\ (Created(d)' <=> Created(d))
             /\ delivery'[d].key = delivery[d].key /\ delivery'[d].dry = delivery[d].dry
             /\ delivery'[d].version = delivery[d].version
             /\ delivery[d].state = "successful" => delivery'[d] = delivery[d]
  <2>1. PICK j : j = [delivery[d] EXCEPT !.state = "accepted"] OBVIOUS
  <2>2. /\ j \in Jobs /\ j.state = "accepted" /\ j.key = delivery[d].key /\ j.dry = delivery[d].dry
        /\ j.version = delivery[d].version
    BY <2>1, JobState DEF JobStates
  <2>3. delivery'[d] = IF delivery[d].state = "running" THEN j ELSE delivery[d] BY <2>1 DEF ExpCrash
  <2>4. delivery[d] \in Jobs BY DEF ExpInv, ExpType
  <2>5. QED BY <2>2, <2>3, <2>4 DEF Created
<1>3. delivery' \in [Ids -> Jobs]
  <2>1. delivery' = [d \in Ids |-> delivery'[d]] BY DEF ExpCrash
  <2>2. QED BY <1>2, <2>1
<1>4. NoCall \in Calls /\ NoCall.at = "idle" BY NoCallIs
<1>5. ExpType' BY <1>1, <1>3, <1>4 DEF ExpInv, ExpType
<1>6. Free \notin Ids /\ Free \notin Callers BY DeliveryAssumption DEF Free, Ids
<1>7. LeaseInv' BY <1>1, <1>2, <1>6 DEF ExpInv, LeaseInv, Finished
<1>8. ClaimInv'
  <2>1. \A e \in Ids : Claim(delivery'[e], e) = Claim(delivery[e], e) BY <1>2 DEF Claim
  <2>2. QED BY <1>1, <1>2, <2>1 DEF ExpInv, ClaimInv
<1>9. \A a \in Callers : CallInv(a)' BY <1>1, <1>4, <1>6 DEF CallInv, Locked
<1>10. Kept BY <1>2 DEF Kept, Created
<1>11. QED BY <1>1, <1>2, <1>4, <1>5, <1>7, <1>8, <1>9, <1>10 DEF ExpInv

LEMMA ExpStill ==
    ASSUME ExpInv, UNCHANGED exp PROVE ExpInv' /\ Kept
<1>1. UNCHANGED <<source, lease, submission, reserved, delivery, call, runs, faults>> BY DEF exp
<1>2. ExpType' BY <1>1 DEF ExpInv, ExpType
<1>3. QED BY <1>1, <1>2, LeaseFrame, ClaimFrame, CallsFrame DEF ExpInv, Kept, Created

(* While a delivery job sends, the source is what was submitted. *)
LEMMA SentFromInv ==
    ASSUME ExpInv PROVE SentIsSubmitted /\ KeyOwnsItsJob
<1>1. ASSUME NEW d \in Ids, Created(d)
      PROVE  \E r \in reserved : /\ r.id = d /\ r.key = delivery[d].key /\ r.version = delivery[d].version
                                 /\ r.dry = delivery[d].dry
  <2>1. PICK r : r = Claim(delivery[d], d) OBVIOUS
  <2>2. r \in reserved BY <1>1, <2>1 DEF ExpInv, ClaimInv
  <2>3. QED BY <2>1, <2>2 DEF Claim
<1>2. SentIsSubmitted BY <1>1 DEF ExpInv, LeaseInv, SentIsSubmitted, Created
<1>3. KeyOwnsItsJob BY <1>1 DEF ExpInv, ClaimInv, KeyOwnsItsJob, Reservations
<1>4. QED BY <1>2, <1>3

-----------------------------------------------------------------------------
(* Whose keys there are. *)
Suits(b, kind) ==
    /\ kind = "run"  => b \in Actors
    /\ kind = "auto" => b \in Threads
    /\ IF owner = "pipeline" THEN b \in Actors ELSE IF owner = "trigger" THEN b \in Threads ELSE b \in Clients

LEMMA KindStep ==
    ASSUME KindInv, OwnerInv, rounds \in Nat, rounds' \in {rounds, rounds + 1}, owner' = owner,
           \A b \in Callers : call'[b].at # "idle" =>
               \/ call[b].at # "idle" /\ call'[b].key = call[b].key
               \/ call'[b].key \in Keys(rounds') /\ Suits(b, call'[b].key[1]),
           \A r \in reserved' : \/ r \in reserved
                                \/ \E b \in Callers : call[b].at # "idle" /\ r.key = call[b].key
    PROVE  KindInv' /\ OwnerInv'
<1>1. \A key \in Keys(rounds) : key \in Keys(rounds')
  BY KeysAre
<1>2. ASSUME NEW b \in Callers, call'[b].at # "idle"
      PROVE  /\ call'[b].key \in Keys(rounds')
             /\ call'[b].key[1] = "run"  => b \in Actors
             /\ call'[b].key[1] = "auto" => b \in Threads
             /\ IF owner = "pipeline" THEN b \in Actors
                ELSE IF owner = "trigger" THEN b \in Threads ELSE b \in Clients
  <2>1. CASE call[b].at # "idle" /\ call'[b].key = call[b].key
    BY <1>1, <2>1 DEF KindInv, OwnerInv
  <2>2. CASE call'[b].key \in Keys(rounds') /\ Suits(b, call'[b].key[1]) BY <2>2 DEF Suits
  <2>3. QED BY <1>2, <2>1, <2>2
<1>3. ASSUME NEW r \in reserved' PROVE r.key \in Keys(rounds')
  BY <1>1 DEF KindInv
<1>4. KindInv' BY <1>2, <1>3 DEF KindInv
<1>5. OwnerInv' BY <1>2 DEF OwnerInv
<1>6. QED BY <1>4, <1>5

\* The two that follow the callers, kept by every step that starts no submission.
Callings == KindInv /\ OwnerInv

LEMMA CallingsStill ==
    ASSUME Callings, rounds \in Nat, UNCHANGED <<call, reserved, rounds, owner>> PROVE Callings'
BY KindStep DEF Callings

LEMMA CallingsIdle ==
    ASSUME Callings, rounds \in Nat, UNCHANGED <<reserved, rounds, owner>>, \A b \in Callers : call'[b].at = "idle"
    PROVE  Callings'
BY KindStep DEF Callings

LEMMA CallingsMove ==
    ASSUME Callings, rounds \in Nat, NEW a \in Callers, Moves(a), UNCHANGED <<rounds, owner>> PROVE Callings'
<1>1. \A b \in Callers : call'[b].at # "idle" => call[b].at # "idle" /\ call'[b].key = call[b].key
  BY DEF Moves
<1>2. \A r \in reserved' : r \in reserved \/ \E b \in Callers : call[b].at # "idle" /\ r.key = call[b].key
  BY DEF Moves, Claim
<1>3. QED BY <1>1, <1>2, KindStep DEF Callings

LEMMA CallingsForget ==
    ASSUME Callings, rounds \in Nat, NEW a \in Callers, call'[a].at = "idle",
           \A b \in Callers \ {a} : call'[b] = call[b], UNCHANGED <<reserved, rounds, owner>>
    PROVE  Callings'
BY KindStep DEF Callings

LEMMA CallingsStart ==
    ASSUME Callings, rounds \in Nat, NEW a \in Callers, rounds' \in {rounds, rounds + 1},
           NEW key \in Keys(rounds'), call'[a].key = key, Suits(a, key[1]),
           \A b \in Callers \ {a} : call'[b] = call[b], UNCHANGED <<reserved, owner>>
    PROVE  Callings'
BY KindStep DEF Callings

-----------------------------------------------------------------------------
(* The pipeline, while others move. *)
LEMMA ConfirmedStays ==
    ASSUME ExpInv, Kept, NEW result, Confirmed(result)
    PROVE  result \in {"delivered", "validated"} =>
             \E d \in Ids : /\ delivery'[d].state = "successful" /\ delivery'[d].outcome = "success"
                            /\ delivery'[d].dry <=> (result = "validated")
<1> SUFFICES ASSUME result \in {"delivered", "validated"}
             PROVE  \E d \in Ids : /\ delivery'[d].state = "successful" /\ delivery'[d].outcome = "success"
                                   /\ delivery'[d].dry <=> (result = "validated")
  OBVIOUS
<1>1. PICK d \in Ids : /\ delivery[d].state = "successful" /\ delivery[d].outcome = "success"
                       /\ delivery[d].dry <=> (result = "validated")
  BY DEF Confirmed
<1>2. delivery'[d] = delivery[d] BY <1>1 DEF Kept, Created
<1>3. QED BY <1>1, <1>2

LEMMA RunStill ==
    ASSUME ExpInv, RunInv, Kept, UNCHANGED runVars,
           \A a \in Actors : call'[a].at # "idle" <=> call[a].at # "idle"
    PROVE  RunInv'
<1>1. UNCHANGED <<run, mode, act, requests, rounds>> BY DEF runVars
<1>2. RunType' BY <1>1 DEF RunInv, RunType
<1>3. Confirmed(run.result)' BY <1>1, ConfirmedStays DEF RunInv, Confirmed
<1>4. ASSUME NEW a \in Actors PROVE ActInv(a)'
  <2>1. At(a, "observed") => Confirmed(act[a].seen.result)' BY <1>1, ConfirmedStays DEF RunInv, ActInv, Confirmed
  <2>2. QED BY <1>1, <2>1 DEF RunInv, ActInv, At
<1>5. QED BY <1>1, <1>2, <1>3, <1>4 DEF RunInv

-----------------------------------------------------------------------------
(* The pipeline's threads. *)
Readings == [at : Reading, seen : RunRecords, mode : Modes, manual : BOOLEAN, again : BOOLEAN]
Handings == [at : Handing, seen : [attempts : Nat, round : Nat], again : BOOLEAN]

LEMMA ActAt ==
    ASSUME RunInv, NEW a \in Actors
    PROVE  /\ act[a] \in Acts
           /\ act[a].at = "deliver" => act[a].manual \in BOOLEAN /\ act[a].again \in BOOLEAN
           /\ act[a].at \in Reading => act[a] \in Readings /\ act[a].seen.round <= rounds
           /\ act[a].at \in Handing => act[a] \in Handings /\ act[a].seen.round <= rounds
<1>1. act[a] \in Acts BY DEF RunInv, RunType
<1>2. /\ act[a].at = "deliver" => act[a].manual \in BOOLEAN /\ act[a].again \in BOOLEAN
      /\ act[a].at \in Reading => act[a] \in Readings
      /\ act[a].at \in Handing => act[a] \in Handings
  BY <1>1 DEF Acts, Reading, Handing, Readings, Handings
<1>3. QED BY <1>1, <1>2 DEF RunInv, ActInv

LEMMA ActorMoves ==
    ASSUME ExpInv, RunInv, NEW a \in Actors, NEW next \in Acts, act' = [act EXCEPT ![a] = next],
           NEW r \in RunRecords, run' = r, r.delivery = "submitted" => r.id # Free, r.round <= rounds',
           Confirmed(r.result), mode' \in Modes, requests' \in Nat, rounds' \in {rounds, rounds + 1},
           UNCHANGED delivery, \A b \in Actors \ {a} : call'[b].at # "idle" <=> call[b].at # "idle",
           call'[a].at # "idle" <=> next.at = "submitting",
           next.at \in Reading \cup Handing => next.seen.round <= rounds',
           next.at = "submitting" /\ next.again => next.seen.round < rounds',
           next.at = "observed" => Confirmed(next.seen.result)
    PROVE  RunInv'
<1>1. act' \in [Actors -> Acts] /\ act'[a] = next /\ \A b \in Actors \ {a} : act'[b] = act[b]
  BY DEF RunInv, RunType
<1>2. rounds' \in Nat /\ rounds <= rounds' /\ rounds \in Nat BY DEF RunInv, RunType
<1>3. RunType' BY <1>1, <1>2 DEF RunType
<1>4. Confirmed(run.result)' BY DEF Confirmed
<1>5. ActInv(a)' BY <1>1 DEF ActInv, At, Confirmed
<1>6. ASSUME NEW b \in Actors, b # a PROVE ActInv(b)'
  <2>1. act'[b] = act[b] /\ ActInv(b) /\ (call'[b].at # "idle" <=> call[b].at # "idle")
    BY <1>1, <1>6 DEF RunInv
  <2>2. act[b].at \in Reading \cup Handing => act[b].seen.round <= rounds'
    <3>1. act[b].at \in Reading \cup Handing => act[b].seen.round \in Nat
      BY ActAt DEF Readings, Handings, RunRecords
    <3>2. QED BY <1>2, <2>1, <3>1 DEF ActInv
  <2>3. At(b, "submitting") /\ act[b].again => act[b].seen.round < rounds'
    <3>1. act[b].at = "submitting" => act[b].seen.round \in Nat
      BY ActAt DEF Handing, Handings
    <3>2. QED BY <1>2, <2>1, <3>1 DEF ActInv, At
  <2>4. At(b, "observed") => Confirmed(act[b].seen.result)' BY <2>1 DEF ActInv, Confirmed
  <2>5. QED BY <2>1, <2>2, <2>3, <2>4 DEF ActInv, At
<1>7. QED BY <1>3, <1>4, <1>5, <1>6 DEF RunInv

(* A thread thinks on, or gives up; the run may be written. *)
LEMMA ActorThinks ==
    ASSUME ExpInv, RunInv, NEW a \in Actors, act[a].at # "submitting",
           NEW next \in Acts, act' = [act EXCEPT ![a] = next], next.at # "submitting",
           NEW r \in RunRecords, run' = r, r.delivery = "submitted" => r.id # Free, r.round = run.round,
           r.result = run.result \/ Confirmed(r.result), UNCHANGED <<mode, requests, rounds, exp>>,
           next.at \in Reading \cup Handing => next.seen.round <= rounds,
           next.at = "observed" => Confirmed(next.seen.result)
    PROVE  RunInv'
<1>1. call[a].at = "idle" BY DEF RunInv, ActInv, At
<1>2. Confirmed(r.result) BY DEF RunInv
<1>3. UNCHANGED <<delivery, call>> BY DEF exp
<1>4. rounds \in Nat /\ mode \in Modes /\ requests \in Nat /\ run.round <= rounds BY DEF RunInv, RunType
<1>5. QED BY <1>1, <1>2, <1>3, <1>4, ActorMoves

LEMMA RunFields ==
    ASSUME RunInv
    PROVE  /\ run \in RunRecords /\ (run.delivery = "submitted" => run.id # Free) /\ run.round <= rounds
           /\ mode \in Modes /\ rounds \in Nat /\ run.round \in Nat /\ run.attempts \in Nat
BY DEF RunInv, RunType, RunRecords

\* Where a thread may go that holds on to nothing.
LEMMA Simple ==
    /\ \A at \in {"idle", "acknowledge", "hold", "notified", "release", "unhold", "missed"} :
          [at |-> at] \in Acts
    /\ \A next : \A m, g \in BOOLEAN : next = [at |-> "deliver", manual |-> m, again |-> g]
                                    => next \in Acts /\ next.at = "deliver"
    /\ Unowed \in Acts /\ Unowed.at = "idle"
<1>1. \A at \in {"idle", "acknowledge", "hold", "notified", "release", "unhold", "missed"} :
          [at |-> at] \in Acts
  BY DEF Acts
<1>2. ASSUME NEW m \in BOOLEAN, NEW g \in BOOLEAN, NEW next, next = [at |-> "deliver", manual |-> m, again |-> g]
      PROVE  next \in Acts /\ next.at = "deliver"
  BY <1>2 DEF Acts
<1>3. QED BY <1>1, <1>2 DEF Unowed

LEMMA Thinks ==
    ASSUME ExpInv, RunInv, NEW a \in Actors, act[a].at # "submitting",
           NEW next \in Acts, act' = [act EXCEPT ![a] = next], next.at # "submitting",
           UNCHANGED <<run, mode, requests, rounds, exp>>,
           next.at \in Reading \cup Handing => next.seen.round <= rounds,
           next.at = "observed" => Confirmed(next.seen.result)
    PROVE  RunInv'
BY ActorThinks, RunFields

LEMMA Leaves ==
    ASSUME ExpInv, RunInv, NEW a \in Actors, act[a].at # "submitting",
           NEW at \in {"idle", "acknowledge", "hold", "notified", "release", "unhold", "missed", "deliver"},
           NEW next \in Acts, next.at = at, act' = [act EXCEPT ![a] = next],
           UNCHANGED <<run, mode, requests, rounds, exp>>
    PROVE  RunInv'
BY Thinks DEF Reading, Handing

LEMMA ReadIs ==
    ASSUME RunInv, NEW at \in Reading, NEW manual \in BOOLEAN, NEW again \in BOOLEAN
    PROVE  /\ Read(at, manual, again) \in Acts /\ Read(at, manual, again).at = at
           /\ Read(at, manual, again).seen = run
BY RunFields DEF Read, Acts

LEMMA DeliverKeeps ==
    ASSUME ExpInv, RunInv, NEW a \in Actors, Deliver(a) PROVE RunInv'
<1>1. act[a].at = "deliver" /\ UNCHANGED <<run, mode, requests, rounds, exp>>
  BY DEF Deliver, At, Quiet
<1>2. act[a].manual \in BOOLEAN /\ act[a].again \in BOOLEAN BY <1>1, ActAt
<1>3. CASE Leave(a) BY <1>1, <1>3, Leaves, Simple DEF Leave, Go
<1>4. CASE \E at \in {"refresh", "job"} : Go(a, Read(at, act[a].manual, act[a].again))
  <2>0. PICK at \in {"refresh", "job"} : Go(a, Read(at, act[a].manual, act[a].again)) BY <1>4
  <2>1. PICK next : next = Read(at, act[a].manual, act[a].again) /\ Go(a, next) BY <2>0
  <2>2. next \in Acts /\ next.at = at /\ next.seen = run BY <1>2, <2>1, ReadIs DEF Reading
  <2>3. QED BY <1>1, <2>1, <2>2, Thinks, RunFields DEF Go
<1>5. QED BY <1>3, <1>4 DEF Deliver

LEMMA RefreshKeeps ==
    ASSUME ExpInv, RunInv, NEW a \in Actors, Refresh(a) PROVE RunInv'
<1> DEFINE seen == act[a].seen
           result == IF seen.id = Free \/ seen.result # "none" THEN "none" ELSE Result(seen.id)
<1>1. act[a].at = "refresh" /\ UNCHANGED <<run, mode, requests, rounds, exp>> BY DEF Refresh, At, Quiet
<1>2. act[a] \in Readings /\ seen \in RunRecords /\ seen.round <= rounds
  BY <1>1, ActAt DEF Reading, Readings
<1>3. CASE result = "none"
  <2>1. PICK next : next = [act[a] EXCEPT !.at = "refreshed"] OBVIOUS
  <2>2. next \in Readings /\ next.at = "refreshed" /\ next.seen = seen BY <1>2, <2>1 DEF Readings, Reading
  <2>3. next \in Acts BY <2>2 DEF Acts, Readings
  <2>4. act' = [act EXCEPT ![a] = next] BY <1>3, <2>1 DEF Refresh, Go
  <2>5. QED BY <1>1, <1>2, <2>2, <2>3, <2>4, Thinks DEF Reading, Handing
<1>4. CASE result # "none"
  <2>1. PICK d \in Ids : d = seen.id BY <1>2, <1>4 DEF RunRecords
  <2>2. result = Result(d) BY <1>4, <2>1
  <2>3. result \in Results /\ Confirmed(result)
    <3>1. delivery[d] \in Jobs BY DEF ExpInv, ExpType
    <3>2. /\ Result(d) \in Results
          /\ Result(d) = "delivered" => /\ delivery[d].state = "successful" /\ delivery[d].outcome = "success"
                                        /\ ~delivery[d].dry
          /\ Result(d) = "validated" => /\ delivery[d].state = "successful" /\ delivery[d].outcome = "success"
                                        /\ delivery[d].dry
      BY <3>1 DEF Result, Results, Settled, Jobs, JobStates
    <3>3. QED BY <2>2, <3>2 DEF Confirmed
  <2>4. PICK s : s = [seen EXCEPT !.result = result] OBVIOUS
  <2>5. s \in RunRecords /\ s.result = result /\ s.round = seen.round BY <1>2, <2>3, <2>4 DEF RunRecords
  <2>6. PICK next : next = [act[a] EXCEPT !.at = "observed", !.seen = s] OBVIOUS
  <2>7. next \in Readings /\ next.at = "observed" /\ next.seen = s BY <1>2, <2>5, <2>6 DEF Readings, Reading
  <2>8. next \in Acts BY <2>7 DEF Acts, Readings
  <2>9. act' = [act EXCEPT ![a] = next]
    <3>1. [act[a] EXCEPT !.at = "observed", !.seen.result = result] = next
      BY <1>2, <2>4, <2>6 DEF Readings
    <3>2. QED BY <1>4, <3>1 DEF Refresh, Go
  <2>10. QED BY <1>1, <1>2, <2>3, <2>5, <2>7, <2>8, <2>9, Thinks DEF Reading, Handing
<1>5. QED BY <1>3, <1>4

LEMMA RecordResultKeeps ==
    ASSUME ExpInv, RunInv, NEW a \in Actors, RecordResult(a) PROVE RunInv'
<1>1. /\ act[a].at = "observed" /\ UNCHANGED <<mode, requests, rounds, exp>>
      /\ run' = [run EXCEPT !.result = act[a].seen.result]
  BY DEF RecordResult, At, Quiet
<1>2. /\ act[a] \in Readings /\ act[a].seen \in RunRecords /\ act[a].seen.result \in Results
      /\ Confirmed(act[a].seen.result)
  BY <1>1, ActAt DEF Reading, Readings, RunRecords, RunInv, ActInv, At
<1>3. PICK r : r = run' OBVIOUS
<1>4. /\ r \in RunRecords /\ r.round = run.round /\ r.id = run.id /\ r.delivery = run.delivery
      /\ r.result = act[a].seen.result
  BY <1>1, <1>2, <1>3, RunFields DEF RunRecords
<1>5. PICK next : next = [act[a] EXCEPT !.at = "refreshed", !.seen = r] OBVIOUS
<1>6. next \in Readings /\ next.at = "refreshed" /\ next.seen = r BY <1>2, <1>4, <1>5 DEF Readings, Reading
<1>7. next \in Acts BY <1>6 DEF Acts, Readings
<1>8. act' = [act EXCEPT ![a] = next] BY <1>3, <1>5 DEF RecordResult, Go
<1>9. QED BY <1>1, <1>2, <1>3, <1>4, <1>6, <1>7, <1>8, ActorThinks, RunFields DEF Reading, Handing

LEMMA RefreshedKeeps ==
    ASSUME ExpInv, RunInv, NEW a \in Actors, Refreshed(a) PROVE RunInv'
<1>1. act[a].at = "refreshed" /\ UNCHANGED <<run, mode, requests, rounds, exp>> BY DEF Refreshed, At, Quiet
<1>2. act[a] \in Readings /\ act[a].seen.round <= rounds BY <1>1, ActAt DEF Reading
<1>3. Leave(a) \/ Go(a, [at |-> "acknowledge"]) \/ Go(a, [act[a] EXCEPT !.at = "job"])
  BY <1>2 DEF Refreshed, Readings
<1>4. CASE Leave(a) BY <1>1, <1>4, Leaves, Simple DEF Leave, Go
<1>5. CASE Go(a, [at |-> "acknowledge"])
  <2>1. PICK next : next = [at |-> "acknowledge"] OBVIOUS
  <2>2. next \in Acts /\ next.at = "acknowledge" BY <2>1, Simple
  <2>3. act' = [act EXCEPT ![a] = next] BY <1>5, <2>1 DEF Go
  <2>4. QED BY <1>1, <2>2, <2>3, Leaves
<1>6. CASE Go(a, [act[a] EXCEPT !.at = "job"])
  <2>1. PICK next : next = [act[a] EXCEPT !.at = "job"] OBVIOUS
  <2>2. next \in Readings /\ next.at = "job" /\ next.seen = act[a].seen BY <1>2, <2>1 DEF Readings, Reading
  <2>3. next \in Acts BY <2>2 DEF Acts, Readings
  <2>4. act' = [act EXCEPT ![a] = next] BY <1>6, <2>1 DEF Go
  <2>5. QED BY <1>1, <1>2, <2>2, <2>3, <2>4, Thinks DEF Reading, Handing
<1>7. QED BY <1>3, <1>4, <1>5, <1>6

\* A thread writes a field of the run and leaves.
LEMMA WritesAndLeaves ==
    ASSUME ExpInv, RunInv, NEW a \in Actors, act[a].at # "submitting", Leave(a), NEW r \in RunRecords, run' = r,
           r.delivery = "submitted" => r.id # Free, r.round = run.round, r.result = run.result \/ Confirmed(r.result),
           UNCHANGED <<mode, requests, rounds, exp>>
    PROVE  RunInv'
<1>1. act' = [act EXCEPT ![a] = Unowed] /\ Unowed \in Acts /\ Unowed.at = "idle" BY Simple DEF Leave, Go
<1>2. QED BY <1>1, ActorThinks DEF Reading, Handing

LEMMA AcknowledgeKeeps ==
    ASSUME ExpInv, RunInv, NEW a \in Actors, Acknowledge(a) PROVE RunInv'
<1>1. /\ act[a].at = "acknowledge" /\ Leave(a) /\ UNCHANGED <<mode, requests, rounds, exp>>
      /\ run' = [run EXCEPT !.result = "acknowledged"]
  BY DEF Acknowledge, At, Quiet
<1>2. PICK r : r = run' OBVIOUS
<1>3. /\ r \in RunRecords /\ r.round = run.round /\ r.id = run.id /\ r.delivery = run.delivery
      /\ r.result = "acknowledged"
  BY <1>1, <1>2, RunFields DEF RunRecords, Results, Settled
<1>4. Confirmed(r.result) BY <1>3 DEF Confirmed
<1>5. QED BY <1>1, <1>2, <1>3, <1>4, RunFields, WritesAndLeaves

LEMMA HoldKeeps ==
    ASSUME ExpInv, RunInv, NEW a \in Actors, Hold(a) PROVE RunInv'
<1>1. /\ act[a].at = "hold" /\ Leave(a) /\ UNCHANGED <<mode, requests, rounds, exp>>
      /\ run' = [run EXCEPT !.delivery = "held"]
  BY DEF Hold, At, Quiet
<1>2. PICK r : r = run' OBVIOUS
<1>3. /\ r \in RunRecords /\ r.round = run.round /\ r.id = run.id /\ r.delivery = "held" /\ r.result = run.result
  BY <1>1, <1>2, RunFields DEF RunRecords
<1>4. QED BY <1>1, <1>2, <1>3, WritesAndLeaves

\* Who writes only whether the source's job ended without a result.
LEMMA OutcomeWrites ==
    ASSUME RunInv, NEW outcome \in {"none", "error", "missing"},
           run' = run \/ run' = [run EXCEPT !.outcome = outcome]
    PROVE  /\ run' \in RunRecords /\ run'.round = run.round /\ run'.result = run.result
           /\ run'.delivery = "submitted" => run'.id # Free
BY RunFields DEF RunRecords

LEMMA JudgeJobKeeps ==
    ASSUME ExpInv, RunInv, NEW a \in Actors, JudgeJob(a) PROVE RunInv'
<1>1. act[a].at = "job" /\ UNCHANGED <<mode, requests, rounds, exp>> BY DEF JudgeJob, At, Quiet
<1>2. /\ act[a] \in Readings /\ act[a].seen \in RunRecords /\ act[a].seen.round <= rounds /\ act[a].again \in BOOLEAN
  BY <1>1, ActAt DEF Reading, Readings
<1>3. PICK outcome \in {"none", "error", "missing"} : run' = run \/ run' = [run EXCEPT !.outcome = outcome]
  BY DEF JudgeJob
<1>4. PICK r : r = run' OBVIOUS
<1>5. /\ r \in RunRecords /\ r.round = run.round /\ r.result = run.result
      /\ r.delivery = "submitted" => r.id # Free
  BY <1>3, <1>4, OutcomeWrites
<1>6. Leave(a) \/ Go(a, [at |-> "hold"]) \/ Go(a, Seen("submit", act[a].seen, act[a].again)) BY DEF JudgeJob
<1>7. CASE Leave(a) BY <1>1, <1>4, <1>5, <1>7, WritesAndLeaves
<1>8. CASE Go(a, [at |-> "hold"])
  <2>1. PICK next : next = [at |-> "hold"] OBVIOUS
  <2>2. next \in Acts /\ next.at = "hold" BY <2>1, Simple
  <2>3. act' = [act EXCEPT ![a] = next] BY <1>8, <2>1 DEF Go
  <2>4. QED BY <1>1, <1>4, <1>5, <2>2, <2>3, ActorThinks DEF Reading, Handing
<1>9. CASE Go(a, Seen("submit", act[a].seen, act[a].again))
  <2>1. PICK next : next = Seen("submit", act[a].seen, act[a].again) OBVIOUS
  <2>2. PICK s : s = [attempts |-> act[a].seen.attempts, round |-> act[a].seen.round] OBVIOUS
  <2>3. s \in [attempts : Nat, round : Nat] /\ s.round = act[a].seen.round BY <1>2, <2>2 DEF RunRecords
  <2>4. next = [at |-> "submit", seen |-> s, again |-> act[a].again] BY <2>1, <2>2 DEF Seen
  <2>5. next \in Acts /\ next.at = "submit" /\ next.seen = s BY <1>2, <2>3, <2>4 DEF Acts, Handing
  <2>6. act' = [act EXCEPT ![a] = next] BY <1>9, <2>1 DEF Go
  <2>7. QED BY <1>1, <1>2, <1>4, <1>5, <2>3, <2>5, <2>6, ActorThinks DEF Reading, Handing
<1>10. QED BY <1>6, <1>7, <1>8, <1>9

LEMMA OnJobFinishedKeeps ==
    ASSUME ExpInv, RunInv, OnJobFinished PROVE RunInv'
<1>1. act[Finisher].at = "notified" /\ Finisher \in Actors /\ UNCHANGED <<run, mode, requests, rounds, exp>>
  BY DEF OnJobFinished, At, Quiet, Actors
<1>2. PICK next : /\ act' = [act EXCEPT ![Finisher] = next]
                  /\ next = Unowed \/ next = [at |-> "deliver", manual |-> FALSE, again |-> FALSE]
  BY DEF OnJobFinished, Leave, Go
<1>3. next \in Acts /\ next.at \in {"idle", "deliver"} BY <1>2, Simple
<1>4. QED BY <1>1, <1>2, <1>3, Leaves

LEMMA ReleaseHeldKeeps ==
    ASSUME ExpInv, RunInv, NEW a \in Actors, ReleaseHeld(a) PROVE RunInv'
<1>1. act[a].at = "release" /\ UNCHANGED <<run, mode, requests, rounds, exp>>
  BY DEF ReleaseHeld, At, Quiet
<1>2. PICK next : act' = [act EXCEPT ![a] = next] /\ (next = Unowed \/ next = [at |-> "unhold"])
  BY DEF ReleaseHeld, Leave, Go
<1>3. next \in Acts /\ next.at \in {"idle", "unhold"} BY <1>2, Simple
<1>4. QED BY <1>1, <1>2, <1>3, Leaves

LEMMA UnholdKeeps ==
    ASSUME ExpInv, RunInv, NEW a \in Actors, Unhold(a) PROVE RunInv'
<1>1. /\ act[a].at = "unhold" /\ UNCHANGED <<mode, requests, rounds, exp>>
      /\ run' = [run EXCEPT !.delivery = "awaiting"]
  BY DEF Unhold, At, Quiet
<1>2. PICK r : r = run' OBVIOUS
<1>3. /\ r \in RunRecords /\ r.round = run.round /\ r.delivery = "awaiting" /\ r.result = run.result
  BY <1>1, <1>2, RunFields DEF RunRecords
<1>4. PICK next : /\ act' = [act EXCEPT ![a] = next]
                  /\ next = [at |-> "deliver", manual |-> FALSE, again |-> FALSE]
  BY DEF Unhold, Go
<1>5. next \in Acts /\ next.at = "deliver" BY <1>4, Simple
<1>6. QED BY <1>1, <1>2, <1>3, <1>4, <1>5, ActorThinks DEF Reading, Handing

LEMMA RecoverRunsKeeps ==
    ASSUME ExpInv, RunInv, RecoverRuns PROVE RunInv'
<1>1. act[Recoverer].at = "idle" /\ Recoverer \in Actors /\ UNCHANGED <<run, mode, requests, rounds, exp>>
  BY DEF RecoverRuns, At, Quiet, Actors
<1>2. PICK next : /\ act' = [act EXCEPT ![Recoverer] = next]
                  /\ \/ next = [at |-> "missed"] \/ next = [at |-> "release"]
                     \/ next = Read("refresh", FALSE, FALSE)
  BY DEF RecoverRuns, Go
<1>3. CASE next = Read("refresh", FALSE, FALSE)
  <2>1. next \in Acts /\ next.at = "refresh" /\ next.seen = run BY <1>3, ReadIs DEF Reading
  <2>2. QED BY <1>1, <1>2, <2>1, Thinks, RunFields
<1>4. CASE next = [at |-> "missed"] \/ next = [at |-> "release"]
  <2>1. next \in Acts /\ next.at \in {"missed", "release"} BY <1>4, Simple
  <2>2. QED BY <1>1, <1>2, <2>1, Leaves
<1>5. QED BY <1>2, <1>3, <1>4

LEMMA RecoverMissedKeeps ==
    ASSUME ExpInv, RunInv, RecoverMissed PROVE RunInv'
<1>1. act[Recoverer].at = "missed" /\ Recoverer \in Actors /\ UNCHANGED <<mode, requests, rounds, exp>>
  BY DEF RecoverMissed, At, Quiet, Actors
<1>2. PICK outcome \in {"none", "error", "missing"} : run' = run \/ run' = [run EXCEPT !.outcome = outcome]
  BY DEF RecoverMissed
<1>3. PICK r : r = run' OBVIOUS
<1>4. /\ r \in RunRecords /\ r.round = run.round /\ r.result = run.result
      /\ r.delivery = "submitted" => r.id # Free
  BY <1>2, <1>3, OutcomeWrites
<1>5. PICK next : /\ act' = [act EXCEPT ![Recoverer] = next]
                  /\ next = Unowed \/ next = [at |-> "deliver", manual |-> FALSE, again |-> FALSE]
  BY DEF RecoverMissed, Leave, Go
<1>6. next \in Acts /\ next.at \in {"idle", "deliver"} BY <1>5, Simple
<1>7. QED BY <1>1, <1>3, <1>4, <1>5, <1>6, ActorThinks DEF Reading, Handing

LEMMA RequestKeeps ==
    ASSUME ExpInv, RunInv, Request \/ SetMode PROVE RunInv'
<1>1. /\ act[Operator].at = "idle" /\ Operator \in Actors /\ UNCHANGED <<run, rounds, exp>>
      /\ requests' \in Nat /\ mode' \in Modes
  <2>1. requests \in Nat /\ mode \in Modes BY DEF RunInv, RunType
  <2>2. CASE Request BY <2>1, <2>2 DEF Request, At, Actors
  <2>3. CASE SetMode BY <2>1, <2>3 DEF SetMode, At, Actors
  <2>4. QED BY <2>2, <2>3
<1>2. call[Operator].at = "idle" /\ UNCHANGED <<call, delivery>> BY <1>1 DEF RunInv, ActInv, At, exp
<1>3. PICK next : /\ act' = [act EXCEPT ![Operator] = next]
                  /\ \/ next = act[Operator] \/ next = [at |-> "release"] \/ next = Read("refresh", TRUE, FALSE)
                     \/ \E again \in BOOLEAN : next = [at |-> "deliver", manual |-> TRUE, again |-> again]
  <2>1. CASE Request BY <2>1 DEF Request, Go
  <2>2. CASE SetMode /\ mode' # "paused" BY <2>2 DEF SetMode, Go
  <2>3. CASE SetMode /\ mode' = "paused"
    <3>1. act' = [act EXCEPT ![Operator] = act[Operator]] BY <1>1, <2>3 DEF SetMode, RunInv, RunType
    <3>2. QED BY <3>1
  <2>4. QED BY <2>1, <2>2, <2>3
<1>4. /\ next \in Acts /\ next.at \in {"idle", "release", "refresh", "deliver"}
      /\ next.at = "refresh" => next.seen = run
  <2>1. act[Operator] \in Acts BY <1>1, ActAt
  <2>2. Read("refresh", TRUE, FALSE) \in Acts /\ Read("refresh", TRUE, FALSE).at = "refresh"
        /\ Read("refresh", TRUE, FALSE).seen = run
    BY ReadIs DEF Reading
  <2>3. CASE next = act[Operator] BY <1>1, <2>1, <2>3
  <2>4. CASE next = [at |-> "release"] BY <2>4, Simple
  <2>5. CASE \E again \in BOOLEAN : next = [at |-> "deliver", manual |-> TRUE, again |-> again]
    BY <2>5, Simple
  <2>6. CASE next = Read("refresh", TRUE, FALSE) BY <2>2, <2>6
  <2>7. QED BY <1>3, <2>3, <2>4, <2>5, <2>6
<1>5. next.at \in Reading \cup Handing => next.seen.round <= rounds BY <1>4, RunFields DEF Reading, Handing
<1>6. QED BY <1>1, <1>2, <1>3, <1>4, <1>5, ActorMoves, RunFields DEF RunInv

(* A hand-off: a submission of its own begins, and what it returned is     *)
(* written to the run.                                                     *)
LEMMA HandOffKeeps ==
    ASSUME ExpInv, RunInv, Callings, owner = "pipeline", NEW a \in Actors, HandOff(a), UNCHANGED owner
    PROVE  /\ ExpInv' /\ Kept /\ RunInv' /\ Callings'
           /\ \A b \in Callers \ {a} : call'[b] = call[b]
<1> DEFINE seen == act[a].seen
           more == IF act[a].again THEN 1 ELSE 0
           dry == (run.mode = "dry_run")
<1>1. /\ act[a].at = "submit" /\ UNCHANGED <<run, mode, requests, source, lease, submission, reserved, delivery, runs, faults>>
      /\ Submit(a, Key(seen, seen.round + more), dry) /\ act' = [act EXCEPT ![a] = [act[a] EXCEPT !.at = "submitting"]]
      /\ rounds' = rounds + more
  BY RunFields DEF HandOff, At, Go
<1>2. /\ act[a] \in Handings /\ seen \in [attempts : Nat, round : Nat] /\ seen.round <= rounds
      /\ seen.round \in Nat /\ act[a].again \in BOOLEAN
  BY <1>1, ActAt DEF Handing, Handings
<1>3. PICK n \in 0..rounds' : n = seen.round + more BY <1>1, <1>2, RunFields
<1>4. PICK key : key = Round(n) OBVIOUS
<1>5. rounds' \in Nat /\ rounds' \in {rounds, rounds + 1} BY <1>1, RunFields
<1>6. key \in Keys(rounds') /\ key \in AllKeys /\ key[1] = "run"
  <2>1. key \in Keys(rounds') /\ key \in AllKeys BY <1>3, <1>4, <1>5, KeysAre
  <2>2. Round(n)[1] = "run" BY DEF Round
  <2>3. QED BY <1>4, <2>1, <2>2
<1>7. Submit(a, key, dry) /\ dry \in BOOLEAN
  <2>1. Key(seen, seen.round + more) = Round(seen.round + more) BY DEF Key, Round
  <2>2. QED BY <1>1, <1>3, <1>4, <2>1
<1>8. call[a].at = "idle" /\ a \in Callers BY <1>1, RunAssumption DEF RunInv, ActInv, At
<1>9. /\ ExpInv' /\ Kept /\ call'[a].at = "find" /\ call'[a].key = key
      /\ \A b \in Callers \ {a} : call'[b] = call[b]
  BY <1>1, <1>6, <1>7, <1>8, SubmitStarts
<1>10. Suits(a, key[1]) BY <1>6 DEF Suits
<1>11. Callings' BY <1>1, <1>5, <1>6, <1>8, <1>9, <1>10, RunFields, CallingsStart
<1>12. PICK next : next = [act[a] EXCEPT !.at = "submitting"] OBVIOUS
<1>13. /\ next \in Handings /\ next.at = "submitting" /\ next.seen = seen /\ next.again = act[a].again
  BY <1>2, <1>12 DEF Handings, Handing
<1>14. next \in Acts BY <1>13 DEF Acts, Handings
<1>15. act' = [act EXCEPT ![a] = next] BY <1>1, <1>12
<1>16. /\ next.seen.round <= rounds' /\ (next.again => next.seen.round < rounds') /\ run.round <= rounds'
  BY <1>1, <1>2, <1>5, <1>13, RunFields
<1>17. \A b \in Actors \ {a} : call'[b] = call[b] BY <1>9, RunAssumption
<1>18. requests' \in Nat /\ mode' \in Modes /\ Confirmed(run.result) BY <1>1 DEF RunInv, RunType
<1>19. RunInv'
  BY <1>1, <1>5, <1>9, <1>13, <1>14, <1>15, <1>16, <1>17, <1>18, ActorMoves, RunFields
<1>20. QED BY <1>9, <1>11, <1>19

LEMMA HandOffEnds ==
    ASSUME ExpInv, RunInv, Callings, NEW a \in Actors, HandedOff(a) \/ HandOffFails(a), UNCHANGED owner
    PROVE  /\ ExpInv' /\ Kept /\ RunInv' /\ Callings'
           /\ call'[a].at = "idle" /\ \A b \in Callers \ {a} : call'[b] = call[b]
<1>1. /\ act[a].at = "submitting" /\ call[a].at \in {"done", "busy", "refused"} /\ Forget(a) /\ Leave(a)
      /\ UNCHANGED <<mode, requests, rounds, source, lease, submission, reserved, delivery, runs, faults>>
  BY DEF HandedOff, HandOffFails, At, Quiet
<1>2. /\ act[a] \in Handings /\ act[a].seen.round \in Nat /\ act[a].seen.attempts \in Nat
      /\ act[a].again \in BOOLEAN /\ (act[a].again => act[a].seen.round < rounds)
  BY <1>1, ActAt DEF Handing, Handings, RunInv, ActInv, At
<1>3. a \in Callers BY RunAssumption
<1>4. /\ ExpInv' /\ Kept /\ call'[a].at = "idle" /\ \A b \in Callers \ {a} : call'[b] = call[b]
  BY <1>1, <1>3, Forgets DEF Returned
<1>5. Callings' BY <1>1, <1>3, <1>4, RunFields, CallingsForget
<1>6. PICK r : r = run' OBVIOUS
<1>7. /\ r \in RunRecords /\ (r.delivery = "submitted" => r.id # Free)
      /\ r.round <= rounds /\ r.result \in {run.result, "none"}
  <2>1. CASE HandedOff(a)
    <3>1. call[a].at = "done" BY <2>1 DEF HandedOff
    <3>2. PICK id \in Ids : id = call[a].id BY <1>3, <3>1 DEF ExpInv, CallInv
    <3>3. PICK n \in Nat, k \in Nat, result \in {run.result, "none"} :
             /\ run' = [run EXCEPT !.delivery = "submitted", !.id = id, !.attempts = n, !.round = k, !.result = result]
             /\ k <= rounds
      <4>1. CASE act[a].again
        <5>1. PICK k \in Nat : k = act[a].seen.round + 1 BY <1>2
        <5>2. run' = [run EXCEPT !.delivery = "submitted", !.id = id, !.attempts = 1, !.round = k, !.result = "none"]
          BY <2>1, <3>2, <4>1, <5>1 DEF HandedOff
        <5>3. k <= rounds BY <1>2, <4>1, <5>1, RunFields
        <5>4. QED BY <5>2, <5>3
      <4>2. CASE ~act[a].again
        <5>1. PICK n \in Nat : n = act[a].seen.attempts + 1 BY <1>2
        <5>2. run' = [run EXCEPT !.delivery = "submitted", !.id = id, !.attempts = n,
                        !.round = run.round, !.result = run.result]
          BY <2>1, <3>2, <4>2, <5>1 DEF HandedOff
        <5>3. QED BY <5>2, RunFields
      <4>3. QED BY <4>1, <4>2
    <3>4. Free \notin Ids BY DEF Free, Ids
    <3>5. result \in Results BY RunFields DEF RunRecords, Results
    <3>6. r \in RunRecords /\ r.id = id /\ r.round = k /\ r.result = result
      BY <1>6, <3>2, <3>3, <3>5, RunFields DEF RunRecords
    <3>7. QED BY <3>3, <3>4, <3>6
  <2>2. CASE HandOffFails(a)
    <3>1. PICK n \in Nat, dl \in {"failed", "awaiting"} :
              run' = run \/ run' = [run EXCEPT !.attempts = n, !.delivery = dl]
      <4>1. PICK n \in Nat : n = act[a].seen.attempts + 1 BY <1>2
      <4>2. QED BY <2>2, <4>1 DEF HandOffFails
    <3>2. r \in RunRecords /\ r.round = run.round /\ r.result = run.result /\ (r = run \/ r.delivery # "submitted")
      BY <1>6, <3>1, RunFields DEF RunRecords
    <3>3. QED BY <3>2, RunFields
  <2>3. QED BY <2>1, <2>2
<1>8. Confirmed(r.result) BY <1>7 DEF RunInv, Confirmed
<1>9. act' = [act EXCEPT ![a] = Unowed] /\ Unowed \in Acts /\ Unowed.at = "idle" BY <1>1, Simple DEF Leave, Go
<1>10. \A b \in Actors \ {a} : call'[b] = call[b] BY <1>4, RunAssumption
<1>11. requests' \in Nat /\ mode' \in Modes BY <1>1 DEF RunInv, RunType
<1>12. RunInv'
  BY <1>1, <1>4, <1>6, <1>7, <1>8, <1>9, <1>10, <1>11, ActorMoves, RunFields DEF Reading, Handing
<1>13. QED BY <1>4, <1>5, <1>12

-----------------------------------------------------------------------------
(* The trigger, while others move. *)
LEMMA MadeStays ==
    ASSUME Kept, NEW key, KeyMade(key)
    PROVE  \E d \in Ids : delivery'[d].state # "none" /\ delivery'[d].key = key
BY DEF KeyMade, Kept, Created

LEMMA ThreadCalls ==
    /\ Threads \subseteq Callers /\ Hook \in Threads /\ Sweep \in Threads /\ Hook # Sweep
    /\ \A t \in Threads : t = Hook \/ t = Sweep
    /\ \A t \in Threads : t \notin Actors /\ t \notin Clients
    /\ \A a \in Actors : a \notin Clients /\ a \in Callers
<1>1. Threads \subseteq Callers /\ Actors \subseteq Callers BY TriggerAssumption, RunAssumption
<1>2. Hook # Sweep /\ Actors \cap Threads = {} /\ Clients \cap (Actors \cup Threads) = {} BY FlowAssumption
<1>3. Hook \in Threads /\ Sweep \in Threads /\ \A t \in Threads : t = Hook \/ t = Sweep BY DEF Threads
<1>4. QED BY <1>1, <1>2, <1>3

LEMMA TrigFields ==
    ASSUME TrigInv
    PROVE  /\ \A t \in Threads : trigger[t] \in {"list", "idle", "due", "submitting"}
           /\ step \in Steps /\ due \in DueModes /\ epoch \in Nat /\ finishedAt \in Nat
           /\ \A v \in 1..MaxVersion : modes[v] \in SUBSET DueModes
<1>1. step \in Steps /\ due \in DueModes /\ \A v \in 1..MaxVersion : modes[v] \in SUBSET DueModes
  BY DEF TrigInv, TrigType, Steps
<1>2. epoch \in Nat /\ finishedAt \in Nat
  <2>1. MaxStarts \in Nat /\ epoch \in 0..MaxStarts /\ finishedAt \in 0..epoch BY TriggerAssumption DEF TrigInv, TrigType
  <2>2. QED BY <2>1
<1>3. \A t \in Threads : trigger[t] \in {"list", "idle", "due", "submitting"} BY DEF TrigInv, TrigType
<1>4. QED BY <1>1, <1>2, <1>3

trigRest == <<phase, epoch, boundary, step, stepOld, due, finishedAt, problem, trigger, late, modes>>

LEMMA TrigStill ==
    ASSUME ExpInv, TrigInv, Kept, UNCHANGED <<trigRest, owner>>, host' \in {"this", "old", "none"},
           source'.version = source.version, source'.links = source.links,
           \/ source'.status = source.status
           \/ source'.status # "finished" /\ (source'.status = "running" => trigger[Sweep] = "idle"),
           \A t \in Threads : call'[t] = call[t], UNCHANGED reserved
    PROVE  TrigInv'
<1>1. UNCHANGED <<phase, epoch, boundary, step, stepOld, due, finishedAt, problem, trigger, late, modes>>
  BY DEF trigRest
<1>2. TrigType' BY <1>1 DEF TrigInv, TrigType
<1>3. PassInv' BY <1>1 DEF TrigInv, PassInv, Pending
<1>4. ModeInv' BY <1>1 DEF TrigInv, ModeInv, Finished
<1>5. ASSUME NEW t \in Threads PROVE ThreadInv(t)'
  <2>1. ThreadInv(t) BY DEF TrigInv
  <2>2. KeyMade(AutoKey(step.mode)) => KeyMade(AutoKey(step.mode))' BY <1>1, MadeStays DEF KeyMade, Created
  <2>3. Pending(t)' <=> Pending(t) BY <1>1 DEF Pending
  <2>4. QED BY <1>1, <2>1, <2>2, <2>3 DEF ThreadInv
<1>6. QED BY <1>2, <1>3, <1>4, <1>5 DEF TrigInv

\* A thread of the trigger submits what it found due.
LEMMA LabelIs ==
    \A m \in AutoModes : Label(m = "dry_run") = m
BY DEF Label, AutoModes

LEMMA TrigMoves ==
    ASSUME ExpInv, TrigInv, Callings, Kept, NEW a \in Callers, Moves(a), UNCHANGED <<trig, owner>>
    PROVE  TrigInv'
<1>1. UNCHANGED <<phase, epoch, host, boundary, step, stepOld, due, finishedAt, problem, trigger, late, modes>>
  BY DEF trig
<1>2. /\ source'.status = source.status /\ source'.version = source.version
      /\ \A b \in Callers \ {a} : call'[b] = call[b]
      /\ call[a].at # "idle" /\ call'[a].at # "idle" /\ call'[a].key = call[a].key /\ call'[a].dry = call[a].dry
      /\ source'.links = source.links \/ (call[a].at = "link" /\ KeyMade(call[a].key))
      /\ reserved' = reserved \/ (call[a].at = "reserve" /\ reserved' = reserved \cup {Claim(call[a], call[a].id)})
      /\ call'[a].at \in {"reserve", "create"} =>
            \/ call[a].at \in {"reserve", "create"} /\ call'[a].version = call[a].version
            \/ Finished /\ call'[a].version = source.version /\ ~KeyMade(call[a].key)
  BY DEF Moves
<1>3. /\ call[a].key[1] = "auto" => a \in Threads
      /\ owner = "trigger" => a \in Threads
  BY <1>2 DEF Callings, KindInv, OwnerInv
<1>4. TrigType' BY <1>1 DEF TrigInv, TrigType
<1>5. PassInv' BY <1>1, <1>2 DEF TrigInv, PassInv, Pending
<1>6. ModeInv'
  <2>1. ASSUME NEW r \in reserved', r.key[1] = "auto" PROVE Label(r.dry) \in modes[r.version]
    <3>1. CASE r \in reserved BY <2>1, <3>1 DEF TrigInv, ModeInv
    <3>2. CASE r \notin reserved
      <4>1. call[a].at = "reserve" /\ r = Claim(call[a], call[a].id) BY <1>2, <2>1, <3>2
      <4>2. r.key = call[a].key /\ r.dry = call[a].dry /\ r.version = call[a].version BY <4>1 DEF Claim
      <4>3. ThreadInv(a) BY <1>3, <2>1, <4>2 DEF TrigInv
      <4>4. QED BY <4>1, <4>2, <4>3 DEF ThreadInv
    <3>3. QED BY <3>1, <3>2
  <2>2. QED BY <1>1, <1>2, <2>1 DEF TrigInv, ModeInv, Finished
<1>7. ASSUME NEW t \in Threads PROVE ThreadInv(t)'
  <2>1. ThreadInv(t) /\ t \in Callers BY ThreadCalls DEF TrigInv
  <2>2. KeyMade(AutoKey(step.mode)) => KeyMade(AutoKey(step.mode))' BY <1>1, MadeStays DEF KeyMade, Created
  <2>3. Pending(t)' <=> Pending(t) BY <1>1 DEF Pending
  <2>4. ASSUME Pending(t)
        PROVE  source'.links = {} \/ KeyMade(AutoKey(step.mode))'
    <3>1. owner = "trigger" /\ (source.links = {} \/ KeyMade(AutoKey(step.mode))) BY <2>1, <2>4 DEF ThreadInv
    <3>2. a \in Threads /\ ThreadInv(a) BY <1>3, <3>1 DEF TrigInv
    <3>3. call[a].key = AutoKey(step.mode) BY <1>2, <3>2 DEF ThreadInv
    <3>4. QED BY <1>2, <2>2, <3>1, <3>3
  <2>5. CASE t # a
    <3>1. call'[t] = call[t] BY <1>2, <2>1, <2>5
    <3>2. call[t].at \in {"reserve", "create"} => call[a].at # "link"
      BY <2>1, <2>5 DEF ExpInv, CallInv, Locked
    <3>3. QED BY <1>1, <1>2, <2>1, <2>3, <2>4, <3>1, <3>2 DEF ThreadInv
  <2>6. CASE t = a
    <3>1. /\ Pending(t) /\ call[t].key = AutoKey(step.mode) /\ call[t].dry = (step.mode = "dry_run")
          /\ trigger[t] = "submitting"
      BY <1>2, <2>1, <2>6 DEF ThreadInv, Pending
    <3>2. due = step.mode /\ due \in AutoModes /\ due \in modes[source.version]
      BY <2>1, <3>1 DEF ThreadInv
    <3>3. ASSUME call'[t].at \in {"reserve", "create"}
          PROVE  source'.links = {} /\ Label(call'[t].dry) \in modes[call'[t].version]
      <4>1. CASE call[a].at \in {"reserve", "create"} /\ call'[a].version = call[a].version
        BY <1>2, <2>1, <2>6, <4>1 DEF ThreadInv
      <4>2. CASE Finished /\ call'[a].version = source.version /\ ~KeyMade(call[a].key)
        <5>1. source.links = {} BY <2>1, <2>6, <3>1, <4>2 DEF ThreadInv
        <5>2. source'.links = {} BY <1>2, <4>2, <5>1
        <5>3. Label(call'[t].dry) = step.mode BY <1>2, <2>6, <3>1, <3>2, LabelIs
        <5>4. QED BY <2>6, <3>2, <4>2, <5>2, <5>3
      <4>3. QED BY <1>2, <2>6, <3>3, <4>1, <4>2
    <3>4. QED BY <1>1, <1>2, <2>1, <2>3, <2>4, <2>6, <3>1, <3>3 DEF ThreadInv
  <2>7. QED BY <2>5, <2>6
<1>8. QED BY <1>4, <1>5, <1>6, <1>7 DEF TrigInv
-----------------------------------------------------------------------------
(* The trigger's own steps. *)
LEMMA ThreadStays ==
    ASSUME Kept, NEW t \in Threads, ThreadInv(t), UNCHANGED <<source, due, step, owner>>,
           trigger'[t] = trigger[t], call'[t] = call[t], UNCHANGED modes
    PROVE  ThreadInv(t)'
<1>1. KeyMade(AutoKey(step.mode)) => KeyMade(AutoKey(step.mode))' BY MadeStays DEF KeyMade, Created
<1>2. Pending(t)' <=> Pending(t) BY DEF Pending
<1>3. QED BY <1>1, <1>2 DEF ThreadInv

LEMMA IdleThread ==
    ASSUME NEW t \in Threads, trigger'[t] \notin {"due", "submitting"}, call'[t].at = "idle"
    PROVE  ThreadInv(t)'
BY DEF ThreadInv, Pending

LEMMA ReconcileKeeps ==
    ASSUME ExpInv, TrigInv, Reconcile, UNCHANGED owner PROVE TrigInv'
<1>1. /\ trigger[Sweep] = "list" /\ trigger' = [trigger EXCEPT ![Sweep] = IF Due THEN "due" ELSE "idle"]
      /\ UNCHANGED <<phase, epoch, host, boundary, step, stepOld, due, finishedAt, problem, late, modes, exp>>
  BY DEF Reconcile, Swept
<1>2. UNCHANGED <<source, reserved, delivery, call>> /\ Kept BY <1>1, ExpStill DEF exp
<1>3. /\ trigger' \in [Threads -> {"list", "idle", "due", "submitting"}]
      /\ trigger'[Sweep] = IF Due THEN "due" ELSE "idle"
      /\ \A t \in Threads \ {Sweep} : trigger'[t] = trigger[t]
  BY <1>1, ThreadCalls DEF TrigInv, TrigType
<1>4. TrigType' BY <1>1, <1>3, ThreadCalls DEF TrigInv, TrigType
<1>5. phase = "starting" BY <1>1 DEF TrigInv, PassInv
<1>6. PassInv' BY <1>1, <1>2, <1>3, <1>5 DEF PassInv, Pending, Due, Finished
<1>7. ModeInv' BY <1>1, <1>2 DEF TrigInv, ModeInv, Finished
<1>8. call[Sweep].at = "idle" BY <1>1, ThreadCalls DEF TrigInv, ThreadInv
<1>9. ThreadInv(Sweep)'
  <2>1. CASE ~Due BY <1>2, <1>3, <1>8, <2>1, ThreadCalls, IdleThread
  <2>2. CASE Due
    <3>1. Finished /\ step # NoStep /\ due = step.mode /\ source.links = {}
      BY <2>2 DEF Due, Active, Owes, Unlisted
    <3>2. due \in AutoModes BY <3>1, TrigFields DEF Steps
    <3>3. owner = "trigger" BY <3>2 DEF TrigInv, ModeInv, AutoModes
    <3>4. source.version > 0 /\ due \in modes[source.version] BY <3>1, <3>3 DEF ExpInv, LeaseInv, TrigInv, ModeInv
    <3>5. QED BY <1>1, <1>2, <1>3, <1>8, <2>2, <3>1, <3>2, <3>3, <3>4 DEF ThreadInv, Pending
  <2>3. QED BY <2>1, <2>2
<1>10. \A t \in Threads \ {Sweep} : ThreadInv(t)'
  BY <1>1, <1>2, <1>3, ThreadStays DEF TrigInv
<1>11. QED BY <1>4, <1>6, <1>7, <1>9, <1>10 DEF TrigInv

\* A thread goes from one place to another, with its call.
LEMMA ThreadMoves ==
    ASSUME TrigInv, Kept, NEW t \in Threads, NEW at \in {"idle", "submitting"},
           trigger' = [trigger EXCEPT ![t] = at], Pending(t), problem' \in BOOLEAN,
           UNCHANGED <<phase, epoch, host, boundary, step, stepOld, due, finishedAt, late, modes,
                       source, reserved, owner>>,
           \A u \in Threads \ {t} : call'[u] = call[u], ThreadInv(t)'
    PROVE  TrigInv'
<1>1. /\ trigger' \in [Threads -> {"list", "idle", "due", "submitting"}]
      /\ trigger'[t] = at /\ \A u \in Threads \ {t} : trigger'[u] = trigger[u]
  BY DEF TrigInv, TrigType
<1>2. TrigType' BY <1>1, ThreadCalls DEF TrigInv, TrigType
<1>3. PassInv'
  <2>1. t = Sweep \/ (t = Hook /\ trigger'[Sweep] = trigger[Sweep]) BY <1>1, ThreadCalls
  <2>2. trigger[t] # "idle" BY DEF Pending
  <2>3. phase = "down" => trigger'[Hook] = "idle"
    BY <1>1, <2>1, <2>2, ThreadCalls DEF TrigInv, PassInv
  <2>4. QED BY <1>1, <2>1, <2>2, <2>3 DEF TrigInv, PassInv, Pending
<1>4. ModeInv' BY DEF TrigInv, ModeInv, Finished
<1>5. \A u \in Threads \ {t} : ThreadInv(u)' BY <1>1, ThreadStays DEF TrigInv
<1>6. QED BY <1>2, <1>3, <1>4, <1>5 DEF TrigInv

LEMMA SubmitDueKeeps ==
    ASSUME ExpInv, RunInv, TrigInv, Callings, NEW t \in Threads, SubmitDue(t), UNCHANGED <<runVars, owner>>
    PROVE  ExpInv' /\ Kept /\ Callings' /\ TrigInv' /\ \A b \in Callers \ {t} : call'[b] = call[b]
<1> DEFINE dry == (step.mode = "dry_run")
<1>1. /\ trigger[t] = "due" /\ trigger' = [trigger EXCEPT ![t] = "submitting"]
      /\ UNCHANGED <<phase, epoch, host, boundary, step, stepOld, due, finishedAt, problem, late, modes,
                     source, lease, submission, reserved, delivery, runs, faults>>
  BY DEF SubmitDue
<1>2. ThreadInv(t) /\ t \in Callers /\ Pending(t) BY <1>1, ThreadCalls DEF TrigInv, Pending
<1>3. /\ owner = "trigger" /\ due = step.mode /\ due \in AutoModes
      /\ source.version > 0 /\ due \in modes[source.version]
      /\ source.links = {} \/ KeyMade(AutoKey(step.mode))
      /\ call[t].at = "idle"
  BY <1>1, <1>2 DEF ThreadInv
<1>4. PICK key : key = AutoKey(due) OBVIOUS
<1>5. rounds \in Nat /\ rounds' = rounds BY RunFields DEF runVars
<1>6. key \in Keys(rounds) /\ key \in AllKeys /\ key[1] = "auto"
  <2>1. key \in Keys(rounds) /\ key \in AllKeys BY <1>3, <1>4, <1>5, KeysAre
  <2>2. AutoKey(due)[1] = "auto" BY DEF AutoKey
  <2>3. QED BY <1>4, <2>1, <2>2
<1>7. Submit(t, key, dry) /\ dry \in BOOLEAN
  <2>1. Submit(t, <<"auto", step.mode>>, dry) BY DEF SubmitDue
  <2>2. key = <<"auto", step.mode>> BY <1>3, <1>4 DEF AutoKey
  <2>3. QED BY <2>1, <2>2
<1>8. /\ ExpInv' /\ Kept /\ call'[t].at = "find" /\ call'[t].key = key /\ call'[t].dry = dry
      /\ \A b \in Callers \ {t} : call'[b] = call[b]
  BY <1>1, <1>2, <1>3, <1>6, <1>7, SubmitStarts
<1>9. Suits(t, key[1]) BY <1>3, <1>6 DEF Suits
<1>10. Callings' BY <1>1, <1>2, <1>5, <1>6, <1>8, <1>9, CallingsStart
<1>11. trigger'[t] = "submitting" BY <1>1 DEF TrigInv, TrigType
<1>12. KeyMade(AutoKey(step.mode)) => KeyMade(AutoKey(step.mode))' BY <1>1, <1>8, MadeStays DEF KeyMade, Created
<1>13. ThreadInv(t)'
  BY <1>1, <1>3, <1>4, <1>8, <1>11, <1>12 DEF ThreadInv, Pending
<1>14. \A u \in Threads \ {t} : call'[u] = call[u] BY <1>8, ThreadCalls
<1>15. problem' \in BOOLEAN BY <1>1 DEF TrigInv, TrigType
<1>16. TrigInv' BY <1>1, <1>2, <1>8, <1>13, <1>14, <1>15, ThreadMoves
<1>17. QED BY <1>8, <1>10, <1>16

LEMMA SetDeliveryErrorKeeps ==
    ASSUME ExpInv, RunInv, TrigInv, Callings, NEW t \in Threads, SetDeliveryError(t), UNCHANGED <<runVars, owner>>
    PROVE  ExpInv' /\ Kept /\ Callings' /\ TrigInv' /\ \A b \in Callers \ {t} : call'[b] = call[b]
<1>1. /\ trigger[t] = "submitting" /\ Returned(t) /\ Forget(t) /\ trigger' = [trigger EXCEPT ![t] = "idle"]
      /\ problem' \in BOOLEAN
      /\ UNCHANGED <<phase, epoch, host, boundary, step, stepOld, due, finishedAt, late, modes,
                     source, lease, submission, reserved, delivery, runs, faults>>
  BY DEF SetDeliveryError
<1>2. t \in Callers /\ Pending(t) BY <1>1, ThreadCalls DEF Pending
<1>3. ExpInv' /\ Kept /\ call'[t].at = "idle" /\ \A b \in Callers \ {t} : call'[b] = call[b]
  BY <1>1, <1>2, Forgets
<1>4. rounds \in Nat /\ rounds' = rounds BY RunFields DEF runVars
<1>5. Callings' BY <1>1, <1>2, <1>3, <1>4, CallingsForget
<1>6. trigger'[t] = "idle" BY <1>1 DEF TrigInv, TrigType
<1>7. ThreadInv(t)' BY <1>3, <1>6, IdleThread
<1>8. \A u \in Threads \ {t} : call'[u] = call[u] BY <1>3, ThreadCalls
<1>9. TrigInv' BY <1>1, <1>2, <1>3, <1>7, <1>8, ThreadMoves
<1>10. QED BY <1>3, <1>5, <1>9

LEMMA ServeKeeps ==
    ASSUME ExpInv, TrigInv, Serve, UNCHANGED owner PROVE TrigInv'
<1>1. /\ phase = "starting" /\ trigger[Sweep] = "idle" /\ phase' = "serving"
      /\ UNCHANGED <<epoch, host, boundary, step, stepOld, due, finishedAt, problem, trigger, late, modes>>
      /\ UNCHANGED <<source, reserved, delivery, call>>
  BY DEF Serve, exp
<1>2. Kept BY ExpStill DEF Serve
<1>3. TrigType' BY <1>1 DEF TrigInv, TrigType
<1>4. PassInv' BY <1>1 DEF PassInv, Pending
<1>5. ModeInv' BY <1>1 DEF TrigInv, ModeInv, Finished
<1>6. \A t \in Threads : ThreadInv(t)' BY <1>1, <1>2, ThreadStays DEF TrigInv
<1>7. QED BY <1>3, <1>4, <1>5, <1>6 DEF TrigInv
-----------------------------------------------------------------------------
(* The actions of the flow. *)
LEMMA IInvIs ==
    IInv => ExpInv /\ RunInv /\ TrigInv /\ Callings /\ rounds \in Nat
BY RunFields DEF IInv, Callings

\* What a finished job records of a delivery, when it is a trigger's.
LEMMA FinishTriggeredKeeps ==
    ASSUME ExpInv, TrigInv, Callings, owner = "trigger", Kept, Working, FinishTriggered,
           NEW v \in 1..MaxVersion, source.status = "running", source'.status = "finished", source'.version = v,
           source'.links = source.links, host' = "none",
           UNCHANGED <<phase, epoch, boundary, step, stepOld, problem, owner, reserved, delivery, call>>
    PROVE  TrigInv'
<1> DEFINE s == IF host = "old" THEN stepOld ELSE step
<1>1. /\ due' = IF Active(s, epoch) THEN s.mode ELSE "none"
      /\ finishedAt' = epoch /\ trigger[Hook] = "idle"
      /\ trigger' = [trigger EXCEPT ![Hook] =
                       IF host = "this" /\ Listening /\ due' # "none" /\ Unlisted THEN "due" ELSE "idle"]
      /\ late' \in BOOLEAN
  BY DEF FinishTriggered
<1>2. modes' = [modes EXCEPT ![v] = modes[v] \cup {due'}] BY DEF FinishTriggered
<1>3. s \in Steps /\ s.mode \in DueModes /\ due' \in DueModes
  <2>1. s \in Steps BY TrigFields DEF TrigInv, TrigType
  <2>2. s.mode \in DueModes BY <2>1 DEF Steps, NoStep, AutoModes, DueModes
  <2>3. QED BY <1>1, <2>1, <2>2 DEF DueModes
<1>4. /\ trigger' \in [Threads -> {"list", "idle", "due", "submitting"}]
      /\ trigger'[Hook] = IF host = "this" /\ Listening /\ due' # "none" /\ Unlisted THEN "due" ELSE "idle"
      /\ trigger'[Sweep] = trigger[Sweep]
  BY <1>1, ThreadCalls DEF TrigInv, TrigType
<1>5. /\ modes' \in [1..MaxVersion -> SUBSET DueModes] /\ due' \in modes'[v]
      /\ \A w \in 1..MaxVersion : modes[w] \subseteq modes'[w]
  BY <1>2, <1>3 DEF TrigInv, TrigType
<1>6. TrigType'
  <2>1. finishedAt' \in 0..epoch' BY <1>1, TrigFields
  <2>2. trigger'[Hook] # "list" BY <1>4
  <2>3. QED BY <1>1, <1>3, <1>4, <1>5, <2>1, <2>2 DEF TrigInv, TrigType
<1>7. ~Pending(Sweep) /\ ~Pending(Hook) BY <1>1 DEF TrigInv, PassInv, Pending
<1>8. PassInv' BY <1>4, <1>7 DEF TrigInv, PassInv, Pending, Listening
<1>9. ModeInv'
  <2>1. \A r \in reserved : r.version \in 1..MaxVersion BY DEF ExpInv, ExpType, Claims
  <2>2. \A r \in reserved' : r.key[1] = "auto" => Label(r.dry) \in modes'[r.version]
    BY <1>5, <2>1 DEF TrigInv, ModeInv
  <2>3. QED BY <1>5, <2>2 DEF ModeInv, Finished
<1>10. call'[Hook].at = "idle" /\ call'[Sweep].at = "idle"
  <2>1. ThreadInv(Hook) /\ ThreadInv(Sweep) BY ThreadCalls DEF TrigInv
  <2>2. QED BY <1>1, <1>7, <2>1 DEF ThreadInv, Pending
<1>11. ThreadInv(Sweep)' BY <1>4, <1>7, <1>10, ThreadCalls, IdleThread DEF Pending
<1>12. ThreadInv(Hook)'
  <2>1. CASE ~(host = "this" /\ Listening /\ due' # "none" /\ Unlisted)
    BY <1>4, <1>10, <2>1, ThreadCalls, IdleThread
  <2>2. CASE host = "this" /\ Listening /\ due' # "none" /\ Unlisted
    <3>1. s = step BY <2>2
    <3>2. due' = step.mode /\ due' \in AutoModes /\ source.links = {}
      BY <1>1, <1>3, <2>2, <3>1 DEF DueModes, AutoModes, Unlisted
    <3>3. v > 0 BY DeliveryAssumption
    <3>4. due' \in modes'[source'.version] /\ trigger'[Hook] = "due" BY <1>4, <1>5, <2>2
    <3>5. QED BY <1>10, <3>2, <3>3, <3>4 DEF ThreadInv, Pending
  <2>3. QED BY <2>1, <2>2
<1>13. QED BY <1>6, <1>8, <1>9, <1>11, <1>12, ThreadCalls DEF TrigInv

\* A job of no trigger's that finishes owes nothing.
LEMMA FinishUntriggeredKeeps ==
    ASSUME ExpInv, TrigInv, Callings, owner # "trigger", Kept,
           source.status = "running", source'.status = "finished", source'.links = source.links, host' = "none",
           UNCHANGED <<trigRest, owner, reserved, call>>
    PROVE  TrigInv'
<1>1. UNCHANGED <<phase, epoch, boundary, step, stepOld, due, finishedAt, problem, trigger, late, modes>>
  BY DEF trigRest
<1>2. TrigType' BY <1>1 DEF TrigInv, TrigType
<1>3. \A t \in Threads : ThreadInv(t) /\ ~Pending(t) BY DEF TrigInv, ThreadInv
<1>4. \A t \in Threads : trigger[t] # "submitting" /\ call[t].at = "idle" BY <1>3 DEF ThreadInv, Pending
<1>5. PassInv' BY <1>1, <1>3, ThreadCalls DEF TrigInv, PassInv, Pending
<1>6. ModeInv' BY <1>1 DEF TrigInv, ModeInv
<1>7. \A t \in Threads : ThreadInv(t)' BY <1>1, <1>3, <1>4, IdleThread DEF Pending
<1>8. QED BY <1>2, <1>5, <1>6, <1>7 DEF TrigInv

LEMMA FinishKeeps ==
    ASSUME IInv, Finish PROVE IInv' /\ Kept
<1>1. ExpInv /\ RunInv /\ TrigInv /\ Callings /\ rounds \in Nat BY IInvIs
<1>2. PICK v \in 1..MaxVersion : Finishing(v) BY DEF Finish
<1>3. /\ UNCHANGED <<lease, submission, reserved, delivery, call, runs, faults>> /\ host' = "none" /\ Working
      /\ UNCHANGED <<phase, epoch, boundary, step, stepOld, problem, run, mode, requests, rounds, owner>>
  BY DEF Finish
<1>4. ExpInv' /\ Kept BY <1>1, <1>2, <1>3, SourceSteps
<1>5. /\ source.status = "running" /\ source'.status = "finished" /\ source'.version = v
      /\ source'.links = source.links
  BY <1>1, <1>2 DEF Finishing, ExpInv, ExpType, Sources
<1>6. TrigInv'
  <2>1. CASE owner = "trigger"
    <3>1. FinishTriggered BY <2>1 DEF Finish
    <3>2. QED BY <1>1, <1>3, <1>4, <1>5, <2>1, <3>1, FinishTriggeredKeeps
  <2>2. CASE owner # "trigger"
    <3>1. UNCHANGED <<due, finishedAt, trigger, late, modes>> BY <2>2 DEF Finish
    <3>2. UNCHANGED trigRest BY <1>3, <3>1 DEF trigRest
    <3>3. QED BY <1>1, <1>3, <1>4, <1>5, <2>2, <3>2, FinishUntriggeredKeeps
  <2>3. QED BY <2>1, <2>2
<1>7. Callings' BY <1>1, <1>3, CallingsStill
<1>8. RunInv'
  <2>1. CASE UNCHANGED act BY <1>1, <1>3, <1>4, <2>1, RunStill DEF runVars
  <2>2. CASE act[Finisher].at = "idle" /\ Notify
    <3>1. Finisher \in Actors BY DEF Actors
    <3>2. PICK next : next = [at |-> "notified"] OBVIOUS
    <3>3. next \in Acts /\ next.at = "notified" BY <3>2, Simple
    <3>4. act' = [act EXCEPT ![Finisher] = next] BY <2>2, <3>2 DEF Notify
    <3>5. call[Finisher].at = "idle" BY <1>1, <2>2, <3>1 DEF RunInv, ActInv, At
    <3>6. requests \in Nat /\ Confirmed(run.result) BY <1>1 DEF RunInv, RunType
    <3>7. QED BY <1>1, <1>3, <3>1, <3>3, <3>4, <3>5, <3>6, ActorMoves, RunFields DEF Reading, Handing
  <2>3. QED BY <2>1, <2>2 DEF Finish
<1>9. QED BY <1>4, <1>6, <1>7, <1>8 DEF IInv, Callings

LEMMA FailKeeps ==
    ASSUME IInv, Fail PROVE IInv' /\ Kept
<1>1. ExpInv /\ RunInv /\ TrigInv /\ Callings /\ rounds \in Nat BY IInvIs
<1>2. /\ SourceFails /\ host' = "none" /\ UNCHANGED <<lease, submission, reserved, delivery, call, runs, faults>>
      /\ UNCHANGED <<phase, epoch, boundary, step, stepOld, due, finishedAt, problem, trigger, late, modes>>
      /\ UNCHANGED <<runVars, owner>>
  BY DEF Fail, SourceFails
<1>3. ExpInv' /\ Kept BY <1>1, <1>2, SourceSteps
<1>4. source'.status = "failed" /\ source'.version = source.version /\ source'.links = source.links
  BY <1>1, <1>2 DEF SourceFails, ExpInv, ExpType, Sources
<1>5. TrigInv' BY <1>1, <1>2, <1>3, <1>4, TrigStill DEF trigRest
<1>6. Callings' BY <1>1, <1>2, CallingsStill DEF runVars
<1>7. RunInv' BY <1>1, <1>2, <1>3, RunStill
<1>8. QED BY <1>3, <1>5, <1>6, <1>7 DEF IInv, Callings

LEMMA AgainKeeps ==
    ASSUME IInv, Again PROVE IInv' /\ Kept
<1>1. ExpInv /\ RunInv /\ TrigInv /\ Callings /\ rounds \in Nat BY IInvIs
<1>2. /\ RunAgain /\ host' = "this" /\ phase = "serving"
      /\ UNCHANGED <<lease, submission, reserved, delivery, call, faults>>
      /\ UNCHANGED <<phase, epoch, boundary, step, stepOld, due, finishedAt, problem, trigger, late, modes>>
      /\ UNCHANGED <<runVars, owner>>
  BY DEF Again, RunAgain
<1>3. ExpInv' /\ Kept BY <1>1, <1>2, SourceSteps
<1>4. source'.status = "running" /\ source'.version = source.version /\ source'.links = source.links
  BY <1>1, <1>2 DEF RunAgain, ExpInv, ExpType, Sources
<1>5. trigger[Sweep] = "idle" BY <1>1, <1>2 DEF TrigInv, PassInv
<1>6. TrigInv' BY <1>1, <1>2, <1>3, <1>4, <1>5, TrigStill DEF trigRest
<1>7. Callings' BY <1>1, <1>2, CallingsStill DEF runVars
<1>8. RunInv' BY <1>1, <1>2, <1>3, RunStill
<1>9. QED BY <1>3, <1>6, <1>7, <1>8 DEF IInv, Callings

LEMMA DeleteKeeps ==
    ASSUME IInv, Delete PROVE IInv' /\ Kept
<1>1. ExpInv /\ RunInv /\ TrigInv /\ Callings /\ rounds \in Nat BY IInvIs
<1>2. /\ DeleteSource /\ UNCHANGED <<lease, submission, reserved, delivery, call, runs, faults>>
      /\ UNCHANGED <<phase, epoch, host, boundary, step, stepOld, due, finishedAt, problem, trigger, late, modes>>
      /\ UNCHANGED <<runVars, owner>>
  BY DEF Delete, DeleteSource, trig
<1>3. ExpInv' /\ Kept BY <1>1, <1>2, SourceSteps
<1>4. source'.status = "deleted" /\ source'.version = source.version /\ source'.links = source.links
  BY <1>1, <1>2 DEF DeleteSource, ExpInv, ExpType, Sources
<1>5. host' \in {"this", "old", "none"} BY <1>1, <1>2 DEF TrigInv, TrigType
<1>6. TrigInv' BY <1>1, <1>2, <1>3, <1>4, <1>5, TrigStill DEF trigRest
<1>7. Callings' BY <1>1, <1>2, CallingsStill DEF runVars
<1>8. RunInv' BY <1>1, <1>2, <1>3, RunStill
<1>9. QED BY <1>3, <1>6, <1>7, <1>8 DEF IInv, Callings
LEMMA StartProcessKeeps ==
    ASSUME IInv, StartProcess PROVE IInv' /\ Kept
<1>1. ExpInv /\ RunInv /\ TrigInv /\ Callings /\ rounds \in Nat BY IInvIs
<1>2. PICK config \in Configs : Start(config) BY DEF StartProcess
<1>3. /\ phase = "down" /\ phase' = "starting" /\ epoch < MaxStarts /\ epoch' = epoch + 1
      /\ boundary' = Sync(config) /\ step' \in {NoStep, boundary'}
      /\ host' = (IF host = "none" /\ source.status = "running" THEN "this" ELSE host)
      /\ trigger' = [trigger EXCEPT ![Sweep] = "list"] /\ late' = FALSE
      /\ UNCHANGED <<stepOld, due, finishedAt, problem, modes>>
  BY <1>2 DEF Start
<1>4. UNCHANGED <<exp, runVars, owner>> /\ UNCHANGED <<source, reserved, delivery, call, rounds>>
  BY DEF StartProcess, exp, runVars
<1>5. ExpInv' /\ Kept BY <1>1, <1>4, ExpStill
<1>6. Callings' BY <1>1, <1>4, CallingsStill
<1>7. RunInv' BY <1>1, <1>4, <1>5, RunStill
<1>8. boundary' \in Steps
  <2>1. epoch + 1 \in Nat /\ boundary \in Steps BY <1>1, TrigFields DEF TrigInv, TrigType
  <2>2. config \in {"none", "dry_run", "live", "read_only"} BY TriggerAssumption
  <2>3. CASE config \in {"none", "read_only"} BY <1>3, <2>1, <2>3 DEF Sync, Steps
  <2>4. CASE config \in AutoModes
    <3>1. PICK next : next = [mode |-> config, since |-> epoch + 1] OBVIOUS
    <3>2. next \in Steps BY <2>1, <2>4, <3>1 DEF Steps
    <3>3. boundary' \in {boundary, next} BY <1>3, <2>4, <3>1 DEF Sync, AutoModes
    <3>4. QED BY <2>1, <3>2, <3>3
  <2>5. QED BY <2>2, <2>3, <2>4 DEF AutoModes
<1>9. /\ trigger' \in [Threads -> {"list", "idle", "due", "submitting"}] /\ trigger'[Sweep] = "list"
      /\ trigger'[Hook] = "idle" /\ trigger[Sweep] = "idle"
  BY <1>1, <1>3, ThreadCalls DEF TrigInv, TrigType, PassInv
<1>10. TrigType'
  <2>1. finishedAt' \in 0..epoch' /\ epoch' \in 0..MaxStarts
    BY <1>1, <1>3, TrigFields, TriggerAssumption DEF TrigInv, TrigType
  <2>2. QED BY <1>1, <1>3, <1>8, <1>9, <2>1 DEF TrigInv, TrigType
<1>11. PassInv' BY <1>3, <1>9 DEF PassInv, Pending
<1>12. ModeInv' BY <1>1, <1>3, <1>4 DEF TrigInv, ModeInv, Finished
<1>13. ASSUME NEW t \in Threads PROVE ThreadInv(t)'
  <2>1. ThreadInv(t) BY <1>1 DEF TrigInv
  <2>2. trigger[t] = "idle" BY <1>1, <1>3, <1>9, ThreadCalls DEF TrigInv, PassInv
  <2>3. call'[t].at = "idle" BY <1>4, <2>1, <2>2 DEF ThreadInv
  <2>4. trigger'[t] \notin {"due", "submitting"} BY <1>9, ThreadCalls
  <2>5. QED BY <2>3, <2>4, IdleThread
<1>14. TrigInv' BY <1>10, <1>11, <1>12, <1>13 DEF TrigInv
<1>15. QED BY <1>5, <1>6, <1>7, <1>14 DEF IInv, Callings

LEMMA EndProcessKeeps ==
    ASSUME IInv, EndProcess PROVE IInv' /\ Kept
<1>1. ExpInv /\ RunInv /\ TrigInv /\ Callings /\ rounds \in Nat BY IInvIs
<1>2. PICK graceful \in BOOLEAN : Ends(graceful) BY DEF EndProcess
<1>3. /\ phase' = "down" /\ host' \in {"this", "old", "none"} /\ stepOld' \in {step, stepOld}
      /\ trigger' = [t \in Threads |-> "idle"]
      /\ UNCHANGED <<epoch, boundary, step, due, finishedAt, problem, late, modes>>
  BY <1>1, <1>2 DEF Ends, TrigInv, TrigType
<1>4. /\ ExpCrash /\ RunCrash /\ UNCHANGED <<source, reserved, owner>>
      /\ act' = [a \in Actors |-> Unowed] /\ UNCHANGED <<run, mode, requests, rounds>>
  BY DEF EndProcess, ExpCrash, RunCrash
<1>5. ExpInv' /\ Kept /\ \A a \in Callers : call'[a].at = "idle" BY <1>1, <1>4, CrashKeeps
<1>6. Callings' BY <1>1, <1>4, <1>5, CallingsIdle
<1>7. RunInv'
  <2>1. Unowed \in Acts /\ Unowed.at = "idle" BY Simple
  <2>2. RunType' BY <1>1, <1>4, <2>1 DEF RunInv, RunType
  <2>3. Confirmed(run.result)' BY <1>1, <1>4, <1>5, ConfirmedStays DEF RunInv, Confirmed
  <2>4. run'.round <= rounds' BY <1>1, <1>4 DEF RunInv
  <2>5. ASSUME NEW a \in Actors PROVE ActInv(a)'
    <3>1. call'[a].at = "idle" /\ act'[a].at = "idle" BY <1>4, <1>5, <2>1, ThreadCalls
    <3>2. QED BY <3>1 DEF ActInv, At, Reading, Handing
  <2>6. QED BY <2>2, <2>3, <2>4, <2>5 DEF RunInv
<1>8. TrigType' BY <1>1, <1>3, TrigFields, ThreadCalls DEF TrigInv, TrigType
<1>9. PassInv' BY <1>3, ThreadCalls DEF PassInv, Pending
<1>10. ModeInv' BY <1>1, <1>3, <1>4 DEF TrigInv, ModeInv, Finished
<1>11. \A t \in Threads : ThreadInv(t)' BY <1>3, <1>5, ThreadCalls, IdleThread
<1>12. TrigInv' BY <1>8, <1>9, <1>10, <1>11 DEF TrigInv
<1>13. QED BY <1>5, <1>6, <1>7, <1>12 DEF IInv, Callings

LEMMA ClientKeeps ==
    ASSUME IInv, NEW a \in Clients, Client(a) PROVE IInv' /\ Kept
<1>1. ExpInv /\ RunInv /\ TrigInv /\ Callings /\ rounds \in Nat BY IInvIs
<1>2. /\ owner = "client" /\ UNCHANGED <<source, lease, submission, reserved, delivery, runs, faults>>
      /\ UNCHANGED <<runVars, trig, owner, rounds>>
      /\ UNCHANGED <<phase, epoch, host, boundary, step, stepOld, due, finishedAt, problem, trigger, late, modes>>
  BY DEF Client, trig, runVars
<1>3. a \in Callers /\ a \notin Actors /\ a \notin Threads BY FlowAssumption
<1>4. ExpInv' /\ Kept /\ Callings' /\ \A b \in Callers \ {a} : call'[b] = call[b]
  <2>1. CASE call[a].at = "idle" /\ \E dry \in BOOLEAN : Submit(a, <<"client">>, dry)
    <3>1. PICK dry \in BOOLEAN : Submit(a, <<"client">>, dry) BY <2>1
    <3>2. PICK key : key = ClientKey OBVIOUS
    <3>3. key \in Keys(rounds) /\ key \in AllKeys BY <1>1, <3>2, KeysAre
    <3>4. key[1] = "client" BY <3>2 DEF ClientKey
    <3>5. Submit(a, key, dry)
      <4>1. key = <<"client">> BY <3>2 DEF ClientKey
      <4>2. QED BY <3>1, <4>1
    <3>6. ExpInv' /\ Kept /\ call'[a].key = key /\ \A b \in Callers \ {a} : call'[b] = call[b]
      BY <1>1, <1>2, <1>3, <2>1, <3>3, <3>5, SubmitStarts
    <3>7. Suits(a, key[1]) BY <1>2, <3>4 DEF Suits
    <3>8. Callings' BY <1>1, <1>2, <1>3, <3>3, <3>6, <3>7, CallingsStart
    <3>9. QED BY <3>6, <3>8
  <2>2. CASE Returned(a) /\ Forget(a)
    <3>1. ExpInv' /\ Kept /\ call'[a].at = "idle" /\ \A b \in Callers \ {a} : call'[b] = call[b]
      BY <1>1, <1>2, <1>3, <2>2, Forgets
    <3>2. Callings' BY <1>1, <1>2, <1>3, <3>1, CallingsForget
    <3>3. QED BY <3>1, <3>2
  <2>3. QED BY <2>1, <2>2 DEF Client
<1>5. \A b \in Actors \cup Threads : call'[b] = call[b] BY <1>3, <1>4, ThreadCalls
<1>6. RunInv' BY <1>1, <1>2, <1>4, <1>5, RunStill
<1>7. host' \in {"this", "old", "none"} BY <1>1, <1>2 DEF TrigInv, TrigType
<1>8. TrigInv' BY <1>1, <1>2, <1>4, <1>5, <1>7, TrigStill DEF trigRest
<1>9. QED BY <1>4, <1>6, <1>8 DEF IInv, Callings

LEMMA SubmissionsKeep ==
    ASSUME IInv, Submissions \/ Faults
    PROVE  IInv' /\ Kept /\ UNCHANGED <<runVars, owner>> /\ \E a \in Callers : Moves(a)
<1>1. ExpInv /\ RunInv /\ TrigInv /\ Callings /\ rounds \in Nat BY IInvIs
<1>2. UNCHANGED <<runVars, trig, owner, rounds>> BY DEF Submissions, Faults, runVars
<1>3. PICK a \in Callers : SubmitStep(a) \/ SubmissionFails(a) BY DEF Submissions, Faults
<1>4. ExpInv' /\ Kept /\ Moves(a)
  BY <1>1, <1>3, FindReusedMoves, FindNewMoves, ReserveMoves, EnqueueMoves, LinkMoves, SubmissionFailsMoves
     DEF SubmitStep
<1>5. Callings' BY <1>1, <1>2, <1>4, CallingsMove
<1>6. TrigInv' BY <1>1, <1>2, <1>4, TrigMoves
<1>7. \A b \in Actors : call'[b].at # "idle" <=> call[b].at # "idle"
  <2>1. \A b \in Callers : call'[b].at # "idle" <=> call[b].at # "idle" BY <1>4 DEF Moves
  <2>2. QED BY <2>1, ThreadCalls
<1>8. RunInv' BY <1>1, <1>2, <1>4, <1>7, RunStill
<1>9. QED BY <1>2, <1>4, <1>5, <1>6, <1>8 DEF IInv, Callings

LEMMA DeliveriesKeep ==
    ASSUME IInv, Deliveries PROVE IInv' /\ Kept /\ \A d \in Ids : Created(d)' <=> Created(d)
<1>1. ExpInv /\ RunInv /\ TrigInv /\ Callings /\ rounds \in Nat BY IInvIs
<1>2. PICK d \in Ids : StartDelivery(d) \/ EndDelivery(d) BY DEF Deliveries, DeliveryStep
<1>3. UNCHANGED <<source, submission, reserved, call, runs, faults>> BY <1>2 DEF StartDelivery, EndDelivery
<1>4. ExpInv' /\ Kept /\ \A e \in Ids : Created(e)' <=> Created(e)
  BY <1>1, <1>2, StartDeliveryKeeps, EndDeliveryKeeps
<1>5. /\ UNCHANGED <<runVars, trig, owner, rounds>>
      /\ UNCHANGED <<phase, epoch, host, boundary, step, stepOld, due, finishedAt, problem, trigger, late, modes>>
  BY DEF Deliveries, runVars, trig
<1>6. Callings' BY <1>1, <1>3, <1>5, CallingsStill
<1>7. RunInv' BY <1>1, <1>3, <1>4, <1>5, RunStill
<1>8. host' \in {"this", "old", "none"} BY <1>1, <1>5 DEF TrigInv, TrigType
<1>9. TrigInv' BY <1>1, <1>3, <1>4, <1>5, <1>8, TrigStill DEF trigRest
<1>10. QED BY <1>4, <1>6, <1>7, <1>9 DEF IInv, Callings

LEMMA PipelineKeeps ==
    ASSUME IInv, Pipeline \/ Requests PROVE IInv' /\ Kept /\ UNCHANGED delivery /\ UNCHANGED source
<1>1. ExpInv /\ RunInv /\ TrigInv /\ Callings /\ rounds \in Nat BY IInvIs
<1>2. /\ owner = "pipeline" /\ UNCHANGED <<trig, owner>>
      /\ UNCHANGED <<phase, epoch, host, boundary, step, stepOld, due, finishedAt, problem, trigger, late, modes>>
  BY DEF Pipeline, Requests, trig
<1>3. CASE \E a \in Actors : HandOff(a) \/ HandedOff(a) \/ HandOffFails(a)
  <2>1. PICK a \in Actors : HandOff(a) \/ HandedOff(a) \/ HandOffFails(a) BY <1>3
  <2>2. ExpInv' /\ Kept /\ RunInv' /\ Callings' /\ \A b \in Callers \ {a} : call'[b] = call[b]
    BY <1>1, <1>2, <2>1, HandOffKeeps, HandOffEnds
  <2>3. UNCHANGED <<source, reserved, delivery>> BY <2>1 DEF HandOff, HandedOff, HandOffFails
  <2>4. \A t \in Threads : call'[t] = call[t] BY <2>2, ThreadCalls
  <2>5. host' \in {"this", "old", "none"} BY <1>1, <1>2 DEF TrigInv, TrigType
  <2>6. TrigInv' BY <1>1, <1>2, <2>2, <2>3, <2>4, <2>5, TrigStill DEF trigRest
  <2>7. QED BY <2>2, <2>3, <2>6 DEF IInv, Callings
<1>4. CASE RunInv' /\ UNCHANGED exp /\ UNCHANGED rounds
  <2>1. ExpInv' /\ Kept /\ UNCHANGED <<source, reserved, delivery, call>> BY <1>1, <1>4, ExpStill DEF exp
  <2>2. Callings' BY <1>1, <1>2, <1>4, <2>1, CallingsStill
  <2>3. host' \in {"this", "old", "none"} BY <1>1, <1>2 DEF TrigInv, TrigType
  <2>4. TrigInv' BY <1>1, <1>2, <2>1, <2>3, TrigStill DEF trigRest
  <2>5. QED BY <1>4, <2>1, <2>2, <2>4 DEF IInv, Callings
<1>5. CASE Requests
  <2>1. Request \/ SetMode BY <1>5 DEF Requests, RequestStep
  <2>2. RunInv' BY <1>1, <2>1, RequestKeeps
  <2>3. QED BY <1>4, <2>1, <2>2 DEF Request, SetMode
<1>6. CASE OnJobFinished \/ RecoverRuns \/ RecoverMissed
  <2>1. RunInv' BY <1>1, <1>6, OnJobFinishedKeeps, RecoverRunsKeeps, RecoverMissedKeeps
  <2>2. QED BY <1>4, <1>6, <2>1 DEF OnJobFinished, RecoverRuns, RecoverMissed, Quiet
<1>7. ASSUME NEW a \in Actors,
             \/ Deliver(a) \/ Refresh(a) \/ RecordResult(a) \/ Refreshed(a) \/ Acknowledge(a)
             \/ JudgeJob(a) \/ Hold(a) \/ ReleaseHeld(a) \/ Unhold(a)
      PROVE  IInv' /\ Kept /\ UNCHANGED delivery /\ UNCHANGED source
  <2>1. RunInv'
    BY <1>1, <1>7, DeliverKeeps, RefreshKeeps, RecordResultKeeps, RefreshedKeeps, AcknowledgeKeeps,
       JudgeJobKeeps, HoldKeeps, ReleaseHeldKeeps, UnholdKeeps
  <2>2. UNCHANGED <<rounds, exp>>
    BY <1>7 DEF Deliver, Refresh, RecordResult, Refreshed, Acknowledge, JudgeJob, Hold, ReleaseHeld, Unhold, Quiet
  <2>3. QED BY <1>4, <2>1, <2>2
<1>8. QED BY <1>3, <1>5, <1>6, <1>7 DEF Pipeline, ActorStep

LEMMA TriggersKeep ==
    ASSUME IInv, Triggers PROVE IInv' /\ Kept /\ UNCHANGED delivery
<1>1. ExpInv /\ RunInv /\ TrigInv /\ Callings /\ rounds \in Nat BY IInvIs
<1>2. UNCHANGED <<runVars, owner, rounds>> BY DEF Triggers, runVars
<1>3. CASE Reconcile
  <2>1. UNCHANGED exp BY <1>3 DEF Reconcile
  <2>2. ExpInv' /\ Kept /\ UNCHANGED <<source, reserved, delivery, call>> BY <1>1, <2>1, ExpStill DEF exp
  <2>3. TrigInv' BY <1>1, <1>2, <1>3, ReconcileKeeps
  <2>4. Callings' BY <1>1, <1>2, <2>2, CallingsStill
  <2>5. RunInv' BY <1>1, <1>2, <2>2, RunStill
  <2>6. QED BY <2>2, <2>3, <2>4, <2>5 DEF IInv, Callings
<1>4. CASE \E t \in Threads : SubmitDue(t) \/ SetDeliveryError(t)
  <2>1. PICK t \in Threads : SubmitDue(t) \/ SetDeliveryError(t) BY <1>4
  <2>2. ExpInv' /\ Kept /\ Callings' /\ TrigInv' /\ \A b \in Callers \ {t} : call'[b] = call[b]
    BY <1>1, <1>2, <2>1, SubmitDueKeeps, SetDeliveryErrorKeeps
  <2>3. \A b \in Actors : call'[b] = call[b] BY <2>2, ThreadCalls
  <2>4. RunInv' BY <1>1, <1>2, <2>2, <2>3, RunStill
  <2>5. UNCHANGED delivery BY <2>1 DEF SubmitDue, SetDeliveryError
  <2>6. QED BY <2>2, <2>4, <2>5 DEF IInv, Callings
<1>5. QED BY <1>3, <1>4 DEF Triggers, TriggerStep

LEMMA LifeKeeps ==
    ASSUME IInv, Life \/ Serving PROVE IInv' /\ Kept /\ UNCHANGED delivery
<1>1. ExpInv /\ RunInv /\ TrigInv /\ Callings /\ rounds \in Nat BY IInvIs
<1>2. UNCHANGED <<exp, runVars, owner, rounds>> BY DEF Life, Serving, TakeOver, OldDies, Serve, runVars
<1>3. ExpInv' /\ Kept /\ UNCHANGED <<source, reserved, delivery, call>> BY <1>1, <1>2, ExpStill DEF exp
<1>4. Callings' BY <1>1, <1>2, <1>3, CallingsStill
<1>5. RunInv' BY <1>1, <1>2, <1>3, RunStill
<1>6. TrigInv'
  <2>1. CASE Serving BY <1>1, <1>2, <2>1, ServeKeeps DEF Serving
  <2>2. CASE Life
    <3>1. /\ UNCHANGED <<phase, epoch, boundary, step, stepOld, due, finishedAt, problem, trigger, late, modes>>
          /\ host' \in {"this", "old", "none"}
      BY <2>2 DEF Life, TakeOver, OldDies
    <3>2. QED BY <1>1, <1>2, <1>3, <3>1, TrigStill DEF trigRest
  <2>3. QED BY <2>1, <2>2
<1>7. QED BY <1>3, <1>4, <1>5, <1>6 DEF IInv, Callings
-----------------------------------------------------------------------------
(* The invariant holds. *)
LEMMA InitIInv == Init => IInv
<1> SUFFICES ASSUME Init PROVE IInv OBVIOUS
<1>1. ExpInv BY ExpInitInv DEF Init
<1>2. \A a \in Callers : call[a].at = "idle" BY NoCallIs DEF Init, ExpInit
<1>3. reserved = {} /\ source.status = "running" BY DEF Init, ExpInit
<1>4. KindInv /\ OwnerInv BY <1>2, <1>3 DEF KindInv, OwnerInv
<1>5. RunInv
  <2>1. /\ mode \in Modes /\ act = [a \in Actors |-> Unowed] /\ requests = 0 /\ rounds = 0
        /\ \E m \in RunModes :
              run = [mode |-> m, outcome |-> "none", delivery |-> "awaiting", attempts |-> 0,
                     id |-> Free, result |-> "none", round |-> 0]
    BY DEF Init, RunInit
  <2>2. run \in RunRecords /\ run.delivery = "awaiting" /\ run.round = 0 /\ run.result = "none"
    BY <2>1 DEF RunRecords, Results
  <2>3. Unowed \in Acts /\ Unowed.at = "idle" BY Simple
  <2>4. RunType BY <2>1, <2>2, <2>3 DEF RunType
  <2>5. \A a \in Actors : ActInv(a)
    BY <1>2, <2>1, <2>3, ThreadCalls DEF ActInv, At, Reading, Handing
  <2>6. QED BY <2>1, <2>2, <2>4, <2>5 DEF RunInv, Confirmed
<1>6. TrigInv
  <2>1. /\ phase = "down" /\ epoch = 0 /\ host = "none" /\ boundary = NoStep /\ step = NoStep /\ stepOld = NoStep
        /\ due = "none" /\ finishedAt = 0 /\ problem = FALSE /\ late = FALSE
        /\ trigger = [t \in Threads |-> "idle"] /\ modes = [v \in 1..MaxVersion |-> {}]
    BY DEF Init, TrigInit
  <2>2. \A t \in Threads : trigger[t] = "idle" BY <2>1
  <2>3. TrigType
    <3>1. epoch \in 0..MaxStarts /\ finishedAt \in 0..epoch BY <2>1, TriggerAssumption
    <3>2. boundary \in Steps /\ step \in {NoStep, boundary} /\ stepOld \in Steps BY <2>1 DEF Steps
    <3>3. modes \in [1..MaxVersion -> SUBSET DueModes] BY <2>1
    <3>4. trigger \in [Threads -> {"list", "idle", "due", "submitting"}] /\ trigger[Hook] # "list"
      BY <2>1, ThreadCalls
    <3>5. QED BY <2>1, <3>1, <3>2, <3>3, <3>4 DEF TrigType, DueModes
  <2>4. PassInv BY <2>2, ThreadCalls DEF PassInv, Pending
  <2>5. ModeInv BY <1>3, <2>1 DEF ModeInv, Finished
  <2>6. \A t \in Threads : ThreadInv(t) BY <1>2, <2>2, ThreadCalls DEF ThreadInv, Pending
  <2>7. QED BY <2>3, <2>4, <2>5, <2>6 DEF TrigInv
<1>7. QED BY <1>1, <1>4, <1>5, <1>6 DEF IInv

LEMMA NextIInv == IInv /\ Next => IInv'
BY FinishKeeps, FailKeeps, AgainKeeps, DeleteKeeps, StartProcessKeeps, EndProcessKeeps, LifeKeeps, SubmissionsKeep,
   DeliveriesKeep, PipelineKeeps, TriggersKeep, ClientKeeps
DEF Next

LEMMA StillIInv == IInv /\ UNCHANGED vars => IInv'
<1> SUFFICES ASSUME IInv, UNCHANGED vars PROVE IInv' OBVIOUS
<1>1. ExpInv /\ RunInv /\ TrigInv /\ Callings /\ rounds \in Nat BY IInvIs
<1>2. UNCHANGED <<exp, runVars, trig, owner>> BY DEF vars
<1>3. /\ UNCHANGED <<phase, epoch, host, boundary, step, stepOld, due, finishedAt, problem, trigger, late, modes>>
      /\ UNCHANGED <<source, reserved, delivery, call, rounds>>
  BY <1>2 DEF trig, exp, runVars
<1>4. ExpInv' /\ Kept BY <1>1, <1>2, ExpStill
<1>5. RunInv' BY <1>1, <1>2, <1>3, <1>4, RunStill
<1>6. Callings' BY <1>1, <1>2, <1>3, CallingsStill
<1>7. host' \in {"this", "old", "none"} BY <1>1, <1>3 DEF TrigInv, TrigType
<1>8. TrigInv' BY <1>1, <1>2, <1>3, <1>4, <1>7, TrigStill DEF trigRest
<1>9. QED BY <1>4, <1>5, <1>6, <1>8 DEF IInv, Callings

(* The inductive invariant of the flow: what it takes to see the four below. *)
THEOREM Inductive == Spec => []IInv
<1>1. Init => IInv BY InitIInv
<1>2. IInv /\ [Next]_vars => IInv' BY NextIInv, StillIInv
<1>3. QED BY <1>1, <1>2, PTL DEF Spec

-----------------------------------------------------------------------------
(* What follows from it. *)
LEMMA TypesFollow == IInv => TypeOK
<1> SUFFICES ASSUME IInv PROVE TypeOK OBVIOUS
<1>1. ExpInv /\ RunInv /\ TrigInv BY DEF IInv
<1>2. ExpTypeOK
  <2>1. \A d \in Ids : delivery[d] \in Jobs BY <1>1 DEF ExpInv, ExpType
  <2>2. \A d \in Ids : /\ DOMAIN delivery[d] = DOMAIN NoJob
                       /\ delivery[d].state \in {"none", "accepted", "running", "successful", "failed", "cancelled"}
                       /\ delivery[d].version \in 0..MaxVersion
    <3>1. \A j \in Jobs : /\ DOMAIN j = {"state", "key", "dry", "version", "outcome"}
                          /\ j.state \in JobStates /\ j.version \in 0..MaxVersion
      BY DEF Jobs
    <3>2. DOMAIN NoJob = {"state", "key", "dry", "version", "outcome"} BY NoCallIs
    <3>3. QED BY <2>1, <3>1, <3>2 DEF JobStates
  <2>3. \A a \in Callers : /\ DOMAIN call[a] = DOMAIN NoCall
                           /\ call[a].at \in {"idle", "find", "reserve", "create", "link", "done", "busy", "refused"}
                           /\ submission = a <=> call[a].at \in {"reserve", "create", "link"}
    <3>1. \A c \in Calls : DOMAIN c = {"at", "key", "dry", "version", "id"} /\ c.at \in Places BY DEF Calls
    <3>2. DOMAIN NoCall = {"at", "key", "dry", "version", "id"} BY NoCallIs
    <3>3. \A a \in Callers : call[a] \in Calls /\ (submission = a <=> call[a].at \in Locked)
      BY <1>1 DEF ExpInv, ExpType, CallInv
    <3>4. QED BY <3>1, <3>2, <3>3 DEF Places, Locked
  <2>4. \A r \in reserved : r.dry \in BOOLEAN /\ r.version \in 1..MaxVersion /\ r.id \in Ids
    BY <1>1 DEF ExpInv, ExpType, Claims
  <2>5. source \in [status : {"running", "finished", "failed", "deleted"}, version : 0..MaxVersion, links : SUBSET Ids]
    BY <1>1 DEF ExpInv, ExpType, Sources, Statuses
  <2>6. QED BY <1>1, <2>2, <2>3, <2>4, <2>5 DEF ExpInv, ExpType, ExpTypeOK
<1>3. RunTypeOK
  <2>1. /\ run.mode \in RunModes /\ run.outcome \in {"none", "error", "missing"}
        /\ run.delivery \in {"awaiting", "held", "failed", "submitted"}
        /\ run.attempts \in Nat /\ run.round \in Nat /\ run.id \in Ids \cup {Free} /\ run.result \in Results
        /\ run.delivery = "submitted" => run.id # Free
    BY <1>1, RunFields DEF RunRecords
  <2>2. \A a \in Actors : call[a].at # "idle" <=> At(a, "submitting") BY <1>1 DEF RunInv, ActInv
  <2>3. QED BY <2>1, <2>2 DEF RunTypeOK
<1>4. TrigTypeOK
  <2>1. \A s \in Steps : s.mode \in DueModes BY DEF Steps, NoStep, AutoModes, DueModes
  <2>2. {boundary.mode, step.mode, stepOld.mode, due} \subseteq DueModes
    BY <1>1, <2>1, TrigFields DEF TrigInv, TrigType
  <2>3. finishedAt <= epoch BY <1>1, TrigFields DEF TrigInv, TrigType
  <2>4. /\ trigger[Hook] \in {"idle", "due", "submitting"}
        /\ trigger[Sweep] \in {"list", "idle", "due", "submitting"}
    BY <1>1, TrigFields, ThreadCalls DEF TrigInv, TrigType
  <2>5. QED BY <1>1, <2>2, <2>3, <2>4, TrigFields DEF TrigInv, TrigType, TrigTypeOK, DueModes
<1>5. QED BY <1>2, <1>3, <1>4 DEF TypeOK

\* A delivery job goes by a key there is.
LEMMA JobKeys ==
    ASSUME IInv, NEW d \in Ids, Created(d)
    PROVE  /\ delivery[d].key \in Keys(rounds)
           /\ \E r \in reserved : /\ r.key = delivery[d].key /\ r.dry = delivery[d].dry
                                  /\ r.version = delivery[d].version /\ r.id = d
<1>1. PICK r : r = Claim(delivery[d], d) OBVIOUS
<1>2. r \in reserved BY <1>1 DEF IInv, ExpInv, ClaimInv
<1>3. r.key = delivery[d].key /\ r.dry = delivery[d].dry /\ r.version = delivery[d].version /\ r.id = d
  BY <1>1 DEF Claim
<1>4. QED BY <1>2, <1>3 DEF IInv, KindInv

LEMMA RequestedFollows == IInv => SentAgainOnRequest
<1> SUFFICES ASSUME IInv PROVE SentAgainOnRequest OBVIOUS
<1> DEFINE D == {d \in Ids : Created(d) /\ delivery[d].key[1] = "run"}
           f == [d \in D |-> delivery[d].key[2]]
<1>1. rounds \in Nat BY IInvIs
<1>2. \A k \in 0..rounds : Round(k)[2] = k BY DEF Round
<1>3. ASSUME NEW d \in D PROVE f[d] \in 0..rounds /\ delivery[d].key = Round(f[d])
  <2>1. delivery[d].key \in Keys(rounds) BY <1>3, JobKeys
  <2>2. PICK k \in 0..rounds : delivery[d].key = Round(k) BY <1>1, <1>3, <2>1, KeyTag
  <2>3. QED BY <1>2, <2>2
<1>4. ASSUME NEW d \in D, NEW e \in D, f[d] = f[e] PROVE d = e
  <2>1. delivery[d].key = delivery[e].key BY <1>3, <1>4
  <2>2. \E r \in reserved : r.key = delivery[d].key /\ r.id = d BY JobKeys
  <2>3. \E r \in reserved : r.key = delivery[e].key /\ r.id = e BY JobKeys
  <2>4. QED BY <2>1, <2>2, <2>3 DEF IInv, ExpInv, ClaimInv
<1>5. f \in Injection(D, 0..rounds) BY <1>3, <1>4 DEF Injection, IsInjective
<1>6. IsFiniteSet(0..rounds) /\ Cardinality(0..rounds) = rounds + 1
  BY <1>1, FS_Interval
<1>7. Cardinality(D) <= Cardinality(0..rounds) BY <1>5, <1>6, FS_Injection
<1>8. IsFiniteSet(D) BY <1>5, <1>6, FS_Injection
<1>9. Cardinality(D) \in Nat BY <1>8, FS_CardinalityType
<1>10. Cardinality(D) <= 1 + rounds BY <1>1, <1>6, <1>7, <1>9
<1>11. QED BY <1>10 DEF SentAgainOnRequest

LEMMA KnownFollows == IInv => KnownForWhatItIs
<1> SUFFICES ASSUME IInv PROVE KnownForWhatItIs OBVIOUS
<1>1. ConfirmedByDestination BY DEF IInv, RunInv, Confirmed, ConfirmedByDestination
<1>2. ASSUME NEW d \in Ids, Automatic(d)
      PROVE  (IF delivery[d].dry THEN "dry_run" ELSE "live") \in modes[delivery[d].version]
  <2>1. Created(d) /\ delivery[d].key[1] = "auto" BY <1>2 DEF Automatic
  <2>2. PICK r \in reserved : /\ r.key = delivery[d].key /\ r.dry = delivery[d].dry
                              /\ r.version = delivery[d].version
    BY <2>1, JobKeys
  <2>3. QED BY <2>1, <2>2 DEF IInv, TrigInv, ModeInv, Label
<1>3. QED BY <1>1, <1>2 DEF KnownForWhatItIs, LiveFinishedLive

\* A job is new only where a submission makes it.
LEMMA NewJobs ==
    ASSUME IInv, [Next]_vars, NEW d \in Ids, ~Created(d), Created(d)'
    PROVE  \E a \in Callers : call[a].at = "create" /\ delivery'[d].key = call[a].key
<1>1. delivery' # delivery BY DEF Created
<1>2. CASE Submissions \/ Faults BY <1>2, SubmissionsKeep DEF Moves
<1>3. CASE Deliveries BY <1>3, DeliveriesKeep
<1>4. CASE EndProcess
  <2>1. ExpCrash /\ UNCHANGED source /\ ExpInv BY <1>4, IInvIs DEF EndProcess
  <2>2. QED BY <2>1, CrashKeeps
<1>5. CASE Finish \/ Fail \/ Again \/ Delete \/ StartProcess \/ Life \/ Serving
  BY <1>1, <1>5, LifeKeeps DEF Finish, Fail, SourceFails, Again, RunAgain, Delete, DeleteSource, StartProcess, exp
<1>6. CASE Pipeline \/ Requests \/ Triggers BY <1>1, <1>6, PipelineKeeps, TriggersKeep
<1>7. CASE \E a \in Clients : Client(a) BY <1>1, <1>7 DEF Client
<1>8. CASE UNCHANGED vars BY <1>1, <1>8 DEF vars, exp
<1>9. QED BY <1>2, <1>3, <1>4, <1>5, <1>6, <1>7, <1>8 DEF Next

LEMMA ListedStep ==
    ASSUME IInv, [Next]_vars, NEW d \in Ids, ~Created(d), Created(d)', delivery'[d].key[1] = "auto"
    PROVE  source.links = {}
<1>1. PICK a \in Callers : call[a].at = "create" /\ delivery'[d].key = call[a].key BY NewJobs
<1>2. a \in Threads BY <1>1 DEF IInv, KindInv
<1>3. ThreadInv(a) BY <1>2 DEF IInv, TrigInv
<1>4. QED BY <1>1, <1>3 DEF ThreadInv

-----------------------------------------------------------------------------
(* Every variable keeps its type: of a submission, a run, a trigger and the   *)
(* jobs they deliver.                                                         *)
THEOREM TypesHold == Spec => []TypeOK
BY Inductive, TypesFollow, PTL

(* While a delivery job sends, the source is the finished result that was     *)
(* submitted, and its lease the job's own: whoever deletes the source, runs   *)
(* it again or submits it at any moment, and whatever a crash left            *)
(* (exports/delivery.py, exports/retention.py).                               *)
THEOREM SentIsSubmittedHolds == Spec => []SentIsSubmitted
<1>1. IInv => SentIsSubmitted BY SentFromInv, IInvIs
<1>2. QED BY <1>1, Inductive, PTL

(* A run is called delivered only when the destination confirmed it, and what *)
(* a trigger delivers live was finished live: across restarts with another    *)
(* configuration, and under a process that outlived its stop                  *)
(* (pipelines/runner.py, automation/service.py).                              *)
THEOREM KnownForWhatItIsHolds == Spec => []KnownForWhatItIs
BY Inductive, KnownFollows, PTL

(* Nothing is sent twice, under the key it had or under another, unless an    *)
(* operator asked: however the hook, the pass, the recovery, the operator and *)
(* the crashes fall together (exports/reservations.py, pipelines/runner.py,   *)
(* automation/service.py).                                                    *)
THEOREM SentOnceHolds == Spec => SentOnce
<1> DEFINE Unlisting == \A d \in Ids : ~Created(d) /\ Created(d)' /\ delivery'[d].key[1] = "auto" => source.links = {}
<1>1. IInv => KeyOwnsItsJob BY SentFromInv, IInvIs
<1>2. IInv => SentAgainOnRequest BY RequestedFollows
<1>3. IInv /\ [Next]_vars => [Unlisting]_<<exp, trig>> BY ListedStep
<1>4. ListedIsNotRepeated <=> [][Unlisting]_<<exp, trig>> BY DEF ListedIsNotRepeated
<1> HIDE DEF Unlisting
<1>5. Spec => [][Next]_vars BY DEF Spec
<1>6. QED BY <1>1, <1>2, <1>3, <1>4, <1>5, Inductive, PTL DEF SentOnce

-----------------------------------------------------------------------------
(* The behaviours the runs examine are those of the flow and of a delivery    *)
(* job, each with the other at rest: both keep their types.                   *)
THEOREM ModelTypesHold == MCSpec => []MCTypeOK
<1>1. MCInit => IInv /\ SendInv BY InitIInv, SendInitInv DEF MCInit
<1>2. IInv /\ SendInv /\ [MCNext]_<<vars, sendVars, focus>> => IInv' /\ SendInv'
  <2> SUFFICES ASSUME IInv, SendInv, [MCNext]_<<vars, sendVars, focus>> PROVE IInv' /\ SendInv' OBVIOUS
  <2>1. CASE Next /\ UNCHANGED sendVars BY <2>1, NextIInv, SendStep
  <2>2. CASE SendNext /\ UNCHANGED vars BY <2>2, StillIInv, SendStep
  <2>3. CASE UNCHANGED vars /\ UNCHANGED sendVars BY <2>3, StillIInv, SendStep
  <2>4. QED BY <2>1, <2>2, <2>3 DEF MCNext
<1>3. IInv /\ SendInv => MCTypeOK BY TypesFollow DEF SendInv, MCTypeOK
<1>4. QED BY <1>1, <1>2, <1>3, PTL DEF MCSpec

=============================================================================
