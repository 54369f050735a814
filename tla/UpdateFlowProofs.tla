--------------------------- MODULE UpdateFlowProofs ---------------------------
(***************************************************************************)
(* No update is run twice and none is passed over, by the pipeline or by a *)
(* trigger, for any updates, triggers, workflows, edits, failures and      *)
(* restarts.                                                               *)
(*                                                                         *)
(* A trigger's part is a matter of what its activation and its jobs say of *)
(* one another.  The pipeline's part is time: a checkpoint stands at a     *)
(* moment before which nothing unfinished can still write, and every       *)
(* update stored before it has been through the startup pass.              *)
(***************************************************************************)
EXTENDS UpdateFlow, WellFoundedInduction, FiniteSetTheorems, SequenceTheorems, TLAPS

-----------------------------------------------------------------------------
(* The log. *)
Phases == {"down", "recovering", "listening", "replaying", "serving", "stopping"}
Stages == {"none", "open", "stamped", "persisted"}
Hands  == {"none", "triggers", "submitting", "pipelines", "done"}

LogType ==
    /\ clock \in Nat \ {Never} /\ starts \in Nat /\ phase \in Phases
    /\ stage \in [Updates -> Stages] /\ hand \in [Updates -> Hands]
    /\ created \in [Updates -> Nat] /\ time \in [Updates -> Nat]

(* Only a start moves the clock past its bound. *)
ClockInv ==
    /\ starts <= MaxStarts /\ clock <= MaxClock + starts
    /\ phase = "recovering" => clock < MaxClock + starts
    /\ phase # "down" => starts > 0

(* An openEO job's write comes soon after its stamp, and a native job was  *)
(* created before it.                                                      *)
UpdateInv(u) ==
    /\ created[u] <= clock /\ time[u] <= clock
    /\ hand[u] = "none" <=> stage[u] # "persisted"
    /\ (stage[u] = "stamped" /\ u \in Native) => created[u] <= time[u]
    /\ (stage[u] = "stamped" /\ u \notin Native) => (clock <= time[u] + WriteDelay /\ phase \notin {"down", "recovering"})
    /\ phase = "down" => hand[u] \in {"none", "done"}
    /\ phase = "recovering" => hand[u] \in {"none", "triggers", "done"}

LogInv == LogType /\ ClockInv /\ \A u \in Updates : UpdateInv(u)

-----------------------------------------------------------------------------
(* The pipeline. *)
Runs    == [event : Updates, mode : Modes, workflow : Workflows]
Records == [mode : Modes, workflow : Workflows, revision : Nat, valid : BOOLEAN, since : Nat, through : Nat,
            handled : SUBSET Updates, retries : [Updates -> Nat], skipped : SUBSET Updates, runs : Seq(Runs)]
Tasks   == {Idle} \cup [at : {"run", "skip", "list", "defer"}, event : Updates]
                  \cup [at : {"prepared"}, event : Updates, mode : Modes, workflow : Workflows, revision : Nat]
Passes  == {Idle} \cup [at : {"done", "replayed"}] \cup [at : {"list"}, start : Nat]
                  \cup [at : {"native"}, start : Nat, of : Records]
                  \cup [at : {"openeo"}, of : Records, bound : Nat, todo : SUBSET Updates]
                  \cup [at : {"decide"}, of : Records, bound : Nat, todo : SUBSET Updates, retry : SUBSET Nat]

PipeType ==
    /\ record \in Records /\ task \in [Deciders -> Tasks] /\ pass \in Passes
    /\ edits \in Nat /\ faults \in Nat

Told(u) == RanFor(record, u) \/ u \in record.skipped

RecordInv ==
    /\ Automates(record) <=> record.since # Never
    /\ record.since <= record.through /\ record.through <= clock
    /\ \A u \in record.handled : Told(u)

(* Nothing unfinished can still write an update from before the checkpoint. *)
Ahead(u) ==
    /\ stage[u] = "stamped" => record.through <= time[u]
    /\ (u \in Native /\ stage[u] \in {"open", "stamped"}) => record.through <= created[u]

CheckpointInv == record.through = record.since \/ \A u \in Updates : Ahead(u)

(* A run is prepared for a revision. *)
PreparedInv(d) ==
    task[d].at = "prepared" =>
        /\ task[d].revision <= record.revision
        /\ task[d].revision = record.revision =>
              /\ Automates(record) /\ task[d].mode = record.mode /\ task[d].workflow = record.workflow

(* The startup pass: an update stored by now is still to be decided, needs *)
(* no decision or has one, is being decided, is left to the next start, or *)
(* is not before the bound.                                                *)
Settled(u) == time[u] < record.since \/ u \notin Reads[record.workflow] \/ Told(u)

Covered(u) ==
    \/ u \in pass.todo \/ Settled(u) \/ pass.bound <= time[u] + WriteDelay
    \/ /\ pass.at = "decide"
       /\ \/ task[Startup] # Idle /\ task[Startup].event = u
          \/ time[u] \in pass.retry

Listed == pass.at \in {"native", "openeo", "decide"}
Read   == pass.at \in {"openeo", "decide"}

PassPlace ==
    /\ task[Startup] # Idle => pass.at = "decide"
    /\ (pass.at = "list" \/ Listed) => phase = "listening"
    /\ pass.at \in {"list", "native"} => pass.start <= clock

(* Nobody edits the pipeline during the pass. *)
PassTerms ==
    Listed => /\ Automates(record) /\ pass.of.mode = record.mode /\ pass.of.workflow = record.workflow
              /\ pass.of.since = record.since /\ pass.of.through = record.through
              /\ \A u \in pass.of.handled : Told(u)

PassReads ==
    Read => /\ pass.bound <= clock /\ pass.todo \subseteq Persisted
            /\ \A u \in Native : stage[u] \in {"open", "stamped"} => pass.bound <= created[u]
            /\ \A u \in Persisted : (u \in Native \/ pass.at = "decide") => Covered(u)

PassInv == PassPlace /\ PassTerms /\ PassReads

PipeInv ==
    /\ PipeType /\ RecordInv /\ CheckpointInv /\ PassInv /\ NoUpdateLost /\ OneRunPerUpdate
    /\ \A d \in Deciders : PreparedInv(d)

-----------------------------------------------------------------------------
(* The triggers. *)
TrigType ==
    /\ configured \in SUBSET Triggers /\ activation \in [Triggers -> Nat] /\ old \in [Triggers -> SUBSET Updates]
    /\ jobs \in [Pairs -> {"none", "created", "started"}] /\ claims \in [Pairs -> Nat]
    /\ submitting \in [Consumers -> SUBSET Pairs] /\ found \in [Consumers -> SUBSET Pairs] /\ refused \in SUBSET Pairs

Pending(p) == \E c \in Consumers : p \in submitting[c] \cup found[c]

(* A trigger with no activation was never configured. *)
ActivationInv(t) ==
    /\ activation[t] <= clock
    /\ t \in configured => activation[t] # Never
    /\ activation[t] = Never => /\ old[t] = {}
                                /\ \A u \in Updates : jobs[<<t, u>>] = "none" /\ ~Pending(<<t, u>>)
    /\ t \notin ReplayExisting => \A u \in old[t] :
          /\ hand[u] = "done" /\ time[u] < activation[t]
          /\ jobs[<<t, u>>] = "none" /\ ~Pending(<<t, u>>)

ConsumerInv(c) ==
    /\ \A p \in found[c] : jobs[p] # "none" /\ found[c] = {p}
    /\ c \in Updates => (hand[c] \in {"none", "triggers"} => submitting[c] = {} /\ found[c] = {})

(* An update is on its way, or need not be. *)
Met(t, u) ==
    \/ time[u] < activation[t] \/ jobs[<<t, u>>] = "started" \/ <<t, u>> \in refused
    \/ hand[u] = "triggers" \/ Pending(<<t, u>>)

ReplayInv ==
    /\ phase = "serving" => pass.at = "replayed"
    /\ phase \in {"replaying", "serving"} =>
          \A t \in configured : \A u \in Persisted \cap OnUpdateOf[t] :
              (u \in Native \/ pass.at = "replayed") => Met(t, u)

TrigInv ==
    /\ TrigType /\ ReplayInv
    /\ \A p \in Pairs : claims[p] = IF jobs[p] = "started" THEN 1 ELSE 0
    /\ \A t \in Triggers : ActivationInv(t)
    /\ \A c \in Consumers : ConsumerInv(c)

FlowInv == LogInv /\ PipeInv /\ TrigInv
-----------------------------------------------------------------------------
(* The log's steps. *)
LEMMA LogStarts == ASSUME LogAssumption, Init PROVE LogInv
BY DEF LogAssumption, Init, LogInit, LogInv, LogType, ClockInv, UpdateInv, Phases, Stages, Hands, Never

LEMMA TickKeepsLog == ASSUME LogAssumption, LogInv, Tick PROVE LogInv'
<1>1. LogType' /\ ClockInv'
  BY DEF LogAssumption, LogInv, LogType, ClockInv, Tick, Never, Phases
<1>2. ASSUME NEW u \in Updates PROVE UpdateInv(u)'
  BY DEF LogAssumption, LogInv, LogType, UpdateInv, Tick, Never
<1> QED BY <1>1, <1>2 DEF LogInv

LEMMA OpenKeepsLog == ASSUME LogAssumption, LogInv, NEW u \in Updates, OpenJob(u) PROVE LogInv'
<1>1. LogType' /\ ClockInv'
  BY DEF LogInv, LogType, ClockInv, OpenJob, Never, Phases, Stages
<1>2. ASSUME NEW v \in Updates PROVE UpdateInv(v)'
  BY DEF LogInv, LogType, UpdateInv, OpenJob, Never, Phases, Stages
<1> QED BY <1>1, <1>2 DEF LogInv

LEMMA StampKeepsLog == ASSUME LogAssumption, LogInv, NEW u \in Updates, Stamp(u) PROVE LogInv'
<1>1. LogType' /\ ClockInv'
  BY DEF LogInv, LogType, ClockInv, Stamp, Never, Phases, Stages
<1>2. ASSUME NEW v \in Updates PROVE UpdateInv(v)'
  BY DEF LogAssumption, LogInv, LogType, UpdateInv, Stamp, MayRun, Never, Phases, Stages
<1> QED BY <1>1, <1>2 DEF LogInv

LEMMA PersistKeepsLog == ASSUME LogAssumption, LogInv, NEW u \in Updates, Persist(u) PROVE LogInv'
<1>1. LogType' /\ ClockInv'
  BY DEF LogInv, LogType, ClockInv, Persist, Never, Phases, Stages, Hands
<1>2. ASSUME NEW v \in Updates PROVE UpdateInv(v)'
  BY DEF LogInv, LogType, UpdateInv, Persist, MayRun, Never, Phases, Stages, Hands
<1> QED BY <1>1, <1>2 DEF LogInv

LEMMA HandKeepsLog ==
    ASSUME LogInv, NEW u \in Updates, NEW h \in Hands \ {"none"}, hand[u] # "none", phase # "down",
           phase = "recovering" => h = "done",
           hand' = [hand EXCEPT ![u] = h], UNCHANGED <<clock, phase, starts, stage, created, time>>
    PROVE  LogInv'
<1>1. LogType' /\ ClockInv'
  BY DEF LogInv, LogType, ClockInv, Phases, Stages, Hands
<1>2. ASSUME NEW v \in Updates PROVE UpdateInv(v)'
  BY DEF LogInv, LogType, UpdateInv, Phases, Stages, Hands
<1> QED BY <1>1, <1>2 DEF LogInv

LEMMA PhaseKeepsLog ==
    ASSUME LogInv, phase \notin {"down", "recovering"}, phase' \in Phases \ {"down", "recovering"},
           UNCHANGED <<clock, starts, stage, created, time, hand>>
    PROVE  LogInv'
<1>1. LogType' /\ ClockInv'
  BY DEF LogInv, LogType, ClockInv, Phases
<1>2. ASSUME NEW v \in Updates PROVE UpdateInv(v)'
  BY DEF LogInv, LogType, UpdateInv, Phases
<1> QED BY <1>1, <1>2 DEF LogInv

LEMMA StartKeepsLog == ASSUME LogAssumption, LogInv, LogStart PROVE LogInv'
<1>1. LogType' /\ ClockInv'
  BY DEF LogAssumption, LogInv, LogType, ClockInv, LogStart, Phases
<1>2. ASSUME NEW v \in Updates PROVE UpdateInv(v)'
  BY DEF LogInv, LogType, UpdateInv, LogStart, Phases
<1> QED BY <1>1, <1>2 DEF LogInv

LEMMA ListenKeepsLog ==
    ASSUME LogAssumption, LogInv, phase = "recovering", phase' = "listening", clock' = clock + 1,
           UNCHANGED <<starts, stage, created, time, hand>>
    PROVE  LogInv'
<1>1. LogType' /\ ClockInv'
  BY DEF LogAssumption, LogInv, LogType, ClockInv, Phases, Never
<1>2. ASSUME NEW v \in Updates PROVE UpdateInv(v)'
  BY DEF LogInv, LogType, UpdateInv, Phases, Never
<1> QED BY <1>1, <1>2 DEF LogInv

LEMMA CrashKeepsLog == ASSUME LogInv, LogCrash PROVE LogInv'
<1>1. LogType' /\ ClockInv'
  BY DEF LogInv, LogType, ClockInv, LogCrash, Phases, Stages, Hands, Never
<1>2. ASSUME NEW v \in Updates PROVE UpdateInv(v)'
  BY DEF LogInv, LogType, UpdateInv, LogCrash, Phases, Stages, Hands
<1> QED BY <1>1, <1>2 DEF LogInv

-----------------------------------------------------------------------------
(* The pipeline while the log moves. *)
LEMMA PipeStarts == ASSUME LogAssumption, PipelineAssumption, Init PROVE PipeInv
<1>1. PICK mode \in Modes \ {"live"}, workflow \in Workflows, period \in Nat :
         /\ period = IF mode = "paused" THEN Never ELSE clock
         /\ record = [mode |-> mode, workflow |-> workflow, revision |-> 1, valid |-> TRUE,
                      since |-> period, through |-> period, handled |-> {},
                      retries |-> [u \in Updates |-> 0], skipped |-> {}, runs |-> <<>>]
  BY DEF Init, PipeInit, LogInit, Never
<1>2. clock = 1 /\ task = [d \in Deciders |-> Idle] /\ pass = Idle /\ edits = 0 /\ faults = 0
  BY DEF Init, PipeInit, LogInit
<1>3. PipeType
  <2>1. record \in Records
    BY <1>1 DEF Records, Modes
  <2> QED BY <2>1, <1>2 DEF PipeType, Tasks, Passes
<1>4. RecordInv /\ CheckpointInv
  BY <1>1, <1>2 DEF RecordInv, CheckpointInv, Automates, Never, Modes
<1>5. PassInv /\ \A d \in Deciders : PreparedInv(d)
  BY <1>2 DEF PassInv, PassPlace, PassTerms, PassReads, PreparedInv, Listed, Read, Idle, Deciders, PipelineAssumption
<1>6. NoUpdateLost
  BY <1>1, LogStarts DEF NoUpdateLost, LogInv, LogType, Persisted
<1>7. OneRunPerUpdate
  <2>1. Len(record.runs) = 0
    BY <1>1
  <2> QED BY <2>1 DEF OneRunPerUpdate
<1> QED BY <1>3, <1>4, <1>5, <1>6, <1>7 DEF PipeInv

LEMMA PipeFrame ==
    ASSUME LogInv, PipeInv, UNCHANGED pipe, clock' \in Nat, clock' >= clock, UNCHANGED <<stage, created, time>>,
           phase = "listening" => (phase' = "listening" \/ pass.at = "done")
    PROVE  PipeInv'
<1> USE DEF pipe
<1>1. PipeType'
  BY DEF PipeInv, PipeType
<1>2. RecordInv'
  <2>1. record.since \in Nat /\ record.through \in Nat /\ clock \in Nat
    BY DEF PipeInv, PipeType, Records, LogInv, LogType
  <2>2. \A u \in Updates : Told(u) => Told(u)'
    BY DEF Told
  <2> QED BY <2>1, <2>2 DEF PipeInv, RecordInv, Records, PipeType
<1>3. CheckpointInv' /\ NoUpdateLost' /\ OneRunPerUpdate'
  BY DEF PipeInv, CheckpointInv, Ahead, NoUpdateLost, OneRunPerUpdate, Persisted, RanFor
<1>4. \A d \in Deciders : PreparedInv(d)'
  BY DEF PipeInv, PreparedInv
<1>5. PassInv'
  <2>1. PassInv
    BY DEF PipeInv
  <2>2. \A u \in Updates : (Told(u) => Told(u)') /\ (Covered(u) => Covered(u)')
    BY DEF Covered, Settled, Told
  <2>3. Listed' = Listed /\ Read' = Read /\ Persisted' = Persisted /\ (Read => Listed)
    BY DEF Listed, Read, Persisted
  <2>4. PassPlace'
    <3>1. pass.at \in {"list", "native"} => pass.start \in Nat
      BY DEF PipeInv, PipeType, Passes, Idle
    <3>2. Listed => pass.at # "done"
      BY DEF Listed
    <3> QED BY <3>1, <3>2, <2>1, <2>3 DEF PassInv, PassPlace, LogInv, LogType
  <2>5. PassTerms'
    <3>1. Listed => pass.of.handled \subseteq Updates
      BY DEF PipeInv, PipeType, Passes, Idle, Listed, Records
    <3> QED BY <3>1, <2>1, <2>2, <2>3 DEF PassInv, PassTerms
  <2>6. PassReads'
    <3>1. Read => pass.bound \in Nat
      BY DEF PipeInv, PipeType, Passes, Idle, Read
    <3>2. Persisted \subseteq Updates
      BY DEF Persisted
    <3> QED BY <3>1, <3>2, <2>1, <2>2, <2>3 DEF PassInv, PassReads, LogInv, LogType
  <2> QED BY <2>4, <2>5, <2>6 DEF PassInv
<1> QED BY <1>1, <1>2, <1>3, <1>4, <1>5 DEF PipeInv
(* What of the pipeline does not look at the log is kept while it waits. *)
LEMMA PipeUnmoved ==
    ASSUME PipeInv, UNCHANGED <<pipe, clock>>
    PROVE  PipeType' /\ RecordInv' /\ OneRunPerUpdate' /\ \A d \in Deciders : PreparedInv(d)'
<1> USE DEF pipe
<1>1. \A u \in Updates : Told(u) => Told(u)'
  BY DEF Told
<1> QED BY <1>1 DEF PipeInv, PipeType, RecordInv, OneRunPerUpdate, PreparedInv, Records

LEMMA OpenKeepsPipe ==
    ASSUME LogInv, PipeInv, NEW u \in Updates, OpenJob(u), UNCHANGED pipe PROVE PipeInv'
<1>1. PipeType' /\ RecordInv' /\ OneRunPerUpdate' /\ \A d \in Deciders : PreparedInv(d)'
  BY PipeUnmoved DEF OpenJob
<1>2. CheckpointInv'
  <2>1. record.through <= clock
    BY DEF PipeInv, RecordInv
  <2>2. (\A v \in Updates : Ahead(v)) => \A v \in Updates : Ahead(v)'
    BY <2>1 DEF Ahead, OpenJob, LogInv, LogType, pipe
  <2> QED BY <2>2 DEF PipeInv, CheckpointInv, pipe
<1>3. NoUpdateLost'
  BY DEF PipeInv, NoUpdateLost, Persisted, OpenJob, RanFor, LogInv, LogType, pipe
<1>4. PassInv'
  BY DEF PipeInv, PassInv, PassPlace, PassTerms, PassReads, Listed, Read, OpenJob, pipe
<1> QED BY <1>1, <1>2, <1>3, <1>4 DEF PipeInv

LEMMA StampKeepsPipe ==
    ASSUME LogAssumption, LogInv, PipeInv, NEW u \in Updates, Stamp(u), UNCHANGED pipe PROVE PipeInv'
<1>1. PipeType' /\ RecordInv' /\ OneRunPerUpdate' /\ \A d \in Deciders : PreparedInv(d)'
  BY PipeUnmoved DEF Stamp
<1>2. CheckpointInv'
  <2>1. record.through <= clock
    BY DEF PipeInv, RecordInv
  <2>2. (\A v \in Updates : Ahead(v)) => \A v \in Updates : Ahead(v)'
    BY <2>1 DEF Ahead, Stamp, LogInv, LogType, pipe
  <2> QED BY <2>2 DEF PipeInv, CheckpointInv, pipe
<1>3. Persisted' = Persisted /\ u \notin Persisted /\ \A v \in Persisted : v \in Updates /\ time'[v] = time[v]
  BY DEF Persisted, Stamp, LogInv, LogType, Stages
<1>4. NoUpdateLost'
  BY <1>3 DEF PipeInv, NoUpdateLost, RanFor, pipe
<1>5. PassInv'
  <2>1. \A v \in Updates : Told(v) => Told(v)'
    BY DEF Told, pipe
  <2>2. \A v \in Persisted : Covered(v) => Covered(v)'
    BY <1>3, <2>1 DEF Covered, Settled, pipe
  <2>3. Listed' = Listed /\ Read' = Read /\ (Listed => pass.of.handled \subseteq Updates)
    BY DEF Listed, Read, pipe, PipeInv, PipeType, Passes, Idle, Records
  <2>4. PassPlace' /\ PassTerms'
    BY <2>1, <2>3 DEF PipeInv, PassInv, PassPlace, PassTerms, Stamp, pipe
  <2>5. \A v \in Native : stage'[v] \in {"open", "stamped"} => stage[v] \in {"open", "stamped"}
    BY DEF LogAssumption, Stamp, LogInv, LogType
  <2>6. PassReads'
    BY <1>3, <2>2, <2>3, <2>5 DEF PipeInv, PassInv, PassReads, Stamp, pipe
  <2> QED BY <2>4, <2>6 DEF PassInv
<1> QED BY <1>1, <1>2, <1>4, <1>5 DEF PipeInv

(* An update is stored: the checkpoint has not passed it, and the pass is   *)
(* not responsible for it.                                                  *)
LEMMA PersistKeepsPipe ==
    ASSUME LogAssumption, LogInv, PipeInv, NEW u \in Updates, Persist(u), UNCHANGED pipe PROVE PipeInv'
<1>1. PipeType' /\ RecordInv' /\ OneRunPerUpdate' /\ \A d \in Deciders : PreparedInv(d)'
  BY PipeUnmoved DEF Persist
<1>2. CheckpointInv'
  <2>1. (\A v \in Updates : Ahead(v)) => \A v \in Updates : Ahead(v)'
    BY DEF Ahead, Persist, LogInv, LogType, pipe
  <2> QED BY <2>1 DEF PipeInv, CheckpointInv, pipe
<1>3. Persisted' = Persisted \cup {u} /\ Persisted \subseteq Updates
  BY DEF Persisted, Persist, LogInv, LogType
<1>4. UpdateInv(u) /\ stage[u] = "stamped" /\ time[u] \in Nat /\ created[u] \in Nat /\ clock \in Nat
  BY DEF LogInv, LogType, Persist
<1>5. NoUpdateLost'
  <2>1. record.since <= time[u] => ~(time[u] < record.through)
    <3>1. record.since \in Nat /\ record.through \in Nat
      BY DEF PipeInv, PipeType, Records
    <3>2. record.through = record.since \/ record.through <= time[u]
      BY <1>4 DEF PipeInv, CheckpointInv, Ahead
    <3> QED BY <1>4, <3>1, <3>2
  <2> QED BY <1>3, <2>1 DEF PipeInv, NoUpdateLost, RanFor, Persist, pipe
<1>6. PassInv'
  <2>1. \A v \in Updates : Told(v) => Told(v)'
    BY DEF Told, pipe
  <2>2. \A v \in Updates : Covered(v) => Covered(v)'
    BY <2>1 DEF Covered, Settled, Persist, pipe
  <2>3. Listed' = Listed /\ Read' = Read /\ (Listed => pass.of.handled \subseteq Updates)
    BY DEF Listed, Read, pipe, PipeInv, PipeType, Passes, Idle, Records
  <2>4. PassPlace' /\ PassTerms'
    BY <2>1, <2>3 DEF PipeInv, PassInv, PassPlace, PassTerms, Persist, pipe
  <2>5. \A v \in Native : stage'[v] \in {"open", "stamped"} => stage[v] \in {"open", "stamped"}
    BY DEF LogAssumption, Persist, LogInv, LogType
  <2>6. Read => Covered(u)'
    <3>1. Read => pass.bound \in Nat
      BY DEF PipeInv, PipeType, Passes, Idle, Read
    <3>2. Read => pass.bound <= clock /\ (u \in Native => pass.bound <= created[u])
      BY <1>4 DEF PipeInv, PassInv, PassReads
    <3>3. Read => pass.bound <= time[u] + WriteDelay
      BY <1>4, <3>1, <3>2 DEF UpdateInv, LogAssumption
    <3> QED BY <3>3 DEF Covered, Persist, pipe
  <2>7. PassReads'
    BY <1>3, <2>2, <2>3, <2>5, <2>6 DEF PipeInv, PassInv, PassReads, Persist, pipe
  <2> QED BY <2>4, <2>7 DEF PassInv
<1> QED BY <1>1, <1>2, <1>5, <1>6 DEF PipeInv

LEMMA CrashKeepsPipe ==
    ASSUME LogInv, PipeInv, LogCrash, PipeCrash PROVE PipeInv'
<1>1. \A u \in Updates : Told(u) => Told(u)'
  BY DEF Told, PipeCrash
<1>2. PipeType' /\ RecordInv' /\ OneRunPerUpdate'
  BY <1>1 DEF PipeInv, PipeType, RecordInv, OneRunPerUpdate, Records, PipeCrash, LogCrash, Tasks, Passes
<1>3. \A d \in Deciders : PreparedInv(d)'
  BY DEF PreparedInv, PipeCrash, Idle
<1>4. CheckpointInv'
  <2>1. (\A v \in Updates : Ahead(v)) => \A v \in Updates : Ahead(v)'
    BY DEF Ahead, LogCrash, PipeCrash, LogInv, LogType
  <2> QED BY <2>1 DEF PipeInv, CheckpointInv, PipeCrash
<1>5. NoUpdateLost'
  <2>1. Persisted' = Persisted
    BY DEF Persisted, LogCrash, LogInv, LogType
  <2> QED BY <2>1 DEF PipeInv, NoUpdateLost, RanFor, LogCrash, PipeCrash
<1>6. PassInv'
  BY DEF PassInv, PassPlace, PassTerms, PassReads, Listed, Read, PipeCrash, Idle, Deciders
<1> QED BY <1>2, <1>3, <1>4, <1>5, <1>6 DEF PipeInv

-----------------------------------------------------------------------------
(* The pipeline's steps.  None but an edit and the end of the pass touches *)
(* the terms a decision is taken on, and none takes back what was told.    *)
LogStill == UNCHANGED <<clock, phase, starts, stage, created, time>>

SameTerms ==
    /\ record' \in Records /\ edits' \in Nat /\ faults' \in Nat
    /\ record'.mode = record.mode /\ record'.workflow = record.workflow /\ record'.revision = record.revision
    /\ record'.since = record.since /\ record'.through = record.through
    /\ \A u \in Updates : Told(u) => Told(u)'
    /\ \A u \in record'.handled : Told(u)'

LEMMA SameRecord ==
    ASSUME PipeInv, record' = record, edits' \in Nat, faults' \in Nat PROVE SameTerms
BY DEF PipeInv, PipeType, RecordInv, SameTerms, Told

LEMMA TermsKept ==
    ASSUME PipeInv, LogStill, SameTerms
    PROVE  RecordInv' /\ CheckpointInv' /\ NoUpdateLost'
<1> USE DEF LogStill
<1>1. RecordInv'
  BY DEF PipeInv, RecordInv, SameTerms, Automates
<1>2. CheckpointInv'
  BY DEF PipeInv, CheckpointInv, SameTerms, Ahead
<1>3. NoUpdateLost'
  <2>1. Persisted' = Persisted /\ Persisted \subseteq Updates
    BY DEF Persisted
  <2>2. ASSUME NEW u \in Persisted, Automates(record'), u \in Reads[record'.workflow],
               record'.since <= time'[u], time'[u] < record'.through
        PROVE  RanFor(record', u) \/ u \in record'.skipped
    <3>1. Told(u)
      BY <2>2 DEF PipeInv, NoUpdateLost, SameTerms, Told, Automates
    <3> QED BY <2>1, <3>1 DEF SameTerms, Told
  <2> QED BY <2>1, <2>2 DEF NoUpdateLost
<1> QED BY <1>1, <1>2, <1>3

(* A decision moves on: a decision of the pass ends with its update        *)
(* settled or its time kept for the next start.                            *)
LEMMA DecisionKeepsPass ==
    ASSUME PipelineAssumption, PipeInv, LogStill, SameTerms,
           NEW d \in Deciders, NEW next \in Tasks, task' = [task EXCEPT ![d] = next],
           pass' = pass \/ (pass.at = "decide" /\ \E more \in SUBSET Nat : pass' = [pass EXCEPT !.retry = @ \cup more]),
           NEW e, e = task[d].event,
           d = Startup => /\ pass.at = "decide"
                          /\ (next # Idle /\ next.event = e) \/ Told(e)' \/ time[e] \in pass'.retry
    PROVE  PassInv'
<1>1. PassPlace /\ PassTerms /\ PassReads
  BY DEF PipeInv, PassInv
<1>2. /\ pass'.at = pass.at
      /\ (pass.at \in {"list", "native"}) => pass'.start = pass.start
      /\ Listed => pass'.of = pass.of
      /\ Read => pass'.bound = pass.bound /\ pass'.todo = pass.todo
      /\ pass.at = "decide" => pass.retry \subseteq pass'.retry
  BY DEF PipeInv, PipeType, Passes, Idle, Listed, Read
<1>3. Listed' = Listed /\ Read' = Read /\ Persisted' = Persisted /\ Persisted \subseteq Updates
  BY <1>2 DEF Listed, Read, Persisted, LogStill
<1>4. PassPlace'
  <2>1. task'[Startup] # Idle => pass.at = "decide"
    BY <1>1 DEF PassPlace, PipeInv, PipeType, Deciders
  <2> QED BY <1>1, <1>2, <1>3, <2>1 DEF PassPlace, LogStill
<1>5. PassTerms'
  <2>1. Listed => pass.of.handled \subseteq Updates
    BY DEF Listed, PipeInv, PipeType, Passes, Idle, Records
  <2> QED BY <1>1, <1>2, <1>3, <2>1 DEF PassTerms, SameTerms, Automates
<1>6. PassReads'
  <2>1. ASSUME NEW u \in Persisted, Read, Covered(u) PROVE Covered(u)'
    <3>1. CASE u \in pass.todo \/ pass.bound <= time[u] + WriteDelay
      BY <1>2, <2>1, <3>1 DEF Covered, LogStill
    <3>2. CASE Settled(u)
      BY <1>3, <3>2 DEF Covered, Settled, SameTerms, LogStill
    <3>3. CASE pass.at = "decide" /\ time[u] \in pass.retry
      BY <1>2, <3>3 DEF Covered, LogStill
    <3>4. CASE pass.at = "decide" /\ task[Startup] # Idle /\ task[Startup].event = u
      <4>1. CASE d = Startup
        <5>1. task'[Startup] = next
          BY <4>1 DEF PipeInv, PipeType
        <5>2. CASE next # Idle /\ next.event = u
          BY <1>2, <3>4, <5>1, <5>2 DEF Covered
        <5>3. CASE Told(u)'
          BY <5>3 DEF Covered, Settled
        <5>4. CASE time[u] \in pass'.retry
          BY <1>2, <3>4, <5>4 DEF Covered, LogStill
        <5>5. u = e
          BY <3>4, <4>1
        <5> QED BY <4>1, <5>2, <5>3, <5>4, <5>5
      <4>2. CASE d # Startup
        BY <1>2, <3>4, <4>2 DEF Covered, PipeInv, PipeType, Deciders
      <4> QED BY <4>1, <4>2
    <3> QED BY <2>1, <3>1, <3>2, <3>3, <3>4 DEF Covered
  <2> QED BY <1>1, <1>2, <1>3, <2>1 DEF PassReads, LogStill
<1> QED BY <1>4, <1>5, <1>6 DEF PassInv

LEMMA DecisionKeepsPipe ==
    ASSUME PipelineAssumption, PipeInv, LogStill, SameTerms, OneRunPerUpdate',
           NEW d \in Deciders, NEW next \in Tasks, task' = [task EXCEPT ![d] = next],
           pass' = pass \/ (pass.at = "decide" /\ \E more \in SUBSET Nat : pass' = [pass EXCEPT !.retry = @ \cup more]),
           NEW e, e = task[d].event,
           d = Startup => /\ pass.at = "decide"
                          /\ (next # Idle /\ next.event = e) \/ Told(e)' \/ time[e] \in pass'.retry,
           next.at = "prepared" => /\ next.revision = record.revision /\ Automates(record)
                                   /\ next.mode = record.mode /\ next.workflow = record.workflow
    PROVE  PipeInv'
<1>1. PassInv'
  BY DecisionKeepsPass
<1>2. RecordInv' /\ CheckpointInv' /\ NoUpdateLost'
  BY TermsKept
<1>3. PipeType'
  <2>1. pass' \in Passes
    <3>1. CASE pass' = pass
      BY <3>1 DEF PipeInv, PipeType
    <3>2. ASSUME pass.at = "decide", NEW more \in SUBSET Nat, pass' = [pass EXCEPT !.retry = @ \cup more]
          PROVE  pass' \in Passes
      <4>1. pass \in [at : {"decide"}, of : Records, bound : Nat, todo : SUBSET Updates, retry : SUBSET Nat]
        BY <3>2 DEF PipeInv, PipeType, Passes, Idle
      <4>2. pass' \in [at : {"decide"}, of : Records, bound : Nat, todo : SUBSET Updates, retry : SUBSET Nat]
        BY <3>2, <4>1
      <4> QED BY <4>2 DEF Passes
    <3> QED BY <3>1, <3>2
  <2> QED BY <2>1 DEF PipeInv, PipeType, SameTerms
<1>4. ASSUME NEW other \in Deciders PROVE PreparedInv(other)'
  <2>1. CASE other = d
    <3>1. task'[other] = next /\ record.revision \in Nat
      BY <2>1 DEF PipeInv, PipeType, Records
    <3> QED BY <3>1 DEF PreparedInv, SameTerms, Automates
  <2>2. CASE other # d
    <3>1. task'[other] = task[other] /\ PreparedInv(other)
      BY <2>2 DEF PipeInv, PipeType
    <3> QED BY <3>1 DEF PreparedInv, SameTerms, Automates
  <2> QED BY <2>1, <2>2
<1> QED BY <1>1, <1>2, <1>3, <1>4 DEF PipeInv

LEMMA AtTask ==
    ASSUME PipeInv, NEW d \in Deciders, task[d].at # "idle"
    PROVE  /\ task[d].event \in Updates /\ (d = Startup => pass.at = "decide")
           /\ task[d].at \in {"run", "skip", "list", "defer"} =>
                 task[d] \in [at : {"run", "skip", "list", "defer"}, event : Updates]
<1>1. task[d] \in Tasks /\ task[d] # Idle
  BY DEF PipeInv, PipeType, Idle
<1>2. d = Startup => pass.at = "decide"
  BY <1>1 DEF PipeInv, PassInv, PassPlace
<1> QED BY <1>1, <1>2 DEF Tasks, Idle

LEMMA PrepareKeepsPipe ==
    ASSUME PipelineAssumption, PipeInv, NEW d \in Deciders, Prepare(d) PROVE PipeInv'
<1>1. task[d].at = "run" /\ LogStill /\ record' = record /\ pass' = pass /\ edits' = edits
  BY DEF Prepare, At, LogStill, log
<1>2. faults' \in Nat /\ edits' \in Nat
  BY <1>1 DEF Prepare, PipeInv, PipeType
<1>3. SameTerms
  BY <1>1, <1>2, SameRecord
<1>4. OneRunPerUpdate'
  BY <1>1 DEF PipeInv, OneRunPerUpdate
<1>5. PICK e \in Updates : e = task[d].event
  BY <1>1, AtTask
<1>6. task[d] \in [at : {"run", "skip", "list", "defer"}, event : Updates] /\ (d = Startup => pass.at = "decide")
  BY <1>1, AtTask
<1>7. PICK next \in Tasks :
         /\ task' = [task EXCEPT ![d] = next] /\ next # Idle /\ next.event = e
         /\ next.at = "prepared" => /\ next.revision = record.revision /\ Automates(record)
                                    /\ next.mode = record.mode /\ next.workflow = record.workflow
  <2>1. CASE /\ record.valid /\ Automates(record)
             /\ Becomes(d, [at |-> "prepared", event |-> task[d].event, mode |-> record.mode,
                            workflow |-> record.workflow, revision |-> record.revision])
    <3> DEFINE next == [at |-> "prepared", event |-> e, mode |-> record.mode,
                        workflow |-> record.workflow, revision |-> record.revision]
    <3>1. record.mode \in Modes /\ record.workflow \in Workflows /\ record.revision \in Nat
      BY DEF PipeInv, PipeType, Records
    <3>2. next \in Tasks /\ next # Idle
      BY <3>1 DEF Tasks, Idle
    <3> QED BY <1>5, <2>1, <3>2 DEF Becomes
  <2>2. ASSUME NEW at \in {"skip", "defer"}, Becomes(d, [task[d] EXCEPT !.at = at])
        PROVE  \E next \in Tasks : /\ task' = [task EXCEPT ![d] = next] /\ next # Idle /\ next.event = e
                                   /\ next.at # "prepared"
    <3>1. [task[d] EXCEPT !.at = at] = [at |-> at, event |-> e]
      BY <1>5, <1>6
    <3>2. [at |-> at, event |-> e] \in Tasks /\ [at |-> at, event |-> e] # Idle
      BY DEF Tasks, Idle
    <3> QED BY <2>2, <3>1, <3>2 DEF Becomes
  <2> QED BY <2>1, <2>2 DEF Prepare
<1> QED BY <1>1, <1>3, <1>4, <1>5, <1>6, <1>7, DecisionKeepsPipe

LEMMA Prepend ==
    ASSUME NEW S, NEW s \in Seq(S), NEW x \in S
    PROVE  /\ <<x>> \o s \in Seq(S) /\ Len(<<x>> \o s) = Len(s) + 1 /\ Head(<<x>> \o s) = x
           /\ (<<x>> \o s)[1] = x /\ \A i \in 1..Len(s) : (<<x>> \o s)[i + 1] = s[i]
<1>1. <<x>> \in Seq(S) /\ Len(<<x>>) = 1 /\ <<x>>[1] = x
  OBVIOUS
<1>2. <<x>> \o s \in Seq(S) /\ Len(<<x>> \o s) = Len(s) + 1
  BY <1>1, ConcatProperties
<1>3. \A i \in 1..(Len(s) + 1) : (<<x>> \o s)[i] = IF i <= 1 THEN <<x>>[i] ELSE s[i - 1]
  BY <1>1, ConcatProperties
<1>4. Len(s) \in Nat
  OBVIOUS
<1>5. (<<x>> \o s)[1] = x /\ \A i \in 1..Len(s) : (<<x>> \o s)[i + 1] = s[i]
  BY <1>1, <1>3, <1>4
<1> QED BY <1>2, <1>4, <1>5

(* A run recorded: the update had none, and the terms are as prepared.     *)
LEMMA RunRecorded ==
    ASSUME PipelineAssumption, PipeInv, LogStill, NEW d \in Deciders, NEW u \in Updates, u = task[d].event,
           task[d].at = "prepared", ~RanFor(record, u), ~RevisionMoved(d), UNCHANGED <<edits, faults>>,
           record' = [record EXCEPT !.runs = <<[event |-> u, mode |-> task[d].mode, workflow |-> task[d].workflow]>> \o @,
                                    !.handled = @ \cup {u}]
    PROVE  /\ SameTerms /\ OneRunPerUpdate' /\ Told(u)' /\ Automates(record)
           /\ Len(record'.runs) = Len(record.runs) + 1
           /\ Head(record'.runs) = [event |-> u, mode |-> record.mode, workflow |-> record.workflow]
<1>1. record \in Records /\ task[d] \in Tasks
  BY DEF PipeInv, PipeType
<1>2. Automates(record) /\ task[d].mode = record.mode /\ task[d].workflow = record.workflow
  BY DEF PipeInv, PreparedInv, RevisionMoved
<1>3. PICK run \in Runs : run = [event |-> u, mode |-> record.mode, workflow |-> record.workflow]
  BY <1>1 DEF Runs, Records
<1>4. PICK new : new = <<run>> \o record.runs
  OBVIOUS
<1>5. record' = [record EXCEPT !.runs = new, !.handled = @ \cup {u}]
  BY <1>2, <1>3, <1>4
<1>6. record.runs \in Seq(Runs)
  BY <1>1 DEF Records
<1>7. /\ new \in Seq(Runs) /\ Len(new) = Len(record.runs) + 1 /\ Head(new) = run
      /\ new[1] = run /\ \A i \in 1..Len(record.runs) : new[i + 1] = record.runs[i]
  BY <1>4, <1>6, Prepend
<1>8. Len(record.runs) \in Nat
  BY <1>6
<1>9. record' \in Records /\ record'.runs = new /\ record'.handled = record.handled \cup {u}
  <2>1. PICK handled \in SUBSET Updates : handled = record.handled \cup {u}
    BY <1>1 DEF Records
  <2>2. record' = [record EXCEPT !.runs = new, !.handled = handled]
    BY <1>5, <2>1
  <2>3. PICK seqs : seqs = Seq(Runs) /\ new \in seqs
    BY <1>7
  <2>4. Records = [mode : Modes, workflow : Workflows, revision : Nat, valid : BOOLEAN, since : Nat, through : Nat,
                   handled : SUBSET Updates, retries : [Updates -> Nat], skipped : SUBSET Updates, runs : seqs]
    BY <2>3 DEF Records
  <2> QED BY <1>1, <2>1, <2>2, <2>3, <2>4
<1>10. /\ record'.mode = record.mode /\ record'.workflow = record.workflow /\ record'.revision = record.revision
       /\ record'.since = record.since /\ record'.through = record.through /\ record'.skipped = record.skipped
  BY <1>1, <1>5 DEF Records
<1>11. Told(u)'
  <2>1. 1 \in 1..Len(new) /\ new[1].event = u
    BY <1>3, <1>7, <1>8
  <2> QED BY <2>1, <1>9 DEF Told, RanFor
<1>12. \A v \in Updates : Told(v) => Told(v)'
  <2>1. ASSUME NEW v \in Updates, NEW i \in 1..Len(record.runs), record.runs[i].event = v PROVE Told(v)'
    <3>1. i + 1 \in 1..Len(new) /\ new[i + 1].event = v
      BY <1>7, <1>8, <2>1
    <3> QED BY <3>1, <1>9 DEF Told, RanFor
  <2> QED BY <2>1, <1>10 DEF Told, RanFor
<1>13. SameTerms
  <2>1. \A v \in record.handled : Told(v)
    BY DEF PipeInv, RecordInv
  <2>2. record.handled \subseteq Updates /\ edits \in Nat /\ faults \in Nat
    BY <1>1 DEF Records, PipeInv, PipeType
  <2> QED BY <1>9, <1>10, <1>11, <1>12, <2>1, <2>2 DEF SameTerms
<1>14. OneRunPerUpdate'
  <2>0. PICK n \in Nat : n = Len(record.runs) /\ Len(new) = n + 1
    BY <1>7, <1>8
  <2>1. ASSUME NEW i \in 1..Len(new), NEW j \in 1..Len(new), i < j PROVE new[i].event # new[j].event
    <3>1. j \in Nat /\ j - 1 \in 1..Len(record.runs) /\ new[j] = record.runs[j - 1]
      <4>1. j \in Nat /\ j - 1 \in 1..Len(record.runs) /\ (j - 1) + 1 = j
        BY <2>0, <2>1
      <4> QED BY <4>1, <1>7
    <3>2. CASE i = 1
      BY <1>3, <1>7, <3>1, <3>2 DEF RanFor
    <3>3. CASE i # 1
      <4>1. i \in Nat /\ i - 1 \in 1..Len(record.runs) /\ (i - 1) + 1 = i /\ i - 1 # j - 1
        BY <2>0, <2>1, <3>3, <3>1
      <4>2. new[i] = record.runs[i - 1]
        BY <4>1, <1>7
      <4> QED BY <3>1, <4>1, <4>2 DEF PipeInv, OneRunPerUpdate
    <3> QED BY <3>2, <3>3
  <2>2. ASSUME NEW i \in 1..Len(new), NEW j \in 1..Len(new), new[i].event = new[j].event PROVE i = j
    <3>1. i \in Nat /\ j \in Nat
      BY <1>7, <1>8
    <3>2. ~(i < j) /\ ~(j < i)
      BY <2>1, <2>2
    <3> QED BY <3>1, <3>2
  <2> QED BY <1>9, <2>2 DEF OneRunPerUpdate
<1> QED BY <1>2, <1>3, <1>7, <1>9, <1>11, <1>13, <1>14

LEMMA IntentKeepsPipe ==
    ASSUME PipelineAssumption, PipeInv, NEW d \in Deciders, RecordIntent(d) PROVE PipeInv'
<1>1. /\ task[d].at = "prepared" /\ LogStill /\ pass' = pass /\ UNCHANGED <<edits, faults>>
  BY DEF RecordIntent, At, LogStill, log
<1>2. PICK u \in Updates : u = task[d].event
  BY <1>1, AtTask
<1>3. d = Startup => pass.at = "decide"
  BY <1>1, AtTask
<1>4. edits' \in Nat /\ faults' \in Nat
  BY <1>1 DEF PipeInv, PipeType
<1>5. Idle \in Tasks /\ Idle.at # "prepared"
  BY DEF Tasks, Idle
<1>6. CASE RanFor(record, u) /\ Becomes(d, Idle) /\ record' = record
  <2>1. SameTerms /\ OneRunPerUpdate'
    BY <1>4, <1>6, SameRecord DEF PipeInv, OneRunPerUpdate
  <2>2. Told(u)'
    BY <1>6 DEF Told
  <2> QED BY <1>1, <1>2, <1>3, <1>5, <1>6, <2>1, <2>2, DecisionKeepsPipe DEF Becomes
<1>7. CASE Becomes(d, [at |-> "skip", event |-> u]) /\ record' = record
  <2>1. SameTerms /\ OneRunPerUpdate'
    BY <1>4, <1>7, SameRecord DEF PipeInv, OneRunPerUpdate
  <2>2. PICK next : next = [at |-> "skip", event |-> u]
    OBVIOUS
  <2>3. next \in Tasks /\ next # Idle /\ next.event = u /\ next.at # "prepared"
    BY <2>2 DEF Tasks, Idle
  <2> QED BY <1>1, <1>2, <1>3, <1>7, <2>1, <2>2, <2>3, DecisionKeepsPipe DEF Becomes
<1>8. CASE /\ ~RanFor(record, u) /\ ~RevisionMoved(d) /\ Becomes(d, Idle)
           /\ record' = [record EXCEPT !.runs = <<[event |-> u, mode |-> task[d].mode, workflow |-> task[d].workflow]>> \o @,
                                       !.handled = @ \cup {u}]
  <2>1. SameTerms /\ OneRunPerUpdate' /\ Told(u)'
    BY <1>1, <1>2, <1>8, RunRecorded
  <2> QED BY <1>1, <1>2, <1>3, <1>5, <1>8, <2>1, DecisionKeepsPipe DEF Becomes
<1> QED BY <1>2, <1>6, <1>7, <1>8 DEF RecordIntent, Existing

LEMMA SkipKeepsPipe ==
    ASSUME PipelineAssumption, PipeInv, NEW d \in Deciders, Skip(d) PROVE PipeInv'
<1>1. /\ task[d].at \in {"skip", "list"} /\ LogStill /\ pass' = pass /\ UNCHANGED <<edits, faults>> /\ Becomes(d, Idle)
  BY DEF Skip, At, LogStill, log
<1>2. PICK u \in Updates : u = task[d].event
  BY <1>1, AtTask
<1>3. d = Startup => pass.at = "decide"
  BY <1>1, AtTask
<1>4. PICK handled \in SUBSET Updates, retries \in [Updates -> Nat], skipped \in SUBSET Updates :
         /\ record' = [record EXCEPT !.handled = handled, !.retries = retries, !.skipped = skipped]
         /\ handled \subseteq record.handled \cup {u} /\ skipped = record.skipped \cup {u}
  <2>1. record \in Records
    BY DEF PipeInv, PipeType
  <2>2. record.handled \in SUBSET Updates /\ record.retries \in [Updates -> Nat] /\ record.skipped \in SUBSET Updates
    BY <2>1 DEF Records
  <2>3. CASE task[d].at = "skip"
    <3>1. PICK handled \in SUBSET Updates : handled = record.handled \cup {u}
      BY <2>2
    <3>2. PICK skipped \in SUBSET Updates : skipped = record.skipped \cup {u}
      BY <2>2
    <3>3. [record.retries EXCEPT ![u] = 0] \in [Updates -> Nat]
      BY <2>2
    <3>4. PICK retries \in [Updates -> Nat] : retries = [record.retries EXCEPT ![u] = 0]
      BY <3>3
    <3>5. record' = [record EXCEPT !.handled = handled, !.retries = retries, !.skipped = skipped]
      BY <1>2, <2>3, <3>1, <3>2, <3>4 DEF Skip
    <3> QED BY <3>1, <3>2, <3>5
  <2>4. CASE task[d].at = "list"
    <3>1. PICK skipped \in SUBSET Updates : skipped = record.skipped \cup {u}
      BY <2>2
    <3>2. record' = [record EXCEPT !.skipped = skipped]
      BY <1>2, <2>4, <3>1 DEF Skip
    <3>3. record' = [record EXCEPT !.handled = record.handled, !.retries = record.retries, !.skipped = skipped]
      BY <2>1, <3>2 DEF Records
    <3> QED BY <2>2, <3>1, <3>3
  <2> QED BY <1>1, <2>3, <2>4
<1>5. /\ record' \in Records
      /\ record'.mode = record.mode /\ record'.workflow = record.workflow /\ record'.revision = record.revision
      /\ record'.since = record.since /\ record'.through = record.through /\ record'.runs = record.runs
      /\ record'.handled = handled /\ record'.skipped = skipped
  BY <1>4 DEF PipeInv, PipeType, Records
<1>6. Told(u)' /\ \A v \in Updates : Told(v) => Told(v)'
  BY <1>4, <1>5 DEF Told, RanFor
<1>7. SameTerms
  <2>1. edits \in Nat /\ faults \in Nat
    BY DEF PipeInv, PipeType
  <2>2. \A v \in record.handled : Told(v)
    BY DEF PipeInv, RecordInv
  <2> QED BY <1>1, <1>4, <1>5, <1>6, <2>1, <2>2 DEF SameTerms
<1>8. OneRunPerUpdate'
  BY <1>5 DEF PipeInv, OneRunPerUpdate
<1>9. Idle \in Tasks /\ Idle.at # "prepared"
  BY DEF Tasks, Idle
<1> QED BY <1>1, <1>2, <1>3, <1>6, <1>7, <1>8, <1>9, DecisionKeepsPipe DEF Becomes

LEMMA DeferKeepsPipe ==
    ASSUME PipelineAssumption, LogInv, PipeInv, NEW d \in Deciders, Defer(d) PROVE PipeInv'
<1>1. /\ task[d].at = "defer" /\ LogStill /\ UNCHANGED <<edits, faults>>
  BY DEF Defer, At, LogStill, log
<1>2. PICK u \in Updates : u = task[d].event
  BY <1>1, AtTask
<1>3. d = Startup => pass.at = "decide"
  BY <1>1, AtTask
<1>4. PICK retries \in [Updates -> Nat] : record' = [record EXCEPT !.retries = retries]
  <2>1. record \in Records
    BY DEF PipeInv, PipeType
  <2>2. record.retries \in [Updates -> Nat]
    BY <2>1 DEF Records
  <2>3. PICK retries \in [Updates -> Nat] : retries = [record.retries EXCEPT ![u] = record.retries[u] + 1]
    <3>1. record.retries[u] + 1 \in Nat
      BY <2>2
    <3>2. [record.retries EXCEPT ![u] = record.retries[u] + 1] \in [Updates -> Nat]
      BY <2>2, <3>1
    <3> QED BY <3>2
  <2>4. record' = [record EXCEPT !.retries = retries]
    BY <1>2, <2>3 DEF Defer
  <2> QED BY <2>4
<1>5. /\ record' \in Records
      /\ record'.mode = record.mode /\ record'.workflow = record.workflow /\ record'.revision = record.revision
      /\ record'.since = record.since /\ record'.through = record.through /\ record'.runs = record.runs
      /\ record'.handled = record.handled /\ record'.skipped = record.skipped
  BY <1>4 DEF PipeInv, PipeType, Records
<1>6. \A v \in Updates : Told(v) => Told(v)'
  BY <1>5 DEF Told, RanFor
<1>7. SameTerms
  <2>1. edits \in Nat /\ faults \in Nat
    BY DEF PipeInv, PipeType
  <2>2. \A v \in record.handled : Told(v) /\ v \in Updates
    BY DEF PipeInv, RecordInv, PipeType, Records
  <2> QED BY <1>1, <1>5, <1>6, <2>1, <2>2 DEF SameTerms
<1>8. OneRunPerUpdate'
  BY <1>5 DEF PipeInv, OneRunPerUpdate
<1>9. CASE Becomes(d, [task[d] EXCEPT !.at = "skip"]) /\ pass' = pass
  <2>1. task[d] \in [at : {"run", "skip", "list", "defer"}, event : Updates]
    BY <1>1, AtTask
  <2>2. PICK next : next = [at |-> "skip", event |-> u]
    OBVIOUS
  <2>3. next = [task[d] EXCEPT !.at = "skip"]
    BY <1>2, <2>1, <2>2
  <2>4. next \in Tasks /\ next # Idle /\ next.event = u /\ next.at # "prepared"
    BY <2>2 DEF Tasks, Idle
  <2> QED BY <1>1, <1>2, <1>3, <1>7, <1>8, <1>9, <2>3, <2>4, DecisionKeepsPipe DEF Becomes
<1>10. CASE Becomes(d, Idle) /\ pass' = IF d = Startup THEN [pass EXCEPT !.retry = @ \cup {time[u]}] ELSE pass
  <2>1. Idle \in Tasks /\ Idle.at # "prepared"
    BY DEF Tasks, Idle
  <2>2. {time[u]} \in SUBSET Nat
    BY DEF LogInv, LogType
  <2>3. pass' = pass \/ (pass.at = "decide" /\ \E more \in SUBSET Nat : pass' = [pass EXCEPT !.retry = @ \cup more])
    BY <1>3, <1>10, <2>2
  <2>4. d = Startup => time[u] \in pass'.retry
    <3>1. pass.at = "decide" => pass \in [at : {"decide"}, of : Records, bound : Nat, todo : SUBSET Updates, retry : SUBSET Nat]
      BY DEF PipeInv, PipeType, Passes, Idle
    <3> QED BY <1>3, <1>10, <3>1
  <2> QED BY <1>1, <1>2, <1>3, <1>7, <1>8, <1>10, <2>1, <2>3, <2>4, DecisionKeepsPipe DEF Becomes
<1> QED BY <1>2, <1>9, <1>10 DEF Defer

-----------------------------------------------------------------------------
(* The startup pass. *)

(* A nonempty set of natural numbers has a least element. *)
LEMMA LeastTime ==
    ASSUME NEW S, S \subseteq Nat, S # {} PROVE \E t \in S : \A s \in S : t <= s
<1>1. PICK R : R = {ss \in Nat \X Nat : ss[1] < ss[2]}
  OBVIOUS
<1>2. IsWellFoundedOn(R, Nat)
  BY <1>1, NatLessThanWellFounded DEF OpToRel
<1>3. PICK t \in S : \A s \in S : ~ (<<s, t>> \in R)
  BY <1>2, WFMin
<1>4. ASSUME NEW s \in S PROVE t <= s
  <2>1. t \in Nat /\ s \in Nat
    OBVIOUS
  <2>2. s < t => <<s, t>> \in R
    BY <1>1, <2>1
  <2> QED BY <1>3, <2>1, <2>2
<1> QED BY <1>3, <1>4

(* The bound of the pass: its start, or the creation of the oldest native  *)
(* job that can still write an update.                                     *)
LEMMA BoundOfPass ==
    ASSUME LogAssumption, LogInv, NEW bound \in Nat
    PROVE  /\ OpenSince(bound) \in Nat /\ OpenSince(bound) <= bound
           /\ \A u \in Native : stage[u] \in {"open", "stamped"} => OpenSince(bound) <= created[u]
<1>1. PICK times : times = {created[u] : u \in Unfinished} \cup {bound}
  OBVIOUS
<1>2. times \subseteq Nat /\ times # {}
  BY <1>1 DEF Unfinished, LogAssumption, LogInv, LogType
<1>3. \E t \in times : \A s \in times : t <= s
  BY <1>2, LeastTime
<1>4. OpenSince(bound) = CHOOSE t \in times : \A s \in times : t <= s
  BY <1>1 DEF OpenSince
<1>5. OpenSince(bound) \in times /\ \A s \in times : OpenSince(bound) <= s
  BY <1>3, <1>4
<1> QED BY <1>1, <1>2, <1>5 DEF Unfinished

LEMMA PassMoves ==
    ASSUME PipeInv, LogStill, UNCHANGED <<record, task, edits, faults>>, pass' \in Passes, PassInv'
    PROVE  PipeInv'
<1>1. edits' \in Nat /\ faults' \in Nat
  BY DEF PipeInv, PipeType
<1>2. RecordInv' /\ CheckpointInv' /\ NoUpdateLost'
  BY <1>1, SameRecord, TermsKept
<1>3. PipeType' /\ OneRunPerUpdate' /\ \A d \in Deciders : PreparedInv(d)'
  BY DEF PipeInv, PipeType, OneRunPerUpdate, PreparedInv
<1> QED BY <1>2, <1>3 DEF PipeInv

LEMMA ScanKeepsPipe == ASSUME LogInv, PipeInv, ScanStart PROVE PipeInv'
<1>1. LogStill /\ UNCHANGED <<record, task, edits, faults>> /\ pass' = [at |-> "list", start |-> clock] /\ phase = "listening"
  BY DEF ScanStart, LogStill, log
<1>2. pass' \in Passes /\ clock \in Nat
  BY <1>1 DEF Passes, LogInv, LogType
<1>3. task[Startup] = Idle
  BY DEF ScanStart, PipeInv, PassInv, PassPlace, Idle
<1>4. PassInv'
  BY <1>1, <1>2, <1>3 DEF PassInv, PassPlace, PassTerms, PassReads, Listed, Read, LogStill
<1> QED BY <1>1, <1>2, <1>4, PassMoves

LEMMA ListKeepsPipe == ASSUME LogInv, PipeInv, ListRecords PROVE PipeInv'
<1>1. LogStill /\ UNCHANGED <<record, task, edits, faults>> /\ phase = "listening" /\ pass.at = "list"
  BY DEF ListRecords, LogStill, log
<1>2. pass.start \in Nat /\ pass.start <= clock /\ record \in Records /\ task[Startup] = Idle
  BY <1>1 DEF PipeInv, PipeType, PassInv, PassPlace, Passes, Idle
<1>3. \A u \in record.handled : Told(u)'
  BY <1>1 DEF PipeInv, RecordInv, Told
<1>4. CASE Automates(record) /\ pass' = [at |-> "native", start |-> pass.start, of |-> record]
  <2>1. pass' \in Passes
    BY <1>2, <1>4 DEF Passes
  <2>2. PassPlace' /\ PassReads'
    BY <1>1, <1>2, <1>4 DEF PassPlace, PassReads, Listed, Read, LogStill
  <2>3. PassTerms'
    BY <1>1, <1>3, <1>4 DEF PassTerms, Automates
  <2> QED BY <1>1, <2>1, <2>2, <2>3, PassMoves DEF PassInv
<1>5. CASE pass' = [at |-> "done"]
  <2>1. pass' \in Passes
    BY <1>5 DEF Passes
  <2>2. PassInv'
    BY <1>1, <1>2, <1>5 DEF PassInv, PassPlace, PassTerms, PassReads, Listed, Read
  <2> QED BY <1>1, <2>1, <2>2, PassMoves
<1> QED BY <1>4, <1>5 DEF ListRecords

LEMMA ReadNativeKeepsPipe == ASSUME LogAssumption, LogInv, PipeInv, ReadNativeLog PROVE PipeInv'
<1>1. /\ LogStill /\ UNCHANGED <<record, task, edits, faults>> /\ phase = "listening" /\ pass.at = "native"
      /\ pass' = [at |-> "openeo", of |-> pass.of, bound |-> OpenSince(pass.start), todo |-> ReadNative]
  BY DEF ReadNativeLog, LogStill, log
<1>2. pass.start \in Nat /\ pass.start <= clock /\ pass.of \in Records /\ task[Startup] = Idle
  BY <1>1 DEF PipeInv, PipeType, PassInv, PassPlace, Passes, Idle
<1>3. PICK bound \in Nat :
         /\ bound = OpenSince(pass.start) /\ bound <= pass.start
         /\ \A u \in Native : stage[u] \in {"open", "stamped"} => bound <= created[u]
  BY <1>2, BoundOfPass
<1>4. pass' \in Passes
  <2>1. ReadNative \in SUBSET Updates
    BY DEF ReadNative, Persisted
  <2> QED BY <1>1, <1>2, <1>3, <2>1 DEF Passes
<1>5. bound <= clock
  BY <1>2, <1>3 DEF LogInv, LogType
<1>6. PassPlace'
  BY <1>1, <1>2 DEF PassPlace, LogStill
<1>7. PassTerms'
  BY <1>1 DEF PipeInv, PassInv, PassTerms, Listed, Told, Automates
<1>8. PassReads'
  BY <1>1, <1>3, <1>5 DEF PassReads, Read, ReadNative, Persisted, Covered, LogStill
<1> QED BY <1>1, <1>4, <1>6, <1>7, <1>8, PassMoves DEF PassInv

LEMMA ReadOpenEOKeepsPipe == ASSUME LogInv, PipeInv, ReadOpenEOLog PROVE PipeInv'
<1>1. /\ LogStill /\ UNCHANGED <<record, task, edits, faults>> /\ phase = "listening" /\ pass.at = "openeo"
      /\ pass' = [at |-> "decide", of |-> pass.of, bound |-> pass.bound, todo |-> pass.todo \cup ReadOpenEO, retry |-> {}]
  BY DEF ReadOpenEOLog, LogStill, log
<1>2. pass.of \in Records /\ pass.bound \in Nat /\ pass.todo \subseteq Updates
  BY <1>1 DEF PipeInv, PipeType, Passes, Idle
<1>3. pass' \in Passes
  <2>1. pass.todo \cup ReadOpenEO \in SUBSET Updates
    BY <1>2 DEF ReadOpenEO, Persisted
  <2> QED BY <1>1, <1>2, <2>1 DEF Passes
<1>4. PassPlace'
  BY <1>1 DEF PipeInv, PassInv, PassPlace, LogStill
<1>5. PassTerms'
  BY <1>1 DEF PipeInv, PassInv, PassTerms, Listed, Told, Automates
<1>6. PassReads'
  <2>1. Persisted' = Persisted /\ Read
    BY <1>1 DEF Persisted, LogStill, Read
  <2>2. ASSUME NEW u \in Persisted PROVE Covered(u)'
    <3>1. u \in pass.todo \/ u \in ReadOpenEO \/ Settled(u) \/ pass.bound <= time[u] + WriteDelay
      BY <1>1, <2>1 DEF PipeInv, PassInv, PassReads, Covered, ReadOpenEO
    <3>2. Settled(u) => Settled(u)'
      BY <1>1 DEF Settled, Told, LogStill
    <3> QED BY <1>1, <3>1, <3>2 DEF Covered, LogStill
  <2> QED BY <1>1, <2>1, <2>2 DEF PipeInv, PassInv, PassReads, ReadOpenEO, LogStill
<1> QED BY <1>1, <1>3, <1>4, <1>5, <1>6, PassMoves DEF PassInv

LEMMA VerdictType ==
    ASSUME LogInv, NEW r \in Records, NEW u \in Updates, NEW live \in BOOLEAN
    PROVE  Verdict(r, u, live) \in {"idle", "list", "skip", "run"}
<1>1. time[u] \in Nat /\ r.since \in Nat
  BY DEF LogInv, LogType, Records
<1>2. CASE ~Automates(r)
  BY <1>2 DEF Verdict
<1>3. CASE Automates(r) /\ time[u] < r.since
  BY <1>3 DEF Verdict
<1>4. CASE Automates(r) /\ time[u] >= r.since /\ u \in r.handled
  BY <1>1, <1>4 DEF Verdict
<1>5. CASE Automates(r) /\ time[u] >= r.since /\ u \notin r.handled /\ Decided(r, u)
  BY <1>1, <1>5 DEF Verdict
<1>6. CASE Automates(r) /\ time[u] >= r.since /\ ~Decided(r, u)
  BY <1>1, <1>6 DEF Verdict, Decided
<1> QED BY <1>1, <1>2, <1>3, <1>4, <1>5, <1>6

(* An update the pass passes over needs no decision or has one. *)
LEMMA PassedOver ==
    ASSUME LogInv, PipeInv, Listed, NEW u \in Persisted, Verdict(pass.of, u, FALSE) = "idle"
    PROVE  Settled(u)
<1>1. /\ Automates(record) /\ Automates(pass.of) /\ pass.of.workflow = record.workflow
      /\ pass.of.since = record.since /\ pass.of.through = record.through
      /\ \A v \in pass.of.handled : Told(v)
  BY DEF PipeInv, PassInv, PassTerms, Automates
<1>2. u \in Updates /\ time[u] \in Nat /\ record.since \in Nat
  BY DEF Persisted, LogInv, LogType, PipeInv, PipeType, Records
<1>3. SUFFICES ASSUME time[u] >= record.since, u \in Reads[record.workflow], u \notin pass.of.handled PROVE Told(u)
  BY <1>1, <1>2 DEF Settled
<1>4. CASE Decided(pass.of, u)
  BY <1>1, <1>3, <1>4 DEF Decided, PipeInv, NoUpdateLost, Told
<1>5. CASE ~Decided(pass.of, u)
  <2>1. Verdict(pass.of, u, FALSE) \in {"skip", "run"}
    BY <1>1, <1>2, <1>3, <1>5 DEF Verdict
  <2> QED BY <2>1
<1> QED BY <1>4, <1>5

LEMMA DecideKeepsPipe == ASSUME PipelineAssumption, LogInv, PipeInv, DecideNext PROVE PipeInv'
<1>1. /\ LogStill /\ UNCHANGED <<record, edits, faults>> /\ phase = "listening" /\ pass.at = "decide"
      /\ task[Startup] = Idle
  BY DEF DecideNext, LogStill, log
<1>2. PICK u \in pass.todo : pass' = [pass EXCEPT !.todo = @ \ {u}] /\ Begin(Startup, u, Verdict(pass.of, u, FALSE))
  BY DEF DecideNext
<1>3. /\ pass \in [at : {"decide"}, of : Records, bound : Nat, todo : SUBSET Updates, retry : SUBSET Nat]
      /\ Listed /\ Read
  BY <1>1 DEF PipeInv, PipeType, Passes, Idle, Listed, Read
<1>4. u \in Persisted /\ u \in Updates
  BY <1>3 DEF PipeInv, PassInv, PassReads, Persisted
<1>5. /\ pass' \in [at : {"decide"}, of : Records, bound : Nat, todo : SUBSET Updates, retry : SUBSET Nat]
      /\ pass'.of = pass.of /\ pass'.bound = pass.bound /\ pass'.todo = pass.todo \ {u} /\ pass'.retry = pass.retry
      /\ pass'.at = "decide"
  BY <1>2, <1>3
<1>6. PICK verdict \in {"idle", "list", "skip", "run"} : verdict = Verdict(pass.of, u, FALSE)
  BY <1>3, <1>4, VerdictType
<1>7. PICK next : next = IF verdict = "idle" THEN Idle ELSE [at |-> verdict, event |-> u]
  OBVIOUS
<1>8. next \in Tasks /\ next.at # "prepared" /\ (verdict # "idle" => next # Idle /\ next.event = u)
  BY <1>4, <1>7 DEF Tasks, Idle
<1>9. task' = [task EXCEPT ![Startup] = next]
  BY <1>2, <1>6, <1>7 DEF Begin
<1>10. Startup \in Deciders /\ task \in [Deciders -> Tasks]
  BY DEF Deciders, PipeInv, PipeType
<1>11. edits' \in Nat /\ faults' \in Nat
  BY <1>1 DEF PipeInv, PipeType
<1>12. RecordInv' /\ CheckpointInv' /\ NoUpdateLost'
  BY <1>1, <1>11, SameRecord, TermsKept
<1>13. PipeType' /\ OneRunPerUpdate'
  <2>1. pass' \in Passes
    BY <1>5 DEF Passes
  <2> QED BY <1>1, <1>8, <1>9, <1>10, <1>11, <2>1 DEF PipeInv, PipeType, OneRunPerUpdate
<1>14. ASSUME NEW d \in Deciders PROVE PreparedInv(d)'
  <2>1. task'[d] = next \/ task'[d] = task[d]
    BY <1>9, <1>10
  <2> QED BY <1>1, <1>8, <2>1 DEF PipeInv, PreparedInv
<1>15. PassPlace'
  BY <1>1, <1>5 DEF PassPlace, LogStill
<1>16. PassTerms'
  BY <1>1, <1>3, <1>5 DEF PipeInv, PassInv, PassTerms, Told, Automates
<1>17. PassReads'
  <2>1. Persisted' = Persisted
    BY <1>1 DEF Persisted, LogStill
  <2>2. ASSUME NEW v \in Persisted PROVE Covered(v)'
    <3>1. Settled(v) => Settled(v)'
      BY <1>1 DEF Settled, Told, LogStill
    <3>2. CASE v = u /\ verdict = "idle"
      BY <1>3, <1>4, <1>6, <3>1, <3>2, PassedOver DEF Covered
    <3>3. CASE v = u /\ verdict # "idle"
      <4>1. task'[Startup] = next
        BY <1>9, <1>10
      <4> QED BY <1>5, <1>8, <3>3, <4>1 DEF Covered
    <3>4. CASE v # u
      <4>1. v \in pass.todo \/ Settled(v) \/ pass.bound <= time[v] + WriteDelay \/ time[v] \in pass.retry
        BY <1>1, <1>3 DEF PipeInv, PassInv, PassReads, Covered
      <4> QED BY <1>1, <1>5, <3>1, <3>4, <4>1 DEF Covered, LogStill
    <3> QED BY <1>6, <3>2, <3>3, <3>4
  <2> QED BY <1>1, <1>3, <1>5, <2>1, <2>2 DEF PipeInv, PassInv, PassReads, LogStill
<1> QED BY <1>12, <1>13, <1>14, <1>15, <1>16, <1>17 DEF PipeInv, PassInv

(* The new checkpoint is a margin before the bound and before every time   *)
(* left to the next start.                                                 *)
LEMMA SafeTime ==
    ASSUME PipelineAssumption, NEW bound \in Nat, NEW retry \in SUBSET Nat, bound = pass.bound, retry = pass.retry
    PROVE  /\ Safe \in Nat
           /\ Safe # Never => /\ Safe + Margin <= bound
                              /\ \A t \in retry : Safe + Margin <= t
<1>1. PICK times : times = retry \cup {bound}
  OBVIOUS
<1>2. times \subseteq Nat /\ times # {}
  BY <1>1
<1>3. \E t \in times : \A s \in times : t <= s
  BY <1>2, LeastTime
<1>4. PICK least : least = CHOOSE t \in times : \A s \in times : t <= s
  OBVIOUS
<1>5. least \in times /\ \A s \in times : least <= s
  BY <1>3, <1>4
<1>6. Safe = IF least > Margin THEN least - Margin ELSE Never
  BY <1>1, <1>4 DEF Safe
<1>7. least \in Nat /\ least <= bound /\ \A t \in retry : least <= t
  BY <1>1, <1>2, <1>5
<1> QED BY <1>6, <1>7 DEF Never, PipelineAssumption

LEMMA AdvanceKeepsPipe ==
    ASSUME LogAssumption, PipelineAssumption, LogInv, PipeInv, AdvanceCheckpoint PROVE PipeInv'
<1>1. /\ LogStill /\ UNCHANGED <<task, edits, faults>> /\ phase = "listening" /\ pass.at = "decide"
      /\ task[Startup] = Idle /\ pass.todo = {} /\ pass' = [at |-> "done"]
  BY DEF AdvanceCheckpoint, LogStill, log
<1>2. pass' \in Passes
  BY <1>1 DEF Passes
<1>3. PassInv'
  BY <1>1 DEF PassInv, PassPlace, PassTerms, PassReads, Listed, Read
<1>4. CASE record' = record
  BY <1>1, <1>2, <1>3, <1>4, PassMoves
<1>5. ASSUME record' # record
      PROVE  PipeInv'
  <2>1. PICK safe, handled :
           /\ safe = Safe /\ handled = {u \in record.handled : time[u] >= Safe}
           /\ record' = [record EXCEPT !.through = safe, !.handled = handled] /\ ~(safe <= record.through)
    BY <1>5 DEF AdvanceCheckpoint
  <2>2. /\ pass \in [at : {"decide"}, of : Records, bound : Nat, todo : SUBSET Updates, retry : SUBSET Nat]
        /\ Read
    BY <1>1 DEF PipeInv, PipeType, Passes, Idle, Read
  <2>3. record \in Records /\ record.through \in Nat /\ record.since \in Nat /\ record.handled \subseteq Updates
    BY DEF PipeInv, PipeType, Records
  <2>4. /\ safe \in Nat /\ safe + Margin <= pass.bound /\ \A t \in pass.retry : safe + Margin <= t
        /\ record.through < safe /\ record.since <= safe
    <3>1. safe \in Nat /\ (safe # Never => safe + Margin <= pass.bound /\ \A t \in pass.retry : safe + Margin <= t)
      BY <2>1, <2>2, SafeTime
    <3>2. record.through < safe /\ safe # Never
      BY <2>1, <2>3, <3>1 DEF Never
    <3> QED BY <2>3, <3>1, <3>2 DEF PipeInv, RecordInv
  <2>5. Margin \in Nat /\ WriteDelay \in Nat /\ WriteDelay <= Margin /\ clock \in Nat /\ pass.bound \in Nat
        /\ pass.bound <= clock
    BY <2>2 DEF PipelineAssumption, LogAssumption, LogInv, LogType, PipeInv, PassInv, PassReads
  <2>6. /\ record' \in Records /\ record'.through = safe /\ record'.handled \subseteq record.handled
        /\ record'.mode = record.mode /\ record'.workflow = record.workflow /\ record'.revision = record.revision
        /\ record'.since = record.since /\ record'.runs = record.runs /\ record'.skipped = record.skipped
    <3>1. handled \in SUBSET Updates /\ handled \subseteq record.handled
      BY <2>1, <2>3
    <3> QED BY <2>1, <2>3, <2>4, <3>1 DEF Records
  <2>7. \A u \in Updates : Told(u) => Told(u)'
    BY <2>6 DEF Told, RanFor
  <2>8. RecordInv'
    <3>1. safe <= clock
      BY <2>4, <2>5
    <3> QED BY <1>1, <2>3, <2>4, <2>6, <2>7, <3>1 DEF PipeInv, RecordInv, Automates, LogStill
  <2>9. CheckpointInv'
    <3>1. ASSUME NEW u \in Updates PROVE Ahead(u)'
      <4>1. time[u] \in Nat /\ created[u] \in Nat /\ UpdateInv(u)
        BY DEF LogInv, LogType
      <4>2. (u \in Native /\ stage[u] \in {"open", "stamped"}) => pass.bound <= created[u]
        BY <2>2 DEF PipeInv, PassInv, PassReads
      <4>3. stage[u] = "stamped" => safe <= time[u]
        BY <2>4, <2>5, <4>1, <4>2 DEF UpdateInv
      <4>4. (u \in Native /\ stage[u] \in {"open", "stamped"}) => safe <= created[u]
        BY <2>4, <2>5, <4>1, <4>2
      <4> QED BY <1>1, <2>6, <4>3, <4>4 DEF Ahead, LogStill
    <3> QED BY <3>1 DEF CheckpointInv
  <2>10. NoUpdateLost'
    <3>1. Persisted' = Persisted /\ Persisted \subseteq Updates
      BY <1>1 DEF Persisted, LogStill
    <3>2. ASSUME NEW u \in Persisted, u \in Reads[record.workflow], record.since <= time[u], time[u] < safe
          PROVE  Told(u)
      <4>1. Settled(u) \/ pass.bound <= time[u] + WriteDelay \/ time[u] \in pass.retry
        BY <1>1, <2>2 DEF PipeInv, PassInv, PassReads, Covered
      <4>2. time[u] \in Nat
        BY <3>1 DEF LogInv, LogType
      <4> QED BY <2>3, <2>4, <2>5, <3>2, <4>1, <4>2 DEF Settled
    <3> QED BY <1>1, <2>6, <2>7, <3>1, <3>2 DEF NoUpdateLost, Told, LogStill
  <2>11. OneRunPerUpdate' /\ \A d \in Deciders : PreparedInv(d)'
    BY <1>1, <2>6 DEF PipeInv, OneRunPerUpdate, PreparedInv, Automates
  <2>12. PipeType'
    BY <1>1, <1>2, <2>6 DEF PipeInv, PipeType
  <2> QED BY <1>3, <2>8, <2>9, <2>10, <2>11, <2>12 DEF PipeInv
<1> QED BY <1>4, <1>5

LEMMA ConsumeKeepsPipe ==
    ASSUME PipelineAssumption, LogInv, PipeInv, NEW u \in Updates, Consume(u) PROVE PipeInv'
<1>1. LogStill /\ UNCHANGED <<record, pass, edits, faults>> /\ Begin(u, u, Verdict(record, u, TRUE))
  BY DEF Consume, LogStill
<1>2. PICK verdict \in {"idle", "list", "skip", "run"} : verdict = Verdict(record, u, TRUE)
  BY VerdictType DEF PipeInv, PipeType
<1>3. PICK next : next = IF verdict = "idle" THEN Idle ELSE [at |-> verdict, event |-> u]
  OBVIOUS
<1>4. next \in Tasks /\ next.at # "prepared"
  BY <1>3 DEF Tasks, Idle
<1>5. task' = [task EXCEPT ![u] = next]
  BY <1>1, <1>2, <1>3 DEF Begin
<1>6. u \in Deciders /\ u # Startup
  BY DEF Deciders, PipelineAssumption
<1>7. SameTerms /\ OneRunPerUpdate'
  BY <1>1, SameRecord DEF PipeInv, PipeType, OneRunPerUpdate
<1>8. PICK e : e = task[u].event
  OBVIOUS
<1> QED BY <1>1, <1>4, <1>5, <1>6, <1>7, <1>8, DecisionKeepsPipe

-----------------------------------------------------------------------------
(* The operator, while the process serves: no pass is under way. *)
LEMMA EditKeepsPass ==
    ASSUME PipeInv, phase = "serving", UNCHANGED <<log, task, pass>> PROVE PassInv'
<1>1. task[Startup] = Idle /\ pass.at # "list" /\ ~Listed
  BY DEF PipeInv, PassInv, PassPlace, Listed
<1> QED BY <1>1 DEF PassInv, PassPlace, PassTerms, PassReads, Listed, Read

LEMMA RevalidateKeepsPipe ==
    ASSUME PipeInv, phase = "serving", Revalidate PROVE PipeInv'
<1>1. UNCHANGED <<log, task, pass, faults>> /\ record' = [record EXCEPT !.valid = ~@] /\ edits' = edits + 1
  BY DEF Revalidate
<1>2. PassInv' /\ LogStill
  BY <1>1, EditKeepsPass DEF LogStill, log
<1>3. PICK valid \in BOOLEAN : record' = [record EXCEPT !.valid = valid]
  <2>1. (~record.valid) \in BOOLEAN
    OBVIOUS
  <2> QED BY <1>1, <2>1
<1>4. /\ record' \in Records
      /\ record'.mode = record.mode /\ record'.workflow = record.workflow /\ record'.revision = record.revision
      /\ record'.since = record.since /\ record'.through = record.through /\ record'.runs = record.runs
      /\ record'.handled = record.handled /\ record'.skipped = record.skipped
  BY <1>3 DEF PipeInv, PipeType, Records
<1>5. SameTerms
  <2>1. \A u \in Updates : Told(u) => Told(u)'
    BY <1>4 DEF Told, RanFor
  <2>2. \A u \in record.handled : u \in Updates /\ Told(u)
    BY DEF PipeInv, PipeType, RecordInv, Records
  <2>3. edits' \in Nat /\ faults' \in Nat
    BY <1>1 DEF PipeInv, PipeType
  <2> QED BY <1>4, <2>1, <2>2, <2>3 DEF SameTerms
<1>6. RecordInv' /\ CheckpointInv' /\ NoUpdateLost'
  BY <1>2, <1>5, TermsKept
<1>7. PipeType' /\ OneRunPerUpdate' /\ \A d \in Deciders : PreparedInv(d)'
  BY <1>1, <1>4, <1>5 DEF PipeInv, PipeType, OneRunPerUpdate, PreparedInv, Automates, SameTerms
<1> QED BY <1>2, <1>6, <1>7 DEF PipeInv

(* What an edit leaves: the terms of the old automation period, or a new    *)
(* one from now.                                                           *)
LEMMA EditedRecord ==
    ASSUME LogInv, PipeInv, NEW mode \in Modes, NEW workflow \in Workflows, record' = ReplaceSpec(mode, workflow)
    PROVE  /\ record' \in Records /\ record'.mode = mode /\ record'.workflow = workflow
           /\ record'.revision = record.revision + 1
           /\ record'.runs = record.runs /\ record'.skipped = record.skipped
           /\ \/ record'.since = record'.through /\ record'.handled = {} /\ record'.through <= clock
                 /\ (mode = "paused" <=> record'.since = Never)
              \/ /\ mode # "paused" /\ mode = record.mode /\ workflow = record.workflow
                 /\ record'.since = record.since /\ record'.through = record.through /\ record'.handled = record.handled
<1>1. record \in Records /\ clock \in Nat \ {Never}
  BY DEF PipeInv, PipeType, LogInv, LogType
<1>2. PICK new : new = [record EXCEPT !.mode = mode, !.workflow = workflow, !.revision = @ + 1, !.valid = TRUE]
  OBVIOUS
<1>3. /\ new \in Records /\ new.mode = mode /\ new.workflow = workflow /\ new.revision = record.revision + 1
      /\ new.runs = record.runs /\ new.skipped = record.skipped
      /\ new.since = record.since /\ new.through = record.through /\ new.handled = record.handled
  <2>1. PICK revision \in Nat : revision = record.revision + 1
    BY <1>1 DEF Records
  <2>2. new = [record EXCEPT !.mode = mode, !.workflow = workflow, !.revision = revision, !.valid = TRUE]
    BY <1>2, <2>1
  <2> QED BY <1>1, <2>1, <2>2 DEF Records
<1>4. ASSUME NEW now \in Nat
      PROVE  /\ NewPeriod(new, now) \in Records /\ NewPeriod(new, now).mode = mode /\ NewPeriod(new, now).workflow = workflow
             /\ NewPeriod(new, now).revision = record.revision + 1
             /\ NewPeriod(new, now).runs = record.runs /\ NewPeriod(new, now).skipped = record.skipped
             /\ NewPeriod(new, now).since = now /\ NewPeriod(new, now).through = now /\ NewPeriod(new, now).handled = {}
  <2>1. PICK retries \in [Updates -> Nat], handled \in SUBSET Updates :
           retries = [u \in Updates |-> 0] /\ handled = {}
    OBVIOUS
  <2>2. NewPeriod(new, now) = [new EXCEPT !.since = now, !.through = now, !.handled = handled, !.retries = retries]
    BY <2>1 DEF NewPeriod
  <2> QED BY <1>3, <2>1, <2>2 DEF Records
<1>5. record' = IF mode = "paused" THEN NewPeriod(new, Never)
                ELSE IF mode # record.mode \/ workflow # record.workflow THEN NewPeriod(new, clock) ELSE new
  BY <1>2, <1>3 DEF ReplaceSpec, Automates
<1>6. CASE mode = "paused"
  <2>1. record' = NewPeriod(new, Never) /\ Never \in Nat /\ Never <= clock
    BY <1>1, <1>5, <1>6 DEF Never
  <2> QED BY <1>4, <1>6, <2>1
<1>7. CASE mode # "paused" /\ (mode # record.mode \/ workflow # record.workflow)
  <2>1. record' = NewPeriod(new, clock) /\ clock \in Nat /\ clock <= clock /\ clock # Never
    BY <1>1, <1>5, <1>7
  <2> QED BY <1>4, <1>7, <2>1
<1>8. CASE mode # "paused" /\ mode = record.mode /\ workflow = record.workflow
  BY <1>3, <1>5, <1>8
<1> QED BY <1>6, <1>7, <1>8

LEMMA EditKeepsPipe ==
    ASSUME LogInv, PipeInv, phase = "serving", NEW mode \in Modes, NEW workflow \in Workflows, Edit(mode, workflow)
    PROVE  PipeInv'
<1>1. UNCHANGED <<log, task, pass, faults>> /\ record' = ReplaceSpec(mode, workflow) /\ edits' = edits + 1
  BY DEF Edit
<1>2. PassInv' /\ LogStill
  BY <1>1, EditKeepsPass DEF LogStill, log
<1>3. /\ record' \in Records /\ record'.mode = mode /\ record'.workflow = workflow
      /\ record'.revision = record.revision + 1
      /\ record'.runs = record.runs /\ record'.skipped = record.skipped
      /\ \/ record'.since = record'.through /\ record'.handled = {} /\ record'.through <= clock
            /\ (mode = "paused" <=> record'.since = Never)
         \/ /\ mode # "paused" /\ mode = record.mode /\ workflow = record.workflow
            /\ record'.since = record.since /\ record'.through = record.through /\ record'.handled = record.handled
  BY <1>1, EditedRecord
<1>4. record'.since \in Nat /\ record'.through \in Nat
  BY <1>3 DEF Records
<1>5. RecordInv'
  <2>1. \A u \in Updates : Told(u) => Told(u)'
    BY <1>3 DEF Told, RanFor
  <2>2. \A u \in record.handled : u \in Updates /\ Told(u)
    BY DEF PipeInv, PipeType, RecordInv, Records
  <2>3. RecordInv /\ clock' = clock
    BY <1>2 DEF PipeInv, LogStill
  <2>4. \A u \in record'.handled : Told(u)'
    BY <1>3, <2>1, <2>2
  <2>5. (Automates(record') <=> record'.since # Never) /\ record'.since <= record'.through /\ record'.through <= clock
    BY <1>3, <1>4, <2>3 DEF RecordInv, Automates
  <2> QED BY <2>3, <2>4, <2>5 DEF RecordInv
<1>6. CheckpointInv'
  BY <1>2, <1>3 DEF PipeInv, CheckpointInv, Ahead, LogStill
<1>7. NoUpdateLost'
  <2>1. CASE record'.since = record'.through
    BY <1>2, <1>4, <2>1 DEF NoUpdateLost, Persisted, LogStill, LogInv, LogType
  <2>2. CASE record'.since = record.since /\ record'.through = record.through /\ mode = record.mode /\ workflow = record.workflow
    BY <1>2, <1>3, <2>2 DEF PipeInv, NoUpdateLost, Persisted, RanFor, Automates, LogStill
  <2> QED BY <1>3, <2>1, <2>2
<1>8. PipeType' /\ OneRunPerUpdate'
  BY <1>1, <1>3 DEF PipeInv, PipeType, OneRunPerUpdate
<1>9. ASSUME NEW d \in Deciders PROVE PreparedInv(d)'
  <2>1. task[d].at = "prepared" => task[d].revision \in Nat /\ task[d].revision <= record.revision
    BY DEF PipeInv, PipeType, Tasks, Idle, PreparedInv
  <2>2. record.revision \in Nat
    BY DEF PipeInv, PipeType, Records
  <2> QED BY <1>1, <1>3, <2>1, <2>2 DEF PreparedInv
<1> QED BY <1>2, <1>5, <1>6, <1>7, <1>8, <1>9 DEF PipeInv

-----------------------------------------------------------------------------
(* Every step keeps the log and the pipeline. *)
LEMMA PipelineKeepsPipe ==
    ASSUME LogAssumption, PipelineAssumption, LogInv, PipeInv, Pipeline PROVE PipeInv'
<1>1. ASSUME NEW d \in Deciders, Prepare(d) \/ RecordIntent(d) \/ Skip(d) \/ Defer(d) PROVE PipeInv'
  BY <1>1, PrepareKeepsPipe, IntentKeepsPipe, SkipKeepsPipe, DeferKeepsPipe
<1>2. CASE PassStep
  BY <1>2, ScanKeepsPipe, ListKeepsPipe, ReadNativeKeepsPipe, ReadOpenEOKeepsPipe, DecideKeepsPipe, AdvanceKeepsPipe
     DEF PassStep
<1>3. ASSUME NEW u \in Updates, Consume(u) PROVE PipeInv'
  BY <1>3, ConsumeKeepsPipe
<1> QED BY <1>1, <1>2, <1>3 DEF Pipeline, DecideStep

(* The pipeline's steps leave the log as it is, save whose turn it is. *)
LEMMA PipelineLeavesLog ==
    ASSUME Pipeline
    PROVE  /\ UNCHANGED <<clock, phase, starts, stage, created, time, trig>>
           /\ hand' = hand \/ \E u \in Updates : phase # "down" /\ hand[u] = "pipelines" /\ hand' = [hand EXCEPT ![u] = "done"]
<1>1. ASSUME NEW d \in Deciders, Prepare(d) \/ RecordIntent(d) \/ Skip(d) \/ Defer(d) PROVE UNCHANGED log
  BY <1>1 DEF Prepare, RecordIntent, Skip, Defer
<1>2. ASSUME PassStep PROVE UNCHANGED log
  <2>1. ScanStart \/ ListRecords \/ ReadNativeLog \/ ReadOpenEOLog => UNCHANGED log
    BY DEF ScanStart, ListRecords, ReadNativeLog, ReadOpenEOLog
  <2>2. DecideNext \/ AdvanceCheckpoint => UNCHANGED log
    BY DEF DecideNext, AdvanceCheckpoint
  <2> QED BY <1>2, <2>1, <2>2 DEF PassStep
<1>3. ASSUME NEW u \in Updates, Consume(u)
      PROVE  /\ UNCHANGED <<clock, phase, starts, stage, created, time>>
             /\ phase # "down" /\ hand[u] = "pipelines" /\ hand' = [hand EXCEPT ![u] = "done"]
  BY <1>3 DEF Consume
<1> QED BY <1>1, <1>2, <1>3 DEF Pipeline, DecideStep, log

LEMMA AutomationLeavesLog ==
    ASSUME Automation
    PROVE  /\ UNCHANGED <<clock, phase, starts, stage, created, time, pipe>>
           /\ \/ hand' = hand
              \/ \E u \in Updates : Listening /\ hand[u] = "triggers" /\ hand' = [hand EXCEPT ![u] = "submitting"]
              \/ \E u \in Updates : phase # "down" /\ hand[u] = "submitting" /\ hand' = [hand EXCEPT ![u] = "pipelines"]
<1>1. ASSUME NEW c \in Consumers, NEW p \in Pairs, Submit(c, p) \/ StartTriggered(c, p) PROVE UNCHANGED log
  BY <1>1 DEF Submit, StartTriggered
<1>2. ASSUME NEW u \in Updates, ConsumeTriggers(u) \/ ConsumedTriggers(u)
      PROVE  /\ UNCHANGED <<clock, phase, starts, stage, created, time>>
             /\ \/ Listening /\ hand[u] = "triggers" /\ hand' = [hand EXCEPT ![u] = "submitting"]
                \/ phase # "down" /\ hand[u] = "submitting" /\ hand' = [hand EXCEPT ![u] = "pipelines"]
  BY <1>2 DEF ConsumeTriggers, ConsumedTriggers
<1> QED BY <1>1, <1>2 DEF Automation, TrigStep, log

LEMMA FinishKeepsLog ==
    ASSUME LogAssumption, LogInv, NEW u \in Updates, NotConsumed(u) PROVE LogInv'
<1>1. "done" \in Hands \ {"none"}
  BY DEF Hands
<1> QED BY <1>1, HandKeepsLog DEF NotConsumed

LEMMA LogKept == ASSUME LogAssumption, LogInv, Next PROVE LogInv'
<1>1. CASE UNCHANGED log
  BY <1>1 DEF LogInv, LogType, ClockInv, UpdateInv, log
<1>2. CASE Start
  BY <1>2, StartKeepsLog DEF Start
<1>3. CASE Listen
  BY <1>3, ListenKeepsLog DEF Listen, Activate
<1>4. CASE ReplayNative
  BY <1>4, PhaseKeepsLog DEF ReplayNative, Phases
<1>5. CASE ReplayOpenEO
  BY <1>1, <1>5 DEF ReplayOpenEO, log
<1>6. CASE Serve
  BY <1>6, PhaseKeepsLog DEF Serve, Phases
<1>7. CASE Stop
  BY <1>7, PhaseKeepsLog DEF Stop, LogStop, Phases
<1>8. CASE Crash
  BY <1>8, CrashKeepsLog DEF Crash
<1>9. CASE JobsAndTime
  BY <1>9, TickKeepsLog, OpenKeepsLog DEF JobsAndTime
<1>10. CASE JobsFinish
  BY <1>10, StampKeepsLog, PersistKeepsLog, FinishKeepsLog DEF JobsFinish
<1>11. CASE Operator
  BY <1>1, <1>11 DEF Operator, EditStep, Revalidate, Edit, log
<1>12. CASE Pipeline
  <2>1. ASSUME NEW u \in Updates, phase # "down", hand[u] = "pipelines", hand' = [hand EXCEPT ![u] = "done"] PROVE LogInv'
    <3>1. "done" \in Hands \ {"none"}
      BY DEF Hands
    <3> QED BY <1>12, <2>1, <3>1, PipelineLeavesLog, HandKeepsLog
  <2> QED BY <1>1, <1>12, <2>1, PipelineLeavesLog DEF log
<1>13. CASE Automation
  <2>1. UNCHANGED <<clock, phase, starts, stage, created, time>>
    BY <1>13, AutomationLeavesLog
  <2>2. ASSUME NEW u \in Updates, Listening, hand[u] = "triggers", hand' = [hand EXCEPT ![u] = "submitting"] PROVE LogInv'
    <3>1. "submitting" \in Hands \ {"none"}
      BY DEF Hands
    <3> QED BY <2>1, <2>2, <3>1, HandKeepsLog DEF Listening
  <2>3. ASSUME NEW u \in Updates, phase # "down", hand[u] = "submitting", hand' = [hand EXCEPT ![u] = "pipelines"]
        PROVE  LogInv'
    <3>1. "pipelines" \in Hands \ {"none"} /\ phase # "recovering"
      BY <2>3 DEF Hands, LogInv, UpdateInv
    <3> QED BY <2>1, <2>3, <3>1, HandKeepsLog
  <2> QED BY <1>1, <1>13, <2>1, <2>2, <2>3, AutomationLeavesLog DEF log
<1> QED BY <1>2, <1>3, <1>4, <1>5, <1>6, <1>7, <1>8, <1>9, <1>10, <1>11, <1>12, <1>13 DEF Next

LEMMA PipeKept == ASSUME LogAssumption, PipelineAssumption, LogInv, PipeInv, Next PROVE PipeInv'
<1>1. clock \in Nat
  BY DEF LogInv, LogType
<1>2. CASE Start
  BY <1>1, <1>2, PipeFrame DEF Start, LogStart
<1>3. CASE Listen
  BY <1>1, <1>3, PipeFrame DEF Listen, Activate
<1>4. CASE ReplayNative
  BY <1>1, <1>4, PipeFrame DEF ReplayNative
<1>5. CASE ReplayOpenEO
  <2>1. LogStill /\ UNCHANGED <<record, task, edits, faults>> /\ pass.at = "done" /\ pass' = [at |-> "replayed"]
    BY <1>5 DEF ReplayOpenEO, LogStill, log
  <2>2. pass' \in Passes
    BY <2>1 DEF Passes
  <2>3. PassInv'
    BY <2>1 DEF PipeInv, PassInv, PassPlace, PassTerms, PassReads, Listed, Read
  <2> QED BY <2>1, <2>2, <2>3, PassMoves
<1>6. CASE Serve
  BY <1>1, <1>6, PipeFrame DEF Serve
<1>7. CASE Stop
  BY <1>1, <1>7, PipeFrame DEF Stop, LogStop
<1>8. CASE Crash
  BY <1>8, CrashKeepsPipe DEF Crash
<1>9. CASE JobsAndTime
  <2>1. Tick /\ UNCHANGED pipe => PipeInv'
    BY <1>1, PipeFrame DEF Tick
  <2> QED BY <1>9, <2>1, OpenKeepsPipe DEF JobsAndTime
<1>10. CASE JobsFinish
  <2>1. ASSUME NEW u \in Updates, NotConsumed(u), UNCHANGED pipe PROVE PipeInv'
    BY <1>1, <2>1, PipeFrame DEF NotConsumed
  <2> QED BY <1>10, <2>1, StampKeepsPipe, PersistKeepsPipe DEF JobsFinish
<1>11. CASE Operator
  BY <1>11, RevalidateKeepsPipe, EditKeepsPipe DEF Operator, EditStep
<1>12. CASE Pipeline
  BY <1>12, PipelineKeepsPipe
<1>13. CASE Automation
  <2>1. UNCHANGED <<clock, phase, stage, created, time, pipe>>
    BY <1>13, AutomationLeavesLog
  <2> QED BY <1>1, <2>1, PipeFrame
<1> QED BY <1>2, <1>3, <1>4, <1>5, <1>6, <1>7, <1>8, <1>9, <1>10, <1>11, <1>12, <1>13 DEF Next

-----------------------------------------------------------------------------
(* The triggers while the log moves. *)
LEMMA TrigStarts == ASSUME Init PROVE TrigInv
<1>1. /\ configured = {} /\ activation = [t \in Triggers |-> Never]
      /\ jobs = [p \in Pairs |-> "none"] /\ claims = [p \in Pairs |-> 0]
      /\ submitting = [c \in Consumers |-> {}] /\ found = [c \in Consumers |-> {}]
      /\ refused = {} /\ old = [t \in Triggers |-> {}] /\ phase = "down" /\ clock = 1
  BY DEF Init, TrigInit, LogInit
<1>2. TrigType
  BY <1>1 DEF TrigType, Never
<1>3. ReplayInv /\ \A p \in Pairs : claims[p] = IF jobs[p] = "started" THEN 1 ELSE 0
  BY <1>1 DEF ReplayInv
<1>4. \A p \in Pairs : ~Pending(p) /\ jobs[p] = "none"
  BY <1>1 DEF Pending
<1>5. \A t \in Triggers : ActivationInv(t)
  BY <1>1, <1>4 DEF ActivationInv, Pairs, Never
<1>6. \A c \in Consumers : ConsumerInv(c)
  BY <1>1 DEF ConsumerInv
<1> QED BY <1>2, <1>3, <1>5, <1>6 DEF TrigInv

LEMMA TrigWaits ==
    ASSUME LogInv, TrigInv, UNCHANGED trig, clock' \in Nat, clock' >= clock,
           \A u \in Updates : /\ hand[u] = "done" => hand'[u] = "done" /\ time'[u] = time[u]
                              /\ hand'[u] \in {"none", "triggers"} => hand[u] \in {"none", "triggers"},
           phase' = "serving" => pass'.at = "replayed",
           phase' \in {"replaying", "serving"} =>
               /\ phase \in {"replaying", "serving"} /\ (pass'.at = "replayed" => pass.at = "replayed")
               /\ \A u \in Updates : stage'[u] = "persisted" =>
                     \/ hand'[u] = "triggers"
                     \/ stage[u] = "persisted" /\ time'[u] = time[u] /\ hand[u] # "triggers"
    PROVE  TrigInv'
<1> USE DEF trig
<1>1. TrigType' /\ \A p \in Pairs : claims'[p] = IF jobs'[p] = "started" THEN 1 ELSE 0
  BY DEF TrigInv, TrigType
<1>2. \A p \in Pairs : Pending(p)' <=> Pending(p)
  BY DEF Pending
<1>3. ASSUME NEW t \in Triggers PROVE ActivationInv(t)'
  <2>1. ActivationInv(t) /\ activation[t] \in Nat /\ old[t] \subseteq Updates /\ clock \in Nat
    BY DEF TrigInv, TrigType, LogInv, LogType
  <2>2. \A u \in Updates : <<t, u>> \in Pairs
    BY DEF Pairs
  <2> QED BY <1>2, <2>1, <2>2 DEF ActivationInv
<1>4. ASSUME NEW c \in Consumers PROVE ConsumerInv(c)'
  BY DEF TrigInv, ConsumerInv
<1>5. ReplayInv'
  <2>1. ASSUME phase' \in {"replaying", "serving"}, NEW t \in configured, NEW u \in Updates, stage'[u] = "persisted",
               u \in OnUpdateOf[t], u \in Native \/ pass'.at = "replayed"
        PROVE  Met(t, u)'
    <3>1. CASE hand'[u] = "triggers"
      BY <3>1 DEF Met
    <3>2. CASE stage[u] = "persisted" /\ time'[u] = time[u] /\ hand[u] # "triggers"
      <4>1. Met(t, u)
        BY <2>1, <3>2 DEF TrigInv, ReplayInv, Persisted
      <4>2. <<t, u>> \in Pairs
        BY DEF Pairs, TrigInv, TrigType
      <4> QED BY <1>2, <3>2, <4>1, <4>2 DEF Met
    <3> QED BY <2>1, <3>1, <3>2
  <2> QED BY <2>1 DEF ReplayInv, Persisted
<1> QED BY <1>1, <1>3, <1>4, <1>5 DEF TrigInv

LEMMA CrashKeepsTrig == ASSUME LogInv, TrigInv, LogCrash, TrigCrash PROVE TrigInv'
<1>1. TrigType' /\ \A p \in Pairs : claims'[p] = IF jobs'[p] = "started" THEN 1 ELSE 0
  BY DEF TrigInv, TrigType, TrigCrash
<1>2. \A p \in Pairs : ~Pending(p)'
  BY DEF Pending, TrigCrash
<1>3. ASSUME NEW t \in Triggers PROVE ActivationInv(t)'
  <2>1. ActivationInv(t) /\ old[t] \subseteq Updates
    BY DEF TrigInv, TrigType
  <2>2. \A u \in Updates : <<t, u>> \in Pairs
    BY DEF Pairs
  <2> QED BY <1>2, <2>1, <2>2 DEF ActivationInv, LogCrash, TrigCrash
<1>4. ASSUME NEW c \in Consumers PROVE ConsumerInv(c)'
  BY DEF ConsumerInv, TrigCrash
<1>5. ReplayInv'
  BY DEF ReplayInv, LogCrash
<1> QED BY <1>1, <1>3, <1>4, <1>5 DEF TrigInv

(* A start with a new trigger: every update stored by now is from before.  *)
LEMMA ListenKeepsTrig ==
    ASSUME FlowAssumption, LogInv, TrigInv, Listen PROVE TrigInv'
<1>1. PICK config \in Configs : Activate(config)
  BY DEF Listen
<1>2. /\ phase = "recovering" /\ phase' = "listening" /\ clock' = clock + 1
      /\ UNCHANGED <<stage, time, hand, jobs, claims, submitting, found, refused>>
      /\ configured' = config /\ config \subseteq Triggers /\ clock \in Nat /\ clock + 1 \in Nat
  BY <1>1 DEF Listen, Activate, FlowAssumption, LogInv, LogType
<1>3. ASSUME NEW t \in Triggers
      PROVE  /\ activation'[t] = IF t \in config /\ activation[t] = Never THEN clock + 1 ELSE activation[t]
             /\ old'[t] = IF t \in config /\ activation[t] = Never THEN {u \in Persisted : hand[u] # "triggers"} ELSE old[t]
             /\ activation[t] \in Nat /\ old[t] \subseteq Updates /\ ActivationInv(t)
  BY <1>1 DEF Activate, Activations, TrigInv, TrigType
<1>4. TrigType'
  <2>1. activation' \in [Triggers -> Nat]
    <3>1. activation' = [t \in Triggers |-> IF t \in config /\ activation[t] = Never THEN clock + 1 ELSE activation[t]]
      BY <1>1 DEF Activate, Activations
    <3> QED BY <1>2, <1>3, <3>1
  <2>2. old' \in [Triggers -> SUBSET Updates]
    <3>1. old' = [t \in Triggers |-> IF t \in config /\ activation[t] = Never
                                     THEN {u \in Persisted : hand[u] # "triggers"} ELSE old[t]]
      BY <1>1 DEF Activate
    <3> QED BY <1>3, <3>1 DEF Persisted
  <2> QED BY <1>2, <2>1, <2>2 DEF TrigInv, TrigType
<1>5. \A p \in Pairs : Pending(p)' <=> Pending(p)
  BY <1>2 DEF Pending
<1>6. ASSUME NEW t \in Triggers PROVE ActivationInv(t)'
  <2>1. \A u \in Updates : <<t, u>> \in Pairs
    BY DEF Pairs
  <2>2. CASE t \in config /\ activation[t] = Never
    <3>1. activation'[t] = clock + 1 /\ old'[t] = {u \in Persisted : hand[u] # "triggers"} /\ clock + 1 # Never
      <4>1. PICK earlier : earlier = {u \in Persisted : hand[u] # "triggers"}
        OBVIOUS
      <4>2. activation'[t] = clock + 1
        BY <1>3, <2>2
      <4>3. old'[t] = IF t \in config /\ activation[t] = Never THEN earlier ELSE old[t]
        BY <1>3, <4>1
      <4>4. clock + 1 # Never
        BY <1>2 DEF Never
      <4> QED BY <2>2, <4>1, <4>2, <4>3, <4>4
    <3>2. ASSUME NEW u \in old'[t] PROVE u \in Updates /\ hand'[u] = "done" /\ time'[u] < clock + 1
      <4>0. u \in {v \in Persisted : hand[v] # "triggers"}
        BY <3>1, <3>2
      <4>1. u \in Updates /\ stage[u] = "persisted" /\ hand[u] # "triggers"
        BY <4>0 DEF Persisted
      <4>2. UpdateInv(u) /\ time[u] \in Nat
        BY <4>1 DEF LogInv, LogType
      <4> QED BY <1>2, <4>1, <4>2 DEF UpdateInv
    <3>3. \A u \in Updates : jobs'[<<t, u>>] = "none" /\ ~Pending(<<t, u>>)'
      BY <1>2, <1>3, <1>5, <2>1, <2>2 DEF ActivationInv
    <3> QED BY <1>2, <3>1, <3>2, <3>3 DEF ActivationInv
  <2>3. CASE ~(t \in config /\ activation[t] = Never)
    <3>1. activation'[t] = activation[t] /\ old'[t] = old[t]
      BY <1>3, <2>3
    <3>2. activation'[t] <= clock' /\ (t \in configured' => activation'[t] # Never)
      <4>1. activation[t] \in Nat /\ activation[t] <= clock
        BY <1>3 DEF ActivationInv
      <4>2. clock \in Nat /\ clock' = clock + 1 /\ configured' = config
        BY <1>2
      <4> QED BY <2>3, <3>1, <4>1, <4>2
    <3>3. \A u \in Updates : jobs'[<<t, u>>] = jobs[<<t, u>>] /\ (Pending(<<t, u>>)' <=> Pending(<<t, u>>))
      BY <1>2, <1>5, <2>1
    <3> QED BY <1>2, <1>3, <3>1, <3>2, <3>3 DEF ActivationInv
  <2> QED BY <2>2, <2>3
<1>7. ASSUME NEW c \in Consumers PROVE ConsumerInv(c)'
  BY <1>2 DEF TrigInv, ConsumerInv
<1>8. ReplayInv'
  BY <1>2 DEF ReplayInv
<1>9. \A p \in Pairs : claims'[p] = IF jobs'[p] = "started" THEN 1 ELSE 0
  BY <1>2 DEF TrigInv
<1> QED BY <1>4, <1>6, <1>7, <1>8, <1>9 DEF TrigInv

-----------------------------------------------------------------------------
(* The triggers' own steps: no job and no submission appears for an update *)
(* a trigger may not have.                                                 *)
Allowed(t, u) == activation[t] # Never /\ (t \in ReplayExisting \/ u \notin old[t])
Known(p)      == Pending(p) \/ jobs[p] # "none"

LEMMA ActivationKept ==
    ASSUME LogInv, TrigInv, UNCHANGED <<clock, time, configured, activation, old>>,
           \A u \in Updates : hand[u] = "done" => hand'[u] = "done",
           \A t \in Triggers, u \in Updates : Known(<<t, u>>)' => Known(<<t, u>>) \/ Allowed(t, u)
    PROVE  \A t \in Triggers : ActivationInv(t)'
<1>1. SUFFICES ASSUME NEW t \in Triggers PROVE ActivationInv(t)'
  OBVIOUS
<1>2. ActivationInv(t) /\ old[t] \subseteq Updates
  BY DEF TrigInv, TrigType
<1>3. activation[t] = Never => \A u \in Updates : ~Known(<<t, u>>)'
  BY <1>2 DEF ActivationInv, Known, Allowed
<1>4. t \notin ReplayExisting => \A u \in old[t] : ~Known(<<t, u>>)'
  BY <1>2 DEF ActivationInv, Known, Allowed
<1>5. \A u \in Updates : ~Known(<<t, u>>)' => jobs'[<<t, u>>] = "none" /\ ~Pending(<<t, u>>)'
  BY DEF Known
<1> QED BY <1>2, <1>3, <1>4, <1>5 DEF ActivationInv

LEMMA AllowedToConfigured ==
    ASSUME LogInv, TrigInv, NEW t \in configured, NEW u \in Updates,
           hand[u] = "triggers" \/ t \in ReplayExisting \/ ~IsBeforeActivation(t, u)
    PROVE  Allowed(t, u)
<1>1. t \in Triggers /\ ActivationInv(t) /\ activation[t] \in Nat /\ time[u] \in Nat
  BY DEF TrigInv, TrigType, LogInv, LogType
<1> QED BY <1>1 DEF ActivationInv, Allowed, IsBeforeActivation

LEMMA ReplayKept ==
    ASSUME TrigInv, UNCHANGED <<phase, configured, stage>>, pass' = pass,
           \A t \in configured, u \in Updates : u \in OnUpdateOf[t] /\ Met(t, u) => Met(t, u)'
    PROVE  ReplayInv'
BY DEF TrigInv, ReplayInv, Persisted

LEMMA ConsumeKeepsTrig ==
    ASSUME TriggerAssumption, LogInv, TrigInv, NEW u \in Updates, ConsumeTriggers(u), UNCHANGED pipe PROVE TrigInv'
<1> DEFINE all == {<<t, u>> : t \in {s \in configured : u \in OnUpdateOf[s]}}
<1>1. /\ hand[u] = "triggers" /\ hand' = [hand EXCEPT ![u] = "submitting"] /\ submitting' = [submitting EXCEPT ![u] = all]
      /\ UNCHANGED <<clock, phase, stage, time, configured, activation, jobs, claims, found, refused, old, pass>>
  BY DEF ConsumeTriggers, pipe
<1>2. /\ submitting \in [Consumers -> SUBSET Pairs] /\ hand \in [Updates -> Hands] /\ u \in Consumers
      /\ configured \subseteq Triggers
  BY DEF TrigInv, TrigType, LogInv, LogType, Consumers
<1>3. submitting[u] = {} /\ found[u] = {}
  BY <1>1, <1>2 DEF TrigInv, ConsumerInv
<1>4. all \subseteq Pairs
  BY <1>2 DEF Pairs
<1>5. TrigType'
  <2>1. submitting' \in [Consumers -> SUBSET Pairs]
    BY <1>1, <1>2, <1>4
  <2> QED BY <1>1, <2>1 DEF TrigInv, TrigType
<1>6. \A p \in Pairs : Pending(p)' <=> Pending(p) \/ p \in all
  BY <1>1, <1>2, <1>3 DEF Pending
<1>7. \A t \in Triggers : ActivationInv(t)'
  <2>1. \A v \in Updates : hand[v] = "done" => hand'[v] = "done"
    BY <1>1, <1>2
  <2>2. ASSUME NEW t \in Triggers, NEW v \in Updates, Known(<<t, v>>)', ~Known(<<t, v>>) PROVE Allowed(t, v)
    <3>1. <<t, v>> \in Pairs
      BY DEF Pairs
    <3>2. <<t, v>> \in all
      BY <1>1, <1>6, <2>2, <3>1 DEF Known
    <3>3. t \in configured /\ v = u
      BY <3>2
    <3> QED BY <1>1, <3>3, AllowedToConfigured
  <2> QED BY <1>1, <2>1, <2>2, ActivationKept
<1>8. ASSUME NEW c \in Consumers PROVE ConsumerInv(c)'
  BY <1>1, <1>2 DEF TrigInv, ConsumerInv
<1>9. ReplayInv'
  <2>1. ASSUME NEW t \in configured, NEW v \in Updates, v \in OnUpdateOf[t], Met(t, v) PROVE Met(t, v)'
    <3>1. <<t, v>> \in Pairs
      BY <1>2 DEF Pairs
    <3>2. CASE v = u
      <4>1. <<t, v>> \in all
        BY <2>1, <3>2
      <4> QED BY <1>6, <3>1, <4>1 DEF Met
    <3>3. CASE v # u
      <4>1. hand'[v] = hand[v]
        BY <1>1, <1>2, <3>3
      <4> QED BY <1>1, <1>6, <2>1, <3>1, <4>1 DEF Met
    <3> QED BY <3>2, <3>3
  <2> QED BY <1>1, <2>1, ReplayKept
<1>10. \A p \in Pairs : claims'[p] = IF jobs'[p] = "started" THEN 1 ELSE 0
  BY <1>1 DEF TrigInv
<1> QED BY <1>5, <1>7, <1>8, <1>9, <1>10 DEF TrigInv

LEMMA ConsumedKeepsTrig ==
    ASSUME LogInv, TrigInv, NEW u \in Updates, ConsumedTriggers(u), UNCHANGED pipe PROVE TrigInv'
<1>1. /\ hand[u] = "submitting" /\ hand' = [hand EXCEPT ![u] = "pipelines"]
      /\ UNCHANGED <<clock, phase, stage, time, configured, activation, jobs, claims, submitting, found, refused, old, pass>>
  BY DEF ConsumedTriggers, pipe, trig
<1>2. hand \in [Updates -> Hands] /\ configured \subseteq Triggers
  BY DEF TrigInv, TrigType, LogInv, LogType
<1>3. \A p \in Pairs : Pending(p)' <=> Pending(p)
  BY <1>1 DEF Pending
<1>4. \A t \in Triggers, v \in Updates : <<t, v>> \in Pairs
  BY DEF Pairs
<1>5. \A t \in Triggers : ActivationInv(t)'
  <2>1. \A v \in Updates : hand[v] = "done" => hand'[v] = "done"
    BY <1>1, <1>2
  <2>2. \A t \in Triggers, v \in Updates : Known(<<t, v>>)' => Known(<<t, v>>)
    BY <1>1, <1>3, <1>4 DEF Known
  <2> QED BY <1>1, <2>1, <2>2, ActivationKept
<1>6. ASSUME NEW c \in Consumers PROVE ConsumerInv(c)'
  BY <1>1, <1>2 DEF TrigInv, ConsumerInv
<1>7. ReplayInv'
  <2>1. ASSUME NEW t \in configured, NEW v \in Updates, Met(t, v) PROVE Met(t, v)'
    <3>1. hand[v] = "triggers" => hand'[v] = "triggers"
      BY <1>1, <1>2
    <3> QED BY <1>1, <1>2, <1>3, <1>4, <2>1, <3>1 DEF Met
  <2> QED BY <1>1, <2>1, ReplayKept
<1>8. TrigType' /\ \A p \in Pairs : claims'[p] = IF jobs'[p] = "started" THEN 1 ELSE 0
  BY <1>1 DEF TrigInv, TrigType
<1> QED BY <1>5, <1>6, <1>7, <1>8 DEF TrigInv

(* A submission turns into a job to be started, or is refused. *)
LEMMA SubmitKeepsTrig ==
    ASSUME LogInv, TrigInv, NEW c \in Consumers, NEW p \in Pairs, Submit(c, p), UNCHANGED pipe PROVE TrigInv'
<1>1. /\ p \in submitting[c] /\ found[c] = {} /\ submitting' = [submitting EXCEPT ![c] = @ \ {p}]
      /\ UNCHANGED <<clock, phase, stage, time, hand, configured, activation, claims, old, pass>>
  BY DEF Submit, pipe, log
<1>2. /\ submitting \in [Consumers -> SUBSET Pairs] /\ found \in [Consumers -> SUBSET Pairs]
      /\ jobs \in [Pairs -> {"none", "created", "started"}] /\ refused \subseteq Pairs /\ configured \subseteq Triggers
  BY DEF TrigInv, TrigType
<1>3. \/ /\ jobs' = [jobs EXCEPT ![p] = IF jobs[p] = "none" THEN "created" ELSE jobs[p]]
         /\ found' = [found EXCEPT ![c] = {p}] /\ refused' = refused
      \/ refused' = refused \cup {p} /\ UNCHANGED <<jobs, found>>
  BY DEF Submit
<1>4. /\ jobs' \in [Pairs -> {"none", "created", "started"}]
      /\ \A q \in Pairs : /\ jobs'[q] # jobs[q] => q = p /\ jobs[q] = "none" /\ jobs'[q] = "created"
                          /\ jobs'[q] = "started" <=> jobs[q] = "started"
      /\ refused \subseteq refused' /\ refused' \subseteq Pairs
  BY <1>2, <1>3
<1>5. TrigType'
  <2>1. submitting' \in [Consumers -> SUBSET Pairs]
    BY <1>1, <1>2
  <2>2. found' \in [Consumers -> SUBSET Pairs]
    BY <1>2, <1>3
  <2> QED BY <1>1, <1>4, <2>1, <2>2 DEF TrigInv, TrigType
<1>6. /\ \A q \in Pairs : Pending(q)' => Pending(q)
      /\ \A q \in Pairs : Pending(q) => Pending(q)' \/ (q = p /\ p \in refused')
  <2>1. \A b \in Consumers : submitting'[b] = (IF b = c THEN submitting[c] \ {p} ELSE submitting[b])
    BY <1>1, <1>2
  <2>2. CASE found' = [found EXCEPT ![c] = {p}]
    <3>1. \A b \in Consumers : found'[b] = (IF b = c THEN {p} ELSE found[b])
      BY <1>2, <2>2
    <3> QED BY <1>1, <2>1, <3>1 DEF Pending
  <2>3. CASE found' = found /\ refused' = refused \cup {p}
    BY <1>1, <2>1, <2>3 DEF Pending
  <2> QED BY <1>3, <2>2, <2>3
<1>7. Pending(p)
  BY <1>1 DEF Pending
<1>8. \A t \in Triggers, v \in Updates : <<t, v>> \in Pairs
  BY DEF Pairs
<1>9. \A t \in Triggers : ActivationInv(t)'
  <2>1. \A t \in Triggers, v \in Updates : Known(<<t, v>>)' => Known(<<t, v>>)
    BY <1>4, <1>6, <1>7, <1>8 DEF Known
  <2> QED BY <1>1, <2>1, ActivationKept
<1>10. ASSUME NEW b \in Consumers PROVE ConsumerInv(b)'
  <2>1. ConsumerInv(b)
    BY DEF TrigInv
  <2>2. CASE b # c
    <3>1. submitting'[b] = submitting[b] /\ found'[b] = found[b]
      BY <1>1, <1>2, <1>3, <2>2
    <3>2. found[b] \subseteq Pairs
      BY <1>2
    <3> QED BY <1>1, <1>4, <2>1, <3>1, <3>2 DEF ConsumerInv
  <2>3. CASE b = c
    <3>1. ~(c \in Updates /\ hand[c] \in {"none", "triggers"})
      BY <1>1, <2>1, <2>3 DEF ConsumerInv
    <3>2. \A q \in found'[c] : jobs'[q] # "none" /\ found'[c] = {q}
      BY <1>1, <1>2, <1>3
    <3> QED BY <1>1, <2>3, <3>1, <3>2 DEF ConsumerInv
  <2> QED BY <2>2, <2>3
<1>11. ReplayInv'
  <2>1. ASSUME NEW t \in configured, NEW v \in Updates, Met(t, v) PROVE Met(t, v)'
    <3>1. <<t, v>> \in Pairs
      BY <1>2, <1>8
    <3>2. Pending(<<t, v>>) => Pending(<<t, v>>)' \/ <<t, v>> \in refused'
      BY <1>6, <3>1
    <3>3. jobs[<<t, v>>] = "started" => jobs'[<<t, v>>] = "started"
      BY <1>4, <3>1
    <3> QED BY <1>1, <1>4, <2>1, <3>2, <3>3 DEF Met
  <2> QED BY <1>1, <2>1, ReplayKept
<1>12. \A q \in Pairs : claims'[q] = IF jobs'[q] = "started" THEN 1 ELSE 0
  BY <1>1, <1>4 DEF TrigInv
<1> QED BY <1>5, <1>9, <1>10, <1>11, <1>12 DEF TrigInv

(* The job found is claimed, unless someone has. *)
LEMMA StartKeepsTrig ==
    ASSUME LogInv, TrigInv, NEW c \in Consumers, NEW p \in Pairs, StartTriggered(c, p), UNCHANGED pipe PROVE TrigInv'
<1>1. /\ p \in found[c] /\ found' = [found EXCEPT ![c] = {}]
      /\ UNCHANGED <<clock, phase, stage, time, hand, configured, activation, submitting, refused, old, pass>>
  BY DEF StartTriggered, pipe, log
<1>2. /\ submitting \in [Consumers -> SUBSET Pairs] /\ found \in [Consumers -> SUBSET Pairs]
      /\ jobs \in [Pairs -> {"none", "created", "started"}] /\ claims \in [Pairs -> Nat] /\ configured \subseteq Triggers
  BY DEF TrigInv, TrigType
<1>3. found[c] = {p} /\ jobs[p] \in {"created", "started"}
  BY <1>1, <1>2 DEF TrigInv, ConsumerInv
<1>4. /\ jobs' \in [Pairs -> {"none", "created", "started"}] /\ claims' \in [Pairs -> Nat]
      /\ \A q \in Pairs : jobs'[q] = IF q = p THEN "started" ELSE jobs[q]
      /\ \A q \in Pairs : claims'[q] = IF jobs'[q] = "started" THEN 1 ELSE 0
  <2>1. CASE jobs[p] = "created"
    <3>1. jobs' = [jobs EXCEPT ![p] = "started"] /\ claims' = [claims EXCEPT ![p] = claims[p] + 1] /\ claims[p] = 0
      BY <2>1 DEF StartTriggered, Claimable, TrigInv
    <3> QED BY <1>2, <3>1 DEF TrigInv
  <2>2. CASE jobs[p] = "started"
    <3>1. jobs' = jobs /\ claims' = claims
      BY <2>2 DEF StartTriggered, Claimable
    <3> QED BY <1>2, <2>2, <3>1 DEF TrigInv
  <2> QED BY <1>3, <2>1, <2>2
<1>5. TrigType'
  <2>1. found' \in [Consumers -> SUBSET Pairs]
    BY <1>1, <1>2
  <2> QED BY <1>1, <1>4, <2>1 DEF TrigInv, TrigType
<1>6. /\ \A q \in Pairs : Pending(q)' => Pending(q)
      /\ \A q \in Pairs : Pending(q) => Pending(q)' \/ q = p
  <2>1. \A b \in Consumers : found'[b] = (IF b = c THEN {} ELSE found[b])
    BY <1>1, <1>2
  <2> QED BY <1>1, <1>3, <2>1 DEF Pending
<1>7. Pending(p)
  BY <1>1 DEF Pending
<1>8. \A t \in Triggers, v \in Updates : <<t, v>> \in Pairs
  BY DEF Pairs
<1>9. \A t \in Triggers : ActivationInv(t)'
  <2>1. \A t \in Triggers, v \in Updates : Known(<<t, v>>)' => Known(<<t, v>>)
    BY <1>4, <1>6, <1>7, <1>8 DEF Known
  <2> QED BY <1>1, <2>1, ActivationKept
<1>10. ASSUME NEW b \in Consumers PROVE ConsumerInv(b)'
  <2>1. ConsumerInv(b) /\ found[b] \subseteq Pairs
    BY <1>2 DEF TrigInv
  <2>2. found'[b] = IF b = c THEN {} ELSE found[b]
    BY <1>1, <1>2
  <2> QED BY <1>1, <1>4, <2>1, <2>2 DEF ConsumerInv
<1>11. ReplayInv'
  <2>1. ASSUME NEW t \in configured, NEW v \in Updates, Met(t, v) PROVE Met(t, v)'
    <3>1. <<t, v>> \in Pairs
      BY <1>2, <1>8
    <3>2. Pending(<<t, v>>) => Pending(<<t, v>>)' \/ jobs'[<<t, v>>] = "started"
      BY <1>4, <1>6, <3>1
    <3>3. jobs[<<t, v>>] = "started" => jobs'[<<t, v>>] = "started"
      BY <1>4, <3>1
    <3> QED BY <1>1, <2>1, <3>2, <3>3 DEF Met
  <2> QED BY <1>1, <2>1, ReplayKept
<1> QED BY <1>4, <1>5, <1>9, <1>10, <1>11 DEF TrigInv

(* The replay makes due what is stored and not from before. *)
LEMMA ReplayMakesDue ==
    ASSUME LogInv, TrigInv, NEW read \in SUBSET Persisted
    PROVE  /\ Due(read) \subseteq Pairs
           /\ \A t \in Triggers, u \in Updates : <<t, u>> \in Due(read) => Allowed(t, u)
           /\ \A t \in configured : \A u \in read \cap OnUpdateOf[t] : <<t, u>> \in Due(read) \/ time[u] < activation[t]
<1>1. configured \subseteq Triggers /\ read \subseteq Updates
  BY DEF TrigInv, TrigType, Persisted
<1>2. \A p \in Due(read) : p \in configured \X read /\ p[2] \in OnUpdateOf[p[1]]
                           /\ (p[1] \in ReplayExisting \/ ~IsBeforeActivation(p[1], p[2]))
  BY DEF Due
<1>3. Due(read) \subseteq Pairs
  BY <1>1, <1>2 DEF Pairs
<1>4. ASSUME NEW t \in Triggers, NEW u \in Updates, <<t, u>> \in Due(read) PROVE Allowed(t, u)
  <2>1. t \in configured /\ (t \in ReplayExisting \/ ~IsBeforeActivation(t, u))
    BY <1>2, <1>4
  <2> QED BY <2>1, AllowedToConfigured
<1>5. ASSUME NEW t \in configured, NEW u \in read \cap OnUpdateOf[t], <<t, u>> \notin Due(read) PROVE time[u] < activation[t]
  <2>1. IsBeforeActivation(t, u)
    BY <1>5 DEF Due
  <2>2. activation[t] # Never
    BY <1>1 DEF TrigInv, ActivationInv
  <2> QED BY <2>1, <2>2 DEF IsBeforeActivation
<1> QED BY <1>3, <1>4, <1>5

LEMMA ReplayNativeKeepsTrig ==
    ASSUME TriggerAssumption, LogInv, TrigInv, ReplayNative PROVE TrigInv'
<1>1. /\ phase' = "replaying" /\ pass.at = "done" /\ submitting' = [submitting EXCEPT !["replay"] = Due(ReadNative)]
      /\ UNCHANGED <<clock, stage, time, hand, configured, activation, jobs, claims, found, refused, old, pass>>
  BY DEF ReplayNative, pipe
<1>2. /\ submitting \in [Consumers -> SUBSET Pairs] /\ "replay" \in Consumers /\ "replay" \notin Updates
      /\ configured \subseteq Triggers
  BY DEF TrigInv, TrigType, Consumers, TriggerAssumption
<1>3. PICK due : due = Due(ReadNative)
  OBVIOUS
<1>4. /\ due \subseteq Pairs
      /\ \A t \in Triggers, u \in Updates : <<t, u>> \in due => Allowed(t, u)
      /\ \A t \in configured : \A u \in ReadNative \cap OnUpdateOf[t] : <<t, u>> \in due \/ time[u] < activation[t]
  <2>1. ReadNative \in SUBSET Persisted
    BY DEF ReadNative
  <2> QED BY <1>3, <2>1, ReplayMakesDue
<1>5. \A c \in Consumers : submitting'[c] = IF c = "replay" THEN due ELSE submitting[c]
  BY <1>1, <1>2, <1>3
<1>6. TrigType'
  <2>1. submitting' \in [Consumers -> SUBSET Pairs]
    BY <1>1, <1>2, <1>3, <1>4
  <2> QED BY <1>1, <2>1 DEF TrigInv, TrigType
<1>7. \A p \in Pairs : /\ Pending(p)' => Pending(p) \/ p \in due
                       /\ p \in due => Pending(p)'
  BY <1>1, <1>2, <1>5 DEF Pending
<1>8. \A t \in Triggers, v \in Updates : <<t, v>> \in Pairs
  BY DEF Pairs
<1>9. \A t \in Triggers : ActivationInv(t)'
  <2>1. \A t \in Triggers, v \in Updates : Known(<<t, v>>)' => Known(<<t, v>>) \/ Allowed(t, v)
    BY <1>1, <1>4, <1>7, <1>8 DEF Known
  <2> QED BY <1>1, <2>1, ActivationKept
<1>10. ASSUME NEW c \in Consumers PROVE ConsumerInv(c)'
  BY <1>1, <1>2, <1>5 DEF TrigInv, ConsumerInv
<1>11. ReplayInv'
  <2>1. ASSUME NEW t \in configured, NEW u \in Persisted \cap OnUpdateOf[t], u \in Native PROVE Met(t, u)'
    <3>1. <<t, u>> \in Pairs /\ u \in ReadNative
      BY <1>2, <1>8, <2>1 DEF Persisted, ReadNative
    <3> QED BY <1>1, <1>4, <1>7, <3>1 DEF Met
  <2>2. Persisted' = Persisted
    BY <1>1 DEF Persisted
  <2> QED BY <1>1, <2>1, <2>2 DEF ReplayInv
<1>12. \A q \in Pairs : claims'[q] = IF jobs'[q] = "started" THEN 1 ELSE 0
  BY <1>1 DEF TrigInv
<1> QED BY <1>6, <1>9, <1>10, <1>11, <1>12 DEF TrigInv

LEMMA ReplayOpenEOKeepsTrig ==
    ASSUME TriggerAssumption, LogInv, TrigInv, ReplayOpenEO PROVE TrigInv'
<1>1. /\ phase = "replaying" /\ pass.at = "done" /\ pass' = [at |-> "replayed"]
      /\ submitting' = [submitting EXCEPT !["replay"] = @ \cup Due(ReadOpenEO)]
      /\ UNCHANGED <<clock, phase, stage, time, hand, configured, activation, jobs, claims, found, refused, old>>
  BY DEF ReplayOpenEO, Replay, log
<1>2. /\ submitting \in [Consumers -> SUBSET Pairs] /\ "replay" \in Consumers /\ "replay" \notin Updates
      /\ configured \subseteq Triggers
  BY DEF TrigInv, TrigType, Consumers, TriggerAssumption
<1>3. PICK due : due = Due(ReadOpenEO)
  OBVIOUS
<1>4. /\ due \subseteq Pairs
      /\ \A t \in Triggers, u \in Updates : <<t, u>> \in due => Allowed(t, u)
      /\ \A t \in configured : \A u \in ReadOpenEO \cap OnUpdateOf[t] : <<t, u>> \in due \/ time[u] < activation[t]
  <2>1. ReadOpenEO \in SUBSET Persisted
    BY DEF ReadOpenEO
  <2> QED BY <1>3, <2>1, ReplayMakesDue
<1>5. \A c \in Consumers : submitting'[c] = IF c = "replay" THEN submitting[c] \cup due ELSE submitting[c]
  BY <1>1, <1>2, <1>3
<1>6. TrigType'
  <2>1. submitting' \in [Consumers -> SUBSET Pairs]
    BY <1>1, <1>2, <1>3, <1>4
  <2> QED BY <1>1, <2>1 DEF TrigInv, TrigType
<1>7. \A p \in Pairs : Pending(p)' <=> Pending(p) \/ p \in due
  BY <1>1, <1>2, <1>5 DEF Pending
<1>8. \A t \in Triggers, v \in Updates : <<t, v>> \in Pairs
  BY DEF Pairs
<1>9. \A t \in Triggers : ActivationInv(t)'
  <2>1. \A t \in Triggers, v \in Updates : Known(<<t, v>>)' => Known(<<t, v>>) \/ Allowed(t, v)
    BY <1>1, <1>4, <1>7, <1>8 DEF Known
  <2> QED BY <1>1, <2>1, ActivationKept
<1>10. ASSUME NEW c \in Consumers PROVE ConsumerInv(c)'
  BY <1>1, <1>2, <1>5 DEF TrigInv, ConsumerInv
<1>11. ReplayInv'
  <2>1. ASSUME NEW t \in configured, NEW u \in Persisted \cap OnUpdateOf[t] PROVE Met(t, u)'
    <3>1. <<t, u>> \in Pairs
      BY <1>2, <1>8 DEF Persisted
    <3>2. CASE u \in Native
      <4>1. Met(t, u)
        BY <1>1, <2>1, <3>2 DEF TrigInv, ReplayInv
      <4> QED BY <1>1, <1>7, <3>1, <4>1 DEF Met
    <3>3. CASE u \notin Native
      <4>1. u \in ReadOpenEO
        BY <2>1, <3>3 DEF ReadOpenEO
      <4> QED BY <1>1, <1>4, <1>7, <3>1, <4>1 DEF Met
    <3> QED BY <3>2, <3>3
  <2>2. Persisted' = Persisted
    BY <1>1 DEF Persisted
  <2> QED BY <1>1, <2>1, <2>2 DEF ReplayInv
<1>12. \A q \in Pairs : claims'[q] = IF jobs'[q] = "started" THEN 1 ELSE 0
  BY <1>1 DEF TrigInv
<1> QED BY <1>6, <1>9, <1>10, <1>11, <1>12 DEF TrigInv

LEMMA AutomationKeepsTrig ==
    ASSUME TriggerAssumption, LogInv, TrigInv, Automation PROVE TrigInv'
<1>1. ASSUME NEW c \in Consumers, NEW p \in Pairs, Submit(c, p) \/ StartTriggered(c, p), UNCHANGED pipe PROVE TrigInv'
  BY <1>1, SubmitKeepsTrig, StartKeepsTrig
<1>2. ASSUME NEW u \in Updates, ConsumeTriggers(u) \/ ConsumedTriggers(u), UNCHANGED pipe PROVE TrigInv'
  BY <1>2, ConsumeKeepsTrig, ConsumedKeepsTrig
<1> QED BY <1>1, <1>2 DEF Automation, TrigStep

(* The pass is the pipeline's only before the replay. *)
LEMMA PassOnlyListening ==
    ASSUME PipeInv, Pipeline, phase # "listening" PROVE pass' = pass
<1>1. ASSUME NEW d \in Deciders, Prepare(d) \/ RecordIntent(d) \/ Skip(d) PROVE pass' = pass
  BY <1>1 DEF Prepare, RecordIntent, Skip
<1>2. ASSUME NEW d \in Deciders, Defer(d) PROVE pass' = pass
  <2>1. d = Startup => pass.at = "decide"
    BY <1>2, AtTask DEF Defer, At
  <2>2. d # Startup
    BY <2>1 DEF PipeInv, PassInv, PassPlace, Listed
  <2> QED BY <1>2, <2>2 DEF Defer
<1>3. ~PassStep
  BY DEF PassStep, ScanStart, ListRecords, ReadNativeLog, ReadOpenEOLog, DecideNext, AdvanceCheckpoint
<1>4. ASSUME NEW u \in Updates, Consume(u) PROVE pass' = pass
  BY <1>4 DEF Consume
<1> QED BY <1>1, <1>2, <1>3, <1>4 DEF Pipeline, DecideStep

LEMMA TrigKept ==
    ASSUME LogAssumption, TriggerAssumption, FlowAssumption, LogInv, PipeInv, TrigInv, Next PROVE TrigInv'
<1>1. clock \in Nat /\ hand \in [Updates -> Hands] /\ stage \in [Updates -> Stages] /\ time \in [Updates -> Nat]
  BY DEF LogInv, LogType
<1>2. phase = "serving" => pass.at = "replayed"
  BY DEF TrigInv, ReplayInv
<1>3. \A u \in Updates : hand[u] = "none" <=> stage[u] # "persisted"
  BY DEF LogInv, UpdateInv
<1>4. CASE Start
  BY <1>1, <1>4, TrigWaits DEF Start, LogStart
<1>5. CASE Listen
  BY <1>5, ListenKeepsTrig
<1>6. CASE ReplayNative \/ ReplayOpenEO
  BY <1>6, ReplayNativeKeepsTrig, ReplayOpenEOKeepsTrig
<1>7. CASE Serve
  <2>1. /\ phase = "replaying" /\ pass.at = "replayed" /\ phase' = "serving"
        /\ UNCHANGED <<clock, starts, stage, created, time, hand, pass, trig>>
    BY <1>7 DEF Serve, pipe
  <2>2. TrigType' /\ (\A p \in Pairs : claims'[p] = IF jobs'[p] = "started" THEN 1 ELSE 0)
    BY <2>1 DEF TrigInv, TrigType, trig
  <2>3. \A t \in Triggers, u \in Updates : (Pending(<<t, u>>)' <=> Pending(<<t, u>>)) /\ (Met(t, u) => Met(t, u)')
    BY <2>1 DEF Pending, Met, trig
  <2>4. \A t \in Triggers : ActivationInv(t)'
    BY <2>1, <2>3, ActivationKept DEF Known, trig
  <2>5. \A c \in Consumers : ConsumerInv(c)'
    BY <2>1 DEF TrigInv, ConsumerInv, trig
  <2>6. ReplayInv'
    BY <2>1, <2>3 DEF TrigInv, TrigType, ReplayInv, Persisted, trig
  <2> QED BY <2>2, <2>4, <2>5, <2>6 DEF TrigInv
<1>8. CASE Stop
  BY <1>1, <1>8, TrigWaits DEF Stop, LogStop
<1>9. CASE Crash
  BY <1>9, CrashKeepsTrig DEF Crash
<1>10. CASE UNCHANGED <<phase, trig, pass>> /\ clock' \in Nat /\ clock' >= clock
            /\ \A u \in Updates :
                  \/ stage'[u] = stage[u] /\ time'[u] = time[u]
                     /\ (hand'[u] = hand[u] \/ (hand[u] = "pipelines" /\ hand'[u] = "done"))
                  \/ stage[u] # "persisted" /\ hand'[u] = "triggers"
                  \/ stage[u] # "persisted" /\ stage'[u] # "persisted" /\ hand'[u] = hand[u]
  <2>1. \A u \in Updates : /\ hand[u] = "done" => hand'[u] = "done" /\ time'[u] = time[u]
                           /\ hand'[u] \in {"none", "triggers"} => hand[u] \in {"none", "triggers"}
    BY <1>3, <1>10
  <2>2. \A u \in Updates : stage'[u] = "persisted" =>
            hand'[u] = "triggers" \/ (stage[u] = "persisted" /\ time'[u] = time[u] /\ hand[u] # "triggers")
    BY <1>10
  <2>3. phase' = "serving" => pass'.at = "replayed"
    BY <1>2, <1>10
  <2> QED BY <1>10, <2>1, <2>2, <2>3, TrigWaits
<1>11. CASE JobsAndTime
  <2>1. Tick /\ UNCHANGED <<pipe, trig>> => TrigInv'
    BY <1>1, <1>10 DEF Tick, pipe
  <2>2. ASSUME NEW u \in Updates, OpenJob(u), UNCHANGED <<pipe, trig>> PROVE TrigInv'
    BY <1>1, <1>10, <2>2 DEF OpenJob, pipe
  <2> QED BY <1>11, <2>1, <2>2 DEF JobsAndTime
<1>12. CASE JobsFinish
  <2>1. ASSUME NEW u \in Updates, Stamp(u), UNCHANGED <<pipe, trig>> PROVE TrigInv'
    BY <1>1, <1>10, <2>1 DEF Stamp, pipe
  <2>2. ASSUME NEW u \in Updates, Persist(u), UNCHANGED <<pipe, trig>> PROVE TrigInv'
    BY <1>1, <1>10, <2>2 DEF Persist, pipe
  <2>3. ASSUME NEW u \in Updates, NotConsumed(u), UNCHANGED <<pipe, trig>> PROVE TrigInv'
    <3>1. phase' \notin {"replaying", "serving"}
      BY <2>3 DEF NotConsumed, Listening
    <3> QED BY <1>1, <2>3, <3>1, TrigWaits DEF NotConsumed
  <2> QED BY <1>12, <2>1, <2>2, <2>3 DEF JobsFinish
<1>13. CASE Operator
  <2>1. UNCHANGED <<log, pass, trig>>
    BY <1>13 DEF Operator, EditStep, Revalidate, Edit
  <2> QED BY <1>1, <1>10, <2>1 DEF log
<1>14. CASE Pipeline
  <2>1. /\ UNCHANGED <<clock, phase, starts, stage, created, time, trig>>
        /\ hand' = hand \/ \E u \in Updates : phase # "down" /\ hand[u] = "pipelines" /\ hand' = [hand EXCEPT ![u] = "done"]
    BY <1>14, PipelineLeavesLog
  <2>2. \A u \in Updates : hand'[u] = hand[u] \/ (hand[u] = "pipelines" /\ hand'[u] = "done")
    BY <1>1, <2>1
  <2>3. CASE phase = "listening"
    BY <1>1, <2>1, <2>2, <2>3, TrigWaits
  <2>4. CASE phase # "listening"
    BY <1>1, <1>10, <1>14, <2>1, <2>2, <2>4, PassOnlyListening
  <2> QED BY <2>3, <2>4
<1>15. CASE Automation
  BY <1>15, AutomationKeepsTrig
<1> QED BY <1>4, <1>5, <1>6, <1>7, <1>8, <1>9, <1>11, <1>12, <1>13, <1>14, <1>15 DEF Next

-----------------------------------------------------------------------------
(* What the updates' two consumers know of the log, and the log of itself,  *)
(* in every state.                                                         *)
THEOREM FlowHolds == Spec => []FlowInv
<1>1. Init => FlowInv
  BY LogStarts, PipeStarts, TrigStarts, LogAssumption, PipelineAssumption DEF FlowInv
<1>2. FlowInv /\ [Next]_vars => FlowInv'
  <2>1. SUFFICES ASSUME FlowInv, [Next]_vars PROVE FlowInv'
    OBVIOUS
  <2>2. CASE Next
    BY <2>1, <2>2, LogKept, PipeKept, TrigKept, LogAssumption, PipelineAssumption, TriggerAssumption, FlowAssumption
       DEF FlowInv
  <2>3. CASE UNCHANGED vars
    <3>1. UNCHANGED log /\ UNCHANGED pipe /\ UNCHANGED trig
      BY <2>3 DEF vars
    <3>2. LogInv'
      BY <2>1, <3>1 DEF FlowInv, LogInv, LogType, ClockInv, UpdateInv, log
    <3>3. PipeInv'
      BY <2>1, <3>1, PipeFrame DEF FlowInv, LogInv, LogType, log
    <3>4. TrigInv'
      <4>1. TrigType' /\ (\A p \in Pairs : claims'[p] = IF jobs'[p] = "started" THEN 1 ELSE 0)
        BY <2>1, <3>1 DEF FlowInv, TrigInv, TrigType, trig
      <4>2. \A t \in Triggers, u \in Updates : (Pending(<<t, u>>)' <=> Pending(<<t, u>>)) /\ (Met(t, u) => Met(t, u)')
        BY <3>1 DEF Pending, Met, trig, log
      <4>3. \A t \in Triggers : ActivationInv(t)'
        BY <2>1, <3>1, <4>2, ActivationKept DEF FlowInv, Known, trig, log
      <4>4. \A c \in Consumers : ConsumerInv(c)'
        BY <2>1, <3>1 DEF FlowInv, TrigInv, ConsumerInv, trig, log
      <4>5. ReplayInv'
        BY <2>1, <3>1, <4>2 DEF FlowInv, TrigInv, TrigType, ReplayInv, Persisted, trig, log, pipe
      <4> QED BY <4>1, <4>3, <4>4, <4>5 DEF TrigInv
    <3> QED BY <3>2, <3>3, <3>4 DEF FlowInv
  <2> QED BY <2>1, <2>2, <2>3
<1> QED BY <1>1, <1>2, PTL DEF Spec

(* The log, the pipeline and the triggers hold what the code stores in     *)
(* them, within the bounds.                                                *)
THEOREM FlowTypes == Spec => []TypeOK
<1>1. FlowInv => TypeOK
  <2>1. SUFFICES ASSUME FlowInv PROVE TypeOK
    OBVIOUS
  <2>2. clock \in Nat /\ starts \in Nat /\ MaxClock \in Nat /\ MaxStarts \in Nat /\ clock <= MaxClock + MaxStarts
    BY <2>1, LogAssumption DEF FlowInv, LogInv, LogType, ClockInv, LogAssumption
  <2>3. PipeTypeOK
    <3>1. record \in Records /\ task \in [Deciders -> Tasks] /\ RecordInv
      BY <2>1 DEF FlowInv, PipeInv, PipeType
    <3>2. record.since \in Nat /\ record.through \in Nat /\ record.since <= record.through /\ record.through <= clock
      BY <3>1 DEF Records, RecordInv
    <3>3. {record.since, record.through} \subseteq 0..(MaxClock + MaxStarts)
      BY <2>2, <3>2
    <3>4. \A i \in 1..Len(record.runs) : record.runs[i].event \in Updates
      <4>1. record.runs \in Seq(Runs)
        BY <3>1 DEF Records
      <4>2. \A i \in 1..Len(record.runs) : record.runs[i] \in Runs
        BY <4>1
      <4> QED BY <4>2 DEF Runs
    <3>5. \A d \in Deciders : task[d].at \in {"idle", "run", "prepared", "skip", "list", "defer"}
      BY <3>1 DEF Tasks, Idle
    <3> QED BY <3>1, <3>3, <3>4, <3>5 DEF PipeTypeOK, RecordInv, Records
  <2>4. TrigTypeOK
    <3>1. TrigType /\ (\A t \in Triggers : ActivationInv(t)) /\ \A c \in Consumers : ConsumerInv(c)
      BY <2>1 DEF FlowInv, TrigInv
    <3>2. activation \in [Triggers -> 0..(MaxClock + MaxStarts)]
      <4>1. \A t \in Triggers : activation[t] \in Nat /\ activation[t] <= clock
        BY <3>1 DEF TrigType, ActivationInv
      <4>2. \A t \in Triggers : activation[t] \in 0..(MaxClock + MaxStarts)
        BY <2>2, <4>1
      <4> QED BY <3>1, <4>2 DEF TrigType
    <3>3. ASSUME NEW c \in Consumers PROVE submitting[c] \subseteq Pairs /\ Cardinality(found[c]) <= 1
      <4>1. found[c] = {} \/ \E p \in found[c] : found[c] = {p}
        BY <3>1 DEF ConsumerInv
      <4>2. Cardinality({}) = 0 /\ \A p \in found[c] : Cardinality({p}) = 1
        BY FS_EmptySet, FS_Singleton
      <4>3. Cardinality(found[c]) <= 1
        BY <4>1, <4>2
      <4>4. submitting \in [Consumers -> SUBSET Pairs]
        BY <3>1 DEF TrigType
      <4> QED BY <4>3, <4>4
    <3> QED BY <3>1, <3>2, <3>3 DEF TrigTypeOK, TrigType
  <2> QED BY <2>3, <2>4 DEF TypeOK
<1> QED BY <1>1, FlowHolds, PTL

(* No update is run twice by the pipeline nor started twice by a trigger,   *)
(* and a trigger leaves alone what was stored before its first start.      *)
THEOREM UpdatesAreDecidedOnce == Spec => []DecidedOnce
<1>1. FlowInv => DecidedOnce
  <2>1. SUFFICES ASSUME FlowInv PROVE DecidedOnce
    OBVIOUS
  <2>2. OneRunPerUpdate
    BY <2>1 DEF FlowInv, PipeInv
  <2>3. StartedOnce
    BY <2>1 DEF FlowInv, TrigInv, StartedOnce
  <2>4. HistoryLeftAlone
    BY <2>1 DEF FlowInv, TrigInv, ActivationInv, HistoryLeftAlone
  <2> QED BY <2>2, <2>3, <2>4 DEF DecidedOnce
<1> QED BY <1>1, FlowHolds, PTL

(* No update is passed over: not by the checkpoint of the pipeline, though *)
(* jobs store their updates while the log is read and later than they stamp *)
(* them, and not by the replay of the triggers.                            *)
THEOREM UpdatesAreNotMissed == Spec => []NothingMissed
<1>1. FlowInv => NothingMissed
  <2>1. SUFFICES ASSUME FlowInv PROVE NothingMissed
    OBVIOUS
  <2>2. NoUpdateLost
    BY <2>1 DEF FlowInv, PipeInv
  <2>3. NoUpdateMissed
    <3>1. ASSUME phase = "serving", NEW t \in configured, NEW u \in Persisted \cap OnUpdateOf[t] PROVE Met(t, u)
      BY <2>1, <3>1 DEF FlowInv, TrigInv, ReplayInv
    <3> QED BY <3>1 DEF NoUpdateMissed, Met, Pending
  <2> QED BY <2>2, <2>3 DEF NothingMissed
<1> QED BY <1>1, FlowHolds, PTL

(* A run recorded is one the pipeline would still decide at that moment: a  *)
(* decision prepared before a pause, an edit or going live is refused.     *)
THEOREM RunsStayCurrent == Spec => RunsAreCurrent
<1> DEFINE Current == Len(record'.runs) > Len(record.runs) =>
                          LET run == Head(record'.runs) IN
                          /\ Automates(record) /\ time[run.event] >= record.since
                          /\ run.workflow = record.workflow /\ run.mode = record.mode
<1>1. FlowInv /\ [Next]_vars => [Current]_<<record>>
  <2>1. SUFFICES ASSUME FlowInv, Next PROVE record' = record \/ Current
    BY DEF vars, pipe
  <2>2. record \in Records /\ Len(record.runs) \in Nat
    <3>1. record \in Records
      BY <2>1 DEF FlowInv, PipeInv, PipeType
    <3>2. record.runs \in Seq(Runs)
      BY <3>1 DEF Records
    <3> QED BY <3>1, <3>2
  <2>3. record'.runs = record.runs => Current
    BY <2>2
  <2>4. ASSUME NEW d \in Deciders, RecordIntent(d) PROVE record' = record \/ Current
    <3>1. /\ task[d].at = "prepared" /\ LogStill /\ UNCHANGED <<edits, faults>>
      BY <2>4 DEF RecordIntent, At, LogStill, log
    <3>2. PICK u \in Updates : u = task[d].event
      BY <2>1, <3>1, AtTask DEF FlowInv
    <3>3. CASE record' = record
      BY <3>3
    <3>4. CASE /\ ~RanFor(record, u) /\ ~Decided(record, u) /\ ~RevisionMoved(d)
               /\ record' = [record EXCEPT !.runs = <<[event |-> u, mode |-> task[d].mode, workflow |-> task[d].workflow]>> \o @,
                                           !.handled = @ \cup {u}]
      <4>1. Automates(record) /\ Head(record'.runs) = [event |-> u, mode |-> record.mode, workflow |-> record.workflow]
        BY <2>1, <3>1, <3>2, <3>4, RunRecorded, PipelineAssumption DEF FlowInv
      <4>2. time[u] \in Nat /\ record.since \in Nat /\ record.through \in Nat
        BY <2>1, <2>2 DEF FlowInv, LogInv, LogType, Records
      <4>3. record.since <= record.through /\ record.since # Never
        BY <2>1, <4>1 DEF FlowInv, PipeInv, RecordInv
      <4>4. time[u] >= record.since
        BY <3>4, <4>2, <4>3 DEF Decided, Never
      <4> QED BY <4>1, <4>4
    <3> QED BY <2>4, <3>2, <3>3, <3>4 DEF RecordIntent, Existing
  <2>5. ASSUME NEW d \in Deciders, Skip(d) \/ Defer(d) PROVE record'.runs = record.runs
    <3>1. CASE Skip(d)
      BY <2>2, <3>1 DEF Skip, Records
    <3>2. CASE Defer(d)
      BY <2>2, <3>2 DEF Defer, Records
    <3> QED BY <2>5, <3>1, <3>2
  <2>6. ASSUME NEW d \in Deciders, Prepare(d) PROVE record' = record
    BY <2>6 DEF Prepare
  <2>7. CASE PassStep
    <3>1. AdvanceCheckpoint => record'.runs = record.runs
      BY <2>2 DEF AdvanceCheckpoint, Records
    <3> QED BY <2>3, <2>7, <3>1 DEF PassStep, ScanStart, ListRecords, ReadNativeLog, ReadOpenEOLog, DecideNext
  <2>8. ASSUME NEW u \in Updates, Consume(u) PROVE record' = record
    BY <2>8 DEF Consume
  <2>9. CASE Operator
    <3>1. ASSUME NEW mode \in Modes, NEW workflow \in Workflows, Edit(mode, workflow) PROVE record'.runs = record.runs
      BY <2>1, <3>1, EditedRecord DEF FlowInv, Edit
    <3>2. Revalidate => record'.runs = record.runs
      BY <2>2 DEF Revalidate, Records
    <3> QED BY <2>3, <2>9, <3>1, <3>2 DEF Operator, EditStep
  <2>10. CASE Crash
    BY <2>10 DEF Crash, PipeCrash
  <2>11. CASE ReplayOpenEO
    BY <2>11 DEF ReplayOpenEO
  <2>12. CASE UNCHANGED pipe
    BY <2>12 DEF pipe
  <2>13. CASE Pipeline
    BY <2>3, <2>4, <2>5, <2>6, <2>7, <2>8, <2>13 DEF Pipeline, DecideStep
  <2> QED BY <2>1, <2>9, <2>10, <2>11, <2>12, <2>13
          DEF Next, Start, Listen, ReplayNative, Serve, Stop, JobsAndTime, JobsFinish, Automation
<1> QED BY <1>1, FlowHolds, PTL DEF Spec, RunsAreCurrent

=============================================================================
