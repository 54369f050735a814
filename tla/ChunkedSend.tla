---------------------------- MODULE ChunkedSend ----------------------------
(***************************************************************************)
(* One delivery job sending its payload to DHIS2 in chunks                 *)
(* (exports/dhis2_renderer.py send, exports/delivery.py                    *)
(* JobDeliveryContext), with the native job that runs it: started, asked   *)
(* to cancel, killed at any step and started again with the checkpoints    *)
(* it left.                                                                *)
(*                                                                         *)
(* A POST may be answered, accepted for a later import, fail before it     *)
(* left, or fail after it may have arrived; nothing tells the last two     *)
(* sides of a timeout apart.  So the intent is stored before the POST, and *)
(* a stored intent is never sent again.                                    *)
(***************************************************************************)
EXTENDS Naturals

CONSTANTS
    N,             \* chunks of the payload
    MaxRestarts,   \* bound: process restarts
    MaxBroken      \* bound: checkpoint writes that fail

ASSUME ChunkAssumption == N \in Nat \ {0} /\ MaxRestarts \in Nat /\ MaxBroken \in Nat

Chunks == 1..N

VARIABLES
    status,       \* of the delivery job
    report,       \* the outcome in its stored report
    asked,        \* cancel_requested
    checkpoint,   \* of each chunk, in the job's cursor
    pc,           \* the worker
    chunk,        \* the chunk it is at
    answer,       \* the outcome it is about to checkpoint
    reports,      \* chunk reports of this attempt, in its memory
    reached,      \* POSTs of a chunk that reached DHIS2
    import,       \* what DHIS2 made of it
    restarts, broken   \* so far (bounds)

sendVars == <<status, report, asked, checkpoint, pc, chunk, answer, reports, reached, import, restarts, broken>>

dhis2 == <<reached, import>>
sendBounds == <<restarts, broken>>
jobVars == <<status, report, asked>>
workerVars == <<pc, chunk, answer, reports>>

Final    == {"clean", "mixed", "refused"}
Imports  == Final \cup {"none", "queued"}
Outcomes == {"success", "partial", "rejected", "unknown"}
Ended    == {"successful", "failed", "cancelled"}

\* build_dhis2_report: the summary decides; one it cannot read proves nothing.
Reported(result) ==
    {"unknown", CASE result = "clean" -> "success"
                  [] result = "mixed" -> "partial"
                  [] result = "refused" -> "rejected"}

NoCheckpoint == [state |-> "none", outcome |-> "none"]
\* A task is known: the import can be asked after.
Intent    == [state |-> "intent", outcome |-> "unknown"]
Task      == [state |-> "task", outcome |-> "unknown"]

SendInit ==
    /\ status = "accepted" /\ report = "none" /\ asked = FALSE
    /\ checkpoint = [c \in Chunks |-> NoCheckpoint]
    /\ pc = "idle" /\ chunk = 1 /\ answer = "none"
    /\ reports = [c \in Chunks |-> "none"]
    /\ reached = [c \in Chunks |-> 0]
    /\ import = [c \in Chunks |-> "none"]
    /\ restarts = 0 /\ broken = 0

-----------------------------------------------------------------------------
(* The job.                                                                 *)

\* deliver_named_export: the lease and the manifest are checked at every start.
Begin ==
    /\ status = "accepted" /\ ~asked /\ pc = "idle"
    /\ status' = "running" /\ pc' = "next" /\ chunk' = 1
    /\ reports' = [c \in Chunks |-> "none"]
    /\ UNCHANGED <<report, asked, checkpoint, answer, dhis2, sendBounds>>

\* The source changed or is busy, the export is busy, or the cursor is unreadable.
Refuse ==
    /\ status = "accepted" /\ ~asked /\ pc = "idle"
    /\ status' = "failed"
    /\ UNCHANGED <<report, asked, checkpoint, workerVars, dhis2, sendBounds>>

RequestCancel ==
    /\ status \in {"accepted", "running"} /\ ~asked
    /\ asked' = TRUE
    /\ status' = IF status = "accepted" THEN "cancelled" ELSE status
    /\ UNCHANGED <<report, checkpoint, workerVars, dhis2, sendBounds>>

\* Mutant: recovery requeues a job whose worker is still at a chunk.
RestartAlive ==
    /\ status = "running" /\ restarts < MaxRestarts
    /\ restarts' = restarts + 1
    /\ status' = IF asked THEN "cancelled" ELSE "accepted"
    /\ UNCHANGED <<report, asked, checkpoint, workerVars, dhis2, broken>>

\* The process dies; recovery requeues the job, or ends it when asked to cancel.
Restart ==
    /\ status = "running" /\ restarts < MaxRestarts
    /\ restarts' = restarts + 1
    /\ status' = IF asked THEN "cancelled" ELSE "accepted"
    /\ pc' = "idle"
    /\ UNCHANGED <<report, asked, checkpoint, chunk, answer, reports, dhis2, broken>>

-----------------------------------------------------------------------------
(* The worker: send, chunk by chunk.                                        *)

Goto(place) == pc' = place

\* Between chunks only.
Stop ==
    /\ pc = "next" /\ (chunk > N \/ asked)
    /\ Goto("merge")
    /\ UNCHANGED <<jobVars, checkpoint, chunk, answer, reports, dhis2, sendBounds>>

\* A rejected chunk is a hard stop.
Note(outcome) ==
    /\ reports' = [reports EXCEPT ![chunk] = outcome]
    /\ IF outcome = "rejected" THEN Goto("merge") /\ UNCHANGED chunk
                               ELSE Goto("next") /\ chunk' = chunk + 1

AtChunk(place) == pc = place /\ chunk \in Chunks

\* Mutant: an intent that has no answer is taken for a chunk to send.
FreshUnanswered == checkpoint[chunk].state \in {"none", "unsent", "intent"}

\* A failed attempt that reached nothing may be made again.
Fresh == checkpoint[chunk].state \in {"none", "unsent"}

Skip ==
    /\ AtChunk("next") /\ ~asked /\ ~Fresh /\ checkpoint[chunk].state \in {"done", "intent"}
    /\ Note(checkpoint[chunk].outcome)
    /\ UNCHANGED <<jobVars, checkpoint, answer, dhis2, sendBounds>>

Resume ==
    /\ AtChunk("next") /\ ~asked /\ checkpoint[chunk].state = "task"
    /\ Goto("poll")
    /\ UNCHANGED <<jobVars, checkpoint, chunk, answer, reports, dhis2, sendBounds>>

SaveIntent ==
    /\ AtChunk("next") /\ ~asked /\ Fresh
    /\ checkpoint' = [checkpoint EXCEPT ![chunk] = Intent]
    /\ Goto("post")
    /\ UNCHANGED <<jobVars, chunk, answer, reports, dhis2, sendBounds>>

Reach(result) ==
    /\ reached' = [reached EXCEPT ![chunk] = @ + 1]
    /\ import' = [import EXCEPT ![chunk] = result]

Got(outcome) == answer' = outcome /\ Goto("save")

\* The connection failed before anything was sent.
PostUnsent ==
    /\ AtChunk("post")
    /\ Got("unsent")
    /\ UNCHANGED <<jobVars, checkpoint, chunk, reports, dhis2, sendBounds>>

\* A timeout: it arrived or it did not.
PostLost ==
    /\ AtChunk("post")
    /\ Got("unknown")
    /\ UNCHANGED dhis2 \/ \E result \in Imports \ {"none"} : Reach(result)
    /\ UNCHANGED <<jobVars, checkpoint, chunk, reports, sendBounds>>

\* A summary, an error that carries one, or an answer that says nothing.
PostAnswered ==
    /\ AtChunk("post")
    /\ \E result \in Final : Reach(result) /\ \E outcome \in Reported(result) : Got(outcome)
    /\ UNCHANGED <<jobVars, checkpoint, chunk, reports, sendBounds>>

\* Accepted for a later import, with a task to ask after or without.
PostAccepted ==
    /\ AtChunk("post")
    /\ Reach("queued")
    /\ Got("unknown") \/ (Goto("accepted") /\ UNCHANGED answer)
    /\ UNCHANGED <<jobVars, checkpoint, chunk, reports, sendBounds>>

SaveTask ==
    /\ AtChunk("accepted")
    /\ checkpoint' = [checkpoint EXCEPT ![chunk] = Task]
    /\ Goto("poll")
    /\ UNCHANGED <<jobVars, chunk, answer, reports, dhis2, sendBounds>>

\* Mutant: a task is polled until it ends.
PollTaskForever ==
    /\ AtChunk("poll")
    /\ import[chunk] \in Final
    /\ \E outcome \in Reported(import[chunk]) :
          IF outcome = "unknown" THEN Got("task") ELSE Got(outcome)
    /\ UNCHANGED <<jobVars, checkpoint, chunk, reports, dhis2, sendBounds>>

\* The task ended; or the polls ran out, or a cancellation ended them.
PollTask ==
    /\ AtChunk("poll")
    /\ \/ /\ import[chunk] \in Final
          /\ \E outcome \in Reported(import[chunk]) :
                IF outcome = "unknown" THEN Got("task") ELSE Got(outcome)
       \/ Got("task")
    /\ UNCHANGED <<jobVars, checkpoint, chunk, reports, dhis2, sendBounds>>

Saved ==
    CASE answer = "task"    -> Task
      [] answer = "unsent"  -> [state |-> "unsent", outcome |-> "rejected"]
      [] answer = "unknown" -> Intent
      [] OTHER              -> [state |-> "done", outcome |-> answer]

SaveAnswer ==
    /\ AtChunk("save")
    /\ checkpoint' = [checkpoint EXCEPT ![chunk] = Saved]
    /\ Note(Saved.outcome)
    /\ UNCHANGED <<jobVars, answer, dhis2, sendBounds>>

\* save_checkpoint raises: the job fails, and is not tried again.
SaveFails ==
    /\ pc \in {"accepted", "save"} \/ (AtChunk("next") /\ ~asked /\ Fresh)
    /\ broken < MaxBroken
    /\ broken' = broken + 1
    /\ status' = "failed" /\ Goto("idle")
    /\ UNCHANGED <<report, asked, checkpoint, chunk, answer, reports, dhis2, restarts>>

\* Mutant: a clean first report decides, whatever the others say.
MergedFirst(early) == IF reports[1] = "success" THEN "success" ELSE "unknown"

\* merge_chunk_reports, by precedence.
Merged(early) ==
    LET said == {reports[c] : c \in Chunks} IN
    IF "rejected" \in said THEN "rejected"
    ELSE IF "unknown" \in said THEN "unknown"
    ELSE IF early THEN "cancelled"
    ELSE IF "partial" \in said THEN "partial" ELSE "success"

\* The early stop is the only way to merge at a chunk with no report.
Merge ==
    /\ pc = "merge"
    /\ report' = Merged(chunk \in Chunks /\ reports[chunk] = "none")
    /\ status' = IF report' = "cancelled" THEN "cancelled" ELSE "successful"
    /\ Goto("idle")
    /\ UNCHANGED <<asked, checkpoint, chunk, answer, reports, dhis2, sendBounds>>

-----------------------------------------------------------------------------
(* DHIS2 ends a queued import by itself.                                    *)
Imported(c) ==
    /\ import[c] = "queued"
    /\ \E result \in Final : import' = [import EXCEPT ![c] = result]
    /\ UNCHANGED <<jobVars, checkpoint, workerVars, reached, sendBounds>>

Post == PostUnsent \/ PostLost \/ PostAnswered \/ PostAccepted

Worker ==
    \/ Begin \/ Stop \/ Skip \/ Resume \/ SaveIntent \/ Post
    \/ SaveTask \/ PollTask \/ SaveAnswer \/ Merge

Environment ==
    \/ Refuse \/ RequestCancel \/ Restart \/ SaveFails
    \/ \E c \in Chunks : Imported(c)

SendNext == Worker \/ Environment

SendSpec == SendInit /\ [][SendNext]_sendVars

(* The executor runs the job and every call it makes is bounded in time     *)
(* (requests time out, polls are counted); DHIS2 owes nothing.              *)
SendFairness == WF_sendVars(Worker)

-----------------------------------------------------------------------------
(* Types, and where a chunk stands between its checkpoint and the worker.   *)
Checkpoints ==
    [state : {"none", "intent", "task", "unsent", "done"},
     outcome : Outcomes \cup {"none"}]

SendTypeOK ==
    /\ status \in Ended \cup {"accepted", "running"}
    /\ report \in Outcomes \cup {"none", "cancelled"} /\ asked \in BOOLEAN
    /\ checkpoint \in [Chunks -> Checkpoints]
    /\ pc \in {"idle", "next", "post", "accepted", "poll", "save", "merge"}
    /\ chunk \in 1..(N + 1)
    /\ answer \in Outcomes \cup {"none", "unsent", "task"}
    /\ reports \in [Chunks -> Outcomes \cup {"none"}]
    /\ reached \in [Chunks -> Nat] /\ import \in [Chunks -> Imports]
    /\ restarts \in 0..MaxRestarts /\ broken \in 0..MaxBroken
    /\ pc # "idle" <=> status = "running"
    /\ (report # "none") => status \in Ended

(* Abstracted to its chunks, what DHIS2 took and the job's report, the       *)
(* sending does what ImportLedger promises: through restarts, timeouts,      *)
(* unreadable answers and failed checkpoint writes no chunk is sent again    *)
(* that may have arrived, and only a payload taken whole is reported a       *)
(* success (dhis2_renderer.py:375-381).                                      *)
Ledger == INSTANCE ImportLedger WITH
    handed  <- reached,
    taken   <- {c \in Chunks : import[c] = "clean"},
    verdict <- IF status \notin Ended THEN "none"
               ELSE IF report = "success" THEN "delivered" ELSE "unconfirmed"

SendsOnce == Ledger!Spec

(* The delivery ends, whatever DHIS2 answers or fails to answer, once the    *)
(* process stays up: an import that never ends is given up as unknown.       *)
EverySendEnds == (status = "running") ~> (status \in Ended)
=============================================================================
