-------------------------- MODULE ChunkedSendProofs --------------------------
(***************************************************************************)
(* Sending a payload in chunks keeps the ledger of imports, for any number *)
(* of chunks, restarts and failing checkpoint writes.                      *)
(*                                                                         *)
(* Why it does: a chunk whose checkpoint says it may be sent has not       *)
(* reached DHIS2, because the intent is stored first and only a POST that  *)
(* is known not to have left takes it back; what is called a success, in a *)
(* checkpoint, in an answer or in a report, was imported without a         *)
(* complaint; and a merge that is not early looks at a report of every     *)
(* chunk.                                                                  *)
(***************************************************************************)
EXTENDS ChunkedSend, TLAPS

AtWork == {"post", "accepted", "poll", "save"}

(* DHIS2 has a chunk once, and has nothing of one it was not handed. *)
HandedInv ==
    \A c \in Chunks :
        /\ reached[c] \in {0, 1}
        /\ reached[c] = 0 <=> import[c] = "none"
        /\ checkpoint[c].state \in {"none", "unsent"} => reached[c] = 0

(* The worker at a chunk: its intent is stored, and it knows what it knows. *)
WorkerInv ==
    /\ pc \in AtWork => chunk \in Chunks
    /\ pc = "post" => reached[chunk] = 0 /\ checkpoint[chunk].state = "intent"
    /\ pc = "save" => answer \in Outcomes \cup {"unsent", "task"}
    /\ pc = "save" /\ answer = "unsent" => reached[chunk] = 0
    /\ pc = "save" /\ answer = "success" => import[chunk] = "clean"

(* A success was one, wherever it is written. *)
SuccessInv ==
    \A c \in Chunks :
        /\ checkpoint[c].state \in {"intent", "done"} => checkpoint[c].outcome \in Outcomes
        /\ checkpoint[c].outcome = "success" => import[c] = "clean"
        /\ reports[c] = "success" => import[c] = "clean"

(* The chunks before the worker's have a report, those from it on have not, *)
(* but for a rejected one the worker stopped at.                            *)
ReportInv ==
    /\ pc # "idle" =>
          /\ \A c \in Chunks : c < chunk => reports[c] # "none"
          /\ \A c \in Chunks : c > chunk => reports[c] = "none"
    /\ pc \in AtWork \cup {"next"} /\ chunk \in Chunks => reports[chunk] = "none"
    /\ pc = "merge" /\ chunk \in Chunks => reports[chunk] \in {"none", "rejected"}

SendInv == SendTypeOK /\ HandedInv /\ WorkerInv /\ SuccessInv /\ ReportInv

-----------------------------------------------------------------------------
(* Helpers. *)

LEMMA ChunkFacts ==
    /\ chunk \in 1..(N + 1) /\ chunk \notin Chunks => chunk = N + 1
    /\ \A c \in Chunks : c \in Nat /\ c \in 1..(N + 1) /\ c + 1 \in 1..(N + 1)
    /\ 1 \in 1..(N + 1) /\ 1 \in Chunks
BY ChunkAssumption DEF Chunks

LEMMA ReportedFacts ==
    ASSUME NEW result \in Final, NEW outcome \in Reported(result)
    PROVE  outcome \in Outcomes /\ (outcome = "success" => result = "clean")
BY DEF Reported, Final, Outcomes

LEMMA CheckpointTypes ==
    /\ NoCheckpoint \in Checkpoints /\ Intent \in Checkpoints /\ Task \in Checkpoints
    /\ Intent.state = "intent" /\ Intent.outcome = "unknown" /\ Task.state = "task" /\ Task.outcome = "unknown"
    /\ NoCheckpoint.state = "none" /\ NoCheckpoint.outcome = "none"
BY DEF NoCheckpoint, Intent, Task, Checkpoints, Outcomes

LEMMA SavedFacts ==
    ASSUME answer \in Outcomes \cup {"unsent", "task"}
    PROVE  /\ Saved \in Checkpoints /\ Saved.outcome \in Outcomes
           /\ Saved.outcome = "success" => answer = "success"
           /\ Saved.state \in {"none", "unsent"} => answer = "unsent"
BY DEF Saved, Intent, Task, Checkpoints, Outcomes

LEMMA SendInitInv == SendInit => SendInv
<1> SUFFICES ASSUME SendInit PROVE SendInv
  OBVIOUS
<1>1. SendTypeOK
  <2>1. 0 \in 0..MaxRestarts /\ 0 \in 0..MaxBroken /\ chunk \in 1..(N + 1)
    BY ChunkAssumption DEF SendInit
  <2>2. /\ checkpoint \in [Chunks -> Checkpoints] /\ reports \in [Chunks -> Outcomes \cup {"none"}]
        /\ reached \in [Chunks -> Nat] /\ import \in [Chunks -> Imports]
    BY CheckpointTypes DEF SendInit, Imports
  <2> QED BY <2>1, <2>2 DEF SendInit, SendTypeOK, Ended
<1>2. HandedInv /\ WorkerInv /\ SuccessInv /\ ReportInv
  BY CheckpointTypes DEF SendInit, HandedInv, WorkerInv, SuccessInv, ReportInv, AtWork
<1> QED BY <1>1, <1>2 DEF SendInv

-----------------------------------------------------------------------------
(* The job. *)

LEMMA BeginStep == ASSUME SendInv, Begin PROVE SendInv'
<1> USE DEF Begin, dhis2, sendBounds, SendInv
<1>1. SendTypeOK'
  BY ChunkAssumption DEF SendTypeOK, Chunks, Ended
<1>2. HandedInv' /\ WorkerInv' /\ SuccessInv'
  BY DEF HandedInv, WorkerInv, SuccessInv, AtWork
<1>3. ReportInv'
  BY ChunkAssumption DEF ReportInv, AtWork, Chunks
<1> QED BY <1>1, <1>2, <1>3

LEMMA JobStep == ASSUME SendInv, Refuse \/ RequestCancel \/ Restart PROVE SendInv'
<1>1. UNCHANGED <<report, checkpoint, chunk, answer, reports, reached, import, broken>>
  BY DEF Refuse, RequestCancel, Restart, workerVars, dhis2, sendBounds
<1>2. pc' \in {pc, "idle"}
  BY DEF Refuse, RequestCancel, Restart, workerVars
<1>3. SendTypeOK'
  <2>1. CASE Refuse
    BY <2>1 DEF SendInv, SendTypeOK, Refuse, workerVars, dhis2, sendBounds, Ended
  <2>2. CASE RequestCancel
    BY <2>2 DEF SendInv, SendTypeOK, RequestCancel, workerVars, dhis2, sendBounds, Ended
  <2>3. CASE Restart
    BY <2>3, ChunkAssumption DEF SendInv, SendTypeOK, Restart, dhis2, Ended
  <2> QED BY <2>1, <2>2, <2>3
<1>4. HandedInv' /\ WorkerInv' /\ SuccessInv' /\ ReportInv'
  BY <1>1, <1>2 DEF SendInv, HandedInv, WorkerInv, SuccessInv, ReportInv, AtWork
<1> QED BY <1>3, <1>4 DEF SendInv
-----------------------------------------------------------------------------
(* The worker between two chunks. *)

LEMMA StopStep == ASSUME SendInv, Stop PROVE SendInv'
<1>1. /\ pc = "next" /\ pc' = "merge"
      /\ UNCHANGED <<status, report, asked, checkpoint, chunk, answer, reports, reached, import, restarts, broken>>
  BY DEF Stop, Goto, jobVars, dhis2, sendBounds
<1>2. SendTypeOK'
  BY <1>1 DEF SendInv, SendTypeOK
<1>3. HandedInv' /\ WorkerInv' /\ SuccessInv' /\ ReportInv'
  BY <1>1 DEF SendInv, HandedInv, WorkerInv, SuccessInv, ReportInv, AtWork
<1> QED BY <1>2, <1>3 DEF SendInv

LEMMA ResumeStep == ASSUME SendInv, Resume PROVE SendInv'
<1>1. /\ pc = "next" /\ chunk \in Chunks /\ pc' = "poll"
      /\ UNCHANGED <<status, report, asked, checkpoint, chunk, answer, reports, reached, import, restarts, broken>>
  BY DEF Resume, AtChunk, Goto, jobVars, dhis2, sendBounds
<1>2. SendTypeOK'
  BY <1>1 DEF SendInv, SendTypeOK
<1>3. HandedInv' /\ WorkerInv' /\ SuccessInv' /\ ReportInv'
  BY <1>1 DEF SendInv, HandedInv, WorkerInv, SuccessInv, ReportInv, AtWork
<1> QED BY <1>2, <1>3 DEF SendInv

(* A checkpoint is written of the worker's chunk, and nothing is reported.  *)
LEMMA SaveIntentStep == ASSUME SendInv, SaveIntent PROVE SendInv'
<1>1. /\ pc = "next" /\ chunk \in Chunks /\ pc' = "post" /\ checkpoint[chunk].state \in {"none", "unsent"}
      /\ checkpoint' = [checkpoint EXCEPT ![chunk] = Intent]
      /\ UNCHANGED <<status, report, asked, chunk, answer, reports, reached, import, restarts, broken>>
  BY DEF SaveIntent, AtChunk, Fresh, Goto, jobVars, dhis2, sendBounds
<1>2. SendTypeOK'
  BY <1>1, CheckpointTypes DEF SendInv, SendTypeOK
<1>3. /\ checkpoint'[chunk].state = "intent" /\ checkpoint'[chunk].outcome = "unknown"
      /\ \A c \in Chunks \ {chunk} : checkpoint'[c] = checkpoint[c]
  BY <1>1, CheckpointTypes DEF SendInv, SendTypeOK
<1>4. HandedInv' /\ SuccessInv'
  BY <1>1, <1>3 DEF SendInv, HandedInv, SuccessInv, Outcomes
<1>5. WorkerInv' /\ ReportInv'
  BY <1>1, <1>3 DEF SendInv, HandedInv, WorkerInv, ReportInv, AtWork
<1> QED BY <1>2, <1>4, <1>5 DEF SendInv

LEMMA SaveTaskStep == ASSUME SendInv, SaveTask PROVE SendInv'
<1>1. /\ pc = "accepted" /\ chunk \in Chunks /\ pc' = "poll"
      /\ checkpoint' = [checkpoint EXCEPT ![chunk] = Task]
      /\ UNCHANGED <<status, report, asked, chunk, answer, reports, reached, import, restarts, broken>>
  BY DEF SaveTask, AtChunk, Goto, jobVars, dhis2, sendBounds
<1>2. SendTypeOK'
  BY <1>1, CheckpointTypes DEF SendInv, SendTypeOK
<1>3. /\ checkpoint'[chunk].state = "task" /\ checkpoint'[chunk].outcome = "unknown"
      /\ \A c \in Chunks \ {chunk} : checkpoint'[c] = checkpoint[c]
  BY <1>1, CheckpointTypes DEF SendInv, SendTypeOK
<1>4. HandedInv' /\ SuccessInv'
  BY <1>1, <1>3 DEF SendInv, HandedInv, SuccessInv, Outcomes
<1>5. WorkerInv' /\ ReportInv'
  BY <1>1, <1>3 DEF SendInv, WorkerInv, ReportInv, AtWork
<1> QED BY <1>2, <1>4, <1>5 DEF SendInv

(* What Note reports of the worker's chunk, and where the worker goes. *)
LEMMA NoteFacts ==
    ASSUME SendInv, chunk \in Chunks, NEW outcome \in Outcomes, Note(outcome), pc \in {"next", "save"},
           UNCHANGED <<status, report, asked, import>>, outcome = "success" => import[chunk] = "clean"
    PROVE  /\ pc' \in {"next", "merge"} /\ chunk' \in 1..(N + 1)
           /\ reports' \in [Chunks -> Outcomes \cup {"none"}]
           /\ \A c \in Chunks : reports'[c] = "success" => import[c] = "clean"
           /\ ReportInv'
<1>1. reports' = [reports EXCEPT ![chunk] = outcome] /\ outcome # "none"
  BY DEF Note, Outcomes
<1>2. reports' \in [Chunks -> Outcomes \cup {"none"}]
  BY <1>1 DEF SendInv, SendTypeOK
<1>3. reports'[chunk] = outcome /\ \A c \in Chunks \ {chunk} : reports'[c] = reports[c]
  BY <1>1 DEF SendInv, SendTypeOK
<1>4. \A c \in Chunks : reports'[c] = "success" => import[c] = "clean"
  BY <1>3 DEF SendInv, SuccessInv
<1>5. /\ \A c \in Chunks : c < chunk => reports'[c] # "none"
      /\ \A c \in Chunks : c > chunk => reports'[c] = "none"
  BY <1>3, ChunkFacts DEF SendInv, ReportInv
<1>6. CASE outcome = "rejected"
  <2>1. pc' = "merge" /\ chunk' = chunk
    BY <1>6 DEF Note, Goto
  <2>2. ReportInv'
    BY <1>3, <1>5, <1>6, <2>1 DEF ReportInv, AtWork
  <2> QED BY <1>2, <1>4, <2>1, <2>2, ChunkFacts
<1>7. CASE outcome # "rejected"
  <2>1. pc' = "next" /\ chunk' = chunk + 1
    BY <1>7 DEF Note, Goto
  <2>2. \A c \in Chunks : c < chunk' => reports'[c] # "none"
    BY <1>1, <1>3, <1>5, <2>1, ChunkFacts
  <2>3. \A c \in Chunks : c >= chunk' => reports'[c] = "none"
    BY <1>5, <2>1, ChunkFacts
  <2>4. chunk' \in Chunks => reports'[chunk'] = "none"
    BY <2>1, <2>3, ChunkFacts
  <2>5. ReportInv'
    BY <2>1, <2>2, <2>3, <2>4, ChunkFacts DEF ReportInv, AtWork
  <2> QED BY <1>2, <1>4, <2>1, <2>5, ChunkFacts
<1> QED BY <1>6, <1>7

LEMMA SkipStep == ASSUME SendInv, Skip PROVE SendInv'
<1>1. /\ pc = "next" /\ chunk \in Chunks /\ checkpoint[chunk].state \in {"done", "intent"}
      /\ Note(checkpoint[chunk].outcome)
      /\ UNCHANGED <<status, report, asked, checkpoint, answer, reached, import, restarts, broken>>
  BY DEF Skip, AtChunk, jobVars, dhis2, sendBounds
<1>2. checkpoint[chunk].outcome \in Outcomes /\ (checkpoint[chunk].outcome = "success" => import[chunk] = "clean")
  BY <1>1 DEF SendInv, SuccessInv
<1>3. /\ pc' \in {"next", "merge"} /\ chunk' \in 1..(N + 1) /\ ReportInv'
      /\ reports' \in [Chunks -> Outcomes \cup {"none"}]
      /\ \A c \in Chunks : reports'[c] = "success" => import[c] = "clean"
  BY <1>1, <1>2, NoteFacts
<1>4. SendTypeOK'
  BY <1>1, <1>3 DEF SendInv, SendTypeOK
<1>5. HandedInv' /\ WorkerInv' /\ SuccessInv'
  BY <1>1, <1>3 DEF SendInv, HandedInv, WorkerInv, SuccessInv, AtWork
<1> QED BY <1>3, <1>4, <1>5 DEF SendInv

LEMMA SaveAnswerStep == ASSUME SendInv, SaveAnswer PROVE SendInv'
<1>1. /\ pc = "save" /\ chunk \in Chunks /\ Note(Saved.outcome)
      /\ checkpoint' = [checkpoint EXCEPT ![chunk] = Saved]
      /\ UNCHANGED <<status, report, asked, answer, reached, import, restarts, broken>>
  BY DEF SaveAnswer, AtChunk, jobVars, dhis2, sendBounds
<1>2. /\ Saved \in Checkpoints /\ Saved.outcome \in Outcomes
      /\ Saved.outcome = "success" => import[chunk] = "clean"
      /\ Saved.state \in {"none", "unsent"} => reached[chunk] = 0
  BY <1>1, SavedFacts DEF SendInv, WorkerInv
<1>3. /\ pc' \in {"next", "merge"} /\ chunk' \in 1..(N + 1) /\ ReportInv'
      /\ reports' \in [Chunks -> Outcomes \cup {"none"}]
      /\ \A c \in Chunks : reports'[c] = "success" => import[c] = "clean"
  BY <1>1, <1>2, NoteFacts
<1>4. SendTypeOK'
  BY <1>1, <1>2, <1>3 DEF SendInv, SendTypeOK
<1>5. checkpoint'[chunk] = Saved /\ \A c \in Chunks \ {chunk} : checkpoint'[c] = checkpoint[c]
  BY <1>1 DEF SendInv, SendTypeOK
<1>6. HandedInv' /\ SuccessInv'
  BY <1>1, <1>2, <1>3, <1>5 DEF SendInv, HandedInv, SuccessInv
<1>7. WorkerInv'
  BY <1>3 DEF WorkerInv, AtWork
<1> QED BY <1>3, <1>4, <1>6, <1>7 DEF SendInv

-----------------------------------------------------------------------------
(* The worker at a chunk. *)

(* It knows its answer: nothing else has changed but what DHIS2 has. *)
LEMMA GotStep ==
    ASSUME SendInv, pc \in {"post", "poll"}, chunk \in Chunks, HandedInv', SuccessInv', Got(answer'),
           answer' \in Outcomes \cup {"unsent", "task"}, answer' = "unsent" => reached'[chunk] = 0,
           answer' = "success" => import'[chunk] = "clean",
           reached' \in [Chunks -> Nat], import' \in [Chunks -> Imports],
           UNCHANGED <<status, report, asked, checkpoint, chunk, reports, restarts, broken>>
    PROVE  SendInv'
<1>1. pc' = "save"
  BY DEF Got, Goto
<1>2. SendTypeOK'
  BY <1>1 DEF SendInv, SendTypeOK
<1>3. WorkerInv' /\ ReportInv'
  BY <1>1 DEF SendInv, WorkerInv, ReportInv, AtWork
<1> QED BY <1>2, <1>3 DEF SendInv

(* A POST arrives for the first time. *)
LEMMA ReachFacts ==
    ASSUME SendInv, pc = "post", NEW result \in Imports \ {"none"}, Reach(result), UNCHANGED <<checkpoint, reports>>
    PROVE  /\ chunk \in Chunks /\ reached[chunk] = 0 /\ reached'[chunk] = 1 /\ import'[chunk] = result
           /\ \A c \in Chunks \ {chunk} : reached'[c] = reached[c] /\ import'[c] = import[c]
           /\ reached' \in [Chunks -> Nat] /\ import' \in [Chunks -> Imports]
           /\ HandedInv' /\ SuccessInv'
<1>1. chunk \in Chunks /\ reached[chunk] = 0 /\ import[chunk] = "none" /\ checkpoint[chunk].state = "intent"
  BY DEF SendInv, WorkerInv, HandedInv, AtWork
<1>2. /\ reached' = [reached EXCEPT ![chunk] = 1] /\ import' = [import EXCEPT ![chunk] = result]
      /\ reached \in [Chunks -> Nat] /\ import \in [Chunks -> Imports]
  BY <1>1 DEF Reach, SendInv, SendTypeOK
<1>3. /\ reached'[chunk] = 1 /\ import'[chunk] = result
      /\ \A c \in Chunks \ {chunk} : reached'[c] = reached[c] /\ import'[c] = import[c]
      /\ reached' \in [Chunks -> Nat] /\ import' \in [Chunks -> Imports]
  BY <1>1, <1>2
<1>4. HandedInv'
  BY <1>1, <1>3 DEF SendInv, HandedInv
<1>5. SuccessInv'
  BY <1>1, <1>3 DEF SendInv, SuccessInv
<1> QED BY <1>1, <1>3, <1>4, <1>5

LEMMA PostStep == ASSUME SendInv, Post PROVE SendInv'
<1>1. /\ pc = "post" /\ chunk \in Chunks
      /\ UNCHANGED <<status, report, asked, checkpoint, chunk, reports, restarts, broken>>
  BY DEF Post, PostUnsent, PostLost, PostAnswered, PostAccepted, AtChunk, jobVars, sendBounds
<1>2. reached \in [Chunks -> Nat] /\ import \in [Chunks -> Imports] /\ HandedInv /\ SuccessInv
  BY DEF SendInv, SendTypeOK
<1>3. "unknown" \in Outcomes /\ "queued" \in Imports \ {"none"} /\ Final \subseteq Imports \ {"none"}
  BY DEF Outcomes, Imports, Final
<1>4. CASE UNCHANGED dhis2 /\ Got(answer') /\ answer' \in {"unsent", "unknown"}
  <2>1. HandedInv' /\ SuccessInv' /\ reached'[chunk] = 0 /\ UNCHANGED <<reached, import>>
    BY <1>1, <1>2, <1>4 DEF dhis2, HandedInv, SuccessInv, SendInv, WorkerInv
  <2> QED BY <1>1, <1>2, <1>3, <1>4, <2>1, GotStep
<1>5. CASE \E result \in Imports \ {"none"} :
              /\ Reach(result) /\ Got(answer') /\ answer' \in Outcomes
              /\ answer' = "success" => result = "clean"
  <2>1. PICK result \in Imports \ {"none"} :
              /\ Reach(result) /\ Got(answer') /\ answer' \in Outcomes
              /\ answer' = "success" => result = "clean"
    BY <1>5
  <2>2. /\ import'[chunk] = result /\ reached' \in [Chunks -> Nat] /\ import' \in [Chunks -> Imports]
        /\ HandedInv' /\ SuccessInv'
    BY <1>1, <2>1, ReachFacts
  <2>3. answer' # "unsent"
    BY <2>1 DEF Outcomes
  <2> QED BY <1>1, <2>1, <2>2, <2>3, GotStep
<1>6. CASE Reach("queued") /\ Goto("accepted") /\ UNCHANGED answer
  <2>1. /\ reached' \in [Chunks -> Nat] /\ import' \in [Chunks -> Imports] /\ HandedInv' /\ SuccessInv'
    BY <1>1, <1>3, <1>6, ReachFacts
  <2>2. pc' = "accepted" /\ answer' = answer
    BY <1>6 DEF Goto
  <2>3. SendTypeOK'
    BY <1>1, <2>1, <2>2 DEF SendInv, SendTypeOK
  <2>4. WorkerInv' /\ ReportInv'
    BY <1>1, <2>2 DEF SendInv, WorkerInv, ReportInv, AtWork
  <2> QED BY <2>1, <2>3, <2>4 DEF SendInv
<1>7. CASE PostUnsent
  BY <1>4, <1>7 DEF PostUnsent, Got
<1>8. CASE PostLost
  BY <1>3, <1>4, <1>5, <1>8 DEF PostLost, Got
<1>9. CASE PostAnswered
  <2>1. PICK result \in Final : Reach(result) /\ \E outcome \in Reported(result) : Got(outcome)
    BY <1>9 DEF PostAnswered
  <2>2. Got(answer') /\ answer' \in Reported(result)
    BY <2>1 DEF Got
  <2> QED BY <1>3, <1>5, <2>1, <2>2, ReportedFacts
<1>10. CASE PostAccepted
  BY <1>3, <1>5, <1>6, <1>10 DEF PostAccepted, Got
<1> QED BY <1>7, <1>8, <1>9, <1>10 DEF Post

LEMMA PollTaskStep == ASSUME SendInv, PollTask PROVE SendInv'
<1>1. /\ pc = "poll" /\ chunk \in Chunks
      /\ UNCHANGED <<status, report, asked, checkpoint, chunk, reports, reached, import, restarts, broken>>
  BY DEF PollTask, AtChunk, jobVars, dhis2, sendBounds
<1>2. /\ Got(answer') /\ answer' \in Outcomes \cup {"task"}
      /\ answer' = "success" => import[chunk] = "clean"
  <2>1. CASE Got("task")
    BY <2>1 DEF Got
  <2>2. CASE import[chunk] \in Final /\ \E outcome \in Reported(import[chunk]) :
                IF outcome = "unknown" THEN Got("task") ELSE Got(outcome)
    <3>1. PICK outcome \in Reported(import[chunk]) : IF outcome = "unknown" THEN Got("task") ELSE Got(outcome)
      BY <2>2
    <3>2. outcome \in Outcomes /\ (outcome = "success" => import[chunk] = "clean")
      BY <2>2, ReportedFacts
    <3> QED BY <3>1, <3>2 DEF Got
  <2> QED BY <2>1, <2>2 DEF PollTask
<1>3. HandedInv' /\ SuccessInv' /\ reached' \in [Chunks -> Nat] /\ import' \in [Chunks -> Imports]
  BY <1>1 DEF SendInv, HandedInv, SuccessInv, SendTypeOK
<1>4. answer' # "unsent"
  BY <1>2 DEF Outcomes
<1> QED BY <1>1, <1>2, <1>3, <1>4, GotStep

-----------------------------------------------------------------------------
(* The ends of an attempt, and of an import. *)

LEMMA SaveFailsStep == ASSUME SendInv, SaveFails PROVE SendInv'
<1>1. /\ pc' = "idle" /\ status' = "failed" /\ broken < MaxBroken /\ broken' = broken + 1 /\ report = "none"
      /\ UNCHANGED <<report, asked, checkpoint, chunk, answer, reports, reached, import, restarts>>
  <2>1. pc # "idle"
    BY DEF SaveFails, AtChunk
  <2> QED BY <2>1 DEF SaveFails, Goto, dhis2, SendInv, SendTypeOK, Ended
<1>2. SendTypeOK'
  BY <1>1, ChunkAssumption DEF SendInv, SendTypeOK, Ended
<1>3. HandedInv' /\ WorkerInv' /\ SuccessInv' /\ ReportInv'
  BY <1>1 DEF SendInv, HandedInv, WorkerInv, SuccessInv, ReportInv, AtWork
<1> QED BY <1>2, <1>3 DEF SendInv

(* A merge says success only of a payload that was taken whole. *)
LEMMA MergeFacts ==
    ASSUME SendInv, Merge
    PROVE  /\ report' \in Outcomes \cup {"cancelled"}
           /\ status' \in {"cancelled", "successful"}
           /\ report' = "success" => \A c \in Chunks : import[c] = "clean"
<1> DEFINE said  == {reports[c] : c \in Chunks}
           early == chunk \in Chunks /\ reports[chunk] = "none"
<1>1. report' = Merged(early) /\ status' = IF report' = "cancelled" THEN "cancelled" ELSE "successful"
  BY DEF Merge
<1>2. report' \in Outcomes \cup {"cancelled"}
  BY <1>1 DEF Merged, Outcomes
<1>3. ASSUME report' = "success" PROVE \A c \in Chunks : import[c] = "clean"
  <2>1. "rejected" \notin said /\ "unknown" \notin said /\ ~early /\ "partial" \notin said
    BY <1>1, <1>3 DEF Merged
  <2>2. chunk \notin Chunks
    BY <2>1 DEF Merge, SendInv, ReportInv
  <2>3. \A c \in Chunks : reports[c] # "none"
    <3>1. chunk = N + 1
      BY <2>2, ChunkFacts DEF SendInv, SendTypeOK
    <3>2. \A c \in Chunks : c < chunk
      BY <3>1, ChunkAssumption DEF Chunks
    <3> QED BY <3>2 DEF Merge, SendInv, ReportInv
  <2>4. \A c \in Chunks : reports[c] \in said /\ reports[c] \in Outcomes \cup {"none"}
    BY DEF SendInv, SendTypeOK
  <2>5. \A c \in Chunks : reports[c] = "success"
    BY <2>1, <2>3, <2>4 DEF Outcomes
  <2> QED BY <2>5 DEF SendInv, SuccessInv
<1> QED BY <1>1, <1>2, <1>3

LEMMA MergeStep == ASSUME SendInv, Merge PROVE SendInv'
<1>1. /\ pc' = "idle"
      /\ UNCHANGED <<asked, checkpoint, chunk, answer, reports, reached, import, restarts, broken>>
  BY DEF Merge, Goto, dhis2, sendBounds
<1>2. SendTypeOK'
  BY <1>1, MergeFacts DEF SendInv, SendTypeOK, Ended
<1>3. HandedInv' /\ WorkerInv' /\ SuccessInv' /\ ReportInv'
  BY <1>1 DEF SendInv, HandedInv, WorkerInv, SuccessInv, ReportInv, AtWork
<1> QED BY <1>2, <1>3 DEF SendInv

LEMMA ImportedStep == ASSUME SendInv, NEW c \in Chunks, Imported(c) PROVE SendInv'
<1>1. PICK result \in Final : import' = [import EXCEPT ![c] = result]
  BY DEF Imported
<1>2. /\ import[c] = "queued" /\ result \in Imports /\ result # "none"
      /\ UNCHANGED <<status, report, asked, checkpoint, pc, chunk, answer, reports, reached, restarts, broken>>
  BY DEF Imported, jobVars, workerVars, sendBounds, Imports, Final
<1>3. import'[c] = result /\ \A d \in Chunks \ {c} : import'[d] = import[d]
  BY <1>1 DEF SendInv, SendTypeOK
<1>4. SendTypeOK'
  BY <1>1, <1>2 DEF SendInv, SendTypeOK
<1>5. HandedInv' /\ SuccessInv'
  BY <1>2, <1>3 DEF SendInv, HandedInv, SuccessInv
<1>6. WorkerInv' /\ ReportInv'
  BY <1>2, <1>3 DEF SendInv, WorkerInv, ReportInv, AtWork
<1> QED BY <1>4, <1>5, <1>6 DEF SendInv

LEMMA SendStep == ASSUME SendInv, [SendNext]_sendVars PROVE SendInv'
<1>1. CASE UNCHANGED sendVars
  BY <1>1 DEF sendVars, SendInv, SendTypeOK, HandedInv, WorkerInv, SuccessInv, ReportInv
<1> QED BY <1>1, BeginStep, JobStep, StopStep, SkipStep, ResumeStep, SaveIntentStep, PostStep, SaveTaskStep,
           PollTaskStep, SaveAnswerStep, SaveFailsStep, MergeStep, ImportedStep
        DEF SendNext, Worker, Environment

(* Where a chunk stands between its checkpoint, the worker and DHIS2, at    *)
(* every step of a delivery job and through every restart of it.            *)
THEOREM SendHolds == SendSpec => []SendInv
BY SendInitInv, SendStep, PTL DEF SendSpec

-----------------------------------------------------------------------------
(* The ledger of imports. *)

(* What the job says of the delivery. *)
Verdict == IF status \notin Ended THEN "none" ELSE IF report = "success" THEN "delivered" ELSE "unconfirmed"
Clean   == {c \in Chunks : import[c] = "clean"}

LEMMA LedgerStays == ASSUME UNCHANGED <<reached, Clean, Verdict>> PROVE UNCHANGED Ledger!vars
BY DEF Ledger!vars, Clean, Verdict

(* A step that DHIS2 has no part in judges the delivery or leaves it open. *)
LEMMA JudgeStep ==
    ASSUME SendInv, UNCHANGED <<reached, import>>, status \notin Ended,
           status' \in Ended /\ report' = "success" => Clean = Chunks
    PROVE  Ledger!Judge \/ UNCHANGED Ledger!vars
<1>1. Clean' = Clean /\ reached' = reached /\ Verdict = "none"
  BY DEF Clean, Verdict
<1>2. CASE status' \notin Ended
  BY <1>1, <1>2, LedgerStays DEF Verdict
<1>3. CASE status' \in Ended
  <2>1. Verdict' \in IF Clean = Chunks THEN {"delivered", "unconfirmed"} ELSE {"unconfirmed"}
    BY <1>3 DEF Verdict
  <2> QED BY <1>1, <2>1 DEF Ledger!Judge, Clean, Verdict
<1> QED BY <1>2, <1>3

LEMMA HandStep == ASSUME SendInv, Post PROVE (\E c \in Chunks : Ledger!Hand(c)) \/ UNCHANGED Ledger!vars
<1>1. pc = "post" /\ UNCHANGED <<status, report, checkpoint, reports>>
  BY DEF Post, PostUnsent, PostLost, PostAnswered, PostAccepted, AtChunk, jobVars
<1>2. status \notin Ended /\ Verdict = "none" /\ Verdict' = Verdict
  BY <1>1 DEF SendInv, SendTypeOK, Ended, Verdict
<1>3. CASE UNCHANGED dhis2
  <2>1. UNCHANGED <<reached, Clean, Verdict>>
    BY <1>2, <1>3 DEF dhis2, Clean
  <2> QED BY <2>1, LedgerStays
<1>4. ASSUME NEW result \in Imports \ {"none"}, Reach(result) PROVE \E c \in Chunks : Ledger!Hand(c)
  <2>1. /\ chunk \in Chunks /\ reached[chunk] = 0 /\ import'[chunk] = result
        /\ \A c \in Chunks \ {chunk} : import'[c] = import[c]
    BY <1>1, <1>4, ReachFacts
  <2>2. import[chunk] = "none" /\ reached' = [reached EXCEPT ![chunk] = 1]
    BY <1>4, <2>1 DEF SendInv, HandedInv, Reach
  <2>3. Clean' = Clean \/ Clean' = Clean \cup {chunk}
    BY <2>1, <2>2 DEF Clean
  <2>4. PICK c \in Chunks : c = chunk
    BY <2>1
  <2>5. Ledger!Hand(c)
    BY <1>2, <2>1, <2>2, <2>3, <2>4 DEF Ledger!Hand, Clean, Verdict
  <2> QED BY <2>5
<1>5. UNCHANGED dhis2 \/ \E result \in Imports \ {"none"} : Reach(result)
  BY DEF Post, PostUnsent, PostLost, PostAnswered, PostAccepted, Imports, Final
<1> QED BY <1>3, <1>4, <1>5

LEMMA TakeStep == ASSUME SendInv, NEW c \in Chunks, Imported(c) PROVE Ledger!Take(c) \/ UNCHANGED Ledger!vars
<1>1. PICK result \in Final : import' = [import EXCEPT ![c] = result]
  BY DEF Imported
<1>2. import[c] = "queued" /\ Verdict' = Verdict /\ reached' = reached /\ reached[c] = 1
  BY DEF Imported, jobVars, Verdict, SendInv, HandedInv
<1>3. import'[c] = result /\ \A d \in Chunks \ {c} : import'[d] = import[d]
  BY <1>1 DEF SendInv, SendTypeOK
<1>4. Clean' = Clean \/ Clean' = Clean \cup {c}
  BY <1>2, <1>3 DEF Clean
<1>5. CASE Clean' = Clean
  BY <1>2, <1>5, LedgerStays
<1>6. CASE Clean' = Clean \cup {c}
  BY <1>2, <1>6 DEF Ledger!Take, Clean, Verdict
<1> QED BY <1>4, <1>5, <1>6

LEMMA SendLedgerStep == ASSUME SendInv, [SendNext]_sendVars PROVE [Ledger!Next]_(Ledger!vars)
<1>1. CASE UNCHANGED sendVars
  BY <1>1, LedgerStays DEF sendVars, Clean, Verdict
<1>2. CASE Post
  BY <1>2, HandStep DEF Ledger!Next
<1>3. CASE \E c \in Chunks : Imported(c)
  <2>1. PICK c \in Chunks : Imported(c)
    BY <1>3
  <2> QED BY <2>1, TakeStep DEF Ledger!Next
<1>4. CASE Merge
  <2>1. UNCHANGED <<reached, import>> /\ status \notin Ended
    BY <1>4 DEF Merge, dhis2, SendInv, SendTypeOK, Ended
  <2>2. report' = "success" => Clean = Chunks
    BY <1>4, MergeFacts DEF Clean
  <2> QED BY <2>1, <2>2, JudgeStep DEF Ledger!Next
<1>5. CASE Begin \/ Refuse \/ RequestCancel \/ Restart \/ SaveFails
  <2>1. UNCHANGED <<reached, import, report>>
    BY <1>5 DEF Begin, Refuse, RequestCancel, Restart, SaveFails, dhis2
  <2>2. status \notin Ended
    <3>1. SaveFails => pc # "idle"
      BY DEF SaveFails, AtChunk
    <3> QED BY <1>5, <3>1 DEF Begin, Refuse, RequestCancel, Restart, SendInv, SendTypeOK, Ended
  <2>3. report' # "success"
    BY <2>1, <2>2 DEF SendInv, SendTypeOK
  <2> QED BY <2>1, <2>2, <2>3, JudgeStep DEF Ledger!Next
<1>6. CASE Stop \/ Skip \/ Resume \/ SaveIntent \/ SaveTask \/ PollTask \/ SaveAnswer
  <2>1. UNCHANGED <<reached, import, status, report>>
    BY <1>6 DEF Stop, Skip, Resume, SaveIntent, SaveTask, PollTask, SaveAnswer, dhis2, jobVars
  <2> QED BY <2>1, LedgerStays DEF Clean, Verdict
<1> QED BY <1>1, <1>2, <1>3, <1>4, <1>5, <1>6 DEF SendNext, Worker, Environment

(* AtWork in chunks is what ImportLedger promises, for any payload: DHIS2  *)
(* is handed no chunk twice, however often the job is restarted, and only a *)
(* payload it took whole is called a success.                               *)
THEOREM LedgerOfImports == SendSpec => SendsOnce
<1>1. SendInit => Ledger!Init
  <2> SUFFICES ASSUME SendInit PROVE Ledger!Init
    OBVIOUS
  <2>1. \A c \in Chunks : import[c] # "clean"
    BY DEF SendInit
  <2> QED BY <2>1 DEF SendInit, Ledger!Init, Ended
<1>2. SendInv /\ [SendNext]_sendVars => [Ledger!Next]_(Ledger!vars)
  BY SendLedgerStep
<1> QED BY <1>1, <1>2, SendHolds, PTL DEF SendSpec, SendsOnce, Ledger!Spec

=============================================================================
