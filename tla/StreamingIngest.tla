--------------------------- MODULE StreamingIngest ---------------------------
(***************************************************************************)
(* The rolling window of streaming/orchestrator.py run_streaming_ingest:   *)
(* a few periods are fetched at once, in any order; they are committed     *)
(* one by one, in theirs.  A failed fetch or commit, or a cancellation,    *)
(* ends the run and every fetch that is still going.                       *)
(***************************************************************************)
EXTENDS Naturals, Sequences

CONSTANTS
    MaxPeriod,    \* bound: periods of the dataset
    MaxParallel   \* the plugin's max_concurrency

ASSUME StreamAssumption == MaxPeriod \in Nat /\ MaxParallel \in Nat \ {0}

VARIABLES
    stream,    \* running, awaiting the first fetch, done or failed; what waits, what is fetched
    asked      \* is_cancel_requested

Periods == 1..MaxPeriod
NoStream == [state |-> "idle", queue |-> <<>>, window |-> <<>>]

StreamInit == stream = NoStream /\ asked = FALSE

Least(m, n) == IF m < n THEN m ELSE n
Started(periods) == [i \in 1..Len(periods) |-> [period |-> periods[i], state |-> "fetching"]]

\* Pending are the planned periods that are not committed.
StreamStart(pending) ==
    LET n == Least(MaxParallel, Len(pending)) IN
    stream' = [state  |-> IF pending = <<>> THEN "done" ELSE "running",
               queue  |-> SubSeq(pending, n + 1, Len(pending)),
               window |-> Started(SubSeq(pending, 1, n))]

Running == stream.state \in {"running", "awaiting"}

\* A cancellation is looked for between two periods: one more may still be committed.
Await ==
    /\ stream.state = "running" /\ ~asked
    /\ stream' = [stream EXCEPT !.state = "awaiting"]
    /\ UNCHANGED asked

FetchEnds(state) ==
    /\ Running
    /\ \E i \in 1..Len(stream.window) :
          /\ stream.window[i].state = "fetching"
          /\ stream' = [stream EXCEPT !.window[i].state = state]
    /\ UNCHANGED asked

\* The fetches still going are cancelled and awaited.
StreamFails == stream' = [NoStream EXCEPT !.state = "failed"]

Cancelled   == stream.state = "running" /\ asked /\ StreamFails
FetchFailed == stream.state = "awaiting" /\ Head(stream.window).state = "failed" /\ StreamFails

\* Mutant: whatever is fetched first is written first.
ReadyAny == {i \in 1..Len(stream.window) : stream.window[i].state = "fetched"}

Ready == {i \in 1..Least(1, Len(stream.window)) : stream.window[i].state = "fetched"}

Without(s, i) == SubSeq(s, 1, i - 1) \o SubSeq(s, i + 1, Len(s))

\* The commit itself is the caller's; then one more fetch is started.
Committed(i) ==
    LET more == Least(1, Len(stream.queue))
        window == Without(stream.window, i) \o Started(SubSeq(stream.queue, 1, more))
    IN stream' = [state  |-> IF window = <<>> THEN "done" ELSE "running",
                  queue  |-> SubSeq(stream.queue, more + 1, Len(stream.queue)),
                  window |-> window]

StreamTypeOK ==
    /\ stream.state \in {"idle", "running", "awaiting", "done", "failed"}
    /\ Len(stream.window) <= MaxParallel /\ stream.queue \in Seq(Periods)
    /\ \A i \in 1..Len(stream.window) : /\ stream.window[i].period \in Periods
                                        /\ stream.window[i].state \in {"fetching", "fetched", "failed"}
    /\ ~Running => stream.window = <<>> /\ stream.queue = <<>>
    /\ asked \in BOOLEAN
=============================================================================
