----------------------------- MODULE StoreLedger -----------------------------
(***************************************************************************)
(* What an update of a managed dataset promises its readers                *)
(* (ingestions/services.py _create_streaming_artifact), with no            *)
(* directories, branches or restarts in it.  The published data grows      *)
(* period by period, or is replaced at once by a whole new version; an     *)
(* update that has not ended may put back what it found.  Nothing else     *)
(* happens to it: above all, it never goes away.                           *)
(***************************************************************************)
EXTENDS Integers, Sequences

VARIABLES
    data,     \* the published periods, in order, and the version they belong to
    found,    \* what the update in progress found
    open      \* an update is in progress

vars == <<data, found, open>>

Nothing == [periods |-> <<>>, version |-> 0]

Init == data = Nothing /\ found = Nothing /\ open = FALSE

Begin == open' = TRUE /\ found' = data /\ UNCHANGED data

Follows(periods) ==
    \A i \in 1..Len(periods) - 1 : periods[i + 1] = periods[i] + 1

\* A dataset that had nothing becomes a version of its own.
Extend ==
    /\ open
    /\ Follows(data'.periods)
    /\ Len(data'.periods) = Len(data.periods) + 1
    /\ SubSeq(data'.periods, 1, Len(data.periods)) = data.periods
    /\ data'.version = data.version \/ data.periods = <<>>
    /\ UNCHANGED <<found, open>>

Replace ==
    /\ open
    /\ Follows(data'.periods) /\ data'.periods # <<>>
    /\ data'.version > data.version
    /\ UNCHANGED <<found, open>>

PutBack == open /\ data' = found /\ UNCHANGED <<found, open>>

\* It succeeded, failed, or was killed.
End == open /\ open' = FALSE /\ UNCHANGED <<data, found>>

Next == Begin \/ Extend \/ Replace \/ PutBack \/ End

Spec == Init /\ [][Next]_vars
=============================================================================
