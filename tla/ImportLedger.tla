---------------------------- MODULE ImportLedger ----------------------------
(***************************************************************************)
(* What sending a payload in chunks promises (exports/dhis2_renderer.py    *)
(* send), with no checkpoint, restart or polling in it.  The destination   *)
(* is handed each chunk at most once, whenever that is; one verdict is     *)
(* given, and only a payload it took whole is called delivered.            *)
(***************************************************************************)
EXTENDS Naturals

CONSTANT Chunks

VARIABLES
    handed,     \* how often the destination was handed a chunk
    taken,      \* the chunks it took without a complaint
    verdict     \* what the delivery says of itself

vars == <<handed, taken, verdict>>

Init ==
    /\ handed = [c \in Chunks |-> 0]
    /\ taken = {}
    /\ verdict = "none"

Hand(c) ==
    /\ handed[c] = 0 /\ verdict = "none"
    /\ handed' = [handed EXCEPT ![c] = 1]
    /\ taken' \in {taken, taken \cup {c}}
    /\ UNCHANGED verdict

(* An import that was queued ends by itself, the verdict given or not.      *)
Take(c) ==
    /\ handed[c] = 1
    /\ taken' = taken \cup {c}
    /\ UNCHANGED <<handed, verdict>>

Judge ==
    /\ verdict = "none"
    /\ verdict' \in IF taken = Chunks THEN {"delivered", "unconfirmed"} ELSE {"unconfirmed"}
    /\ UNCHANGED <<handed, taken>>

Next == Judge \/ \E c \in Chunks : Hand(c) \/ Take(c)

Spec == Init /\ [][Next]_vars
=============================================================================
