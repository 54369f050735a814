------------------------------ MODULE MCStores ------------------------------
(***************************************************************************)
(* Data at rest and on its way out.  One dataset of three periods: first    *)
(* ingests, appends, prepends that append too, and overwrites that widen or *)
(* narrow it, in any order; the index of its records, with two threads of one *)
(* process or of two; the periods an export of it publishes; and the        *)
(* calendar these are counted by.  They share no state, so each behaviour   *)
(* looks at one of them.                                                    *)
(***************************************************************************)
EXTENDS ManagedStore, RecordIndex, ExportPeriods, PeriodCalendar

CONSTANTS u1, u2, h1, h2

Scope(from, to, over) == [from |-> from, to |-> to, over |-> over]

MCRequests == {Scope(2, 2, FALSE), Scope(1, 3, FALSE), Scope(1, 2, TRUE)}

DayOf(y, m, d) == FirstOfMonth(y, m) + d - 1

\* A leap year, of 53 weeks, and the days around it.
MCWindows == {<<DayOf(2019, 12, 20), DayOf(2021, 1, 31)>>}

Axis(cadence, from, to, gap, carried) ==
    [cadence |-> cadence, carried |-> carried,
     stamps  |-> {n \in from..to : StartOf(PeriodOf(n, cadence), cadence) = n} \ gap]

\* Axes over a leap February and over a new year, whole, short of one period or of a
\* month of them, stamped or not; and daily data that looks dekadal.
MCLoads ==
    {Axis("daily", DayOf(2020, 1, 30), DayOf(2020, 3, 9), {DayOf(2020, 2, 29)}, k) : k \in BOOLEAN}
    \cup {Axis("daily", DayOf(2020, 12, 26), DayOf(2021, 1, 31), g, TRUE) : g \in {{}, {DayOf(2021, 1, 3)}}}
    \cup {[cadence |-> "daily", carried |-> k, stamps |-> {DayOf(2021, m, d) : m \in 1..2, d \in DekadStartDays}] : k \in BOOLEAN}
    \cup {Axis("dekadal", DayOf(2020, 12, 1), DayOf(2022, 1, 12), g, TRUE) :
             g \in {{}, {DayOf(2021, 2, 21)}, {DayOf(2021, 6, d) : d \in DekadStartDays}}}
    \cup {Axis("dekadal", DayOf(2020, 12, 21), DayOf(2021, 2, 21), g, FALSE) : g \in {{}, {DayOf(2021, 1, 11)}}}
    \cup {Axis("monthly", DayOf(2020, 11, 1), DayOf(2022, 1, 1), {DayOf(2021, 12, 1)}, k) : k \in BOOLEAN}

MCExports ==
    {[period |-> p, declared |-> r, drop |-> d, dataset |-> ~d] :
        p \in Destinations, r \in {"sum", Unknowable}, d \in BOOLEAN}

VARIABLE focus
mcVars == <<storeVars, indexVars, exportVars, today, focus>>

\* Which of the two processes the first thread is in makes no difference.
MCInit ==
    /\ focus \in {"store", "index", "export", "calendar"}
    /\ StoreInit /\ IndexInit /\ ExportInit /\ CalendarInit /\ hostOf[u1] = h1
    /\ focus # "index" => kind = "replaced" /\ sound /\ hostOf[u2] = h1

\* The third ingest meets one trouble, the ones before it all.
Troubled == ingests' + faults' + kills' <= MaxIngests + 1

\* Nothing is promised of an index that is written in place once a kill broke it, or
\* while several create it: no kill of the one, no update of the other.
MCNext ==
    /\ UNCHANGED focus
    /\ \/ focus = "store" /\ StoreNext /\ Troubled /\ UNCHANGED <<indexVars, exportVars, today>>
       \/ focus = "index" /\ IndexNext /\ UNCHANGED <<storeVars, exportVars, today>>
          /\ (kind = "replaced" \/ (killed' = 0 /\ (sound \/ updates' = 0)))
       \/ focus = "export"   /\ ExportNext /\ UNCHANGED <<storeVars, indexVars, today>>
       \/ focus = "calendar" /\ Midnight   /\ UNCHANGED <<storeVars, indexVars, exportVars>>

MCSpec == MCInit /\ [][MCNext]_mcVars /\ WF_storeVars(Progress)

(* Every variable of the three has its type (asked where they change). *)
MCTypeOK ==
    /\ focus = "store"  => StoreTypeOK
    /\ focus = "index"  => IndexTypeOK
    /\ focus = "export" => ExportTypeOK

(* The functions of shared/time.py agree on every day (see CalendarHolds),  *)
(* asked where the days pass.                                               *)
DaysHold == focus = "calendar" => CalendarHolds
=============================================================================
