---------------------------- MODULE PeriodCalendar ----------------------------
(***************************************************************************)
(* The period arithmetic of shared/time.py as a calendar runs through it,  *)
(* day after day: what the functions of Periods promise one another.       *)
(***************************************************************************)
EXTENDS Periods
LOCAL INSTANCE FiniteSetsExt

CONSTANT Windows     \* <<first, last>>: the stretches of days it runs through
ASSUME WindowAssumption ==
    \A w \in Windows : w[1] <= w[2] /\ {w[1] - 31, w[2] + 800} \subseteq DOMAIN Calendar

VARIABLE today

CalendarInit == today \in {w[1] : w \in Windows}

Midnight == \E w \in Windows : today \in w[1]..(w[2] - 1) /\ today' = today + 1

CalendarSpec == CalendarInit /\ [][Midnight]_today

-----------------------------------------------------------------------------
\* Today's period began when its id says; tomorrow's is the same or the next, whose id sorts after it.
PeriodsFollow ==
    \A c \in Cadences :
        LET p == PeriodOf(today, c)
            q == PeriodOf(today + 1, c)
        IN  /\ StartOf(p, c) <= today /\ PeriodOf(StartOf(p, c), c) = p
            /\ q # p => q = NextPeriod(p, c) /\ Precedes(p, q) /\ StartOf(q, c) = today + 1

\* From an earlier day to a later one, cut off or not: the periods of the days, in order, and
\* nothing where no day is, but for the month of a range that is inverted inside it.
IdsAreThePeriods ==
    \A c \in {"dekadal", "monthly"}, to \in {today - 30, today - 1, today, today + 9, today + 62}, cutoff \in {today + 8, today + 99} :
        LET ids  == PeriodIds(today, to, cutoff, c)
            last == Min({to, cutoff})
            days == today..last
            inMonth == c = "monthly" /\ PeriodOf(last, c) = PeriodOf(today, c)
        IN  /\ days # {} => {ids[i] : i \in DOMAIN ids} = {PeriodOf(n, c) : n \in days}
            /\ days = {} => ids = (IF inMonth THEN <<PeriodOf(today, c)>> ELSE <<>>)
            /\ \A i \in 2..Len(ids) : Precedes(ids[i - 1], ids[i])

\* The label of a day, the first day of the label and the bounds of the day are of one period.
LabelsAgree ==
    \A d \in Destinations :
        LET bounds == Bounds(today, d)
        IN  /\ today \in bounds[1]..(bounds[2] - 1) /\ LabelStart(Label(today, d), d) = bounds[1]
            /\ \A n \in {bounds[1], bounds[2] - 1} : Label(n, d) = Label(today, d)
            /\ Label(bounds[2], d) # Label(today, d)

\* What one cadence tiles, its periods do not straddle, and so many of them are counted as begin in it.
TilesAreWhole ==
    \A c \in Countable : \A d \in Tiles(c) :
        LET bounds == Bounds(today, d)
            starts == {n \in bounds[1]..(bounds[2] - 1) : StartOf(PeriodOf(n, c), c) = n}
        IN  /\ {StartOf(PeriodOf(today, c), c), StartOf(NextPeriod(PeriodOf(today, c), c), c) - 1}
                  \subseteq bounds[1]..(bounds[2] - 1)
            /\ today = bounds[1] => ExpectedSteps(bounds[1], bounds[2], c) = Cardinality(starts)

\* The cadence of two or three periods in a row is found, and of dekads one of which is missing.
CadenceIsFound ==
    \A c \in Cadences : StartOf(PeriodOf(today, c), c) = today =>
        LET after == Following(PeriodOf(today, c), c, 4)
            axis(members) == {StartOf(after[i], c) : i \in members}
        IN  /\ InferCadence(axis(1..2)) = c /\ InferCadence(axis(1..3)) = c
            /\ c = "dekadal" => \A missing \in 2..3 : InferCadence(axis((1..4) \ {missing})) = c

(* On every day, leap years and the weeks around a new year included, the   *)
(* functions of shared/time.py agree: periods follow one another without    *)
(* gap or overlap and their ids sort in time (dekad_period_ids, :312-320;   *)
(* next_period_string), labels and bounds are of one period (:662-718),     *)
(* what _TILES says is tiled is (:504-518, 591-612), and cadences are found *)
(* again (:615-659).  An inverted range covers no dekad (:324-328) and no   *)
(* month, except when it begins and ends in one: monthly_period_ids then    *)
(* gives that month (:268), though it says it returns nothing (:237-240).   *)
CalendarHolds == PeriodsFollow /\ IdsAreThePeriods /\ LabelsAgree /\ TilesAreWhole /\ CadenceIsFound
=============================================================================
