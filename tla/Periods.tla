------------------------------- MODULE Periods -------------------------------
(***************************************************************************)
(* The periods of shared/time.py: which one a day falls in, which follows  *)
(* it, where each begins and ends, and what can be made of which.          *)
(*                                                                         *)
(* A day is its ordinal (Python's date.toordinal), a period id the tuple   *)
(* of the numbers in its string, which has them in fixed width.  Hours and *)
(* climatologies, whose ids are no dates, are left out.                    *)
(***************************************************************************)
EXTENDS Integers, Sequences, FiniteSets
LOCAL INSTANCE FiniteSetsExt

CONSTANTS FirstYear, LastYear    \* bound: the years of the calendar
ASSUME YearsAssumption == FirstYear \in 1..9998 /\ LastYear \in FirstYear..9998

(***************************************************************************)
(* The library's calendar.                                                 *)
(***************************************************************************)
FirstOf(y) == 365 * (y - 1) + (y - 1) \div 4 - (y - 1) \div 100 + (y - 1) \div 400 + 1

IsLeap(y) == FirstOf(y + 1) - FirstOf(y) = 366

FirstOfMonth(y, m) ==
    FirstOf(y) + <<0, 31, 59, 90, 120, 151, 181, 212, 243, 273, 304, 334, 365>>[m]
               + (IF IsLeap(y) /\ m > 2 THEN 1 ELSE 0)

Calendar ==
    [n \in FirstOf(FirstYear)..(FirstOf(LastYear + 1) - 1) |->
        LET y == CHOOSE y \in FirstYear..LastYear : FirstOf(y) <= n /\ n < FirstOf(y + 1)
            m == CHOOSE m \in 1..12 : FirstOfMonth(y, m) <= n /\ n < FirstOfMonth(y, m + 1)
        IN  [year |-> y, month |-> m, day |-> n - FirstOfMonth(y, m) + 1]]

Ymd(n) == <<Calendar[n].year, Calendar[n].month, Calendar[n].day>>

\* Day 1 was a Monday; a week is of the year its Thursday is in.
Monday(n)   == n - ((n - 1) % 7)
IsoWeek(n)  == LET y == Calendar[Monday(n) + 3].year IN <<y, (Monday(n) + 3 - FirstOf(y)) \div 7 + 1>>
IsoMonday(y, w) == Monday(FirstOf(y) + 3) + 7 * (w - 1)

(***************************************************************************)
(* Dekads.                                                                 *)
(***************************************************************************)
DekadStartDays == {1, 11, 21}

DekadStart(n) == LET d == Calendar[n].day IN n - d + Max({s \in DekadStartDays : s <= d})

\* Mutant: the third dekad of a month is of ten days, as the others.
DekadEndTenth(n) == DekadStart(n) + 9

DekadEnd(n) ==
    LET at == Calendar[DekadStart(n)] IN
    IF at.day = 21 THEN FirstOfMonth(at.year, at.month + 1) - 1 ELSE DekadStart(n) + 9

(***************************************************************************)
(* Periods of a dataset.                                                   *)
(***************************************************************************)
Cadences == {"daily", "dekadal", "weekly", "monthly", "yearly"}

\* datetime_to_period_string.
\* Mutant: a week is of the year its first day is in.
PeriodOfMonday(n, cadence) ==
    CASE cadence = "daily"   -> Ymd(n)
      [] cadence = "dekadal" -> Ymd(DekadStart(n))
      [] cadence = "weekly"  -> <<Calendar[Monday(n)].year, IsoWeek(n)[2]>>
      [] cadence = "monthly" -> <<Calendar[n].year, Calendar[n].month>>
      [] cadence = "yearly"  -> <<Calendar[n].year>>

PeriodOf(n, cadence) ==
    CASE cadence = "daily"   -> Ymd(n)
      [] cadence = "dekadal" -> Ymd(DekadStart(n))
      [] cadence = "weekly"  -> IsoWeek(n)
      [] cadence = "monthly" -> <<Calendar[n].year, Calendar[n].month>>
      [] cadence = "yearly"  -> <<Calendar[n].year>>

\* parse_period_string_to_datetime.
StartOf(p, cadence) ==
    CASE cadence \in {"daily", "dekadal"} -> FirstOfMonth(p[1], p[2]) + p[3] - 1
      [] cadence = "weekly"  -> IsoMonday(p[1], p[2])
      [] cadence = "monthly" -> FirstOfMonth(p[1], p[2])
      [] cadence = "yearly"  -> FirstOf(p[1])

NextPeriod(p, cadence) ==
    CASE cadence = "daily"   -> Ymd(StartOf(p, cadence) + 1)
      [] cadence = "dekadal" -> Ymd(DekadEnd(StartOf(p, cadence)) + 1)
      [] cadence = "weekly"  -> PeriodOf(StartOf(p, cadence) + 7, cadence)
      [] cadence = "monthly" -> IF p[2] = 12 THEN <<p[1] + 1, 1>> ELSE <<p[1], p[2] + 1>>
      [] cadence = "yearly"  -> <<p[1] + 1>>

\* The order of the strings.
Precedes(p, q) ==
    \E i \in 1..Len(p) : p[i] < q[i] /\ SubSeq(p, 1, i - 1) = SubSeq(q, 1, i - 1)

\* The first n periods from one on.
Following(p, cadence, n) ==
    LET nth[k \in 1..n] == IF k = 1 THEN p ELSE NextPeriod(nth[k - 1], cadence) IN nth

\* dekad_ and monthly_period_ids: days are compared, or months; neither period has less than 8 days.
\* Mutant: the start is snapped to its dekad before it is compared.
CoveredSnapped(from, to, cadence) == PeriodOf(from, cadence) = PeriodOf(to, cadence) \/ from <= to

Covered(from, to, cadence) ==
    IF cadence = "monthly" THEN ~Precedes(PeriodOf(to, cadence), PeriodOf(from, cadence)) ELSE from <= to

PeriodIds(from, to, cutoff, cadence) ==
    LET last  == Min({to, cutoff})
        walk  == Following(PeriodOf(from, cadence), cadence, Max({last - from, 0}) \div 8 + 2)
    IN  IF Covered(from, last, cadence)
        THEN SelectSeq(walk, LAMBDA p : StartOf(p, cadence) <= last) ELSE <<>>

(***************************************************************************)
(* Periods of an export.                                                   *)
(***************************************************************************)
Destinations == {"daily", "weekly", "monthly", "quarterly", "yearly"}

\* export_period_label.
Label(n, destination) ==
    IF destination = "quarterly" THEN <<Calendar[n].year, (Calendar[n].month - 1) \div 3 + 1>>
    ELSE PeriodOf(n, destination)

\* period_label_start.
LabelStart(label, destination) ==
    IF destination = "quarterly" THEN FirstOfMonth(label[1], 3 * (label[2] - 1) + 1)
    ELSE StartOf(label, destination)

\* _destination_bounds: the first day, and the one after the last.
Bounds(n, destination) ==
    LET y == Calendar[n].year
        m == Calendar[n].month
        q == 3 * ((m - 1) \div 3) + 1
    IN  CASE destination = "daily"     -> <<n, n + 1>>
          [] destination = "weekly"    -> <<Monday(n), Monday(n) + 7>>
          [] destination = "monthly"   -> <<FirstOfMonth(y, m), FirstOfMonth(y, m + 1)>>
          [] destination = "quarterly" -> <<FirstOfMonth(y, q), FirstOfMonth(y, q + 3)>>
          [] destination = "yearly"    -> <<FirstOf(y), FirstOf(y + 1)>>

MonthsIn(from, to) ==
    12 * (Calendar[to - 1].year - Calendar[from].year) + Calendar[to - 1].month - Calendar[from].month + 1

\* expected_source_steps; of the others it is not asked.
Countable == {"daily", "dekadal", "monthly"}

\* Mutant: dekads are counted as ten days each.
ExpectedStepsOfTen(from, to, source) ==
    CASE source = "daily" -> to - from [] source = "dekadal" -> (to - from) \div 10 [] OTHER -> MonthsIn(from, to)

ExpectedSteps(from, to, source) ==
    CASE source = "daily" -> to - from [] source = "dekadal" -> 3 * MonthsIn(from, to) [] OTHER -> MonthsIn(from, to)

\* incomplete_destination_periods.
Incomplete(stamps, source, destination) ==
    {label \in {Label(n, destination) : n \in stamps} :
        LET these  == {n \in stamps : Label(n, destination) = label}
            bounds == Bounds(CHOOSE n \in these : TRUE, destination)
        IN  Cardinality(these) < ExpectedSteps(bounds[1], bounds[2], source)}

Tiles(source) ==
    CASE source = "daily"   -> {"weekly", "monthly", "yearly"}
      [] source = "dekadal" -> {"monthly", "yearly"}
      [] source = "monthly" -> {"yearly"}
      [] OTHER -> {}

\* period_reachability.
Reachability(source, destination) ==
    CASE source = destination          -> "pass_through"
      [] destination \in Tiles(source) -> "aggregate"
      [] OTHER                         -> "unreachable"

(***************************************************************************)
(* The cadence of an axis.                                                 *)
(***************************************************************************)
\* The step after each stamp but the last.
Steps(stamps)  == [n \in stamps \ {Max(stamps)} |->
                     CHOOSE g \in 1..366 * (LastYear - FirstYear + 1) : n + g \in stamps /\ \A h \in 1..(g - 1) : n + h \notin stamps]

\* is_dekadal_axis.
\* Mutant: the day of the month decides.
IsDekadalByDay(stamps) == \A n \in stamps : Calendar[n].day \in DekadStartDays

IsDekadal(stamps) ==
    /\ \A n \in stamps : Calendar[n].day \in DekadStartDays
    /\ LET steps == Steps(stamps) IN \E n \in DOMAIN steps : steps[n] <= 11

\* The k-th least step.
Ranked(steps, k) ==
    CHOOSE g \in {steps[n] : n \in DOMAIN steps} :
        /\ Cardinality({n \in DOMAIN steps : steps[n] <= g}) >= k
        /\ Cardinality({n \in DOMAIN steps : steps[n] < g}) < k

\* Twice the median, which may lie between two steps.
MedianTwice(steps) ==
    LET half == Cardinality(DOMAIN steps) \div 2
    IN  IF Cardinality(DOMAIN steps) % 2 = 1 THEN 2 * Ranked(steps, half + 1)
        ELSE Ranked(steps, half) + Ranked(steps, half + 1)

Unknowable == "none"

InferCadence(stamps) ==
    IF Cardinality(stamps) < 2 THEN Unknowable
    ELSE LET median == MedianTwice(Steps(stamps)) IN
         CASE median <= 2        -> "daily"
           [] median > 2 /\ IsDekadal(stamps) -> "dekadal"
           [] median \in 3..740 /\ ~IsDekadal(stamps) ->
                IF median <= 16 THEN "weekly" ELSE IF median <= 64 THEN "monthly"
                ELSE IF median >= 660 THEN "yearly" ELSE Unknowable
           [] OTHER -> Unknowable
=============================================================================
