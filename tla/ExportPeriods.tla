---------------------------- MODULE ExportPeriods ----------------------------
(***************************************************************************)
(* Which periods a named export publishes.  A graph loads a cube and       *)
(* aggregates it in time; every aggregation leaves evidence of the periods *)
(* its input did not fully cover (openeo/execution.py, aggregate_dekads,   *)
(* shared/provenance.py); the export checks its declarations against the   *)
(* evidence, refuses or drops what is incomplete, and refuses data at      *)
(* another spacing than its period (exports/service.py).                   *)
(*                                                                         *)
(* The graph is a chain.  A stamp is the first day of its period.          *)
(***************************************************************************)
EXTENDS Periods
LOCAL INSTANCE FiniteSetsExt

CONSTANTS
    Loads,       \* [cadence, stamps, carried]: cubes a graph may load, at which cadence, stamped with it or not
    Reducers,
    Exports,     \* [period, declared, drop, dataset]: what an export may say
    MaxSteps     \* bound: aggregations of a graph
ASSUME ExportAssumption ==
    /\ MaxSteps \in Nat
    /\ \A l \in Loads : l.cadence \in Countable /\ l.stamps # {} /\ IsFiniteSet(l.stamps) /\ l.carried \in BOOLEAN
    /\ \A e \in Exports : e.period \in Destinations /\ e.declared \in Reducers \cup {Unknowable}

VARIABLES
    loaded,    \* what was loaded, or nothing yet
    cube,      \* its stamps, those without a value, the cadence it carries, and whether it is sound (see Sound)
    evidence,  \* of each aggregation: the period it produced, its reducer, the incomplete labels, whether it counted
    export     \* working, refused, or the periods published

exportVars == <<loaded, cube, evidence, export>>

NoLoad == [cadence |-> Unknowable, stamps |-> {}, carried |-> FALSE]

ExportInit ==
    /\ loaded = NoLoad /\ evidence = <<>>
    /\ cube = [stamps |-> {}, empty |-> {}, cadence |-> Unknowable, sound |-> TRUE]
    /\ export = [state |-> "working", of |-> Unknowable, periods |-> {}]

Load(l) ==
    /\ loaded = NoLoad /\ loaded' = l
    /\ cube' = [cube EXCEPT !.stamps = l.stamps, !.cadence = IF l.carried THEN l.cadence ELSE Unknowable]
    /\ UNCHANGED <<evidence, export>>

Working == loaded # NoLoad /\ export.state = "working"

\* For the properties.  The spacing of a cube that carries no cadence is a guess, and
\* aggregate_dekads always guesses.  A step keeps a cube sound that takes its input for what
\* it is, and has a value in each of its bins: neither of them is looked at by the checks.
InTruth            == IF evidence = <<>> THEN loaded.cadence ELSE cube.cadence
GuessedWell(source) == cube.cadence = Unknowable => source = InTruth
Sound               == cube.sound /\ cube.empty = {}

Evidence(period, method, incomplete, counted) ==
    evidence' = Append(evidence, [period |-> period, method |-> method, incomplete |-> incomplete, counted |-> counted])

(***************************************************************************)
(* aggregate_temporal_period.                                              *)
(***************************************************************************)
\* A season has no cadence.
OpenEOPeriods == {"daily", "weekly", "monthly", "yearly", "season"}
CadenceOf(period) == IF period = "season" THEN Unknowable ELSE period

\* The library's resample: every bin from the first stamp to the last, those without one too.
Bin(n, period) ==
    IF period # "season" THEN Bounds(n, period)[1]
    ELSE LET month == 12 * Calendar[n].year + Calendar[n].month - 1 - (Calendar[n].month % 3)
         IN  FirstOfMonth(month \div 12, (month % 12) + 1)

Bins(stamps, period) == {Bin(n, period) : n \in Min(stamps)..Max(stamps)}

\* Mutant: the cadence is always read off the axis.
SourceRead == InferCadence(cube.stamps)

Source == IF cube.cadence # Unknowable THEN cube.cadence ELSE InferCadence(cube.stamps)

\* Mutant: the periods short of steps are not told.
ToldNothing(source, period) == {}

Told(source, period) == IF source = period THEN {} ELSE Incomplete(cube.stamps, source, period)

Aggregate(period, method) ==
    LET source == Source
        to     == CadenceOf(period)
        values == {Bin(n, period) : n \in cube.stamps \ cube.empty}
        counts == to # Unknowable /\ source # Unknowable /\ (source = to \/ source \in Countable)
    IN  /\ Working /\ Len(evidence) < MaxSteps
        /\ cube.cadence # Unknowable /\ to # Unknowable => Reachability(cube.cadence, to) # "unreachable"
        /\ Evidence(to, method, IF counts THEN Told(source, to) ELSE {}, counts)
        /\ cube' = LET bins == Bins(cube.stamps, period)
                   IN  [stamps |-> bins, empty |-> bins \ values, cadence |-> to,
                       sound |-> Sound /\ GuessedWell(source)
                                 /\ (to # Unknowable => Reachability(source, to) # "unreachable")]
        /\ UNCHANGED <<loaded, export>>

(***************************************************************************)
(* aggregate_dekads.                                                       *)
(***************************************************************************)
IsDekads(stamps) ==
    /\ \A n \in stamps : Calendar[n].day \in DekadStartDays
    /\ Cardinality(stamps) > 1 => \E n \in stamps : Calendar[n].day # 1

Overlap(n, target) ==
    Max({0, Min({DekadEnd(n) + 1, target[2]}) - Max({n, target[1]})})

Contributing(target) == {n \in cube.stamps : Overlap(n, target) > 0}

AggregateDekads(period, method) ==
    LET targets == {Bounds(day, period) : day \in UNION {n..DekadEnd(n) : n \in cube.stamps}}
        short   == {t \in targets : MapThenSumSet(LAMBDA n : Overlap(n, t), Contributing(t)) < t[2] - t[1]}
    IN  /\ Working /\ Len(evidence) < MaxSteps
        /\ period \in {"weekly", "monthly"} /\ IsDekads(cube.stamps)
        /\ Evidence(period, method, {Label(t[1], period) : t \in short}, TRUE)
        /\ cube' = [stamps |-> {t[1] : t \in targets}, cadence |-> period, sound |-> Sound /\ InTruth = "dekadal",
                    empty |-> {t[1] : t \in {t \in targets : Contributing(t) \subseteq cube.empty}}]
        /\ UNCHANGED <<loaded, export>>

(***************************************************************************)
(* The checks of a named export.                                           *)
(***************************************************************************)
Entries     == {evidence[i] : i \in 1..Len(evidence)}
Producing(e) == {i \in 1..Len(evidence) : evidence[i].period = e.period}

\* check_cadence_declaration.
CadenceDeclared(e) ==
    e.dataset => CASE Reachability(loaded.cadence, e.period) = "pass_through" -> e.declared = Unknowable
                   [] Reachability(loaded.cadence, e.period) = "aggregate"    -> e.declared # Unknowable
                   [] OTHER -> FALSE

\* _check_temporal_declaration.
AsDeclared(e) ==
    IF e.declared # Unknowable
    THEN Cardinality(Producing(e)) = 1 /\ \A i \in Producing(e) : evidence[i].method = e.declared
    ELSE evidence = <<>> \/ Producing(e) # {}

\* _unverifiable_completeness.
Verifiable(e) ==
    \A entry \in Entries : ~entry.counted =>
        entry.period # Unknowable /\ Reachability(entry.period, e.period) = "unreachable"

\* _incomplete_at_destination.
\* Mutant: only what the last step found short counts.
IncompleteAtLast(e) == UNION {entry.incomplete : entry \in {x \in Entries : x.period = e.period}}

IncompleteAt(e) ==
    UNION {LET outcome == Reachability(entry.period, e.period) IN
           CASE outcome = "pass_through" -> entry.incomplete
             [] outcome = "aggregate"    -> {Label(LabelStart(l, entry.period), e.period) : l \in entry.incomplete}
             [] OTHER -> {} : entry \in {x \in Entries : x.period # Unknowable}}

Kept(e) ==
    LET incomplete == IF e.drop THEN IncompleteAt(e) ELSE {}
    IN  {n \in cube.stamps : Label(n, e.period) \notin incomplete}

\* check_data_cadence: on what is left, and not where nothing can be read.
SpacedAs(e) ==
    LET source == IF cube.cadence # Unknowable THEN cube.cadence ELSE InferCadence(Kept(e))
    IN  source = Unknowable \/ source = e.period

Accepted(e) ==
    /\ CadenceDeclared(e) /\ AsDeclared(e) /\ Verifiable(e)
    /\ IncompleteAt(e) = {} \/ e.drop
    /\ SpacedAs(e)

\* A stamp without a value is no record.
Save(e) ==
    /\ Working
    /\ export' = IF Accepted(e)
                 THEN [state |-> IF e.drop THEN "trimmed" ELSE "saved", of |-> e.period,
                       periods |-> {Label(n, e.period) : n \in Kept(e) \ cube.empty}]
                 ELSE [state |-> "refused", of |-> e.period, periods |-> {}]
    /\ UNCHANGED <<loaded, cube, evidence>>

ExportNext ==
    \/ loaded = NoLoad /\ \E l \in Loads : Load(l)
    \/ \E method \in Reducers : \/ \E period \in OpenEOPeriods : Aggregate(period, method)
                                \/ \E period \in {"weekly", "monthly"} : AggregateDekads(period, method)
    \/ \E e \in Exports : Save(e)

ExportSpec == ExportInit /\ [][ExportNext]_exportVars

-----------------------------------------------------------------------------
(* Every variable has its type.                                             *)
ExportTypeOK ==
    /\ loaded.carried \in BOOLEAN /\ (loaded.stamps # {} => loaded.cadence \in Countable)
    /\ cube.empty \subseteq cube.stamps /\ cube.cadence \in Cadences \cup {Unknowable}
    /\ \A entry \in Entries : entry.method \in Reducers /\ entry.counted \in BOOLEAN
    /\ export.state \in {"working", "refused", "saved", "trimmed"}

DayIsLoaded(n) == StartOf(PeriodOf(n, loaded.cadence), loaded.cadence) \in loaded.stamps

InFull(label) ==
    LET bounds == Bounds(LabelStart(label, export.of), export.of)
    IN  \A n \in bounds[1]..(bounds[2] - 1) : DayIsLoaded(n)

(* An export publishes no period that the data it was made of does not cover *)
(* to the last day, and one that drops drops no other: through any chain of  *)
(* aggregations but those with a step that aggregates over a bin an earlier  *)
(* one left empty, or takes a cube without a stamped cadence for another     *)
(* than it is, or to a period its own do not tile.  Through these a short    *)
(* period is published, or a whole one dropped, and the "loses nothing" of   *)
(* exports/service.py:349-352 does not hold.                                 *)
ExportsAreWhole ==
    export.state \in {"saved", "trimmed"} /\ cube.sound /\ GuessedWell(Source) =>
        /\ \A label \in export.periods : InFull(label)
        /\ export.state = "trimmed" =>
              \A label \in {Label(n, export.of) : n \in loaded.stamps} : InFull(label) => label \in export.periods
=============================================================================
