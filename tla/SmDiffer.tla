------------------------------ MODULE SmDiffer ------------------------------
(***************************************************************************)
(* sm-differ diff: one metric on two architectures over one window, gated  *)
(* by temperature, recorded in a database, and judged.  One diff after     *)
(* another, killed anywhere.                                               *)
(***************************************************************************)
EXTENDS Integers, SequencesExt

CONSTANTS
    Baseline, Current, \* the architectures
    Windows,           \* what Prometheus may hold of one: temperatures, readings
    NaN,               \* a reading that is not a number
    Wanted,            \* scrapes that the window should have produced
    MaxDiffs           \* a bound

Archs == {Baseline, Current}

ASSUME DifferAssumption ==
    /\ Baseline # Current /\ NaN \in Int /\ Wanted \in Nat \ {0, 1}
    /\ \A w \in Windows : w.temps \subseteq {"cool", "hot", "nan"} /\ w.values \in Seq(Int)

VARIABLES
    turn,    \* how many diffs were started
    clock,   \* seconds
    phase,   \* how many of its four rows the diff has written, or Idle
    window,  \* of each architecture, over the diff's window
    sides,   \* the diff's provenance and measurement of each
    started, \* its stamp
    runs,    \* the run table, in order of id
    rows,    \* the measurement table: the runs that have one, refused or not
    verdict  \* of the last diff, if it came to one: it, and the polarity

differ == <<turn, clock, phase, window, sides, started, runs, rows, verdict>>

Idle      == 5
NoVerdict == [is |-> "none", higher |-> TRUE]
NoWindow  == [temps |-> {}, values |-> <<>>]
NoSide    == [driver |-> "none", measurement |-> [kind |-> "NotRun"]]

DifferInit ==
    /\ turn = 0 /\ clock = 0 /\ phase = Idle /\ started = 0
    /\ window = [a \in Archs |-> NoWindow] /\ sides = [a \in Archs |-> NoSide]
    /\ runs = <<>> /\ rows = {} /\ verdict = NoVerdict

-----------------------------------------------------------------------------
(* measure.rs.                                                              *)

Sum(values)     == FoldSeq(LAMBDA v, s : v + s, 0, values)
Squares(values) == FoldSeq(LAMBDA v, s : v * v + s, 0, values)

Measured(values) == [kind |-> "Measured", values |-> values]
Refused(why)     == [kind |-> "Refused", why |-> why]

\* Sample::new, on Sample::checked.
Sample(values) ==
    CASE NaN \in ToSet(values)   -> Refused("NotFinite")
      [] Len(values) < 2         -> Refused("NoVariance")
      [] Len(values) < Wanted    -> Refused("TooFewSamples")
      [] OTHER                   -> Measured(values)

-----------------------------------------------------------------------------
(* diff.rs: one side.                                                       *)

\* The peak, by total_cmp: above any number is a NaN.
hottest(temps) == IF "nan" \in temps THEN "nan" ELSE IF "hot" \in temps THEN "hot" ELSE "cool"

\* A peak that is not above the limit lets the metric through, a NaN too.
\* (Mutant: a gate that could not be read is passed.)
MeasureUngated(w) ==
    IF hottest(w.temps) = "hot" THEN Refused("TooHot")
    ELSE IF w.values = <<>> THEN [kind |-> "NotRun"] ELSE Sample(w.values)
Measure(w) ==
    CASE w.temps = {}              -> Refused("EnvironmentMismatch")
      [] hottest(w.temps) = "hot"  -> Refused("TooHot")
      [] OTHER -> IF w.values = <<>> THEN [kind |-> "NotRun"] ELSE Sample(w.values)

-----------------------------------------------------------------------------
(* verdict.rs.  Means are compared as products, since n * mean is a whole.  *)

\* |mean| <= std_dev, and the two of them zero.
NotFromZero(v) ==
    LET n == Len(v)  s == Sum(v) IN (n - 1) * s * s <= n * (n * Squares(v) - s * s)

IsFlat(v) == Len(v) * Squares(v) = Sum(v) * Sum(v)
Moved(b, c) == Sum(c) * Len(b) - Sum(b) * Len(c)

\* welch_p_value: whether p is under the level is not a matter of these readings
\* alone, but without a spread there is no p, and without a move none that small.
Estimable(b, c) == ~(IsFlat(b) /\ IsFlat(c)) \/ Moved(b, c) = 0

\* Relative to |baseline|, the move is over the floor of 1 %.
Practical(b, c) ==
    LET moved == 100 * Moved(b, c)  mean == Sum(b) * Len(c)
        floor == IF mean < 0 THEN -mean ELSE mean
    IN moved > floor \/ moved < -floor

compare(b, c, higher, significant) ==
    CASE b.kind # "Measured" \/ c.kind # "Measured"  -> "Broken"
      [] OTHER ->
         LET x == b.values  y == c.values IN
         CASE NotFromZero(x) \/ ~Estimable(x, y)     -> "Broken"
           [] ~(significant /\ Practical(x, y)) \/ Moved(x, y) = 0 -> "Unchanged"
           [] OTHER -> IF (Moved(x, y) > 0) = higher THEN "Improved" ELSE "Regressed"

compare_recorded(b, c, higher, significant) ==
    IF b.driver # c.driver THEN "Broken"
    ELSE compare(b.measurement, c.measurement, higher, significant)

-----------------------------------------------------------------------------

\* Identity, gate and metric: of the window that ends now, so nothing that is
\* read here changes any more.  A probe or a query that fails ends it here.
\* The current side's driver is the baseline's, or another.
Start(w, driver) ==
    /\ phase = Idle /\ turn < MaxDiffs /\ turn' = turn + 1 /\ phase' = 0
    /\ window' = w /\ started' = clock /\ verdict' = NoVerdict
    /\ sides' = [a \in Archs |->
           [driver |-> IF a = Current THEN driver ELSE "580", measurement |-> Measure(w[a])]]
    /\ UNCHANGED <<clock, runs, rows>>

Side == IF phase < 2 THEN Baseline ELSE Current

begin_run ==
    /\ phase \in {0, 2} /\ phase' = phase + 1
    /\ runs' = Append(runs, [arch |-> Side, started |-> started, diff |-> turn])
    /\ UNCHANGED <<turn, clock, window, sides, started, rows, verdict>>

record ==
    /\ phase \in {1, 3} /\ phase' = phase + 1
    /\ rows' = rows \cup {Len(runs)}
    /\ UNCHANGED <<turn, clock, window, sides, started, runs, verdict>>

Judge(higher, significant) ==
    /\ phase = 4 /\ phase' = Idle
    /\ verdict' = [is |-> compare_recorded(sides[Baseline], sides[Current], higher, significant),
                   higher |-> higher]
    /\ UNCHANGED <<turn, clock, window, sides, started, runs, rows>>

Dies ==
    /\ phase # Idle /\ phase' = Idle
    /\ window' = [a \in Archs |-> NoWindow] /\ sides' = [a \in Archs |-> NoSide]
    /\ UNCHANGED <<turn, clock, started, runs, rows, verdict>>

\* A diff reads the clock once, so it may as well stand still during one.
Second ==
    /\ phase = Idle /\ clock < MaxDiffs /\ clock' = clock + 1
    /\ UNCHANGED <<turn, phase, window, sides, started, runs, rows, verdict>>

DifferNext ==
    \/ begin_run \/ record \/ Dies \/ Second
    \/ \E w \in [Archs -> Windows], driver \in {"580", "590"} : Start(w, driver)
    \/ \E higher, significant \in BOOLEAN : Judge(higher, significant)

DifferSpec == DifferInit /\ [][DifferNext]_differ

\* ORDER BY started_utc DESC, id DESC LIMIT 1, of the runs that have a row.
\* (Mutant: without the id, the first of a second is as good.)
OfArch(arch) == {r \in rows : runs[r].arch = arch}
Newest(arch) == {r \in OfArch(arch) : \A q \in OfArch(arch) : runs[q].started <= runs[r].started}
latest_of_second(arch) == Min(Newest(arch))
latest(arch)           == Max(Newest(arch))

-----------------------------------------------------------------------------
(* Properties.                                                              *)

\* A conclusive verdict stands on readings that were all there and all numbers,
\* on both sides, of nodes seen cool in the whole window (save one whose peak
\* was unreadable) and of one driver; a direction that it reports is the one the
\* means moved, below zero too, and is not between two instruments that cannot
\* see noise.
ConclusiveIsEarned ==
    verdict.is \in {"Improved", "Regressed", "Unchanged"} =>
        LET b == window[Baseline].values  c == window[Current].values IN
        /\ \A a \in Archs :
               /\ NaN \notin ToSet(window[a].values) /\ Len(window[a].values) >= Wanted
               /\ window[a].temps = {"cool"} \/ "nan" \in window[a].temps
        /\ sides[Baseline].driver = sides[Current].driver
        /\ verdict.is # "Unchanged" =>
               /\ (Sum(c) * Len(b) > Sum(b) * Len(c)) = (verdict.higher = (verdict.is = "Improved"))
               /\ Cardinality(ToSet(b)) > 1 \/ Cardinality(ToSet(c)) > 1

\* Once a diff has its verdict, what the database has of the two architectures
\* as their latest are that diff's own two sides, whatever earlier diffs were
\* killed between theirs, and if several began in one second.
LatestIsTheVerdicts ==
    verdict # NoVerdict =>
        \A a \in Archs : OfArch(a) # {} /\ runs[latest(a)].diff = turn

\* A node that was too hot in the window gives no number.
HotIsRefused ==
    \A a \in Archs : "hot" \in window[a].temps => sides[a].measurement.kind # "Measured"

=============================================================================
