---------------------------- MODULE OwnerHistory ----------------------------
(***************************************************************************)
(* research/sec_history.py, classify_owner: whether a reporting owner      *)
(* trades by the calendar ("routine") or not, as it was public on the      *)
(* first of January of a year; and research/capture.py, which records the  *)
(* classification with a decision of that year, from a pinned snapshot of  *)
(* the archives.                                                           *)
(*                                                                         *)
(* An owner's filings are drawn from a fixed pool and arrive as the years  *)
(* go by.  A date is a number with DaysPerYear days to a year, the first   *)
(* of them the first of January; of a transaction only its year and month  *)
(* matter.  Year 1 is 2006, where the observation starts.                  *)
(***************************************************************************)
EXTENDS Naturals, FiniteSets

CONSTANTS
    Pool,           \* filings the owner may make, see Filings
    DaysPerYear,
    Months,
    LastYear,       \* the last year of the model
    MaxCaptures     \* bound on the decisions whose classification is recorded

Years  == 1 .. LastYear
FirstPartitionable == 4     \* first_complete_year + 3

DateIn(y, day) == y * DaysPerYear + day
Cutoff(y)      == DateIn(y, 0)

\* form stands for the form type without its "/A", and the issuer; original is the date an
\* amendment gives for what it amends, 0 when it gives none; number orders the accessions.
Filings == [number : Nat, filed : Nat, form : STRING, amendment : BOOLEAN, original : Nat,
            owners : {"owner", "several", "other"}, trades : SUBSET (Years \X Months),
            invalid : BOOLEAN]

OwnerAssumption ==
    /\ DaysPerYear \in Nat \ {0}
    /\ LastYear \in Nat \ {0}
    /\ MaxCaptures \in Nat
    /\ IsFiniteSet(Pool)
    /\ Pool \subseteq Filings
    /\ \A f, g \in Pool : f.number = g.number => f = g

VARIABLES
    year,
    filings,    \* what the owner has filed
    captured    \* classifications recorded with a decision

vars == <<year, filings, captured>>

-----------------------------------------------------------------------------
(* classify_owner *)

States == {"routine", "opportunistic", "unpartitionable", "ambiguous_multi_owner"}

Before(F, y) == {f \in F : f.filed < Cutoff(y)}

Originals(F)  == {f \in F : ~ f.amendment}
Amendments(F) == F \ Originals(F)

\* The originals an amendment may mean.
Amended(F, a) ==
    {f \in Originals(F) : f.form = a.form /\ f.owners = a.owners /\ f.filed = a.original}

AmendmentsOf(F, f) == {a \in Amendments(F) : f \in Amended(F, a)}

SameText(a, b) == a.form = b.form /\ a.owners = b.owners /\ a.trades = b.trades
                    /\ a.invalid = b.invalid

\* _effective_filings finds no resolution error.
Resolved(F) ==
    /\ \A a \in Amendments(F) : Cardinality(Amended(F, a)) = 1
    /\ \A a, b \in Amendments(F) :
         (a.filed = b.filed /\ Amended(F, a) = Amended(F, b)) => SameText(a, b)

\* An original, or the last amendment of it.
Effective(F, f) ==
    IF AmendmentsOf(F, f) = {} THEN f
    ELSE CHOOSE a \in AmendmentsOf(F, f) :
           \A b \in AmendmentsOf(F, f) :
             a.filed > b.filed \/ (a.filed = b.filed /\ a.number <= b.number)

\* Months of year t in which the effective filings trade.
TradeMonths(F, t) ==
    {m \in Months : \E f \in Originals(F) : <<t, m>> \in Effective(F, f).trades}

Window(y) == y - 3 .. y - 1

\* has_complete_window and has_routine_pattern, on the first of January of y.
CompleteWindow(F, y) == \A t \in Window(y) : TradeMonths(Before(F, y), t) # {}
RoutinePattern(F, y) ==
    CompleteWindow(F, y) /\ \E m \in Months : \A t \in Window(y) : m \in TradeMonths(Before(F, y), t)

\* Mutant: the loop looks at every filing of the classification year's input.
EvaluateAll(F, y, state) ==
    IF state = "routine" \/ ~ Resolved(F) THEN state
    ELSE IF \E m \in Months : \A t \in Window(y) : m \in TradeMonths(F, t) THEN "routine"
    ELSE IF \A t \in Window(y) : TradeMonths(F, t) # {} THEN "opportunistic"
    ELSE state

\* One turn of the loop over the evaluation years; "routine" ends it.
Evaluate(F, y, state) ==
    IF state = "routine" \/ ~ Resolved(Before(F, y)) THEN state
    ELSE IF RoutinePattern(F, y) THEN "routine"
    ELSE IF CompleteWindow(F, y) THEN "opportunistic"
    ELSE state

\* The loop, from the first year that can be partitioned.
Replay(F) ==
    LET replay[y \in Years] ==
          IF y < FirstPartitionable THEN "unpartitionable"
          ELSE Evaluate(F, y, replay[y - 1])
    IN  replay

\* classify_owner for year y, from a snapshot that reaches to the end of year covered.
Classify(F, y, covered) ==
    LET visible == Before(F, y)
    IN  IF \/ covered < y - 1
           \/ \E f \in visible : f.owners # "owner" \/ f.invalid
           \/ ~ Resolved(visible)
        THEN "unpartitionable"
        ELSE Replay(visible)[y]

-----------------------------------------------------------------------------
(* Filing, and _capture_owner_history *)

Init ==
    /\ year = 1
    /\ filings = {}
    /\ captured = {}

\* The owner files, in the order of the dates.
File(f) ==
    /\ f.filed \in Cutoff(year) .. Cutoff(year + 1) - 1
    /\ \A g \in filings : g.filed < f.filed \/ (g.filed = f.filed /\ g.number < f.number)
    /\ filings' = filings \cup {f}
    /\ UNCHANGED <<year, captured>>

\* owner_filings: the rows before the first of January, of a snapshot that holds the
\* archives up to a year.
SnapshotRows(covered) == {f \in Before(filings, year) : f.filed < Cutoff(covered + 1)}

\* A decision of this year: the owner of its trade is one, shared or unknown, and the
\* pinned snapshot verifies or the classification is given up.
CaptureHistory(mapping, covered, verified) ==
    LET state == IF mapping = "ambiguous" THEN "ambiguous_multi_owner"
                 ELSE IF mapping = "missing" \/ ~ verified \/ year < FirstPartitionable
                   THEN "unpartitionable"
                 ELSE Classify(SnapshotRows(covered), year, covered)
    IN  /\ Cardinality(captured) < MaxCaptures
        /\ captured' = captured \cup {[year |-> year, covered |-> covered, state |-> state]}
        /\ UNCHANGED <<year, filings>>

NewYear ==
    /\ year < LastYear
    /\ year' = year + 1
    /\ UNCHANGED <<filings, captured>>

Next ==
    \/ \E f \in Pool : File(f)
    \/ \E mapping \in {"exact", "ambiguous", "missing"}, covered \in 1 .. year,
          verified \in BOOLEAN : CaptureHistory(mapping, covered, verified)
    \/ NewYear

Spec == Init /\ [][Next]_vars

-----------------------------------------------------------------------------
(* Properties *)

TypeOK ==
    /\ year \in Years
    /\ filings \subseteq Pool
    /\ captured \subseteq [year : Years, covered : Years, state : States]

\* What was public on the first of January of y shows the pattern of three years.
ShownBy(F, y) == Resolved(Before(F, y)) /\ RoutinePattern(F, y)

\* classify_owner, "using information public at each Jan 1": however the owner files and
\* amends later, and however far a snapshot of these filings reaches, the recorded
\* classification of a year is the one of what was public then; it is "routine" exactly from
\* the first year on that showed the pattern.  A decision pins one snapshot: archives that the
\* SEC replaces with other rows (SecHistory) are not carried over to the filings here.
ClassifiedOnce ==
    \A c \in captured :
        c.state \in {"routine", "opportunistic"} =>
            /\ c.covered >= c.year - 1
            /\ c.state = Classify(filings, c.year, LastYear)
            /\ c.state = "routine" <=>
                 \E y \in FirstPartitionable .. c.year : ShownBy(filings, y)
=============================================================================
