------------------------ MODULE TrialRuntime_proofs ------------------------
(***************************************************************************)
(* The trial store for any workers, evidence, sessions, slots and clock:   *)
(* its tables keep their types, its entry dates are sealed in order, the   *)
(* enrolled positions fit the slots, a terminal receipt keeps the universe *)
(* it binds, and every verdict is given once.                              *)
(***************************************************************************)
EXTENDS TrialRuntime, FiniteSetTheorems, WellFoundedInduction, TLAPS

-----------------------------------------------------------------------------
(* The inductive invariant *)

\* Only recorded evidence is imported, only a candidate is resolved, and what was set
\* aside is no candidate.
Custody ==
    \A i \in Items :
      /\ imported[i] # Never => recorded[i] # Never /\ aside[i] = "none"
      /\ resolution[i] # Unresolved => imported[i] # Never

\* No candidate waits behind a sealed date, positions belong to completed dates, and the
\* dates were sealed in their order.
InOrder ==
    /\ \A i \in Pending : \A d \in Sealed : d < Planned(i)
    /\ \A i \in Enrolled : Planned(i) \in Completed
    /\ \A d, e \in Sealed : d < e => SealedAt(d) <= SealedAt(e)

\* The positions are numbered in the order of their dates and ranks, without a gap.
Numbered ==
    /\ \A i, j \in Enrolled :
         (Planned(i) < Planned(j) \/ (Planned(i) = Planned(j) /\ Rank[i] < Rank[j]))
           => resolution[i].seq < resolution[j].seq
    /\ {resolution[i].seq : i \in Enrolled} = 1 .. Cardinality(Enrolled)

\* What a pass knows: the records it goes through were written; the date it is about to
\* complete is past its cutoff; and the book it read holds every position truly held on
\* that date, unless a position was enrolled since.
Truly(d) == {i \in Enrolled : Planned(i) < d /\ ExitDay(i) >= d}
Knows(w) ==
    /\ At(w, "import") => \A i \in work[w].left : recorded[i] # Never
    /\ At(w, "commit") \/ At(w, "after_open") =>
         /\ work[w].left # {}
         /\ Cutoff[Date(w)] <= work[w].now
    /\ At(w, "commit") =>
         /\ work[w].next <= Cardinality(Enrolled) + 1
         /\ work[w].next = Cardinality(Enrolled) + 1 => Truly(Date(w)) \subseteq work[w].book

IInv == TypeOK /\ Custody /\ InOrder /\ Numbered /\ EnrolledInTime /\ \A w \in Workers : Knows(w)

(* What is needed beside it once the cohort is frozen.  Neither the finalizer nor the      *)
(* lapse of a date looks at the freeze again: either no other pass is under way, or the    *)
(* clock is never set back from a session's cutoff to before an earlier session's open.    *)
Alone == Workers = {Scheduled}
Brief == \A d, e \in Dates : d < e => OpenAt[d] + MaxFaults * MaxSetback <= Cutoff[e]

Entering(w) == At(w, "entry") \/ At(w, "commit") \/ At(w, "after_open")

\* The clock a pass has read is ahead by what the clock was set back since.
Ahead(w) == Entering(w) => work[w].now <= clock + faults * MaxSetback

\* A pass that seals dates under the freeze is too early for any date that is left.
Early(w) ==
    Entering(w) /\ Frozen
      => \E e \in Completed : \A d \in Dates : e < d => work[w].now < Cutoff[d]

\* The cohort is frozen by its last date.
Last == \A d \in Completed : Reached(d) => \A i \in Enrolled : Planned(i) <= d

\* The coordinator seals only what it has staged and published.
Ceremony ==
    /\ receipt.kind = "terminal_seal" => published /\ staged # NotStaged
    /\ coord # "idle" => staged # NotStaged /\ receipt = NoReceipt
    /\ coord = "seal" => published

\* What is staged or bound is what the store holds.
Binding ==
    /\ staged # NotStaged => Frozen /\ staged.projection = Projection
    /\ receipt # NoReceipt => receipt.universe = Candidates

FInv == Last /\ Ceremony /\ Binding /\ \A w \in Workers : Ahead(w) /\ Early(w)

-----------------------------------------------------------------------------
(* Lemmas about the operators *)

(* A nonempty set of numbers has a least element, which Min picks. *)
LEMMA Least ==
    ASSUME NEW S \in SUBSET Nat, S # {}
    PROVE  /\ Min(S) \in S
           /\ \A x \in S : Min(S) <= x
<1> DEFINE Initials == {0 .. x : x \in S}
<1>1. Initials \subseteq FiniteSubsetsOf(Nat) /\ Initials # {}
  <2>1. ASSUME NEW x \in S PROVE 0 .. x \in FiniteSubsetsOf(Nat)
    BY FS_Interval DEF FiniteSubsetsOf
  <2> QED
    BY <2>1
<1>2. PICK A \in Initials : \A B \in Initials : ~ (<<B, A>> \in StrictSubsetOrdering(Nat))
  <2>1. IsWellFoundedOn(StrictSubsetOrdering(Nat), FiniteSubsetsOf(Nat))
    BY FS_StrictSubsetOrderingWellFounded
  <2> HIDE DEF Initials
  <2> QED
    BY <1>1, <2>1, WFMin
<1>3. PICK m \in S : A = 0 .. m
  BY <1>2
<1>4. ASSUME NEW x \in S PROVE m <= x
  <2>1. ~ (<<0 .. x, 0 .. m>> \in StrictSubsetOrdering(Nat))
    BY <1>2, <1>3
  <2> SUFFICES ASSUME x < m PROVE FALSE
    OBVIOUS
  <2>2. 0 .. x \subseteq 0 .. m /\ 0 .. x # 0 .. m
    OBVIOUS
  <2> QED
    BY <2>1, <2>2 DEF StrictSubsetOrdering
<1> QED
  BY <1>4 DEF Min

(* The times and the sessions are numbers. *)
LEMMA Numbers ==
    /\ Dates \subseteq Nat \ {0} /\ Times \subseteq Nat
    /\ \A d \in Dates : Cutoff[d] \in Nat /\ OpenAt[d] \in Nat /\ Cutoff[d] < OpenAt[d]
    /\ \A d, e \in Dates : d < e => OpenAt[d] < Cutoff[e]
    /\ \A i \in Items : Rank[i] \in Nat /\ Signal[i] \in Nat
    /\ \A i, j \in Items : Rank[i] = Rank[j] => i = j
    /\ {Horizon, Slots, MaxFaults, MaxSetback, MaxClock} \subseteq Nat
BY TrialAssumption DEF TrialAssumption, Dates, Times

LEMMA TimesAndDates ==
    /\ \A t \in Times : t \in Nat
    /\ \A d \in Dates : d \in Nat
BY Numbers

(* Every record has a session, the first whose cutoff is after its signal. *)
LEMMA PlannedDate ==
    ASSUME NEW i \in Items
    PROVE  Planned(i) \in Dates
<1>1. {d \in Dates : Signal[i] < Cutoff[d]} \in SUBSET Nat
  BY Numbers
<1>2. {d \in Dates : Signal[i] < Cutoff[d]} # {}
  BY TrialAssumption DEF TrialAssumption
<1> QED
  BY <1>1, <1>2, Least DEF Planned

(* A position leaves within its horizon. *)
LEMMA ExitBeforeHorizon ==
    ASSUME NEW i \in Items
    PROVE  /\ ExitDay(i) \in Nat /\ LastDay(i) \in Nat
           /\ Planned(i) <= ExitDay(i) /\ ExitDay(i) <= LastDay(i)
<1>1. Planned(i) \in Nat \ {0}
  BY PlannedDate, Numbers
<1>2. Stays[i] \in 1 .. Horizon /\ Horizon \in Nat
  BY TrialAssumption, Numbers DEF TrialAssumption
<1> QED
  BY <1>1, <1>2 DEF ExitDay, LastDay

(* The next record of a pass is one of those that are left. *)
LEMMA FirstOf ==
    ASSUME NEW S \in SUBSET Items, S # {}
    PROVE  First(S) \in S
<1> DEFINE Ranks == {Rank[i] : i \in S}
<1>1. Ranks \in SUBSET Nat /\ Ranks # {}
  BY Numbers
<1>2. Min(Ranks) \in Ranks /\ \A r \in Ranks : Min(Ranks) <= r
  <2> HIDE DEF Ranks
  <2> QED
    BY <1>1, Least
<1>3. PICK i \in S : Rank[i] = Min(Ranks)
  BY <1>2
<1>4. \A j \in S : Rank[i] <= Rank[j]
  BY <1>2, <1>3
<1> QED
  BY <1>4 DEF First

(* The earliest date of the candidates left is the date of one of them. *)
LEMMA DateOf ==
    ASSUME NEW w, NEW S \in SUBSET Items, S # {}, work[w].left = S
    PROVE  /\ Date(w) \in Dates
           /\ \E i \in S : Planned(i) = Date(w)
<1> DEFINE Days0 == {Planned(i) : i \in S}
<1>1. Days0 \in SUBSET Nat /\ Days0 # {} /\ Days0 \subseteq Dates
  <2>1. ASSUME NEW i \in S PROVE Planned(i) \in Dates
    BY PlannedDate
  <2>2. Days0 \subseteq Dates /\ Days0 # {}
    BY <2>1
  <2> HIDE DEF Days0
  <2> QED
    BY <2>2, Numbers
<1>2. Min(Days0) \in Days0
  <2> HIDE DEF Days0
  <2> QED
    BY <1>1, Least
<1>3. Date(w) = Min(Days0)
  BY DEF Date
<1> QED
  BY <1>1, <1>2, <1>3

(* Of n records admitted, the one of rank k stands behind k others: the numbers of those    *)
(* before them are 0 .. n - 1, in the order of their ranks (resolve_ranked_entry_date).     *)
LEMMA Seats ==
    ASSUME NEW A \in SUBSET Items
    PROVE  /\ IsFiniteSet(A) /\ Cardinality(A) \in Nat
           /\ \A i \in Items : /\ IsFiniteSet(Before(A, i))
                               /\ Cardinality(Before(A, i)) \in Nat
           /\ \A i \in A : Cardinality(Before(A, i)) < Cardinality(A)
           /\ \A i, j \in A : Rank[i] < Rank[j]
                => Cardinality(Before(A, i)) < Cardinality(Before(A, j))
           /\ {Cardinality(Before(A, i)) : i \in A} = 0 .. Cardinality(A) - 1
<1> DEFINE n == Cardinality(A)
           seat(i) == Cardinality(Before(A, i))
           f == [i \in A |-> seat(i)]
<1>1. IsFiniteSet(A) /\ n \in Nat
  BY TrialAssumption, FS_Subset, FS_CardinalityType DEF TrialAssumption
<1>2. ASSUME NEW i \in Items PROVE IsFiniteSet(Before(A, i)) /\ seat(i) \in Nat
  <2>1. Before(A, i) \in SUBSET A
    BY DEF Before
  <2> QED
    BY <1>1, <2>1, FS_Subset, FS_CardinalityType
<1>3. ASSUME NEW i \in A, NEW T \in SUBSET A, Before(A, i) \subseteq T, i \in T
      PROVE  seat(i) < Cardinality(T)
  <2>1. i \notin Before(A, i)
    BY Numbers DEF Before
  <2>2. Cardinality(Before(A, i) \cup {i}) = seat(i) + 1
    BY <1>2, <2>1, FS_AddElement
  <2>3. IsFiniteSet(T) /\ Cardinality(T) \in Nat
    BY <1>1, FS_Subset, FS_CardinalityType
  <2>4. Cardinality(Before(A, i) \cup {i}) <= Cardinality(T)
    BY <1>3, <2>3, FS_Subset
  <2> QED
    BY <1>2, <2>2, <2>3, <2>4
<1>4. ASSUME NEW i \in A PROVE seat(i) < n
  BY <1>3 DEF Before
<1>5. ASSUME NEW i \in A, NEW j \in A, Rank[i] < Rank[j] PROVE seat(i) < seat(j)
  <2>1. Before(A, i) \subseteq Before(A, j) /\ i \in Before(A, j)
    BY <1>5, Numbers DEF Before
  <2>2. Before(A, j) \in SUBSET A
    BY DEF Before
  <2> QED
    BY <1>3, <2>1, <2>2
<1>6. f \in Injection(A, 0 .. n - 1)
  <2>1. f \in [A -> 0 .. n - 1]
    BY <1>1, <1>2, <1>4
  <2>2. ASSUME NEW i \in A, NEW j \in A, f[i] = f[j] PROVE i = j
    <3>1. Rank[i] = Rank[j]
      BY <1>2, <1>5, <2>2, Numbers
    <3> QED
      BY <3>1, Numbers
  <2> QED
    BY <2>1, <2>2 DEF Injection, IsInjective
<1>7. IsFiniteSet(0 .. n - 1) /\ Cardinality(0 .. n - 1) = n
  BY <1>1, FS_Interval
<1>8. f \in Surjection(A, 0 .. n - 1)
  BY <1>6, <1>7, FS_Injection
<1>9. {seat(i) : i \in A} = 0 .. n - 1
  BY <1>8 DEF Surjection
<1> QED
  BY <1>1, <1>2, <1>4, <1>5, <1>9

-----------------------------------------------------------------------------
(* What a step does to the tables of the evidence and of the trial *)

tables == <<recorded, imported, aside, resolution, sealed>>

TablesOK ==
    /\ recorded \in [Items -> Times \cup {Never}]
    /\ imported \in [Items -> Times \cup {Never}]
    /\ aside \in [Items -> {"none", "excluded", "invalid"}]
    /\ resolution \in [Items -> Resolution]
    /\ sealed \in [Dates -> {Unsealed} \cup [kind : {"completion", "lapse"}, at : Times, clock : Times]]

Records(i) ==
    /\ recorded[i] = Never /\ clock \in Times
    /\ recorded' = [recorded EXCEPT ![i] = clock]
    /\ UNCHANGED <<imported, aside, resolution, sealed>>

SetsAside(i) ==
    /\ imported[i] = Never
    /\ aside[i] = "none" \/ i \in Legacy
    /\ \E why \in {"excluded", "invalid"} : aside' = [aside EXCEPT ![i] = why]
    /\ UNCHANGED <<recorded, imported, resolution, sealed>>

Imports(i, t) ==
    /\ t \in Times /\ recorded[i] # Never /\ ~Settled(i)
    /\ ~Excludes(i, t) /\ ~NotReady(i, t)
    /\ imported' = [imported EXCEPT ![i] = t]
    /\ resolution' = IF SealOver(i) = {} THEN resolution
                     ELSE [resolution EXCEPT ![i] = [state |-> "missed"]]
    /\ UNCHANGED <<recorded, aside, sealed>>

\* The pass that seals the date d, of the candidates it has left.
Sealer(w, d) ==
    /\ Entering(w) /\ d = Date(w) /\ d \in Dates
    /\ Cutoff[d] <= work[w].now
    /\ ~Conflicts(d)

Lapses(d, t) ==
    /\ t \in Times /\ ~ClockBehind(t, d)
    /\ resolution' = Miss(DueOn(Pending, d))
    /\ sealed' = [sealed EXCEPT ![d] = [kind |-> "lapse", at |-> t, clock |-> t]]
    /\ UNCHANGED <<recorded, imported, aside>>

Completes(d, t, eligible, admitted, book) ==
    /\ t \in Times /\ clock \in Times /\ ~ClockBehind(t, d)
    /\ t <= clock /\ clock < OpenAt[d]
    /\ book \subseteq Items /\ Truly(d) \subseteq book
    /\ eligible \subseteq {i \in DueOn(Pending, d) : ~Late(i, d)}
    /\ admitted \subseteq eligible /\ Admits(admitted, eligible, book)
    /\ resolution' = Resolved(DueOn(Pending, d), d, eligible, admitted, book,
                              Cardinality(Enrolled) + 1)
    /\ sealed' = [sealed EXCEPT ![d] = [kind |-> "completion", at |-> t, clock |-> clock]]
    /\ UNCHANGED <<recorded, imported, aside>>

Seals(w, d) ==
    /\ Sealer(w, d)
    /\ \/ \E t \in Times : Lapses(d, t)
       \/ \E t \in Times, eligible, admitted, book \in SUBSET Items :
            Completes(d, t, eligible, admitted, book)

Touches ==
    \/ UNCHANGED tables
    \/ \E i \in Items : Records(i) \/ SetsAside(i)
    \/ \E i \in Items, t \in Times : Imports(i, t)
    \/ \E w \in Workers, d \in Dates : Seals(w, d)

(* The locals of a pass, of whichever stage they are. *)
LEMMA Locals ==
    ASSUME TypeOK, NEW w \in Workers
    PROVE  /\ At(w, "import") \/ Entering(w) => work[w].left \in SUBSET Items /\ work[w].now \in Times
           /\ At(w, "commit") => /\ work[w].book \in SUBSET Items
                                 /\ work[w].next \in 1 .. Cardinality(Items) + 1
           /\ At(w, "after_open") => work[w].decision \in Times
<1>1. work[w] \in Working
  BY DEF TypeOK
<1> QED
  BY <1>1 DEF Working, At, Entering, Idle

(* An entry date is lapsed by append_entry_lapse only when nothing conflicts with it. *)
LEMMA LapseSeals ==
    ASSUME NEW w, NEW d, NEW t \in Times, Lapse(w, d, t),
           UNCHANGED <<recorded, imported, aside>>
    PROVE  UNCHANGED tables \/ (~Conflicts(d) /\ Lapses(d, t))
BY DEF Lapse, Lapses, tables

(* Every action of a pass, of the coordinator and of the rest does one of these to the     *)
(* tables.                                                                                  *)
LEMMA PassTouches ==
    ASSUME IInv, NEW w \in Workers, Pass(w) \/ PassDies(w)
    PROVE  Touches
<1> USE DEF Touches
<1>1. CASE Begin(w) \/ StartEntries(w) \/ EntriesWait(w) \/ ReadBook(w) \/ AppendOutcome(w)
             \/ EndPass(w) \/ PassDies(w)
  <2>1. UNCHANGED tables
    BY <1>1 DEF Begin, StartEntries, EntriesWait, ReadBook, AppendOutcome, EndPass, PassDies,
         tables, evidenceVars, trialVars
  <2> QED
    BY <2>1
<1>2. ASSUME NEW i \in Items, PassOver(w, i) \/ ImportRetried(w, i) PROVE Touches
  <2>1. UNCHANGED tables
    BY <1>2 DEF PassOver, ImportRetried, tables, evidenceVars, trialVars
  <2> QED
    BY <2>1
<1>3. ASSUME NEW i \in Items, SetAside(w, i) PROVE Touches
  <2>1. SetsAside(i)
    BY <1>3 DEF SetAside, SetsAside, Settled, Candidates, trialVars
  <2> QED
    BY <2>1
<1>4. ASSUME NEW i \in Items, Import(w, i) PROVE Touches
  <2>1. At(w, "import") /\ i \in work[w].left /\ work[w].now \in Times
    BY <1>4, Locals, FirstOf DEF Import, NextRecord, IInv
  <2>2. recorded[i] # Never
    BY <2>1 DEF IInv, Knows
  <2>3. Imports(i, work[w].now)
    BY <1>4, <2>1, <2>2 DEF Import, Imports
  <2> QED
    BY <2>1, <2>3
<1>5. CASE LapseDate(w)
  <2>1. /\ Entering(w) /\ work[w].left # {} /\ work[w].left \in SUBSET Items
        /\ work[w].now \in Times /\ work[w].now >= OpenAt[Date(w)]
        /\ Lapse(w, Date(w), work[w].now) /\ UNCHANGED <<recorded, imported, aside>>
    BY <1>5, Locals DEF LapseDate, Entering, IInv, evidenceVars
  <2>2. Date(w) \in Dates
    BY <2>1, DateOf
  <2>3. Cutoff[Date(w)] <= work[w].now
    BY <2>1, <2>2, Numbers
  <2>4. UNCHANGED tables \/ (~Conflicts(Date(w)) /\ Lapses(Date(w), work[w].now))
    BY <2>1, LapseSeals
  <2> QED
    BY <2>1, <2>2, <2>3, <2>4 DEF Seals, Sealer
<1>6. CASE Complete(w)
  <2>1. /\ At(w, "commit") /\ Entering(w) /\ work[w].left # {} /\ work[w].left \in SUBSET Items
        /\ work[w].now \in Times /\ work[w].book \in SUBSET Items
        /\ Cutoff[Date(w)] <= work[w].now
        /\ work[w].next = Cardinality(Enrolled) + 1 => Truly(Date(w)) \subseteq work[w].book
    BY <1>6, Locals DEF Complete, Entering, IInv, Knows
  <2>2. Date(w) \in Dates
    BY <2>1, DateOf
  <2>3. CASE UNCHANGED <<resolution, sealed>>
    BY <1>6, <2>3 DEF Complete, tables, evidenceVars
  <2>4. CASE ~ UNCHANGED <<resolution, sealed>>
    <3>1. /\ ~Conflicts(Date(w)) /\ ~ClockBehind(work[w].now, Date(w)) /\ clock >= work[w].now
          /\ DueOn(work[w].left, Date(w)) = DueOn(Pending, Date(w))
          /\ work[w].next = Cardinality(Enrolled) + 1
          /\ clock < OpenAt[Date(w)]
          /\ \E eligible \in SUBSET {i \in DueOn(Pending, Date(w)) : ~Late(i, Date(w))} :
             \E admitted \in SUBSET eligible :
               /\ Admits(admitted, eligible, work[w].book)
               /\ resolution' = Resolved(DueOn(Pending, Date(w)), Date(w), eligible, admitted,
                                         work[w].book, Cardinality(Enrolled) + 1)
          /\ sealed' = [sealed EXCEPT ![Date(w)] =
                          [kind |-> "completion", at |-> work[w].now, clock |-> clock]]
          /\ UNCHANGED <<recorded, imported, aside>>
      BY <1>6, <2>4 DEF Complete, evidenceVars
    <3>2. PICK eligible \in SUBSET {i \in DueOn(Pending, Date(w)) : ~Late(i, Date(w))},
               admitted \in SUBSET Items :
               /\ admitted \subseteq eligible
               /\ Admits(admitted, eligible, work[w].book)
               /\ resolution' = Resolved(DueOn(Pending, Date(w)), Date(w), eligible, admitted,
                                         work[w].book, Cardinality(Enrolled) + 1)
      <4>1. \A S \in SUBSET {i \in DueOn(Pending, Date(w)) : ~Late(i, Date(w))} : S \subseteq Items
        BY DEF DueOn, Pending, Candidates
      <4> QED
        BY <3>1, <4>1
    <3>3. eligible \in SUBSET Items
      BY DEF DueOn, Pending, Candidates
    <3>4. clock \in Times /\ work[w].now <= clock
      BY <2>1, <3>1, Numbers DEF IInv, TypeOK
    <3>5. Completes(Date(w), work[w].now, eligible, admitted, work[w].book)
      BY <2>1, <3>1, <3>2, <3>4 DEF Completes
    <3> QED
      BY <2>1, <2>2, <3>1, <3>3, <3>5 DEF Seals, Sealer
  <2> QED
    BY <2>3, <2>4
<1>7. CASE AfterOpen(w)
  <2>1. /\ Entering(w) /\ work[w].left # {} /\ work[w].left \in SUBSET Items
        /\ Cutoff[Date(w)] <= work[w].now
    BY <1>7, Locals DEF AfterOpen, Entering, IInv, Knows
  <2>2. Date(w) \in Dates
    BY <2>1, DateOf
  <2>3. CASE UNCHANGED <<resolution, sealed>>
    BY <1>7, <2>3 DEF AfterOpen, tables, evidenceVars
  <2>4. CASE Lapse(w, Date(w), clock)
    <3>1. UNCHANGED <<recorded, imported, aside>> /\ clock \in Times
      BY <1>7 DEF AfterOpen, evidenceVars, IInv, TypeOK
    <3>2. UNCHANGED tables \/ (~Conflicts(Date(w)) /\ Lapses(Date(w), clock))
      BY <2>4, <3>1, LapseSeals
    <3> QED
      BY <2>1, <2>2, <3>1, <3>2 DEF Seals, Sealer
  <2> QED
    BY <1>7, <2>3, <2>4 DEF AfterOpen
<1> QED
  BY <1>1, <1>2, <1>3, <1>4, <1>5, <1>6, <1>7 DEF Pass

LEMMA StepTouches ==
    ASSUME IInv, [Next]_vars
    PROVE  Touches
<1> USE DEF Touches
<1>1. ASSUME NEW i \in Items, Record(i) PROVE Touches
  BY <1>1 DEF Record, Records, trialVars, IInv, TypeOK
<1>2. ASSUME NEW i \in Items, Correct(i) PROVE Touches
  <2>1. imported[i] = Never /\ i \in Legacy
    BY <1>2 DEF Correct, IInv, Custody
  <2>2. SetsAside(i)
    BY <1>2, <2>1 DEF Correct, SetsAside, trialVars
  <2> QED
    BY <2>2
<1>3. ASSUME NEW w \in Workers, Pass(w) \/ PassDies(w) PROVE Touches
  BY <1>3, PassTouches
<1>4. CASE Coordinate \/ CoordinatorDies \/ Tick \/ ClockSetBack
  BY <1>4 DEF Coordinate, MissDeadline, DecideMiss, Stage, Restage, Publish, Seal, Decide,
       CoordinatorDies, Tick, ClockSetBack, tables, evidenceVars, trialVars
<1>5. CASE UNCHANGED vars
  BY <1>5 DEF vars, tables, evidenceVars, trialVars
<1> QED
  BY <1>1, <1>2, <1>3, <1>4, <1>5 DEF Next

-----------------------------------------------------------------------------
(* The tables keep what the invariant says of them *)

Store == TablesOK /\ Custody /\ InOrder /\ Numbered /\ EnrolledInTime

\* The positions, with their numbers, and the seals are as before.
SamePositions ==
    /\ Enrolled' = Enrolled
    /\ \A i \in Enrolled : resolution'[i] = resolution[i]
    /\ UNCHANGED <<recorded, imported>> \/ \A i \in Enrolled : recorded'[i] = recorded[i]
                                                          /\ imported'[i] = imported[i]

(* What a resolution says of a record. *)
LEMMA Resolutions ==
    ASSUME TablesOK, NEW i \in Items
    PROVE  /\ resolution[i] = Unresolved => resolution[i].state # "enrolled"
           /\ i \in Enrolled => resolution[i] # Unresolved /\ resolution[i].seq \in 1 .. Cardinality(Items)
           /\ resolution[i] # Unresolved => resolution[i].state \in States
BY DEF TablesOK, Resolution, Unresolved, States, Enrolled

(* A step that enrolls nothing and seals nothing keeps what is said of the positions. *)
LEMMA PositionsKept ==
    ASSUME Store, SamePositions, UNCHANGED sealed
    PROVE  /\ Completed' = Completed /\ Sealed' = Sealed
           /\ \A d \in Dates : SealedAt(d)' = SealedAt(d)
           /\ Numbered' /\ EnrolledInTime'
           /\ \A i \in Enrolled' : Planned(i) \in Completed'
<1>1. Completed' = Completed /\ Sealed' = Sealed /\ \A d \in Dates : SealedAt(d)' = SealedAt(d)
  BY DEF Completed, Sealed, SealedAt
<1>2. Enrolled' = Enrolled /\ \A i \in Enrolled : resolution'[i] = resolution[i]
  BY DEF SamePositions
<1>3. \A i \in Enrolled : recorded'[i] = recorded[i] /\ imported'[i] = imported[i]
  BY DEF SamePositions
<1>4. Numbered'
  <2>1. {resolution[i].seq : i \in Enrolled}' = {resolution[i].seq : i \in Enrolled}
    BY <1>2
  <2> QED
    BY <1>2, <2>1 DEF Store, Numbered
<1>5. EnrolledInTime'
  BY <1>2, <1>3 DEF Store, EnrolledInTime
<1>6. \A i \in Enrolled' : Planned(i) \in Completed'
  BY <1>1, <1>2 DEF Store, InOrder
<1> QED
  BY <1>1, <1>4, <1>5, <1>6

LEMMA StoreKept ==
    ASSUME Store, SamePositions, UNCHANGED sealed, TablesOK', Custody',
           \A i \in Pending' : \A d \in Sealed : d < Planned(i)
    PROVE  Store'
<1>1. /\ Completed' = Completed /\ Sealed' = Sealed
      /\ \A d \in Dates : SealedAt(d)' = SealedAt(d)
      /\ Numbered' /\ EnrolledInTime'
      /\ \A i \in Enrolled' : Planned(i) \in Completed'
  BY PositionsKept
<1>2. \A d, e \in Sealed' : d < e => SealedAt(d)' <= SealedAt(e)'
  BY <1>1 DEF Store, InOrder, Sealed
<1>3. InOrder'
  BY <1>1, <1>2 DEF InOrder
<1> QED
  BY <1>1, <1>3 DEF Store

LEMMA UntouchedStore ==
    ASSUME Store, UNCHANGED tables
    PROVE  Store'
<1>1. TablesOK' /\ Custody'
  BY DEF Store, TablesOK, Custody, tables
<1>2. SamePositions
  BY DEF SamePositions, tables, Enrolled
<1>3. Pending' = Pending
  BY DEF tables, Pending, Candidates
<1> QED
  BY <1>1, <1>2, <1>3, StoreKept DEF Store, InOrder, tables

LEMMA RecordStore ==
    ASSUME Store, NEW i \in Items, Records(i)
    PROVE  Store'
<1>1. TablesOK'
  BY DEF Store, TablesOK, Records
<1>2. Custody'
  BY DEF Store, Custody, Records, TablesOK, Never
<1>3. SamePositions
  <2>1. \A j \in Enrolled : j # i
    BY Resolutions DEF Store, Custody, Records, Enrolled
  <2>2. Enrolled' = Enrolled /\ \A j \in Enrolled : j \in Items /\ resolution'[j] = resolution[j]
    BY DEF Records, Enrolled
  <2>3. \A j \in Enrolled : recorded'[j] = recorded[j] /\ imported'[j] = imported[j]
    BY <2>1, <2>2 DEF Records, Store, TablesOK
  <2> QED
    BY <2>2, <2>3 DEF SamePositions
<1>4. Pending' = Pending
  BY DEF Records, Pending, Candidates
<1> QED
  BY <1>1, <1>2, <1>3, <1>4, StoreKept DEF Store, InOrder, Records

LEMMA AsideStore ==
    ASSUME Store, NEW i \in Items, SetsAside(i)
    PROVE  Store'
<1>1. TablesOK'
  BY DEF Store, TablesOK, SetsAside
<1>2. Custody'
  BY DEF Store, Custody, SetsAside, TablesOK
<1>3. SamePositions
  BY DEF SamePositions, SetsAside, Enrolled
<1>4. Pending' = Pending
  BY DEF SetsAside, Pending, Candidates
<1> QED
  BY <1>1, <1>2, <1>3, <1>4, StoreKept DEF Store, InOrder, SetsAside

LEMMA ImportPositions ==
    ASSUME Store, NEW i \in Items, NEW t \in Times, Imports(i, t)
    PROVE  /\ imported[i] = Never /\ aside[i] = "none" /\ resolution[i] = Unresolved
           /\ Candidates' = Candidates \cup {i}
           /\ \A j \in Items : j # i => resolution'[j] = resolution[j]
           /\ resolution'[i] \in {Unresolved, [state |-> "missed"]}
           /\ SealOver(i) # {} => resolution'[i] = [state |-> "missed"]
           /\ TablesOK'
           /\ SamePositions
<1>1. imported[i] = Never /\ aside[i] = "none" /\ resolution[i] = Unresolved
  BY DEF Imports, Settled, Candidates, Store, Custody
<1>2. /\ \A j \in Items : j # i => resolution'[j] = resolution[j] /\ imported'[j] = imported[j]
      /\ imported'[i] = t
      /\ resolution'[i] = (IF SealOver(i) = {} THEN Unresolved ELSE [state |-> "missed"])
  BY <1>1 DEF Imports, Store, TablesOK
<1>3. t # Never
  BY Numbers DEF Never
<1>4. TablesOK'
  <2>1. [state |-> "missed"] \in Resolution
    BY DEF Resolution, States
  <2> QED
    BY <2>1 DEF Imports, Store, TablesOK
<1>5. SamePositions
  <2>1. i \notin Enrolled
    BY <1>1, Resolutions DEF Store, Enrolled
  <2>2. i \notin Enrolled'
    BY <1>2 DEF Enrolled, Unresolved
  <2>3. Enrolled' = Enrolled
    BY <1>2, <2>1, <2>2 DEF Enrolled
  <2>4. \A j \in Enrolled : j \in Items /\ j # i
    BY <2>1 DEF Enrolled
  <2> QED
    BY <1>2, <2>3, <2>4 DEF SamePositions, Imports
<1> QED
  BY <1>1, <1>2, <1>3, <1>4, <1>5 DEF Candidates

LEMMA ImportStore ==
    ASSUME Store, NEW i \in Items, NEW t \in Times, Imports(i, t)
    PROVE  Store'
<1>1. /\ imported[i] = Never /\ aside[i] = "none" /\ resolution[i] = Unresolved
      /\ Candidates' = Candidates \cup {i}
      /\ \A j \in Items : j # i => resolution'[j] = resolution[j]
      /\ SealOver(i) # {} => resolution'[i] = [state |-> "missed"]
      /\ TablesOK' /\ SamePositions
  BY ImportPositions
<1>2. Custody'
  BY <1>1 DEF Custody, Store, Imports, TablesOK, Candidates
<1>3. UNCHANGED sealed
  BY DEF Imports
<1>4. Completed' = Completed /\ Sealed' = Sealed /\ \A d \in Dates : SealedAt(d)' = SealedAt(d)
  BY <1>1, <1>3, PositionsKept
<1>5. ASSUME NEW j \in Pending', NEW d \in Sealed' PROVE d < Planned(j)
  <2>1. j \in Items /\ j \in Candidates' /\ resolution'[j] = Unresolved
    BY DEF Pending, Candidates
  <2>2. CASE j # i
    BY <1>1, <1>4, <2>1, <2>2 DEF Store, InOrder, Pending
  <2>3. CASE j = i
    <3>1. SealOver(i) = {}
      BY <1>1, <2>1, <2>3 DEF Unresolved
    <3>2. ~ (d >= Planned(i)) /\ d \in Dates
      BY <1>4, <3>1 DEF SealOver, Sealed
    <3> QED
      BY <2>3, <3>2, PlannedDate, Numbers
  <2> QED
    BY <2>2, <2>3
<1> QED
  BY <1>1, <1>2, <1>3, <1>4, <1>5, StoreKept

(* A date that nothing conflicts with comes after every sealed one and after the positions, *)
(* and no candidate waits before it.                                                        *)
LEMMA AfterTheOthers ==
    ASSUME Store, NEW d \in Dates, ~Conflicts(d)
    PROVE  /\ d \notin Sealed /\ \A e \in Sealed : e < d
           /\ \A i \in Enrolled : Planned(i) < d
           /\ \A i \in Pending : Planned(i) >= d
<1>1. Sealed \subseteq Dates /\ Completed \subseteq Sealed
  BY DEF Sealed, Completed
<1>2. \A e \in Sealed : e < d
  BY <1>1, Numbers DEF Conflicts, OutOfOrder
<1>3. \A i \in Enrolled : Planned(i) < d
  BY <1>1, <1>2 DEF Store, InOrder
<1>4. ASSUME NEW i \in Pending PROVE Planned(i) >= d
  <2>1. Planned(i) \in Dates
    BY PlannedDate DEF Pending, Candidates
  <2> QED
    BY <2>1, Numbers DEF Conflicts
<1> QED
  BY <1>1, <1>2, <1>3, <1>4, Numbers

LEMMA SealInOrder ==
    ASSUME Store, NEW d \in Dates, ~Conflicts(d),
           NEW t \in Times, NEW c \in Times, t <= c, ~ClockBehind(t, d),
           NEW kind \in {"completion", "lapse"},
           sealed' = [sealed EXCEPT ![d] = [kind |-> kind, at |-> t, clock |-> c]]
    PROVE  /\ Sealed' = Sealed \cup {d}
           /\ kind = "lapse" => Completed' = Completed
           /\ kind = "completion" => Completed' = Completed \cup {d}
           /\ \A e \in Dates : e # d => sealed'[e] = sealed[e]
           /\ sealed'[d] = [kind |-> kind, at |-> t, clock |-> c]
           /\ \A a, b \in Sealed' : a < b => SealedAt(a)' <= SealedAt(b)'
           /\ sealed' \in [Dates -> {Unsealed} \cup [kind : {"completion", "lapse"}, at : Times,
                                                    clock : Times]]
<1>1. /\ \A e \in Dates : e # d => sealed'[e] = sealed[e]
      /\ sealed'[d] = [kind |-> kind, at |-> t, clock |-> c]
  BY DEF Store, TablesOK
<1>2. d \notin Sealed /\ \A e \in Sealed : e < d
  BY AfterTheOthers
<1>3. Sealed' = Sealed \cup {d}
  BY <1>1 DEF Sealed
<1>4. /\ kind = "lapse" => Completed' = Completed
      /\ kind = "completion" => Completed' = Completed \cup {d}
  BY <1>1, <1>2 DEF Completed, Sealed
<1>5. \A e \in Sealed : SealedAt(e) \in Nat /\ SealedAt(e) <= c
  <2>1. ASSUME NEW e \in Sealed PROVE SealedAt(e) \in Nat /\ SealedAt(e) <= c
    <3>1. SealedAt(e) \in Times
      BY DEF Sealed, SealedAt, Store, TablesOK, Unsealed
    <3>2. ~ (t < SealedAt(e))
      BY DEF ClockBehind, Precedes
    <3> QED
      BY <3>1, <3>2, TimesAndDates
  <2> QED
    BY <2>1
<1>6. SealedAt(d)' = c /\ \A e \in Sealed : SealedAt(e)' = SealedAt(e)
  BY <1>1, <1>2 DEF SealedAt, Sealed
<1>7. ASSUME NEW a \in Sealed', NEW b \in Sealed', a < b PROVE SealedAt(a)' <= SealedAt(b)'
  <2>1. CASE a \in Sealed /\ b \in Sealed
    BY <1>6, <1>7, <2>1 DEF Store, InOrder
  <2>2. CASE a \in Sealed /\ b = d
    BY <1>5, <1>6, <2>2
  <2>3. a # d
    BY <1>2, <1>3, <1>7, Numbers DEF Sealed
  <2> QED
    BY <1>3, <2>1, <2>2, <2>3
<1>8. sealed' \in [Dates -> {Unsealed} \cup [kind : {"completion", "lapse"}, at : Times,
                                            clock : Times]]
  BY DEF Store, TablesOK
<1> QED
  BY <1>1, <1>3, <1>4, <1>7, <1>8

\* The candidates due on a date.
LEMMA DueCandidates ==
    ASSUME NEW d
    PROVE  /\ DueOn(Pending, d) \subseteq Items
           /\ \A i \in DueOn(Pending, d) : /\ imported[i] # Never /\ resolution[i] = Unresolved
                                           /\ Planned(i) = d
           /\ \A i \in Pending : Planned(i) = d => i \in DueOn(Pending, d)
BY DEF DueOn, Pending, Candidates

(* Once the candidates of a date are resolved, none waits behind it. *)
LEMMA NoneBehind ==
    ASSUME Store, NEW d \in Dates, ~Conflicts(d), UNCHANGED imported,
           Sealed' = Sealed \cup {d},
           \A i \in DueOn(Pending, d) : resolution'[i] # Unresolved,
           \A i \in Items : i \notin DueOn(Pending, d) => resolution'[i] = resolution[i]
    PROVE  \A i \in Pending' : \A e \in Sealed' : e < Planned(i)
<1> TAKE i \in Pending'
<1>1. i \in Items /\ i \in Pending /\ i \notin DueOn(Pending, d)
  BY DEF Pending, Candidates
<1>2. Planned(i) \in Dates /\ Planned(i) >= d /\ Planned(i) # d
  BY <1>1, AfterTheOthers, DueCandidates, PlannedDate
<1>3. \A e \in Sealed : e < Planned(i)
  BY <1>1 DEF Store, InOrder
<1>4. d < Planned(i)
  BY <1>2, TimesAndDates
<1> QED
  BY <1>3, <1>4

LEMMA LapseStore ==
    ASSUME Store, NEW d \in Dates, ~Conflicts(d), NEW t \in Times, Lapses(d, t)
    PROVE  /\ Store' /\ SamePositions
           /\ Completed' = Completed
<1> DEFINE due == DueOn(Pending, d)
<1>1. /\ Sealed' = Sealed \cup {d} /\ Completed' = Completed
      /\ \A e \in Dates : e # d => sealed'[e] = sealed[e]
      /\ \A a, b \in Sealed' : a < b => SealedAt(a)' <= SealedAt(b)'
      /\ sealed' \in [Dates -> {Unsealed} \cup [kind : {"completion", "lapse"}, at : Times,
                                                clock : Times]]
  <2>1. t <= t
    BY TimesAndDates
  <2>2. ~ClockBehind(t, d)
        /\ sealed' = [sealed EXCEPT ![d] = [kind |-> "lapse", at |-> t, clock |-> t]]
    BY DEF Lapses
  <2> QED
    BY <2>1, <2>2, SealInOrder
<1>2. /\ \A i \in due : resolution'[i] = [state |-> "missed"]
      /\ \A i \in Items : i \notin due => resolution'[i] = resolution[i]
      /\ UNCHANGED <<recorded, imported, aside>>
  BY DueCandidates DEF Lapses, Miss
<1>3. \A i \in due : resolution'[i] # Unresolved /\ resolution'[i].state # "enrolled"
  BY <1>2 DEF Unresolved
<1>4. TablesOK'
  <2>1. [state |-> "missed"] \in Resolution
    BY DEF Resolution, States
  <2> QED
    BY <1>1, <2>1 DEF Lapses, Miss, Store, TablesOK
<1>5. SamePositions
  <2>1. \A i \in due : i \notin Enrolled
    BY DueCandidates, Resolutions DEF Store, Enrolled
  <2>2. Enrolled' = Enrolled
    BY <1>2, <1>3, <2>1 DEF Enrolled
  <2>3. \A i \in Enrolled : i \in Items /\ i \notin due
    BY <2>1 DEF Enrolled
  <2> QED
    BY <1>2, <2>2, <2>3 DEF SamePositions
<1>6. Custody'
  BY <1>2, DueCandidates DEF Custody, Store
<1>7. \A i \in Pending' : \A e \in Sealed' : e < Planned(i)
  BY <1>1, <1>2, <1>3, NoneBehind
<1>8. InOrder'
  BY <1>1, <1>5, <1>7 DEF InOrder, SamePositions, Store
<1>9. Numbered'
  <2>1. {resolution[i].seq : i \in Enrolled}' = {resolution[i].seq : i \in Enrolled}
    BY <1>5 DEF SamePositions
  <2> QED
    BY <1>5, <2>1 DEF SamePositions, Store, Numbered
<1>10. EnrolledInTime'
  <2>1. \A i \in Enrolled : Planned(i) \in Dates /\ Planned(i) # d
    BY AfterTheOthers, PlannedDate, Numbers DEF Enrolled
  <2>2. Enrolled' = Enrolled /\ UNCHANGED <<recorded, imported>>
    BY <1>2, <1>5 DEF SamePositions
  <2>3. \A i \in Enrolled : sealed'[Planned(i)] = sealed[Planned(i)]
    BY <1>1, <2>1
  <2> QED
    BY <2>2, <2>3 DEF Store, EnrolledInTime
<1> QED
  BY <1>1, <1>4, <1>5, <1>6, <1>8, <1>9, <1>10 DEF Store

(* What a completion does to the candidates of its date, in the words of                   *)
(* resolve_ranked_entry_date: those admitted are enrolled and numbered on, and the others   *)
(* get another verdict.                                                                     *)
LEMMA CompletedRows ==
    ASSUME Store, NEW d \in Dates, ~Conflicts(d), NEW t \in Times,
           NEW eligible \in SUBSET Items, NEW admitted \in SUBSET Items,
           NEW book \in SUBSET Items, Completes(d, t, eligible, admitted, book)
    PROVE  /\ admitted \subseteq DueOn(Pending, d)
           /\ \A i \in Items : i \notin DueOn(Pending, d) => resolution'[i] = resolution[i]
           /\ \A i \in admitted :
                resolution'[i] \in [state : {"enrolled"},
                                    seq : {Cardinality(Enrolled) + 1 + Cardinality(Before(admitted, i))}]
           /\ \A i \in DueOn(Pending, d) \ admitted :
                resolution'[i] \in [state : States \ {"enrolled"}]
<1> DEFINE due == DueOn(Pending, d)
           next == Cardinality(Enrolled) + 1
<1>1. eligible \subseteq due /\ admitted \subseteq eligible /\ \A i \in eligible : ~Late(i, d)
  BY DEF Completes
<1>2. due \subseteq Items
  BY DueCandidates
<1>3. resolution' = Resolved(due, d, eligible, admitted, book, next)
  BY DEF Completes
<1>4. \A i \in Items : i \notin due => resolution'[i] = resolution[i]
  BY <1>3 DEF Resolved
<1>5. ASSUME NEW i \in admitted
      PROVE  resolution'[i] \in [state : {"enrolled"}, seq : {next + Cardinality(Before(admitted, i))}]
  <2>1. i \in Items /\ i \in due /\ i \in eligible /\ ~Late(i, d)
    BY <1>1, <1>2
  <2> HIDE DEF due, next
  <2>2. resolution'[i] = [state |-> "enrolled", seq |-> next + Cardinality(Before(admitted, i))]
    BY <1>3, <2>1 DEF Resolved
  <2> QED
    BY <2>2
<1>6. ASSUME NEW i \in due \ admitted
      PROVE  resolution'[i] \in [state : States \ {"enrolled"}]
  <2>1. i \in Items
    BY <1>2
  <2> HIDE DEF due, next
  <2>2. CASE Late(i, d)
    <3>1. i \notin eligible /\ i \notin admitted
      BY <1>1, <2>2
    <3>2. resolution'[i] = [state |-> "missed"]
      BY <1>3, <2>1, <2>2, <3>1 DEF Resolved
    <3> QED
      BY <3>2 DEF States
  <2>3. CASE ~Late(i, d) /\ i \notin eligible
    <3>1. resolution'[i] = [state |-> "ineligible"]
      BY <1>3, <2>1, <2>3 DEF Resolved
    <3> QED
      BY <3>1 DEF States
  <2>4. CASE i \in eligible /\ \E j \in book \cup Before(admitted, i) : Symbol[j] = Symbol[i]
    <3>1. ~Late(i, d)
      BY <1>1, <2>4
    <3>2. resolution'[i] = [state |-> "overlap_suppressed"]
      BY <1>3, <2>1, <2>4, <3>1 DEF Resolved
    <3> QED
      BY <3>2 DEF States
  <2>5. CASE i \in eligible /\ ~ \E j \in book \cup Before(admitted, i) : Symbol[j] = Symbol[i]
    <3>1. ~Late(i, d)
      BY <1>1, <2>5
    <3>2. resolution'[i] = [state |-> "capacity_suppressed"]
      BY <1>3, <2>1, <2>5, <3>1 DEF Resolved
    <3> QED
      BY <3>2 DEF States
  <2> QED
    BY <2>2, <2>3, <2>4, <2>5
<1>7. admitted \subseteq due
  BY <1>1
<1> QED
  BY <1>4, <1>5, <1>6, <1>7

(* The positions after a completion. *)
LEMMA CompletedPositions ==
    ASSUME Store, NEW d \in Dates, ~Conflicts(d), NEW t \in Times,
           NEW eligible \in SUBSET Items, NEW admitted \in SUBSET Items,
           NEW book \in SUBSET Items, Completes(d, t, eligible, admitted, book)
    PROVE  /\ Enrolled' = Enrolled \cup admitted
           /\ Enrolled \cap admitted = {}
           /\ \A i \in Enrolled : i \in Items /\ resolution'[i] = resolution[i]
           /\ \A i \in admitted : /\ resolution'[i].seq
                                       = Cardinality(Enrolled) + 1 + Cardinality(Before(admitted, i))
                                  /\ Planned(i) = d /\ ~Late(i, d)
           /\ IsFiniteSet(Enrolled) /\ Cardinality(Enrolled) \in Nat
           /\ Cardinality(Enrolled)' = Cardinality(Enrolled) + Cardinality(admitted)
           /\ Cardinality(Enrolled)' <= Cardinality(Items)
           /\ Cardinality(Items) \in Nat
<1> DEFINE due == DueOn(Pending, d)
<1>1. /\ admitted \subseteq due
      /\ \A i \in Items : i \notin due => resolution'[i] = resolution[i]
      /\ \A i \in admitted :
           resolution'[i] \in [state : {"enrolled"},
                               seq : {Cardinality(Enrolled) + 1 + Cardinality(Before(admitted, i))}]
      /\ \A i \in due \ admitted : resolution'[i] \in [state : States \ {"enrolled"}]
  BY CompletedRows
<1>2. /\ due \subseteq Items
      /\ \A i \in due : resolution[i] = Unresolved /\ Planned(i) = d
  BY DueCandidates
<1>3. \A i \in due : i \notin Enrolled
  BY <1>2, Resolutions DEF Store, Enrolled
<1>4. Enrolled \cap admitted = {}
  BY <1>1, <1>3
<1>5. \A i \in Enrolled : i \in Items /\ resolution'[i] = resolution[i]
  BY <1>1, <1>3 DEF Enrolled
<1>6. Enrolled' = Enrolled \cup admitted
  <2>1. \A i \in admitted : i \in Items /\ resolution'[i].state = "enrolled"
    BY <1>1, <1>2
  <2>2. \A i \in due \ admitted : resolution'[i].state # "enrolled"
    BY <1>1
  <2>3. \A i \in Items : i \in Enrolled' <=> resolution'[i].state = "enrolled"
    BY DEF Enrolled
  <2>4. \A i \in Items \ due : i \in Enrolled' <=> i \in Enrolled
    BY <1>1 DEF Enrolled
  <2> QED
    BY <1>1, <1>3, <1>5, <2>1, <2>2, <2>3, <2>4 DEF Enrolled
<1>7. \A i \in admitted : /\ resolution'[i].seq
                               = Cardinality(Enrolled) + 1 + Cardinality(Before(admitted, i))
                          /\ Planned(i) = d /\ ~Late(i, d)
  BY <1>1, <1>2 DEF Completes
<1>8. /\ IsFiniteSet(Enrolled) /\ Cardinality(Enrolled) \in Nat
      /\ IsFiniteSet(Enrolled \cup admitted)
      /\ Cardinality(Enrolled \cup admitted) <= Cardinality(Items)
      /\ Cardinality(Items) \in Nat
  <2>1. IsFiniteSet(Items)
    BY TrialAssumption DEF TrialAssumption
  <2>2. Enrolled \in SUBSET Items /\ Enrolled \cup admitted \in SUBSET Items
    BY DEF Enrolled
  <2> QED
    BY <2>1, <2>2, FS_Subset, FS_CardinalityType
<1>9. Cardinality(Enrolled \cup admitted) = Cardinality(Enrolled) + Cardinality(admitted)
  <2>1. IsFiniteSet(admitted) /\ Cardinality(admitted) \in Nat
    BY Seats
  <2>2. Cardinality(Enrolled \cup admitted)
          = Cardinality(Enrolled) + Cardinality(admitted) - Cardinality(Enrolled \cap admitted)
    BY <1>8, <2>1, FS_Union
  <2>3. Cardinality(Enrolled \cap admitted) = 0
    BY <1>4, FS_EmptySet
  <2> QED
    BY <1>8, <2>1, <2>2, <2>3
<1> QED
  BY <1>4, <1>5, <1>6, <1>7, <1>8, <1>9

(* Positions enrolled by one completion are numbered on from those before. *)
LEMMA CompletedNumbers ==
    ASSUME Store, NEW d \in Dates, ~Conflicts(d), NEW t \in Times,
           NEW eligible \in SUBSET Items, NEW admitted \in SUBSET Items,
           NEW book \in SUBSET Items, Completes(d, t, eligible, admitted, book)
    PROVE  Numbered'
<1> DEFINE n == Cardinality(Enrolled)
           k == Cardinality(admitted)
           seat(i) == Cardinality(Before(admitted, i))
<1>1. /\ Enrolled' = Enrolled \cup admitted
      /\ Enrolled \cap admitted = {}
      /\ \A i \in Enrolled : i \in Items /\ resolution'[i] = resolution[i]
      /\ \A i \in admitted : resolution'[i].seq = n + 1 + seat(i) /\ Planned(i) = d
      /\ n \in Nat /\ Cardinality(Enrolled)' = n + k
  BY CompletedPositions
<1>2. /\ k \in Nat
      /\ \A i \in admitted : i \in Items /\ seat(i) \in Nat /\ seat(i) < k
      /\ \A i, j \in admitted : Rank[i] < Rank[j] => seat(i) < seat(j)
      /\ {seat(i) : i \in admitted} = 0 .. k - 1
  BY Seats
<1>3. {resolution[i].seq : i \in Enrolled} = 1 .. n
  BY DEF Store, Numbered
<1>4. \A i \in Enrolled : resolution[i].seq \in 1 .. n
  BY <1>3
<1>5. \A i \in Enrolled : Planned(i) < d /\ Planned(i) \in Nat
  BY AfterTheOthers, PlannedDate, TimesAndDates DEF Enrolled
<1>6. d \in Nat
  BY TimesAndDates
<1> HIDE DEF n, k, seat
<1>7. ASSUME NEW i \in Enrolled', NEW j \in Enrolled',
             Planned(i) < Planned(j) \/ (Planned(i) = Planned(j) /\ Rank[i] < Rank[j])
      PROVE  resolution'[i].seq < resolution'[j].seq
  <2>1. CASE i \in Enrolled /\ j \in Enrolled
    BY <1>1, <1>7, <2>1 DEF Store, Numbered
  <2>2. CASE i \in Enrolled /\ j \in admitted
    BY <1>1, <1>2, <1>4, <2>2
  <2>3. CASE i \in admitted /\ j \in admitted
    <3>1. Rank[i] < Rank[j]
      BY <1>1, <1>6, <1>7, <2>3
    <3> QED
      BY <1>1, <1>2, <2>3, <3>1
  <2>4. CASE i \in admitted /\ j \in Enrolled
    BY <1>1, <1>5, <1>6, <1>7, <2>4
  <2> QED
    BY <1>1, <2>1, <2>2, <2>3, <2>4
<1>8. {resolution'[i].seq : i \in Enrolled'} = 1 .. n + k
  <2>1. \A i \in Enrolled' : resolution'[i].seq \in 1 .. n + k
    BY <1>1, <1>2, <1>4
  <2>2. ASSUME NEW m \in 1 .. n + k PROVE \E i \in Enrolled' : resolution'[i].seq = m
    <3>1. CASE m <= n
      <4>1. m \in 1 .. n
        BY <1>1, <1>2, <3>1
      <4>2. PICK i \in Enrolled : resolution[i].seq = m
        BY <1>3, <4>1
      <4> QED
        BY <1>1, <4>2
    <3>2. CASE m > n
      <4>1. m - n - 1 \in 0 .. k - 1
        BY <1>1, <1>2, <3>2
      <4>2. PICK i \in admitted : seat(i) = m - n - 1
        BY <1>2, <4>1
      <4> QED
        BY <1>1, <4>2
    <3> QED
      BY <1>1, <1>2, <3>1, <3>2
  <2> QED
    BY <2>1, <2>2
<1> QED
  BY <1>1, <1>7, <1>8 DEF Numbered, n, k

\* The positions truly held on a session.
Held(d) == {i \in Enrolled : Planned(i) <= d /\ d <= ExitDay(i)}

(* What a completion admits fits beside the book it was given. *)
LEMMA AdmittedFit ==
    ASSUME NEW eligible \in SUBSET Items, NEW admitted \in SUBSET eligible,
           NEW book \in SUBSET Items, Admits(admitted, eligible, book)
    PROVE  /\ \A i \in admitted, j \in book : Symbol[i] # Symbol[j]
           /\ \A i, j \in admitted : Symbol[i] = Symbol[j] => i = j
           /\ admitted # {} => Cardinality(book \cup admitted) <= Slots
<1>1. \A i \in admitted : /\ \A j \in book \cup Before(admitted, i) : Symbol[j] # Symbol[i]
                          /\ Cardinality(book \cup Before(admitted, i)) < Slots
  BY DEF Admits
<1>2. admitted \in SUBSET Items
  OBVIOUS
<1>3. ASSUME NEW i \in admitted, NEW j \in admitted, Symbol[i] = Symbol[j] PROVE i = j
  <2>1. ~ (Rank[i] < Rank[j]) /\ ~ (Rank[j] < Rank[i])
    BY <1>1, <1>3 DEF Before
  <2> QED
    BY <1>2, <2>1, Numbers
<1>4. ASSUME admitted # {} PROVE Cardinality(book \cup admitted) <= Slots
  <2>1. /\ IsFiniteSet(admitted) /\ Cardinality(admitted) \in Nat
        /\ \A i \in admitted : IsFiniteSet(Before(admitted, i)) /\ Cardinality(Before(admitted, i)) \in Nat
        /\ {Cardinality(Before(admitted, i)) : i \in admitted} = 0 .. Cardinality(admitted) - 1
    BY <1>2, Seats
  <2>2. Cardinality(admitted) # 0
    BY <1>4, <2>1, FS_EmptySet
  <2>3. PICK l \in admitted : Cardinality(Before(admitted, l)) = Cardinality(admitted) - 1
    <3>1. Cardinality(admitted) - 1 \in 0 .. Cardinality(admitted) - 1
      BY <2>1, <2>2
    <3> QED
      BY <2>1, <3>1
  <2>4. admitted = Before(admitted, l) \cup {l}
    <3>1. Before(admitted, l) \in SUBSET (admitted \ {l})
      BY <1>2, Numbers DEF Before
    <3>2. IsFiniteSet(admitted \ {l}) /\ Cardinality(admitted \ {l}) = Cardinality(admitted) - 1
      BY <2>1, FS_RemoveElement
    <3>3. Before(admitted, l) = admitted \ {l}
      BY <2>3, <3>1, <3>2, FS_Subset
    <3> QED
      BY <3>3
  <2>5. IsFiniteSet(book \cup Before(admitted, l))
        /\ Cardinality(book \cup Before(admitted, l)) \in Nat
    <3>1. book \cup Before(admitted, l) \in SUBSET Items
      BY <1>2 DEF Before
    <3> QED
      BY <3>1, TrialAssumption, FS_Subset, FS_CardinalityType DEF TrialAssumption
  <2>6. book \cup admitted = (book \cup Before(admitted, l)) \cup {l}
    BY <2>4
  <2>7. Cardinality(book \cup admitted) <= Cardinality(book \cup Before(admitted, l)) + 1
    <3> DEFINE B == book \cup Before(admitted, l)
    <3>1. IsFiniteSet(B) /\ Cardinality(B) \in Nat /\ book \cup admitted = B \cup {l}
      BY <2>5, <2>6
    <3> HIDE DEF B
    <3>2. Cardinality(B \cup {l}) = IF l \in B THEN Cardinality(B) ELSE Cardinality(B) + 1
      BY <3>1, FS_AddElement
    <3>3. Cardinality(B \cup {l}) <= Cardinality(B) + 1
      BY <3>1, <3>2
    <3> QED
      BY <3>1, <3>3 DEF B
  <2>8. Cardinality(book \cup admitted) \in Nat
    BY <2>5, <2>6, FS_AddElement, FS_CardinalityType
  <2> QED
    BY <1>1, <2>5, <2>7, <2>8, Numbers
<1> QED
  BY <1>1, <1>3, <1>4

(* The positions after a completion were decided in time, and fit the slots: a book that    *)
(* holds what is truly held on the date is enough, although it may hold more.               *)
LEMMA CompletedInTime ==
    ASSUME Store, NEW d \in Dates, ~Conflicts(d), NEW t \in Times,
           NEW eligible \in SUBSET Items, NEW admitted \in SUBSET Items,
           NEW book \in SUBSET Items, Completes(d, t, eligible, admitted, book)
    PROVE  EnrolledInTime'
<1>1. /\ Enrolled' = Enrolled \cup admitted
      /\ \A i \in Enrolled : i \in Items
      /\ \A i \in admitted : Planned(i) = d /\ ~Late(i, d)
  BY CompletedPositions
<1>2. /\ t <= clock /\ clock \in Times /\ clock < OpenAt[d] /\ ~ClockBehind(t, d)
      /\ sealed' = [sealed EXCEPT ![d] = [kind |-> "completion", at |-> t, clock |-> clock]]
      /\ UNCHANGED <<recorded, imported>>
      /\ Truly(d) \subseteq book /\ Admits(admitted, eligible, book) /\ admitted \subseteq eligible
  BY DEF Completes
<1>3. /\ \A e \in Dates : e # d => sealed'[e] = sealed[e]
      /\ sealed'[d] = [kind |-> "completion", at |-> t, clock |-> clock]
  BY <1>2, SealInOrder
<1>4. \A i \in Enrolled : Planned(i) < d /\ Planned(i) \in Dates
  BY AfterTheOthers, PlannedDate DEF Enrolled
<1>5. ASSUME NEW i \in Enrolled'
      PROVE  /\ sealed'[Planned(i)].kind = "completion"
             /\ sealed'[Planned(i)].clock < OpenAt[Planned(i)]
             /\ recorded'[i] < Cutoff[Planned(i)] /\ imported'[i] < Cutoff[Planned(i)]
  <2>1. CASE i \in Enrolled
    <3>1. sealed'[Planned(i)] = sealed[Planned(i)]
      BY <1>3, <1>4, <2>1, TimesAndDates
    <3> QED
      BY <1>2, <2>1, <3>1 DEF Store, EnrolledInTime
  <2>2. CASE i \in admitted
    <3>1. ~ (recorded[i] >= Cutoff[d]) /\ ~ (imported[i] >= Cutoff[d])
      BY <1>1, <2>2 DEF Late
    <3>2. recorded[i] \in Int /\ imported[i] \in Int /\ Cutoff[d] \in Int
      <4>1. recorded[i] \in Times \cup {Never} /\ imported[i] \in Times \cup {Never}
        BY <2>2 DEF Store, TablesOK
      <4>2. Never \in Int /\ Cutoff[d] \in Int /\ \A u \in Times : u \in Int
        BY TimesAndDates, Numbers DEF Never
      <4> QED
        BY <4>1, <4>2
    <3> QED
      BY <1>1, <1>2, <1>3, <2>2, <3>1, <3>2
  <2> QED
    BY <1>1, <2>1, <2>2
<1>6. /\ \A i \in admitted, j \in book : Symbol[i] # Symbol[j]
      /\ \A i, j \in admitted : Symbol[i] = Symbol[j] => i = j
      /\ admitted # {} => Cardinality(book \cup admitted) <= Slots
  BY <1>2, AdmittedFit
<1>7. \A e \in Dates : /\ Cardinality(Held(e)) <= Slots
                       /\ \A i, j \in Held(e) : Symbol[i] = Symbol[j] => i = j
  BY DEF Store, EnrolledInTime, Held
<1>8. ASSUME NEW e \in Dates
      PROVE  /\ Cardinality(Held(e)') <= Slots
             /\ \A i, j \in Held(e)' : Symbol[i] = Symbol[j] => i = j
  <2>1. CASE e < d
    <3>1. \A i \in admitted : ~ (Planned(i) <= e)
      BY <1>1, <2>1, TimesAndDates
    <3>2. Held(e)' = Held(e)
      BY <1>1, <3>1 DEF Held
    <3> QED
      BY <1>7, <3>2
  <2>2. CASE e >= d
    <3>1. Held(e)' \subseteq Held(d) \cup admitted
      <4>1. ASSUME NEW i \in Enrolled, e <= ExitDay(i) PROVE i \in Held(d)
        <5>1. ExitDay(i) \in Nat
          BY <1>1, ExitBeforeHorizon
        <5> QED
          BY <1>4, <2>2, <4>1, <5>1, TimesAndDates DEF Held
      <4> QED
        BY <1>1, <4>1 DEF Held
    <3>2. Held(d) \subseteq book
      <4>1. Held(d) \subseteq Truly(d)
        <5>1. \A i \in Held(d) : i \in Enrolled /\ ExitDay(i) \in Nat /\ d <= ExitDay(i)
          BY <1>1, ExitBeforeHorizon DEF Held
        <5> QED
          BY <1>4, <5>1, TimesAndDates DEF Truly
      <4> QED
        BY <1>2, <4>1
    <3>3. \A i, j \in Held(e)' : Symbol[i] = Symbol[j] => i = j
      BY <1>6, <1>7, <3>1, <3>2
    <3>4. CASE admitted = {}
      <4>1. Held(e)' \in SUBSET Held(d) /\ Held(d) \in SUBSET Items
        BY <1>1, <3>1, <3>4 DEF Held
      <4>2. IsFiniteSet(Held(d)) /\ Cardinality(Held(d)) \in Nat
        BY <4>1, TrialAssumption, FS_Subset, FS_CardinalityType DEF TrialAssumption
      <4>3. Cardinality(Held(e)') <= Cardinality(Held(d)) /\ Cardinality(Held(e)') \in Nat
        BY <4>1, <4>2, FS_Subset, FS_CardinalityType
      <4> QED
        BY <1>7, <3>3, <4>2, <4>3, Numbers
    <3>5. CASE admitted # {}
      <4>1. Held(e)' \in SUBSET (book \cup admitted) /\ book \cup admitted \in SUBSET Items
        BY <3>1, <3>2
      <4>2. IsFiniteSet(book \cup admitted) /\ Cardinality(book \cup admitted) \in Nat
        BY <4>1, TrialAssumption, FS_Subset, FS_CardinalityType DEF TrialAssumption
      <4>3. Cardinality(Held(e)') <= Cardinality(book \cup admitted) /\ Cardinality(Held(e)') \in Nat
        BY <4>1, <4>2, FS_Subset, FS_CardinalityType
      <4> QED
        BY <1>6, <3>3, <3>5, <4>2, <4>3, Numbers
    <3> QED
      BY <3>4, <3>5
  <2> QED
    BY <2>1, <2>2, TimesAndDates
<1> QED
  BY <1>5, <1>8 DEF EnrolledInTime, Held

LEMMA CompleteStore ==
    ASSUME Store, NEW d \in Dates, ~Conflicts(d), NEW t \in Times,
           NEW eligible \in SUBSET Items, NEW admitted \in SUBSET Items,
           NEW book \in SUBSET Items, Completes(d, t, eligible, admitted, book)
    PROVE  /\ Store'
           /\ Completed' = Completed \cup {d}
<1> DEFINE due == DueOn(Pending, d)
<1>1. /\ t <= clock /\ clock \in Times /\ ~ClockBehind(t, d)
      /\ sealed' = [sealed EXCEPT ![d] = [kind |-> "completion", at |-> t, clock |-> clock]]
      /\ UNCHANGED <<recorded, imported, aside>>
  BY DEF Completes
<1>2. /\ Sealed' = Sealed \cup {d} /\ Completed' = Completed \cup {d}
      /\ \A a, b \in Sealed' : a < b => SealedAt(a)' <= SealedAt(b)'
      /\ sealed' \in [Dates -> {Unsealed} \cup [kind : {"completion", "lapse"}, at : Times,
                                                clock : Times]]
  BY <1>1, SealInOrder
<1>3. /\ admitted \subseteq due
      /\ \A i \in Items : i \notin due => resolution'[i] = resolution[i]
      /\ \A i \in admitted :
           resolution'[i] \in [state : {"enrolled"},
                               seq : {Cardinality(Enrolled) + 1 + Cardinality(Before(admitted, i))}]
      /\ \A i \in due \ admitted : resolution'[i] \in [state : States \ {"enrolled"}]
  BY CompletedRows
<1>4. /\ Enrolled' = Enrolled \cup admitted
      /\ \A i \in admitted : Planned(i) = d
      /\ Cardinality(Enrolled) \in Nat /\ Cardinality(Items) \in Nat
      /\ Cardinality(Enrolled) + Cardinality(admitted) <= Cardinality(Items)
  BY CompletedPositions
<1>5. due \subseteq Items /\ \A i \in due : imported[i] # Never
  BY DueCandidates
<1>6. \A i \in due : resolution'[i] \in Resolution /\ resolution'[i] # Unresolved
  <2>1. ASSUME NEW i \in admitted PROVE resolution'[i] \in Resolution /\ resolution'[i] # Unresolved
    <3>1. Cardinality(Before(admitted, i)) \in Nat /\ Cardinality(admitted) \in Nat
          /\ Cardinality(Before(admitted, i)) < Cardinality(admitted)
      BY Seats
    <3>2. Cardinality(Enrolled) + 1 + Cardinality(Before(admitted, i)) \in 1 .. Cardinality(Items)
      BY <1>4, <3>1
    <3>3. resolution'[i] \in [state : {"enrolled"}, seq : 1 .. Cardinality(Items)]
      BY <1>3, <3>2
    <3> QED
      BY <3>3 DEF Resolution, Unresolved
  <2>2. ASSUME NEW i \in due \ admitted
        PROVE  resolution'[i] \in Resolution /\ resolution'[i] # Unresolved
    <3>1. resolution'[i] \in [state : States \ {"enrolled"}]
      BY <1>3
    <3> QED
      BY <3>1 DEF Resolution, Unresolved, States
  <2> QED
    BY <2>1, <2>2
<1>7. TablesOK'
  <2>1. resolution' = [i \in Items |-> resolution'[i]]
    BY DEF Completes, Resolved
  <2>2. \A i \in Items : resolution'[i] \in Resolution
    BY <1>3, <1>6 DEF Store, TablesOK
  <2>3. resolution' \in [Items -> Resolution]
    BY <2>1, <2>2
  <2> QED
    BY <1>1, <1>2, <2>3 DEF Store, TablesOK
<1>8. Custody'
  BY <1>1, <1>3, <1>5 DEF Store, Custody
<1>9. \A i \in Pending' : \A e \in Sealed' : e < Planned(i)
  BY <1>1, <1>2, <1>3, <1>6, NoneBehind
<1>10. \A i \in Enrolled' : Planned(i) \in Completed'
  BY <1>2, <1>4 DEF Store, InOrder
<1>11. InOrder'
  BY <1>2, <1>9, <1>10 DEF InOrder
<1>12. Numbered' /\ EnrolledInTime'
  BY CompletedNumbers, CompletedInTime
<1> QED
  BY <1>2, <1>7, <1>8, <1>11, <1>12 DEF Store

(* Every step keeps the tables sound. *)
LEMMA StoreStep ==
    ASSUME Store, Touches
    PROVE  Store'
<1>1. CASE UNCHANGED tables
  BY <1>1, UntouchedStore
<1>2. ASSUME NEW i \in Items, Records(i) \/ SetsAside(i) PROVE Store'
  BY <1>2, RecordStore, AsideStore
<1>3. ASSUME NEW i \in Items, NEW t \in Times, Imports(i, t) PROVE Store'
  BY <1>3, ImportStore
<1>4. ASSUME NEW w \in Workers, NEW d \in Dates, Seals(w, d) PROVE Store'
  <2>1. ~Conflicts(d)
    BY <1>4 DEF Seals, Sealer
  <2>2. ASSUME NEW t \in Times, Lapses(d, t) PROVE Store'
    BY <2>1, <2>2, LapseStore
  <2>3. ASSUME NEW t \in Times, NEW eligible \in SUBSET Items, NEW admitted \in SUBSET Items,
               NEW book \in SUBSET Items, Completes(d, t, eligible, admitted, book)
        PROVE  Store'
    BY <2>1, <2>3, CompleteStore
  <2> QED
    BY <1>4, <2>2, <2>3 DEF Seals
<1> QED
  BY <1>1, <1>2, <1>3, <1>4 DEF Touches

(* What was recorded, enrolled or completed stays so. *)
LEMMA Growth ==
    ASSUME Store, Touches
    PROVE  /\ Enrolled \subseteq Enrolled' /\ Completed \subseteq Completed'
           /\ Sealed \subseteq Sealed'
           /\ \A i \in Items : recorded[i] # Never => recorded'[i] # Never
           /\ Enrolled' # Enrolled \/ Completed' # Completed =>
                \E w \in Workers, d \in Dates, t \in Times,
                   eligible, admitted, book \in SUBSET Items :
                  Sealer(w, d) /\ Completes(d, t, eligible, admitted, book)
<1> DEFINE Good == /\ Enrolled \subseteq Enrolled' /\ Completed \subseteq Completed'
                   /\ Sealed \subseteq Sealed'
                   /\ \A i \in Items : recorded[i] # Never => recorded'[i] # Never
           Same == Enrolled' = Enrolled /\ Completed' = Completed
<1>1. CASE UNCHANGED tables
  <2>1. Good /\ Same
    BY <1>1 DEF tables, Enrolled, Completed, Sealed
  <2> QED
    BY <2>1
<1>2. ASSUME NEW i \in Items, Records(i) \/ SetsAside(i) PROVE Good /\ Same
  <2>1. UNCHANGED <<imported, resolution, sealed>>
    BY <1>2 DEF Records, SetsAside
  <2>2. \A j \in Items : recorded[j] # Never => recorded'[j] # Never
    BY <1>2 DEF Records, SetsAside, Store, TablesOK
  <2> QED
    BY <2>1, <2>2 DEF Enrolled, Completed, Sealed
<1>3. ASSUME NEW i \in Items, NEW t \in Times, Imports(i, t) PROVE Good /\ Same
  <2>1. SamePositions /\ UNCHANGED <<recorded, sealed>>
    BY <1>3, ImportPositions DEF Imports
  <2> QED
    BY <2>1 DEF SamePositions, Completed, Sealed
<1>4. ASSUME NEW d \in Dates, ~Conflicts(d), NEW t \in Times, Lapses(d, t) PROVE Good /\ Same
  <2>1. Same /\ UNCHANGED recorded
    BY <1>4, LapseStore DEF SamePositions, Lapses
  <2>2. Sealed \subseteq Sealed'
    BY <1>4 DEF Lapses, Sealed, Store, TablesOK
  <2> QED
    BY <2>1, <2>2
<1>5. ASSUME NEW d \in Dates, ~Conflicts(d), NEW t \in Times, NEW eligible \in SUBSET Items,
             NEW admitted \in SUBSET Items, NEW book \in SUBSET Items,
             Completes(d, t, eligible, admitted, book)
      PROVE  Good
  <2>1. Enrolled \subseteq Enrolled'
    <3>1. Enrolled' = Enrolled \cup admitted
      BY <1>5, CompletedPositions
    <3> QED
      BY <3>1
  <2>3. Completed \subseteq Completed'
    BY <1>5, CompleteStore
  <2>4. UNCHANGED recorded
    BY <1>5 DEF Completes
  <2>2. Sealed \subseteq Sealed'
    BY <1>5 DEF Completes, Sealed, Store, TablesOK
  <2> QED
    BY <2>1, <2>2, <2>3, <2>4
<1>6. ASSUME NEW w \in Workers, NEW d \in Dates, Seals(w, d)
      PROVE  /\ Good
             /\ ~Same =>
                  \E t \in Times, eligible, admitted, book \in SUBSET Items :
                    Sealer(w, d) /\ Completes(d, t, eligible, admitted, book)
  <2>1. ~Conflicts(d) /\ Sealer(w, d)
    BY <1>6 DEF Seals, Sealer
  <2>2. CASE \E t \in Times : Lapses(d, t)
    BY <1>4, <2>1, <2>2
  <2>3. CASE \E t \in Times, eligible, admitted, book \in SUBSET Items :
               Completes(d, t, eligible, admitted, book)
    BY <1>5, <2>1, <2>3
  <2> QED
    BY <1>6, <2>2, <2>3 DEF Seals
<1> HIDE DEF Good, Same
<1>7. Good /\ (~Same => \E w \in Workers, d \in Dates, t \in Times,
                            eligible, admitted, book \in SUBSET Items :
                           Sealer(w, d) /\ Completes(d, t, eligible, admitted, book))
  <2>1. CASE UNCHANGED tables
    <3>1. Good /\ Same
      BY <2>1 DEF Good, Same, tables, Enrolled, Completed, Sealed
    <3> QED
      BY <3>1
  <2>2. CASE \E w \in Workers, d \in Dates : Seals(w, d)
    BY <1>6, <2>2
  <2> QED
    BY <1>2, <1>3, <2>1, <2>2 DEF Touches
<1> QED
  BY <1>7 DEF Good, Same

LEMMA IInvStore ==
    ASSUME IInv
    PROVE  Store
BY DEF IInv, Store, TypeOK, TablesOK

(* A pass knows what it knew while another acts. *)
LEMMA KnowsKept ==
    ASSUME IInv, Touches, NEW w \in Workers, work'[w] = work[w]
    PROVE  Knows(w)'
<1>1. /\ Enrolled \subseteq Enrolled'
      /\ \A i \in Items : recorded[i] # Never => recorded'[i] # Never
  BY IInvStore, Growth
<1>2. Date(w)' = Date(w)
  BY DEF Date
<1>3. Knows(w)
  BY DEF IInv
<1>4. At(w, "import")' => \A i \in work'[w].left : recorded'[i] # Never
  <2> SUFFICES ASSUME At(w, "import") PROVE \A i \in work[w].left : recorded'[i] # Never
    BY DEF At
  <2>1. work[w].left \in SUBSET Items
    BY Locals DEF IInv
  <2> QED
    BY <1>1, <1>3, <2>1 DEF Knows
<1>5. At(w, "commit")' \/ At(w, "after_open")' =>
        work'[w].left # {} /\ Cutoff[Date(w)'] <= work'[w].now
  BY <1>2, <1>3 DEF Knows, At
<1>6. At(w, "commit")' =>
        /\ work'[w].next <= Cardinality(Enrolled)' + 1
        /\ work'[w].next = Cardinality(Enrolled)' + 1 => Truly(Date(w))' \subseteq work'[w].book
  <2> SUFFICES ASSUME At(w, "commit")
               PROVE  /\ work[w].next <= Cardinality(Enrolled)' + 1
                      /\ work[w].next = Cardinality(Enrolled)' + 1
                           => Truly(Date(w))' \subseteq work[w].book
    BY DEF At
  <2>1. work[w].next \in Nat
    <3>1. work[w].next \in 1 .. Cardinality(Items) + 1
      BY Locals DEF IInv
    <3> QED
      BY <3>1
  <2>2. /\ work[w].next <= Cardinality(Enrolled) + 1
        /\ work[w].next = Cardinality(Enrolled) + 1 => Truly(Date(w)) \subseteq work[w].book
    BY <1>3 DEF Knows
  <2>3. /\ IsFiniteSet(Enrolled') /\ Cardinality(Enrolled') \in Nat
        /\ Cardinality(Enrolled) \in Nat /\ Cardinality(Enrolled) <= Cardinality(Enrolled')
        /\ Cardinality(Enrolled) = Cardinality(Enrolled') => Enrolled = Enrolled'
    <3>1. Enrolled' \in SUBSET Items /\ Enrolled \in SUBSET Enrolled'
      BY <1>1 DEF Enrolled
    <3>2. IsFiniteSet(Enrolled') /\ Cardinality(Enrolled') \in Nat
      BY <3>1, TrialAssumption, FS_Subset, FS_CardinalityType DEF TrialAssumption
    <3> QED
      BY <3>1, <3>2, FS_Subset, FS_CardinalityType
  <2>4. ASSUME Enrolled' = Enrolled PROVE Truly(Date(w))' = Truly(Date(w))
    BY <1>2, <2>4 DEF Truly
  <2>5. Cardinality(Enrolled)' = Cardinality(Enrolled')
    OBVIOUS
  <2> QED
    BY <2>1, <2>2, <2>3, <2>4, <2>5
<1> QED
  BY <1>4, <1>5, <1>6 DEF Knows

(* What a pass does to its own locals. *)
LEMMA GoneTo ==
    ASSUME TypeOK, NEW w \in Workers, NEW r, Goto(w, r)
    PROVE  /\ work'[w] = r
           /\ \A v \in Workers : v # w => work'[v] = work[v]
           /\ r \in Working => work' \in [Workers -> Working]
BY DEF TypeOK, Goto

LEMMA DroppedRecord ==
    ASSUME TypeOK, NEW w \in Workers, NEW i, NextRecord(w, i), DropRecord(w, i)
    PROVE  /\ work'[w] = [at |-> "import", now |-> work[w].now, left |-> work[w].left \ {i}]
           /\ \A v \in Workers : v # w => work'[v] = work[v]
           /\ work' \in [Workers -> Working]
<1>1. work[w] \in [at : {"import"}, now : Times, left : SUBSET Items]
  BY DEF TypeOK, Working, NextRecord, At, Idle
<1>2. work'[w] = [work[w] EXCEPT !.left = @ \ {i}]
  BY DEF TypeOK, DropRecord
<1>3. work'[w] = [at |-> "import", now |-> work[w].now, left |-> work[w].left \ {i}]
  BY <1>1, <1>2
<1>4. work'[w] \in Working
  BY <1>1, <1>3 DEF Working
<1> QED
  BY <1>3, <1>4 DEF TypeOK, DropRecord

\* What the locals of a pass are after a step of its own.
Settles(w) ==
    /\ work' \in [Workers -> Working]
    /\ \A v \in Workers : v # w => work'[v] = work[v]
    /\ Knows(w)'

(* A pass that ends, turns to the outcomes or takes up a date has nothing to know. *)
LEMMA NothingToKnow ==
    ASSUME TypeOK, NEW w \in Workers, NEW r \in Working, Goto(w, r),
           r.at \in {"idle", "entry", "outcomes"}
    PROVE  Settles(w)
<1>1. work'[w] = r /\ work' \in [Workers -> Working]
      /\ \A v \in Workers : v # w => work'[v] = work[v]
  BY GoneTo
<1>2. Knows(w)'
  BY <1>1 DEF Knows, At
<1> QED
  BY <1>1, <1>2 DEF Settles

LEMMA Places ==
    /\ Idle \in Working /\ Idle.at = "idle"
    /\ [at |-> "outcomes"] \in Working
    /\ \A t \in Times, S \in SUBSET Items : [at |-> "entry", now |-> t, left |-> S] \in Working
BY DEF Working, Idle

LEMMA Ends ==
    ASSUME TypeOK, NEW w \in Workers, End(w)
    PROVE  Settles(w)
BY NothingToKnow, Places DEF End

LEMMA ToNextDate ==
    ASSUME TypeOK, NEW w \in Workers, Entering(w), Goto(w, NextDate(w))
    PROVE  Settles(w)
<1>1. NextDate(w) \in Working /\ NextDate(w).at = "entry"
  BY Locals, Places DEF NextDate
<1> QED
  BY <1>1, NothingToKnow

LEMMA ToOutcomes ==
    ASSUME TypeOK, NEW w \in Workers, Goto(w, [at |-> "outcomes"])
    PROVE  Settles(w)
BY NothingToKnow, Places

LEMMA LapseSettles ==
    ASSUME TypeOK, NEW w \in Workers, NEW d, NEW t, Entering(w), Lapse(w, d, t)
    PROVE  Settles(w)
BY Ends, ToNextDate DEF Lapse, Fail

LEMMA ImportSettles ==
    ASSUME IInv, NEW w \in Workers, NEW i \in Items, NextRecord(w, i), DropRecord(w, i),
           UNCHANGED recorded
    PROVE  Settles(w)
<1>1. /\ work'[w] = [at |-> "import", now |-> work[w].now, left |-> work[w].left \ {i}]
      /\ \A v \in Workers : v # w => work'[v] = work[v]
      /\ work' \in [Workers -> Working]
  BY DroppedRecord DEF IInv
<1>2. \A j \in work[w].left : recorded[j] # Never
  BY DEF IInv, Knows, NextRecord
<1>3. Knows(w)'
  BY <1>1, <1>2 DEF Knows, At
<1> QED
  BY <1>1, <1>3 DEF Settles

LEMMA BeginSettles ==
    ASSUME IInv, NEW w \in Workers, Begin(w)
    PROVE  Settles(w)
<1> DEFINE r == [at |-> "import", now |-> clock,
                 left |-> {i \in Items : recorded[i] # Never /\ ~Settled(i)}]
<1>1. Goto(w, r) /\ UNCHANGED recorded /\ clock \in Times
  BY DEF Begin, evidenceVars, IInv, TypeOK
<1>2. r \in Working
  BY <1>1 DEF Working
<1>3. /\ work'[w] = r /\ work' \in [Workers -> Working]
      /\ \A v \in Workers : v # w => work'[v] = work[v]
  BY <1>1, <1>2, GoneTo DEF IInv
<1>4. Knows(w)'
  BY <1>1, <1>3 DEF Knows, At
<1> QED
  BY <1>3, <1>4 DEF Settles

LEMMA ReadSettles ==
    ASSUME IInv, NEW w \in Workers, ReadBook(w)
    PROVE  Settles(w)
<1>1. PICK seen \in SUBSET {i \in Enrolled : ExitDay(i) < Date(w)} :
        Goto(w, [at |-> "commit", now |-> work[w].now, left |-> work[w].left,
                 book |-> Book(Date(w), seen), next |-> Cardinality(Enrolled) + 1])
  BY DEF ReadBook
<1> DEFINE r == [at |-> "commit", now |-> work[w].now, left |-> work[w].left,
                 book |-> Book(Date(w), seen), next |-> Cardinality(Enrolled) + 1]
<1>2. /\ work[w].left # {} /\ Cutoff[Date(w)] <= work[w].now
      /\ work[w].left \in SUBSET Items /\ work[w].now \in Times
      /\ UNCHANGED <<resolution, recorded>>
  BY Locals DEF ReadBook, Entering, IInv, evidenceVars, trialVars
<1>3. Book(Date(w), seen) \in SUBSET Items
  BY DEF Book, Enrolled
<1>4. Cardinality(Enrolled) + 1 \in 1 .. Cardinality(Items) + 1
  <2>1. Enrolled \in SUBSET Items /\ IsFiniteSet(Items)
    BY TrialAssumption DEF Enrolled, TrialAssumption
  <2>2. Cardinality(Enrolled) \in Nat /\ Cardinality(Items) \in Nat
        /\ Cardinality(Enrolled) <= Cardinality(Items)
    BY <2>1, FS_Subset, FS_CardinalityType
  <2> QED
    BY <2>2
<1>5. r \in Working
  BY <1>2, <1>3, <1>4 DEF Working
<1>6. /\ work'[w] = r /\ work' \in [Workers -> Working]
      /\ \A v \in Workers : v # w => work'[v] = work[v]
  BY <1>1, <1>5, GoneTo DEF IInv
<1>7. Truly(Date(w)) \subseteq Book(Date(w), seen)
  <2>1. Date(w) \in Dates
    BY <1>2, DateOf
  <2>2. ASSUME NEW i \in Truly(Date(w)) PROVE i \in Book(Date(w), seen)
    <3>1. i \in Items /\ i \in Enrolled /\ Planned(i) < Date(w) /\ ExitDay(i) >= Date(w)
      BY DEF Truly, Enrolled
    <3>2. LastDay(i) >= Date(w) /\ ~ (ExitDay(i) < Date(w))
      BY <2>1, <3>1, ExitBeforeHorizon, TimesAndDates
    <3> QED
      BY <3>1, <3>2 DEF Book
  <2> QED
    BY <2>2
<1>8. work'[w].left = work[w].left /\ work'[w].now = work[w].now /\ work'[w].at = "commit"
      /\ work'[w].book = Book(Date(w), seen) /\ work'[w].next = Cardinality(Enrolled) + 1
  BY <1>6
<1>9. Date(w)' = Date(w) /\ Enrolled' = Enrolled
  BY <1>2, <1>8 DEF Date, Enrolled
<1>10. Truly(Date(w))' = Truly(Date(w)) /\ Cardinality(Enrolled)' = Cardinality(Enrolled)
  BY <1>9 DEF Truly
<1>11. Cardinality(Enrolled) \in Nat
  <2>1. Enrolled \in SUBSET Items
    BY DEF Enrolled
  <2> QED
    BY <2>1, TrialAssumption, FS_Subset, FS_CardinalityType DEF TrialAssumption
<1>12. Knows(w)'
  BY <1>2, <1>7, <1>8, <1>9, <1>10, <1>11 DEF Knows, At
<1> QED
  BY <1>6, <1>12 DEF Settles

LEMMA CompleteSettles ==
    ASSUME IInv, NEW w \in Workers, Complete(w)
    PROVE  Settles(w)
<1>1. Entering(w) /\ At(w, "commit") /\ TypeOK
  BY DEF Complete, Entering, IInv
<1>2. CASE End(w)
  BY <1>1, <1>2, Ends
<1>3. CASE Goto(w, [at |-> "outcomes"])
  BY <1>1, <1>3, ToOutcomes
<1>4. CASE Goto(w, NextDate(w))
  BY <1>1, <1>4, ToNextDate
<1>5. CASE Goto(w, [at |-> "after_open", now |-> work[w].now, left |-> work[w].left,
                    decision |-> clock])
  <2> DEFINE r == [at |-> "after_open", now |-> work[w].now, left |-> work[w].left,
                   decision |-> clock]
  <2>1. work[w].now \in Times /\ work[w].left \in SUBSET Items /\ clock \in Times
    BY <1>1, Locals DEF IInv, TypeOK
  <2>2. r \in Working
    BY <2>1 DEF Working
  <2>3. /\ work'[w] = r /\ work' \in [Workers -> Working]
        /\ \A v \in Workers : v # w => work'[v] = work[v]
    BY <1>1, <1>5, <2>2, GoneTo
  <2>4. work'[w].left = work[w].left /\ work'[w].now = work[w].now /\ work'[w].at = "after_open"
    BY <2>3
  <2>5. Date(w)' = Date(w)
    BY <2>4 DEF Date
  <2>6. work[w].left # {} /\ Cutoff[Date(w)] <= work[w].now
    BY <1>1 DEF IInv, Knows
  <2>7. Knows(w)'
    BY <2>4, <2>5, <2>6 DEF Knows, At
  <2> QED
    BY <2>3, <2>7 DEF Settles
<1> QED
  BY <1>2, <1>3, <1>4, <1>5 DEF Complete, Fail

(* Every step of a pass leaves its locals of their type, and it knows what it has to. *)
LEMMA PassSettles ==
    ASSUME IInv, NEW w \in Workers, Pass(w) \/ PassDies(w)
    PROVE  Settles(w)
<1> USE DEF IInv
<1>1. CASE Begin(w)
  BY <1>1, BeginSettles
<1>2. ASSUME NEW i \in Items, PassOver(w, i) \/ SetAside(w, i) \/ Import(w, i) PROVE Settles(w)
  BY <1>2, ImportSettles DEF PassOver, SetAside, Import, evidenceVars
<1>3. ASSUME NEW i \in Items, ImportRetried(w, i) PROVE Settles(w)
  BY <1>3, Ends DEF ImportRetried
<1>4. CASE StartEntries(w)
  <2>1. [at |-> "entry", now |-> clock, left |-> Pending] \in Working
    BY Places DEF TypeOK, Pending, Candidates
  <2> QED
    BY <1>4, <2>1, Places, NothingToKnow DEF StartEntries
<1>5. CASE EntriesWait(w)
  BY <1>5, ToOutcomes DEF EntriesWait
<1>6. CASE LapseDate(w)
  BY <1>6, LapseSettles DEF LapseDate, Entering
<1>7. CASE ReadBook(w)
  BY <1>7, ReadSettles
<1>8. CASE Complete(w)
  BY <1>8, CompleteSettles
<1>9. CASE AfterOpen(w)
  BY <1>9, LapseSettles, Ends DEF AfterOpen, Fail, Entering
<1>10. CASE AppendOutcome(w)
  <2>1. UNCHANGED work /\ At(w, "outcomes")
    BY <1>10 DEF AppendOutcome
  <2>2. Knows(w)'
    BY <2>1 DEF Knows, At
  <2> QED
    BY <2>1, <2>2 DEF Settles, TypeOK
<1>11. CASE EndPass(w) \/ PassDies(w)
  BY <1>11, Ends DEF EndPass, PassDies
<1> QED
  BY <1>1, <1>2, <1>3, <1>4, <1>5, <1>6, <1>7, <1>8, <1>9, <1>10, <1>11 DEF Pass

-----------------------------------------------------------------------------
(* The invariant is inductive *)

LEMMA InitIInv == Init => IInv
<1> SUFFICES ASSUME Init PROVE IInv
  OBVIOUS
<1>1. 0 \in Times /\ \A n \in 0 .. 0 : n \in 0 .. MaxFaults
  BY Numbers DEF Times
<1>2. TypeOK
  <2>1. /\ recorded \in [Items -> Times \cup {Never}]
        /\ imported \in [Items -> Times \cup {Never}]
        /\ aside \in [Items -> {"none", "excluded", "invalid"}]
    BY <1>1 DEF Init
  <2>2. resolution \in [Items -> Resolution]
    BY DEF Init, Resolution
  <2>3. sealed \in [Dates -> {Unsealed} \cup [kind : {"completion", "lapse"}, at : Times, clock : Times]]
    BY DEF Init
  <2>4. work \in [Workers -> Working]
    BY DEF Init, Working
  <2>5. clock \in Times /\ faults \in 0 .. MaxFaults
    BY <1>1, Numbers DEF Init
  <2> QED
    BY <2>1, <2>2, <2>3, <2>4, <2>5 DEF Init, TypeOK, Proven
<1>3. Enrolled = {} /\ Pending = {} /\ Sealed = {}
  BY DEF Init, Enrolled, Unresolved, Pending, Candidates, Sealed, Unsealed
<1>4. Custody
  BY DEF Init, Custody
<1>5. InOrder
  BY <1>3 DEF InOrder
<1>6. Numbered
  <2>1. Cardinality(Enrolled) = 0
    BY <1>3, FS_EmptySet
  <2>2. {resolution[i].seq : i \in Enrolled} = 1 .. Cardinality(Enrolled)
    BY <1>3, <2>1
  <2> QED
    BY <1>3, <2>2 DEF Numbered
<1>7. EnrolledInTime
  <2>1. \A d \in Dates : {i \in Enrolled : Planned(i) <= d /\ d <= ExitDay(i)} = {}
    BY <1>3
  <2>2. Cardinality({}) <= Slots
    BY FS_EmptySet, Numbers
  <2> QED
    BY <1>3, <2>1, <2>2 DEF EnrolledInTime
<1>8. \A w \in Workers : Knows(w)
  BY DEF Init, Knows, At, Idle
<1> QED
  BY <1>2, <1>4, <1>5, <1>6, <1>7, <1>8 DEF IInv

\* The types of what the coordinator and the surroundings keep.
RestOK ==
    /\ clock \in Times
    /\ faulted \in BOOLEAN
    /\ receipt \in {NoReceipt} \cup [kind : {"deadline_miss", "terminal_seal"}, universe : SUBSET Items]
    /\ staged = NotStaged \/ staged.projection \in UNION {[S -> Resolution] : S \in SUBSET Items}
    /\ published \in BOOLEAN
    /\ report \in {"none", "KILL", "PROMOTE_RECOMMENDED"}
    /\ coord \in {"idle", "publish", "seal"}
    /\ faults \in 0 .. MaxFaults

LEMMA PassRest ==
    ASSUME IInv, NEW w \in Workers, Pass(w) \/ PassDies(w)
    PROVE  /\ UNCHANGED <<clock, sealVars>>
           /\ faulted' \in BOOLEAN
           /\ faults' \in 0 .. MaxFaults
           /\ \/ outcomes' = outcomes
              \/ /\ outcomes' = [outcomes EXCEPT ![First(Provable)] = clock]
                 /\ Provable # {}
<1>1. faulted \in BOOLEAN /\ faults \in 0 .. MaxFaults
  BY DEF IInv, TypeOK
<1>2. CASE Begin(w)
  BY <1>1, <1>2, Numbers DEF Begin, trialVars, sealVars
<1>3. ASSUME NEW i \in Items,
             PassOver(w, i) \/ SetAside(w, i) \/ Import(w, i) \/ ImportRetried(w, i)
      PROVE  UNCHANGED <<clock, sealVars, faulted, faults, outcomes>>
  BY <1>3 DEF PassOver, SetAside, Import, ImportRetried, trialVars, sealVars
<1>4. CASE StartEntries(w) \/ EntriesWait(w) \/ ReadBook(w) \/ EndPass(w)
  BY <1>1, <1>4 DEF StartEntries, EntriesWait, ReadBook, EndPass, trialVars, sealVars
<1>5. CASE LapseDate(w)
  BY <1>1, <1>5 DEF LapseDate, Lapse, Fail, sealVars
<1>6. CASE Complete(w)
  BY <1>1, <1>6 DEF Complete, Fail, sealVars
<1>7. CASE AfterOpen(w)
  BY <1>1, <1>7 DEF AfterOpen, Lapse, Fail, sealVars
<1>8. CASE AppendOutcome(w)
  BY <1>1, <1>8 DEF AppendOutcome, sealVars
<1>9. CASE PassDies(w)
  BY <1>1, <1>9, Numbers DEF PassDies, Bad, trialVars, sealVars
<1> QED
  BY <1>1, <1>2, <1>3, <1>4, <1>5, <1>6, <1>7, <1>8, <1>9 DEF Pass

LEMMA ProjectionType ==
    ASSUME TablesOK
    PROVE  Projection \in UNION {[S -> Resolution] : S \in SUBSET Items}
<1>1. Candidates \in SUBSET Items
  BY DEF Candidates
<1>2. Projection \in [Candidates -> Resolution]
  BY <1>1 DEF Projection, Restrict, TablesOK
<1> QED
  BY <1>1, <1>2

LEMMA RestStep ==
    ASSUME IInv, [Next]_vars
    PROVE  RestOK'
<1>1. RestOK
  BY DEF IInv, TypeOK, RestOK
<1>2. ASSUME NEW i \in Items, Record(i) \/ Correct(i) PROVE RestOK'
  BY <1>1, <1>2 DEF Record, Correct, RestOK, trialVars, sealVars
<1>3. ASSUME NEW w \in Workers, Pass(w) \/ PassDies(w) PROVE RestOK'
  BY <1>1, <1>3, PassRest DEF RestOK, sealVars
<1>4. Candidates \in SUBSET Items
  BY DEF Candidates
<1>5. CASE MissDeadline
  BY <1>1, <1>4, <1>5 DEF MissDeadline, RestOK, trialVars
<1>6. CASE DecideMiss
  BY <1>1, <1>6 DEF DecideMiss, RestOK, trialVars
<1>7. CASE Stage
  <2>1. Projection \in UNION {[S -> Resolution] : S \in SUBSET Items}
    BY IInvStore, ProjectionType DEF Store
  <2>2. staged' = [staged |-> TRUE, projection |-> Projection]
    BY <1>7 DEF Stage
  <2>3. staged'.projection \in UNION {[S -> Resolution] : S \in SUBSET Items}
    BY <2>1, <2>2
  <2> QED
    BY <1>1, <1>7, <2>3 DEF Stage, RestOK, trialVars
<1>8. CASE Restage \/ Publish
  BY <1>1, <1>8 DEF Restage, Publish, RestOK, trialVars
<1>9. CASE Seal
  BY <1>1, <1>4, <1>9 DEF Seal, RestOK, trialVars
<1>10. CASE Decide
  BY <1>1, <1>10 DEF Decide, RestOK, trialVars
<1>11. CASE CoordinatorDies
  BY <1>1, <1>11, Numbers DEF CoordinatorDies, Bad, RestOK, trialVars
<1>12. CASE Tick
  <2>1. clock' \in Times
    BY <1>1, <1>12, Numbers DEF Tick, RestOK, Times
  <2> QED
    BY <1>1, <1>12, <2>1 DEF Tick, RestOK, trialVars, sealVars
<1>13. CASE ClockSetBack
  BY <1>1, <1>13, Numbers DEF ClockSetBack, Bad, RestOK, trialVars, sealVars
<1>14. CASE UNCHANGED vars
  BY <1>1, <1>14 DEF vars, RestOK, trialVars, sealVars
<1> QED
  BY <1>2, <1>3, <1>5, <1>6, <1>7, <1>8, <1>9, <1>10, <1>11, <1>12, <1>13, <1>14
     DEF Next, Coordinate

OutcomesOK == outcomes \in [Items -> Times \cup {Never}] /\ Proven \subseteq Enrolled

(* A step of the others leaves every pass where it is, and the outcomes. *)
LEMMA OtherSteps ==
    ASSUME [Next]_vars, ~ \E w \in Workers : Pass(w) \/ PassDies(w)
    PROVE  UNCHANGED <<work, outcomes>>
BY DEF Next, Record, Correct, Coordinate, MissDeadline, DecideMiss, Stage, Restage, Publish, Seal,
   Decide, CoordinatorDies, Tick, ClockSetBack, vars, trialVars

LEMMA StepIInv == IInv /\ [Next]_vars => IInv'
<1> SUFFICES ASSUME IInv, [Next]_vars PROVE IInv'
  OBVIOUS
<1>1. Touches
  BY StepTouches
<1>2. Store'
  BY <1>1, IInvStore, StoreStep
<1>3. RestOK'
  BY RestStep
<1>4. Enrolled \subseteq Enrolled'
  BY <1>1, IInvStore, Growth
<1>5. OutcomesOK' /\ work' \in [Workers -> Working] /\ \A w \in Workers : Knows(w)'
  <2>1. OutcomesOK /\ work \in [Workers -> Working] /\ clock \in Times
    BY DEF IInv, TypeOK, OutcomesOK
  <2>2. ASSUME NEW w \in Workers, Pass(w) \/ PassDies(w)
        PROVE  /\ OutcomesOK'
               /\ work' \in [Workers -> Working]
               /\ \A v \in Workers : Knows(v)'
    <3>1. Settles(w)
      BY <2>2, PassSettles
    <3>2. \A v \in Workers : Knows(v)'
      BY <1>1, <3>1, KnowsKept DEF Settles
    <3>3. Provable # {} => First(Provable) \in Enrolled
      <4>1. Provable \in SUBSET Items /\ Provable \subseteq Enrolled
        BY DEF Provable, Enrolled
      <4> QED
        BY <4>1, FirstOf
    <3>4. \/ outcomes' = outcomes
          \/ outcomes' = [outcomes EXCEPT ![First(Provable)] = clock] /\ Provable # {}
      BY <2>2, PassRest
    <3>5. OutcomesOK'
      BY <1>4, <2>1, <3>3, <3>4 DEF OutcomesOK, Proven
    <3> QED
      BY <3>1, <3>2, <3>5 DEF Settles
  <2>3. CASE ~ \E w \in Workers : Pass(w) \/ PassDies(w)
    <3>1. UNCHANGED <<work, outcomes>>
      BY <2>3, OtherSteps
    <3>2. OutcomesOK'
      BY <1>4, <2>1, <3>1 DEF OutcomesOK, Proven
    <3> QED
      BY <1>1, <2>1, <3>1, <3>2, KnowsKept
  <2> QED
    BY <2>2, <2>3
<1> QED
  BY <1>2, <1>3, <1>5 DEF IInv, Store, TypeOK, TablesOK, RestOK, OutcomesOK

LEMMA Invariance == Spec => []IInv
BY InitIInv, StepIInv, PTL DEF Spec

-----------------------------------------------------------------------------
(* Every table of the trial keeps rows of its kind: above all the numbers of the positions *)
(* stay those of a cohort (trial_runtime.py).                                               *)
THEOREM TypeCorrect == Spec => []TypeOK
BY Invariance, PTL DEF IInv

(* Whatever passes overlap, die or run with a clock set back, a position is enrolled only   *)
(* by a decision before the open on evidence recorded and imported before the cutoff, and   *)
(* the positions held on a session never exceed the slots nor hold a symbol twice, although *)
(* the book they were decided on is an estimate (resolve_ranked_entry_date, _prior_book).   *)
THEOREM PositionsInTime == Spec => []EnrolledInTime
BY Invariance, PTL DEF IInv

-----------------------------------------------------------------------------
(* The freeze *)

Steady == Alone \/ Brief

\* What a freeze depends on.
LEMMA SameFreeze ==
    ASSUME Enrolled' = Enrolled, Completed' = Completed
    PROVE  Frozen' = Frozen
BY DEF Frozen, Reached

Trades(d) == {i \in Enrolled : Planned(i) \in Completed /\ Planned(i) <= d}

(* A freeze is not undone. *)
LEMMA FreezeStays ==
    ASSUME Enrolled \subseteq Enrolled', Completed \subseteq Completed', Frozen
    PROVE  Frozen'
<1>1. PICK d \in Completed : Reached(d)
  BY DEF Frozen
<1> DEFINE T == Trades(d)
           T1 == Trades(d)'
           P == {Planned(i) : i \in T}
           P1 == {Planned(i) : i \in T1}
<1>2. Cardinality(T) >= Floor /\ Cardinality(P) >= FloorDates
  BY <1>1 DEF Reached, Trades
<1>3. T \subseteq T1 /\ T1 \subseteq Items
  BY DEF Trades, Enrolled
<1>4. P \subseteq P1 /\ P1 \subseteq Dates
  BY <1>3, PlannedDate
<1> HIDE DEF T, T1, P, P1
<1>5. IsFiniteSet(T1) /\ Cardinality(T1) \in Nat /\ Cardinality(T) \in Nat
      /\ Cardinality(T) <= Cardinality(T1)
  BY <1>3, TrialAssumption, FS_Subset, FS_CardinalityType DEF TrialAssumption
<1>6. IsFiniteSet(Dates)
  BY TrialAssumption, FS_Interval DEF TrialAssumption, Dates
<1>7. IsFiniteSet(P1) /\ Cardinality(P1) \in Nat /\ Cardinality(P) \in Nat
      /\ Cardinality(P) <= Cardinality(P1)
  BY <1>4, <1>6, FS_Subset, FS_CardinalityType
<1>8. Floor \in Nat /\ FloorDates \in Nat
  BY TrialAssumption DEF TrialAssumption
<1>9. Cardinality(T1) >= Floor /\ Cardinality(P1) >= FloorDates
  BY <1>2, <1>5, <1>7, <1>8
<1>10. Reached(d)'
  BY <1>9 DEF Reached, Trades, T1, P1
<1> QED
  BY <1>1, <1>10 DEF Frozen

(* Under a freeze no pass of the kind the invariant allows seals a date. *)
LEMMA NoSealUnderFreeze ==
    ASSUME IInv, NEW w \in Workers, NEW d \in Dates, Early(w), Sealer(w, d)
    PROVE  ~Frozen
<1> SUFFICES ASSUME Frozen PROVE FALSE
  OBVIOUS
<1>1. Entering(w) /\ Cutoff[d] <= work[w].now /\ ~Conflicts(d)
  BY DEF Sealer
<1>2. PICK e \in Completed : \A x \in Dates : e < x => work[w].now < Cutoff[x]
  BY <1>1 DEF Early
<1>3. e \in Dates /\ e \in Sealed
  BY DEF Completed, Sealed
<1>4. work[w].now \in Nat /\ Cutoff[d] \in Nat /\ d \in Nat /\ e \in Nat
  BY <1>1, <1>3, Locals, TimesAndDates, Numbers DEF IInv
<1>5. ~ (e < d)
  BY <1>1, <1>2, <1>4
<1> QED
  BY <1>1, <1>3, <1>4, <1>5 DEF Conflicts, OutOfOrder

(* Under a freeze, or a receipt, no record becomes a candidate. *)
LEMMA NoImport ==
    ASSUME Store, NEW i \in Items, NEW t \in Times, Imports(i, t)
    PROVE  ~Frozen /\ receipt.kind # "deadline_miss"
<1>1. recorded[i] \in Nat /\ t \in Nat
  <2>1. recorded[i] \in Times \cup {Never} /\ recorded[i] # Never
    BY DEF Imports, Store, TablesOK
  <2> QED
    BY <2>1, TimesAndDates
<1>2. recorded[i] <= t
  BY <1>1 DEF Imports, NotReady
<1> QED
  BY <1>2 DEF Imports, Excludes

LEMMA NothingUnderFreeze ==
    ASSUME IInv, \A w \in Workers : Early(w), Touches, Frozen
    PROVE  UNCHANGED <<resolution, sealed, imported>>
<1>1. CASE UNCHANGED tables
  BY <1>1 DEF tables
<1>2. ASSUME NEW i \in Items, Records(i) \/ SetsAside(i)
      PROVE  UNCHANGED <<resolution, sealed, imported>>
  BY <1>2 DEF Records, SetsAside
<1>3. ASSUME NEW i \in Items, NEW t \in Times, Imports(i, t) PROVE FALSE
  BY <1>3, NoImport, IInvStore
<1>4. ASSUME NEW w \in Workers, NEW d \in Dates, Seals(w, d) PROVE FALSE
  BY <1>4, NoSealUnderFreeze DEF Seals
<1> QED
  BY <1>1, <1>2, <1>3, <1>4 DEF Touches

(* The completion that freezes the cohort is of its last date. *)
LEMMA LastStep ==
    ASSUME IInv, \A w \in Workers : Early(w), Last, Touches
    PROVE  Last'
<1>1. CASE Frozen
  <2>1. UNCHANGED <<resolution, sealed>>
    BY <1>1, NothingUnderFreeze
  <2>2. Enrolled' = Enrolled /\ Completed' = Completed
    BY <2>1 DEF Enrolled, Completed
  <2> QED
    BY <2>2 DEF Last, Reached
<1>2. CASE ~Frozen /\ Enrolled' = Enrolled /\ Completed' = Completed
  <2>1. ~Frozen'
    BY <1>2, SameFreeze
  <2> QED
    BY <2>1 DEF Last, Frozen
<1>3. CASE ~Frozen /\ (Enrolled' # Enrolled \/ Completed' # Completed)
  <2>1. PICK w \in Workers, d \in Dates, t \in Times, eligible \in SUBSET Items,
             admitted \in SUBSET Items, book \in SUBSET Items :
          Sealer(w, d) /\ Completes(d, t, eligible, admitted, book)
    BY <1>3, IInvStore, Growth
  <2>2. ~Conflicts(d) /\ Store
    BY <2>1, IInvStore DEF Sealer
  <2>3. Completed' = Completed \cup {d}
    BY <2>1, <2>2, CompleteStore
  <2>4. Enrolled' = Enrolled \cup admitted /\ \A i \in admitted : Planned(i) = d
    BY <2>1, <2>2, CompletedPositions
  <2>5. /\ \A i \in Enrolled : Planned(i) < d /\ Planned(i) \in Completed /\ Planned(i) \in Nat
        /\ \A e \in Completed : e < d /\ e \in Nat
        /\ d \in Nat
    <3>1. \A e \in Completed : e < d /\ e \in Nat
      BY <2>2, AfterTheOthers, TimesAndDates DEF Completed, Sealed
    <3>2. \A i \in Enrolled : Planned(i) < d /\ Planned(i) \in Completed
      BY <2>2, AfterTheOthers DEF Store, InOrder
    <3> QED
      BY <3>1, <3>2, TimesAndDates
  <2>6. ASSUME NEW e \in Completed PROVE ~Reached(e)'
    <3>1. \A i \in admitted : ~ (Planned(i) <= e)
      BY <2>4, <2>5
    <3>2. Trades(e)' = Trades(e)
      BY <2>3, <2>4, <2>5, <3>1 DEF Trades
    <3>3. ~Reached(e)
      BY <1>3 DEF Frozen
    <3> QED
      BY <3>2, <3>3 DEF Reached, Trades
  <2>7. \A i \in Enrolled' : Planned(i) <= d
    BY <2>4, <2>5
  <2> QED
    BY <2>3, <2>6, <2>7 DEF Last
<1> QED
  BY <1>1, <1>2, <1>3

(* How a pass comes to be among the dates: it starts when the cohort is not frozen, with   *)
(* the clock of that moment, which it keeps; and its own completion that freezes the cohort *)
(* is its last.                                                                             *)
LEMMA PassEnters ==
    ASSUME IInv, NEW w \in Workers, Pass(w) \/ PassDies(w), Entering(w)'
    PROVE  \/ work'[w].now = clock /\ ~Frozen'
           \/ /\ work'[w].now = work[w].now /\ Entering(w)
              /\ Frozen' => (Enrolled' = Enrolled /\ Completed' = Completed)
<1>1. TypeOK /\ Store
  BY IInvStore DEF IInv
<1>2. ASSUME End(w) PROVE FALSE
  <2>1. work'[w] = Idle
    BY <1>1, <1>2, GoneTo DEF End
  <2> QED
    BY <2>1 DEF Entering, At, Idle
<1>3. ASSUME Goto(w, [at |-> "outcomes"]) PROVE FALSE
  <2>1. work'[w] = [at |-> "outcomes"]
    BY <1>1, <1>3, GoneTo
  <2> QED
    BY <2>1 DEF Entering, At
<1>4. ASSUME Goto(w, NextDate(w)) PROVE work'[w].now = work[w].now
  <2>1. work'[w] = NextDate(w)
    BY <1>1, <1>4, GoneTo
  <2> QED
    BY <2>1 DEF NextDate
<1>5. ASSUME UNCHANGED <<resolution, sealed>> PROVE Enrolled' = Enrolled /\ Completed' = Completed
  BY <1>5 DEF Enrolled, Completed
<1>6. ASSUME Begin(w) PROVE FALSE
  <2>1. work'[w].at = "import"
    BY <1>1, <1>6, GoneTo DEF Begin
  <2> QED
    BY <2>1 DEF Entering, At
<1>7. ASSUME NEW i \in Items, PassOver(w, i) \/ SetAside(w, i) \/ Import(w, i) PROVE FALSE
  <2>1. NextRecord(w, i) /\ DropRecord(w, i)
    BY <1>7 DEF PassOver, SetAside, Import
  <2>2. work'[w].at = "import"
    <3>1. work'[w] = [at |-> "import", now |-> work[w].now, left |-> work[w].left \ {i}]
      BY <1>1, <2>1, DroppedRecord
    <3> QED
      BY <3>1
  <2> QED
    BY <2>2 DEF Entering, At
<1>8. ASSUME NEW i \in Items, ImportRetried(w, i) PROVE FALSE
  BY <1>2, <1>8 DEF ImportRetried
<1>9. ASSUME EntriesWait(w) \/ EndPass(w) \/ PassDies(w) \/ AppendOutcome(w) PROVE FALSE
  BY <1>2, <1>3, <1>9 DEF EntriesWait, EndPass, PassDies, AppendOutcome, Entering, At
<1>10. CASE StartEntries(w)
  <2>1. UNCHANGED <<resolution, sealed>>
    BY <1>10 DEF StartEntries, trialVars
  <2>2. ~Invalid /\ ~Frozen /\ Goto(w, [at |-> "entry", now |-> clock, left |-> Pending])
    <3>1. Goto(w, IF Invalid THEN Idle
                  ELSE IF Frozen THEN [at |-> "outcomes"]
                  ELSE [at |-> "entry", now |-> clock, left |-> Pending])
      BY <1>10 DEF StartEntries
    <3>2. CASE Invalid
      BY <1>2, <3>1, <3>2 DEF End
    <3>3. CASE ~Invalid /\ Frozen
      BY <1>3, <3>1, <3>3
    <3> QED
      BY <3>1, <3>2, <3>3
  <2>3. work'[w].now = clock
    <3>1. work'[w] = [at |-> "entry", now |-> clock, left |-> Pending]
      BY <1>1, <2>2, GoneTo
    <3> QED
      BY <3>1
  <2>4. ~Frozen'
    BY <1>5, <2>1, <2>2, SameFreeze
  <2> QED
    BY <2>3, <2>4
<1>11. ASSUME NEW d, NEW t, Entering(w), d \in Dates, t \in Times, Lapse(w, d, t),
              UNCHANGED <<recorded, imported, aside>>
       PROVE  /\ work'[w].now = work[w].now
              /\ Enrolled' = Enrolled /\ Completed' = Completed
  <2>1. work'[w].now = work[w].now
    BY <1>2, <1>4, <1>11 DEF Lapse, Fail
  <2>2. UNCHANGED tables \/ (~Conflicts(d) /\ Lapses(d, t))
    BY <1>11, LapseSeals
  <2>3. Enrolled' = Enrolled /\ Completed' = Completed
    BY <1>1, <1>5, <1>11, <2>2, LapseStore DEF SamePositions, tables
  <2> QED
    BY <2>1, <2>3
<1>12. CASE LapseDate(w)
  <2>1. /\ Entering(w) /\ work[w].left # {} /\ work[w].left \in SUBSET Items
        /\ work[w].now \in Times
        /\ Lapse(w, Date(w), work[w].now) /\ UNCHANGED <<recorded, imported, aside>>
    BY <1>1, <1>12, Locals DEF LapseDate, Entering, evidenceVars
  <2>2. Date(w) \in Dates
    BY <2>1, DateOf
  <2> QED
    BY <1>11, <2>1, <2>2
<1>13. CASE ReadBook(w)
  <2>1. Entering(w) /\ UNCHANGED <<resolution, sealed>>
    BY <1>13 DEF ReadBook, Entering, trialVars
  <2>2. PICK book, next : Goto(w, [at |-> "commit", now |-> work[w].now, left |-> work[w].left,
                                   book |-> book, next |-> next])
    BY <1>13 DEF ReadBook
  <2>3. work'[w] = [at |-> "commit", now |-> work[w].now, left |-> work[w].left,
                    book |-> book, next |-> next]
    BY <1>1, <2>2, GoneTo
  <2>4. work'[w].now = work[w].now
    BY <2>3
  <2> QED
    BY <1>5, <2>1, <2>4
<1>14. CASE Complete(w)
  <2>1. Entering(w)
    BY <1>14 DEF Complete, Entering
  <2>2. CASE Goto(w, IF Frozen' THEN [at |-> "outcomes"] ELSE NextDate(w))
    <3>1. ~Frozen'
      BY <1>3, <2>2
    <3>2. work'[w].now = work[w].now
      BY <1>4, <2>2, <3>1
    <3> QED
      BY <2>1, <3>1, <3>2
  <2>3. CASE /\ Goto(w, [at |-> "after_open", now |-> work[w].now, left |-> work[w].left,
                         decision |-> clock])
             /\ UNCHANGED <<resolution, sealed>>
    <3>1. work'[w] = [at |-> "after_open", now |-> work[w].now, left |-> work[w].left,
                      decision |-> clock]
      BY <1>1, <2>3, GoneTo
    <3>2. work'[w].now = work[w].now
      BY <3>1
    <3> QED
      BY <1>5, <2>1, <2>3, <3>2
  <2>4. CASE /\ Goto(w, IF Frozen THEN [at |-> "outcomes"] ELSE NextDate(w))
             /\ UNCHANGED <<resolution, sealed>>
    <3>1. Goto(w, NextDate(w))
      BY <1>3, <2>4
    <3>2. work'[w].now = work[w].now
      BY <1>4, <3>1
    <3> QED
      BY <1>5, <2>1, <2>4, <3>2
  <2> QED
    BY <1>2, <1>14, <2>2, <2>3, <2>4 DEF Complete, Fail
<1>15. CASE AfterOpen(w)
  <2>1. /\ Entering(w) /\ work[w].left # {} /\ work[w].left \in SUBSET Items
        /\ clock \in Times /\ UNCHANGED <<recorded, imported, aside>>
    BY <1>1, <1>15, Locals DEF AfterOpen, Entering, IInv, Knows, evidenceVars, TypeOK
  <2>2. Date(w) \in Dates
    BY <2>1, DateOf
  <2> QED
    BY <1>2, <1>11, <1>15, <2>1, <2>2 DEF AfterOpen, Fail
<1> QED
  BY <1>6, <1>7, <1>8, <1>9, <1>10, <1>12, <1>13, <1>14, <1>15 DEF Pass

(* Setting the clock back at most MaxFaults times moves it by no more than the bound. *)
LEMMA SetbackLimit ==
    ASSUME NEW f \in 0 .. MaxFaults
    PROVE  /\ f * MaxSetback \in Nat /\ MaxFaults * MaxSetback \in Nat
           /\ f * MaxSetback <= MaxFaults * MaxSetback
           /\ (f + 1) * MaxSetback = f * MaxSetback + MaxSetback
<1>1. f \in Nat /\ MaxFaults \in Nat /\ MaxSetback \in Nat /\ f <= MaxFaults
  BY Numbers
<1>2. PICK k \in Nat : MaxFaults = f + k
  <2>1. MaxFaults - f \in Nat /\ MaxFaults = f + (MaxFaults - f)
    BY <1>1
  <2> QED
    BY <2>1
<1>3. MaxFaults * MaxSetback = f * MaxSetback + k * MaxSetback
  BY <1>1, <1>2
<1>4. f * MaxSetback \in Nat /\ k * MaxSetback \in Nat
  BY <1>1, <1>2
<1>5. (f + 1) * MaxSetback = f * MaxSetback + MaxSetback
  BY <1>1
<1>6. MaxFaults * MaxSetback \in Nat
  BY <1>1
<1>7. f * MaxSetback <= MaxFaults * MaxSetback
  BY <1>3, <1>4
<1> QED
  BY <1>4, <1>5, <1>6, <1>7

\* The clock and its faults move together.
ClockStep ==
    \/ faults' = faults /\ clock' >= clock
    \/ faults' = faults + 1 /\ clock' >= clock - MaxSetback

LEMMA ClockSteps ==
    ASSUME IInv, [Next]_vars
    PROVE  ClockStep
<1>1. clock \in Nat /\ faults \in Nat /\ MaxSetback \in Nat
  BY TimesAndDates, Numbers DEF IInv, TypeOK
<1>2. ASSUME NEW w \in Workers, Pass(w) \/ PassDies(w) PROVE ClockStep
  <2>1. clock' = clock
    BY <1>2, PassRest
  <2>2. faults' = faults \/ faults' = faults + 1
    BY <1>2 DEF Pass, Begin, PassOver, SetAside, ImportRetried, Import, StartEntries, EntriesWait,
       LapseDate, ReadBook, Complete, AfterOpen, AppendOutcome, EndPass, PassDies, Bad
  <2> QED
    BY <1>1, <2>1, <2>2 DEF ClockStep
<1>3. ASSUME NEW i \in Items, Record(i) \/ Correct(i) PROVE ClockStep
  BY <1>1, <1>3 DEF Record, Correct, ClockStep
<1>4. CASE Coordinate
  BY <1>1, <1>4 DEF Coordinate, MissDeadline, DecideMiss, Stage, Restage, Publish, Seal, Decide,
     ClockStep
<1>5. CASE CoordinatorDies
  BY <1>1, <1>5 DEF CoordinatorDies, Bad, ClockStep
<1>6. CASE Tick
  BY <1>1, <1>6 DEF Tick, ClockStep
<1>7. CASE ClockSetBack
  <2>1. PICK t \in Times : t < clock /\ clock - t <= MaxSetback /\ clock' = t
    BY <1>7 DEF ClockSetBack
  <2>2. t \in Nat
    BY TimesAndDates
  <2> QED
    BY <1>1, <1>7, <2>1, <2>2 DEF ClockSetBack, Bad, ClockStep
<1>8. CASE UNCHANGED vars
  BY <1>1, <1>8 DEF vars, ClockStep
<1> QED
  BY <1>2, <1>3, <1>4, <1>5, <1>6, <1>7, <1>8 DEF Next

(* Sums, for any numbers. *)
LEMMA Sums ==
    ASSUME NEW a \in Nat, NEW b \in Nat, NEW c \in Nat, NEW d \in Nat, NEW k \in Nat
    PROVE  /\ d = b /\ c >= a => a + b <= c + d
           /\ d = b + k /\ c >= a - k => a + b <= c + d
           /\ a + b <= c + d => a <= c + d
           /\ \A n \in Nat : n <= a + b /\ a + b <= c + d => n <= c + d
OBVIOUS

(* A clock that was read is ahead by no more than the clock was set back since. *)
LEMMA AheadStep ==
    ASSUME IInv, [Next]_vars, NEW w \in Workers, Ahead(w)
    PROVE  Ahead(w)'
<1> DEFINE before == faults * MaxSetback
           after  == faults' * MaxSetback
<1>1. ClockStep
  BY ClockSteps
<1>2. /\ clock \in Nat /\ clock' \in Nat /\ MaxSetback \in Nat
      /\ faults \in 0 .. MaxFaults /\ faults' \in 0 .. MaxFaults
  BY StepIInv, TimesAndDates, Numbers DEF IInv, TypeOK
<1>3. before \in Nat /\ after \in Nat
  BY <1>2, SetbackLimit
<1>4. faults' = faults + 1 => after = before + MaxSetback
  BY <1>2, SetbackLimit
<1>5. faults' = faults => after = before
  OBVIOUS
<1>6. Entering(w) => work[w].now \in Nat /\ work[w].now <= clock + before
  BY Locals, TimesAndDates DEF IInv, Ahead
<1> SUFFICES ASSUME Entering(w)' PROVE work'[w].now <= clock' + after
  BY DEF Ahead
<1> HIDE DEF before, after
<1>7. clock + before <= clock' + after
  <2>1. CASE faults' = faults /\ clock' >= clock
    BY <1>2, <1>3, <1>5, <2>1, Sums
  <2>2. CASE faults' = faults + 1 /\ clock' >= clock - MaxSetback
    BY <1>2, <1>3, <1>4, <2>2, Sums
  <2> QED
    BY <1>1, <2>1, <2>2 DEF ClockStep
<1>8. ASSUME Entering(w), work'[w].now = work[w].now PROVE work'[w].now <= clock' + after
  <2> DEFINE n == work[w].now
  <2>1. n \in Nat /\ n <= clock + before
    BY <1>6, <1>8
  <2> HIDE DEF n
  <2>2. n <= clock' + after
    BY <1>2, <1>3, <1>7, <2>1, Sums
  <2> QED
    BY <1>8, <2>2 DEF n
<1>9. CASE work'[w] = work[w]
  <2>1. Entering(w) /\ work'[w].now = work[w].now
    BY <1>9 DEF Entering, At
  <2> QED
    BY <1>8, <2>1
<1>10. CASE Pass(w) \/ PassDies(w)
  <2>1. \/ work'[w].now = clock
        \/ work'[w].now = work[w].now /\ Entering(w)
    BY <1>10, PassEnters
  <2>2. clock <= clock' + after
    BY <1>2, <1>3, <1>7, Sums
  <2> QED
    BY <1>8, <2>1, <2>2
<1>11. CASE work'[w] # work[w] /\ ~ (Pass(w) \/ PassDies(w))
  <2>1. CASE \E v \in Workers : Pass(v) \/ PassDies(v)
    <3>1. PICK v \in Workers : Pass(v) \/ PassDies(v)
      BY <2>1
    <3>2. v # w
      BY <1>11, <3>1
    <3>3. work'[w] = work[w]
      BY <3>1, <3>2, PassSettles DEF Settles
    <3> QED
      BY <1>11, <3>3
  <2> QED
    BY <1>11, <2>1, OtherSteps
<1> QED
  BY <1>9, <1>10, <1>11

(* Only a pass seals a date. *)
LEMMA OtherTables ==
    ASSUME [Next]_vars, ~ \E w \in Workers : Pass(w) \/ PassDies(w)
    PROVE  UNCHANGED <<resolution, sealed>>
BY DEF Next, Record, Correct, Coordinate, MissDeadline, DecideMiss, Stage, Restage, Publish, Seal,
   Decide, CoordinatorDies, Tick, ClockSetBack, vars, trialVars

(* A pass among the dates when another freezes the cohort is too early for what is left. *)
LEMMA EarlyStep ==
    ASSUME Steady, IInv, [Next]_vars, NEW w \in Workers, Early(w), Ahead(w)
    PROVE  Early(w)'
<1>1. Touches /\ Store
  BY StepTouches, IInvStore
<1>2. Enrolled \subseteq Enrolled' /\ Completed \subseteq Completed'
  BY <1>1, Growth
<1> SUFFICES ASSUME Entering(w)', Frozen'
             PROVE  \E e \in Completed' : \A d \in Dates : e < d => work'[w].now < Cutoff[d]
  BY DEF Early
<1>3. ASSUME Frozen, Entering(w), work'[w].now = work[w].now
      PROVE  \E e \in Completed' : \A d \in Dates : e < d => work'[w].now < Cutoff[d]
  <2>1. PICK e \in Completed : \A d \in Dates : e < d => work[w].now < Cutoff[d]
    BY <1>3 DEF Early
  <2> QED
    BY <1>2, <1>3, <2>1
<1>4. CASE Pass(w) \/ PassDies(w)
  <2>1. /\ work'[w].now = work[w].now /\ Entering(w)
        /\ Enrolled' = Enrolled /\ Completed' = Completed
    BY <1>4, PassEnters
  <2>2. Frozen
    BY <2>1, SameFreeze
  <2> QED
    BY <1>3, <2>1, <2>2
<1>5. ASSUME NEW v \in Workers, v # w, Pass(v) \/ PassDies(v)
      PROVE  \E e \in Completed' : \A d \in Dates : e < d => work'[w].now < Cutoff[d]
  <2>1. work'[w] = work[w]
    BY <1>5, PassSettles DEF Settles
  <2>2. Entering(w) /\ work'[w].now = work[w].now
    BY <2>1 DEF Entering, At
  <2>3. CASE Frozen
    BY <1>3, <2>2, <2>3
  <2>4. CASE ~Frozen
    <3>1. Enrolled' # Enrolled \/ Completed' # Completed
      BY <2>4, SameFreeze
    <3>2. PICK b \in Workers, d \in Dates, t \in Times, eligible \in SUBSET Items,
               admitted \in SUBSET Items, book \in SUBSET Items :
            Sealer(b, d) /\ Completes(d, t, eligible, admitted, book)
      BY <1>1, <3>1, Growth
    <3>3. ~Conflicts(d) /\ clock < OpenAt[d]
      BY <3>2 DEF Sealer, Completes
    <3>4. d \in Completed'
      <4>1. Completed' = Completed \cup {d}
        BY <1>1, <3>2, <3>3, CompleteStore
      <4> QED
        BY <4>1
    <3>5. Brief
      BY <1>5 DEF Steady, Alone
    <3>6. ASSUME NEW x \in Dates, d < x PROVE work[w].now < Cutoff[x]
      <4>1. work[w].now <= clock + faults * MaxSetback
        BY <2>2 DEF Ahead
      <4>2. faults * MaxSetback \in Nat /\ MaxFaults * MaxSetback \in Nat
            /\ faults * MaxSetback <= MaxFaults * MaxSetback
        BY SetbackLimit DEF IInv, TypeOK
      <4>3. OpenAt[d] + MaxFaults * MaxSetback <= Cutoff[x]
        BY <3>5, <3>6 DEF Brief
      <4>4. work[w].now \in Nat /\ clock \in Nat /\ OpenAt[d] \in Nat /\ Cutoff[x] \in Nat
        BY <2>2, Locals, TimesAndDates, Numbers DEF IInv, TypeOK
      <4> QED
        BY <3>3, <4>1, <4>2, <4>3, <4>4
    <3> QED
      BY <2>2, <3>4, <3>6
  <2> QED
    BY <2>3, <2>4
<1>6. CASE ~ \E v \in Workers : Pass(v) \/ PassDies(v)
  <2>1. UNCHANGED <<resolution, sealed>> /\ UNCHANGED work
    BY <1>6, OtherTables, OtherSteps
  <2>2. Enrolled' = Enrolled /\ Completed' = Completed /\ Entering(w)
        /\ work'[w].now = work[w].now
    BY <2>1 DEF Enrolled, Completed, Entering, At
  <2>3. Frozen
    BY <2>2, SameFreeze
  <2> QED
    BY <1>3, <2>2, <2>3
<1> QED
  BY <1>4, <1>5, <1>6

-----------------------------------------------------------------------------
(* The receipts *)

(* A pass leaves the coordinator's state alone, and so do the clock and the evidence. *)
LEMMA SealSteps ==
    ASSUME IInv, [Next]_vars
    PROVE  \/ UNCHANGED sealVars
           \/ Coordinate \/ (CoordinatorDies /\ UNCHANGED <<receipt, staged, published, report>>)
<1>1. ASSUME NEW w \in Workers, Pass(w) \/ PassDies(w) PROVE UNCHANGED sealVars
  BY <1>1, PassRest
<1> QED
  BY <1>1 DEF Next, Record, Correct, CoordinatorDies, Tick, ClockSetBack, vars

(* Publishing comes after staging, and sealing after publishing, also when a run that died *)
(* in between is taken up.                                                                 *)
LEMMA CeremonyStep ==
    ASSUME IInv, Ceremony, [Next]_vars
    PROVE  Ceremony'
<1>1. CASE UNCHANGED sealVars
  BY <1>1 DEF Ceremony, sealVars
<1>2. CASE CoordinatorDies
  BY <1>2 DEF CoordinatorDies, Ceremony
<1>3. CASE MissDeadline
  BY <1>3 DEF MissDeadline, Runs, Ceremony
<1>4. CASE DecideMiss \/ Decide
  BY <1>4 DEF DecideMiss, Decide, Ceremony
<1>5. CASE Stage
  <2>1. staged'.staged = TRUE /\ NotStaged.staged = FALSE
    BY <1>5 DEF Stage, NotStaged
  <2>2. staged' # NotStaged
    BY <2>1
  <2>3. receipt' = NoReceipt /\ coord' = "publish" /\ NoReceipt.kind # "terminal_seal"
    BY <1>5 DEF Stage, NoReceipt
  <2> QED
    BY <2>2, <2>3 DEF Ceremony
<1>6. CASE Restage
  <2>1. receipt' = NoReceipt /\ coord' = "publish" /\ NoReceipt.kind # "terminal_seal"
        /\ staged' # NotStaged
    BY <1>6 DEF Restage, NoReceipt
  <2> QED
    BY <2>1 DEF Ceremony
<1>7. CASE Publish
  BY <1>7 DEF Publish, Ceremony
<1>8. CASE Seal
  BY <1>8 DEF Seal, Ceremony
<1> QED
  BY <1>1, <1>2, <1>3, <1>4, <1>5, <1>6, <1>7, <1>8, SealSteps DEF Coordinate

(* A missed deadline keeps every record out. *)
LEMMA DeadlineKeeps ==
    ASSUME Store, Touches, receipt.kind = "deadline_miss"
    PROVE  UNCHANGED imported
<1>1. ASSUME NEW i \in Items, NEW t \in Times, Imports(i, t) PROVE FALSE
  BY <1>1, NoImport
<1>2. ASSUME NEW w, NEW d, Seals(w, d) PROVE UNCHANGED imported
  BY <1>2 DEF Seals, Lapses, Completes
<1>3. ASSUME NEW i \in Items, Records(i) \/ SetsAside(i) PROVE UNCHANGED imported
  BY <1>3 DEF Records, SetsAside
<1> QED
  BY <1>1, <1>2, <1>3 DEF Touches, tables

LEMMA BindingStep ==
    ASSUME IInv, \A w \in Workers : Early(w), Ceremony, Binding, [Next]_vars
    PROVE  Binding'
<1>1. Touches /\ Store
  BY StepTouches, IInvStore
<1>2. receipt = NoReceipt \/ receipt.kind = "deadline_miss" \/ receipt.kind = "terminal_seal"
  BY DEF IInv, TypeOK
<1>3. staged # NotStaged => Frozen' /\ UNCHANGED <<resolution, imported>>
  <2> SUFFICES ASSUME staged # NotStaged PROVE Frozen' /\ UNCHANGED <<resolution, imported>>
    OBVIOUS
  <2>1. Frozen
    BY DEF Binding
  <2>2. UNCHANGED <<resolution, sealed, imported>>
    BY <1>1, <2>1, NothingUnderFreeze
  <2>3. Frozen'
    BY <1>1, <2>1, Growth, FreezeStays
  <2> QED
    BY <2>2, <2>3
<1>4. receipt # NoReceipt => UNCHANGED imported
  BY <1>1, <1>2, <1>3, DeadlineKeeps DEF Ceremony
<1>5. staged # NotStaged => Projection' = Projection
  BY <1>3 DEF Projection, Candidates, Restrict
<1>6. receipt # NoReceipt => Candidates' = Candidates
  BY <1>4 DEF Candidates
<1>7. UNCHANGED <<receipt, staged>> => Binding'
  <2> SUFFICES ASSUME UNCHANGED <<receipt, staged>> PROVE Binding'
    OBVIOUS
  <2>1. staged' # NotStaged => Frozen' /\ staged'.projection = Projection'
    BY <1>3, <1>5 DEF Binding
  <2>2. receipt' # NoReceipt => receipt'.universe = Candidates'
    BY <1>6 DEF Binding
  <2> QED
    BY <2>1, <2>2 DEF Binding
<1>8. CASE MissDeadline
  <2>1. receipt'.universe = Candidates /\ Candidates' = Candidates
    BY <1>8 DEF MissDeadline, evidenceVars, Candidates
  <2>2. staged' = NotStaged
    BY <1>8 DEF MissDeadline
  <2> QED
    BY <2>1, <2>2 DEF Binding
<1>9. CASE Stage
  <2>1. /\ staged'.projection = Projection /\ Frozen
        /\ UNCHANGED <<imported, resolution, sealed>> /\ receipt' = NoReceipt
    BY <1>9 DEF Stage, evidenceVars, trialVars
  <2>2. Projection' = Projection
    BY <2>1 DEF Projection, Candidates, Restrict
  <2>3. Frozen'
    BY <2>1, SameFreeze DEF Enrolled, Completed
  <2> QED
    BY <2>1, <2>2, <2>3 DEF Binding
<1>10. CASE Seal
  <2>1. receipt'.universe = Candidates /\ Candidates' = Candidates /\ staged' = staged
    BY <1>10 DEF Seal, evidenceVars, Candidates
  <2> QED
    BY <1>3, <1>5, <2>1 DEF Binding
<1>11. CASE UNCHANGED sealVars \/ DecideMiss \/ Decide \/ Restage \/ Publish \/ CoordinatorDies
  BY <1>7, <1>11 DEF sealVars, DecideMiss, Decide, Restage, Publish, CoordinatorDies
<1> QED
  BY <1>8, <1>9, <1>10, <1>11, SealSteps DEF Coordinate

LEMMA InitFInv == Init => FInv
<1> SUFFICES ASSUME Init PROVE FInv
  OBVIOUS
<1>1. Completed = {}
  BY DEF Init, Completed, Unsealed
<1>2. \A w \in Workers : ~Entering(w)
  BY DEF Init, Entering, At, Idle
<1>3. Last /\ \A w \in Workers : Ahead(w) /\ Early(w)
  BY <1>1, <1>2 DEF Last, Ahead, Early
<1>4. Ceremony /\ Binding
  BY DEF Init, Ceremony, Binding, NoReceipt
<1> QED
  BY <1>3, <1>4 DEF FInv

LEMMA StepFInv == Steady /\ IInv /\ FInv /\ [Next]_vars => FInv'
<1> SUFFICES ASSUME Steady, IInv, FInv, [Next]_vars PROVE FInv'
  OBVIOUS
<1>1. \A w \in Workers : Early(w) /\ Ahead(w)
  BY DEF FInv
<1>2. Last'
  BY <1>1, LastStep, StepTouches DEF FInv
<1>3. Ceremony' /\ Binding'
  BY <1>1, CeremonyStep, BindingStep DEF FInv
<1>4. \A w \in Workers : Ahead(w)' /\ Early(w)'
  BY <1>1, AheadStep, EarlyStep
<1> QED
  BY <1>2, <1>3, <1>4 DEF FInv

LEMMA FreezeInvariance == Steady => (Spec => []FInv)
<1> SUFFICES ASSUME Steady PROVE Spec => []FInv
  OBVIOUS
<1>1. Init => FInv
  BY InitFInv
<1>2. IInv /\ FInv /\ [Next]_vars => FInv'
  BY StepFInv
<1> QED
  BY <1>1, <1>2, Invariance, PTL DEF Spec

(* Once a receipt binds the candidates or a dataset is staged, neither they nor what was     *)
(* decided about them change under it (inference.py, terminal_builder.py, terminal_          *)
(* coordinator.py), when one pass runs, or the clock is not set back from a later session's  *)
(* cutoff to before an earlier one's open.                                                   *)
THEOREM UniverseIsKept == Steady => (Spec => []UniverseKept)
<1>1. FInv => UniverseKept
  BY DEF FInv, Ceremony, Binding, UniverseKept
<1> QED
  BY <1>1, FreezeInvariance, PTL

(* However passes overlap, die or run with a clock set back, the trial store stays one that  *)
(* the evaluation accepts: no candidate waits behind a sealed date, the positions are        *)
(* numbered in the order of their dates and ranks, none comes after the date that froze the  *)
(* cohort, and the seals are in the order of their dates (evaluate_trial).  The freeze       *)
(* needs what UniverseIsKept needs.                                                          *)
THEOREM CohortIsSound == Steady => (Spec => []CohortSound)
<1>1. IInv /\ FInv => CohortSound
  <2> SUFFICES ASSUME IInv, FInv PROVE CohortSound
    OBVIOUS
  <2>1. InOrder /\ Numbered /\ Last
    BY DEF IInv, FInv
  <2>2. \A i \in Pending : Planned(i) \notin Completed
    <3>1. \A d \in Completed : d \in Sealed /\ d \in Nat
      BY TimesAndDates DEF Completed, Sealed
    <3>2. \A i \in Pending : \A d \in Completed : d < Planned(i)
      BY <2>1, <3>1 DEF InOrder
    <3> QED
      BY <3>1, <3>2
  <2>3. Frozen => \A i \in Enrolled : Planned(i) <= Boundary
    <3>1. {d \in Completed : Reached(d)} \in SUBSET Nat
      BY TimesAndDates DEF Completed
    <3>2. Frozen => Boundary \in Completed /\ Reached(Boundary)
      BY <3>1, Least DEF Frozen, Boundary
    <3> QED
      BY <2>1, <3>2 DEF Last
  <2> QED
    BY <2>1, <2>2, <2>3 DEF CohortSound, Orderly, InOrder, Numbered
<1> QED
  BY <1>1, Invariance, FreezeInvariance, PTL

(* Both together: the cohort is sound, and its positions were decided in time.                *)
THEOREM TrialIsSound == Steady => (Spec => []TrialSound)
<1>1. CohortSound /\ EnrolledInTime => TrialSound
  BY DEF TrialSound
<1> QED
  BY <1>1, CohortIsSound, PositionsInTime, PTL

-----------------------------------------------------------------------------
(* The verdicts of the records and of the trial implement Verdicts. *)

LedgerItems == (Items \ Legacy) \cup {Trial}
Told(i) ==
    IF i = Trial THEN report
    ELSE IF aside[i] # "none" THEN "set_aside"
    ELSE IF resolution[i] # Unresolved THEN resolution[i].state
    ELSE "none"

(* Of a record that was set aside or resolved nothing is decided again. *)
LEMMA DecidedOnce ==
    ASSUME Store, Touches, NEW i \in Items \ Legacy
    PROVE  /\ aside[i] # "none" => aside'[i] = aside[i]
           /\ resolution[i] # Unresolved => resolution'[i] = resolution[i]
<1>1. resolution[i] # Unresolved => imported[i] # Never
  BY DEF Store, Custody
<1>2. CASE UNCHANGED tables
  BY <1>2 DEF tables
<1>3. ASSUME NEW j \in Items, Records(j) PROVE UNCHANGED <<aside, resolution>>
  BY <1>3 DEF Records
<1>4. ASSUME NEW j \in Items, SetsAside(j)
      PROVE  resolution' = resolution /\ (aside[i] # "none" => aside'[i] = aside[i])
  BY <1>4 DEF SetsAside, Store, TablesOK
<1>5. ASSUME NEW j \in Items, NEW t \in Times, Imports(j, t)
      PROVE  aside' = aside /\ (resolution[i] # Unresolved => resolution'[i] = resolution[i])
  BY <1>1, <1>5 DEF Imports, Settled, Candidates, Store, TablesOK
<1>6. ASSUME NEW w, NEW d, Seals(w, d)
      PROVE  aside' = aside /\ (resolution[i] # Unresolved => resolution'[i] = resolution[i])
  <2>1. i \in DueOn(Pending, d) => resolution[i] = Unresolved
    BY DEF DueOn, Pending
  <2> QED
    BY <1>6, <2>1 DEF Seals, Lapses, Completes, Miss, Resolved
<1> QED
  BY <1>2, <1>3, <1>4, <1>5, <1>6 DEF Touches

(* The verdict on a record is one of its kind, given once. *)
LEMMA RecordVerdict ==
    ASSUME IInv, [Next]_vars, NEW i \in Items \ Legacy, i # Trial
    PROVE  /\ Told(i)' \in States \cup {"set_aside", "none"}
           /\ Told(i)' # Told(i) => Told(i) = "none"
<1>1. Store /\ Touches /\ Store'
  BY IInvStore, StepTouches, StoreStep
<1>2. /\ aside[i] # "none" => aside'[i] = aside[i]
      /\ resolution[i] # Unresolved => resolution'[i] = resolution[i] /\ aside'[i] = "none"
  BY <1>1, DecidedOnce DEF Store, Custody
<1>3. resolution'[i] \in Resolution
  BY <1>1 DEF Store, TablesOK
<1>4. resolution'[i] # Unresolved => resolution'[i].state \in States
  BY <1>3 DEF Resolution, States
<1> QED
  BY <1>2, <1>4 DEF Told

(* The report is made once, under a receipt. *)
LEMMA ReportVerdict ==
    ASSUME IInv, [Next]_vars
    PROVE  /\ report' \in {"none", "KILL", "PROMOTE_RECOMMENDED"}
           /\ report' # report => report = "none" /\ receipt # NoReceipt /\ receipt' = receipt
<1>1. report' \in {"none", "KILL", "PROMOTE_RECOMMENDED"}
  BY StepIInv DEF IInv, TypeOK
<1>2. CASE DecideMiss \/ Decide
  BY <1>2 DEF DecideMiss, Decide, Runs, NoReceipt
<1>3. CASE MissDeadline \/ Stage \/ Restage \/ Publish \/ Seal \/ UNCHANGED report
  BY <1>1, <1>3 DEF MissDeadline, Stage, Restage, Publish, Seal
<1>4. DecideMiss \/ Decide \/ MissDeadline \/ Stage \/ Restage \/ Publish \/ Seal
      \/ UNCHANGED report
  BY SealSteps DEF Coordinate, sealVars
<1> QED
  BY <1>1, <1>2, <1>3, <1>4

(* A receipt is put once the store is settled as it is, and stays. *)
LEMMA ReceiptStep ==
    ASSUME IInv, [Next]_vars, receipt' # receipt
    PROVE  /\ receipt' # NoReceipt
           /\ UNCHANGED <<aside, resolution, report>>
<1>1. MissDeadline \/ Seal
  BY SealSteps DEF Coordinate, DecideMiss, Decide, Stage, Restage, Publish, sealVars
<1>2. receipt'.kind # NoReceipt.kind
  BY <1>1 DEF MissDeadline, Seal, NoReceipt
<1> QED
  BY <1>1, <1>2 DEF MissDeadline, Seal, evidenceVars, trialVars

LEMMA StepImplements == IInv /\ [Next]_vars => [Ledger!Next]_(Ledger!vars)
<1> SUFFICES ASSUME IInv, [Next]_vars PROVE Ledger!Next
  OBVIOUS
<1> DEFINE asked   == IF receipt = NoReceipt THEN {} ELSE {Trial}
           verdict == [i \in LedgerItems |->
                         CASE i = Trial -> report
                           [] i # Trial /\ aside[i] # "none" -> "set_aside"
                           [] i # Trial /\ aside[i] = "none" /\ resolution[i] # Unresolved
                                -> resolution[i].state
                           [] OTHER -> "none"]
<1>1. /\ verdict = [i \in LedgerItems |-> Told(i)]
      /\ verdict' = [i \in LedgerItems |-> Told(i)']
  BY DEF Told
<1>2. CASE receipt' = receipt
  <2>1. \A i \in LedgerItems :
          /\ Told(i)' \in States \cup {"set_aside", "KILL", "PROMOTE_RECOMMENDED"} \cup {"none"}
          /\ Told(i)' # Told(i) =>
               /\ Told(i) = "none"
               /\ Told(i)' \in {"KILL", "PROMOTE_RECOMMENDED"} => i \in asked
    <3> SUFFICES ASSUME NEW i \in LedgerItems
                 PROVE  /\ Told(i)' \in States \cup {"set_aside", "KILL", "PROMOTE_RECOMMENDED"}
                                               \cup {"none"}
                        /\ Told(i)' # Told(i) =>
                             /\ Told(i) = "none"
                             /\ Told(i)' \in {"KILL", "PROMOTE_RECOMMENDED"} => i \in asked
      OBVIOUS
    <3>1. CASE i = Trial
      BY <3>1, ReportVerdict DEF Told
    <3>2. CASE i # Trial
      <4>1. i \in Items \ Legacy
        BY <3>2 DEF LedgerItems
      <4>2. Told(i)' \notin {"KILL", "PROMOTE_RECOMMENDED"}
        BY <3>2, <4>1, RecordVerdict DEF States
      <4> QED
        BY <3>2, <4>1, <4>2, RecordVerdict
    <3> QED
      BY <3>1, <3>2
  <2>2. asked' = asked
    BY <1>2
  <2> HIDE DEF asked, verdict
  <2>3. /\ verdict' \in [LedgerItems -> States \cup {"set_aside", "KILL", "PROMOTE_RECOMMENDED"}
                                          \cup {"none"}]
        /\ \A i \in LedgerItems : verdict'[i] # verdict[i] =>
             /\ verdict[i] = "none"
             /\ verdict'[i] \in {"KILL", "PROMOTE_RECOMMENDED"} => i \in asked
    BY <1>1, <2>1
  <2>4. Ledger!Settle
    BY <2>2, <2>3 DEF Ledger!Settle, asked, verdict, LedgerItems
  <2> QED
    BY <2>4 DEF Ledger!Next
<1>3. CASE receipt' # receipt
  <2>1. asked' = asked \cup {Trial}
    BY <1>3, ReceiptStep
  <2>2. verdict' = verdict
    BY <1>3, ReceiptStep
  <2>3. Ledger!Ask(Trial)
    BY <2>1, <2>2 DEF Ledger!Ask, LedgerItems
  <2> QED
    BY <2>3 DEF Ledger!Next
<1> QED
  BY <1>2, <1>3

(* Every record of this build gets one verdict and the trial one report, none is ever        *)
(* changed, and the report is made only under a receipt, whatever passes overlap, die or run *)
(* with a clock set back (trial_runtime.py, inference.py).                                   *)
THEOREM VerdictsAreKept == Spec => Ledger!Spec
<1>1. Init => Ledger!Init
  <2> SUFFICES ASSUME Init PROVE Ledger!Init
    OBVIOUS
  <2>1. \A i \in Items \ Legacy : aside[i] = "none" /\ resolution[i] = Unresolved
    BY DEF Init
  <2> QED
    BY <2>1 DEF Init, Ledger!Init
<1>2. IInv /\ [Next]_vars => [Ledger!Next]_(Ledger!vars)
  BY StepImplements
<1> QED
  BY <1>1, <1>2, Invariance, PTL DEF Spec, Ledger!Spec
=============================================================================
