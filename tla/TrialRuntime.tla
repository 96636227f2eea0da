---------------------------- MODULE TrialRuntime ----------------------------
(***************************************************************************)
(* research/trial_runtime.py, trial_finalizer.py, trial_outcome_finalizer, *)
(* terminal_builder.py, terminal_coordinator.py and the seal store of      *)
(* inference.py: the blinded trial.  A worker turns evidence into          *)
(* candidates, seals one entry date after the other between its cutoff and *)
(* its open, and records the outcomes; the coordinator misses the deadline *)
(* or seals the frozen cohort, and takes the one look.                     *)
(*                                                                         *)
(* A transaction of a store is one action.  The clock is read before the   *)
(* transactions that use it.                                               *)
(***************************************************************************)
EXTENDS Integers, FiniteSets, FiniteSetsExt, Functions

CONSTANTS
    Workers,
    Scheduled,   \* the worker of the task; the others are passes started by hand
    Items,       \* evidence records
    Signal,      \* source_first_observed_at of each record
    Written,     \* bound: the times at which each record may be written
    Rank,        \* the order of the evidence and of the entry ranks
    Symbol,
    Excluded,    \* records the trial excludes: routine, ambiguous, incomplete
    Legacy,      \* records an earlier build set aside as invalid for their symbol
    Stays,       \* sessions a position is held, before its stop, target or time exit
    Days,        \* exchange sessions, 1 .. Days
    Cutoff,      \* SIGNAL_CUTOFF of each session
    OpenAt,      \* official open of each session
    AfterHours,  \* times inside the coordinator's transition window
    Horizon,     \* MAX_SESSIONS
    Slots,       \* MAX_CHALLENGER_SLOTS
    Floor,       \* TARGET_ENROLLED_TRADES
    FloorDates,  \* MINIMUM_DISTINCT_ENTRY_DATES
    Deadline,    \* enrollment_deadline
    Transient,   \* MAX_TRANSIENT_CLOCK_REGRESSION
    MaxSetback,  \* how far the clock may be set back at once
    MaxFaults,   \* bound on crashes, passes by hand and clocks set back
    MaxClock

Dates == 1 .. Days
Times == 0 .. MaxClock

TrialAssumption ==
    /\ Scheduled \in Workers
    /\ Excluded \subseteq Items /\ Legacy \subseteq Items
    /\ IsFiniteSet(Items)
    /\ Signal \in [Items -> Times]
    /\ Written \in [Items -> SUBSET Times]
    /\ \A i \in Items : \A t \in Written[i] : Signal[i] <= t
    /\ Rank \in [Items -> Nat] /\ \A i, j \in Items : Rank[i] = Rank[j] => i = j
    /\ DOMAIN Symbol = Items
    /\ Stays \in [Items -> 1 .. Horizon]
    /\ Days \in Nat
    /\ Cutoff \in [Dates -> Times] /\ OpenAt \in [Dates -> Times]
    /\ \A i \in Items : \E d \in Dates : Signal[i] < Cutoff[d]
    /\ \A d \in Dates : Cutoff[d] < OpenAt[d]
    /\ \A d, e \in Dates : d < e => OpenAt[d] < Cutoff[e]
    /\ AfterHours \subseteq Times
    /\ {Horizon, Slots, Floor, FloorDates} \subseteq Nat \ {0}
    /\ {Deadline, Transient, MaxSetback, MaxFaults, MaxClock} \subseteq Nat

ASSUME TrialAssumption

VARIABLES
    clock,
    recorded,    \* evidence.db: when each record was written, or Never
    imported,    \* trial_candidates: imported_at of each, or Never
    aside,       \* trial_evidence_dispositions and their corrections
    resolution,  \* trial_resolutions
    sealed,      \* trial_entry_date_completions and _lapses, one row for each date
    outcomes,    \* trial_outcomes: recorded_at of each, or Never
    faulted,     \* trial_faults has a row
    work,        \* what each worker is doing
    receipt,     \* trial_receipts
    staged,      \* terminal_pending
    published,   \* the terminal dataset's file exists
    report,      \* decision_report
    coord,       \* what the coordinator is doing
    faults

evidenceVars == <<recorded, imported, aside>>
trialVars    == <<resolution, sealed, outcomes, faulted>>
sealVars     == <<receipt, staged, published, report, coord>>
vars == <<clock, evidenceVars, trialVars, work, sealVars, faults>>

Never      == -1
Unsealed   == [kind |-> "none"]
Unresolved == [state |-> "pending"]
Idle       == [at |-> "idle"]
NoReceipt  == [kind |-> "none"]
NotStaged  == [staged |-> FALSE]

States == {"enrolled", "ineligible", "overlap_suppressed", "capacity_suppressed", "missed"}
Resolution ==
    {Unresolved} \cup [state : States \ {"enrolled"}]
    \cup [state : {"enrolled"}, seq : 1 .. Cardinality(Items)]

Init ==
    /\ clock = 0
    /\ recorded = [i \in Items |-> IF i \in Legacy THEN 0 ELSE Never]
    /\ imported = [i \in Items |-> Never]
    /\ aside = [i \in Items |-> IF i \in Legacy THEN "invalid" ELSE "none"]
    /\ resolution = [i \in Items |-> Unresolved]
    /\ sealed = [d \in Dates |-> Unsealed]
    /\ outcomes = [i \in Items |-> Never]
    /\ faulted = FALSE
    /\ work = [w \in Workers |-> Idle]
    /\ receipt = NoReceipt
    /\ staged = NotStaged
    /\ published = FALSE
    /\ report = "none"
    /\ coord = "idle"
    /\ faults = 0

-----------------------------------------------------------------------------
(* Reading the stores *)

\* planned_entry_session: the first session whose cutoff is after the signal.
Planned(i) == Min({d \in Dates : Signal[i] < Cutoff[d]})
LastDay(i) == Planned(i) + Horizon - 1
ExitDay(i) == Planned(i) + Stays[i] - 1

Proven     == {i \in Items : outcomes[i] # Never}
Candidates == {i \in Items : imported[i] # Never}
Pending    == {i \in Candidates : resolution[i] = Unresolved}
Enrolled   == {i \in Items : resolution[i].state = "enrolled"}
Completed  == {d \in Dates : sealed[d].kind = "completion"}
Sealed     == {d \in Dates : sealed[d].kind # "none"}
Settled(i) == i \in Candidates \/ aside[i] # "none"

\* The evidence dispositions and the faults that make a pass report "invalid".
Invalid == faulted \/ \E i \in Items : aside[i] = "invalid"

\* cohort_freeze_boundary: the first completed dates that hold the floor.
Reached(d) ==
    LET trades == {i \in Enrolled : Planned(i) \in Completed /\ Planned(i) <= d}
    IN  /\ Cardinality(trades) >= Floor
        /\ Cardinality({Planned(i) : i \in trades}) >= FloorDates
Frozen   == \E d \in Completed : Reached(d)
Boundary == Min({d \in Completed : Reached(d)})

\* The time of a seal that the next one and the next import must not precede.
SealedAt(d) == sealed[d].clock
LatestSealed == Max(Sealed)

First(S) == CHOOSE i \in S : \A j \in S : Rank[i] <= Rank[j]

At(w, stage) == work[w].at = stage
Goto(w, next) == work' = [work EXCEPT ![w] = next]
End(w) == Goto(w, Idle)

\* While the coordinator seals, it holds the trial store's write lock.
Unlocked == coord = "idle"

\* TrialRuntimeRetryable degrades the pass, TrialRuntimeInvalid leaves a fault too.
Fail(w, fault) == faulted' = (faulted \/ fault) /\ End(w)
Regressed(earlier, later) == later - earlier > Transient

-----------------------------------------------------------------------------
(* run_trial_once: evidence becomes candidates *)

Record(i) ==
    /\ recorded[i] = Never
    /\ clock \in Written[i]
    /\ recorded' = [recorded EXCEPT ![i] = clock]
    /\ UNCHANGED <<clock, imported, aside, trialVars, work, sealVars, faults>>

Begin(w) ==
    /\ At(w, "idle")
    /\ \/ w = Scheduled /\ UNCHANGED faults
       \/ w # Scheduled /\ faults < MaxFaults /\ faults' = faults + 1
    /\ Goto(w, [at |-> "import", now |-> clock,
                left |-> {i \in Items : recorded[i] # Never /\ ~Settled(i)}])
    /\ UNCHANGED <<clock, evidenceVars, trialVars, sealVars>>

\* Mutant: neither the deadline's receipt nor the freeze is looked up at the insertion.
ExcludesByClock(i, now) ==
    \/ Signal[i] >= Deadline
    \/ recorded[i] <= now /\ (i \in Excluded \/ now >= Deadline)

\* EvidenceExcluded
Excludes(i, now) ==
    \/ Signal[i] >= Deadline
    \/ /\ recorded[i] <= now
       /\ \/ i \in Excluded
          \/ now >= Deadline
          \/ receipt.kind = "deadline_miss"
          \/ Frozen

\* The first seal at or after the entry date of the record.
SealOver(i) == {d \in Sealed : d >= Planned(i)}

\* The clock is behind the last seal.
BehindCursor(now) == Sealed # {} /\ now < SealedAt(LatestSealed)
\* EvidenceNotReady
NotReady(i, now) ==
    \/ recorded[i] > now
    \/ ~BehindCursor(now) /\ SealOver(i) # {} /\ now < SealedAt(Min(SealOver(i)))

NextRecord(w, i) == At(w, "import") /\ work[w].left # {} /\ i = First(work[w].left)
DropRecord(w, i) == work' = [work EXCEPT ![w].left = @ \ {i}]

\* Another pass has settled the record, or it is left for a later pass.
PassOver(w, i) ==
    /\ NextRecord(w, i)
    /\ \/ Settled(i)
       \/ ~Excludes(i, work[w].now) /\ NotReady(i, work[w].now)
    /\ DropRecord(w, i)
    /\ UNCHANGED <<clock, evidenceVars, trialVars, sealVars, faults>>

SetAside(w, i) ==
    /\ NextRecord(w, i) /\ Unlocked /\ ~Settled(i)
    /\ \/ /\ Excludes(i, work[w].now)
          /\ aside' = [aside EXCEPT ![i] = "excluded"]
       \/ /\ ~Excludes(i, work[w].now) /\ recorded[i] <= work[w].now
          /\ BehindCursor(work[w].now)
          /\ Regressed(work[w].now, SealedAt(LatestSealed))
          /\ aside' = [aside EXCEPT ![i] = "invalid"]
    /\ DropRecord(w, i)
    /\ UNCHANGED <<clock, recorded, imported, trialVars, sealVars, faults>>

\* The clock is a little behind the last seal: the pass is degraded.
ImportRetried(w, i) ==
    /\ NextRecord(w, i) /\ Unlocked /\ ~Settled(i)
    /\ ~Excludes(i, work[w].now) /\ recorded[i] <= work[w].now
    /\ BehindCursor(work[w].now)
    /\ ~Regressed(work[w].now, SealedAt(LatestSealed))
    /\ End(w)
    /\ UNCHANGED <<clock, evidenceVars, trialVars, sealVars, faults>>

\* Mutant: the insertion does not look for a row another pass has put.
ImportAgain(w, i) ==
    /\ NextRecord(w, i) /\ Unlocked
    /\ ~Excludes(i, work[w].now) /\ ~BehindCursor(work[w].now) /\ ~NotReady(i, work[w].now)
    /\ imported' = [imported EXCEPT ![i] = work[w].now]
    /\ resolution' = IF SealOver(i) = {} THEN resolution
                     ELSE [resolution EXCEPT ![i] = [state |-> "missed"]]
    /\ DropRecord(w, i)
    /\ UNCHANGED <<clock, recorded, aside, sealed, outcomes, faulted, sealVars, faults>>

\* append_candidate: a date already sealed misses the candidate at once.
Import(w, i) ==
    /\ NextRecord(w, i) /\ Unlocked /\ ~Settled(i)
    /\ ~Excludes(i, work[w].now) /\ ~BehindCursor(work[w].now) /\ ~NotReady(i, work[w].now)
    /\ imported' = [imported EXCEPT ![i] = work[w].now]
    /\ resolution' = IF SealOver(i) = {} THEN resolution
                     ELSE [resolution EXCEPT ![i] = [state |-> "missed"]]
    /\ DropRecord(w, i)
    /\ UNCHANGED <<clock, recorded, aside, sealed, outcomes, faulted, sealVars, faults>>

\* apply_base_symbol_correction
Correct(i) ==
    /\ i \in Legacy /\ aside[i] = "invalid"
    /\ Proven = {} /\ ~faulted /\ Unlocked
    /\ receipt = NoReceipt /\ staged = NotStaged /\ report = "none"
    /\ aside' = [aside EXCEPT ![i] = "excluded"]
    /\ UNCHANGED <<clock, recorded, imported, trialVars, work, sealVars, faults>>

-----------------------------------------------------------------------------
(* finalize_pending_entry_dates: one entry date after the other *)

\* A pass that found anything invalid goes no further.
StartEntries(w) ==
    /\ At(w, "import") /\ work[w].left = {}
    /\ Goto(w, IF Invalid THEN Idle
               ELSE IF Frozen THEN [at |-> "outcomes"]
               ELSE [at |-> "entry", now |-> clock, left |-> Pending])
    /\ UNCHANGED <<clock, evidenceVars, trialVars, sealVars, faults>>

Date(w) == Min({Planned(i) : i \in work[w].left})
DueOn(S, d) == {i \in S : Planned(i) = d}
NextDate(w) == [at |-> "entry", now |-> work[w].now,
                left |-> work[w].left \ DueOn(work[w].left, Date(w))]

\* Nothing is left, the cutoff has not come, or a bar or schedule proof is missing.
EntriesWait(w) ==
    /\ At(w, "entry")
    /\ work[w].left # {} => work[w].now < OpenAt[Date(w)]
    /\ Goto(w, [at |-> "outcomes"])
    /\ UNCHANGED <<clock, evidenceVars, trialVars, sealVars, faults>>

\* What append_entry_completion and append_entry_lapse both refuse.
OutOfOrder(d) == \E e \in Sealed : e >= d
Conflicts(d) ==
    \/ OutOfOrder(d)
    \/ \E i \in Pending : Planned(i) < d
    \/ DueOn(Pending, d) = {}
\* Mutant: the time of a seal is compared with the imports only.
PrecedesImports(d) == {imported[i] : i \in DueOn(Pending, d)}

\* The last seal and the imports the time of a seal must not precede.
Precedes(d) ==
    {SealedAt(e) : e \in Sealed} \cup {imported[i] : i \in DueOn(Pending, d)}
ClockBehind(t, d) == \E u \in Precedes(d) : t < u

\* The first check that fails decides whether a refused seal is a fault: the dates, the
\* clock of the last seal, what is pending, the clock of the imports.
SealFault(d, t) ==
    \/ OutOfOrder(d)
    \/ BehindCursor(t) /\ Regressed(t, SealedAt(LatestSealed))
    \/ /\ ~BehindCursor(t)
       /\ Conflicts(d) \/ Regressed(t, Max(Precedes(d)))

Miss(S) == [i \in Items |-> IF i \in S THEN [state |-> "missed"] ELSE resolution[i]]

\* The same seal at the same time, by a pass that read the same evidence: the pass goes on.
Replayed(d, kind, t) == sealed[d].kind = kind /\ sealed[d].at = t

\* append_entry_lapse with the time t
Lapse(w, d, t) ==
    \/ /\ (Conflicts(d) \/ ClockBehind(t, d))
       /\ Fail(w, SealFault(d, t))
       /\ UNCHANGED <<resolution, sealed>>
    \/ /\ Replayed(d, "lapse", t)
       /\ Goto(w, NextDate(w))
       /\ UNCHANGED <<resolution, sealed, faulted>>
    \/ /\ ~Conflicts(d) /\ ~ClockBehind(t, d)
       /\ resolution' = Miss(DueOn(Pending, d))
       /\ sealed' = [sealed EXCEPT ![d] = [kind |-> "lapse", at |-> t, clock |-> t]]
       /\ Goto(w, NextDate(w))
       /\ UNCHANGED faulted

\* Mutant: a date whose open has passed is waited for.
LapseWaits(w) ==
    /\ At(w, "entry") /\ work[w].left # {}
    /\ work[w].now >= OpenAt[Date(w)]
    /\ Goto(w, [at |-> "outcomes"])
    /\ UNCHANGED <<clock, evidenceVars, trialVars, sealVars, faults>>

LapseDate(w) ==
    /\ At(w, "entry") /\ work[w].left # {} /\ Unlocked
    /\ work[w].now >= OpenAt[Date(w)]
    /\ Lapse(w, Date(w), work[w].now)
    /\ UNCHANGED <<clock, evidenceVars, outcomes, sealVars, faults>>

\* _prior_book: a position whose exit the bars do not show yet stays occupied.
Book(d, seen) == {i \in Enrolled : /\ Planned(i) < d /\ LastDay(i) >= d
                                   /\ ~(i \in seen /\ ExitDay(i) < d)}

ReadBook(w) ==
    /\ At(w, "entry") /\ work[w].left # {}
    /\ Cutoff[Date(w)] <= work[w].now /\ work[w].now < OpenAt[Date(w)]
    /\ \E seen \in SUBSET {i \in Enrolled : ExitDay(i) < Date(w)} :
         Goto(w, [at |-> "commit", now |-> work[w].now, left |-> work[w].left,
                  book |-> Book(Date(w), seen), next |-> Cardinality(Enrolled) + 1])
    /\ UNCHANGED <<clock, evidenceVars, trialVars, sealVars, faults>>

Late(i, d) == recorded[i] >= Cutoff[d] \/ imported[i] >= Cutoff[d]
Before(S, i) == {j \in S : Rank[j] < Rank[i]}

\* resolve_ranked_entry_date: in rank order, what the book and the slots allow.
Admits(admitted, eligible, book) ==
    \A i \in eligible :
      LET held == book \cup Before(admitted, i)
      IN  i \in admitted <=> /\ \A j \in held : Symbol[j] # Symbol[i]
                             /\ Cardinality(held) < Slots

Resolved(S, d, eligible, admitted, book, next) ==
    LET verdict(i) ==
          CASE Late(i, d) -> [state |-> "missed"]
            [] ~Late(i, d) /\ i \notin eligible -> [state |-> "ineligible"]
            [] i \in admitted
                 -> [state |-> "enrolled", seq |-> next + Cardinality(Before(admitted, i))]
            [] /\ i \in eligible \ admitted
               /\ \E j \in book \cup Before(admitted, i) : Symbol[j] = Symbol[i]
                 -> [state |-> "overlap_suppressed"]
            [] OTHER -> [state |-> "capacity_suppressed"]
    IN  [i \in Items |-> IF i \in S THEN verdict(i) ELSE resolution[i]]

\* append_entry_completion: the clock is read again inside the transaction.
Complete(w) ==
    LET d   == Date(w)
        due == DueOn(work[w].left, d)
        now == work[w].now
    IN  /\ At(w, "commit") /\ Unlocked
        /\ \/ /\ (Conflicts(d) \/ ClockBehind(now, d) \/ clock < now
                 \/ due # DueOn(Pending, d) \/ work[w].next # Cardinality(Enrolled) + 1)
              /\ Fail(w, IF Conflicts(d) \/ ClockBehind(now, d) THEN SealFault(d, now)
                         ELSE \/ due # DueOn(Pending, d)
                              \/ work[w].next # Cardinality(Enrolled) + 1
                              \/ Regressed(clock, now))
              /\ UNCHANGED <<resolution, sealed>>
           \/ /\ Replayed(d, "completion", now)
              /\ Goto(w, IF Frozen THEN [at |-> "outcomes"] ELSE NextDate(w))
              /\ UNCHANGED <<resolution, sealed, faulted>>
           \/ /\ ~Conflicts(d) /\ ~ClockBehind(now, d) /\ clock >= now
              /\ due = DueOn(Pending, d) /\ work[w].next = Cardinality(Enrolled) + 1
              /\ clock < OpenAt[d]
              /\ \E eligible \in SUBSET {i \in due : ~Late(i, d)} :
                 \E admitted \in SUBSET eligible :
                   /\ Admits(admitted, eligible, work[w].book)
                   /\ resolution' = Resolved(due, d, eligible, admitted, work[w].book,
                                            work[w].next)
              /\ sealed' = [sealed EXCEPT ![d] =
                              [kind |-> "completion", at |-> now, clock |-> clock]]
              /\ Goto(w, IF Frozen' THEN [at |-> "outcomes"] ELSE NextDate(w))
              /\ UNCHANGED faulted
           \/ /\ ~Conflicts(d) /\ ~ClockBehind(now, d) /\ clock >= OpenAt[d]
              /\ due = DueOn(Pending, d) /\ work[w].next = Cardinality(Enrolled) + 1
              /\ Goto(w, [at |-> "after_open", now |-> now, left |-> work[w].left,
                          decision |-> clock])
              /\ UNCHANGED <<resolution, sealed, faulted>>
        /\ UNCHANGED <<clock, evidenceVars, outcomes, sealVars, faults>>

\* EntryCompletionDecisionAfterOpen: the clock is read once more, and the date lapses.
AfterOpen(w) ==
    /\ At(w, "after_open") /\ Unlocked
    /\ \/ /\ clock < OpenAt[Date(w)]
          /\ Fail(w, Regressed(clock, work[w].decision))
          /\ UNCHANGED <<resolution, sealed>>
       \/ /\ clock >= OpenAt[Date(w)]
          /\ Lapse(w, Date(w), clock)
    /\ UNCHANGED <<clock, evidenceVars, outcomes, sealVars, faults>>

-----------------------------------------------------------------------------
(* finalize_trial_outcomes *)

Provable == {i \in Enrolled \ Proven : ExitDay(i) \in Dates /\ clock > OpenAt[ExitDay(i)]}

AppendOutcome(w) ==
    /\ At(w, "outcomes") /\ Unlocked
    /\ Provable # {}
    /\ outcomes' = [outcomes EXCEPT ![First(Provable)] = clock]
    /\ UNCHANGED <<clock, evidenceVars, resolution, sealed, faulted, work, sealVars, faults>>

EndPass(w) ==
    /\ At(w, "outcomes") /\ Provable = {}
    /\ End(w)
    /\ UNCHANGED <<clock, evidenceVars, trialVars, sealVars, faults>>

-----------------------------------------------------------------------------
(* The terminal coordinator and the seal store *)

\* What evaluate_trial demands of the trial store, or it reports INVALID.
Orderly ==
    /\ \A i \in Pending : Planned(i) \notin Completed
    /\ \A i \in Enrolled : Planned(i) \in Completed
    /\ Frozen => \A i \in Enrolled : Planned(i) <= Boundary
    /\ \A i, j \in Enrolled :
         (Planned(i) < Planned(j) \/ (Planned(i) = Planned(j) /\ Rank[i] < Rank[j]))
           => resolution[i].seq < resolution[j].seq
    /\ {resolution[i].seq : i \in Enrolled} = 1 .. Cardinality(Enrolled)

\* No seal is ahead of the clock the report is evaluated at.
Evaluable == Orderly /\ \A d \in Completed : sealed[d].at <= clock

\* The dataset carries the time of its last outcome, and is refused by a clock behind it.
Dated == \A i \in Proven : outcomes[i] <= clock

InTime     == Frozen /\ sealed[Boundary].at < Deadline
Projection == Restrict(resolution, Candidates)

\* The coordinator's run, in its window and before a report exists.
Runs == coord = "idle" /\ clock \in AfterHours /\ report = "none"

\* evaluate_with_store without a dataset: put the deadline receipt ...
MissDeadline ==
    /\ Runs /\ receipt = NoReceipt /\ staged = NotStaged
    /\ clock >= Deadline /\ Evaluable /\ ~InTime
    /\ receipt' = [kind |-> "deadline_miss", universe |-> Candidates]
    /\ UNCHANGED <<clock, evidenceVars, trialVars, work, staged, published, report, coord, faults>>

\* ... and, when no candidate is pending, the report.
DecideMiss ==
    /\ Runs /\ receipt.kind = "deadline_miss"
    /\ clock >= Deadline /\ Evaluable
    /\ receipt.universe = Candidates
    /\ Pending = {}
    /\ report' = "KILL"
    /\ UNCHANGED <<clock, evidenceVars, trialVars, work, receipt, staged, published, coord, faults>>

\* seal_terminal_dataset: build the dataset and stage it under the locks ...
Stage ==
    /\ Runs /\ receipt = NoReceipt /\ staged = NotStaged
    /\ Frozen /\ Enrolled \subseteq Proven
    /\ Evaluable /\ Dated /\ (clock >= Deadline => InTime)
    /\ staged' = [staged |-> TRUE, projection |-> Projection]
    /\ coord' = "publish"
    /\ UNCHANGED <<clock, evidenceVars, trialVars, work, receipt, published, report, faults>>

\* Mutant: a dataset staged by a run that died is not taken up.
RestageNever == FALSE /\ UNCHANGED vars

\* ... a later run takes up a staged dataset that still matches ...
Restage ==
    /\ Runs /\ receipt = NoReceipt /\ staged # NotStaged
    /\ Evaluable /\ Dated /\ staged.projection = Projection
    /\ coord' = "publish"
    /\ UNCHANGED <<clock, evidenceVars, trialVars, work, receipt, staged, published, report, faults>>

\* ... publish its file ...
Publish ==
    /\ coord = "publish"
    /\ published' = TRUE
    /\ coord' = "seal"
    /\ UNCHANGED <<clock, evidenceVars, trialVars, work, receipt, staged, report, faults>>

\* ... and put the terminal receipt.
Seal ==
    /\ coord = "seal"
    /\ receipt' = [kind |-> "terminal_seal", universe |-> Candidates]
    /\ coord' = "idle"
    /\ UNCHANGED <<clock, evidenceVars, trialVars, work, staged, published, report, faults>>

\* decide_terminal_dataset: the single look.
Decide ==
    /\ Runs /\ receipt.kind = "terminal_seal" /\ published
    /\ Evaluable /\ Dated
    /\ receipt.universe = Candidates /\ staged.projection = Projection
    /\ report' \in {"KILL", "PROMOTE_RECOMMENDED"}
    /\ UNCHANGED <<clock, evidenceVars, trialVars, work, receipt, staged, published, coord, faults>>

-----------------------------------------------------------------------------
Tick ==
    /\ clock < MaxClock
    /\ clock' = clock + 1
    /\ UNCHANGED <<evidenceVars, trialVars, work, sealVars, faults>>

Bad == faults < MaxFaults /\ faults' = faults + 1

ClockSetBack ==
    /\ Bad
    /\ clock' \in {t \in Times : t < clock /\ clock - t <= MaxSetback}
    /\ UNCHANGED <<evidenceVars, trialVars, work, sealVars>>

\* A crash, a busy store or a failed read ends the pass.
PassDies(w) ==
    /\ ~At(w, "idle") /\ Bad
    /\ End(w)
    /\ UNCHANGED <<clock, evidenceVars, trialVars, sealVars>>

CoordinatorDies ==
    /\ coord # "idle" /\ Bad
    /\ coord' = "idle"
    /\ UNCHANGED <<clock, evidenceVars, trialVars, work, receipt, staged, published, report>>

Pass(w) ==
    \/ Begin(w)
    \/ \E i \in Items : PassOver(w, i) \/ SetAside(w, i) \/ ImportRetried(w, i) \/ Import(w, i)
    \/ StartEntries(w) \/ EntriesWait(w) \/ LapseDate(w)
    \/ ReadBook(w) \/ Complete(w) \/ AfterOpen(w)
    \/ AppendOutcome(w) \/ EndPass(w)

Coordinate ==
    \/ MissDeadline \/ DecideMiss
    \/ Stage \/ Restage \/ Publish \/ Seal \/ Decide

Next ==
    \/ \E i \in Items : Record(i) \/ Correct(i)
    \/ \E w \in Workers : Pass(w) \/ PassDies(w)
    \/ Coordinate \/ CoordinatorDies
    \/ Tick \/ ClockSetBack

Spec == Init /\ [][Next]_vars

\* Task Scheduler starts the worker and the coordinator again and again; an attempt that
\* dies is followed by another, and time passes.
Fairness ==
    /\ WF_vars(Tick)
    /\ \A w \in Workers : WF_vars(Pass(w))
    /\ WF_vars(Coordinate)

FairSpec == Spec /\ Fairness

-----------------------------------------------------------------------------
Working ==
    {Idle} \cup [at : {"import"}, now : Times, left : SUBSET Items]
    \cup [at : {"entry"}, now : Times, left : SUBSET Items]
    \cup [at : {"commit"}, now : Times, left : SUBSET Items, book : SUBSET Items,
          next : 1 .. Cardinality(Items) + 1]
    \cup [at : {"after_open"}, now : Times, left : SUBSET Items, decision : Times]
    \cup {[at |-> "outcomes"]}

TypeOK ==
    /\ clock \in Times
    /\ recorded \in [Items -> Times \cup {Never}]
    /\ imported \in [Items -> Times \cup {Never}]
    /\ aside \in [Items -> {"none", "excluded", "invalid"}]
    /\ resolution \in [Items -> Resolution]
    /\ sealed \in [Dates -> {Unsealed} \cup [kind : {"completion", "lapse"}, at : Times, clock : Times]]
    /\ outcomes \in [Items -> Times \cup {Never}] /\ Proven \subseteq Enrolled
    /\ faulted \in BOOLEAN
    /\ work \in [Workers -> Working]
    /\ receipt \in {NoReceipt} \cup [kind : {"deadline_miss", "terminal_seal"}, universe : SUBSET Items]
    /\ staged = NotStaged \/ staged.projection \in UNION {[S -> Resolution] : S \in SUBSET Items}
    /\ published \in BOOLEAN
    /\ report \in {"none", "KILL", "PROMOTE_RECOMMENDED"}
    /\ coord \in {"idle", "publish", "seal"}
    /\ faults \in 0 .. MaxFaults

\* Whatever passes overlap, die or run with a clock set back, the trial store stays one
\* that the evaluation accepts, no candidate waits behind a date already sealed, and the
\* seals are in the order of their dates: otherwise the trial could never be decided.
CohortSound ==
    /\ Orderly
    /\ \A i \in Pending : \A d \in Sealed : d < Planned(i)
    /\ \A d, e \in Sealed : d < e => SealedAt(d) <= SealedAt(e)

\* A position is enrolled only by a decision taken before the open on evidence recorded and
\* imported before the cutoff, and the positions truly held on a session, which the book
\* only estimates, never exceed the slots nor hold a symbol twice.
EnrolledInTime ==
    /\ \A i \in Enrolled :
         LET d == Planned(i)
         IN  /\ sealed[d].kind = "completion" /\ sealed[d].clock < OpenAt[d]
             /\ recorded[i] < Cutoff[d] /\ imported[i] < Cutoff[d]
    /\ \A d \in Dates :
         LET held == {i \in Enrolled : Planned(i) <= d /\ d <= ExitDay(i)}
         IN  /\ Cardinality(held) <= Slots
             /\ \A i, j \in held : Symbol[i] = Symbol[j] => i = j

\* Both together: a trial that its evaluation accepts, with positions that were decided in time.
TrialSound == CohortSound /\ EnrolledInTime

\* Once a receipt binds the candidates, or a dataset is staged, neither they nor what was
\* decided about them change under it: an import that read the clock before the deadline
\* is refused, and a cohort that froze takes no candidate and seals no date.
UniverseKept ==
    /\ receipt # NoReceipt => receipt.universe = Candidates
    /\ staged # NotStaged => staged.projection = Projection
    /\ receipt.kind = "terminal_seal" => published /\ staged # NotStaged

\* One verdict for each record of this build and one report for the trial, none of them
\* ever changed, and the report only under a receipt.
Trial == "trial"
Ledger == INSTANCE Verdicts WITH
    Items    <- (Items \ Legacy) \cup {Trial},
    Outcomes <- States \cup {"set_aside", "KILL", "PROMOTE_RECOMMENDED"},
    Earned   <- {"KILL", "PROMOTE_RECOMMENDED"},
    Open     <- "none",
    asked    <- IF receipt = NoReceipt THEN {} ELSE {Trial},
    verdict  <- [i \in (Items \ Legacy) \cup {Trial} |->
                   CASE i = Trial -> report
                     [] i # Trial /\ aside[i] # "none" -> "set_aside"
                     [] i # Trial /\ aside[i] = "none" /\ resolution[i] # Unresolved
                          -> resolution[i].state
                     [] OTHER -> "none"]

\* A candidate is resolved in the end, unless the cohort freezes before its date or the
\* trial is stopped for good by something invalid.
EveryCandidateResolved ==
    \/ <>[](\A i \in Items : imported[i] # Never => resolution[i] # Unresolved \/ Frozen)
    \/ <>[]Invalid

\* The date that froze the cohort was completed after the deadline, with a later one pending.
Undrained == receipt.kind = "deadline_miss" /\ Frozen /\ Pending # {}

\* The trial is decided, by its deadline or by its sealed cohort, unless something invalid
\* stops it for good or the cohort freezes over candidates that the deadline waits for.
TrialDecided == <>(report # "none" \/ Undrained) \/ <>[]Invalid

\* As the evaluation's documentation says, the candidates pending at a missed deadline drain
\* and the report follows.
DrainedAndDecided == (receipt.kind = "deadline_miss") ~> (report # "none" \/ Invalid)
=============================================================================
