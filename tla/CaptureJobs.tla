---------------------------- MODULE CaptureJobs ----------------------------
(***************************************************************************)
(* research/capture.py: the scheduled worker that turns the outbox of      *)
(* approved signals (research_capture_jobs) into evidence snapshots in a   *)
(* database of its own, querying the option market on the way.             *)
(*                                                                         *)
(* A worker process claims at most one job and works on it alone, under a  *)
(* mutex that the system releases when the process dies.  The lease on the *)
(* job outlives the process.  Of the clock the code only asks whether a    *)
(* job's delay has passed, whether its deadline has, and whether its lease *)
(* has run out, so those answers are the state.                            *)
(***************************************************************************)
EXTENDS Naturals

CONSTANTS
    Workers,        \* processes of research/worker.py
    Jobs,           \* rows of research_capture_jobs
    Rank,           \* the order of decision_at_utc
    Outside,        \* jobs observed outside the window of the sealed registry
    Upgraded,       \* jobs an earlier release left leased with their attempts recorded
    MaxAttempts,    \* config.max_attempts
    MaxFaults       \* bound on exceptions and deaths

ASSUME CaptureAssumption ==
    /\ Rank \in [Jobs -> Nat]
    /\ \A j, k \in Jobs : Rank[j] = Rank[k] => j = k
    /\ Outside \subseteq Jobs
    /\ Upgraded \subseteq Jobs
    /\ MaxAttempts \in Nat \ {0}
    /\ MaxFaults \in Nat
    /\ "nobody" \notin Workers

VARIABLES
    row,        \* research_capture_jobs
    attempts,   \* research_capture_attempts
    evidence,   \* evidence_snapshots: what each job's record says of the options
    phase,      \* has the job's delay, has its deadline passed?
    work,       \* what each process is doing
    launches,   \* historical requests started for each job
    hurt,       \* did an exception reach the handler of the job?
    faults

vars == <<row, attempts, evidence, phase, work, launches, hurt, faults>>

Nobody   == "nobody"
Unsettled == {"pending", "retry", "leased"}
Settled   == {"complete", "failed"}
Records  == {"none", "answered", "missing"}
Reasons  == {"none", "outside", "exhausted", "option", "internal"}
Numbers  == 1 .. MaxAttempts

Row == [status : Unsettled \cup Settled, count : 0 .. MaxAttempts,
        owner : Workers \cup {Nobody}, expired : BOOLEAN,
        reason : Reasons, record : Records]

Work == [at : {"check", "live", "history", "renew", "append", "finish", "beat", "handle"},
         job : Jobs, num : Numbers, option : Records, permanent : BOOLEAN]
NoWork == [at |-> "idle"]

\* The stages in which the process believes it holds the lease.
Holding == {"check", "live", "history", "renew", "append", "finish"}

FreshRow == [status |-> "pending", count |-> 0, owner |-> Nobody, expired |-> FALSE,
             reason |-> "none", record |-> "none"]
LeftRow(n) == [FreshRow EXCEPT !.status = "leased", !.count = n]

Init ==
    /\ \E n \in [Upgraded -> Numbers] :
         /\ row = [j \in Jobs |-> IF j \in Upgraded THEN LeftRow(n[j]) ELSE FreshRow]
         /\ attempts = [j \in Jobs |-> [i \in Numbers |->
                IF j \in Upgraded /\ i <= n[j] THEN "retry" ELSE "none"]]
    /\ evidence \in [Jobs -> Records]
    /\ \A j \in Jobs \ Upgraded : evidence[j] = "none"
    /\ phase = [j \in Jobs |-> "early"]
    /\ work = [w \in Workers |-> NoWork]
    /\ launches = [j \in Jobs |-> 0]
    /\ hurt = [j \in Jobs |-> FALSE]
    /\ faults = 0

At(w, stage) == work[w].at = stage
Goto(w, stage) == work' = [work EXCEPT ![w].at = stage]
Rest(w) == work' = [work EXCEPT ![w] = NoWork]

Recorded(j, n) == attempts[j][n] # "none"

\* WHERE job_id=? AND status='leased' AND lease_owner=?
Owns(w) ==
    /\ row[work[w].job].status = "leased"
    /\ row[work[w].job].owner = w

-----------------------------------------------------------------------------
(* _claim_job *)

\* Mutant: the lease alone keeps two processes apart.
NoMutex == TRUE

\* Nobody else is inside _artifact_process_mutex.
MutexFree == \A w \in Workers : At(w, "idle")

Waiting(r)   == r.status \in {"pending", "retry"}
RunOut(r)    == r.status = "leased" /\ r.expired
Failed(r, reason) == [r EXCEPT !.status = "failed", !.owner = Nobody, !.expired = FALSE,
                               !.reason = reason]

\* Mutant: the sweep also fails a job whose last attempt left no record.
SweptLeased(j) ==
    LET r == row[j]
    IN  IF (Waiting(r) \/ RunOut(r)) /\ j \in Outside THEN Failed(r, "outside")
        ELSE IF (Waiting(r) \/ RunOut(r)) /\ r.count >= MaxAttempts THEN Failed(r, "exhausted")
        ELSE r

\* Every claim first fails what is outside the window and what has no attempt left.
Swept(j) ==
    LET r == row[j]
    IN  IF (Waiting(r) \/ RunOut(r)) /\ j \in Outside THEN Failed(r, "outside")
        ELSE IF Waiting(r) /\ r.count >= MaxAttempts THEN Failed(r, "exhausted")
        ELSE r

\* Mutant: a lease that has run out is not taken over.
ClaimableWaiting == {j \in Jobs : phase[j] # "early" /\ Waiting(Swept(j))}

Claimable == {j \in Jobs : phase[j] # "early" /\ (Waiting(Swept(j)) \/ RunOut(Swept(j)))}

First(S) == {j \in S : \A k \in S : Rank[j] <= Rank[k]}

\* Mutant: every claim counts, also of an attempt that left no record.
CountedNumber(j) == row[j].count + 1

\* An attempt that left no record is taken over with its number.
NextNumber(j) ==
    IF Waiting(row[j]) \/ (Recorded(j, row[j].count) /\ row[j].count < MaxAttempts)
      THEN row[j].count + 1
      ELSE row[j].count

Claim(w) ==
    /\ MutexFree
    /\ \E j \in First(Claimable) :
         /\ row' = [[k \in Jobs |-> Swept(k)] EXCEPT
                ![j] = [@ EXCEPT !.status = "leased", !.count = NextNumber(j),
                                 !.owner = w, !.expired = FALSE]]
         /\ work' = [work EXCEPT ![w] = [at |-> "check", job |-> j, num |-> NextNumber(j),
                                         option |-> "none", permanent |-> FALSE]]
    /\ UNCHANGED <<attempts, evidence, phase, launches, hurt, faults>>

ClaimNothing(w) ==
    /\ MutexFree
    /\ Claimable = {}
    /\ row' = [j \in Jobs |-> Swept(j)]
    /\ UNCHANGED <<attempts, evidence, phase, work, launches, hurt, faults>>

-----------------------------------------------------------------------------
(* _finish_job_attempt, _finish_job_without_new_attempt *)

Closed(w, status, reason, record) ==
    LET j == work[w].job
    IN  /\ Owns(w)
        /\ row' = [row EXCEPT ![j] = [@ EXCEPT
                !.status = status, !.owner = Nobody, !.expired = FALSE,
                !.reason = reason, !.record = record]]

\* UNIQUE(job_id, attempt_number): a number that is taken undoes the whole transaction.
FinishAttempt(w, outcome, status, reason, record) ==
    LET j == work[w].job
    IN  /\ ~ Recorded(j, work[w].num)
        /\ Closed(w, status, reason, record)
        /\ attempts' = [attempts EXCEPT ![j][work[w].num] = outcome]

FinishWithoutAttempt(w, status, reason, record) ==
    /\ Recorded(work[w].job, row[work[w].job].count)
    /\ Closed(w, status, reason, record)
    /\ UNCHANGED attempts

-----------------------------------------------------------------------------
(* _process_claimed_job *)

\* A snapshot of an earlier attempt is adopted, and the market is not asked again.
Recover(w) ==
    LET j == work[w].job
    IN  /\ At(w, "check")
        /\ evidence[j] # "none"
        /\ IF Recorded(j, work[w].num)
             THEN FinishWithoutAttempt(w, "complete", "none", evidence[j])
             ELSE FinishAttempt(w, "completed", "complete", "none", evidence[j])
        /\ Goto(w, "beat")
        /\ UNCHANGED <<evidence, phase, launches, hurt, faults>>

Exhausted(w) == Recorded(work[w].job, work[w].num) /\ work[w].num >= MaxAttempts

GiveUp(w) ==
    /\ At(w, "check")
    /\ evidence[work[w].job] = "none"
    /\ Exhausted(w)
    /\ FinishWithoutAttempt(w, "failed", "exhausted", "none")
    /\ Goto(w, "beat")
    /\ UNCHANGED <<evidence, phase, launches, hurt, faults>>

\* Mutant: the worker starts without looking for the snapshot of an earlier attempt.
BeginAgain(w) ==
    LET j == work[w].job
    IN  /\ At(w, "check")
        /\ ~ Exhausted(w)
        /\ work' = [work EXCEPT ![w] =
                IF phase[j] = "late" THEN [@ EXCEPT !.at = "renew", !.option = "missing"]
                                     ELSE [@ EXCEPT !.at = "live"]]
        /\ UNCHANGED <<row, attempts, evidence, phase, launches, hurt, faults>>

\* A job claimed after its deadline is recorded as missing without a request.
Begin(w) ==
    LET j == work[w].job
    IN  /\ At(w, "check")
        /\ evidence[j] = "none"
        /\ ~ Exhausted(w)
        /\ work' = [work EXCEPT ![w] =
                IF phase[j] = "late" THEN [@ EXCEPT !.at = "renew", !.option = "missing"]
                                     ELSE [@ EXCEPT !.at = "live"]]
        /\ UNCHANGED <<row, attempts, evidence, phase, launches, hurt, faults>>

Settle(w, option) == work' = [work EXCEPT ![w].at = "renew", ![w].option = option]

\* _capture_options: an artifact or a typed absence, or an error that is not retried.
LiveSettled(w) ==
    /\ At(w, "live")
    /\ \E option \in {"answered", "missing"} : Settle(w, option)
    /\ UNCHANGED <<row, attempts, evidence, phase, launches, hurt, faults>>

\* Mutant: an attempt too many.
CanRetryPast(w) == work[w].num <= MaxAttempts /\ phase[work[w].job] # "late"

CanRetry(w) == work[w].num < MaxAttempts /\ phase[work[w].job] # "late"

\* Mutant: the last transient error fails the job instead of recording what is missing.
LiveDiscarded(w) ==
    /\ At(w, "live")
    /\ IF CanRetry(w)
         THEN FinishAttempt(w, "retry", "retry", "option", "none")
         ELSE FinishAttempt(w, "failed", "failed", "option", "none")
    /\ Goto(w, "beat")
    /\ UNCHANGED <<evidence, phase, launches, hurt, faults>>

LiveRetryable(w) ==
    /\ At(w, "live")
    /\ IF CanRetry(w)
         THEN /\ FinishAttempt(w, "retry", "retry", "option", "none")
              /\ Goto(w, "beat")
         ELSE /\ Settle(w, "missing")
              /\ UNCHANGED <<row, attempts>>
    /\ UNCHANGED <<evidence, phase, launches, hurt, faults>>

\* The venue is closed: the lease is renewed and a historical request launched.
VenueClosed(w) ==
    LET j == work[w].job
    IN  /\ At(w, "live")
        /\ Owns(w)
        /\ row' = [row EXCEPT ![j].expired = FALSE]
        /\ launches' = [launches EXCEPT ![j] = IF @ < 2 THEN @ + 1 ELSE @]
        /\ Goto(w, "history")
        /\ UNCHANGED <<attempts, evidence, phase, hurt, faults>>

\* Mutant: a historical request is retried like a live one.
HistoryRetried(w) ==
    /\ At(w, "history")
    /\ \/ \E option \in {"answered", "missing"} : Settle(w, option) /\ UNCHANGED <<row, attempts>>
       \/ CanRetry(w) /\ FinishAttempt(w, "retry", "retry", "option", "none") /\ Goto(w, "beat")
    /\ UNCHANGED <<evidence, phase, launches, hurt, faults>>

\* Whatever becomes of a historical request, it is not retryable.
History(w) ==
    /\ At(w, "history")
    /\ \E option \in {"answered", "missing"} : Settle(w, option)
    /\ UNCHANGED <<row, attempts, evidence, phase, launches, hurt, faults>>

Renew(w) ==
    /\ At(w, "renew")
    /\ Owns(w)
    /\ row' = [row EXCEPT ![work[w].job].expired = FALSE]
    /\ Goto(w, "append")
    /\ UNCHANGED <<attempts, evidence, phase, launches, hurt, faults>>

\* _append_snapshot commits in the evidence database, the job in the source database.
AppendSnapshot(w) ==
    /\ At(w, "append")
    /\ evidence' = [evidence EXCEPT ![work[w].job] = work[w].option]
    /\ Goto(w, "finish")
    /\ UNCHANGED <<row, attempts, phase, launches, hurt, faults>>

Finish(w) ==
    /\ At(w, "finish")
    /\ FinishAttempt(w, "completed", "complete",
                     IF work[w].option = "missing" THEN "option" ELSE "none", work[w].option)
    /\ Goto(w, "beat")
    /\ UNCHANGED <<evidence, phase, launches, hurt, faults>>

Heartbeat(w) ==
    /\ At(w, "beat")
    /\ Rest(w)
    /\ UNCHANGED <<row, attempts, evidence, phase, launches, hurt, faults>>

-----------------------------------------------------------------------------
(* _run_active_capture_once: the handler around the whole of the above. *)

Raise(w) ==
    /\ work[w] # NoWork
    /\ ~ At(w, "handle")
    /\ faults < MaxFaults
    /\ faults' = faults + 1
    /\ \E permanent \in BOOLEAN :
         work' = [work EXCEPT ![w].at = "handle", ![w].permanent = permanent]
    /\ hurt' = [hurt EXCEPT ![work[w].job] = TRUE]
    /\ UNCHANGED <<row, attempts, evidence, phase, launches>>

HandleRetry(w) ==
    /\ At(w, "handle")
    /\ ~ work[w].permanent
    /\ CanRetry(w)
    /\ FinishAttempt(w, "retry", "retry", "internal", "none")
    /\ Rest(w)
    /\ UNCHANGED <<evidence, phase, launches, hurt, faults>>

HandleTerminal(w) ==
    /\ At(w, "handle")
    /\ work[w].permanent \/ ~ CanRetry(w)
    /\ FinishAttempt(w, "failed", "failed", "internal", "none")
    /\ Rest(w)
    /\ UNCHANGED <<evidence, phase, launches, hurt, faults>>

\* The job is no longer leased to this process (the heartbeat after a finished attempt
\* raised), or its number is taken: the handler raises in its turn.
HandleRefused(w) ==
    /\ At(w, "handle")
    /\ ~ Owns(w) \/ Recorded(work[w].job, work[w].num)
    /\ Rest(w)
    /\ UNCHANGED <<row, attempts, evidence, phase, launches, hurt, faults>>

\* A kill, a ProcessTreeCleanupError or a second exception: the lease stays behind.
Die(w) ==
    /\ work[w] # NoWork
    /\ faults < MaxFaults
    /\ faults' = faults + 1
    /\ Rest(w)
    /\ UNCHANGED <<row, attempts, evidence, phase, launches, hurt>>

-----------------------------------------------------------------------------
(* Time: capture_delay_seconds, capture_deadline_seconds and lease_seconds. *)
(* Earlier decisions come due first; the times of a settled job are never   *)
(* asked for again and stand still.                                         *)

Open(j) == row[j].status \in Unsettled

DelayPasses(j) ==
    /\ Open(j)
    /\ phase[j] = "early"
    /\ \A k \in Jobs : Open(k) /\ Rank[k] < Rank[j] => phase[k] # "early"
    /\ phase' = [phase EXCEPT ![j] = "open"]
    /\ UNCHANGED <<row, attempts, evidence, work, launches, hurt, faults>>

DeadlinePasses(j) ==
    /\ Open(j)
    /\ phase[j] = "open"
    /\ \A k \in Jobs : Open(k) /\ Rank[k] < Rank[j] => phase[k] = "late"
    /\ phase' = [phase EXCEPT ![j] = "late"]
    /\ UNCHANGED <<row, attempts, evidence, work, launches, hurt, faults>>

LeaseRunsOut(j) ==
    /\ row[j].status = "leased"
    /\ ~ row[j].expired
    /\ row' = [row EXCEPT ![j].expired = TRUE]
    /\ UNCHANGED <<attempts, evidence, phase, work, launches, hurt, faults>>

-----------------------------------------------------------------------------

Process(w) ==
    \/ Recover(w) \/ GiveUp(w) \/ Begin(w)
    \/ LiveSettled(w) \/ LiveRetryable(w) \/ VenueClosed(w) \/ History(w)
    \/ Renew(w) \/ AppendSnapshot(w) \/ Finish(w) \/ Heartbeat(w)

Handle(w) == HandleRetry(w) \/ HandleTerminal(w) \/ HandleRefused(w)

Time(j) == DelayPasses(j) \/ DeadlinePasses(j) \/ LeaseRunsOut(j)

Next ==
    \/ \E w \in Workers : Claim(w) \/ ClaimNothing(w) \/ Process(w) \/ Handle(w)
                            \/ Raise(w) \/ Die(w)
    \/ \E j \in Jobs : Time(j)

Spec == Init /\ [][Next]_vars

\* The task is started every minute, and its requests are bounded; the clock goes on.
Scheduled ==
    /\ WF_vars(\E w \in Workers : Claim(w) \/ ClaimNothing(w) \/ Process(w) \/ Handle(w))
    /\ \A j \in Jobs : WF_vars(Time(j))

FairSpec == Spec /\ Scheduled

-----------------------------------------------------------------------------
(* Properties. *)

TypeOK ==
    /\ row \in [Jobs -> Row]
    /\ attempts \in [Jobs -> [Numbers -> {"none", "retry", "completed", "failed"}]]
    /\ evidence \in [Jobs -> Records]
    /\ phase \in [Jobs -> {"early", "open", "late"}]
    /\ work \in [Workers -> Work \cup {NoWork}]
    /\ launches \in [Jobs -> 0 .. 2]
    /\ hurt \in [Jobs -> BOOLEAN]
    /\ faults \in 0 .. MaxFaults

\* run_capture_once, "Acquire cross-process ownership before leasing a job": however long a
\* request takes, a process that still works on a job owns its lease under the number it
\* claimed it with, alone, and once it asks the market that number is not on record.
LeaseNeverLost ==
    \A w \in Workers : work[w].at \in Holding =>
        /\ Owns(w)
        /\ row[work[w].job].count = work[w].num
        /\ Recorded(work[w].job, work[w].num) => At(w, "check")
        /\ \A v \in Workers : work[v] # NoWork => v = w

\* "verifies and reuses the exact stored record rather than re-querying the market": no
\* process asks the market for, or appends a snapshot of, a job that has its snapshot.
MarketAskedOnce ==
    \A w \in Workers :
        work[w].at \in {"live", "history", "renew", "append"} => evidence[work[w].job] = "none"

\* research_capture_complete_immutable freezes what is settled, so it must be right when it
\* is: a complete job carries the digest of its snapshot, a job fails as exhausted only if
\* an earlier release left it so, as outside only if it is, and beside a snapshot of its
\* own only through an exception after the append.
SettledTruly ==
    \A j \in Jobs :
        /\ row[j].status = "complete" => row[j].record = evidence[j] /\ evidence[j] # "none"
        /\ row[j].status = "failed" =>
             /\ row[j].reason \in {"outside", "exhausted", "internal"}
             /\ row[j].reason = "outside" => j \in Outside
             /\ row[j].reason = "exhausted" => j \in Upgraded
             /\ row[j].reason = "internal" => hurt[j]
             /\ evidence[j] # "none" => hurt[j] \/ j \in Outside

\* A job is put back to retry only with an attempt left and the last one on record, so the
\* sweep that fails exhausted jobs never meets one of this release.
RetryAffordable ==
    \A j \in Jobs : row[j].status = "retry" =>
        row[j].count \in 1 .. MaxAttempts - 1 /\ Recorded(j, row[j].count)

\* docs/research/CLOSED-VENUE-OPTION-FALLBACK.md: "every historical launch is a one-shot
\* operation ... and is never retried automatically".  The code keeps it as far as this:
\* a second launch for a job takes an exception or a death after the first.
RelaunchedAfterFault == (\E j \in Jobs : launches[j] > 1) => faults > 0

\* Every job is settled in the end, those of an earlier release and of dead owners too;
\* and "it never discards the signal": whatever the option market answers, however often
\* the process dies, a job inside the window that no exception reached gets its snapshot.
SignalKept ==
    <>(\A j \in Jobs :
         /\ row[j].status \in Settled
         /\ row[j].status = "complete" \/ hurt[j] \/ j \in Outside \cup Upgraded)
=============================================================================
