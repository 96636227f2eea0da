--------------------------- MODULE FeatureCapture ---------------------------
(***************************************************************************)
(* research/feature_capture.py: the minute-cadence worker that asks the    *)
(* SEC once for the Companyfacts of every approved signal, and leaves one  *)
(* immutable receipt per signal in a database of its own.                  *)
(*                                                                         *)
(* Unlike the option worker it holds no mutex.  A lease keeps two workers  *)
(* apart only while it lasts, no later write looks at its owner, and what  *)
(* protects a settled job from a late answer are the immutability triggers *)
(* and the unique keys of the tables.                                      *)
(***************************************************************************)
EXTENDS Naturals, FiniteSets

CONSTANTS
    Workers,      \* processes of research/feature_worker.py
    Scheduled,    \* the one the task scheduler starts every minute
    Jobs,         \* rows of research_capture_jobs
    Rank,         \* ORDER BY decision_at_utc, job_id
    Old,          \* decided before the activation of the stream
    Ahead,        \* decided by a clock that may be ahead of the workers'
    Refused,      \* rows whose timestamps prove nothing
    Unfit,        \* admitted rows with a source_validation_error
    MaxAttempts,  \* retry.maximum_attempts of the policy
    MaxFaults     \* bound on deaths and escaping exceptions

FeatureAssumption ==
    /\ Scheduled \in Workers
    /\ Rank \in [Jobs -> Nat]
    /\ \A j, k \in Jobs : Rank[j] = Rank[k] => j = k
    /\ Old \subseteq Jobs /\ Ahead \subseteq Jobs /\ Refused \subseteq Jobs /\ Unfit \subseteq Jobs
    /\ MaxAttempts \in Nat \ {0}
    /\ MaxFaults \in Nat
    /\ IsFiniteSet(Workers)

VARIABLES
    source,     \* rows of research_capture_jobs approved so far
    window,     \* is the clock before, inside or after the request window?
    rejected,   \* feature_source_rejections
    job,        \* feature_capture_jobs
    attempts,   \* feature_capture_attempts
    receipt,    \* companyfacts_receipts
    work,       \* what each process is doing
    asked,      \* jobs the SEC was asked about
    faults

vars == <<source, window, rejected, job, attempts, receipt, work, asked, faults>>

Reasons  == {"clock_before_decision", "request_window_expired", "request_failed",
             "artifact_publish_failed", "invalid_payload", "unreadable"}
Verdict  == Reasons \cup {"captured"}
Numbers  == 1 .. (MaxAttempts + MaxFaults + Cardinality(Workers))

Absent == [status |-> "absent", count |-> 0, expired |-> FALSE]
Row == [status : {"absent", "pending", "leased", "retry", "complete"},
        count : {0} \cup Numbers, expired : BOOLEAN]

Idle == [at |-> "idle"]
Work == {Idle, [at |-> "claim"]} \cup
        [at : {"check", "request"}, job : Jobs, num : Numbers] \cup
        [at : {"retry"}, job : Jobs, num : Numbers, reason : Reasons] \cup
        [at : {"finish"}, job : Jobs, num : Numbers, reason : Verdict]

Init ==
    /\ source = {}
    /\ window \in [Jobs -> {"early", "open"}]
    /\ \A j \in Jobs \ Ahead : window[j] = "open"
    /\ rejected = {}
    /\ job = [j \in Jobs |-> Absent]
    /\ attempts = [j \in Jobs |-> [n \in Numbers |-> "none"]]
    /\ receipt = [j \in Jobs |-> "none"]
    /\ work = [w \in Workers |-> Idle]
    /\ asked = {}
    /\ faults = 0

At(w, stage) == work[w].at = stage
Goto(w, next) == work' = [work EXCEPT ![w] = next]

-----------------------------------------------------------------------------
(* _ingest_next_job *)

First(S) == {j \in S : \A k \in S : Rank[j] <= Rank[k]}

New == {j \in source \ (Old \cup Refused) : job[j].status = "absent"}

\* The scan records every unusable row up to the first new one and stops there.
Scanned == {j \in (source \ Old) \cap Refused : \A k \in New : Rank[j] < Rank[k]}

\* Mutant: an unusable row ends the scan.
IngestBlocked(w) ==
    /\ At(w, "idle")
    /\ Goto(w, [at |-> "claim"])
    /\ rejected' = rejected \cup First((source \ Old) \cap Refused)
    /\ job' = IF (source \ Old) \cap Refused = {}
                THEN [j \in Jobs |-> IF j \in First(New)
                        THEN [Absent EXCEPT !.status = "pending"] ELSE job[j]]
                ELSE job
    /\ UNCHANGED <<source, window, attempts, receipt, asked, faults>>

Ingest(w) ==
    /\ At(w, "idle")
    /\ Goto(w, [at |-> "claim"])
    /\ rejected' = rejected \cup Scanned
    /\ job' = [j \in Jobs |-> IF j \in First(New)
                THEN [Absent EXCEPT !.status = "pending"] ELSE job[j]]
    /\ UNCHANGED <<source, window, attempts, receipt, asked, faults>>

-----------------------------------------------------------------------------
(* _claim *)

\* Mutant: a lease that has run out is never taken over.
ClaimableWaiting == {j \in Jobs : job[j].status \in {"pending", "retry"}}

Claimable == {j \in Jobs : \/ job[j].status \in {"pending", "retry"}
                           \/ job[j].status = "leased" /\ job[j].expired}

\* Every claim counts, and none looks at the maximum.
Claim(w) ==
    /\ At(w, "claim")
    /\ \E j \in First(Claimable) :
         /\ job' = [job EXCEPT ![j] =
                [status |-> "leased", count |-> @.count + 1, expired |-> FALSE]]
         /\ Goto(w, [at |-> "check", job |-> j, num |-> job[j].count + 1])
    /\ UNCHANGED <<source, window, rejected, attempts, receipt, asked, faults>>

ClaimNothing(w) ==
    /\ At(w, "claim")
    /\ Claimable = {}
    /\ Goto(w, Idle)
    /\ UNCHANGED <<source, window, rejected, job, attempts, receipt, asked, faults>>

-----------------------------------------------------------------------------
(* run_feature_capture_once after its claim *)

Finishing(w, reason) ==
    [at |-> "finish", job |-> work[w].job, num |-> work[w].num, reason |-> reason]
Retrying(w, reason) == [Finishing(w, reason) EXCEPT !.at = "retry"]

NoRequest(j) ==
    CASE window[j] = "early"  -> "clock_before_decision"
      [] window[j] = "closed" -> "request_window_expired"
      [] window[j] = "open"   -> "invalid_payload"

Refuse(w) ==
    /\ At(w, "check")
    /\ (window[work[w].job] # "open" \/ work[w].job \in Unfit)
    /\ Goto(w, Finishing(w, NoRequest(work[w].job)))
    /\ UNCHANGED <<source, window, rejected, job, attempts, receipt, asked, faults>>

Request(w) ==
    /\ At(w, "check")
    /\ window[work[w].job] = "open"
    /\ work[w].job \notin Unfit
    /\ Goto(w, [work[w] EXCEPT !.at = "request"])
    /\ asked' = asked \cup {work[w].job}
    /\ UNCHANGED <<source, window, rejected, job, attempts, receipt, faults>>

\* Mutant: one attempt fewer than the policy grants.
CanRetryEarly(w) == work[w].num + 1 < MaxAttempts /\ window[work[w].job] = "open"

\* attempt_number < max_attempts and finished <= deadline
CanRetry(w) == work[w].num < MaxAttempts /\ window[work[w].job] = "open"

Fail(w, reason) ==
    Goto(w, IF CanRetry(w) THEN Retrying(w, reason) ELSE Finishing(w, reason))

RequestFails(w) ==
    /\ At(w, "request")
    /\ Fail(w, "request_failed")
    /\ UNCHANGED <<source, window, rejected, job, attempts, receipt, asked, faults>>

\* The answer arrived, and its raw bytes cannot be written.
PublishFails(w) ==
    /\ At(w, "request")
    /\ Fail(w, "artifact_publish_failed")
    /\ UNCHANGED <<source, window, rejected, job, attempts, receipt, asked, faults>>

\* "unreadable" stands for every reason to reject the content of an answer.
Answer(w) ==
    /\ At(w, "request")
    /\ \E reason \in {"captured", "unreadable"} : Goto(w, Finishing(w, reason))
    /\ UNCHANGED <<source, window, rejected, job, attempts, receipt, asked, faults>>

Recorded(w, status) ==
    attempts' = [attempts EXCEPT ![work[w].job][work[w].num] = status]

\* Mutant: the trigger that protects a final job is gone.
RetryReopens(w) ==
    /\ At(w, "retry")
    /\ Goto(w, Idle)
    /\ Recorded(w, "retry")
    /\ job' = [job EXCEPT ![work[w].job].status = "retry", ![work[w].job].expired = FALSE]
    /\ UNCHANGED <<source, window, rejected, receipt, asked, faults>>

\* _retry; the trigger on a final job takes the whole transaction back.
Retry(w) ==
    LET j == work[w].job
    IN  /\ At(w, "retry")
        /\ Goto(w, Idle)
        /\ \/ /\ job[j].status # "complete"
              /\ Recorded(w, "retry")
              /\ job' = [job EXCEPT ![j].status = "retry", ![j].expired = FALSE]
           \/ /\ job[j].status = "complete"
              /\ UNCHANGED <<job, attempts>>
        /\ UNCHANGED <<source, window, rejected, receipt, asked, faults>>

\* Mutant: the receipt of a job can be written again.
FinalizeAgain(w) ==
    LET j == work[w].job
    IN  /\ At(w, "finish")
        /\ Goto(w, Idle)
        /\ Recorded(w, IF work[w].reason = "captured" THEN "completed" ELSE "failed")
        /\ receipt' = [receipt EXCEPT ![j] = work[w].reason]
        /\ job' = [job EXCEPT ![j].status = "complete", ![j].expired = FALSE]
        /\ UNCHANGED <<source, window, rejected, asked, faults>>

\* _finalize; a second receipt of a job violates a unique key.
Finalize(w) ==
    LET j == work[w].job
    IN  /\ At(w, "finish")
        /\ Goto(w, Idle)
        /\ \/ /\ receipt[j] = "none"
              /\ Recorded(w, IF work[w].reason = "captured" THEN "completed" ELSE "failed")
              /\ receipt' = [receipt EXCEPT ![j] = work[w].reason]
              /\ job' = [job EXCEPT ![j].status = "complete", ![j].expired = FALSE]
           \/ /\ receipt[j] # "none"
              /\ UNCHANGED <<attempts, receipt, job>>
        /\ UNCHANGED <<source, window, rejected, asked, faults>>

\* The process dies, or an exception nobody handles ends it: the lease stays.
Die(w) ==
    /\ ~At(w, "idle")
    /\ faults < MaxFaults
    /\ faults' = faults + 1
    /\ Goto(w, Idle)
    /\ UNCHANGED <<source, window, rejected, job, attempts, receipt, asked>>

-----------------------------------------------------------------------------
(* The rest of the world *)

\* A decision is stamped as it is committed, so rows arrive in the order of the stream.
Approve(j) ==
    /\ j \in First(Jobs \ source)
    /\ source' = source \cup {j}
    /\ UNCHANGED <<window, rejected, job, attempts, receipt, work, asked, faults>>

\* From the approval on; after the receipt it changes nothing.
WindowMoves(j) ==
    /\ j \in source \ Refused
    /\ window[j] # "closed"
    /\ receipt[j] = "none"
    /\ window' = [window EXCEPT ![j] = IF @ = "early" THEN "open" ELSE "closed"]
    /\ UNCHANGED <<source, rejected, job, attempts, receipt, work, asked, faults>>

LeaseRunsOut(j) ==
    /\ job[j].status = "leased"
    /\ ~job[j].expired
    /\ job' = [job EXCEPT ![j].expired = TRUE]
    /\ UNCHANGED <<source, window, rejected, attempts, receipt, work, asked, faults>>

Step(w) == Claim(w) \/ ClaimNothing(w) \/ Refuse(w) \/ Request(w)
           \/ RequestFails(w) \/ PublishFails(w) \/ Answer(w) \/ Retry(w) \/ Finalize(w)

Next ==
    \/ \E w \in Workers : Ingest(w) \/ Step(w) \/ Die(w)
    \/ \E j \in Jobs : Approve(j) \/ WindowMoves(j) \/ LeaseRunsOut(j)

Spec == Init /\ [][Next]_vars

\* The scheduler starts its process every minute, a process at work goes on or
\* dies, and leases run out.
Fairness ==
    /\ WF_vars(Ingest(Scheduled))
    /\ \A w \in Workers : WF_vars(Step(w))
    /\ \A j \in Jobs : WF_vars(LeaseRunsOut(j))

FairSpec == Spec /\ Fairness

-----------------------------------------------------------------------------
TypeOK ==
    /\ source \subseteq Jobs
    /\ window \in [Jobs -> {"early", "open", "closed"}]
    /\ rejected \subseteq Refused
    /\ job \in [Jobs -> Row]
    /\ attempts \in [Jobs -> [Numbers -> {"none", "retry", "completed", "failed"}]]
    /\ receipt \in [Jobs -> Verdict \cup {"none"}]
    /\ work \in [Workers -> Work]
    /\ asked \subseteq Jobs
    /\ faults \in 0 .. MaxFaults

Closing(j) == {n \in Numbers : attempts[j][n] \in {"completed", "failed"}}

\* A job is complete exactly when its one receipt is on record, together with one
\* closing attempt that agrees with it, whichever late answers, lapsed leases and
\* deaths came between: a stale worker neither reopens it nor adds to it.
SettledOnRecord ==
    \A j \in Jobs :
      /\ job[j].status = "complete" <=> receipt[j] # "none"
      /\ receipt[j] # "none" <=> Cardinality(Closing(j)) = 1
      /\ receipt[j] = "none" <=> Closing(j) = {}
      /\ \A n \in Closing(j) : attempts[j][n] = "completed" <=> receipt[j] = "captured"

\* A job is given up for a failed request or artifact only when the window had
\* closed or every attempt of the policy was claimed; and attempts beyond the
\* policy are those that lapsed or died, never a retry.
GivenUpTruly ==
    \A j \in Jobs :
      /\ receipt[j] \in {"request_failed", "artifact_publish_failed"} =>
           \/ window[j] = "closed"
           \/ job[j].count >= MaxAttempts
      /\ \A n \in Numbers : attempts[j][n] = "retry" => n < MaxAttempts
      /\ job[j].count < MaxAttempts + faults + Cardinality(Workers)

\* Both together: what the job of a signal says is on record, and a signal is given up
\* only for cause.
FeaturesTrue == SettledOnRecord /\ GivenUpTruly

\* Every approved signal of the stream ends with a receipt or a rejection.
EverySignalSettled ==
    <>[](\A j \in source \ Old : receipt[j] # "none" \/ j \in rejected)

\* The stream gives each signal one verdict and keeps it, and says "captured" or
\* "unreadable" only of a signal the SEC was asked about.
Ledger == INSTANCE Verdicts WITH
    Items    <- Jobs,
    Outcomes <- Verdict \cup {"rejected"},
    Earned   <- {"captured", "unreadable", "request_failed"},
    Open     <- "none",
    asked    <- asked,
    verdict  <- [j \in Jobs |-> IF j \in rejected THEN "rejected" ELSE receipt[j]]
=============================================================================
