------------------------- MODULE CaptureJobs_proofs -------------------------
(* Theorems about CaptureJobs, for any processes, jobs, number of attempts   *)
(* and number of faults.                                                     *)
EXTENDS CaptureJobs, TLAPS

-----------------------------------------------------------------------------
(* The inductive invariant. *)

Busy(w) == work[w] # NoWork
Leased(j) == row[j].status = "leased"

(* Attempt numbers are counted up, and the number of a lease is free, but for a job an    *)
(* earlier release left behind.                                                           *)
CountedAt(j) ==
    /\ row[j].status = "pending" => row[j].count = 0
    /\ Leased(j) => row[j].count \in Numbers
    /\ Leased(j) /\ Recorded(j, row[j].count) => j \in Upgraded
    /\ \A n \in Numbers : n > row[j].count => ~ Recorded(j, n)
    /\ row[j].status = "retry" =>
         row[j].count \in 1 .. MaxAttempts - 1 /\ Recorded(j, row[j].count)

SettledAt(j) ==
    /\ row[j].status = "complete" => row[j].record = evidence[j] /\ evidence[j] # "none"
    /\ row[j].status = "failed" =>
         /\ row[j].reason \in {"outside", "exhausted", "internal"}
         /\ row[j].reason = "outside" => j \in Outside
         /\ row[j].reason = "exhausted" => j \in Upgraded
         /\ row[j].reason = "internal" => hurt[j]
         /\ evidence[j] # "none" => hurt[j] \/ j \in Outside

(* At most one process is at work. *)
Alone == \A v, w \in Workers : Busy(v) /\ Busy(w) => v = w

(* It owns the job's lease until it has finished, and nobody owns it under its name after. *)
Held(w) ==
    /\ work[w].at \in Holding => Owns(w)
    /\ work[w].at = "beat" => ~ Leased(work[w].job)
    /\ Owns(w) => row[work[w].job].count = work[w].num

Numbering(w) ==
    /\ work[w].at = "check" /\ Recorded(work[w].job, work[w].num) =>
         work[w].num = MaxAttempts /\ work[w].job \in Upgraded
    /\ work[w].at \in Holding \ {"check"} => ~ Recorded(work[w].job, work[w].num)

(* What it has of evidence, and the handler's reason. *)
Evidenced(w) ==
    /\ work[w].at \in {"live", "history", "renew", "append"} => evidence[work[w].job] = "none"
    /\ work[w].at \in {"renew", "append", "finish"} => work[w].option # "none"
    /\ work[w].at = "finish" => evidence[work[w].job] = work[w].option
    /\ work[w].at = "handle" => hurt[work[w].job]

Sound(w) == Held(w) /\ Numbering(w) /\ Evidenced(w)

IInv ==
    /\ TypeOK
    /\ Alone
    /\ \A j \in Jobs : CountedAt(j) /\ SettledAt(j)
    /\ \A w \in Workers : Busy(w) => Sound(w)

-----------------------------------------------------------------------------
(* What a busy process is. *)

LEMMA BusyWork ==
    ASSUME TypeOK, NEW w \in Workers
    PROVE  /\ Busy(w) <=> work[w].at # "idle"
           /\ Busy(w) => work[w] \in Work /\ work[w].job \in Jobs /\ work[w].num \in Numbers
                           /\ work[w].option \in Records
BY DEF TypeOK, Busy, NoWork, Work

(* A step of a busy process touches its job and nobody else's state, so what is to be     *)
(* shown of the invariant concerns that job and that process.                             *)
Touches(w, j) ==
    /\ \A k \in Jobs : k # j =>
         /\ row'[k] = row[k] /\ attempts'[k] = attempts[k]
         /\ evidence'[k] = evidence[k] /\ hurt'[k] = hurt[k]
    /\ \A v \in Workers : v # w => work'[v] = work[v]

LEMMA LocalStep ==
    ASSUME IInv, NEW w \in Workers, NEW j \in Jobs, TypeOK', Touches(w, j),
           \A v \in Workers : v # w => ~ Busy(v),
           CountedAt(j)', SettledAt(j)', Busy(w)' => Sound(w)'
    PROVE  IInv'
<1>1. \A v \in Workers : v # w => ~ Busy(v)'
  BY DEF Touches, Busy
<1>2. \A k \in Jobs : (CountedAt(k) /\ SettledAt(k))'
  BY DEF IInv, Touches, CountedAt, SettledAt, Leased, Recorded
<1>3. Alone'
  BY <1>1 DEF Alone
<1> QED
  BY <1>1, <1>2, <1>3 DEF IInv

-----------------------------------------------------------------------------
(* _finish_job_attempt and _finish_job_without_new_attempt. *)

LEMMA ClosedRow ==
    ASSUME TypeOK, NEW w \in Workers, Busy(w), NEW status \in {"retry", "complete", "failed"},
           NEW reason \in Reasons, NEW record \in Records, Closed(w, status, reason, record)
    PROVE  LET j == work[w].job
           IN  /\ row' \in [Jobs -> Row]
               /\ \A k \in Jobs : k # j => row'[k] = row[k]
               /\ row'[j].status = status /\ row'[j].count = row[j].count
               /\ row'[j].reason = reason /\ row'[j].record = record
<1> DEFINE j == work[w].job
           r == [row[j] EXCEPT !.status = status, !.owner = Nobody, !.expired = FALSE,
                               !.reason = reason, !.record = record]
<1>1. j \in Jobs /\ row[j] \in Row
  BY BusyWork DEF TypeOK
<1>2. row' = [row EXCEPT ![j] = r]
  BY DEF Closed
<1>3. r \in Row /\ r.status = status /\ r.count = row[j].count /\ r.reason = reason
        /\ r.record = record
  BY <1>1 DEF Row, Settled, Unsettled, Nobody
<1> HIDE DEF r
<1> QED
  BY <1>1, <1>2, <1>3 DEF TypeOK

LEMMA FinishedAttempt ==
    ASSUME TypeOK, NEW w \in Workers, Busy(w), NEW status, NEW reason, NEW record,
           NEW outcome \in {"retry", "completed", "failed"},
           FinishAttempt(w, outcome, status, reason, record)
    PROVE  LET j == work[w].job
               n == work[w].num
           IN  /\ attempts' \in [Jobs -> [Numbers -> {"none", "retry", "completed", "failed"}]]
               /\ \A k \in Jobs : k # j => attempts'[k] = attempts[k]
               /\ \A m \in Numbers : m # n => attempts'[j][m] = attempts[j][m]
               /\ attempts'[j][n] = outcome
               /\ ~ Recorded(j, n)
               /\ Closed(w, status, reason, record)
               /\ Owns(w)
<1> DEFINE j == work[w].job
           n == work[w].num
<1>1. j \in Jobs /\ n \in Numbers
  BY BusyWork
<1>2. attempts' = [attempts EXCEPT ![j][n] = outcome]
  BY DEF FinishAttempt
<1>3. attempts[j] \in [Numbers -> {"none", "retry", "completed", "failed"}]
  BY <1>1 DEF TypeOK
<1>4. Closed(w, status, reason, record) /\ Owns(w) /\ ~ Recorded(j, n)
  BY DEF FinishAttempt, Closed
<1> QED
  BY <1>1, <1>2, <1>3, <1>4 DEF TypeOK

(* A job that has just been finished under the number of its attempt counts as it should. *)
LEMMA CountedAfter ==
    ASSUME IInv, NEW w \in Workers, Busy(w), Held(w), NEW j \in Jobs, j = work[w].job,
           NEW status \in {"retry", "complete", "failed"},
           NEW reason \in Reasons, NEW record \in Records,
           NEW outcome \in {"retry", "completed", "failed"},
           FinishAttempt(w, outcome, status, reason, record),
           status = "retry" => work[w].num < MaxAttempts
    PROVE  CountedAt(j)'
<1> DEFINE n == work[w].num
<1>0. TypeOK
  BY DEF IInv
<1>1. n \in Numbers /\ CountedAt(j)
  BY <1>0, BusyWork DEF IInv
<1>2. /\ row'[j].status = status /\ row'[j].count = row[j].count
      /\ \A m \in Numbers : m # n => attempts'[j][m] = attempts[j][m]
      /\ attempts'[j][n] = outcome
      /\ Owns(w)
  BY <1>0, ClosedRow, FinishedAttempt
<1>3. row[j].count = n
  BY <1>2 DEF Held
<1>4. ~ Leased(j)' /\ row'[j].status # "pending"
  BY <1>2 DEF Leased
<1>5. \A m \in Numbers : m > row'[j].count => ~ Recorded(j, m)'
  <2> SUFFICES ASSUME NEW m \in Numbers, m > row'[j].count PROVE attempts'[j][m] = "none"
    BY DEF Recorded
  <2>1. m > row[j].count /\ m # n
    BY <1>1, <1>2, <1>3 DEF Numbers
  <2> QED
    BY <1>1, <1>2, <2>1 DEF CountedAt, Recorded
<1>6. row'[j].status = "retry" =>
        row'[j].count \in 1 .. MaxAttempts - 1 /\ attempts'[j][row'[j].count] # "none"
  BY <1>1, <1>2, <1>3, CaptureAssumption DEF Numbers
<1> QED
  BY <1>4, <1>5, <1>6 DEF CountedAt, Recorded, Leased

-----------------------------------------------------------------------------
(* What a process's next stage leaves of its work. *)

Moved(w) ==
    /\ work' \in [Workers -> Work \cup {NoWork}]
    /\ \A v \in Workers : v # w => work'[v] = work[v]

LEMMA RestWork ==
    ASSUME TypeOK, NEW w \in Workers, Rest(w)
    PROVE  Moved(w) /\ ~ Busy(w)'
BY DEF TypeOK, Rest, Moved, Busy

Stages == {"check", "live", "history", "renew", "append", "finish", "beat", "handle"}

LEMMA MovedWork ==
    ASSUME TypeOK, NEW w \in Workers, NEW x \in Work, work' = [work EXCEPT ![w] = x]
    PROVE  Moved(w) /\ work'[w] = x
BY DEF TypeOK, Moved

LEMMA GotoWork ==
    ASSUME TypeOK, NEW w \in Workers, Busy(w), NEW stage \in Stages, Goto(w, stage)
    PROVE  /\ Moved(w)
           /\ work'[w].at = stage /\ work'[w].job = work[w].job
           /\ work'[w].num = work[w].num /\ work'[w].option = work[w].option
<1> DEFINE x == [work[w] EXCEPT !.at = stage]
<1>1. work[w] \in Work
  BY BusyWork
<1>2. /\ x \in Work /\ x.at = stage /\ x.job = work[w].job
      /\ x.num = work[w].num /\ x.option = work[w].option
  BY <1>1 DEF Work, Stages
<1>3. work' = [work EXCEPT ![w] = x]
  BY DEF Goto
<1> HIDE DEF x
<1> QED
  BY <1>2, <1>3, MovedWork

LEMMA SettleWork ==
    ASSUME TypeOK, NEW w \in Workers, Busy(w), NEW option \in Records, Settle(w, option)
    PROVE  /\ Moved(w)
           /\ work'[w].at = "renew" /\ work'[w].job = work[w].job
           /\ work'[w].num = work[w].num /\ work'[w].option = option
<1> DEFINE x == [work[w] EXCEPT !.at = "renew", !.option = option]
<1>1. work[w] \in Work /\ work \in [Workers -> Work \cup {NoWork}]
  BY BusyWork DEF TypeOK
<1>2. /\ x \in Work /\ x.at = "renew" /\ x.job = work[w].job
      /\ x.num = work[w].num /\ x.option = option
  BY <1>1 DEF Work
<1>3. work' = [work EXCEPT ![w] = x]
  BY <1>1 DEF Settle
<1> HIDE DEF x
<1> QED
  BY <1>2, <1>3, MovedWork

LEMMA BusyFacts ==
    ASSUME IInv, NEW w \in Workers, Busy(w)
    PROVE  /\ TypeOK /\ Sound(w)
           /\ work[w] \in Work /\ work[w].job \in Jobs /\ work[w].num \in Numbers
           /\ work[w].option \in Records
           /\ CountedAt(work[w].job) /\ SettledAt(work[w].job)
           /\ row[work[w].job] \in Row
           /\ \A v \in Workers : v # w => ~ Busy(v)
<1>1. TypeOK /\ Sound(w) /\ \A v \in Workers : v # w => ~ Busy(v)
  BY DEF IInv, Alone
<1>2. /\ work[w] \in Work /\ work[w].job \in Jobs /\ work[w].num \in Numbers
      /\ work[w].option \in Records
  BY <1>1, BusyWork
<1>3. row[work[w].job] \in Row
  BY <1>1, <1>2 DEF TypeOK
<1> QED
  BY <1>1, <1>2, <1>3 DEF IInv

(* A step that leaves the tables alone. *)
LEMMA Untouched ==
    ASSUME IInv, NEW w \in Workers, Busy(w), UNCHANGED <<row, attempts, evidence>>, TypeOK',
           \A k \in Jobs : k # work[w].job => hurt'[k] = hurt[k],
           hurt[work[w].job] => hurt'[work[w].job],
           Moved(w), Busy(w)' => Sound(w)'
    PROVE  IInv'
<1>1. PICK j \in Jobs : j = work[w].job
  BY BusyFacts
<1>2. CountedAt(j)' /\ SettledAt(j)'
  BY <1>1, BusyFacts DEF CountedAt, SettledAt, Leased, Recorded
<1>3. Touches(w, j)
  BY <1>1 DEF Touches, Moved
<1>4. \A v \in Workers : v # w => ~ Busy(v)
  BY BusyFacts
<1> QED
  BY <1>1, <1>2, <1>3, <1>4, LocalStep

LEMMA BeginStep ==
    ASSUME IInv, NEW w \in Workers, Begin(w)
    PROVE  IInv'
<1>1. Busy(w) /\ At(w, "check")
  BY BusyWork DEF IInv, Begin, At
<1>2. PICK j \in Jobs : j = work[w].job
  BY <1>1, BusyFacts
<1>3. \/ Goto(w, "live")
      \/ Settle(w, "missing")
  <2>1. work[w] \in Work
    BY <1>1, BusyFacts
  <2> QED
    BY <2>1, <1>1, BusyFacts DEF Begin, Goto, Settle, TypeOK
<1>4. /\ Moved(w)
      /\ work'[w].job = j /\ work'[w].num = work[w].num
      /\ \/ work'[w].at = "live"
         \/ work'[w].at = "renew" /\ work'[w].option = "missing"
  BY <1>1, <1>2, <1>3, BusyFacts, GotoWork, SettleWork DEF Stages, Records
<1>5. TypeOK'
  BY <1>1, <1>4, BusyFacts DEF Begin, Moved, TypeOK
<1>6. ~ Recorded(j, work[w].num)
  BY <1>1, <1>2, BusyFacts DEF Begin, Exhausted, Sound, Numbering, At, Numbers
<1>7. Sound(w)'
  BY <1>1, <1>2, <1>4, <1>6, BusyFacts
     DEF Begin, At, Sound, Held, Numbering, Evidenced, Holding, Owns, Recorded
<1> QED
  BY <1>1, <1>4, <1>5, <1>7, Untouched DEF Begin

LEMMA LiveSettledStep ==
    ASSUME IInv, NEW w \in Workers, LiveSettled(w) \/ History(w)
    PROVE  IInv'
<1>1. Busy(w) /\ work[w].at \in {"live", "history"}
  BY BusyWork DEF IInv, LiveSettled, History, At
<1>2. PICK j \in Jobs, option \in {"answered", "missing"} :
        j = work[w].job /\ Settle(w, option)
  BY <1>1, BusyFacts DEF LiveSettled, History
<1>3. UNCHANGED <<row, attempts, evidence, phase, launches, hurt, faults>>
  BY DEF LiveSettled, History
<1> QED
  <2>1. /\ Moved(w)
        /\ work'[w].job = j /\ work'[w].num = work[w].num
        /\ work'[w].at = "renew" /\ work'[w].option # "none"
    BY <1>1, <1>2, BusyFacts, SettleWork DEF Records
  <2>2. TypeOK'
    BY <1>1, <1>3, <2>1, BusyFacts DEF Moved, TypeOK
  <2>3. Sound(w)'
    BY <1>1, <1>2, <1>3, <2>1, BusyFacts
       DEF Sound, Held, Numbering, Evidenced, Holding, Owns, Recorded
  <2> QED
    BY <1>1, <1>3, <2>1, <2>2, <2>3, Untouched

(* The handler, a death and the end of an attempt. *)
LEMMA RestStep ==
    ASSUME IInv, NEW w \in Workers, Busy(w), Rest(w), faults' \in 0 .. MaxFaults,
           UNCHANGED <<row, attempts, evidence, phase, launches, hurt>>
    PROVE  IInv'
<1>1. Moved(w) /\ ~ Busy(w)'
  BY RestWork DEF IInv
<1>2. TypeOK'
  BY <1>1, BusyFacts DEF Moved, TypeOK
<1> QED
  BY <1>1, <1>2, Untouched

LEMMA RaiseStep ==
    ASSUME IInv, NEW w \in Workers, Raise(w)
    PROVE  IInv'
<1>1. Busy(w) /\ work[w].at # "handle"
  BY DEF Raise, Busy, At
<1>2. PICK j \in Jobs, permanent \in BOOLEAN :
        /\ j = work[w].job
        /\ work' = [work EXCEPT ![w].at = "handle", ![w].permanent = permanent]
  BY <1>1, BusyFacts DEF Raise
<1> DEFINE x == [work[w] EXCEPT !.at = "handle", !.permanent = permanent]
<1>3. work' = [work EXCEPT ![w] = x]
  BY <1>1, <1>2, BusyFacts DEF TypeOK
<1>4. Moved(w) /\ work'[w].at = "handle" /\ work'[w].job = j /\ work'[w].num = work[w].num
  <2>1. x \in Work /\ x.at = "handle" /\ x.job = j /\ x.num = work[w].num
    BY <1>1, <1>2, BusyFacts DEF Work
  <2> HIDE DEF x
  <2> QED
    BY <1>1, <1>3, <2>1, BusyFacts, MovedWork
<1>5. faults' \in 0 .. MaxFaults /\ hurt' = [hurt EXCEPT ![j] = TRUE]
      /\ UNCHANGED <<row, attempts, evidence, phase, launches>>
  BY <1>1, <1>2, BusyFacts, CaptureAssumption DEF Raise, TypeOK
<1>6. TypeOK'
  BY <1>1, <1>4, <1>5, BusyFacts DEF Moved, TypeOK
<1>7. Sound(w)'
  BY <1>1, <1>2, <1>4, <1>5, BusyFacts
     DEF Sound, Held, Numbering, Evidenced, Holding, Owns, Recorded, TypeOK
<1> QED
  BY <1>1, <1>2, <1>4, <1>5, <1>6, <1>7, BusyFacts, Untouched DEF TypeOK

-----------------------------------------------------------------------------
(* The steps that finish an attempt. *)

LEMMA FinishStep ==
    ASSUME IInv, NEW w \in Workers, Busy(w), NEW j \in Jobs, j = work[w].job,
           NEW status \in {"retry", "complete", "failed"},
           NEW reason \in Reasons, NEW record \in Records,
           NEW outcome \in {"retry", "completed", "failed"},
           FinishAttempt(w, outcome, status, reason, record),
           status = "retry" => work[w].num < MaxAttempts,
           status = "complete" => record = evidence[j] /\ record # "none",
           status = "failed" => reason = "internal" /\ hurt[j],
           Rest(w) \/ Goto(w, "beat"),
           UNCHANGED <<evidence, phase, launches, hurt, faults>>
    PROVE  IInv'
<1>1. TypeOK
  BY DEF IInv
<1>2. /\ row' \in [Jobs -> Row]
      /\ \A k \in Jobs : k # j => row'[k] = row[k]
      /\ row'[j].status = status /\ row'[j].reason = reason /\ row'[j].record = record
      /\ attempts' \in [Jobs -> [Numbers -> {"none", "retry", "completed", "failed"}]]
      /\ \A k \in Jobs : k # j => attempts'[k] = attempts[k]
  BY <1>1, ClosedRow, FinishedAttempt
<1>3. /\ Moved(w)
      /\ Busy(w)' => work'[w].at = "beat" /\ work'[w].job = j
  BY <1>1, RestWork, GotoWork DEF Stages
<1>4. TypeOK'
  BY <1>1, <1>2, <1>3 DEF Moved, TypeOK
<1>5. CountedAt(j)'
  BY BusyFacts, CountedAfter DEF Sound
<1>6. SettledAt(j)'
  BY <1>2 DEF SettledAt
<1>7. Busy(w)' => Sound(w)'
  BY <1>2, <1>3 DEF Sound, Held, Numbering, Evidenced, Holding, Owns, Leased
<1>8. Touches(w, j)
  BY <1>2, <1>3 DEF Touches, Moved
<1> QED
  BY <1>4, <1>5, <1>6, <1>7, <1>8, BusyFacts, LocalStep

LEMMA FinishWithoutStep ==
    ASSUME IInv, NEW w \in Workers, At(w, "check"), Busy(w), NEW j \in Jobs, j = work[w].job,
           NEW status \in {"complete", "failed"},
           NEW reason \in Reasons, NEW record \in Records,
           FinishWithoutAttempt(w, status, reason, record),
           Recorded(j, work[w].num),
           status = "complete" => record = evidence[j] /\ record # "none",
           status = "failed" => reason = "exhausted" /\ evidence[j] = "none",
           Goto(w, "beat"),
           UNCHANGED <<evidence, phase, launches, hurt, faults>>
    PROVE  IInv'
<1>1. TypeOK
  BY DEF IInv
<1>2. /\ row' \in [Jobs -> Row]
      /\ \A k \in Jobs : k # j => row'[k] = row[k]
      /\ row'[j].status = status /\ row'[j].count = row[j].count
      /\ row'[j].reason = reason /\ row'[j].record = record
      /\ attempts' = attempts
  BY <1>1, ClosedRow DEF FinishWithoutAttempt
<1>3. Moved(w) /\ work'[w].at = "beat" /\ work'[w].job = j
  BY <1>1, GotoWork DEF Stages
<1>4. TypeOK'
  BY <1>1, <1>2, <1>3 DEF Moved, TypeOK
<1>5. CountedAt(j)'
  BY <1>2, BusyFacts DEF CountedAt, Leased, Recorded
<1>6. SettledAt(j)'
  BY <1>2, BusyFacts DEF SettledAt, Sound, Numbering, At
<1>7. Sound(w)'
  BY <1>2, <1>3 DEF Sound, Held, Numbering, Evidenced, Holding, Owns, Leased
<1>8. Touches(w, j)
  BY <1>2, <1>3 DEF Touches, Moved
<1> QED
  BY <1>4, <1>5, <1>6, <1>7, <1>8, BusyFacts, LocalStep

LEMMA RecoverStep ==
    ASSUME IInv, NEW w \in Workers, Recover(w)
    PROVE  IInv'
<1>1. Busy(w) /\ At(w, "check")
  BY BusyWork DEF IInv, Recover, At
<1>2. PICK j \in Jobs : j = work[w].job /\ evidence[j] \in Records /\ evidence[j] # "none"
  BY <1>1, BusyFacts DEF Recover, TypeOK
<1>3. /\ Goto(w, "beat")
      /\ UNCHANGED <<evidence, phase, launches, hurt, faults>>
  BY DEF Recover
<1>4. CASE Recorded(j, work[w].num)
  <2>1. FinishWithoutAttempt(w, "complete", "none", evidence[j])
    BY <1>2, <1>4 DEF Recover
  <2> QED
    BY <1>1, <1>2, <1>3, <1>4, <2>1, FinishWithoutStep DEF Reasons
<1>5. CASE ~ Recorded(j, work[w].num)
  <2>1. FinishAttempt(w, "completed", "complete", "none", evidence[j])
    BY <1>2, <1>5 DEF Recover
  <2> QED
    BY <1>1, <1>2, <1>3, <2>1, FinishStep DEF Reasons
<1> QED
  BY <1>4, <1>5

LEMMA GiveUpStep ==
    ASSUME IInv, NEW w \in Workers, GiveUp(w)
    PROVE  IInv'
<1>1. Busy(w) /\ At(w, "check")
  BY BusyWork DEF IInv, GiveUp, At
<1>2. PICK j \in Jobs : j = work[w].job
  BY <1>1, BusyFacts
<1>3. /\ FinishWithoutAttempt(w, "failed", "exhausted", "none")
      /\ Recorded(j, work[w].num) /\ evidence[j] = "none" /\ Goto(w, "beat")
      /\ UNCHANGED <<evidence, phase, launches, hurt, faults>>
  BY <1>2 DEF GiveUp, Exhausted
<1> QED
  BY <1>1, <1>2, <1>3, FinishWithoutStep DEF Reasons, Records

LEMMA FinishingStep ==
    ASSUME IInv, NEW w \in Workers, Finish(w)
    PROVE  IInv'
<1>1. Busy(w) /\ At(w, "finish")
  BY BusyWork DEF IInv, Finish, At
<1>2. PICK j \in Jobs, option \in Records, reason \in Reasons :
        /\ j = work[w].job /\ option = work[w].option
        /\ reason = IF work[w].option = "missing" THEN "option" ELSE "none"
  BY <1>1, BusyFacts DEF Reasons
<1>3. option = evidence[j] /\ option # "none"
  BY <1>1, <1>2, BusyFacts DEF Sound, Evidenced, At
<1>4. /\ FinishAttempt(w, "completed", "complete", reason, option) /\ Goto(w, "beat")
      /\ UNCHANGED <<evidence, phase, launches, hurt, faults>>
  BY <1>2 DEF Finish
<1> QED
  BY <1>1, <1>2, <1>3, <1>4, FinishStep

LEMMA HandleStep ==
    ASSUME IInv, NEW w \in Workers, HandleRetry(w) \/ HandleTerminal(w)
    PROVE  IInv'
<1>1. Busy(w) /\ At(w, "handle")
  BY BusyWork DEF IInv, HandleRetry, HandleTerminal, At
<1>2. PICK j \in Jobs : j = work[w].job
  BY <1>1, BusyFacts
<1>3. hurt[j]
  BY <1>1, <1>2, BusyFacts DEF Sound, Evidenced, At
<1>4. Rest(w) /\ UNCHANGED <<evidence, phase, launches, hurt, faults>>
  BY DEF HandleRetry, HandleTerminal
<1>5. CASE HandleRetry(w)
  <2>1. FinishAttempt(w, "retry", "retry", "internal", "none") /\ work[w].num < MaxAttempts
    BY <1>5 DEF HandleRetry, CanRetry
  <2> QED
    BY <1>1, <1>2, <1>4, <2>1, FinishStep DEF Reasons, Records
<1>6. CASE HandleTerminal(w)
  <2>1. FinishAttempt(w, "failed", "failed", "internal", "none")
    BY <1>6 DEF HandleTerminal
  <2> QED
    BY <1>1, <1>2, <1>3, <1>4, <2>1, FinishStep DEF Reasons, Records
<1> QED
  BY <1>5, <1>6

LEMMA LiveRetryableStep ==
    ASSUME IInv, NEW w \in Workers, LiveRetryable(w)
    PROVE  IInv'
<1>1. Busy(w) /\ At(w, "live") /\ UNCHANGED <<evidence, phase, launches, hurt, faults>>
  BY BusyWork DEF IInv, LiveRetryable, At
<1>2. PICK j \in Jobs : j = work[w].job
  BY <1>1, BusyFacts
<1>3. CASE CanRetry(w)
  <2>1. /\ FinishAttempt(w, "retry", "retry", "option", "none") /\ Goto(w, "beat")
        /\ work[w].num < MaxAttempts
    BY <1>3 DEF LiveRetryable, CanRetry
  <2> QED
    BY <1>1, <1>2, <2>1, FinishStep DEF Reasons, Records
<1>4. CASE ~ CanRetry(w)
  <2>1. LiveSettled(w)
    BY <1>1, <1>4 DEF LiveRetryable, LiveSettled
  <2> QED
    BY <2>1, LiveSettledStep
<1> QED
  BY <1>3, <1>4

-----------------------------------------------------------------------------
(* The steps that hold the lease. *)

LEMMA RenewStep ==
    ASSUME IInv, NEW w \in Workers, Renew(w) \/ VenueClosed(w)
    PROVE  IInv'
<1>1. /\ Busy(w) /\ work[w].at \in {"live", "renew"} /\ Owns(w)
      /\ UNCHANGED <<attempts, evidence, phase, hurt, faults>>
  BY BusyWork DEF IInv, Renew, VenueClosed, At
<1>2. PICK j \in Jobs : j = work[w].job
  BY <1>1, BusyFacts
<1>3. row' = [row EXCEPT ![j].expired = FALSE] /\ row[j] \in Row /\ row \in [Jobs -> Row]
  BY <1>1, <1>2, BusyFacts DEF Renew, VenueClosed, TypeOK
<1>4. /\ row' \in [Jobs -> Row]
      /\ \A k \in Jobs : k # j => row'[k] = row[k]
      /\ row'[j].status = row[j].status /\ row'[j].count = row[j].count
      /\ row'[j].owner = row[j].owner
  <2> DEFINE r == [row[j] EXCEPT !.expired = FALSE]
  <2>1. r \in Row /\ r.status = row[j].status /\ r.count = row[j].count /\ r.owner = row[j].owner
    BY <1>3 DEF Row
  <2>2. row' = [row EXCEPT ![j] = r]
    BY <1>3
  <2> HIDE DEF r
  <2> QED
    BY <1>3, <2>1, <2>2
<1>5. /\ Moved(w)
      /\ work'[w].job = j /\ work'[w].num = work[w].num /\ work'[w].option = work[w].option
      /\ \/ work[w].at = "live" /\ work'[w].at = "history"
         \/ work[w].at = "renew" /\ work'[w].at = "append"
  <2>1. \/ work[w].at = "live" /\ Goto(w, "history")
        \/ work[w].at = "renew" /\ Goto(w, "append")
    BY DEF Renew, VenueClosed, At
  <2> QED
    BY <1>1, <1>2, <2>1, BusyFacts, GotoWork DEF Stages
<1>6. launches' \in [Jobs -> 0 .. 2]
  BY <1>1, <1>2, BusyFacts DEF Renew, VenueClosed, TypeOK
<1>7. TypeOK'
  BY <1>1, <1>4, <1>5, <1>6, BusyFacts DEF Moved, TypeOK
<1>8. CountedAt(j)'
  BY <1>1, <1>2, <1>4, BusyFacts DEF CountedAt, Leased, Recorded
<1>9. SettledAt(j)'
  BY <1>1, <1>2, <1>4 DEF SettledAt, Owns
<1>10. Sound(w)'
  BY <1>1, <1>2, <1>4, <1>5, BusyFacts
     DEF Sound, Held, Numbering, Evidenced, Holding, Owns, Recorded
<1>11. Touches(w, j)
  BY <1>1, <1>4, <1>5 DEF Touches, Moved
<1> QED
  BY <1>1, <1>7, <1>8, <1>9, <1>10, <1>11, BusyFacts, LocalStep

LEMMA AppendStep ==
    ASSUME IInv, NEW w \in Workers, AppendSnapshot(w)
    PROVE  IInv'
<1>1. Busy(w) /\ work[w].at = "append" /\ UNCHANGED <<row, attempts, phase, launches, hurt, faults>>
  BY BusyWork DEF IInv, AppendSnapshot, At
<1>2. PICK j \in Jobs : j = work[w].job
  BY <1>1, BusyFacts
<1>3. /\ Owns(w) /\ ~ Recorded(j, work[w].num) /\ evidence[j] = "none"
      /\ work[w].option \in Records /\ work[w].option # "none"
  BY <1>1, <1>2, BusyFacts DEF Sound, Held, Numbering, Evidenced, Holding
<1>4. evidence' = [evidence EXCEPT ![j] = work[w].option] /\ evidence \in [Jobs -> Records]
  BY <1>1, <1>2, BusyFacts DEF AppendSnapshot, TypeOK
<1>5. /\ Moved(w) /\ work'[w].at = "finish" /\ work'[w].job = j
      /\ work'[w].num = work[w].num /\ work'[w].option = work[w].option
  BY <1>1, <1>2, BusyFacts, GotoWork DEF AppendSnapshot, Stages
<1>6. TypeOK'
  BY <1>1, <1>3, <1>4, <1>5, BusyFacts DEF Moved, TypeOK
<1>7. CountedAt(j)' /\ SettledAt(j)'
  BY <1>1, <1>2, <1>3, BusyFacts DEF CountedAt, SettledAt, Leased, Recorded, Owns
<1>8. Sound(w)'
  BY <1>1, <1>2, <1>3, <1>4, <1>5, BusyFacts
     DEF Sound, Held, Numbering, Evidenced, Holding, Owns, Recorded
<1>9. Touches(w, j)
  BY <1>1, <1>4, <1>5 DEF Touches, Moved
<1> QED
  BY <1>1, <1>6, <1>7, <1>8, <1>9, BusyFacts, LocalStep

-----------------------------------------------------------------------------
(* Claims. *)

(* The sweep fails only jobs outside the window: a job with no attempt left is never put  *)
(* back among those that wait.                                                            *)
LEMMA SweptRow ==
    ASSUME IInv, NEW j \in Jobs
    PROVE  /\ Swept(j) \in Row
           /\ \/ Swept(j) = row[j]
              \/ j \in Outside /\ Swept(j).status = "failed" /\ Swept(j).reason = "outside"
                   /\ Swept(j).count = row[j].count
<1>1. row[j] \in Row /\ CountedAt(j)
  BY DEF IInv, TypeOK
<1>2. ~ (Waiting(row[j]) /\ row[j].count >= MaxAttempts)
  BY <1>1, CaptureAssumption DEF CountedAt, Waiting, Row
<1>3. \/ Swept(j) = row[j]
      \/ j \in Outside /\ Swept(j) = Failed(row[j], "outside")
  BY <1>2 DEF Swept
<1>4. /\ Failed(row[j], "outside") \in Row
      /\ Failed(row[j], "outside").status = "failed"
      /\ Failed(row[j], "outside").reason = "outside"
      /\ Failed(row[j], "outside").count = row[j].count
  BY <1>1 DEF Failed, Row, Settled, Nobody, Reasons
<1> QED
  BY <1>1, <1>3, <1>4

(* What the sweep leaves of a job is as it should be. *)
LEMMA SweptSound ==
    ASSUME IInv, NEW k \in Jobs, row'[k] = Swept(k),
           UNCHANGED <<attempts, evidence, hurt>>
    PROVE  CountedAt(k)' /\ SettledAt(k)'
<1>1. CountedAt(k) /\ SettledAt(k)
  BY DEF IInv
<1>2. CASE Swept(k) = row[k]
  BY <1>1, <1>2 DEF CountedAt, SettledAt, Leased, Recorded
<1>3. CASE /\ k \in Outside /\ Swept(k).status = "failed" /\ Swept(k).reason = "outside"
           /\ Swept(k).count = row[k].count
  BY <1>1, <1>3 DEF CountedAt, SettledAt, Leased, Recorded
<1> QED
  BY <1>2, <1>3, SweptRow

(* The number of a claim is one of the attempts, and is on record only for the last       *)
(* attempt of a job an earlier release left behind.                                       *)
LEMMA ClaimNumber ==
    ASSUME IInv, NEW j \in Claimable
    PROVE  /\ j \in Jobs /\ Swept(j) = row[j] /\ row[j].status \in Unsettled
           /\ NextNumber(j) \in Numbers
           /\ Recorded(j, NextNumber(j)) => NextNumber(j) = MaxAttempts /\ j \in Upgraded
           /\ \A n \in Numbers : n > NextNumber(j) => ~ Recorded(j, n)
<1>1. j \in Jobs /\ row[j] \in Row /\ CountedAt(j)
  BY DEF IInv, TypeOK, Claimable
<1>2. Swept(j) = row[j]
  BY <1>1, SweptRow DEF Claimable, Waiting, RunOut
<1>3. CASE Waiting(row[j])
  <2>1. NextNumber(j) = row[j].count + 1 /\ row[j].count \in 0 .. MaxAttempts - 1
    BY <1>1, <1>3, CaptureAssumption DEF NextNumber, CountedAt, Waiting, Row
  <2>2. NextNumber(j) \in Numbers /\ NextNumber(j) > row[j].count
    BY <2>1, CaptureAssumption DEF Numbers
  <2>3. \A n \in Numbers : n >= NextNumber(j) => ~ Recorded(j, n)
    BY <1>1, <2>1, CaptureAssumption DEF CountedAt, Numbers
  <2> QED
    BY <1>1, <1>2, <1>3, <2>2, <2>3, CaptureAssumption DEF Numbers, Waiting, Unsettled
<1>4. CASE RunOut(row[j])
  <2>1. row[j].count \in Numbers /\ Leased(j)
    BY <1>1, <1>4 DEF CountedAt, RunOut, Leased
  <2>2. CASE Recorded(j, row[j].count) /\ row[j].count < MaxAttempts
    <3>1. NextNumber(j) = row[j].count + 1 /\ NextNumber(j) \in Numbers
      BY <2>1, <2>2, CaptureAssumption DEF NextNumber, Numbers
    <3>2. \A n \in Numbers : n >= NextNumber(j) => ~ Recorded(j, n)
      BY <1>1, <2>1, <3>1, CaptureAssumption DEF CountedAt, Numbers
    <3> QED
      BY <1>1, <1>2, <1>4, <3>1, <3>2, CaptureAssumption DEF Numbers, RunOut, Unsettled
  <2>3. CASE ~ (Recorded(j, row[j].count) /\ row[j].count < MaxAttempts)
    <3>1. NextNumber(j) = row[j].count
      BY <1>4, <2>3 DEF NextNumber, Waiting, RunOut
    <3> QED
      BY <1>1, <1>2, <1>4, <2>1, <2>3, <3>1, CaptureAssumption
         DEF CountedAt, Numbers, RunOut, Unsettled
  <2> QED
    BY <2>2, <2>3
<1> QED
  BY <1>1, <1>2, <1>3, <1>4 DEF Claimable

LEMMA NobodyBusy ==
    ASSUME TypeOK, MutexFree
    PROVE  \A v \in Workers : ~ Busy(v)
BY BusyWork DEF MutexFree, At

LEMMA ClaimStep ==
    ASSUME IInv, NEW w \in Workers, Claim(w)
    PROVE  IInv'
<1> USE DEF Claim
<1>1. /\ TypeOK /\ \A v \in Workers : ~ Busy(v)
      /\ UNCHANGED <<attempts, evidence, phase, launches, hurt, faults>>
  BY NobodyBusy DEF IInv
<1> DEFINE taken(j) == [Swept(j) EXCEPT !.status = "leased", !.count = NextNumber(j),
                                        !.owner = w, !.expired = FALSE]
           task(j) == [at |-> "check", job |-> j, num |-> NextNumber(j),
                       option |-> "none", permanent |-> FALSE]
<1>2. PICK j \in Claimable :
        /\ row' = [[k \in Jobs |-> Swept(k)] EXCEPT ![j] = taken(j)]
        /\ work' = [work EXCEPT ![w] = task(j)]
  <2>1. PICK j \in First(Claimable) :
          /\ row' = [[k \in Jobs |-> Swept(k)] EXCEPT
                 ![j] = [@ EXCEPT !.status = "leased", !.count = NextNumber(j),
                                  !.owner = w, !.expired = FALSE]]
          /\ work' = [work EXCEPT ![w] = task(j)]
    OBVIOUS
  <2>2. j \in Claimable /\ j \in Jobs
    BY <2>1 DEF First, Claimable
  <2>3. row' = [[k \in Jobs |-> Swept(k)] EXCEPT ![j] = taken(j)]
    BY <2>1, <2>2
  <2> QED
    BY <2>1, <2>2, <2>3
<1>3. /\ j \in Jobs /\ NextNumber(j) \in Numbers
      /\ Recorded(j, NextNumber(j)) => NextNumber(j) = MaxAttempts /\ j \in Upgraded
      /\ \A n \in Numbers : n > NextNumber(j) => ~ Recorded(j, n)
  BY <1>2, ClaimNumber
<1>4. /\ taken(j) \in Row /\ taken(j).status = "leased" /\ taken(j).owner = w
      /\ taken(j).count = NextNumber(j)
  <2>1. Swept(j) \in Row
    BY <1>3, SweptRow
  <2>2. NextNumber(j) \in 0 .. MaxAttempts
    BY <1>3, CaptureAssumption DEF Numbers
  <2> QED
    BY <2>1, <2>2 DEF Row, Unsettled
<1>5. task(j) \in Work /\ task(j).at = "check" /\ task(j).job = j /\ task(j).num = NextNumber(j)
  BY <1>3 DEF Work, Records
<1> HIDE DEF taken, task
<1>6. /\ row' \in [Jobs -> Row] /\ row'[j] = taken(j)
      /\ \A k \in Jobs : k # j => row'[k] = Swept(k)
  BY <1>2, <1>3, <1>4, SweptRow
<1>7. Moved(w) /\ work'[w] = task(j)
  BY <1>1, <1>2, <1>5, MovedWork
<1>8. TypeOK'
  BY <1>1, <1>6, <1>7 DEF Moved, TypeOK
<1>9. \A k \in Jobs : (CountedAt(k) /\ SettledAt(k))'
  <2> SUFFICES ASSUME NEW k \in Jobs PROVE CountedAt(k)' /\ SettledAt(k)'
    OBVIOUS
  <2>1. CASE k = j
    BY <1>1, <1>3, <1>4, <1>6, <2>1 DEF CountedAt, SettledAt, Leased, Recorded
  <2>2. CASE k # j
    BY <1>1, <1>6, <2>2, SweptSound
  <2> QED
    BY <2>1, <2>2
<1>10. \A v \in Workers : Busy(v)' => v = w
  BY <1>1, <1>7 DEF Moved, Busy
<1>11. Sound(w)'
  BY <1>1, <1>3, <1>4, <1>5, <1>6, <1>7
     DEF Sound, Held, Numbering, Evidenced, Holding, Owns, Recorded, Leased
<1> QED
  BY <1>8, <1>9, <1>10, <1>11 DEF IInv, Alone

LEMMA ClaimNothingStep ==
    ASSUME IInv, NEW w \in Workers, ClaimNothing(w)
    PROVE  IInv'
<1>1. /\ TypeOK /\ \A v \in Workers : ~ Busy(v)
      /\ UNCHANGED <<attempts, evidence, phase, work, launches, hurt, faults>>
  BY NobodyBusy DEF IInv, ClaimNothing
<1>2. row' \in [Jobs -> Row] /\ \A k \in Jobs : row'[k] = Swept(k)
  BY SweptRow DEF ClaimNothing
<1>3. TypeOK'
  BY <1>1, <1>2 DEF TypeOK
<1>4. \A k \in Jobs : (CountedAt(k) /\ SettledAt(k))'
  <2> SUFFICES ASSUME NEW k \in Jobs PROVE CountedAt(k)' /\ SettledAt(k)'
    OBVIOUS
  <2> QED
    BY <1>1, <1>2, SweptSound
<1>5. \A v \in Workers : ~ Busy(v)'
  BY <1>1 DEF Busy
<1> QED
  BY <1>3, <1>4, <1>5 DEF IInv, Alone

-----------------------------------------------------------------------------
(* Time and the whole next-state relation. *)

LEMMA TimeStep ==
    ASSUME IInv, NEW j \in Jobs, Time(j)
    PROVE  IInv'
<1>1. TypeOK
  BY DEF IInv
<1>2. CASE DelayPasses(j) \/ DeadlinePasses(j)
  <2>1. /\ phase' \in [Jobs -> {"early", "open", "late"}]
        /\ UNCHANGED <<row, attempts, evidence, work, launches, hurt, faults>>
    BY <1>1, <1>2 DEF DelayPasses, DeadlinePasses, TypeOK
  <2> QED
    BY <2>1 DEF IInv, TypeOK, Alone, Busy, CountedAt, SettledAt, Leased, Recorded, Sound,
                Held, Numbering, Evidenced, Owns
<1>3. CASE LeaseRunsOut(j)
  <2>1. /\ row' \in [Jobs -> Row]
        /\ \A k \in Jobs :
             /\ row'[k].status = row[k].status /\ row'[k].count = row[k].count
             /\ row'[k].owner = row[k].owner /\ row'[k].reason = row[k].reason
             /\ row'[k].record = row[k].record
    <3> DEFINE r == [row[j] EXCEPT !.expired = TRUE]
    <3>1. row[j] \in Row
      BY <1>1 DEF TypeOK
    <3>2. /\ r \in Row /\ r.status = row[j].status /\ r.count = row[j].count
          /\ r.owner = row[j].owner /\ r.reason = row[j].reason /\ r.record = row[j].record
      BY <3>1 DEF Row
    <3>3. row' = [row EXCEPT ![j] = r] /\ row \in [Jobs -> Row]
      BY <1>1, <1>3 DEF LeaseRunsOut, TypeOK
    <3> HIDE DEF r
    <3> QED
      BY <3>2, <3>3
  <2>2. UNCHANGED <<attempts, evidence, phase, work, launches, hurt, faults>>
    BY <1>3 DEF LeaseRunsOut
  <2>3. TypeOK'
    BY <1>1, <2>1, <2>2 DEF TypeOK
  <2>4. \A k \in Jobs : (CountedAt(k) /\ SettledAt(k))'
    BY <2>1, <2>2 DEF IInv, CountedAt, SettledAt, Leased, Recorded
  <2>5. \A w \in Workers : Busy(w)' => Sound(w)'
    BY <1>1, <2>1, <2>2, BusyFacts
       DEF IInv, Busy, Sound, Held, Numbering, Evidenced, Owns, Leased, Recorded
  <2> QED
    BY <2>2, <2>3, <2>4, <2>5 DEF IInv, Alone, Busy
<1> QED
  BY <1>2, <1>3 DEF Time

LEMMA InitInv == Init => IInv
<1> SUFFICES ASSUME Init PROVE IInv
  OBVIOUS
<1>1. PICK n \in [Upgraded -> Numbers] :
        /\ row = [j \in Jobs |-> IF j \in Upgraded THEN LeftRow(n[j]) ELSE FreshRow]
        /\ attempts = [j \in Jobs |-> [i \in Numbers |->
               IF j \in Upgraded /\ i <= n[j] THEN "retry" ELSE "none"]]
  BY DEF Init
<1>2. FreshRow \in Row
  BY CaptureAssumption DEF FreshRow, Row, Unsettled, Nobody, Reasons, Records
<1>3. \A j \in Upgraded : LeftRow(n[j]) \in Row /\ LeftRow(n[j]).status = "leased"
                            /\ LeftRow(n[j]).count = n[j]
  <2> SUFFICES ASSUME NEW j \in Upgraded
               PROVE  LeftRow(n[j]) \in Row /\ LeftRow(n[j]).status = "leased"
                        /\ LeftRow(n[j]).count = n[j]
    OBVIOUS
  <2>1. n[j] \in 0 .. MaxAttempts
    BY CaptureAssumption DEF Numbers
  <2> QED
    BY <1>2, <2>1 DEF LeftRow, FreshRow, Row, Unsettled
<1>4. row \in [Jobs -> Row]
  BY <1>1, <1>2, <1>3
<1>5. attempts \in [Jobs -> [Numbers -> {"none", "retry", "completed", "failed"}]]
  BY <1>1
<1>6. TypeOK
  BY <1>4, <1>5, CaptureAssumption DEF Init, TypeOK
<1>7. \A j \in Jobs : CountedAt(j) /\ SettledAt(j)
  <2> SUFFICES ASSUME NEW j \in Jobs PROVE CountedAt(j) /\ SettledAt(j)
    OBVIOUS
  <2>1. CASE j \in Upgraded
    <3>1. row[j].status = "leased" /\ row[j].count = n[j] /\ n[j] \in Numbers
      BY <1>1, <1>3, <2>1
    <3>2. \A i \in Numbers : i > n[j] => attempts[j][i] = "none"
      BY <1>1, <2>1, CaptureAssumption DEF Numbers
    <3> QED
      BY <2>1, <3>1, <3>2 DEF CountedAt, SettledAt, Leased, Recorded
  <2>2. CASE j \notin Upgraded
    <3>1. row[j].status = "pending" /\ row[j].count = 0
      BY <1>1, <2>2 DEF FreshRow
    <3>2. \A i \in Numbers : attempts[j][i] = "none"
      BY <1>1, <2>2
    <3> QED
      BY <3>1, <3>2 DEF CountedAt, SettledAt, Leased, Recorded
  <2> QED
    BY <2>1, <2>2
<1>8. \A w \in Workers : ~ Busy(w)
  BY DEF Init, Busy
<1> QED
  BY <1>6, <1>7, <1>8 DEF IInv, Alone

LEMMA NextInv == IInv /\ [Next]_vars => IInv'
<1> SUFFICES ASSUME IInv, [Next]_vars PROVE IInv'
  OBVIOUS
<1>1. ASSUME NEW w \in Workers, Process(w) PROVE IInv'
  <2>1. CASE Heartbeat(w)
    <3>1. Busy(w) /\ Rest(w) /\ faults' \in 0 .. MaxFaults
      BY <2>1, BusyWork DEF IInv, Heartbeat, At, TypeOK
    <3> QED
      BY <2>1, <3>1, RestStep DEF Heartbeat
  <2> QED
    BY <1>1, <2>1, RecoverStep, GiveUpStep, BeginStep, LiveSettledStep, LiveRetryableStep,
       RenewStep, AppendStep, FinishingStep DEF Process
<1>2. ASSUME NEW w \in Workers, Handle(w) PROVE IInv'
  <2>1. CASE HandleRefused(w)
    <3>1. Busy(w) /\ Rest(w) /\ faults' \in 0 .. MaxFaults
      BY <2>1, BusyWork DEF IInv, HandleRefused, At, TypeOK
    <3> QED
      BY <2>1, <3>1, RestStep DEF HandleRefused
  <2> QED
    BY <1>2, <2>1, HandleStep DEF Handle
<1>3. ASSUME NEW w \in Workers, Die(w) PROVE IInv'
  <2>1. Busy(w) /\ Rest(w) /\ faults' \in 0 .. MaxFaults
    BY <1>3, CaptureAssumption DEF IInv, Die, Busy, TypeOK
  <2> QED
    BY <1>3, <2>1, RestStep DEF Die
<1>4. CASE UNCHANGED vars
  BY <1>4 DEF vars, IInv, TypeOK, Alone, Busy, CountedAt, SettledAt, Leased, Recorded, Sound,
              Held, Numbering, Evidenced, Owns
<1> QED
  BY <1>1, <1>2, <1>3, <1>4, ClaimStep, ClaimNothingStep, RaiseStep, TimeStep DEF Next

LEMMA Invariance == Spec => []IInv
<1> QED
  BY InitInv, NextInv, PTL DEF Spec

-----------------------------------------------------------------------------
(* Theorems. *)

(* Every row, attempt, snapshot and process keeps its type; in particular no attempt is   *)
(* ever numbered beyond config.max_attempts, in memory or in the table that checks it.    *)
THEOREM TypeCorrect == Spec => []TypeOK
<1>1. IInv => TypeOK
  BY DEF IInv
<1> QED
  BY <1>1, Invariance, PTL

(* _artifact_process_mutex and the owner's clause of every update: a process that still   *)
(* works on a job owns its lease, alone and under the number it claimed, and has not used *)
(* that number, though the lease it was given may have run out many times over.           *)
THEOREM LeaseHeld == Spec => []LeaseNeverLost
<1>1. IInv => LeaseNeverLost
  <2> SUFFICES ASSUME IInv, NEW w \in Workers, work[w].at \in Holding
               PROVE  /\ Owns(w)
                      /\ row[work[w].job].count = work[w].num
                      /\ Recorded(work[w].job, work[w].num) => At(w, "check")
                      /\ \A v \in Workers : work[v] # NoWork => v = w
    BY DEF LeaseNeverLost
  <2>1. Busy(w)
    BY BusyWork DEF IInv, Holding
  <2> QED
    BY <2>1, BusyFacts DEF Sound, Held, Numbering, At, Busy
<1> QED
  BY <1>1, Invariance, PTL

(* _process_claimed_job adopts the snapshot of an earlier attempt before anything else,   *)
(* so the option market is asked, and a snapshot appended, only for a job that has none.  *)
THEOREM MarketAsked == Spec => []MarketAskedOnce
<1>1. IInv => MarketAskedOnce
  <2> SUFFICES ASSUME IInv, NEW w \in Workers,
                      work[w].at \in {"live", "history", "renew", "append"}
               PROVE  evidence[work[w].job] = "none"
    BY DEF MarketAskedOnce
  <2>1. Busy(w)
    BY BusyWork DEF IInv
  <2> QED
    BY <2>1, BusyFacts DEF Sound, Evidenced
<1> QED
  BY <1>1, Invariance, PTL

(* A settled job, which a trigger of the queue freezes, is settled truly: complete with   *)
(* the digest of its snapshot, or failed for the reason on record.                        *)
THEOREM Settlement == Spec => []SettledTruly
<1>1. IInv => SettledTruly
  BY DEF IInv, SettledTruly, SettledAt
<1> QED
  BY <1>1, Invariance, PTL

(* _claim_job's sweep of exhausted jobs is dead code for rows of this release: a job goes *)
(* back to retry only with an attempt to spare and the last one on record.                *)
THEOREM Retries == Spec => []RetryAffordable
<1>1. IInv => RetryAffordable
  BY DEF IInv, RetryAffordable, CountedAt
<1> QED
  BY <1>1, Invariance, PTL

-----------------------------------------------------------------------------
(* Historical requests: while nothing has gone wrong, a job with a request behind it is   *)
(* complete or is being worked on, past the point where its attempt could be retried.     *)

Pursued(w, j) == work[w].job = j /\ work[w].at \in {"history", "renew", "append", "finish"}

Launched(j) ==
    \/ launches[j] = 0
    \/ launches[j] = 1 /\ (row[j].status = "complete" \/ \E w \in Workers : Pursued(w, j))

Accounted == faults = 0 => \A j \in Jobs : Launched(j)

(* Only a busy process pursues a job, so beside it every launched job is complete. *)
LEMMA Beside ==
    ASSUME IInv, NEW w \in Workers, NEW k \in Jobs, Launched(k),
           \A v \in Workers : v # w => ~ Busy(v),
           ~ Pursued(w, k)
    PROVE  launches[k] = 0 \/ (launches[k] = 1 /\ row[k].status = "complete")
<1>1. TypeOK
  BY DEF IInv
<1>2. \A v \in Workers : ~ Pursued(v, k)
  BY <1>1, BusyWork DEF Pursued
<1> QED
  BY <1>2 DEF Launched

(* So a step of that process concerns its own job alone. *)
LEMMA AccountedStep ==
    ASSUME IInv, Accounted, NEW w \in Workers, Busy(w), NEW j \in Jobs, j = work[w].job,
           \A k \in Jobs : k # j => row'[k] = row[k] /\ launches'[k] = launches[k],
           faults' = faults,
           faults = 0 => Launched(j)'
    PROVE  Accounted'
<1> SUFFICES ASSUME faults' = 0, NEW k \in Jobs, k # j PROVE Launched(k)'
  BY DEF Accounted
<1>1. launches[k] = 0 \/ (launches[k] = 1 /\ row[k].status = "complete")
  BY BusyFacts, Beside DEF Accounted, Pursued
<1> QED
  BY <1>1 DEF Launched

(* A step before the request, or after the attempt: the job is not launched, or complete. *)
LEMMA AccountedApart ==
    ASSUME IInv, Accounted, NEW w \in Workers, Busy(w),
           work[w].at \notin {"history", "renew", "append", "finish"},
           NEW j \in Jobs, j = work[w].job,
           \A k \in Jobs : k # j => row'[k] = row[k],
           Owns(w) \/ row'[j] = row[j],
           UNCHANGED <<launches, faults>>
    PROVE  Accounted'
<1>1. faults = 0 => launches[j] = 0 \/ (launches[j] = 1 /\ row[j].status = "complete")
  BY BusyFacts, Beside DEF Accounted, Pursued
<1>2. faults = 0 => Launched(j)'
  BY <1>1 DEF Launched, Owns
<1> QED
  BY <1>2, AccountedStep

(* A step between the request and the snapshot. *)
LEMMA AccountedPursued ==
    ASSUME IInv, Accounted, NEW w \in Workers, Busy(w), NEW j \in Jobs, j = work[w].job,
           work[w].at \in {"history", "renew", "append", "finish"} \/ launches[j] = 0,
           \A k \in Jobs : k # j => row'[k] = row[k],
           row'[j].status = "complete" \/ Pursued(w, j)',
           UNCHANGED <<launches, faults>>
    PROVE  Accounted'
<1>1. faults = 0 => launches[j] \in {0, 1}
  BY DEF Accounted, Launched
<1>2. CASE launches[j] = 0
  <2>1. Launched(j)'
    BY <1>2 DEF Launched
  <2> QED
    BY <2>1, AccountedStep
<1>3. CASE launches[j] = 1
  <2>1. launches'[j] = 1 /\ (row'[j].status = "complete" \/ \E v \in Workers : Pursued(v, j)')
    BY <1>3
  <2>2. Launched(j)'
    BY <2>1 DEF Launched
  <2> QED
    BY <2>2, AccountedStep
<1>4. CASE faults # 0
  BY <1>4 DEF Accounted
<1> QED
  BY <1>1, <1>2, <1>3, <1>4

LEMMA AccountedClaim ==
    ASSUME IInv, Accounted, NEW w \in Workers, Claim(w) \/ ClaimNothing(w)
    PROVE  Accounted'
<1> SUFFICES ASSUME faults = 0, NEW k \in Jobs PROVE Launched(k)'
  BY DEF Accounted, Claim, ClaimNothing
<1>1. TypeOK /\ \A v \in Workers : ~ Busy(v)
  BY NobodyBusy DEF IInv, Claim, ClaimNothing
<1>2. launches[k] = 0 \/ (launches[k] = 1 /\ row[k].status = "complete")
  BY <1>1, BusyWork, Beside DEF Accounted, Pursued
<1>3. launches' = launches
  BY DEF Claim, ClaimNothing
<1>4. CASE row[k].status = "complete"
  <2>1. Swept(k) = row[k] /\ k \notin Claimable
    BY <1>4 DEF Swept, Claimable, Waiting, RunOut
  <2>2. row'[k] = row[k]
    BY <2>1 DEF Claim, ClaimNothing, First
  <2> QED
    BY <1>2, <1>3, <2>2 DEF Launched
<1> QED
  BY <1>2, <1>3, <1>4 DEF Launched

LEMMA AccountedTime ==
    ASSUME IInv, Accounted, NEW j \in Jobs, Time(j)
    PROVE  Accounted'
<1>1. UNCHANGED <<work, launches, faults>>
  BY DEF Time, DelayPasses, DeadlinePasses, LeaseRunsOut
<1>2. ASSUME NEW k \in Jobs, row[k].status = "complete" PROVE row'[k].status = "complete"
  BY <1>2 DEF Time, DelayPasses, DeadlinePasses, LeaseRunsOut, IInv, TypeOK
<1> QED
  BY <1>1, <1>2 DEF Accounted, Launched, Pursued

LEMMA AccountedProcess ==
    ASSUME IInv, Accounted, NEW w \in Workers, Process(w) \/ Handle(w)
    PROVE  Accounted'
<1>1. Busy(w)
  BY BusyWork DEF IInv, Process, Handle, Recover, GiveUp, Begin, LiveSettled, LiveRetryable,
     VenueClosed, History, Renew, AppendSnapshot, Finish, Heartbeat, HandleRetry,
     HandleTerminal, HandleRefused, At
<1>2. PICK j \in Jobs : j = work[w].job
  BY <1>1, BusyFacts
<1>3. TypeOK /\ row \in [Jobs -> Row]
  BY DEF IInv, TypeOK
<1>4. ~ (work[w].at \in {"history", "renew", "append", "finish"}) /\ Owns(w) /\ faults = 0 =>
        launches[j] = 0
  BY <1>1, <1>2, BusyFacts, Beside DEF Accounted, Pursued, Owns
<1>5. ASSUME NEW status, NEW reason, NEW record, Closed(w, status, reason, record)
      PROVE  Owns(w) /\ \A k \in Jobs : k # j => row'[k] = row[k]
  BY <1>2, <1>3, <1>5 DEF Closed
<1>6. CASE Recover(w) \/ GiveUp(w) \/ Handle(w) \/ Heartbeat(w)
  <2>1. /\ work[w].at \notin {"history", "renew", "append", "finish"}
        /\ UNCHANGED <<launches, faults>>
    BY <1>6 DEF Recover, GiveUp, Handle, Heartbeat, HandleRetry, HandleTerminal,
                HandleRefused, At
  <2>2. \/ row' = row
        \/ Owns(w) /\ \A k \in Jobs : k # j => row'[k] = row[k]
    BY <1>5, <1>6 DEF Recover, GiveUp, Handle, Heartbeat, HandleRetry, HandleTerminal,
                      HandleRefused, FinishAttempt, FinishWithoutAttempt
  <2> QED
    BY <1>1, <1>2, <2>1, <2>2, AccountedApart
<1>7. CASE Begin(w) \/ LiveSettled(w)
  <2>1. /\ work[w].at \notin {"history", "renew", "append", "finish"} /\ Owns(w)
        /\ UNCHANGED <<row, launches, faults>>
    BY <1>1, <1>7, BusyFacts DEF Begin, LiveSettled, At, Sound, Held, Holding
  <2> QED
    BY <1>1, <1>2, <2>1, AccountedApart
<1>8. CASE LiveRetryable(w)
  <2>1. /\ work[w].at \notin {"history", "renew", "append", "finish"} /\ Owns(w)
        /\ UNCHANGED <<launches, faults>>
    BY <1>1, <1>8, BusyFacts DEF LiveRetryable, At, Sound, Held, Holding
  <2>2. \A k \in Jobs : k # j => row'[k] = row[k]
    BY <1>5, <1>8 DEF LiveRetryable, FinishAttempt
  <2> QED
    BY <1>1, <1>2, <2>1, <2>2, AccountedApart
<1>9. CASE VenueClosed(w)
  <2>1. Goto(w, "history") /\ Owns(w) /\ At(w, "live") /\ faults' = faults
    BY <1>9 DEF VenueClosed
  <2>2. Pursued(w, j)'
    BY <1>1, <1>2, <1>3, <2>1, GotoWork DEF Pursued, Stages
  <2>3. faults = 0 => launches'[j] = 1
    BY <1>2, <1>3, <1>4, <1>9, <2>1 DEF VenueClosed, At, IInv, TypeOK
  <2>4. \A k \in Jobs : k # j => row'[k] = row[k] /\ launches'[k] = launches[k]
    BY <1>2, <1>3, <1>9 DEF VenueClosed, IInv, TypeOK
  <2>5. faults = 0 => Launched(j)'
    BY <2>2, <2>3 DEF Launched
  <2> QED
    BY <1>1, <1>2, <2>1, <2>4, <2>5, AccountedStep
<1>10. CASE History(w) \/ Renew(w) \/ AppendSnapshot(w) \/ Finish(w)
  <2>1. /\ work[w].at \in {"history", "renew", "append", "finish"}
        /\ UNCHANGED <<launches, faults>>
    BY <1>10 DEF History, Renew, AppendSnapshot, Finish, At
  <2>2. row'[j].status = "complete" \/ Pursued(w, j)'
    <3>1. CASE History(w)
      BY <1>1, <1>2, <1>3, <3>1, SettleWork DEF History, Records, Pursued
    <3>2. CASE Renew(w) \/ AppendSnapshot(w)
      BY <1>1, <1>2, <1>3, <3>2, GotoWork DEF Renew, AppendSnapshot, Stages, Pursued
    <3>3. CASE Finish(w)
      <4>1. PICK reason \in {"option", "none"} :
              Closed(w, "complete", reason, work[w].option)
        BY <3>3 DEF Finish, FinishAttempt
      <4> QED
        BY <1>2, <1>3, <4>1 DEF Closed, Row
    <3> QED
      BY <1>10, <3>1, <3>2, <3>3
  <2>3. \A k \in Jobs : k # j => row'[k] = row[k]
    <3>1. CASE Finish(w)
      BY <1>5, <3>1 DEF Finish, FinishAttempt
    <3>2. CASE ~ Finish(w)
      BY <1>2, <1>3, <1>10, <3>2 DEF History, Renew, AppendSnapshot
    <3> QED
      BY <3>1, <3>2
  <2> QED
    BY <1>1, <1>2, <2>1, <2>2, <2>3, AccountedPursued
<1> QED
  BY <1>6, <1>7, <1>8, <1>9, <1>10 DEF Process

LEMMA AccountedNext == IInv /\ Accounted /\ [Next]_vars => Accounted'
<1> SUFFICES ASSUME IInv, Accounted, [Next]_vars PROVE Accounted'
  OBVIOUS
<1>1. ASSUME NEW w \in Workers, Raise(w) \/ Die(w) PROVE Accounted'
  <2>1. faults \in Nat /\ faults' = faults + 1
    BY <1>1, CaptureAssumption DEF Raise, Die, IInv, TypeOK
  <2> QED
    BY <2>1 DEF Accounted
<1>2. CASE UNCHANGED vars
  BY <1>2 DEF vars, Accounted, Launched, Pursued
<1> QED
  BY <1>1, <1>2, AccountedClaim, AccountedTime, AccountedProcess DEF Next

(* docs/research/CLOSED-VENUE-OPTION-FALLBACK.md calls a historical launch a one-shot     *)
(* operation.  It is, for every job, as long as no exception and no death intervenes.     *)
THEOREM OneShotUnlessHurt == Spec => []RelaunchedAfterFault
<1>1. Init => Accounted
  BY DEF Init, Accounted, Launched
<1>2. IInv /\ Accounted => RelaunchedAfterFault
  <2> SUFFICES ASSUME IInv, Accounted, NEW j \in Jobs, launches[j] > 1 PROVE faults > 0
    BY DEF RelaunchedAfterFault
  <2>1. faults \in Nat /\ launches[j] \in 0 .. 2
    BY CaptureAssumption DEF IInv, TypeOK
  <2>2. faults # 0
    BY <2>1 DEF Accounted, Launched
  <2> QED
    BY <2>1, <2>2
<1> QED
  BY <1>1, <1>2, AccountedNext, Invariance, PTL DEF Spec
=============================================================================
