------------------------ MODULE FeatureCapture_proofs ------------------------
(* Theorems about FeatureCapture, for any workers, signals and attempts, and for *)
(* any number of deaths.                                                          *)
EXTENDS FeatureCapture, FiniteSetTheorems, TLAPS

-----------------------------------------------------------------------------
(* The inductive invariant. *)

Failed == {"request_failed", "artifact_publish_failed"}
Served == {"captured", "unreadable", "request_failed"}

(* A worker between its claim and the write that ends it. *)
Busy(w) == work[w].at \in {"check", "request", "retry", "finish"}

(* Workers that claimed a job when its attempts were used up: no retry is left to them. *)
Late(j) == {w \in Workers : Busy(w) /\ work[w].job = j /\ work[w].num >= MaxAttempts}

(* A claim beyond the policy is in the hands of a worker, or was lost by a death. *)
Counted(j) ==
    /\ job[j].status # "complete" => job[j].count < MaxAttempts + faults + Cardinality(Late(j))
    /\ job[j].count < MaxAttempts + faults + Cardinality(Workers)

(* The job, its attempts and its receipt tell one story. *)
Agrees(j) ==
    /\ job[j].status # "absent" => j \in source \ (Old \cup Refused)
    /\ job[j].status = "complete" <=> receipt[j] # "none"
    /\ receipt[j] = "none" => Closing(j) = {}
    /\ receipt[j] # "none" => \E n \in Numbers : Closing(j) = {n}
    /\ \A n \in Closing(j) : attempts[j][n] = "completed" <=> receipt[j] = "captured"
    /\ \A n \in Numbers : attempts[j][n] = "retry" => n < MaxAttempts
    /\ receipt[j] \in Failed => window[j] = "closed" \/ job[j].count >= MaxAttempts
    /\ receipt[j] \in Served => j \in asked

(* What a worker knows of the job it claimed. *)
Honest(w) ==
    Busy(w) =>
      /\ job[work[w].job].status # "absent"
      /\ work[w].num <= job[work[w].job].count
      /\ work[w].at = "request" =>
           work[w].job \in asked /\ window[work[w].job] # "early"
      /\ work[w].at = "retry" => work[w].num < MaxAttempts
      /\ work[w].at = "finish" =>
           /\ work[w].reason \in Served => work[w].job \in asked
           /\ work[w].reason \in Failed =>
                window[work[w].job] = "closed" \/ work[w].num >= MaxAttempts

IInv ==
    /\ TypeOK
    /\ \A j \in Jobs : Counted(j) /\ Agrees(j)
    /\ \A w \in Workers : Honest(w)

-----------------------------------------------------------------------------
(* What the parts of the state look like. *)

LEMMA Bounds ==
    ASSUME FeatureAssumption
    PROVE  /\ Cardinality(Workers) \in Nat /\ MaxAttempts \in Nat \ {0} /\ MaxFaults \in Nat
           /\ Numbers = 1 .. (MaxAttempts + MaxFaults + Cardinality(Workers))
           /\ Numbers \subseteq Nat \ {0}
BY FS_CardinalityType DEF FeatureAssumption, Numbers

LEMMA WorkShape ==
    ASSUME TypeOK, NEW w \in Workers
    PROVE  /\ Busy(w) => work[w].job \in Jobs /\ work[w].num \in Numbers
           /\ work[w].at \in {"check", "request"} =>
                work[w] \in [at : {"check", "request"}, job : Jobs, num : Numbers]
           /\ work[w].at = "retry" =>
                work[w] \in [at : {"retry"}, job : Jobs, num : Numbers, reason : Reasons]
           /\ work[w].at = "finish" =>
                work[w] \in [at : {"finish"}, job : Jobs, num : Numbers, reason : Verdict]
<1>1. work[w] \in Work
  BY DEF TypeOK
<1> QED
  BY <1>1 DEF Work, Idle, Busy

LEMMA LateType ==
    ASSUME FeatureAssumption, NEW j
    PROVE  /\ IsFiniteSet(Late(j)) /\ Cardinality(Late(j)) \in Nat
           /\ Cardinality(Late(j)) <= Cardinality(Workers)
<1>1. IsFiniteSet(Workers) /\ Late(j) \subseteq Workers
  BY DEF FeatureAssumption, Late
<1> QED
  BY <1>1, FS_Subset, FS_CardinalityType

(* A worker in the middle of a job moves on with it. *)
LEMMA LateSame ==
    ASSUME \A v \in Workers : /\ Busy(v)' <=> Busy(v)
                              /\ Busy(v) => work'[v].job = work[v].job /\ work'[v].num = work[v].num
    PROVE  \A j : Late(j)' = Late(j)
BY DEF Late

LEMMA InitInv == FeatureAssumption /\ Init => IInv
<1> SUFFICES ASSUME FeatureAssumption, Init PROVE IInv
  OBVIOUS
<1>1. TypeOK
  BY Bounds DEF Init, TypeOK, Row, Absent, Work, Idle
<1>2. ASSUME NEW j \in Jobs PROVE Counted(j) /\ Agrees(j)
  <2>1. job[j].status = "absent" /\ job[j].count = 0 /\ faults = 0 /\ receipt[j] = "none"
    BY DEF Init, Absent
  <2>2. Counted(j)
    BY <2>1, Bounds, LateType DEF Counted
  <2>3. \A n \in Numbers : attempts[j][n] = "none"
    BY DEF Init
  <2> QED
    BY <2>1, <2>2, <2>3 DEF Agrees, Closing, Failed, Served
<1>3. \A w \in Workers : Honest(w)
  BY DEF Init, Honest, Busy, Idle
<1> QED
  BY <1>1, <1>2, <1>3 DEF IInv

-----------------------------------------------------------------------------
(* The steps of a worker that write nothing. *)

LEMMA QuietStep ==
    ASSUME FeatureAssumption, IInv, NEW w \in Workers, NEW next \in Work,
           work' = [work EXCEPT ![w] = next],
           UNCHANGED <<source, window, rejected, job, attempts, receipt, faults>>,
           asked \subseteq asked', asked' \subseteq Jobs,
           Busy(w)' <=> Busy(w), Busy(w) => next.job = work[w].job /\ next.num = work[w].num,
           Honest(w)'
    PROVE  IInv'
<1>1. work'[w] = next /\ \A v \in Workers : v # w => work'[v] = work[v]
  BY DEF IInv, TypeOK
<1>2. TypeOK'
  BY DEF IInv, TypeOK
<1>3. \A j : Late(j)' = Late(j)
  <2>1. \A v \in Workers : /\ Busy(v)' <=> Busy(v)
                           /\ Busy(v) => work'[v].job = work[v].job /\ work'[v].num = work[v].num
    BY <1>1 DEF Busy
  <2> QED
    BY <2>1, LateSame
<1>4. ASSUME NEW j \in Jobs PROVE Counted(j)' /\ Agrees(j)'
  <2>1. Counted(j) /\ Agrees(j)
    BY DEF IInv
  <2>2. Counted(j)'
    BY <1>3, <2>1 DEF Counted
  <2>3. Closing(j)' = Closing(j)
    BY DEF Closing
  <2> QED
    BY <2>1, <2>2, <2>3 DEF Agrees
<1>5. ASSUME NEW v \in Workers PROVE Honest(v)'
  <2>1. CASE v = w
    BY <2>1
  <2>2. CASE v # w
    BY <1>1, <2>2 DEF IInv, Honest, Busy
  <2> QED
    BY <2>1, <2>2
<1> QED
  BY <1>2, <1>4, <1>5 DEF IInv

LEMMA Answers ==
    ASSUME FeatureAssumption, IInv, NEW w \in Workers,
           \/ ClaimNothing(w) \/ Refuse(w) \/ Request(w)
           \/ RequestFails(w) \/ PublishFails(w) \/ Answer(w)
    PROVE  IInv'
<1>h. Honest(w) /\ TypeOK /\ asked \subseteq Jobs
  BY DEF IInv, TypeOK
<1>1. CASE ClaimNothing(w)
  <2>1. work'[w] = Idle /\ Idle \in Work
    BY <1>1 DEF ClaimNothing, Goto, IInv, TypeOK, Work
  <2>2. ~Busy(w) /\ ~Busy(w)'
    BY <1>1, <2>1 DEF ClaimNothing, At, Busy, Idle
  <2> QED
    BY <1>1, <1>h, <2>1, <2>2, QuietStep DEF ClaimNothing, Goto, Honest
<1>2. CASE Refuse(w)
  <2> DEFINE next == Finishing(w, NoRequest(work[w].job))
  <2>1. Busy(w) /\ work[w].job \in Jobs /\ work[w].num \in Numbers
    BY <1>2, <1>h, WorkShape DEF Refuse, At, Busy
  <2>2. NoRequest(work[w].job) \in {"clock_before_decision", "request_window_expired", "invalid_payload"}
    BY <1>h, <2>1 DEF NoRequest, TypeOK
  <2>3. next = [at |-> "finish", job |-> work[w].job, num |-> work[w].num,
                reason |-> NoRequest(work[w].job)]
    BY DEF Finishing
  <2>4. next \in Work
    BY <2>1, <2>2, <2>3 DEF Work, Verdict, Reasons
  <2>5. work'[w] = next
    BY <1>2, <1>h DEF Refuse, Goto, TypeOK
  <2>6. Busy(w)' /\ Honest(w)'
    BY <1>2, <1>h, <2>1, <2>2, <2>3, <2>5 DEF Honest, Busy, Served, Failed, Refuse
  <2> QED
    BY <1>2, <1>h, <2>1, <2>3, <2>4, <2>6, QuietStep DEF Refuse, Goto
<1>3. CASE Request(w)
  <2> DEFINE next == [work[w] EXCEPT !.at = "request"]
  <2>1. Busy(w) /\ work[w] \in [at : {"check", "request"}, job : Jobs, num : Numbers]
    BY <1>3, <1>h, WorkShape DEF Request, At, Busy
  <2>2. next = [at |-> "request", job |-> work[w].job, num |-> work[w].num]
    BY <2>1
  <2>3. next \in Work /\ asked' \subseteq Jobs
    BY <1>3, <1>h, <2>1, <2>2 DEF Work, Request
  <2>4. work'[w] = next
    BY <1>3, <1>h DEF Request, Goto, TypeOK
  <2>5. Busy(w)' /\ Honest(w)'
    BY <1>3, <1>h, <2>1, <2>2, <2>4 DEF Honest, Busy, Request
  <2> QED
    BY <1>3, <1>h, <2>1, <2>2, <2>3, <2>5, QuietStep DEF Request, Goto
<1>4. ASSUME NEW reason \in Failed, At(w, "request"), Fail(w, reason),
             UNCHANGED <<source, window, rejected, job, attempts, receipt, asked, faults>>
      PROVE  IInv'
  <2> DEFINE stage == IF CanRetry(w) THEN "retry" ELSE "finish"
             next == [at |-> stage, job |-> work[w].job, num |-> work[w].num, reason |-> reason]
  <2>1. Busy(w) /\ work[w].job \in Jobs /\ work[w].num \in Numbers
    BY <1>4, <1>h, WorkShape DEF At, Busy
  <2>2. next \in Work
    BY <2>1 DEF Work, Verdict, Reasons, Failed
  <2>3. work' = [work EXCEPT ![w] = next]
    <3>1. /\ Finishing(w, reason) = [at |-> "finish", job |-> work[w].job, num |-> work[w].num,
                                     reason |-> reason]
          /\ Retrying(w, reason) = [at |-> "retry", job |-> work[w].job, num |-> work[w].num,
                                    reason |-> reason]
      BY DEF Finishing, Retrying
    <3>2. CASE CanRetry(w)
      BY <1>4, <3>1, <3>2 DEF Fail, Goto
    <3>3. CASE ~CanRetry(w)
      BY <1>4, <3>1, <3>3 DEF Fail, Goto
    <3> QED
      BY <3>2, <3>3
  <2>4. work'[w] = next
    BY <1>h, <2>3 DEF TypeOK
  <2>5. window[work[w].job] \in {"open", "closed"} /\ work[w].job \in asked
    BY <1>4, <1>h, <2>1 DEF Honest, At, TypeOK
  <2>6. ~CanRetry(w) => window[work[w].job] = "closed" \/ work[w].num >= MaxAttempts
    BY <2>1, <2>5, Bounds DEF CanRetry
  <2>7. Busy(w)' /\ Honest(w)'
    BY <1>4, <1>h, <2>1, <2>4, <2>5, <2>6 DEF Honest, Busy, CanRetry
  <2> QED
    BY <1>4, <1>h, <2>1, <2>2, <2>3, <2>7, QuietStep
<1>5. CASE Answer(w)
  <2>0. PICK reason \in {"captured", "unreadable"} : Goto(w, Finishing(w, reason))
    BY <1>5 DEF Answer
  <2> DEFINE next == [at |-> "finish", job |-> work[w].job, num |-> work[w].num, reason |-> reason]
  <2>1. Busy(w) /\ work[w].job \in Jobs /\ work[w].num \in Numbers
    BY <1>5, <1>h, WorkShape DEF Answer, At, Busy
  <2>2. next \in Work
    BY <2>1 DEF Work, Verdict, Reasons
  <2>3. work' = [work EXCEPT ![w] = next] /\ work'[w] = next
    BY <1>h, <2>0 DEF Goto, Finishing, TypeOK
  <2>4. Busy(w)' /\ Honest(w)'
    BY <1>5, <1>h, <2>1, <2>3 DEF Honest, Busy, Failed, Answer, At
  <2> QED
    BY <1>5, <1>h, <2>1, <2>2, <2>3, <2>4, QuietStep DEF Answer
<1>6. CASE RequestFails(w) \/ PublishFails(w)
  BY <1>4, <1>6 DEF RequestFails, PublishFails, Failed
<1> QED
  BY <1>1, <1>2, <1>3, <1>5, <1>6

-----------------------------------------------------------------------------
(* The steps that write the tables. *)

LEMMA JobShape ==
    ASSUME FeatureAssumption, TypeOK, NEW j \in Jobs
    PROVE  /\ job[j].count \in Nat /\ job[j].expired \in BOOLEAN
           /\ job[j].status \in {"absent", "pending", "leased", "retry", "complete"}
           /\ job[j] = [status |-> job[j].status, count |-> job[j].count, expired |-> job[j].expired]
BY Bounds DEF TypeOK, Row

LEMMA JobWritten ==
    ASSUME FeatureAssumption, TypeOK, NEW j \in Jobs, NEW state \in {"retry", "complete"},
           job' = [job EXCEPT ![j].status = state, ![j].expired = FALSE]
    PROVE  /\ job'[j].status = state /\ job'[j].count = job[j].count
           /\ \A k \in Jobs : k # j => job'[k] = job[k]
           /\ job' \in [Jobs -> Row]
<1>1. job[j] \in Row /\ job \in [Jobs -> Row]
  BY DEF TypeOK
<1>2. job'[j] \in Row /\ job'[j].status = state /\ job'[j].count = job[j].count
  BY <1>1 DEF Row
<1> QED
  BY <1>1, <1>2 DEF Row

(* A step that neither claims nor ends a job of its own leaves what is counted. *)
LEMMA CountedSame ==
    ASSUME FeatureAssumption, IInv, NEW j \in Jobs, Late(j)' = Late(j), faults' = faults,
           job'[j].count = job[j].count,
           job'[j].status # "complete" => job[j].status # "complete"
    PROVE  Counted(j)'
BY DEF IInv, Counted

LEMMA AgreesSame ==
    ASSUME IInv, NEW j \in Jobs, job'[j] = job[j], receipt'[j] = receipt[j],
           attempts'[j] = attempts[j], window'[j] = window[j], source \subseteq source',
           asked' = asked
    PROVE  Agrees(j)'
<1>1. Agrees(j) /\ Closing(j)' = Closing(j)
  BY DEF IInv, Closing
<1> QED
  BY <1>1 DEF Agrees

LEMMA Ingests ==
    ASSUME FeatureAssumption, IInv, NEW w \in Workers, Ingest(w)
    PROVE  IInv'
<1> DEFINE new == First(New)
           row == [Absent EXCEPT !.status = "pending"]
<1>b. TypeOK
  BY DEF IInv
<1>1. /\ work' = [work EXCEPT ![w] = [at |-> "claim"]]
      /\ rejected' = rejected \cup Scanned
      /\ job' = [j \in Jobs |-> IF j \in new THEN row ELSE job[j]]
      /\ UNCHANGED <<source, window, attempts, receipt, asked, faults>>
  BY DEF Ingest, Goto
<1>r. row \in Row /\ row.status = "pending" /\ row.count = 0
  BY Bounds DEF Absent, Row
<1>2. /\ \A j \in new : j \in source \ (Old \cup Refused) /\ job[j].status = "absent"
      /\ Scanned \subseteq Refused
  BY DEF First, New, Scanned
<1>3. TypeOK'
  <2>1. work' \in [Workers -> Work]
    BY <1>1, <1>b DEF TypeOK, Work
  <2>2. job' \in [Jobs -> Row]
    BY <1>1, <1>b, <1>r DEF TypeOK
  <2> QED
    BY <1>1, <1>2, <1>b, <2>1, <2>2 DEF TypeOK
<1>4. \A j : Late(j)' = Late(j)
  <2>1. ~Busy(w) /\ ~Busy(w)' /\ \A v \in Workers : v # w => work'[v] = work[v]
    BY <1>1, <1>b DEF Busy, TypeOK, Ingest, At
  <2> QED
    BY <2>1, LateSame DEF Busy
<1>5. ASSUME NEW j \in Jobs PROVE Counted(j)' /\ Agrees(j)'
  <2>1. CASE j \in new
    <3>1. job'[j] = row /\ job[j].status = "absent" /\ j \in source \ (Old \cup Refused)
      BY <1>1, <1>2, <2>1
    <3>2. Counted(j)'
      <4>1. /\ job'[j].status = "pending" /\ job'[j].count = 0 /\ faults' \in Nat
            /\ Late(j)' = Late(j)
        BY <1>3, <1>4, <1>r, <3>1, Bounds DEF TypeOK
      <4>2. Cardinality(Late(j)) \in Nat
        BY LateType
      <4>3. 0 < MaxAttempts + faults' + Cardinality(Late(j)')
        BY <4>1, <4>2, Bounds
      <4>4. 0 < MaxAttempts + faults' + Cardinality(Workers)
        BY <4>1, Bounds
      <4> QED
        BY <4>1, <4>3, <4>4 DEF Counted
    <3>3. Agrees(j) /\ Closing(j)' = Closing(j)
      BY <1>1 DEF IInv, Closing
    <3> QED
      BY <1>1, <1>r, <3>1, <3>2, <3>3 DEF Agrees, Failed, Served
  <2>2. CASE j \notin new
    <3>1. job'[j] = job[j]
      BY <1>1, <2>2
    <3> QED
      BY <1>1, <1>4, <3>1, CountedSame, AgreesSame
  <2> QED
    BY <2>1, <2>2
<1>6. ASSUME NEW v \in Workers PROVE Honest(v)'
  <2>1. CASE v = w
    BY <1>1, <1>b, <2>1 DEF Honest, Busy, TypeOK
  <2>2. CASE v # w
    <3>1. work'[v] = work[v] /\ Honest(v)
      BY <1>1, <1>b, <2>2 DEF IInv, TypeOK
    <3>2. Busy(v) => work[v].job \in Jobs /\ job'[work[v].job] = job[work[v].job]
      BY <1>1, <1>2, <1>b, <3>1, WorkShape DEF Honest
    <3>3. UNCHANGED <<window, asked>>
      BY <1>1
    <3> QED
      BY <3>1, <3>2, <3>3 DEF Honest, Busy
  <2> QED
    BY <2>1, <2>2
<1> QED
  BY <1>3, <1>5, <1>6 DEF IInv

(* A claim beyond the policy is counted by the worker that makes it. *)
LEMMA Claims ==
    ASSUME FeatureAssumption, IInv, NEW w \in Workers, Claim(w)
    PROVE  IInv'
<1>b. TypeOK
  BY DEF IInv
<1>0. PICK j \in First(Claimable) :
         /\ job' = [job EXCEPT ![j] = [status |-> "leased", count |-> @.count + 1, expired |-> FALSE]]
         /\ work' = [work EXCEPT ![w] = [at |-> "check", job |-> j, num |-> job[j].count + 1]]
  BY DEF Claim, Goto
<1> DEFINE n == job[j].count + 1
<1>1. j \in Jobs /\ job[j].status \in {"pending", "retry", "leased"}
  BY DEF First, Claimable
<1>2. /\ job'[j] = [status |-> "leased", count |-> n, expired |-> FALSE]
      /\ \A k \in Jobs : k # j => job'[k] = job[k]
      /\ work'[w] = [at |-> "check", job |-> j, num |-> n]
      /\ \A v \in Workers : v # w => work'[v] = work[v]
      /\ UNCHANGED <<source, window, rejected, attempts, receipt, asked, faults>>
      /\ ~Busy(w)
  BY <1>0, <1>1, <1>b DEF TypeOK, Claim, At, Busy
<1>3. /\ \A k : k # j => Late(k)' = Late(k)
      /\ Late(j)' = IF n >= MaxAttempts THEN Late(j) \cup {w} ELSE Late(j)
      /\ w \notin Late(j)
  BY <1>2 DEF Late, Busy
<1>4. /\ job[j].count \in Nat /\ faults \in Nat /\ faults <= MaxFaults
      /\ job[j].count < MaxAttempts + faults + Cardinality(Late(j))
      /\ Cardinality(Late(j)) \in Nat
  BY <1>1, <1>b, Bounds, JobShape, LateType DEF IInv, Counted, TypeOK
<1>5. n < MaxAttempts + faults + Cardinality(Late(j)')
  <2>1. CASE n >= MaxAttempts
    <3>1. Cardinality(Late(j)') = Cardinality(Late(j)) + 1
      BY <1>3, <2>1, LateType, FS_AddElement
    <3> QED
      BY <1>4, <3>1, Bounds
  <2>2. CASE ~(n >= MaxAttempts)
    BY <1>3, <1>4, <2>2, Bounds
  <2> QED
    BY <2>1, <2>2
<1>6. /\ Cardinality(Late(j)') \in Nat /\ Cardinality(Late(j)') <= Cardinality(Workers)
      /\ n < MaxAttempts + faults + Cardinality(Workers) /\ n \in Numbers
  <2>1. Late(j)' \subseteq Workers /\ IsFiniteSet(Workers)
    BY DEF Late, FeatureAssumption
  <2>2. Cardinality(Late(j)') \in Nat /\ Cardinality(Late(j)') <= Cardinality(Workers)
    BY <2>1, FS_Subset, FS_CardinalityType
  <2>3. n < MaxAttempts + faults + Cardinality(Workers)
    BY <1>4, <1>5, <2>2, Bounds
  <2>4. n \in 1 .. (MaxAttempts + MaxFaults + Cardinality(Workers))
    BY <1>4, <2>3, Bounds
  <2> QED
    BY <2>2, <2>3, <2>4, Bounds
<1>7. TypeOK'
  <2>1. job' \in [Jobs -> Row]
    BY <1>0, <1>1, <1>2, <1>6, <1>b DEF TypeOK, Row
  <2>2. work' \in [Workers -> Work]
    BY <1>0, <1>1, <1>6, <1>b DEF TypeOK, Work
  <2> QED
    BY <1>2, <1>b, <2>1, <2>2 DEF TypeOK
<1>8. ASSUME NEW k \in Jobs PROVE Counted(k)' /\ Agrees(k)'
  <2>1. CASE k = j
    <3>1. Counted(j)'
      BY <1>2, <1>5, <1>6 DEF Counted
    <3>2. Agrees(j) /\ Closing(j)' = Closing(j) /\ receipt[j] = "none"
      BY <1>1, <1>2 DEF IInv, Closing, Agrees
    <3> QED
      BY <1>1, <1>2, <2>1, <3>1, <3>2 DEF Agrees, Failed, Served
  <2>2. CASE k # j
    BY <1>2, <1>3, <2>2, CountedSame, AgreesSame
  <2> QED
    BY <2>1, <2>2
<1>9. ASSUME NEW v \in Workers PROVE Honest(v)'
  <2>1. CASE v = w
    BY <1>2, <1>4, <2>1 DEF Honest, Busy
  <2>2. CASE v # w
    <3>1. work'[v] = work[v] /\ Honest(v) /\ (Busy(v) => work[v].job \in Jobs /\ work[v].num \in Nat)
      BY <1>2, <1>b, <2>2, Bounds, WorkShape DEF IInv
    <3> QED
      BY <1>2, <1>4, <3>1 DEF Honest, Busy
  <2> QED
    BY <2>1, <2>2
<1> QED
  BY <1>7, <1>8, <1>9 DEF IInv

(* A worker that writes its attempt, or dies, has no job in its hands.           *)
LEMMA Ends ==
    ASSUME TypeOK, NEW w \in Workers, Goto(w, Idle)
    PROVE  /\ ~Busy(w)' /\ \A v \in Workers : v # w => work'[v] = work[v]
           /\ work' \in [Workers -> Work]
           /\ \A k : Late(k)' = Late(k) \ {w}
           /\ \A k : k # work[w].job \/ ~Busy(w) => Late(k)' = Late(k)
<1>1. work'[w] = Idle /\ \A v \in Workers : v # w => work'[v] = work[v]
  BY DEF Goto, TypeOK
<1>2. ~Busy(w)'
  BY <1>1 DEF Busy, Idle
<1>3. work' \in [Workers -> Work]
  BY DEF Goto, TypeOK, Work
<1> QED
  BY <1>1, <1>2, <1>3 DEF Late, Busy

(* The others keep what they know when one worker writes the job it holds.       *)
LEMMA HonestSame ==
    ASSUME TypeOK, IInv, NEW w \in Workers, NEW j \in Jobs, Goto(w, Idle),
           UNCHANGED <<window, asked>>, \A k \in Jobs : k # j => job'[k] = job[k],
           job'[j].count = job[j].count, job'[j].status # "absent"
    PROVE  \A v \in Workers : Honest(v)'
<1> SUFFICES ASSUME NEW v \in Workers PROVE Honest(v)'
  OBVIOUS
<1>1. CASE v = w
  BY <1>1, Ends DEF Honest
<1>2. CASE v # w
  <2>1. work'[v] = work[v] /\ Honest(v) /\ (Busy(v) => work[v].job \in Jobs)
    BY <1>2, Ends, WorkShape DEF IInv
  <2> QED
    BY <2>1 DEF Honest, Busy
<1> QED
  BY <1>1, <1>2

LEMMA Dies ==
    ASSUME FeatureAssumption, IInv, NEW w \in Workers, Die(w)
    PROVE  IInv'
<1>b. /\ TypeOK /\ Goto(w, Idle) /\ faults' = faults + 1 /\ faults < MaxFaults
      /\ UNCHANGED <<source, window, rejected, job, attempts, receipt, asked>>
  BY DEF IInv, Die
<1>1. faults \in Nat /\ TypeOK'
  BY <1>b, Ends, Bounds DEF TypeOK
<1>2. ASSUME NEW j \in Jobs PROVE Counted(j)' /\ Agrees(j)'
  <2>1. Counted(j)
    BY DEF IInv
  <2>2. Cardinality(Late(j)) <= Cardinality(Late(j)') + 1
    <3>1. Late(j)' = Late(j) \ {w} /\ IsFiniteSet(Late(j)) /\ Cardinality(Late(j)) \in Nat
      BY <1>b, Ends, LateType
    <3> QED
      BY <3>1, FS_RemoveElement
  <2>3. Cardinality(Late(j)) \in Nat /\ Cardinality(Late(j)') \in Nat /\ job[j].count \in Nat
    <3>1. Late(j)' \subseteq Workers
      BY DEF Late
    <3>2. IsFiniteSet(Workers)
      BY DEF FeatureAssumption
    <3> QED
      BY <1>b, <3>1, <3>2, LateType, JobShape, FS_Subset, FS_CardinalityType
  <2>4. Counted(j)'
    <3>1. /\ job'[j] = job[j] /\ faults' = faults + 1 /\ faults \in Nat
          /\ MaxAttempts \in Nat /\ Cardinality(Workers) \in Nat
      BY <1>b, <1>1, Bounds
    <3>2. job[j].count < MaxAttempts + faults' + Cardinality(Workers)
      BY <2>1, <2>3, <3>1 DEF Counted
    <3>3. job[j].status # "complete" => job[j].count < MaxAttempts + faults' + Cardinality(Late(j)')
      BY <2>1, <2>2, <2>3, <3>1 DEF Counted
    <3> QED
      BY <3>1, <3>2, <3>3 DEF Counted
  <2>5. Agrees(j)'
    BY <1>b, AgreesSame
  <2> QED
    BY <2>4, <2>5
<1>3. ASSUME NEW v \in Workers PROVE Honest(v)'
  <2>1. CASE v = w
    BY <1>b, <2>1, Ends DEF Honest
  <2>2. CASE v # w
    <3>1. work'[v] = work[v] /\ Honest(v)
      BY <1>b, <2>2, Ends DEF IInv
    <3> QED
      BY <1>b, <3>1 DEF Honest, Busy
  <2> QED
    BY <2>1, <2>2
<1> QED
  BY <1>1, <1>2, <1>3 DEF IInv

(* The trigger on a final job takes the write of a late worker back.             *)
LEMMA Retries ==
    ASSUME FeatureAssumption, IInv, NEW w \in Workers, Retry(w)
    PROVE  IInv'
<1>b. TypeOK /\ Goto(w, Idle) /\ UNCHANGED <<source, window, rejected, receipt, asked, faults>>
  BY DEF IInv, Retry
<1>j. PICK j \in Jobs, n \in Numbers : j = work[w].job /\ n = work[w].num
  BY <1>b, WorkShape DEF Retry, At, Busy
<1>h. /\ Busy(w) /\ Honest(w) /\ j \in Jobs /\ n \in Numbers /\ n < MaxAttempts
      /\ job[j].status # "absent"
  BY <1>b, <1>j, WorkShape DEF IInv, Retry, At, Busy, Honest
<1>1. CASE job[j].status # "complete"
  <2>1. /\ attempts' = [attempts EXCEPT ![j][n] = "retry"]
        /\ job' = [job EXCEPT ![j].status = "retry", ![j].expired = FALSE]
    BY <1>1, <1>j DEF Retry, Recorded
  <2>2. /\ job'[j].status = "retry" /\ job'[j].count = job[j].count
        /\ \A k \in Jobs : k # j => job'[k] = job[k] /\ attempts'[k] = attempts[k]
        /\ \A m \in Numbers : attempts'[j][m] = IF m = n THEN "retry" ELSE attempts[j][m]
    <3>1. /\ job'[j].status = "retry" /\ job'[j].count = job[j].count
          /\ \A k \in Jobs : k # j => job'[k] = job[k]
      BY <1>b, <2>1, JobWritten
    <3> QED
      BY <1>b, <1>h, <2>1, <3>1 DEF TypeOK
  <2>3. TypeOK'
    <3>1. job' \in [Jobs -> Row]
      BY <1>b, <2>1, JobWritten
    <3>2. attempts' \in [Jobs -> [Numbers -> {"none", "retry", "completed", "failed"}]]
      BY <1>b, <1>h, <2>1 DEF TypeOK
    <3> QED
      BY <1>b, <3>1, <3>2, Ends DEF TypeOK
  <2>4. ASSUME NEW k \in Jobs PROVE Counted(k)' /\ Agrees(k)'
    <3>1. Late(k)' = Late(k)
      <4>1. w \notin Late(k)
        BY <1>h, <1>j, Bounds DEF Late
      <4> QED
        BY <1>b, <4>1, Ends
    <3>2. CASE k = j
      <4>1. Agrees(j) /\ receipt[j] = "none" /\ Closing(j) = {}
        BY <1>1, <1>h DEF IInv, Agrees
      <4>2. Closing(j)' = {}
        BY <2>2, <4>1 DEF Closing
      <4>3. Agrees(j)'
        BY <1>b, <1>h, <2>2, <4>1, <4>2 DEF Agrees, Failed, Served
      <4>4. Counted(j)'
        BY <1>1, <1>b, <1>h, <2>2, <3>1, <3>2, CountedSame
      <4> QED
        BY <3>2, <4>3, <4>4
    <3>3. CASE k # j
      BY <1>b, <2>2, <3>1, <3>3, CountedSame, AgreesSame
    <3> QED
      BY <3>2, <3>3
  <2> QED
    BY <1>b, <1>h, <2>2, <2>3, <2>4, HonestSame DEF IInv
<1>2. CASE job[j].status = "complete"
  <2>1. UNCHANGED <<job, attempts>>
    BY <1>2, <1>j DEF Retry
  <2>2. TypeOK'
    BY <1>b, <2>1, Ends DEF TypeOK
  <2>3. ASSUME NEW k \in Jobs PROVE Counted(k)' /\ Agrees(k)'
    <3>1. CASE k = j
      BY <1>2, <1>b, <2>1, <3>1, AgreesSame DEF IInv, Counted
    <3>2. CASE k # j
      <4>1. Late(k)' = Late(k)
        BY <1>b, <1>j, <3>2, Ends
      <4> QED
        BY <1>b, <2>1, <4>1, CountedSame, AgreesSame
    <3> QED
      BY <3>1, <3>2
  <2> QED
    BY <1>b, <1>h, <2>1, <2>2, <2>3, HonestSame DEF IInv
<1> QED
  BY <1>1, <1>2

(* A job gets one receipt, with the attempt that closes it.                      *)
LEMMA Finalizes ==
    ASSUME FeatureAssumption, IInv, NEW w \in Workers, Finalize(w)
    PROVE  IInv'
<1>b. TypeOK /\ Goto(w, Idle) /\ UNCHANGED <<source, window, rejected, asked, faults>>
  BY DEF IInv, Finalize
<1>j. PICK j \in Jobs, n \in Numbers, reason \in Verdict :
        j = work[w].job /\ n = work[w].num /\ reason = work[w].reason
  BY <1>b, WorkShape DEF Finalize, At, Busy
<1> DEFINE closing == IF reason = "captured" THEN "completed" ELSE "failed"
<1>h. /\ Busy(w) /\ Honest(w) /\ j \in Jobs /\ n \in Numbers /\ reason \in Verdict
      /\ job[j].status # "absent" /\ work[w].at = "finish"
  BY <1>b, <1>j, WorkShape DEF IInv, Finalize, At, Busy, Honest
<1>1. CASE receipt[j] = "none"
  <2>1. /\ attempts' = [attempts EXCEPT ![j][n] = closing]
        /\ receipt' = [receipt EXCEPT ![j] = reason]
        /\ job' = [job EXCEPT ![j].status = "complete", ![j].expired = FALSE]
    BY <1>1, <1>j DEF Finalize, Recorded
  <2>2. /\ job'[j].status = "complete" /\ job'[j].count = job[j].count
        /\ \A k \in Jobs : k # j => /\ job'[k] = job[k] /\ attempts'[k] = attempts[k]
                                    /\ receipt'[k] = receipt[k]
        /\ \A m \in Numbers : attempts'[j][m] = IF m = n THEN closing ELSE attempts[j][m]
        /\ receipt'[j] = reason
    <3>1. /\ job'[j].status = "complete" /\ job'[j].count = job[j].count
          /\ \A k \in Jobs : k # j => job'[k] = job[k]
      BY <1>b, <2>1, JobWritten
    <3> QED
      BY <1>b, <1>h, <2>1, <3>1 DEF TypeOK
  <2>3. TypeOK'
    <3>1. job' \in [Jobs -> Row]
      BY <1>b, <2>1, JobWritten
    <3>2. attempts' \in [Jobs -> [Numbers -> {"none", "retry", "completed", "failed"}]]
      BY <1>b, <1>h, <2>1 DEF TypeOK
    <3>3. receipt' \in [Jobs -> Verdict \cup {"none"}]
      BY <1>b, <1>h, <2>1 DEF TypeOK
    <3> QED
      BY <1>b, <3>1, <3>2, <3>3, Ends DEF TypeOK
  <2>4. ASSUME NEW k \in Jobs PROVE Counted(k)' /\ Agrees(k)'
    <3>1. CASE k = j
      <4>1. Agrees(j) /\ Closing(j) = {} /\ Counted(j)
        BY <1>1, <1>h DEF IInv, Agrees
      <4>2. Closing(j)' = {n}
        BY <1>h, <2>2, <4>1 DEF Closing
      <4>3. reason # "none"
        BY <1>h DEF Verdict, Reasons
      <4>4. reason \in Served => j \in asked'
        BY <1>b, <1>h, <1>j DEF Honest
      <4>5. reason \in Failed => window'[j] = "closed" \/ job'[j].count >= MaxAttempts
        <5>1. n <= job[j].count /\ n \in Nat /\ job[j].count \in Nat
          BY <1>b, <1>h, <1>j, Bounds, JobShape DEF Honest
        <5> QED
          BY <1>b, <1>h, <1>j, <2>2, <5>1, Bounds DEF Honest
      <4>6. \A m \in Numbers : attempts'[j][m] = "retry" => m < MaxAttempts
        BY <2>2, <4>1 DEF Agrees
      <4>7. attempts'[j][n] = "completed" <=> reason = "captured"
        BY <1>h, <2>2
      <4>8. Agrees(j)'
        BY <1>b, <1>h, <2>2, <4>1, <4>2, <4>3, <4>4, <4>5, <4>6, <4>7 DEF Agrees
      <4>9. Counted(j)'
        BY <1>b, <2>2, <4>1 DEF Counted
      <4> QED
        BY <3>1, <4>8, <4>9
    <3>2. CASE k # j
      <4>1. Late(k)' = Late(k)
        BY <1>b, <1>j, <3>2, Ends
      <4> QED
        BY <1>b, <2>2, <3>2, <4>1, CountedSame, AgreesSame
    <3> QED
      BY <3>1, <3>2
  <2> QED
    BY <1>b, <1>h, <2>2, <2>3, <2>4, HonestSame DEF IInv
<1>2. CASE receipt[j] # "none"
  <2>1. UNCHANGED <<job, attempts, receipt>>
    BY <1>2, <1>j DEF Finalize
  <2>2. TypeOK'
    BY <1>b, <2>1, Ends DEF TypeOK
  <2>3. ASSUME NEW k \in Jobs PROVE Counted(k)' /\ Agrees(k)'
    <3>1. CASE k = j
      <4>1. job[j].status = "complete" /\ Counted(j)
        BY <1>2, <1>h DEF IInv, Agrees
      <4>2. Counted(j)'
        BY <1>b, <2>1, <4>1 DEF Counted
      <4> QED
        BY <1>b, <2>1, <3>1, <4>2, AgreesSame
    <3>2. CASE k # j
      <4>1. Late(k)' = Late(k)
        BY <1>b, <1>j, <3>2, Ends
      <4> QED
        BY <1>b, <2>1, <4>1, CountedSame, AgreesSame
    <3> QED
      BY <3>1, <3>2
  <2> QED
    BY <1>b, <1>h, <2>1, <2>2, <2>3, HonestSame DEF IInv
<1> QED
  BY <1>1, <1>2

-----------------------------------------------------------------------------
(* The rest of the world, and the invariant. *)

LEMMA WorldMoves ==
    ASSUME FeatureAssumption, IInv, NEW j \in Jobs, Approve(j) \/ WindowMoves(j) \/ LeaseRunsOut(j)
    PROVE  IInv'
<1>b. TypeOK /\ UNCHANGED <<rejected, attempts, receipt, work, asked, faults>>
  BY DEF IInv, Approve, WindowMoves, LeaseRunsOut
<1>1. \A k : Late(k)' = Late(k)
  BY <1>b DEF Late, Busy
<1>2. CASE Approve(j)
  <2>1. source \subseteq source' /\ source' \subseteq Jobs /\ UNCHANGED <<window, job>>
    BY <1>2, <1>b DEF Approve, TypeOK
  <2>2. TypeOK'
    BY <1>b, <2>1 DEF TypeOK
  <2>3. \A k \in Jobs : Counted(k)' /\ Agrees(k)'
    BY <1>b, <1>1, <2>1, CountedSame, AgreesSame
  <2>4. \A v \in Workers : Honest(v)'
    BY <1>b, <2>1 DEF IInv, Honest, Busy
  <2> QED
    BY <2>2, <2>3, <2>4 DEF IInv
<1>3. CASE WindowMoves(j)
  <2>1. /\ UNCHANGED <<source, job>> /\ window'[j] \in {"open", "closed"} /\ window[j] # "closed"
        /\ \A k \in Jobs : k # j => window'[k] = window[k]
        /\ window' \in [Jobs -> {"early", "open", "closed"}]
    BY <1>3, <1>b DEF WindowMoves, TypeOK
  <2>2. TypeOK'
    BY <1>b, <2>1 DEF TypeOK
  <2>3. \A k \in Jobs : window[k] = "closed" => window'[k] = "closed"
    BY <2>1
  <2>4. \A k \in Jobs : window[k] # "early" => window'[k] # "early"
    BY <2>1
  <2>5. ASSUME NEW k \in Jobs PROVE Counted(k)' /\ Agrees(k)'
    <3>1. Agrees(k) /\ Closing(k)' = Closing(k)
      BY <1>b DEF IInv, Closing
    <3>2. Agrees(k)'
      BY <1>b, <2>1, <2>3, <3>1 DEF Agrees
    <3> QED
      BY <1>b, <1>1, <2>1, <3>2, CountedSame
  <2>6. ASSUME NEW v \in Workers PROVE Honest(v)'
    <3>1. Honest(v) /\ (Busy(v) => work[v].job \in Jobs)
      BY <1>b, WorkShape DEF IInv
    <3> QED
      BY <1>b, <2>1, <2>3, <2>4, <3>1 DEF Honest, Busy
  <2> QED
    BY <2>2, <2>5, <2>6 DEF IInv
<1>4. CASE LeaseRunsOut(j)
  <2>1. /\ UNCHANGED <<source, window>> /\ job' = [job EXCEPT ![j].expired = TRUE]
    BY <1>4 DEF LeaseRunsOut
  <2>2. /\ \A k \in Jobs : job'[k].status = job[k].status /\ job'[k].count = job[k].count
        /\ job' \in [Jobs -> Row]
    <3>1. job[j] \in Row /\ job \in [Jobs -> Row]
      BY <1>b DEF TypeOK
    <3>2. job'[j] \in Row /\ job'[j].status = job[j].status /\ job'[j].count = job[j].count
      BY <2>1, <3>1 DEF Row
    <3>3. \A k \in Jobs : k # j => job'[k] = job[k]
      BY <2>1, <3>1
    <3> QED
      BY <2>1, <3>1, <3>2, <3>3
  <2>3. TypeOK'
    BY <1>b, <2>1, <2>2 DEF TypeOK
  <2>4. ASSUME NEW k \in Jobs PROVE Counted(k)' /\ Agrees(k)'
    <3>1. Agrees(k) /\ Closing(k)' = Closing(k)
      BY <1>b DEF IInv, Closing
    <3>2. Agrees(k)'
      BY <1>b, <2>1, <2>2, <3>1 DEF Agrees
    <3> QED
      BY <1>b, <1>1, <2>2, <3>2, CountedSame
  <2>5. ASSUME NEW v \in Workers PROVE Honest(v)'
    <3>1. Honest(v) /\ (Busy(v) => work[v].job \in Jobs)
      BY <1>b, WorkShape DEF IInv
    <3> QED
      BY <1>b, <2>1, <2>2, <3>1 DEF Honest, Busy
  <2> QED
    BY <2>3, <2>4, <2>5 DEF IInv
<1> QED
  BY <1>2, <1>3, <1>4

LEMMA NextInv == ASSUME FeatureAssumption, IInv, [Next]_vars PROVE IInv'
<1>1. CASE UNCHANGED vars
  <2>1. \A j : Late(j)' = Late(j)
    BY <1>1 DEF vars, Late, Busy
  <2>2. TypeOK'
    BY <1>1 DEF IInv, TypeOK, vars
  <2>3. \A j \in Jobs : Counted(j)' /\ Agrees(j)'
    BY <1>1, <2>1, CountedSame, AgreesSame DEF vars
  <2>4. \A v \in Workers : Honest(v)'
    BY <1>1 DEF IInv, Honest, Busy, vars
  <2> QED
    BY <2>2, <2>3, <2>4 DEF IInv
<1> QED
  BY <1>1, Answers, Ingests, Claims, Dies, Retries, Finalizes, WorldMoves DEF Next, Step

LEMMA Invariance == FeatureAssumption /\ Spec => []IInv
<1>1. CASE FeatureAssumption
  <2>1. Init => IInv
    BY <1>1, InitInv
  <2>2. IInv /\ [Next]_vars => IInv'
    BY <1>1, NextInv
  <2> QED
    BY <2>1, <2>2, PTL DEF Spec
<1>2. CASE ~FeatureAssumption
  BY <1>2
<1> QED
  BY <1>1, <1>2

(* Every table keeps rows of its kind; above all the number of a claim stays a number of    *)
(* the attempts table, however many workers overlap and die (_claim).                       *)
THEOREM TypeCorrect == ASSUME FeatureAssumption PROVE Spec => []TypeOK
BY Invariance, PTL DEF IInv

(* A job is complete exactly when its one receipt is on record, with one closing attempt    *)
(* that agrees with it: late answers, lapsed leases and deaths neither reopen a job nor add *)
(* to it (_finalize, _retry and the immutability triggers).                                 *)
THEOREM Settlement == ASSUME FeatureAssumption PROVE Spec => []SettledOnRecord
<1>1. IInv => SettledOnRecord
  <2> SUFFICES ASSUME IInv, NEW j \in Jobs
               PROVE  /\ job[j].status = "complete" <=> receipt[j] # "none"
                      /\ receipt[j] # "none" <=> Cardinality(Closing(j)) = 1
                      /\ receipt[j] = "none" <=> Closing(j) = {}
                      /\ \A n \in Closing(j) : attempts[j][n] = "completed" <=> receipt[j] = "captured"
    BY DEF SettledOnRecord
  <2>1. Agrees(j)
    BY DEF IInv
  <2>2. CASE receipt[j] = "none"
    BY <2>1, <2>2, FS_EmptySet DEF Agrees
  <2>3. CASE receipt[j] # "none"
    <3>1. PICK n \in Numbers : Closing(j) = {n}
      BY <2>1, <2>3 DEF Agrees
    <3> QED
      BY <2>1, <2>3, <3>1, FS_Singleton DEF Agrees
  <2> QED
    BY <2>2, <2>3
<1> QED
  BY <1>1, Invariance, PTL

(* A job is given up for a failed request or artifact only when its window has closed or    *)
(* every attempt of the policy was claimed; a claim beyond the policy is one that lapsed    *)
(* or died, never a retry (run_feature_capture_once, _claim).                               *)
THEOREM GivenUp == ASSUME FeatureAssumption PROVE Spec => []GivenUpTruly
<1>1. IInv => GivenUpTruly
  BY DEF IInv, Counted, Agrees, GivenUpTruly, Failed
<1> QED
  BY <1>1, Invariance, PTL

(* Both together: what the stream says of a signal is true, for any number of workers,       *)
(* signals, attempts and faults.                                                             *)
THEOREM WhatIsSaidIsTrue == ASSUME FeatureAssumption PROVE Spec => []FeaturesTrue
<1>1. SettledOnRecord /\ GivenUpTruly => FeaturesTrue
  BY DEF FeaturesTrue
<1> QED
  BY <1>1, Settlement, GivenUp, PTL

-----------------------------------------------------------------------------
(* The verdicts of the signals implement Verdicts. *)

Final(j) == IF j \in rejected THEN "rejected" ELSE receipt[j]

(* A step that rejects no signal, writes no receipt and asks nothing is a stutter. *)
LEMMA Stutter ==
    ASSUME UNCHANGED <<rejected, receipt, asked>>
    PROVE  UNCHANGED Ledger!vars
BY DEF Ledger!vars

LEMMA StepImplements ==
    ASSUME FeatureAssumption, IInv, IInv', [Next]_vars
    PROVE  [Ledger!Next]_(Ledger!vars)
<1>b. /\ TypeOK /\ TypeOK'
      /\ \A j \in rejected : j \in Jobs /\ receipt[j] = "none"
  BY DEF IInv, TypeOK, Agrees, Row, FeatureAssumption
<1>1. ASSUME NEW w \in Workers, Ingest(w) PROVE Ledger!Settle
  <2>1. rejected \subseteq rejected' /\ UNCHANGED <<receipt, asked>>
    BY <1>1 DEF Ingest
  <2>2. \A j \in rejected' : j \in Jobs /\ receipt[j] = "none"
    BY <1>b, <2>1 DEF IInv, TypeOK, Agrees, Row, FeatureAssumption
  <2>3. ASSUME NEW j \in Jobs, Final(j)' # Final(j)
        PROVE  Final(j) = "none" /\ Final(j)' = "rejected"
    BY <2>1, <2>2, <2>3 DEF Final
  <2>4. \A j \in Jobs : Final(j)' \in Verdict \cup {"rejected"} \cup {"none"}
    BY <1>b DEF Final, TypeOK
  <2> QED
    BY <2>1, <2>3, <2>4 DEF Ledger!Settle, Final
<1>2. ASSUME NEW w \in Workers, Finalize(w) PROVE Ledger!Settle
  <2>j. PICK j \in Jobs : j = work[w].job
    BY <1>2, <1>b, WorkShape DEF Finalize, At, Busy
  <2>1. /\ UNCHANGED <<rejected, asked>>
        /\ \A k \in Jobs : receipt'[k] # receipt[k] => k = j /\ receipt[j] = "none"
    BY <1>2, <1>b, <2>j DEF Finalize, TypeOK
  <2>2. receipt'[j] # receipt[j] => j \notin rejected
    <3>1. receipt'[j] # receipt[j] => job'[j].status = "complete" /\ job[j].status # "absent"
      BY <1>2, <1>b, <2>j, WorkShape DEF Finalize, At, Busy, IInv, Honest, Agrees
    <3> QED
      BY <1>b, <3>1 DEF IInv, Agrees, TypeOK
  <2>3. ASSUME NEW k \in Jobs, Final(k)' # Final(k)
        PROVE  Final(k) = "none" /\ (Final(k)' \in Served => k \in asked)
    BY <2>1, <2>2, <2>3 DEF Final, IInv, Agrees
  <2>4. \A k \in Jobs : Final(k)' \in Verdict \cup {"rejected"} \cup {"none"}
    BY <1>b DEF Final, TypeOK
  <2> QED
    BY <2>1, <2>3, <2>4 DEF Ledger!Settle, Final, Served
<1>3. ASSUME NEW w \in Workers, Request(w) PROVE \E j \in Jobs : Ledger!Ask(j)
  <2>1. work[w].job \in Jobs
    BY <1>3, <1>b, WorkShape DEF Request, At, Busy
  <2> QED
    BY <1>3, <2>1 DEF Request, Ledger!Ask
<1>4. ASSUME NEW w \in Workers,
             \/ Claim(w) \/ ClaimNothing(w) \/ Refuse(w) \/ RequestFails(w) \/ PublishFails(w)
             \/ Answer(w) \/ Retry(w) \/ Die(w)
      PROVE  UNCHANGED Ledger!vars
  BY <1>4, Stutter DEF Claim, ClaimNothing, Refuse, RequestFails, PublishFails, Answer, Retry, Die
<1>5. ASSUME NEW j \in Jobs, Approve(j) \/ WindowMoves(j) \/ LeaseRunsOut(j)
      PROVE  UNCHANGED Ledger!vars
  BY <1>5, Stutter DEF Approve, WindowMoves, LeaseRunsOut
<1>6. CASE UNCHANGED vars
  BY <1>6, Stutter DEF vars
<1>7. ASSUME NEW w \in Workers, Ingest(w) \/ Step(w) \/ Die(w)
      PROVE  Ledger!Next \/ UNCHANGED Ledger!vars
  BY <1>1, <1>2, <1>3, <1>4, <1>7 DEF Ledger!Next, Step
<1> QED
  BY <1>5, <1>6, <1>7 DEF Next

(* A signal gets one verdict, a rejection or a receipt, which is kept; and it is called     *)
(* captured, unreadable or failed only when the SEC was asked (_ingest_next_job,            *)
(* _finalize).                                                                              *)
THEOREM VerdictsAreKept == ASSUME FeatureAssumption PROVE Spec => Ledger!Spec
<1>1. Init => Ledger!Init
  BY DEF Init, Ledger!Init
<1>2. IInv /\ IInv' /\ [Next]_vars => [Ledger!Next]_(Ledger!vars)
  BY StepImplements
<1> QED
  BY <1>1, <1>2, Invariance, PTL DEF Spec, Ledger!Spec
=============================================================================
