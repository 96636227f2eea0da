----------------------- MODULE OperationalIncidents -----------------------
(***************************************************************************)
(* execution/operational_alerts.py, OperationalIncidentTracker, and the    *)
(* background processor of `ops live-canary --loop --notify` (cli.py) that *)
(* feeds it: outage and recovery notices of the canary, over a table of    *)
(* incidents shared by every process on one ledger and fenced by a mutex.  *)
(*                                                                         *)
(* A row that is settled (recovered, with nothing left to report) is never *)
(* read again, so its identifier is reused here.  Times are ages, counted  *)
(* in ticks that are long against a cycle: no tick falls between a cycle's *)
(* outcome and the transaction that records it, while one may fall before  *)
(* or during the notice that follows, for the machine may be suspended.    *)
(***************************************************************************)
EXTENDS Naturals, Sequences, FiniteSets

CONSTANTS
    Workers,        \* processes that run the canary on this ledger
    Incidents,      \* identifiers of rows
    Threshold,      \* outage_threshold_seconds, in ticks
    RetryAfter,     \* delivery_retry_seconds, in ticks
    MaxQueue,       \* bound on operational_transitions
    MaxFaults       \* bound on lost transitions, receipts and responses, and crashes

ASSUME IncidentAssumption ==
    /\ Threshold \in Nat \ {0}
    /\ RetryAfter \in Nat \ {0}
    /\ MaxQueue \in Nat
    /\ MaxFaults \in Nat
    /\ "nobody" \notin Workers

VARIABLES
    row,        \* operational_incidents
    mutex,      \* who holds _operational_mutex over a send
    queue,      \* operational_transitions of each process
    batch,      \* the transitions it has taken from the queue and not recorded
    actions,    \* the notices it has reserved and not dispatched
    sending,    \* the notice it is sending
    accepted,   \* how often the provider accepted each notice of each incident
    heard,      \* the last notice accepted: what the operator believes
    up,         \* did the last cycle succeed?
    faults

process == <<queue, batch, actions, sending>>
history == <<accepted, heard, up>>
vars == <<row, mutex, process, history, faults>>

Never  == RetryAfter + 1            \* an attempt that was never made is long ago
Nobody == "nobody"
Phases == {"outage", "recovery"}
Outcomes == {"failure", "success"}

Row == [state : {"none", "open", "recovered"},
        age : 0 .. Threshold,               \* since started_at, up to the threshold
        tried : 0 .. Never,                 \* since outage_last_attempt_at
        told : BOOLEAN,                     \* outage_notified_at
        retried : 0 .. Never,               \* since recovery_last_attempt_at
        retold : BOOLEAN,                   \* recovery_notified_at
        abandoned : BOOLEAN]                \* recovery_abandoned_at

NoRow  == [state |-> "none", age |-> 0, tried |-> Never, told |-> FALSE,
           retried |-> Never, retold |-> FALSE, abandoned |-> FALSE]
NewRow == [NoRow EXCEPT !.state = "open"]

\* An action carries reserved_at_utc; current says whether the row still has that stamp.
Actions  == [incident : Incidents, phase : Phases, current : BOOLEAN]
Action(i, ph) == [incident |-> i, phase |-> ph, current |-> TRUE]

Sends  == [stage : {"asked", "answered"}, incident : Incidents, phase : Phases]
NoSend == [stage |-> "none"]
Unsent == [ph \in Phases |-> 0]

Open == {i \in Incidents : row[i].state = "open"}

\* Recovered after an outage that may have been reported, and not yet reported itself.
Pending(i) ==
    /\ row[i].state = "recovered"
    /\ row[i].tried # Never
    /\ ~ row[i].retold
    /\ ~ row[i].abandoned

Held(w)  == {actions[w][k].incident : k \in DOMAIN actions[w]}
              \cup {i \in Incidents : sending[w] # NoSend /\ sending[w].incident = i}
Free == {i \in Incidents : row[i].state # "open" /\ ~ Pending(i)
                             /\ \A w \in Workers : i \notin Held(w)}

\* A new reservation moves the stamp that older actions of the row were matched by.
Superseded(i, ph) ==
    [w \in Workers |-> [k \in DOMAIN actions[w] |->
        IF actions[w][k].incident = i /\ actions[w][k].phase = ph
          THEN [actions[w][k] EXCEPT !.current = FALSE] ELSE actions[w][k]]]

Reserve(w, i, ph) ==
    LET others == Superseded(i, ph)
    IN  actions' = [others EXCEPT ![w] = Append(@, Action(i, ph))]

Init ==
    /\ row = [i \in Incidents |-> NoRow]
    /\ mutex = Nobody
    /\ queue = [w \in Workers |-> <<>>]
    /\ batch = [w \in Workers |-> <<>>]
    /\ actions = [w \in Workers |-> <<>>]
    /\ sending = [w \in Workers |-> NoSend]
    /\ accepted = [i \in Incidents |-> Unsent]
    /\ heard = "nothing"
    /\ up = TRUE
    /\ faults = 0

-----------------------------------------------------------------------------
(* Cycles of the canary, and the queue they feed. *)

Cycle(w) ==
    /\ Len(queue[w]) < MaxQueue
    /\ \E outcome \in Outcomes :
         /\ queue' = [queue EXCEPT ![w] = Append(@, outcome)]
         /\ up' = (outcome = "success")
    /\ UNCHANGED <<row, mutex, batch, actions, sending, accepted, heard, faults>>

Idle(w) == batch[w] = <<>> /\ actions[w] = <<>> /\ sending[w] = NoSend

\* process_operational_transitions: everything observed so far is one batch.
TakeBatch(w) ==
    /\ Idle(w)
    /\ queue[w] # <<>>
    /\ batch' = [batch EXCEPT ![w] = queue[w]]
    /\ queue' = [queue EXCEPT ![w] = <<>>]
    /\ UNCHANGED <<row, mutex, actions, sending, history, faults>>

Recording(w, outcome) ==
    /\ batch[w] # <<>>
    /\ Head(batch[w]) = outcome
    /\ batch' = [batch EXCEPT ![w] = Tail(@)]

\* Nobody holds the mutex over a send, and the database answers in time.
Fenced == mutex = Nobody

-----------------------------------------------------------------------------
(* record_failure *)

\* Mutant: a renewed failure leaves a pending recovery notice alone.
KeepPending(r) == r

Abandoned(r) == [i \in Incidents |-> IF Pending(i) THEN [r[i] EXCEPT !.abandoned = TRUE] ELSE r[i]]

FirstFailure(w) ==
    /\ Fenced
    /\ Recording(w, "failure")
    /\ Open = {}
    /\ \E i \in Free :
         /\ row' = [Abandoned(row) EXCEPT ![i] = NewRow]
         /\ accepted' = [accepted EXCEPT ![i] = Unsent]
    /\ UNCHANGED <<mutex, queue, actions, sending, heard, up, faults>>

\* Mutant: an outage is attempted once.
OutageDueOnce(i) == row[i].age = Threshold /\ row[i].tried = Never

OutageDue(i) ==
    /\ ~ row[i].told
    /\ row[i].age = Threshold
    /\ row[i].tried >= RetryAfter

FurtherFailure(w, i) ==
    /\ Fenced
    /\ Recording(w, "failure")
    /\ i \in Open
    /\ \/ /\ OutageDue(i)
          /\ row' = [Abandoned(row) EXCEPT ![i].tried = 0]
          /\ Reserve(w, i, "outage")
       \/ /\ ~ OutageDue(i)
          /\ row' = Abandoned(row)
          /\ UNCHANGED actions
    /\ UNCHANGED <<mutex, queue, sending, history, faults>>

-----------------------------------------------------------------------------
(* record_success *)

Recovers(w, i) ==
    /\ Fenced
    /\ Recording(w, "success")
    /\ i \in Open
    /\ IF row[i].tried = Never
         THEN row' = [row EXCEPT ![i].state = "recovered"] /\ UNCHANGED actions
         ELSE /\ row' = [row EXCEPT ![i].state = "recovered", ![i].retried = 0]
              /\ Reserve(w, i, "recovery")
    /\ UNCHANGED <<mutex, queue, sending, history, faults>>

\* Mutant: a recovery is attempted once.
NeverRetry(w, i) ==
    /\ Fenced
    /\ Recording(w, "success")
    /\ Open = {}
    /\ Pending(i)
    /\ UNCHANGED <<row, mutex, queue, actions, sending, history, faults>>

RetryRecovery(w, i) ==
    /\ Fenced
    /\ Recording(w, "success")
    /\ Open = {}
    /\ Pending(i)
    /\ IF row[i].retried >= RetryAfter
         THEN row' = [row EXCEPT ![i].retried = 0] /\ Reserve(w, i, "recovery")
         ELSE UNCHANGED <<row, actions>>
    /\ UNCHANGED <<mutex, queue, sending, history, faults>>

NothingToRecover(w) ==
    /\ Fenced
    /\ Recording(w, "success")
    /\ Open = {}
    /\ \A i \in Incidents : ~ Pending(i)
    /\ UNCHANGED <<row, mutex, queue, actions, sending, history, faults>>

\* record_operational_transition isolates an exception: the mutex was held for longer than
\* its 100 ms, or the database was locked for as long.
LoseTransition(w) ==
    /\ faults < MaxFaults
    /\ faults' = faults + 1
    /\ \E outcome \in Outcomes : Recording(w, outcome)
    /\ UNCHANGED <<row, mutex, queue, actions, sending, history>>

-----------------------------------------------------------------------------
(* dispatch *)

Dispatching(w) == batch[w] = <<>> /\ actions[w] # <<>> /\ sending[w] = NoSend

\* Mutant: what was reserved is sent.
AnyReserved(a) == TRUE

\* _dispatchable: the exact reservation, in the life cycle it was made for.
Dispatchable(a) ==
    LET r == row[a.incident]
    IN  /\ a.current
        /\ \/ a.phase = "outage" /\ r.state = "open" /\ ~ r.told
           \/ a.phase = "recovery" /\ r.state = "recovered" /\ ~ r.retold /\ ~ r.abandoned

\* Mutant: the mutex is released before the notice is sent.
BeginUnfenced(w) ==
    LET a == Head(actions[w])
    IN  /\ Dispatching(w)
        /\ Fenced
        /\ Dispatchable(a)
        /\ sending' = [sending EXCEPT ![w] = [stage |-> "asked", incident |-> a.incident,
                                                   phase |-> a.phase]]
        /\ actions' = [actions EXCEPT ![w] = Tail(@)]
        /\ UNCHANGED <<row, mutex, queue, batch, history, faults>>

BeginSend(w) ==
    LET a == Head(actions[w])
    IN  /\ Dispatching(w)
        /\ Fenced
        /\ Dispatchable(a)
        /\ mutex' = w
        /\ sending' = [sending EXCEPT ![w] = [stage |-> "asked", incident |-> a.incident,
                                                   phase |-> a.phase]]
        /\ actions' = [actions EXCEPT ![w] = Tail(@)]
        /\ UNCHANGED <<row, queue, batch, history, faults>>

DropStale(w) ==
    /\ Dispatching(w)
    /\ Fenced
    /\ ~ Dispatchable(Head(actions[w]))
    /\ actions' = [actions EXCEPT ![w] = Tail(@)]
    /\ UNCHANGED <<row, mutex, queue, batch, sending, history, faults>>

\* The mutex is held by another process for longer than its 100 ms.
DropContended(w) ==
    /\ Dispatching(w)
    /\ ~ Fenced
    /\ actions' = [actions EXCEPT ![w] = Tail(@)]
    /\ UNCHANGED <<row, mutex, queue, batch, sending, history, faults>>

Release(w) ==
    /\ mutex' = Nobody
    /\ sending' = [sending EXCEPT ![w] = NoSend]

\* Mutant: a notice that was refused is recorded like one that was delivered.
RefuseRecorded(w) ==
    LET i == sending[w].incident
    IN  /\ sending[w].stage = "asked"
        /\ row' = IF sending[w].phase = "outage" THEN [row EXCEPT ![i].told = TRUE]
                   ELSE [row EXCEPT ![i].retold = TRUE]
        /\ Release(w)
        /\ UNCHANGED <<queue, batch, actions, history, faults>>

Accept(a) ==
    /\ accepted' = [accepted EXCEPT ![a.incident][a.phase] = IF @ < 2 THEN @ + 1 ELSE @]
    /\ heard' = a.phase
    /\ UNCHANGED up

Deliver(w) ==
    /\ sending[w].stage = "asked"
    /\ Accept(sending[w])
    /\ sending' = [sending EXCEPT ![w].stage = "answered"]
    /\ UNCHANGED <<row, mutex, queue, batch, actions, faults>>

\* An error or the deadline of five seconds, and nothing was accepted.
Refuse(w) ==
    /\ sending[w].stage = "asked"
    /\ Release(w)
    /\ UNCHANGED <<row, queue, batch, actions, history, faults>>

\* The deadline passes after the provider accepted the notice.
LoseResponse(w) ==
    /\ sending[w].stage = "asked"
    /\ faults < MaxFaults
    /\ faults' = faults + 1
    /\ Accept(sending[w])
    /\ Release(w)
    /\ UNCHANGED <<row, queue, batch, actions>>

\* _record_delivery_success_locked
CommitReceipt(w) ==
    LET i == sending[w].incident
    IN  /\ sending[w].stage = "answered"
        /\ IF sending[w].phase = "outage"
             THEN row' = IF row[i].state = "open" THEN [row EXCEPT ![i].told = TRUE] ELSE row
             ELSE row' = IF row[i].state = "recovered" /\ ~ row[i].abandoned
                           THEN [row EXCEPT ![i].retold = TRUE] ELSE row
        /\ Release(w)
        /\ UNCHANGED <<queue, batch, actions, history, faults>>

LoseReceipt(w) ==
    /\ sending[w].stage = "answered"
    /\ faults < MaxFaults
    /\ faults' = faults + 1
    /\ Release(w)
    /\ UNCHANGED <<row, queue, batch, actions, history>>

-----------------------------------------------------------------------------

\* The process dies; Windows hands an abandoned mutex to the next one that waits.
Crash(w) ==
    /\ faults < MaxFaults
    /\ ~ (Idle(w) /\ queue[w] = <<>>)
    /\ faults' = faults + 1
    /\ queue' = [queue EXCEPT ![w] = <<>>]
    /\ batch' = [batch EXCEPT ![w] = <<>>]
    /\ actions' = [actions EXCEPT ![w] = <<>>]
    /\ sending' = [sending EXCEPT ![w] = NoSend]
    /\ mutex' = IF mutex = w THEN Nobody ELSE mutex
    /\ UNCHANGED <<row, history>>

\* Mutant: the age of an attempt overtakes the one that stands for no attempt.
OlderAlways(t) == t + 1

Older(t) == IF t < RetryAfter THEN t + 1 ELSE t

CaughtUp == \A w \in Workers : queue[w] = <<>> /\ batch[w] = <<>>

Tick ==
    /\ CaughtUp
    /\ row' = [i \in Incidents |->
                 [row[i] EXCEPT !.age = IF row[i].state = "open" /\ @ < Threshold THEN @ + 1 ELSE @,
                                !.tried = Older(@), !.retried = Older(@)]]
    /\ row' # row
    /\ UNCHANGED <<mutex, process, history, faults>>

Record(w) ==
    \/ FirstFailure(w) \/ NothingToRecover(w)
    \/ \E i \in Incidents : FurtherFailure(w, i) \/ Recovers(w, i) \/ RetryRecovery(w, i)

Dispatch(w) ==
    \/ BeginSend(w) \/ DropStale(w) \/ DropContended(w)
    \/ CommitReceipt(w)

Next ==
    \/ \E w \in Workers :
         \/ Cycle(w) \/ TakeBatch(w) \/ Record(w) \/ LoseTransition(w) \/ Dispatch(w)
         \/ Deliver(w) \/ Refuse(w) \/ LoseResponse(w) \/ LoseReceipt(w) \/ Crash(w)
    \/ Tick

Spec == Init /\ [][Next]_vars

\* Cycles and their processor keep running, and a provider that is asked for ever to report
\* outages, or recoveries, does so at last.  A cycle waits poll_delay_seconds before the
\* next, in which the processor catches up and time passes.
Running ==
    /\ []<>CaughtUp
    /\ SF_vars(Tick)
    /\ \A w \in Workers :
         /\ WF_vars(Cycle(w))
         /\ WF_vars(TakeBatch(w))
         /\ WF_vars(Record(w))
         /\ WF_vars(Dispatch(w))
         /\ WF_vars(Deliver(w) \/ Refuse(w))
         /\ \A ph \in Phases : SF_vars(Deliver(w) /\ sending[w].phase = ph)

FairSpec == Spec /\ Running

-----------------------------------------------------------------------------
(* Properties. *)

TypeOK ==
    /\ row \in [Incidents -> Row]
    /\ mutex \in Workers \cup {Nobody}
    /\ queue \in [Workers -> Seq(Outcomes)]
    /\ batch \in [Workers -> Seq(Outcomes)]
    /\ actions \in [Workers -> Seq(Actions)]
    /\ sending \in [Workers -> Sends \cup {NoSend}]
    /\ accepted \in [Incidents -> [Phases -> 0 .. 2]]
    /\ heard \in Phases \cup {"nothing"}
    /\ up \in BOOLEAN
    /\ faults \in 0 .. MaxFaults

\* record_failure and record_success: an outage is never open beside another, nor beside a
\* recovery that is still to be reported, so no retry can report a recovery over an outage.
OneStory ==
    \A i, j \in Incidents :
        (row[i].state = "open" \/ Pending(i)) /\ (row[j].state = "open" \/ Pending(j)) => i = j

\* dispatch under the mutex: whatever another process records meanwhile, the provider
\* accepts an outage only while that outage is open, and a recovery only while no outage is.
Truthful(i, ph) ==
    IF ph = "outage"
      THEN row[i].state = "open"
      ELSE row[i].state = "recovered" /\ ~ row[i].abandoned /\ Open = {}

NoticesAreTrue ==
    [][\A i \in Incidents : \A ph \in Phases :
          accepted'[i][ph] > accepted[i][ph] => Truthful(i, ph)]_vars

\* _record_delivery_success_locked: a notice is on record as delivered only if it was, and
\* the row it is recorded on is still the incident it was about.
ReceiptsTrue ==
    \A i \in Incidents :
        /\ row[i].told => accepted[i]["outage"] > 0
        /\ row[i].retold => accepted[i]["recovery"] > 0

\* The rows tell one story and a true one: no outage or owed recovery beside another, and
\* no receipt that the provider did not give for that very notice.
StoryTrue == OneStory /\ ReceiptsTrue

\* Without crashes and lost answers, two processes on one ledger, each with reservations
\* of its own, report an outage once and its recovery once.
NoticedOnce == faults > 0 \/ \A i \in Incidents : \A ph \in Phases : accepted[i][ph] <= 1

\* "and once when it recovers": when no outage is open and no notice outstanding, the last
\* the operator heard is not an outage.
RecoveryHeard ==
    (/\ Open = {}
     /\ \A i \in Incidents : ~ Pending(i)
     /\ \A w \in Workers : sending[w] = NoSend)
        => heard # "outage"

\* "must never suppress the outage indefinitely": if every cycle fails from some time on,
\* the operator hears of it, whatever was refused, lost, or killed before, and nothing
\* contradicts it later.
OutageHeard == <>[](~ up) => <>[](heard = "outage")

\* A recovery that is owed is reported in the end, unless a renewed failure abandons it.
RecoverySettled == \A i \in Incidents : Pending(i) ~> ~ Pending(i)
=============================================================================
