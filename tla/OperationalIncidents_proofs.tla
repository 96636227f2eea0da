--------------------- MODULE OperationalIncidents_proofs ---------------------
(* Theorems about OperationalIncidents, for any processes, incidents,        *)
(* threshold, retry interval and number of faults.                           *)
EXTENDS OperationalIncidents, TLAPS

USE IncidentAssumption

-----------------------------------------------------------------------------
(* Rows. *)

LEMMA NewRowType ==
    /\ NoRow \in Row /\ NoRow.state = "none" /\ ~ NoRow.told /\ ~ NoRow.retold
    /\ NewRow \in Row /\ NewRow.state = "open" /\ ~ NewRow.told /\ ~ NewRow.retold
<1>1. /\ NoRow \in Row /\ NoRow.state = "none" /\ ~ NoRow.told /\ ~ NoRow.retold
  BY DEF NoRow, Row, Never
<1>2. /\ NewRow \in Row /\ NewRow.state = "open"
      /\ NewRow.told = NoRow.told /\ NewRow.retold = NoRow.retold
  BY <1>1 DEF NewRow, Row
<1> QED
  BY <1>1, <1>2

(* Abandoning changes nothing but recovery_abandoned_at, of pending rows only. *)
LEMMA AbandonedRows ==
    ASSUME row \in [Incidents -> Row]
    PROVE  /\ Abandoned(row) \in [Incidents -> Row]
           /\ \A i \in Incidents :
                LET r == Abandoned(row)[i]
                IN  /\ r.state = row[i].state /\ r.age = row[i].age
                    /\ r.tried = row[i].tried /\ r.told = row[i].told
                    /\ r.retried = row[i].retried /\ r.retold = row[i].retold
                    /\ r.abandoned <=> (row[i].abandoned \/ Pending(i))
<1> SUFFICES ASSUME NEW i \in Incidents
             PROVE  LET r == Abandoned(row)[i]
                    IN  /\ r \in Row
                        /\ r.state = row[i].state /\ r.age = row[i].age
                        /\ r.tried = row[i].tried /\ r.told = row[i].told
                        /\ r.retried = row[i].retried /\ r.retold = row[i].retold
                        /\ r.abandoned <=> (row[i].abandoned \/ Pending(i))
  BY DEF Abandoned
<1>1. row[i] \in Row
  OBVIOUS
<1>2. CASE Pending(i)
  <2>1. Abandoned(row)[i] = [row[i] EXCEPT !.abandoned = TRUE]
    BY <1>2 DEF Abandoned
  <2> QED
    BY <1>1, <1>2, <2>1 DEF Row
<1>3. CASE ~ Pending(i)
  <2>1. Abandoned(row)[i] = row[i]
    BY <1>3 DEF Abandoned
  <2>2. row[i].abandoned \in BOOLEAN
    BY <1>1 DEF Row
  <2> QED
    BY <1>1, <1>3, <2>1, <2>2
<1> QED
  BY <1>2, <1>3

LEMMA OlderType == ASSUME NEW t \in 0 .. Never
                   PROVE  Older(t) \in 0 .. Never /\ (Older(t) = Never <=> t = Never)
BY DEF Older, Never

LEMMA AppendElements ==
    ASSUME NEW S, NEW s \in Seq(S), NEW e \in S
    PROVE  /\ Append(s, e) \in Seq(S)
           /\ \A k \in DOMAIN Append(s, e) :
                 \/ k \in DOMAIN s /\ Append(s, e)[k] = s[k]
                 \/ k = Len(s) + 1 /\ Append(s, e)[k] = e
OBVIOUS

LEMMA TailElements ==
    ASSUME NEW S, NEW s \in Seq(S), s # <<>>
    PROVE  \A k \in DOMAIN Tail(s) : k + 1 \in DOMAIN s /\ Tail(s)[k] = s[k + 1]
OBVIOUS

(* What a reservation does to the notices the processes hold. *)
LEMMA ReserveActions ==
    ASSUME TypeOK, NEW w \in Workers, NEW i \in Incidents, NEW ph \in Phases, Reserve(w, i, ph)
    PROVE  /\ actions' \in [Workers -> Seq(Actions)]
           /\ \A v \in Workers : \A k \in DOMAIN actions'[v] :
                 \/ actions'[v][k].incident = i
                 \/ k \in DOMAIN actions[v] /\ actions'[v][k].incident = actions[v][k].incident
<1> DEFINE others == Superseded(i, ph)
<1>1. \A v \in Workers : /\ others[v] \in Seq(Actions)
                         /\ DOMAIN others[v] = DOMAIN actions[v]
                         /\ \A k \in DOMAIN actions[v] :
                               others[v][k].incident = actions[v][k].incident
  <2> SUFFICES ASSUME NEW v \in Workers
               PROVE  /\ others[v] \in Seq(Actions)
                      /\ DOMAIN others[v] = DOMAIN actions[v]
                      /\ \A k \in DOMAIN actions[v] :
                            others[v][k].incident = actions[v][k].incident
    OBVIOUS
  <2> DEFINE f(k) == IF actions[v][k].incident = i /\ actions[v][k].phase = ph
                       THEN [actions[v][k] EXCEPT !.current = FALSE] ELSE actions[v][k]
  <2>1. others[v] = [k \in DOMAIN actions[v] |-> f(k)]
    BY DEF Superseded
  <2>2. actions[v] \in Seq(Actions)
    BY DEF TypeOK
  <2>3. \A k \in DOMAIN actions[v] : f(k) \in Actions /\ f(k).incident = actions[v][k].incident
    <3> SUFFICES ASSUME NEW k \in DOMAIN actions[v]
                 PROVE  f(k) \in Actions /\ f(k).incident = actions[v][k].incident
      OBVIOUS
    <3>1. actions[v][k] \in Actions
      BY <2>2
    <3> QED
      BY <3>1 DEF Actions
  <2>4. Len(actions[v]) \in Nat /\ DOMAIN actions[v] = 1 .. Len(actions[v])
    BY <2>2
  <2> HIDE DEF f
  <2>5. [k \in DOMAIN actions[v] |-> f(k)] \in Seq(Actions)
    BY <2>3, <2>4
  <2> QED
    BY <2>1, <2>3, <2>5
<1>2. Action(i, ph) \in Actions /\ Action(i, ph).incident = i
  BY DEF Action, Actions
<1>3. others = [v \in Workers |-> others[v]]
  BY DEF Superseded
<1> HIDE DEF others
<1>4. actions' = [others EXCEPT ![w] = Append(@, Action(i, ph))]
  BY DEF Reserve, others
<1>5. \A v \in Workers : actions'[v] = IF v = w THEN Append(others[v], Action(i, ph)) ELSE others[v]
  BY <1>3, <1>4
<1> QED
  <2>1. actions' \in [Workers -> Seq(Actions)]
    BY <1>1, <1>2, <1>3, <1>4, <1>5
  <2>2. ASSUME NEW v \in Workers, NEW k \in DOMAIN actions'[v]
        PROVE  \/ actions'[v][k].incident = i
               \/ k \in DOMAIN actions[v] /\ actions'[v][k].incident = actions[v][k].incident
    <3>1. CASE v # w
      BY <1>1, <1>5, <2>2, <3>1
    <3>2. CASE v = w
      <4>1. actions'[v] = Append(others[v], Action(i, ph))
        BY <1>5, <3>2
      <4>2. \/ k \in DOMAIN others[v] /\ actions'[v][k] = others[v][k]
            \/ actions'[v][k] = Action(i, ph)
        BY <1>1, <1>2, <4>1, <2>2, AppendElements
      <4> QED
        BY <1>1, <1>2, <4>2
    <3> QED
      BY <3>1, <3>2
  <2> QED
    BY <2>1, <2>2
-----------------------------------------------------------------------------
(* Types. *)

LEMMA InitType == Init => TypeOK
<1> SUFFICES ASSUME Init PROVE TypeOK
  OBVIOUS
<1>1. row \in [Incidents -> Row]
  BY NewRowType DEF Init
<1>2. accepted \in [Incidents -> [Phases -> 0 .. 2]]
  BY DEF Init, Unsent
<1> QED
  BY <1>1, <1>2 DEF Init, TypeOK

LEMMA RecordingType ==
    ASSUME TypeOK, NEW w \in Workers, NEW outcome, Recording(w, outcome)
    PROVE  batch' \in [Workers -> Seq(Outcomes)]
<1>1. batch[w] \in Seq(Outcomes) /\ batch[w] # <<>>
  BY DEF TypeOK, Recording
<1>2. Tail(batch[w]) \in Seq(Outcomes)
  BY <1>1
<1> QED
  BY <1>2 DEF TypeOK, Recording

LEMMA ReleaseType ==
    ASSUME TypeOK, NEW w \in Workers, Release(w)
    PROVE  mutex' \in Workers \cup {Nobody} /\ sending' \in [Workers -> Sends \cup {NoSend}]
BY DEF TypeOK, Release

(* A process that is asking or was answered holds a notice. *)
LEMMA SendType ==
    ASSUME TypeOK, NEW w \in Workers, sending[w].stage \in {"asked", "answered"}
    PROVE  /\ sending[w] \in Sends
           /\ sending[w].incident \in Incidents
           /\ sending[w].phase \in Phases
BY DEF TypeOK, Sends, NoSend

LEMMA AcceptType ==
    ASSUME TypeOK, NEW a \in Sends, Accept(a)
    PROVE  accepted' \in [Incidents -> [Phases -> 0 .. 2]] /\ heard' \in Phases /\ up' \in BOOLEAN
<1>1. a.incident \in Incidents /\ a.phase \in Phases
  BY DEF Sends
<1>2. accepted[a.incident] \in [Phases -> 0 .. 2]
  BY <1>1 DEF TypeOK
<1> QED
  BY <1>1, <1>2 DEF TypeOK, Accept

LEMMA RecordType == ASSUME TypeOK, NEW w \in Workers, Record(w) PROVE TypeOK'
<1>1. CASE FirstFailure(w)
  <2>1. batch' \in [Workers -> Seq(Outcomes)]
    BY <1>1, RecordingType DEF FirstFailure
  <2>2. row' \in [Incidents -> Row]
    <3>1. Abandoned(row) \in [Incidents -> Row] /\ NewRow \in Row
      BY NewRowType, AbandonedRows DEF TypeOK
    <3> QED
      BY <1>1, <3>1 DEF FirstFailure
  <2>3. accepted' \in [Incidents -> [Phases -> 0 .. 2]]
    <3>1. Unsent \in [Phases -> 0 .. 2]
      BY DEF Unsent
    <3> QED
      BY <1>1, <3>1 DEF FirstFailure, TypeOK
  <2> QED
    BY <1>1, <2>1, <2>2, <2>3 DEF FirstFailure, TypeOK
<1>2. CASE NothingToRecover(w)
  <2>1. batch' \in [Workers -> Seq(Outcomes)]
    BY <1>2, RecordingType DEF NothingToRecover
  <2> QED
    BY <1>2, <2>1 DEF NothingToRecover, TypeOK, history
<1>3. ASSUME NEW i \in Incidents, FurtherFailure(w, i) PROVE TypeOK'
  <2>1. batch' \in [Workers -> Seq(Outcomes)]
    BY <1>3, RecordingType DEF FurtherFailure
  <2>2. row' \in [Incidents -> Row]
    <3>1. Abandoned(row)[i] \in Row /\ Abandoned(row) \in [Incidents -> Row]
      BY AbandonedRows DEF TypeOK
    <3>2. [Abandoned(row)[i] EXCEPT !.tried = 0] \in Row
      BY <3>1 DEF Row, Never
    <3> QED
      BY <1>3, <3>1, <3>2 DEF FurtherFailure
  <2>3. actions' \in [Workers -> Seq(Actions)]
    BY <1>3, ReserveActions DEF FurtherFailure, Phases, TypeOK
  <2> QED
    BY <1>3, <2>1, <2>2, <2>3 DEF FurtherFailure, TypeOK, history
<1>4. ASSUME NEW i \in Incidents, Recovers(w, i) PROVE TypeOK'
  <2>1. batch' \in [Workers -> Seq(Outcomes)]
    BY <1>4, RecordingType DEF Recovers
  <2>2. row' \in [Incidents -> Row]
    <3>1. row[i] \in Row
      BY DEF TypeOK
    <3>2. [row[i] EXCEPT !.state = "recovered"] \in Row
      BY <3>1 DEF Row
    <3>3. [row[i] EXCEPT !.state = "recovered", !.retried = 0] \in Row
      BY <3>1, 0 \in 0 .. Never DEF Row, Never
    <3> QED
      BY <1>4, <3>2, <3>3 DEF Recovers, TypeOK
  <2>3. actions' \in [Workers -> Seq(Actions)]
    BY <1>4, ReserveActions DEF Recovers, Phases, TypeOK
  <2> QED
    BY <1>4, <2>1, <2>2, <2>3 DEF Recovers, TypeOK, history
<1>5. ASSUME NEW i \in Incidents, RetryRecovery(w, i) PROVE TypeOK'
  <2>1. batch' \in [Workers -> Seq(Outcomes)]
    BY <1>5, RecordingType DEF RetryRecovery
  <2>2. row' \in [Incidents -> Row]
    <3>1. row[i] \in Row
      BY DEF TypeOK
    <3>2. [row[i] EXCEPT !.retried = 0] \in Row
      BY <3>1 DEF Row, Never
    <3> QED
      BY <1>5, <3>2 DEF RetryRecovery, TypeOK
  <2>3. actions' \in [Workers -> Seq(Actions)]
    BY <1>5, ReserveActions DEF RetryRecovery, Phases, TypeOK
  <2> QED
    BY <1>5, <2>1, <2>2, <2>3 DEF RetryRecovery, TypeOK, history
<1> QED
  BY <1>1, <1>2, <1>3, <1>4, <1>5 DEF Record

LEMMA DispatchType ==
    ASSUME TypeOK, NEW w \in Workers,
           Dispatch(w) \/ Deliver(w) \/ Refuse(w) \/ LoseResponse(w) \/ LoseReceipt(w)
    PROVE  TypeOK'
<1>1. CASE BeginSend(w)
  <2>1. actions[w] \in Seq(Actions) /\ actions[w] # <<>>
    BY <1>1 DEF BeginSend, Dispatching, TypeOK
  <2>2. Head(actions[w]) \in Actions /\ Tail(actions[w]) \in Seq(Actions)
    BY <2>1
  <2>3. [stage |-> "asked", incident |-> Head(actions[w]).incident,
         phase |-> Head(actions[w]).phase] \in Sends
    BY <2>2 DEF Actions, Sends
  <2> QED
    BY <1>1, <2>2, <2>3 DEF BeginSend, TypeOK, history
<1>2. CASE DropStale(w) \/ DropContended(w)
  <2>1. actions[w] \in Seq(Actions) /\ actions[w] # <<>>
    BY <1>2 DEF DropStale, DropContended, Dispatching, TypeOK
  <2>2. Tail(actions[w]) \in Seq(Actions)
    BY <2>1
  <2> QED
    BY <1>2, <2>2 DEF DropStale, DropContended, TypeOK, history
<1>3. CASE CommitReceipt(w)
  <2>1. sending[w].incident \in Incidents
    BY <1>3, SendType DEF CommitReceipt
  <2>2. row' \in [Incidents -> Row]
    <3>1. row[sending[w].incident] \in Row
      BY <2>1 DEF TypeOK
    <3>2. /\ [row[sending[w].incident] EXCEPT !.told = TRUE] \in Row
          /\ [row[sending[w].incident] EXCEPT !.retold = TRUE] \in Row
      BY <3>1 DEF Row
    <3> QED
      BY <1>3, <3>2 DEF CommitReceipt, TypeOK
  <2> QED
    BY <1>3, <2>2, ReleaseType DEF CommitReceipt, TypeOK, history
<1>4. CASE Deliver(w)
  <2>1. sending[w] \in Sends
    BY <1>4, SendType DEF Deliver
  <2>2. [sending[w] EXCEPT !.stage = "answered"] \in Sends
    BY <2>1 DEF Sends
  <2> QED
    BY <1>4, <2>1, <2>2, AcceptType DEF Deliver, TypeOK
<1>5. CASE Refuse(w) \/ LoseReceipt(w)
  BY <1>5, ReleaseType DEF Refuse, LoseReceipt, TypeOK, history
<1>6. CASE LoseResponse(w)
  <2>1. sending[w] \in Sends
    BY <1>6, SendType DEF LoseResponse
  <2> QED
    BY <1>6, <2>1, AcceptType, ReleaseType DEF LoseResponse, TypeOK
<1> QED
  BY <1>1, <1>2, <1>3, <1>4, <1>5, <1>6 DEF Dispatch

(* Time passes: an age never reaches the one that stands for no attempt. *)
LEMMA TickRows ==
    ASSUME TypeOK, Tick
    PROVE  /\ row' \in [Incidents -> Row]
           /\ \A i \in Incidents :
                /\ row'[i].state = row[i].state /\ row'[i].told = row[i].told
                /\ row'[i].retold = row[i].retold /\ row'[i].abandoned = row[i].abandoned
                /\ row'[i].tried = Never <=> row[i].tried = Never
<1> SUFFICES ASSUME NEW i \in Incidents
             PROVE  /\ row'[i] \in Row
                    /\ row'[i].state = row[i].state /\ row'[i].told = row[i].told
                    /\ row'[i].retold = row[i].retold /\ row'[i].abandoned = row[i].abandoned
                    /\ row'[i].tried = Never <=> row[i].tried = Never
  BY DEF Tick
<1> DEFINE age == IF row[i].state = "open" /\ row[i].age < Threshold THEN row[i].age + 1
                  ELSE row[i].age
<1>1. row[i] \in Row
  BY DEF TypeOK
<1>2. row'[i] = [row[i] EXCEPT !.age = age, !.tried = Older(row[i].tried),
                               !.retried = Older(row[i].retried)]
  BY <1>1 DEF Tick, Row
<1>3. age \in 0 .. Threshold
  BY <1>1 DEF Row
<1>4. /\ Older(row[i].tried) \in 0 .. Never /\ Older(row[i].retried) \in 0 .. Never
      /\ Older(row[i].tried) = Never <=> row[i].tried = Never
  BY <1>1, OlderType DEF Row
<1> HIDE DEF age
<1>5. row'[i].tried = Older(row[i].tried)
  BY <1>1, <1>2 DEF Row
<1> QED
  BY <1>1, <1>2, <1>3, <1>4, <1>5 DEF Row

LEMMA NextType == TypeOK /\ [Next]_vars => TypeOK'
<1> SUFFICES ASSUME TypeOK, [Next]_vars PROVE TypeOK'
  OBVIOUS
<1>1. ASSUME NEW w \in Workers, Cycle(w) PROVE TypeOK'
  <2>1. PICK outcome \in Outcomes : queue' = [queue EXCEPT ![w] = Append(@, outcome)]
    BY <1>1 DEF Cycle
  <2>2. Append(queue[w], outcome) \in Seq(Outcomes)
    BY DEF TypeOK
  <2> QED
    BY <1>1, <2>1, <2>2 DEF Cycle, TypeOK
<1>2. ASSUME NEW w \in Workers, TakeBatch(w) PROVE TypeOK'
  <2>1. queue[w] \in Seq(Outcomes) /\ <<>> \in Seq(Outcomes)
    BY DEF TypeOK
  <2> QED
    BY <1>2, <2>1 DEF TakeBatch, TypeOK, history
<1>3. ASSUME NEW w \in Workers, LoseTransition(w) PROVE TypeOK'
  <2>1. batch' \in [Workers -> Seq(Outcomes)]
    BY <1>3, RecordingType DEF LoseTransition
  <2> QED
    BY <1>3, <2>1 DEF LoseTransition, TypeOK, history
<1>4. ASSUME NEW w \in Workers, Crash(w) PROVE TypeOK'
  <2>1. <<>> \in Seq(Outcomes) /\ <<>> \in Seq(Actions)
    OBVIOUS
  <2> QED
    BY <1>4, <2>1 DEF Crash, TypeOK, history
<1>5. CASE Tick
  BY <1>5, TickRows DEF Tick, TypeOK, process, history
<1>6. CASE UNCHANGED vars
  BY <1>6 DEF vars, process, history, TypeOK
<1> QED
  BY <1>1, <1>2, <1>3, <1>4, <1>5, <1>6, RecordType, DispatchType DEF Next

\* Rows, queues, reservations and sends are well formed in every reachable state.
THEOREM TypeCorrect == Spec => []TypeOK
BY InitType, NextType, PTL DEF Spec

-----------------------------------------------------------------------------
(* The inductive invariant.  A process that has begun to send holds the mutex,   *)
(* so nobody moves the row it reports on; and every notice that is held is of an *)
(* incident whose outage was attempted, so a recovery that may be sent is one    *)
(* OneStory speaks of.                                                           *)

Attempted == \A w \in Workers : \A k \in DOMAIN actions[w] :
                row[actions[w][k].incident].tried # Never

Live(i, ph) == IF ph = "outage" THEN row[i].state = "open" ELSE Pending(i)

SendingFenced ==
    \A w \in Workers : sending[w] # NoSend =>
        /\ mutex = w
        /\ Live(sending[w].incident, sending[w].phase)
        /\ sending[w].stage = "answered" => accepted[sending[w].incident][sending[w].phase] > 0

Custody == TypeOK /\ OneStory /\ ReceiptsTrue /\ Attempted /\ SendingFenced

LEMMA InitCustody == Init => Custody
<1> SUFFICES ASSUME Init PROVE Custody
  OBVIOUS
<1>1. TypeOK
  BY InitType
<1>2. \A i \in Incidents : row[i] = NoRow
  BY DEF Init
<1>3. OneStory /\ ReceiptsTrue
  BY <1>2, NewRowType DEF OneStory, ReceiptsTrue, Pending
<1>4. Attempted /\ SendingFenced
  BY DEF Init, Attempted, SendingFenced
<1> QED
  BY <1>1, <1>3, <1>4 DEF Custody

(* While nobody holds the mutex nobody is sending. *)
LEMMA NobodySends ==
    ASSUME Custody, Fenced PROVE \A w \in Workers : sending[w] = NoSend
BY DEF Custody, SendingFenced, Fenced, Nobody

LEMMA RecordCustody == ASSUME Custody, NEW w \in Workers, Record(w) PROVE Custody'
<1>0. TypeOK'
  BY RecordType DEF Custody
<1>a. row \in [Incidents -> Row]
  BY DEF Custody, TypeOK
<1>b. \A v \in Workers : \A k \in DOMAIN actions[v] : actions[v][k].incident \in Incidents
  <2> SUFFICES ASSUME NEW v \in Workers, NEW k \in DOMAIN actions[v]
               PROVE  actions[v][k].incident \in Incidents
    OBVIOUS
  <2>1. actions[v] \in Seq(Actions)
    BY DEF Custody, TypeOK
  <2>2. actions[v][k] \in Actions
    BY <2>1
  <2> QED
    BY <2>2 DEF Actions
<1>1. CASE FirstFailure(w)
  <2>1. PICK i \in Free : /\ row' = [Abandoned(row) EXCEPT ![i] = NewRow]
                          /\ accepted' = [accepted EXCEPT ![i] = Unsent]
    BY <1>1 DEF FirstFailure
  <2>2. i \in Incidents /\ row'[i] = NewRow
    BY <1>a, <2>1, AbandonedRows DEF Free
  <2>3. \A j \in Incidents \ {i} : row'[j] = Abandoned(row)[j] /\ accepted'[j] = accepted[j]
    BY <1>a, <2>1, AbandonedRows DEF Custody, TypeOK
  <2>4. \A j \in Incidents \ {i} : row'[j].state # "open" /\ ~ Pending(j)'
    <3> SUFFICES ASSUME NEW j \in Incidents \ {i}
                 PROVE  row'[j].state # "open" /\ ~ Pending(j)'
      OBVIOUS
    <3>1. /\ row'[j].state = row[j].state /\ row'[j].tried = row[j].tried
          /\ row'[j].retold = row[j].retold
          /\ row'[j].abandoned <=> (row[j].abandoned \/ Pending(j))
      BY <1>a, <2>3, AbandonedRows
    <3>2. row[j].state # "open"
      BY <1>1 DEF FirstFailure, Open
    <3> QED
      BY <3>1, <3>2 DEF Pending
  <2>5. OneStory'
    BY <2>4 DEF OneStory
  <2>6. ReceiptsTrue'
    BY <1>a, <2>2, <2>3, NewRowType, AbandonedRows DEF ReceiptsTrue, Custody
  <2>7. Attempted'
    <3> SUFFICES ASSUME NEW v \in Workers, NEW k \in DOMAIN actions[v]
                 PROVE  row'[actions[v][k].incident].tried # Never
      BY <1>1 DEF FirstFailure, Attempted
    <3>1. actions[v][k].incident \in Incidents \ {i}
      BY <1>b, <2>1 DEF Free, Held
    <3> QED
      BY <1>a, <2>3, <3>1, AbandonedRows DEF Custody, Attempted
  <2>8. SendingFenced'
    BY <1>1, NobodySends DEF FirstFailure, SendingFenced
  <2> QED
    BY <1>0, <2>5, <2>6, <2>7, <2>8 DEF Custody
<1>2. CASE NothingToRecover(w)
  <2>1. UNCHANGED <<row, mutex, actions, sending, accepted>>
    BY <1>2 DEF NothingToRecover, history
  <2> QED
    BY <1>0, <2>1 DEF Custody, OneStory, ReceiptsTrue, Attempted, SendingFenced, Live, Pending
<1>3. ASSUME NEW i \in Incidents, FurtherFailure(w, i) PROVE Custody'
  <2>1. \A j \in Incidents :
          /\ row'[j].state = row[j].state /\ row'[j].told = row[j].told
          /\ row'[j].retold = row[j].retold
          /\ row'[j].abandoned <=> (row[j].abandoned \/ Pending(j))
          /\ row'[j].tried = row[j].tried \/ (j = i /\ row'[j].tried = 0)
    <3> SUFFICES ASSUME NEW j \in Incidents
                 PROVE  /\ row'[j].state = row[j].state /\ row'[j].told = row[j].told
                        /\ row'[j].retold = row[j].retold
                        /\ row'[j].abandoned <=> (row[j].abandoned \/ Pending(j))
                        /\ row'[j].tried = row[j].tried \/ (j = i /\ row'[j].tried = 0)
      OBVIOUS
    <3>1. Abandoned(row) \in [Incidents -> Row] /\ Abandoned(row)[i] \in Row
      BY <1>a, AbandonedRows
    <3>2. CASE row' = [Abandoned(row) EXCEPT ![i].tried = 0]
      <4>1. CASE j = i
        <5>1. row'[i] = [Abandoned(row)[i] EXCEPT !.tried = 0]
          BY <3>1, <3>2
        <5>2. /\ row'[i].tried = 0 /\ row'[i].state = Abandoned(row)[i].state
              /\ row'[i].told = Abandoned(row)[i].told
              /\ row'[i].retold = Abandoned(row)[i].retold
              /\ row'[i].abandoned = Abandoned(row)[i].abandoned
          BY <3>1, <5>1 DEF Row
        <5> QED
          BY <1>a, <4>1, <5>2, AbandonedRows
      <4>2. CASE j # i
        BY <1>a, <3>1, <3>2, <4>2, AbandonedRows
      <4> QED
        BY <4>1, <4>2
    <3>3. CASE row' = Abandoned(row)
      BY <1>a, <3>3, AbandonedRows
    <3> QED
      BY <1>3, <3>2, <3>3 DEF FurtherFailure
  <2>2. \A j \in Incidents : ~ Pending(j)'
    BY <2>1, <1>3, <1>a DEF Pending, FurtherFailure, Open, Row
  <2>3. UNCHANGED <<mutex, sending, accepted>> /\ Fenced
    BY <1>3 DEF FurtherFailure, history
  <2>4. OneStory' /\ ReceiptsTrue'
    BY <2>1, <2>2, <2>3 DEF Custody, OneStory, ReceiptsTrue
  <2>5. Attempted'
    <3>1. CASE UNCHANGED actions
      BY <1>b, <2>1, <3>1 DEF Custody, Attempted, Never
    <3>2. CASE Reserve(w, i, "outage") /\ row'[i].tried = 0
      <4>1. ASSUME NEW v \in Workers, NEW k \in DOMAIN actions'[v]
            PROVE  row'[actions'[v][k].incident].tried # Never
        <5>1. \/ actions'[v][k].incident = i
              \/ k \in DOMAIN actions[v] /\ actions'[v][k].incident = actions[v][k].incident
          BY <3>2, <4>1, ReserveActions DEF Custody, Phases
        <5> QED
          BY <1>b, <2>1, <3>2, <5>1 DEF Custody, Attempted, Never
      <4> QED
        BY <4>1 DEF Attempted
    <3>3. Abandoned(row)[i] \in Row
      BY <1>a, AbandonedRows
    <3> QED
      BY <1>3, <1>a, <3>1, <3>2, <3>3, AbandonedRows DEF FurtherFailure, Row
  <2>6. SendingFenced'
    BY <2>3, NobodySends DEF SendingFenced
  <2> QED
    BY <1>0, <2>4, <2>5, <2>6 DEF Custody
<1>4. ASSUME NEW i \in Incidents, Recovers(w, i) PROVE Custody'
  <2>1. \A j \in Incidents :
          /\ row'[j].state = IF j = i THEN "recovered" ELSE row[j].state
          /\ row'[j].told = row[j].told /\ row'[j].retold = row[j].retold
          /\ row'[j].abandoned = row[j].abandoned /\ row'[j].tried = row[j].tried
    BY <1>4, <1>a DEF Recovers, Row
  <2>2. UNCHANGED <<mutex, sending, accepted>> /\ Fenced
    BY <1>4 DEF Recovers, history
  <2>3. row[i].state = "open"
    BY <1>4 DEF Recovers, Open
  <2>4. \A j \in Incidents \ {i} : ~ (row'[j].state = "open" \/ Pending(j)')
    BY <2>1, <2>3 DEF Custody, OneStory, Pending
  <2>5. OneStory' /\ ReceiptsTrue'
    BY <2>1, <2>2, <2>4 DEF Custody, OneStory, ReceiptsTrue
  <2>6. Attempted'
    <3>1. CASE UNCHANGED actions
      BY <1>b, <2>1, <3>1 DEF Custody, Attempted
    <3>2. CASE Reserve(w, i, "recovery") /\ row[i].tried # Never
      <4>1. ASSUME NEW v \in Workers, NEW k \in DOMAIN actions'[v]
            PROVE  row'[actions'[v][k].incident].tried # Never
        <5>1. \/ actions'[v][k].incident = i
              \/ k \in DOMAIN actions[v] /\ actions'[v][k].incident = actions[v][k].incident
          BY <3>2, <4>1, ReserveActions DEF Custody, Phases
        <5> QED
          BY <1>b, <2>1, <3>2, <5>1 DEF Custody, Attempted
      <4> QED
        BY <4>1 DEF Attempted
    <3> QED
      BY <1>4, <3>1, <3>2 DEF Recovers
  <2>7. SendingFenced'
    BY <2>2, NobodySends DEF SendingFenced
  <2> QED
    BY <1>0, <2>5, <2>6, <2>7 DEF Custody
<1>5. ASSUME NEW i \in Incidents, RetryRecovery(w, i) PROVE Custody'
  <2>1. \A j \in Incidents :
          /\ row'[j].state = row[j].state
          /\ row'[j].told = row[j].told /\ row'[j].retold = row[j].retold
          /\ row'[j].abandoned = row[j].abandoned /\ row'[j].tried = row[j].tried
    BY <1>5, <1>a DEF RetryRecovery, Row
  <2>2. UNCHANGED <<mutex, sending, accepted>> /\ Fenced
    BY <1>5 DEF RetryRecovery, history
  <2>3. OneStory' /\ ReceiptsTrue'
    BY <2>1, <2>2 DEF Custody, OneStory, ReceiptsTrue, Pending
  <2>4. Attempted'
    <3>1. CASE UNCHANGED actions
      BY <1>b, <2>1, <3>1 DEF Custody, Attempted
    <3>2. CASE Reserve(w, i, "recovery")
      <4>0. row[i].tried # Never
        BY <1>5 DEF RetryRecovery, Pending
      <4>1. ASSUME NEW v \in Workers, NEW k \in DOMAIN actions'[v]
            PROVE  row'[actions'[v][k].incident].tried # Never
        <5>1. \/ actions'[v][k].incident = i
              \/ k \in DOMAIN actions[v] /\ actions'[v][k].incident = actions[v][k].incident
          BY <3>2, <4>1, ReserveActions DEF Custody, Phases
        <5> QED
          BY <1>b, <2>1, <4>0, <5>1 DEF Custody, Attempted
      <4> QED
        BY <4>1 DEF Attempted
    <3> QED
      BY <1>5, <3>1, <3>2 DEF RetryRecovery
  <2>5. SendingFenced'
    BY <2>2, NobodySends DEF SendingFenced
  <2> QED
    BY <1>0, <2>3, <2>4, <2>5 DEF Custody
<1> QED
  BY <1>1, <1>2, <1>3, <1>4, <1>5 DEF Record

(* Every step of a send but the last leaves the rows alone, and the last moves the *)
(* row the sender has fenced. *)
LEMMA DispatchCustody ==
    ASSUME Custody, NEW w \in Workers,
           Dispatch(w) \/ Deliver(w) \/ Refuse(w) \/ LoseResponse(w) \/ LoseReceipt(w)
    PROVE  Custody'
<1>0. TypeOK /\ TypeOK'
  BY DispatchType DEF Custody
<1>a. row \in [Incidents -> Row] /\ accepted \in [Incidents -> [Phases -> 0 .. 2]]
  BY <1>0 DEF TypeOK
<1>b. \A v \in Workers : actions[v] \in Seq(Actions) /\ sending \in [Workers -> Sends \cup {NoSend}]
  BY <1>0 DEF TypeOK
<1>c. \A v \in Workers \ {w} : sending[w] # NoSend => sending[v] = NoSend
  BY DEF Custody, SendingFenced
<1>1. CASE BeginSend(w)
  <2> DEFINE a == Head(actions[w])
  <2>1. /\ Fenced /\ Dispatchable(a) /\ mutex' = w /\ actions[w] # <<>>
        /\ sending' = [sending EXCEPT ![w] = [stage |-> "asked", incident |-> a.incident,
                                                  phase |-> a.phase]]
        /\ actions' = [actions EXCEPT ![w] = Tail(@)]
        /\ UNCHANGED <<row, accepted>>
    BY <1>1 DEF BeginSend, Dispatching, history
  <2>2. a = actions[w][1] /\ 1 \in DOMAIN actions[w] /\ a \in Actions
    BY <1>b, <2>1
  <2>3. a.incident \in Incidents /\ a.phase \in Phases /\ row[a.incident].tried # Never
    BY <2>2 DEF Actions, Custody, Attempted
  <2>4. Live(a.incident, a.phase)
    BY <2>1, <2>3 DEF Dispatchable, Live, Pending
  <2>5. OneStory' /\ ReceiptsTrue'
    BY <2>1 DEF Custody, OneStory, ReceiptsTrue, Pending
  <2>6. Attempted'
    <3> SUFFICES ASSUME NEW v \in Workers, NEW k \in DOMAIN actions'[v]
                 PROVE  row[actions'[v][k].incident].tried # Never
      BY <2>1 DEF Attempted
    <3>1. CASE v = w
      <4>1. actions'[v] = Tail(actions[w])
        BY <1>b, <2>1, <3>1 DEF TypeOK, Custody
      <4>2. k + 1 \in DOMAIN actions[w] /\ actions'[v][k] = actions[w][k + 1]
        BY <1>b, <2>1, <4>1, TailElements
      <4> QED
        BY <4>2 DEF Custody, Attempted
    <3>2. CASE v # w
      BY <2>1, <3>2, <1>0 DEF Custody, Attempted, TypeOK
    <3> QED
      BY <3>1, <3>2
  <2>7. SendingFenced'
    <3>1. \A v \in Workers \ {w} : sending'[v] = NoSend
      BY <1>b, <2>1, NobodySends
    <3>2. PICK i \in Incidents, ph \in Phases : i = a.incident /\ ph = a.phase
      BY <2>3
    <3>3. /\ sending'[w].stage = "asked" /\ sending'[w].incident = i
          /\ sending'[w].phase = ph
      BY <1>b, <2>1, <3>2
    <3>4. Live(i, ph)'
      BY <2>1, <2>4, <3>2 DEF Live, Pending
    <3> HIDE DEF a
    <3> QED
      BY <2>1, <3>1, <3>3, <3>4 DEF SendingFenced, Live, Pending
  <2> QED
    BY <1>0, <2>5, <2>6, <2>7 DEF Custody
<1>2. CASE DropStale(w) \/ DropContended(w)
  <2>1. /\ actions[w] # <<>> /\ actions' = [actions EXCEPT ![w] = Tail(@)]
        /\ UNCHANGED <<row, mutex, sending, accepted>>
    BY <1>2 DEF DropStale, DropContended, Dispatching, history
  <2>2. OneStory' /\ ReceiptsTrue' /\ SendingFenced'
    BY <2>1 DEF Custody, OneStory, ReceiptsTrue, SendingFenced, Live, Pending
  <2>3. Attempted'
    <3> SUFFICES ASSUME NEW v \in Workers, NEW k \in DOMAIN actions'[v]
                 PROVE  row[actions'[v][k].incident].tried # Never
      BY <2>1 DEF Attempted
    <3>1. CASE v = w
      <4>1. actions'[v] = Tail(actions[w])
        BY <1>0, <2>1, <3>1 DEF TypeOK
      <4>2. k + 1 \in DOMAIN actions[w] /\ actions'[v][k] = actions[w][k + 1]
        BY <1>b, <2>1, <4>1, TailElements
      <4> QED
        BY <4>2 DEF Custody, Attempted
    <3>2. CASE v # w
      BY <2>1, <3>2, <1>0 DEF Custody, Attempted, TypeOK
    <3> QED
      BY <3>1, <3>2
  <2> QED
    BY <1>0, <2>2, <2>3 DEF Custody
<1>3. CASE CommitReceipt(w)
  <2> DEFINE i == sending[w].incident
  <2>0. sending[w] # NoSend /\ sending[w] \in Sends /\ i \in Incidents
    BY <1>0, <1>3, SendType DEF CommitReceipt, NoSend
  <2>1. Live(i, sending[w].phase) /\ accepted[i][sending[w].phase] > 0
    BY <1>3, <2>0 DEF Custody, SendingFenced, CommitReceipt
  <2>2. UNCHANGED <<actions, accepted>> /\ sending' = [sending EXCEPT ![w] = NoSend]
    BY <1>3 DEF CommitReceipt, Release, history
  <2>3. \A j \in Incidents \ {i} : row'[j] = row[j]
    BY <1>3, <1>a, <2>0 DEF CommitReceipt
  <2>4. row[i] \in Row
    BY <1>a, <2>0
  <2>5. /\ row'[i].state = row[i].state /\ row'[i].tried = row[i].tried
        /\ row'[i].abandoned = row[i].abandoned
        /\ row'[i].told => row[i].told \/ sending[w].phase = "outage"
        /\ row'[i].retold => row[i].retold \/ sending[w].phase = "recovery"
        /\ row[i].retold => row'[i].retold
    <3>1. \/ row'[i] = row[i]
          \/ sending[w].phase = "outage" /\ row'[i] = [row[i] EXCEPT !.told = TRUE]
          \/ sending[w].phase # "outage" /\ row'[i] = [row[i] EXCEPT !.retold = TRUE]
      BY <1>3, <1>a, <2>0 DEF CommitReceipt
    <3>2. sending[w].phase \in {"outage", "recovery"}
      BY <2>0 DEF Sends, Phases
    <3> QED
      BY <2>4, <3>1, <3>2 DEF Row
  <2>6. \A j \in Incidents :
          /\ row'[j].state = row[j].state /\ row'[j].tried = row[j].tried
          /\ row'[j].abandoned = row[j].abandoned
          /\ Pending(j)' => Pending(j)
    BY <2>3, <2>5 DEF Pending
  <2>7. OneStory'
    <3>1. \A j \in Incidents : row'[j].state = row[j].state /\ (Pending(j)' => Pending(j))
      BY <2>6
    <3> QED
      BY <3>1 DEF Custody, OneStory
  <2>8. ReceiptsTrue'
    BY <2>1, <2>2, <2>3, <2>5 DEF Custody, ReceiptsTrue
  <2>9. Attempted'
    <3> SUFFICES ASSUME NEW v \in Workers, NEW k \in DOMAIN actions[v]
                 PROVE  row'[actions[v][k].incident].tried # Never
      BY <2>2 DEF Attempted
    <3>1. actions[v][k] \in Actions
      BY <1>b
    <3>2. actions[v][k].incident \in Incidents
      BY <3>1 DEF Actions
    <3> QED
      BY <2>6, <3>2 DEF Custody, Attempted
  <2>10. SendingFenced'
    BY <1>b, <1>c, <2>0, <2>2 DEF SendingFenced
  <2> QED
    BY <1>0, <2>7, <2>8, <2>9, <2>10 DEF Custody
<1>4. CASE Deliver(w) \/ LoseResponse(w)
  <2>0. sending[w] # NoSend /\ sending[w] \in Sends
    BY <1>0, <1>4, SendType DEF Deliver, LoseResponse, NoSend
  <2>1. sending[w].incident \in Incidents /\ sending[w].phase \in Phases
    BY <2>0 DEF Sends
  <2>2. Accept(sending[w]) /\ UNCHANGED <<row, actions>>
    BY <1>4 DEF Deliver, LoseResponse
  <2>3. /\ \A i \in Incidents : \A ph \in Phases : accepted'[i][ph] >= accepted[i][ph]
        /\ accepted'[sending[w].incident][sending[w].phase] > 0
    BY <1>a, <2>1, <2>2 DEF Accept
  <2>4. OneStory' /\ Attempted'
    BY <2>2 DEF Custody, OneStory, Attempted, Pending
  <2>5. ReceiptsTrue'
    <3> SUFFICES ASSUME NEW i \in Incidents
                 PROVE  /\ row[i].told => accepted'[i]["outage"] > 0
                        /\ row[i].retold => accepted'[i]["recovery"] > 0
      BY <2>2 DEF ReceiptsTrue
    <3>1. \A ph \in Phases : accepted[i][ph] \in 0 .. 2 /\ accepted'[i][ph] \in 0 .. 2
      BY <1>0 DEF TypeOK
    <3> QED
      BY <2>3, <3>1 DEF Custody, ReceiptsTrue, Phases
  <2>6. SendingFenced'
    <3>1. CASE Deliver(w)
      <4>1. sending' = [sending EXCEPT ![w].stage = "answered"] /\ UNCHANGED mutex
        BY <3>1 DEF Deliver
      <4>2. /\ sending'[w].incident = sending[w].incident
            /\ sending'[w].phase = sending[w].phase
        BY <1>b, <2>0, <4>1 DEF Sends
      <4>3. \A v \in Workers \ {w} : sending'[v] = NoSend
        BY <1>b, <1>c, <2>0, <4>1
      <4> QED
        BY <2>0, <2>2, <2>3, <4>1, <4>2, <4>3 DEF Custody, SendingFenced, Live, Pending
    <3>2. CASE LoseResponse(w)
      BY <1>b, <1>c, <2>0, <3>2 DEF LoseResponse, Release, SendingFenced
    <3> QED
      BY <1>4, <3>1, <3>2
  <2> QED
    BY <1>0, <2>4, <2>5, <2>6 DEF Custody
<1>5. CASE Refuse(w) \/ LoseReceipt(w)
  <2>1. Release(w) /\ UNCHANGED <<row, actions, accepted>> /\ sending[w] # NoSend
    BY <1>5 DEF Refuse, LoseReceipt, history, NoSend
  <2>2. OneStory' /\ Attempted' /\ ReceiptsTrue'
    BY <2>1 DEF Custody, OneStory, Attempted, ReceiptsTrue, Pending
  <2>3. SendingFenced'
    BY <1>b, <1>c, <2>1 DEF Release, SendingFenced
  <2> QED
    BY <1>0, <2>2, <2>3 DEF Custody
<1> QED
  BY <1>1, <1>2, <1>3, <1>4, <1>5 DEF Dispatch

LEMMA NextCustody == Custody /\ [Next]_vars => Custody'
<1> SUFFICES ASSUME Custody, [Next]_vars PROVE Custody'
  OBVIOUS
<1>0. TypeOK /\ TypeOK'
  BY NextType DEF Custody
<1>1. ASSUME NEW w \in Workers, Cycle(w) \/ TakeBatch(w) \/ LoseTransition(w) PROVE Custody'
  <2>1. UNCHANGED <<row, mutex, actions, sending, accepted>>
    BY <1>1 DEF Cycle, TakeBatch, LoseTransition, history
  <2> QED
    BY <1>0, <2>1 DEF Custody, OneStory, ReceiptsTrue, Attempted, SendingFenced, Live, Pending
<1>2. ASSUME NEW w \in Workers, Crash(w) PROVE Custody'
  <2>1. /\ actions' = [actions EXCEPT ![w] = <<>>] /\ UNCHANGED <<row, accepted>>
        /\ sending' = [sending EXCEPT ![w] = NoSend]
        /\ mutex' = IF mutex = w THEN Nobody ELSE mutex
    BY <1>2 DEF Crash, history
  <2>2. OneStory' /\ ReceiptsTrue'
    BY <2>1 DEF Custody, OneStory, ReceiptsTrue, Pending
  <2>3. Attempted'
    BY <1>0, <2>1 DEF Custody, Attempted, TypeOK
  <2>4. ASSUME NEW v \in Workers, sending'[v] # NoSend
        PROVE  sending'[v] = sending[v] /\ mutex' = mutex
    BY <1>0, <2>1, <2>4 DEF Custody, SendingFenced, TypeOK
  <2>5. SendingFenced'
    BY <2>1, <2>4 DEF Custody, SendingFenced, Live, Pending
  <2> QED
    BY <1>0, <2>2, <2>3, <2>5 DEF Custody
<1>3. CASE Tick
  <2>1. /\ UNCHANGED <<mutex, actions, sending, accepted>>
        /\ \A i \in Incidents :
             /\ row'[i].state = row[i].state /\ row'[i].told = row[i].told
             /\ row'[i].retold = row[i].retold /\ row'[i].abandoned = row[i].abandoned
             /\ row'[i].tried = Never <=> row[i].tried = Never
    BY <1>0, <1>3, TickRows DEF Tick, process, history
  <2>2. \A i \in Incidents : Pending(i)' <=> Pending(i)
    BY <2>1 DEF Pending
  <2>3. OneStory' /\ ReceiptsTrue'
    BY <2>1, <2>2 DEF Custody, OneStory, ReceiptsTrue
  <2>4. Attempted'
    <3> SUFFICES ASSUME NEW w \in Workers, NEW k \in DOMAIN actions[w]
                 PROVE  row'[actions[w][k].incident].tried # Never
      BY <2>1 DEF Attempted
    <3>1. actions[w] \in Seq(Actions)
      BY <1>0 DEF TypeOK
    <3>2. actions[w][k] \in Actions
      BY <3>1
    <3>3. actions[w][k].incident \in Incidents
      BY <3>2 DEF Actions
    <3> QED
      BY <2>1, <3>3 DEF Custody, Attempted
  <2>5. SendingFenced'
    <3> SUFFICES ASSUME NEW w \in Workers, sending[w] # NoSend
                 PROVE  /\ mutex = w
                        /\ Live(sending[w].incident, sending[w].phase)'
                        /\ sending[w].stage = "answered"
                             => accepted[sending[w].incident][sending[w].phase] > 0
      BY <2>1 DEF SendingFenced, Live, Pending
    <3>1. sending[w] \in Sends
      BY <1>0 DEF TypeOK
    <3>2. PICK i \in Incidents, ph \in Phases : i = sending[w].incident /\ ph = sending[w].phase
      BY <3>1 DEF Sends
    <3>3. Live(i, ph) <=> Live(i, ph)'
      BY <2>1, <2>2 DEF Live
    <3> QED
      BY <2>1, <3>2, <3>3 DEF Custody, SendingFenced, Live, Pending
  <2> QED
    BY <1>0, <2>3, <2>4, <2>5 DEF Custody
<1>4. CASE UNCHANGED vars
  BY <1>0, <1>4 DEF vars, process, history, Custody, OneStory, ReceiptsTrue, Attempted,
                    SendingFenced, Live, Pending
<1> QED
  BY <1>1, <1>2, <1>3, <1>4, RecordCustody, DispatchCustody DEF Next

LEMMA CustodyHolds == Spec => []Custody
BY InitCustody, NextCustody, PTL DEF Spec

\* No recovery is outstanding beside an open outage, and no outage beside another.
THEOREM OneStoryAtATime == Spec => []OneStory
<1>1. Custody => OneStory
  BY DEF Custody
<1> QED
  BY <1>1, CustodyHolds, PTL

\* A notice is recorded as delivered only when the provider accepted it.
THEOREM ReceiptsAreTrue == Spec => []ReceiptsTrue
<1>1. Custody => ReceiptsTrue
  BY DEF Custody
<1> QED
  BY <1>1, CustodyHolds, PTL

\* Together: the rows of the two processes tell one story, and a true one.
THEOREM StoryIsTrue == Spec => []StoryTrue
<1>1. OneStory /\ ReceiptsTrue => StoryTrue
  BY DEF StoryTrue
<1> QED
  BY <1>1, OneStoryAtATime, ReceiptsAreTrue, PTL

(* A step that makes the provider accept a notice is a step of the process that has it *)
(* fenced. *)
LEMMA AcceptedIsTrue ==
    ASSUME Custody, [Next]_vars, NEW i \in Incidents, NEW ph \in Phases,
           accepted'[i][ph] > accepted[i][ph]
    PROVE  Truthful(i, ph)
<1>0. accepted \in [Incidents -> [Phases -> 0 .. 2]]
  BY DEF Custody, TypeOK
<1>1. CASE \E w \in Workers : Deliver(w) \/ LoseResponse(w)
  <2>1. PICK w \in Workers : /\ Accept(sending[w])
                             /\ sending[w].stage \in {"asked", "answered"}
    BY <1>1 DEF Deliver, LoseResponse
  <2>2. sending[w] \in Sends /\ sending[w] # NoSend
    BY <2>1, SendType DEF Custody, NoSend
  <2>3. sending[w].incident = i /\ sending[w].phase = ph
    BY <1>0, <2>1, <2>2 DEF Accept, Sends
  <2>4. Live(i, ph)
    BY <2>2, <2>3 DEF Custody, SendingFenced
  <2>5. ph = "outage" \/ Open = {}
    BY <2>4 DEF Live, Custody, OneStory, Open, Pending
  <2> QED
    BY <2>4, <2>5 DEF Truthful, Live, Pending
<1>2. CASE \E w \in Workers : FirstFailure(w)
  <2>1. PICK j \in Incidents : accepted' = [accepted EXCEPT ![j] = Unsent]
    BY <1>2 DEF FirstFailure, Free
  <2>2. accepted[i][ph] \in 0 .. 2
    BY <1>0
  <2>3. accepted'[i][ph] = accepted[i][ph] \/ accepted'[i][ph] = 0
    BY <1>0, <2>1 DEF Unsent
  <2> QED
    BY <2>2, <2>3
<1>3. CASE UNCHANGED accepted
  <2>1. accepted[i][ph] \in 0 .. 2
    BY <1>0
  <2> QED
    BY <1>3, <2>1
<1> QED
  BY <1>1, <1>2, <1>3 DEF Next, vars, history, process, Cycle, TakeBatch, Record, LoseTransition,
     Dispatch, Refuse, LoseReceipt, Crash, Tick, FurtherFailure, Recovers, RetryRecovery,
     NothingToRecover, BeginSend, DropStale, DropContended, CommitReceipt

\* What the provider accepts is true when it does: the mutex keeps every other process
\* from moving the incident between the check and the answer.
THEOREM NoticesTrue == Spec => NoticesAreTrue
<1>1. Custody /\ [Next]_vars => [\A i \in Incidents : \A ph \in Phases :
          accepted'[i][ph] > accepted[i][ph] => Truthful(i, ph)]_vars
  BY AcceptedIsTrue
<1> QED
  BY <1>1, CustodyHolds, PTL DEF Spec, NoticesAreTrue

-----------------------------------------------------------------------------
(* Without faults a notice is accepted once: what is asked for has no receipt yet, and   *)
(* what was accepted has one, or is about to have it from the process that holds the     *)
(* mutex.                                                                                *)
Noted(i, ph) == IF ph = "outage" THEN row[i].told ELSE row[i].retold

Sending(w, stage, i, ph) ==
    sending[w].stage = stage /\ sending[w].incident = i /\ sending[w].phase = ph

AskedUnnoted ==
    \A w \in Workers, i \in Incidents, ph \in Phases :
        Sending(w, "asked", i, ph) => ~ Noted(i, ph)

AcceptedOnce ==
    \A i \in Incidents, ph \in Phases :
        /\ accepted[i][ph] <= 1
        /\ accepted[i][ph] = 1 =>
             Noted(i, ph) \/ \E w \in Workers : Sending(w, "answered", i, ph)

OnceInv == AskedUnnoted /\ (faults = 0 => AcceptedOnce)

LEMMA NotSending == NoSend.stage = "none"
BY DEF NoSend

(* The steps that touch neither the notices nor what is known of them. *)
LEMMA ElsewhereOnce ==
    ASSUME OnceInv, UNCHANGED <<accepted, sending, faults>>,
           \A i \in Incidents : row'[i].told = row[i].told /\ row'[i].retold = row[i].retold
    PROVE  OnceInv'
<1>1. \A i \in Incidents, ph \in Phases : Noted(i, ph)' = Noted(i, ph)
  BY DEF Noted
<1> QED
  BY <1>1 DEF OnceInv, AskedUnnoted, AcceptedOnce, Sending

LEMMA RecordOnce ==
    ASSUME Custody, OnceInv, NEW w \in Workers, Record(w) PROVE OnceInv'
<1>a. row \in [Incidents -> Row] /\ accepted \in [Incidents -> [Phases -> 0 .. 2]]
  BY DEF Custody, TypeOK
<1>1. CASE FirstFailure(w)
  <2>1. PICK i \in Free : /\ row' = [Abandoned(row) EXCEPT ![i] = NewRow]
                          /\ accepted' = [accepted EXCEPT ![i] = Unsent]
    BY <1>1 DEF FirstFailure
  <2>2. i \in Incidents
    BY <2>1 DEF Free
  <2>3. \A v \in Workers : sending[v] = NoSend /\ sending'[v] = NoSend
    BY <1>1, NobodySends DEF FirstFailure
  <2>4. \A ph \in Phases : accepted'[i][ph] = 0
    BY <1>a, <2>1, <2>2 DEF Unsent
  <2>5. \A j \in Incidents \ {i} :
           /\ accepted'[j] = accepted[j]
           /\ row'[j].told = row[j].told /\ row'[j].retold = row[j].retold
    BY <1>a, <2>1, <2>2, AbandonedRows
  <2>6. AskedUnnoted'
    BY <2>3, NotSending DEF AskedUnnoted, Sending
  <2>7. ASSUME AcceptedOnce, NEW j \in Incidents, NEW ph \in Phases
        PROVE  accepted'[j][ph] <= 1 /\ (accepted'[j][ph] = 1 => Noted(j, ph)')
    BY <2>3, <2>4, <2>5, <2>7, NotSending DEF AcceptedOnce, Noted, Sending
  <2>8. faults' = faults
    BY <1>1 DEF FirstFailure
  <2> QED
    BY <2>6, <2>7, <2>8 DEF OnceInv, AcceptedOnce
<1>2. CASE NothingToRecover(w)
  BY <1>2, ElsewhereOnce DEF NothingToRecover, history
<1>3. ASSUME NEW i \in Incidents, FurtherFailure(w, i) PROVE OnceInv'
  <2>1. ASSUME NEW j \in Incidents
        PROVE  row'[j].told = row[j].told /\ row'[j].retold = row[j].retold
    <3>1. Abandoned(row)[j] \in Row /\ Abandoned(row) \in [Incidents -> Row]
          /\ Abandoned(row)[j].told = row[j].told /\ Abandoned(row)[j].retold = row[j].retold
      BY <1>a, AbandonedRows
    <3>2. row'[j] = Abandoned(row)[j] \/ row'[j] = [Abandoned(row)[j] EXCEPT !.tried = 0]
      BY <1>3, <3>1 DEF FurtherFailure
    <3> QED
      BY <3>1, <3>2 DEF Row
  <2> QED
    BY <1>3, <2>1, ElsewhereOnce DEF FurtherFailure, history
<1>4. ASSUME NEW i \in Incidents, Recovers(w, i) \/ RetryRecovery(w, i) PROVE OnceInv'
  <2>1. ASSUME NEW j \in Incidents
        PROVE  row'[j].told = row[j].told /\ row'[j].retold = row[j].retold
    <3>1. \/ row'[j] = row[j]
          \/ row'[j] = [row[j] EXCEPT !.state = "recovered"]
          \/ row'[j] = [row[j] EXCEPT !.state = "recovered", !.retried = 0]
          \/ row'[j] = [row[j] EXCEPT !.retried = 0]
      BY <1>a, <1>4 DEF Recovers, RetryRecovery
    <3> QED
      BY <1>a, <3>1 DEF Row
  <2> QED
    BY <1>4, <2>1, ElsewhereOnce DEF Recovers, RetryRecovery, history
<1> QED
  BY <1>1, <1>2, <1>3, <1>4 DEF Record

(* What a process sends about, and that no other process sends meanwhile. *)
LEMMA OnlySender ==
    ASSUME Custody, NEW w \in Workers, sending[w].stage \in {"asked", "answered"}
    PROVE  /\ sending[w].incident \in Incidents /\ sending[w].phase \in Phases
           /\ Live(sending[w].incident, sending[w].phase)
           /\ \A v \in Workers : v # w => sending[v] = NoSend
<1>1. sending[w] \in Sends /\ sending[w] # NoSend
  BY NotSending DEF Custody, TypeOK
<1> QED
  BY <1>1 DEF Custody, SendingFenced, Sends

LEMMA SendOnce ==
    ASSUME Custody, OnceInv, NEW w \in Workers,
           \/ BeginSend(w) \/ Deliver(w) \/ Refuse(w) \/ CommitReceipt(w)
    PROVE  OnceInv'
<1>a. /\ row \in [Incidents -> Row] /\ accepted \in [Incidents -> [Phases -> 0 .. 2]]
      /\ sending \in [Workers -> Sends \cup {NoSend}]
  BY DEF Custody, TypeOK
<1>1. CASE BeginSend(w)
  <2> DEFINE a == Head(actions[w])
  <2>1. \A v \in Workers : sending[v] = NoSend
    BY <1>1, NobodySends DEF BeginSend
  <2>2. /\ sending' = [sending EXCEPT ![w] = [stage |-> "asked", incident |-> a.incident,
                                                 phase |-> a.phase]]
        /\ UNCHANGED <<row, accepted, faults>>
        /\ Dispatchable(a)
    BY <1>1 DEF BeginSend, history
  <2>3. ~ Noted(a.incident, a.phase)
    BY <2>2 DEF Dispatchable, Noted
  <2>4. AskedUnnoted'
    BY <1>a, <2>1, <2>2, <2>3, NotSending DEF AskedUnnoted, Sending, Noted
  <2>5. AcceptedOnce => AcceptedOnce'
    BY <2>1, <2>2, NotSending DEF AcceptedOnce, Sending, Noted
  <2> QED
    BY <2>2, <2>4, <2>5 DEF OnceInv
<1>2. CASE Deliver(w)
  <2>1. PICK i \in Incidents, ph \in Phases :
        /\ sending[w].stage = "asked" /\ sending[w].incident = i /\ sending[w].phase = ph
        /\ \A v \in Workers : v # w => sending[v] = NoSend
    BY <1>2, OnlySender DEF Deliver
  <2>2. /\ accepted' = [accepted EXCEPT ![i][ph] = IF @ < 2 THEN @ + 1 ELSE @]
        /\ sending' = [sending EXCEPT ![w].stage = "answered"]
        /\ UNCHANGED <<row, faults>>
    BY <1>2, <2>1 DEF Deliver, Accept
  <2>3. /\ sending'[w].stage = "answered" /\ sending'[w].incident = i /\ sending'[w].phase = ph
        /\ \A v \in Workers : v # w => sending'[v] = NoSend
    BY <1>a, <2>1, <2>2, NotSending DEF Sends
  <2>4. AskedUnnoted'
    BY <2>3, NotSending DEF AskedUnnoted, Sending
  <2>5. ASSUME AcceptedOnce PROVE AcceptedOnce'
    <3>1. ~ Noted(i, ph)
      BY <2>1 DEF OnceInv, AskedUnnoted, Sending
    <3>2. accepted[i][ph] \in 0 .. 2 /\ accepted[i][ph] # 1 /\ accepted[i][ph] <= 1
      BY <1>a, <2>1, <2>5, <3>1, NotSending DEF AcceptedOnce, Sending
    <3>3. accepted'[i][ph] = 1
      BY <1>a, <2>1, <2>2, <3>2
    <3> SUFFICES ASSUME NEW j \in Incidents, NEW q \in Phases
                 PROVE  /\ accepted'[j][q] <= 1
                        /\ accepted'[j][q] = 1 =>
                             Noted(j, q)' \/ \E v \in Workers : Sending(v, "answered", j, q)'
      BY DEF AcceptedOnce
    <3>4. CASE j = i /\ q = ph
      BY <2>3, <3>3, <3>4 DEF Sending
    <3>5. CASE ~ (j = i /\ q = ph)
      <4>1. accepted'[j][q] = accepted[j][q]
        BY <1>a, <2>1, <2>2, <3>5
      <4>2. accepted[j][q] <= 1 /\ (accepted[j][q] = 1 => Noted(j, q))
        BY <2>1, <2>5, NotSending DEF AcceptedOnce, Sending
      <4> QED
        BY <2>2, <4>1, <4>2 DEF Noted
    <3> QED
      BY <3>4, <3>5
  <2> QED
    BY <2>2, <2>4, <2>5 DEF OnceInv
<1>3. CASE Refuse(w)
  <2>1. /\ sending[w].stage = "asked" /\ sending' = [sending EXCEPT ![w] = NoSend]
        /\ UNCHANGED <<row, accepted, faults>>
    BY <1>3 DEF Refuse, Release, history
  <2>2. AskedUnnoted'
    BY <1>a, <2>1, NotSending DEF OnceInv, AskedUnnoted, Sending, Noted
  <2>3. AcceptedOnce => AcceptedOnce'
    BY <1>a, <2>1, NotSending DEF AcceptedOnce, Sending, Noted
  <2> QED
    BY <2>1, <2>2, <2>3 DEF OnceInv
<1>4. CASE CommitReceipt(w)
  <2>1. PICK i \in Incidents, ph \in Phases :
        /\ sending[w].incident = i /\ sending[w].phase = ph /\ Live(i, ph)
        /\ \A v \in Workers : v # w => sending[v] = NoSend
    BY <1>4, OnlySender DEF CommitReceipt
  <2>2. /\ IF ph = "outage" THEN row' = [row EXCEPT ![i].told = TRUE]
                            ELSE row' = [row EXCEPT ![i].retold = TRUE]
        /\ sending' = [sending EXCEPT ![w] = NoSend]
        /\ UNCHANGED <<accepted, faults>>
    BY <1>4, <2>1 DEF CommitReceipt, Release, history, Live, Pending
  <2>3. \A v \in Workers : sending'[v] = NoSend
    BY <1>a, <2>1, <2>2
  <2>4. AskedUnnoted'
    BY <2>3, NotSending DEF AskedUnnoted, Sending
  <2>5. /\ row'[i] = IF ph = "outage" THEN [row[i] EXCEPT !.told = TRUE]
                                     ELSE [row[i] EXCEPT !.retold = TRUE]
        /\ row[i] \in Row /\ \A j \in Incidents : j # i => row'[j] = row[j]
    BY <1>a, <2>1, <2>2
  <2>6. /\ row'[i].told <=> (row[i].told \/ ph = "outage")
        /\ row'[i].retold <=> (row[i].retold \/ ph # "outage")
    <3>1. CASE ph = "outage"
      BY <2>5, <3>1 DEF Row
    <3>2. CASE ph # "outage"
      BY <2>5, <3>2 DEF Row
    <3> QED
      BY <3>1, <3>2
  <2>7. ASSUME AcceptedOnce PROVE AcceptedOnce'
    <3> SUFFICES ASSUME NEW j \in Incidents, NEW q \in Phases
                 PROVE  accepted[j][q] <= 1 /\ (accepted[j][q] = 1 => Noted(j, q)')
      BY <2>2 DEF AcceptedOnce
    <3>1. accepted[j][q] <= 1
          /\ (accepted[j][q] = 1 => Noted(j, q) \/ (j = i /\ q = ph))
      BY <2>1, <2>7, NotSending DEF AcceptedOnce, Sending
    <3>2. CASE j # i
      BY <2>5, <3>1, <3>2 DEF Noted
    <3>3. CASE j = i
      <4>1. Noted(i, q) \/ q = ph => Noted(i, q)'
        BY <2>1, <2>6 DEF Noted, Phases
      <4> QED
        BY <3>1, <3>3, <4>1
    <3> QED
      BY <3>2, <3>3
  <2> QED
    BY <2>2, <2>4, <2>7 DEF OnceInv
<1> QED
  BY <1>1, <1>2, <1>3, <1>4

LEMMA FaultOnce ==
    ASSUME Custody, OnceInv, NEW w \in Workers,
           \/ LoseTransition(w) \/ LoseResponse(w) \/ LoseReceipt(w) \/ Crash(w)
    PROVE  OnceInv'
<1>1. faults' # 0
  BY DEF LoseTransition, LoseResponse, LoseReceipt, Crash, Custody, TypeOK
<1>2. row' = row /\ \A v \in Workers : sending'[v] \in {sending[v], NoSend}
  BY DEF LoseTransition, LoseResponse, LoseReceipt, Crash, Custody, TypeOK, Release, history
<1> QED
  BY <1>1, <1>2, NotSending DEF OnceInv, AskedUnnoted, Sending, Noted

LEMMA NextOnce == Custody /\ OnceInv /\ [Next]_vars => OnceInv'
<1> SUFFICES ASSUME Custody, OnceInv, [Next]_vars PROVE OnceInv'
  OBVIOUS
<1>1. ASSUME NEW w \in Workers, Cycle(w) \/ TakeBatch(w) \/ DropStale(w) \/ DropContended(w)
      PROVE  OnceInv'
  BY <1>1, ElsewhereOnce DEF Cycle, TakeBatch, DropStale, DropContended, history
<1>2. CASE Tick
  <2>1. \A i \in Incidents : row'[i].told = row[i].told /\ row'[i].retold = row[i].retold
    BY <1>2, TickRows DEF Custody
  <2> QED
    BY <1>2, <2>1, ElsewhereOnce DEF Tick, process, history
<1>3. CASE UNCHANGED vars
  BY <1>3, ElsewhereOnce DEF vars, process, history
<1> QED
  BY <1>1, <1>2, <1>3, RecordOnce, SendOnce, FaultOnce DEF Next, Dispatch

(* dispatch, from the reservation to the receipt: two processes on one ledger report an  *)
(* outage once and its recovery once, unless one crashes or an answer is lost.           *)
THEOREM NoticedAtMostOnce == Spec => []NoticedOnce
<1>1. Init => OnceInv
  BY NotSending DEF Init, OnceInv, AskedUnnoted, AcceptedOnce, Sending, Unsent
<1>2. Custody /\ OnceInv => NoticedOnce
  BY DEF Custody, TypeOK, OnceInv, AcceptedOnce, NoticedOnce
<1> QED
  BY <1>1, <1>2, NextOnce, CustodyHolds, PTL DEF Spec
=============================================================================
