-------------------------- MODULE Autopilot_proofs --------------------------
(* Theorems about Autopilot and the ReviewQueue below it, for every value of *)
(* their constants.                                                          *)
EXTENDS Autopilot, TLAPS

USE QueueAssumption, AutopilotAssumption

(* What the outbox pass has read carries a decision to report. *)
SnapDecided == pc = "outbox" => \A p \in todo : snap[p] \in Decisions
TypeInv == TypeOK /\ SnapDecided

LEMMA AutoType == \A v \in Verdicts : ByAutopilot(v) \in Decisions /\ ByOperator(v) \in Decisions
BY DEF ByAutopilot, ByOperator, Decisions, Deciders

LEMMA AutoVerdictsAre == AutoVerdicts \subseteq Verdicts /\ "deadletter" \in Verdicts
BY DEF AutoVerdicts, Verdicts

LEMMA UndecidedIsNone == NoDecision \notin Decisions
BY DEF NoDecision, Decisions, Deciders

LEMMA PostType ==
    ASSUME NEW p \in Packets, NEW d \in Decisions PROVE Post(p, d) \in Posts
BY DEF Post, Posts, Stages

(* A process that is sending something holds a packet and its decision. *)
LEMMA Sending ==
    ASSUME TypeOK, NEW w \in Deciders, post[w].stage \in Stages
    PROVE  /\ post[w] \in Posts
           /\ post[w].packet \in Packets
           /\ post[w].decision \in Decisions
<1>1. NoPost.stage \notin Stages
  BY DEF NoPost, Stages
<1> QED
  BY <1>1 DEF TypeOK, Posts

LEMMA LastType ==
    ASSUME NEW o \in [Packets -> SUBSET Packets], NEW p \in Packets
    PROVE  Last(o, p) \in [Packets -> SUBSET Packets]
BY DEF Last

-----------------------------------------------------------------------------

(* The transactions of the queue keep it well typed. *)
LEMMA QueueInitType == QueueInit => QueueTypeOK
BY DEF QueueInit, QueueTypeOK

LEMMA EnqueueType ==
    ASSUME QueueTypeOK, NEW p \in Packets, Enqueue(p) PROVE QueueTypeOK'
BY LastType DEF QueueTypeOK, Enqueue

LEMMA ApplyType ==
    ASSUME QueueTypeOK, NEW p \in Packets, NEW d \in Decisions,
           NEW n \in BOOLEAN, NEW s \in BOOLEAN, ApplyDecision(p, d, n, s)
    PROVE  QueueTypeOK'
<1>1. d.verdict \in Verdicts
  BY DEF Decisions
<1> QED
  BY <1>1, LastType DEF QueueTypeOK, ApplyDecision

LEMMA DeliveredType ==
    ASSUME QueueTypeOK, NEW p \in Packets, NEW d \in Decisions, NEW valid \in BOOLEAN,
           MarkDelivered(p, d, valid)
    PROVE  QueueTypeOK'
BY DEF QueueTypeOK, MarkDelivered

LEMMA SuppressedType ==
    ASSUME QueueTypeOK, NEW p \in Packets, NEW d, MarkSuppressed(p, d)
    PROVE  QueueTypeOK'
BY DEF QueueTypeOK, MarkSuppressed

LEMMA ReplayType ==
    ASSUME QueueTypeOK, NEW p \in Packets, ReplayDeadletter(p) PROVE QueueTypeOK'
BY LastType DEF QueueTypeOK, ReplayDeadletter

LEMMA WindowType ==
    ASSUME QueueTypeOK, NEW p \in Packets, WindowPasses(p) PROVE QueueTypeOK'
BY DEF QueueTypeOK, WindowPasses

LEMMA QueueSameType == ASSUME QueueTypeOK, UNCHANGED queueVars PROVE QueueTypeOK'
BY DEF QueueTypeOK, queueVars

-----------------------------------------------------------------------------

LEMMA KeysType == \A S \in SUBSET Packets : Keys(S) \subseteq Keys(Packets)
BY DEF Keys

LEMMA IdleType == CycleIdle =>
    /\ pc' = "idle" /\ todo' = {}
    /\ age' \in [Packets -> SUBSET Packets]
    /\ snap' \in [Packets -> Decisions \cup {NoDecision}]
    /\ alerted' = {} /\ attempted' = {} /\ seen' = {}
BY DEF CycleIdle, NoOrder, NoDecisions

LEMMA InitType == Init => TypeInv
<1> SUFFICES ASSUME Init PROVE TypeInv
  OBVIOUS
<1>1. QueueTypeOK
  BY QueueInitType DEF Init
<1>2. snap \in [Packets -> Decisions \cup {NoDecision}] /\ age \in [Packets -> SUBSET Packets]
  BY DEF Init, NoDecisions, NoOrder
<1>3. commands \in 0 .. MaxCommands /\ faults \in 0 .. MaxFaults
  BY DEF Init
<1> QED
  BY <1>1, <1>2, <1>3 DEF Init, TypeInv, TypeOK, SnapDecided

(* A decision of the autopilot keeps the queue, todo and post well typed. *)
LEMMA DecideAsType ==
    ASSUME TypeOK, NEW p \in Packets, NEW d \in Decisions, DecideAs(p, d)
    PROVE  /\ QueueTypeOK'
           /\ todo' \subseteq Packets
           /\ post' \in [Deciders -> Posts \cup {NoPost}]
<1> DEFINE wanted == NotifyApproveOnly => d.verdict = "approve"
           duplicate == wanted /\ Event[p] \in alerted
<1>0. wanted \in BOOLEAN /\ duplicate \in BOOLEAN
  OBVIOUS
<1>1. CASE ApplyDecision(p, d, wanted, duplicate)
           /\ IF wanted /\ ~ duplicate
                THEN post' = [post EXCEPT !["autopilot"] = Post(p, d)] /\ UNCHANGED todo
                ELSE todo' = todo \ {p} /\ UNCHANGED post
  <2>1. QueueTypeOK'
    BY <1>0, <1>1, ApplyType DEF TypeOK
  <2> QED
    BY <2>1, <1>1, PostType DEF TypeOK
<1>2. CASE todo' = todo \ {p} /\ UNCHANGED <<queueVars, post>>
  BY <1>2, QueueSameType DEF TypeOK
<1> QED
  BY <1>1, <1>2 DEF DecideAs

LEMMA PassType == ASSUME TypeInv, NEW p \in Packets, Pass(p) PROVE TypeInv'
<1> USE DEF TypeInv, TypeOK
<1>1. CASE SuppressOutbox(p)
  <2>1. QueueTypeOK'
    BY <1>1, SuppressedType, QueueSameType DEF SuppressOutbox
  <2> QED
    BY <1>1, <2>1 DEF SuppressOutbox, SnapDecided
<1>2. CASE DeferOutbox(p)
  BY <1>2, QueueSameType DEF DeferOutbox, SnapDecided
<1>3. CASE SendOutbox(p)
  <2>1. snap[p] \in Decisions
    BY <1>3 DEF SendOutbox, Turn, SnapDecided
  <2>2. post' \in [Deciders -> Posts \cup {NoPost}]
    BY <1>3, <2>1, PostType DEF SendOutbox
  <2>3. attempted' \subseteq {Event[q] : q \in Packets} \ {NoEvent}
    BY <1>3 DEF SendOutbox, Keys
  <2> QED
    BY <1>3, <2>2, <2>3, QueueSameType DEF SendOutbox, SnapDecided
<1>4. CASE Decide(p)
  <2>1. PICK v \in AutoVerdicts : DecideAs(p, ByAutopilot(v))
    BY <1>4 DEF Decide
  <2>2. ByAutopilot(v) \in Decisions
    BY AutoType, AutoVerdictsAre
  <2>3. /\ QueueTypeOK'
        /\ todo' \subseteq Packets
        /\ post' \in [Deciders -> Posts \cup {NoPost}]
    BY <2>1, <2>2, DecideAsType
  <2> QED
    BY <1>4, <2>3 DEF Decide, SnapDecided
<1>5. CASE DeferJudgement(p)
  BY <1>5, QueueSameType DEF DeferJudgement, SnapDecided
<1>6. CASE DeadletterTwin(p)
  <2>1. ByAutopilot("deadletter") \in Decisions
    BY AutoType, AutoVerdictsAre
  <2>2. /\ QueueTypeOK'
        /\ todo' \subseteq Packets
        /\ post' \in [Deciders -> Posts \cup {NoPost}]
    BY <1>6, <2>1, DecideAsType DEF DeadletterTwin
  <2> QED
    BY <1>6, <2>2 DEF DeadletterTwin, SnapDecided
<1> QED
  BY <1>1, <1>2, <1>3, <1>4, <1>5, <1>6 DEF Pass

LEMMA SendType ==
    ASSUME TypeInv, NEW w \in Deciders,
           Deliver(w) \/ Refuse(w) \/ LoseResponse(w) \/ Acknowledge(w)
    PROVE  TypeInv'
<1> USE DEF TypeInv, TypeOK
<1>s. /\ post[w] \in Posts
      /\ post[w].packet \in Packets
      /\ post[w].decision \in Decisions
  BY Sending DEF Deliver, Refuse, LoseResponse, Acknowledge, Stages
<1>e. PostEnds(w) => /\ post' \in [Deciders -> Posts \cup {NoPost}]
                     /\ todo' \subseteq todo
                     /\ UNCHANGED <<pc, age, snap, attempted, seen, commands>>
  BY DEF PostEnds
<1>a. Accept(w) => received' \subseteq Packets \X Decisions
  BY <1>s DEF Accept
<1>1. CASE Deliver(w)
  <2>1. [post[w] EXCEPT !.stage = "answered"] \in Posts
    BY <1>s DEF Posts, Stages
  <2>2. post' \in [Deciders -> Posts \cup {NoPost}]
    BY <1>1, <2>1 DEF Deliver
  <2> QED
    BY <1>1, <2>2, <1>a, QueueSameType DEF Deliver, cycle, SnapDecided
<1>2. CASE Refuse(w)
  BY <1>2, <1>e, QueueSameType DEF Refuse, SnapDecided
<1>3. CASE LoseResponse(w)
  <2>1. faults' \in 0 .. MaxFaults
    BY <1>3 DEF LoseResponse
  <2> QED
    BY <1>3, <2>1, <1>e, <1>a, QueueSameType DEF LoseResponse, SnapDecided
<1>4. CASE Acknowledge(w)
  <2>0. /\ \/ \E valid \in BOOLEAN :
                 MarkDelivered(post[w].packet, post[w].decision, valid)
           \/ UNCHANGED queueVars
        /\ alerted' = alerted \/ alerted' = alerted \cup Keys({post[w].packet})
        /\ faults' = faults \/ (faults < MaxFaults /\ faults' = faults + 1)
        /\ PostEnds(w) /\ UNCHANGED received
    BY <1>4 DEF Acknowledge
  <2>1. QueueTypeOK'
    BY <2>0, <1>s, DeliveredType, QueueSameType
  <2>2. alerted' \subseteq {Event[q] : q \in Packets} \ {NoEvent}
    BY <2>0, <1>s DEF Keys
  <2>3. faults' \in 0 .. MaxFaults
    <3>1. faults \in 0 .. MaxFaults /\ MaxFaults \in Nat
      BY AutopilotAssumption
    <3> QED
      BY <3>1, <2>0
  <2>4. snap' = snap /\ pc' = pc /\ todo' \subseteq todo
    BY <2>0, <1>e
  <2> QED
    BY <2>0, <2>1, <2>2, <2>3, <2>4, <1>e DEF SnapDecided
<1> QED
  BY <1>1, <1>2, <1>3, <1>4

LEMMA CycleType ==
    ASSUME TypeInv, ReadAlerted \/ ListOutbox \/ AbandonCycle \/ ListPending \/ EndCycle
    PROVE  TypeInv'
<1> USE DEF TypeInv, TypeOK
<1>1. CASE ReadAlerted
  BY <1>1, QueueSameType DEF ReadAlerted, AlertedKeys, Keys, SnapDecided
<1>2. CASE ListOutbox
  <2>1. \A p \in Outbox : decision[p] \in Decisions
    BY DEF Outbox, QueueTypeOK
  <2>2. todo' \subseteq Outbox /\ Outbox \subseteq Packets
    BY <1>2 DEF ListOutbox, Oldest, Outbox
  <2>3. SnapDecided'
    BY <1>2, <2>1, <2>2 DEF ListOutbox, SnapDecided
  <2>4. /\ snap' \in [Packets -> Decisions \cup {NoDecision}]
        /\ age' \in [Packets -> SUBSET Packets]
    BY <1>2 DEF ListOutbox, QueueTypeOK
  <2> QED
    BY <1>2, <2>2, <2>3, <2>4, QueueSameType DEF ListOutbox
<1>3. CASE AbandonCycle
  BY <1>3, IdleType, QueueSameType DEF AbandonCycle, SnapDecided
<1>4. CASE ListPending
  <2>1. todo' \subseteq Packets
    BY <1>4 DEF ListPending, Oldest, Pending
  <2>2. /\ snap' \in [Packets -> Decisions \cup {NoDecision}]
        /\ age' \in [Packets -> SUBSET Packets]
    BY <1>4 DEF ListPending, NoDecisions, QueueTypeOK
  <2> QED
    BY <1>4, <2>1, <2>2, QueueSameType DEF ListPending, SnapDecided
<1>5. CASE EndCycle
  BY <1>5, IdleType, QueueSameType DEF EndCycle, SnapDecided
<1> QED
  BY <1>1, <1>2, <1>3, <1>4, <1>5

LEMMA OtherType ==
    ASSUME TypeInv, NEW p \in Packets,
           OperatorDecides(p) \/ OperatorReplays(p) \/ Arrive(p) \/ WeekPasses(p)
    PROVE  TypeInv'
<1> USE DEF TypeInv, TypeOK
<1>c. OperatorIdle => commands' \in 0 .. MaxCommands
  BY DEF OperatorIdle
<1>1. CASE OperatorDecides(p)
  <2>1. PICK v \in OperatorVerdicts, n \in BOOLEAN :
           /\ ApplyDecision(p, ByOperator(v), n, FALSE)
           /\ post' = IF n THEN [post EXCEPT !["operator"] = Post(p, ByOperator(v))] ELSE post
    BY <1>1 DEF OperatorDecides
  <2>2. ByOperator(v) \in Decisions
    BY AutoType
  <2>3. QueueTypeOK'
    BY <2>1, <2>2, LastType DEF QueueTypeOK, ApplyDecision, Decisions
  <2>4. post' \in [Deciders -> Posts \cup {NoPost}]
    BY <2>1, <2>2, PostType
  <2> QED
    BY <1>1, <1>c, <2>3, <2>4 DEF OperatorDecides, cycle, SnapDecided
<1>2. CASE OperatorReplays(p)
  BY <1>2, <1>c, ReplayType DEF OperatorReplays, cycle, SnapDecided
<1>3. CASE Arrive(p)
  BY <1>3, EnqueueType DEF Arrive, cycle, SnapDecided
<1>4. CASE WeekPasses(p)
  BY <1>4, WindowType DEF WeekPasses, cycle, SnapDecided
<1> QED
  BY <1>1, <1>2, <1>3, <1>4

LEMMA CrashType == ASSUME TypeInv, Crash \/ OperatorCrash PROVE TypeInv'
<1> USE DEF TypeInv, TypeOK
<1>1. faults' \in 0 .. MaxFaults
  BY DEF Crash, OperatorCrash
<1>2. CASE Crash
  BY <1>1, <1>2, IdleType, QueueSameType DEF Crash, SnapDecided
<1>3. CASE OperatorCrash
  BY <1>1, <1>3, QueueSameType DEF OperatorCrash, cycle, SnapDecided
<1> QED
  BY <1>2, <1>3

LEMMA StepType == TypeInv /\ [Next]_vars => TypeInv'
<1> SUFFICES ASSUME TypeInv, [Next]_vars PROVE TypeInv'
  OBVIOUS
<1>1. CASE UNCHANGED vars
  BY <1>1 DEF vars, queueVars, cycle, TypeInv, TypeOK, QueueTypeOK, SnapDecided
<1>2. CASE Next
  BY <1>2, CycleType, PassType, SendType, OtherType, CrashType DEF Next
<1> QED
  BY <1>1, <1>2

(* Type correctness of the queue and of the two processes on it. *)
THEOREM TypeCorrect == Spec => []TypeOK
<1>1. TypeInv => TypeOK
  BY DEF TypeInv
<1> QED
  BY <1>1, InitType, StepType, PTL DEF Spec

-----------------------------------------------------------------------------

(* What a step does to the queue, with what the properties need to know of   *)
(* the process that made it.                                                 *)
QueueKept == UNCHANGED queueVars
Decided == \E p \in Packets, d \in Decisions, n \in BOOLEAN, s \in BOOLEAN :
             /\ ApplyDecision(p, d, n, s)
             /\ s => n /\ Event[p] \in alerted
             /\ n => (NotifyApproveOnly => d.verdict = "approve")
                       \/ d.verdict \in OperatorReports
Delivered == \E w \in Deciders, valid \in BOOLEAN :
               /\ post[w].stage = "answered"
               /\ MarkDelivered(post[w].packet, post[w].decision, valid)
               /\ valid \/ faults' = faults + 1
Suppressed == \E p \in Packets, d \in Decisions \cup {NoDecision} :
                MarkSuppressed(p, d) /\ Event[p] \in alerted
Requeued == \E p \in Packets : Enqueue(p) \/ ReplayDeadletter(p) \/ WindowPasses(p)

QueueStep == QueueKept \/ Decided \/ Delivered \/ Suppressed \/ Requeued

LEMMA DecideAsStep ==
    ASSUME TypeOK, NEW p \in Packets, NEW d \in Decisions, DecideAs(p, d)
    PROVE  QueueKept \/ Decided
<1> DEFINE wanted == NotifyApproveOnly => d.verdict = "approve"
           duplicate == wanted /\ Event[p] \in alerted
<1>1. CASE ApplyDecision(p, d, wanted, duplicate)
  <2>1. wanted \in BOOLEAN /\ duplicate \in BOOLEAN
    OBVIOUS
  <2> QED
    BY <1>1, <2>1 DEF Decided
<1>2. CASE UNCHANGED <<queueVars, post>>
  BY <1>2 DEF QueueKept
<1> QED
  BY <1>1, <1>2 DEF DecideAs

LEMMA PassQueueStep ==
    ASSUME TypeOK, NEW p \in Packets, Pass(p) PROVE QueueKept \/ Decided \/ Suppressed
<1>1. CASE SuppressOutbox(p)
  <2>1. snap[p] \in Decisions \cup {NoDecision}
    BY DEF TypeOK
  <2> QED
    BY <1>1, <2>1 DEF SuppressOutbox, QueueKept, Suppressed
<1>2. CASE DeferOutbox(p) \/ SendOutbox(p) \/ DeferJudgement(p)
  BY <1>2 DEF DeferOutbox, SendOutbox, DeferJudgement, QueueKept
<1>3. CASE Decide(p)
  BY <1>3, AutoType, AutoVerdictsAre, DecideAsStep DEF Decide
<1>4. CASE DeadletterTwin(p)
  BY <1>4, AutoType, AutoVerdictsAre, DecideAsStep DEF DeadletterTwin
<1> QED
  BY <1>1, <1>2, <1>3, <1>4 DEF Pass

LEMMA NextQueueStep == ASSUME TypeOK, Next PROVE QueueStep
<1>1. CASE ReadAlerted \/ ListOutbox \/ AbandonCycle \/ ListPending \/ EndCycle
  BY <1>1 DEF ReadAlerted, ListOutbox, AbandonCycle, ListPending, EndCycle,
              QueueStep, QueueKept
<1>2. ASSUME NEW p \in Packets, Pass(p) PROVE QueueStep
  BY <1>2, PassQueueStep DEF QueueStep
<1>3. ASSUME NEW w \in Deciders, Deliver(w) \/ Refuse(w) \/ LoseResponse(w) \/ Acknowledge(w)
      PROVE  QueueStep
  BY <1>3 DEF Deliver, Refuse, LoseResponse, Acknowledge, QueueStep, QueueKept, Delivered
<1>4. ASSUME NEW p \in Packets,
             OperatorDecides(p) \/ OperatorReplays(p) \/ Arrive(p) \/ WeekPasses(p)
      PROVE  QueueStep
  <2>1. CASE OperatorDecides(p)
    <3>1. PICK v \in OperatorVerdicts, n \in BOOLEAN :
             /\ n => v \in OperatorReports
             /\ ApplyDecision(p, ByOperator(v), n, FALSE)
      BY <2>1 DEF OperatorDecides
    <3>2. ByOperator(v) \in Decisions /\ ByOperator(v).verdict = v /\ FALSE \in BOOLEAN
      BY AutoType DEF ByOperator
    <3>3. Decided
      BY <3>1, <3>2 DEF Decided
    <3> QED
      BY <3>3 DEF QueueStep
  <2>2. CASE OperatorReplays(p) \/ Arrive(p) \/ WeekPasses(p)
    BY <2>2 DEF OperatorReplays, Arrive, WeekPasses, QueueStep, Requeued
  <2> QED
    BY <1>4, <2>1, <2>2
<1>5. CASE Crash \/ OperatorCrash
  BY <1>5 DEF Crash, OperatorCrash, QueueStep, QueueKept
<1> QED
  BY <1>1, <1>2, <1>3, <1>4, <1>5 DEF Next

-----------------------------------------------------------------------------

(* The approvals keep their decision, whoever else works on the queue.       *)
LEMMA StepKeepsDecision ==
    ASSUME TypeOK, Next, NEW p \in Packets, status[p] \in {"approve", "reject", "escalate"}
    PROVE  status'[p] = status[p] /\ decision'[p] = decision[p]
<1>1. CASE QueueKept
  BY <1>1 DEF QueueKept, queueVars
<1>2. CASE Decided
  BY <1>2 DEF Decided, ApplyDecision, TypeOK, QueueTypeOK
<1>3. CASE Delivered \/ Suppressed
  BY <1>3 DEF Delivered, MarkDelivered, Suppressed, MarkSuppressed
<1>4. CASE Requeued
  BY <1>4 DEF Requeued, Enqueue, Exists, ReplayDeadletter, WindowPasses, TypeOK, QueueTypeOK
<1> QED
  BY <1>1, <1>2, <1>3, <1>4, NextQueueStep DEF QueueStep

(* Only a dead letter is ever decided again: apply_decision and              *)
(* replay_deadletter leave every other decision as it is.                    *)
THEOREM DecisionsAreKept == Spec => DecisionKept
<1>1. TypeOK /\ [Next]_vars =>
        [\A p \in Packets : status[p] \in {"approve", "reject", "escalate"} =>
            status'[p] = status[p] /\ decision'[p] = decision[p]]_vars
  BY StepKeepsDecision
<1> QED
  BY <1>1, TypeCorrect, PTL DEF Spec, DecisionKept

LEMMA StepKeepsJob == ASSUME TypeOK, Next, JobMatches PROVE JobMatches'
<1>1. CASE QueueKept
  BY <1>1 DEF QueueKept, queueVars, JobMatches
<1>2. CASE Decided
  BY <1>2 DEF Decided, ApplyDecision, TypeOK, QueueTypeOK, JobMatches
<1>3. CASE Delivered \/ Suppressed
  BY <1>3 DEF Delivered, MarkDelivered, Suppressed, MarkSuppressed, JobMatches
<1>4. CASE Requeued
  BY <1>4 DEF Requeued, Enqueue, Exists, ReplayDeadletter, WindowPasses, TypeOK, QueueTypeOK,
              JobMatches
<1> QED
  BY <1>1, <1>2, <1>3, <1>4, NextQueueStep DEF QueueStep

(* The capture job that the trigger opens carries the decision its packet    *)
(* still has.                                                                *)
THEOREM JobsMatch == Spec => []JobMatches
<1>1. Init => JobMatches
  BY DEF Init, QueueInit, JobMatches
<1>2. TypeOK /\ JobMatches /\ [Next]_vars => JobMatches'
  BY StepKeepsJob DEF vars, queueVars, JobMatches
<1> QED
  BY <1>1, <1>2, TypeCorrect, PTL DEF Spec

-----------------------------------------------------------------------------

(* The deployed configuration: only approvals are reported, by either        *)
(* process.                                                                  *)
ApprovalsOnly == NotifyApproveOnly /\ OperatorReports \subseteq {"approve"}

ReportsApprove ==
    ApprovalsOnly => \A p \in Packets : required[p] => decision[p].verdict = "approve"

LEMMA StepReports == ASSUME TypeOK, ReportsApprove, Next PROVE ReportsApprove'
<1> USE DEF ReportsApprove
<1>1. CASE QueueKept
  BY <1>1 DEF QueueKept, queueVars
<1>2. CASE Decided
  <2>1. PICK p \in Packets, d \in Decisions, n \in BOOLEAN, s \in BOOLEAN :
           /\ ApplyDecision(p, d, n, s)
           /\ n => (NotifyApproveOnly => d.verdict = "approve")
                     \/ d.verdict \in OperatorReports
    BY <1>2 DEF Decided
  <2>2. ApprovalsOnly => (n => d.verdict = "approve")
    BY <2>1 DEF ApprovalsOnly
  <2> QED
    BY <2>1, <2>2 DEF ApplyDecision, TypeOK, QueueTypeOK
<1>3. CASE Delivered
  BY <1>3 DEF Delivered, MarkDelivered
<1>4. CASE Suppressed
  BY <1>4 DEF Suppressed, MarkSuppressed
<1>5. CASE Requeued
  BY <1>5 DEF Requeued, Enqueue, ReplayDeadletter, WindowPasses, TypeOK, QueueTypeOK
<1> QED
  BY <1>1, <1>2, <1>3, <1>4, <1>5, NextQueueStep DEF QueueStep

(* The inductive invariant of the notifications.  An answered send has been  *)
(* accepted, so that its acknowledgement is true; a key is alerted only with *)
(* a report behind it, so that what it suppresses was reported.              *)
AnsweredWasAccepted ==
    \A w \in Deciders : post[w].stage = "answered" =>
        <<post[w].packet, post[w].decision>> \in received

(* The reports that count: where only approvals are reported, those of approvals. *)
Told == {r \in Reported : ApprovalsOnly => r[2].verdict = "approve"}

MarkedWasTold == \A p \in Packets : sent[p] # "unsent" => <<p, decision[p]>> \in Told
AlertedWasReported == \A k \in alerted : \E r \in Told : Event[r[1]] = k
SuppressedWasTold ==
    \A p \in Packets : suppressed[p] =>
        Event[p] # NoEvent /\ \E r \in Told : Event[r[1]] = Event[p]
Custody ==
    /\ ReportsApprove
    /\ acks \subseteq received
    /\ MarkedWasTold
    /\ AnsweredWasAccepted
    /\ AlertedWasReported
    /\ SuppressedWasTold
    /\ SentOrSuppressed

LEMMA InitCustody == Init => Custody
BY DEF Init, QueueInit, NoPost, Custody, ReportsApprove, MarkedWasTold, AnsweredWasAccepted,
       AlertedWasReported, SuppressedWasTold, SentOrSuppressed

LEMMA ReceivedGrows == ASSUME Next PROVE received \subseteq received'
<1>1. CASE ReadAlerted \/ ListOutbox \/ AbandonCycle \/ ListPending \/ EndCycle
  BY <1>1 DEF ReadAlerted, ListOutbox, AbandonCycle, ListPending, EndCycle
<1>2. CASE \E p \in Packets : Pass(p)
  BY <1>2 DEF Pass, SuppressOutbox, DeferOutbox, SendOutbox, Decide, DeferJudgement,
              DeadletterTwin
<1>3. CASE \E w \in Deciders : Deliver(w) \/ Refuse(w) \/ LoseResponse(w) \/ Acknowledge(w)
  BY <1>3 DEF Deliver, Refuse, LoseResponse, Acknowledge, Accept
<1>4. CASE \E p \in Packets :
             OperatorDecides(p) \/ OperatorReplays(p) \/ Arrive(p) \/ WeekPasses(p)
  BY <1>4 DEF OperatorDecides, OperatorReplays, Arrive, WeekPasses
<1>5. CASE Crash \/ OperatorCrash
  BY <1>5 DEF Crash, OperatorCrash
<1> QED
  BY <1>1, <1>2, <1>3, <1>4, <1>5 DEF Next

LEMMA AcksGrow == ASSUME QueueStep PROVE acks \subseteq acks'
BY DEF QueueStep, QueueKept, queueVars, Decided, ApplyDecision, Delivered, MarkDelivered,
       Suppressed, MarkSuppressed, Requeued, Enqueue, ReplayDeadletter, WindowPasses

LEMMA FaultsGrow == ASSUME TypeOK, Next PROVE faults > 0 => faults' > 0
<1>0. faults \in Nat
  BY DEF TypeOK
<1>1. faults' = faults \/ faults' = faults + 1
  <2>1. CASE ReadAlerted \/ ListOutbox \/ AbandonCycle \/ ListPending \/ EndCycle
    BY <2>1 DEF ReadAlerted, ListOutbox, AbandonCycle, ListPending, EndCycle
  <2>2. CASE \E p \in Packets : Pass(p)
    BY <2>2 DEF Pass, SuppressOutbox, DeferOutbox, SendOutbox, Decide, DeferJudgement,
                DeadletterTwin
  <2>3. CASE \E w \in Deciders : Deliver(w) \/ Refuse(w) \/ LoseResponse(w) \/ Acknowledge(w)
    BY <2>3 DEF Deliver, Refuse, LoseResponse, Acknowledge
  <2>4. CASE \E p \in Packets :
               OperatorDecides(p) \/ OperatorReplays(p) \/ Arrive(p) \/ WeekPasses(p)
    BY <2>4 DEF OperatorDecides, OperatorReplays, Arrive, WeekPasses
  <2>5. CASE Crash \/ OperatorCrash
    BY <2>5 DEF Crash, OperatorCrash
  <2> QED
    BY <2>1, <2>2, <2>3, <2>4, <2>5 DEF Next
<1> QED
  BY <1>0, <1>1

(* What counts as reported once counts for ever. *)
LEMMA ToldGrows == ASSUME TypeOK, Next PROVE Told \subseteq Told'
<1>1. acks \subseteq acks'
  BY AcksGrow, NextQueueStep
<1> QED
  BY <1>1, ReceivedGrows, FaultsGrow DEF Told, Reported

(* The ledger and the marks of the rows stay truthful. *)
LEMMA StepMarked == ASSUME TypeOK, Custody, Next PROVE acks' \subseteq received' /\ MarkedWasTold'
<1> USE ReceivedGrows, ToldGrows DEF Custody, MarkedWasTold
<1>1. CASE QueueKept
  BY <1>1 DEF QueueKept, queueVars
<1>2. CASE Decided
  BY <1>2 DEF Decided, ApplyDecision, TypeOK, QueueTypeOK
<1>3. CASE Delivered
  <2>1. PICK w \in Deciders, valid \in BOOLEAN :
          /\ post[w].stage = "answered"
          /\ MarkDelivered(post[w].packet, post[w].decision, valid)
          /\ valid \/ faults' = faults + 1
    BY <1>3 DEF Delivered
  <2> DEFINE r == <<post[w].packet, post[w].decision>>
  <2>2. r \in received /\ post[w].packet \in Packets
    BY <2>1, Sending DEF AnsweredWasAccepted, Stages
  <2>3. decision' = decision /\ decision[post[w].packet] = post[w].decision
    BY <2>1 DEF MarkDelivered, Awaits
  <2>4. ApprovalsOnly => post[w].decision.verdict = "approve"
    BY <2>1, <2>2, <2>3 DEF MarkDelivered, Awaits, Owed, ReportsApprove
  <2>5. r \in acks' \/ faults' > 0
    <3>1. faults \in Nat
      BY DEF TypeOK
    <3> QED
      BY <2>1, <3>1 DEF MarkDelivered
  <2>6. r[2] = post[w].decision
    OBVIOUS
  <2>7. r \in Told'
    BY <2>2, <2>4, <2>5, <2>6 DEF Told, Reported
  <2>8. acks' \subseteq received'
    BY <2>1, <2>2 DEF MarkDelivered
  <2>9. ASSUME NEW p \in Packets, sent'[p] # "unsent" PROVE <<p, decision'[p]>> \in Told'
    <3>1. CASE p = post[w].packet
      BY <2>3, <2>7, <3>1
    <3>2. CASE p # post[w].packet
      BY <2>1, <2>3, <2>9, <3>2 DEF MarkDelivered, TypeOK, QueueTypeOK
    <3> QED
      BY <3>1, <3>2
  <2> QED
    BY <2>8, <2>9
<1>4. CASE Suppressed
  BY <1>4 DEF Suppressed, MarkSuppressed
<1>5. CASE Requeued
  BY <1>5 DEF Requeued, Enqueue, ReplayDeadletter, WindowPasses, TypeOK, QueueTypeOK
<1> QED
  BY <1>1, <1>2, <1>3, <1>4, <1>5, NextQueueStep DEF QueueStep

LEMMA StepAnswered == ASSUME TypeOK, Custody, Next PROVE AnsweredWasAccepted'
<1> USE ReceivedGrows DEF Custody, AnsweredWasAccepted
<1>1. CASE ReadAlerted \/ ListOutbox \/ AbandonCycle \/ ListPending \/ EndCycle
  BY <1>1 DEF ReadAlerted, ListOutbox, AbandonCycle, ListPending, EndCycle
<1>a. \A p \in Packets, d \in Decisions : Post(p, d).stage # "answered"
  BY DEF Post
<1>2. ASSUME NEW p \in Packets, Pass(p) PROVE AnsweredWasAccepted'
  <2>1. ASSUME NEW d \in Decisions, DecideAs(p, d) PROVE AnsweredWasAccepted'
    BY <2>1, <1>a DEF DecideAs, TypeOK
  <2>2. CASE Decide(p)
    BY <2>2, <2>1, AutoType, AutoVerdictsAre DEF Decide
  <2>3. CASE DeadletterTwin(p)
    BY <2>3, <2>1, AutoType, AutoVerdictsAre DEF DeadletterTwin
  <2>4. CASE SendOutbox(p)
    BY <2>4 DEF SendOutbox, Post, TypeOK
  <2> QED
    BY <1>2, <2>2, <2>3, <2>4 DEF Pass, SuppressOutbox, DeferOutbox, DeferJudgement
<1>b. NoPost.stage # "answered"
  BY DEF NoPost
<1>3. ASSUME NEW w \in Deciders, Deliver(w) \/ Refuse(w) \/ LoseResponse(w) \/ Acknowledge(w)
      PROVE  AnsweredWasAccepted'
  <2>1. CASE Deliver(w)
    <3>1. post[w] \in Posts
      BY <2>1, Sending DEF Deliver, Stages
    <3> QED
      BY <2>1, <3>1 DEF Deliver, Accept, TypeOK, Posts
  <2>2. CASE Refuse(w) \/ LoseResponse(w) \/ Acknowledge(w)
    BY <2>2, <1>b DEF Refuse, LoseResponse, Acknowledge, PostEnds, TypeOK
  <2> QED
    BY <1>3, <2>1, <2>2
<1>4. ASSUME NEW p \in Packets,
             OperatorDecides(p) \/ OperatorReplays(p) \/ Arrive(p) \/ WeekPasses(p)
      PROVE  AnsweredWasAccepted'
  <2>1. CASE OperatorDecides(p)
    BY <2>1, <1>a, AutoType DEF OperatorDecides, TypeOK
  <2>2. CASE OperatorReplays(p) \/ Arrive(p) \/ WeekPasses(p)
    BY <2>2 DEF OperatorReplays, Arrive, WeekPasses
  <2> QED
    BY <1>4, <2>1, <2>2
<1>5. CASE Crash \/ OperatorCrash
  BY <1>5, <1>b DEF Crash, OperatorCrash, TypeOK
<1> QED
  BY <1>1, <1>2, <1>3, <1>4, <1>5 DEF Next

LEMMA StepAlerted == ASSUME TypeOK, Custody, Next PROVE AlertedWasReported'
<1> USE DEF Custody, AlertedWasReported
<1>g. Told \subseteq Told'
  BY ToldGrows
<1>k. alerted' \subseteq alerted => AlertedWasReported'
  BY <1>g
<1>1. CASE ReadAlerted
  <2>1. ASSUME NEW k \in alerted' PROVE \E r \in Told : Event[r[1]] = k
    <3>1. PICK p \in Packets : sent[p] = "recent" /\ k = Event[p]
      BY <1>1, <2>1 DEF ReadAlerted, AlertedKeys, Keys
    <3>2. <<p, decision[p]>> \in Told
      BY <3>1 DEF MarkedWasTold
    <3>3. <<p, decision[p]>>[1] = p
      OBVIOUS
    <3> QED
      BY <3>1, <3>2, <3>3
  <2> QED
    BY <2>1, <1>g
<1>2. CASE ListOutbox \/ ListPending
  BY <1>2, <1>k DEF ListOutbox, ListPending
<1>3. CASE AbandonCycle \/ EndCycle \/ Crash
  BY <1>3, <1>k DEF AbandonCycle, EndCycle, Crash, CycleIdle
<1>4. ASSUME NEW p \in Packets, Pass(p) PROVE AlertedWasReported'
  BY <1>4, <1>k DEF Pass, SuppressOutbox, DeferOutbox, SendOutbox, Decide, DeferJudgement,
                   DeadletterTwin
<1>5. ASSUME NEW w \in Deciders, Acknowledge(w) PROVE AlertedWasReported'
  <2>1. CASE alerted' = alerted
    BY <2>1, <1>k
  <2>2. CASE /\ \E valid \in BOOLEAN : MarkDelivered(post[w].packet, post[w].decision, valid)
             /\ alerted' = alerted \cup Keys({post[w].packet})
    <3>0. /\ post[w].packet \in Packets
          /\ sent'[post[w].packet] = "recent"
          /\ decision'[post[w].packet] = post[w].decision
      BY <1>5, <2>2, Sending DEF Acknowledge, Stages, MarkDelivered, Awaits, TypeOK, QueueTypeOK
    <3>1. <<post[w].packet, post[w].decision>> \in Told'
      BY <1>5, <3>0, StepMarked DEF Next, MarkedWasTold
    <3>2. <<post[w].packet, post[w].decision>>[1] = post[w].packet
      OBVIOUS
    <3>3. \A k \in Keys({post[w].packet}) : k = Event[post[w].packet]
      BY DEF Keys
    <3> QED
      BY <2>2, <3>1, <3>2, <3>3, <1>g
  <2> QED
    BY <1>5, <2>1, <2>2 DEF Acknowledge
<1>6. ASSUME NEW w \in Deciders, Deliver(w) \/ Refuse(w) \/ LoseResponse(w)
      PROVE  AlertedWasReported'
  BY <1>6, <1>k DEF Deliver, Refuse, LoseResponse, cycle
<1>7. ASSUME NEW p \in Packets,
             OperatorDecides(p) \/ OperatorReplays(p) \/ Arrive(p) \/ WeekPasses(p)
      PROVE  AlertedWasReported'
  BY <1>7, <1>k DEF OperatorDecides, OperatorReplays, Arrive, WeekPasses, cycle
<1>8. CASE OperatorCrash
  BY <1>8, <1>k DEF OperatorCrash, cycle
<1> QED
  BY <1>1, <1>2, <1>3, <1>4, <1>5, <1>6, <1>7, <1>8 DEF Next

LEMMA StepSuppressed == ASSUME TypeOK, Custody, Next PROVE SuppressedWasTold'
<1> USE DEF Custody, SuppressedWasTold
<1>g. Told \subseteq Told'
  BY ToldGrows
<1>e. NoEvent \notin alerted
  BY DEF TypeOK
<1>1. CASE QueueKept
  BY <1>1, <1>g DEF QueueKept, queueVars
<1>2. CASE Decided
  BY <1>2, <1>e, <1>g DEF Decided, ApplyDecision, AlertedWasReported, TypeOK, QueueTypeOK
<1>3. CASE Delivered
  BY <1>3, <1>g DEF Delivered, MarkDelivered
<1>4. CASE Suppressed
  BY <1>4, <1>e, <1>g DEF Suppressed, MarkSuppressed, AlertedWasReported, TypeOK, QueueTypeOK
<1>5. CASE Requeued
  BY <1>5, <1>g DEF Requeued, Enqueue, ReplayDeadletter, WindowPasses, TypeOK, QueueTypeOK
<1> QED
  BY <1>1, <1>2, <1>3, <1>4, <1>5, NextQueueStep DEF QueueStep

LEMMA StepEither == ASSUME TypeOK, Custody, Next PROVE SentOrSuppressed'
<1> USE DEF Custody, SentOrSuppressed
<1>1. CASE QueueKept
  BY <1>1 DEF QueueKept, queueVars
<1>2. CASE Decided
  BY <1>2 DEF Decided, ApplyDecision, TypeOK, QueueTypeOK
<1>3. CASE Delivered \/ Suppressed
  BY <1>3 DEF Delivered, MarkDelivered, Suppressed, MarkSuppressed, Awaits, Owed,
              TypeOK, QueueTypeOK
<1>4. CASE Requeued
  BY <1>4 DEF Requeued, Enqueue, ReplayDeadletter, WindowPasses, TypeOK, QueueTypeOK
<1> QED
  BY <1>1, <1>2, <1>3, <1>4, NextQueueStep DEF QueueStep

LEMMA StepCustody == TypeOK /\ Custody /\ [Next]_vars => Custody'
<1> SUFFICES ASSUME TypeOK, Custody, [Next]_vars PROVE Custody'
  OBVIOUS
<1>1. CASE UNCHANGED vars
  BY <1>1 DEF vars, queueVars, cycle, Custody, ReportsApprove, MarkedWasTold,
              AnsweredWasAccepted, AlertedWasReported, SuppressedWasTold, SentOrSuppressed,
              Told, Reported
<1>2. CASE Next
  BY <1>2, StepReports, StepMarked, StepAnswered, StepAlerted, StepSuppressed, StepEither DEF Custody
<1> QED
  BY <1>1, <1>2

(* The inductive invariant of the notifications holds in every state.        *)
THEOREM CustodyHolds == Spec => []Custody
BY InitCustody, StepCustody, TypeCorrect, PTL DEF Spec

(* The delivery ledger only says what the provider was told, and a row that  *)
(* is marked as sent was reported with the decision it carries.              *)
THEOREM LedgerIsTrue == Spec => []AckedWasDelivered
<1>1. Custody => AckedWasDelivered
  BY DEF Custody, AckedWasDelivered, MarkedWasTold, Told
<1> QED
  BY <1>1, CustodyHolds, PTL

(* A packet is suppressed only behind a report of its event.                 *)
THEOREM SuppressionIsBacked == Spec => []SuppressedWasReported
<1>1. Custody => SuppressedWasReported
  BY DEF Custody, SuppressedWasTold, SuppressedWasReported, Told
<1> QED
  BY <1>1, CustodyHolds, PTL

(* The two processes never both acknowledge and suppress one packet.         *)
THEOREM NeverBoth == Spec => []SentOrSuppressed
<1>1. Custody => SentOrSuppressed
  BY DEF Custody
<1> QED
  BY <1>1, CustodyHolds, PTL

(* Acknowledgements, suppressions and jobs say together what happened.       *)
THEOREM LedgersAreTrue == Spec => []LedgersTrue
<1>1. AckedWasDelivered /\ SuppressedWasReported /\ SentOrSuppressed /\ JobMatches => LedgersTrue
  BY DEF LedgersTrue
<1> QED
  BY <1>1, LedgerIsTrue, SuppressionIsBacked, NeverBoth, JobsMatch, PTL

-----------------------------------------------------------------------------

(* Where only approvals are reported, only an approval suppresses a co-filing *)
(* of its event; run pilot_misled shows that the assumption is needed.       *)
THEOREM SuppressionNeedsApproval == ApprovalsOnly /\ Spec => []SuppressedByApproval
<1>1. CASE ApprovalsOnly
  <2>1. Custody => SuppressedByApproval
    BY <1>1 DEF Custody, SuppressedWasTold, SuppressedByApproval, Told
  <2> QED
    BY <2>1, CustodyHolds, PTL
<1>2. CASE ~ ApprovalsOnly
  BY <1>2
<1> QED
  BY <1>1, <1>2

-----------------------------------------------------------------------------
(* One alert per economic event, as long as the autopilot works undisturbed. *)

(* A row that is not decided has nothing to report and was never reported.   *)
Fresh == \A p \in Packets : status[p] \in {"absent", "pending"} =>
            ~ required[p] /\ sent[p] = "unsent"

(* No fault, no command of the operator, and every report is of this week.   *)
Quiet == faults = 0 /\ commands = 0 /\ \A p \in Packets : sent[p] # "old"

Approval(p) == sent[p] = "recent" /\ decision[p].verdict = "approve"

(* The autopilot knows of every event it has reported, what it is about to    *)
(* send is still owed, and every approval the provider has accepted is        *)
(* acknowledged or about to be.                                              *)
AlertedKnown == pc # "idle" => AlertedKeys \subseteq alerted
ReadIsOwed == pc = "outbox" => \A p \in todo : Awaits(p, snap[p])
SentIsOwed ==
    post["autopilot"] # NoPost =>
      LET p == post["autopilot"].packet
          d == post["autopilot"].decision
      IN  Awaits(p, d) /\ (d.verdict = "approve" => Event[p] \notin alerted)
AcceptedIsMarked ==
    \A p \in Packets, d \in Decisions : <<p, d>> \in received /\ d.verdict = "approve" =>
      \/ sent[p] = "recent" /\ decision[p] = d
      \/ /\ post["autopilot"].stage = "answered"
         /\ post["autopilot"].packet = p
         /\ post["autopilot"].decision = d
OneMarked ==
    \A p, q \in Packets :
      Approval(p) /\ Approval(q) /\ Event[p] = Event[q] /\ Event[p] # NoEvent => p = q
NothingElseSent ==
    /\ post["operator"] = NoPost
    /\ pc \in {"idle", "listing"} => post["autopilot"] = NoPost

Undisturbed ==
    /\ AlertedKnown /\ ReadIsOwed /\ SentIsOwed
    /\ AcceptedIsMarked /\ OneMarked /\ NothingElseSent

OneAlertInv == Fresh /\ (Quiet => Undisturbed)

LEMMA StepFresh == ASSUME TypeOK, Fresh, Next PROVE Fresh'
<1> USE DEF Fresh, TypeOK, QueueTypeOK
<1>1. CASE QueueKept
  BY <1>1 DEF QueueKept, queueVars
<1>2. CASE Decided
  <2>1. PICK p \in Packets, d \in Decisions, n \in BOOLEAN, s \in BOOLEAN :
           ApplyDecision(p, d, n, s)
    BY <1>2 DEF Decided
  <2>2. d.verdict \notin {"absent", "pending"}
    BY DEF Decisions, Verdicts
  <2> QED
    BY <2>1, <2>2 DEF ApplyDecision
<1>3. CASE Delivered
  BY <1>3 DEF Delivered, MarkDelivered, Awaits, Owed
<1>4. CASE Suppressed
  BY <1>4 DEF Suppressed, MarkSuppressed
<1>5. CASE Requeued
  BY <1>5 DEF Requeued, Enqueue, Exists, ReplayDeadletter, WindowPasses
<1> QED
  BY <1>1, <1>2, <1>3, <1>4, <1>5, NextQueueStep DEF QueueStep

(* The steps that leave the autopilot undisturbed, and what they do to the   *)
(* queue.                                                                    *)
Reading == ReadAlerted \/ ListOutbox \/ AbandonCycle \/ ListPending \/ EndCycle
Sends(w) == Deliver(w) \/ Refuse(w) \/ Acknowledge(w)
QuietStep ==
    \/ Reading
    \/ \E p \in Packets : Pass(p) \/ Arrive(p)
    \/ \E w \in Deciders : Sends(w)

LEMMA QuietNext == ASSUME TypeOK, Next, Quiet' PROVE QuietStep
<1>1. faults \in Nat /\ commands \in Nat /\ faults' = 0 /\ commands' = 0
  BY DEF TypeOK, Quiet
<1>2. \A w \in Deciders : ~ LoseResponse(w)
  BY <1>1 DEF LoseResponse
<1>3. ~ Crash /\ ~ OperatorCrash
  BY <1>1 DEF Crash, OperatorCrash
<1>4. ~ OperatorIdle
  BY <1>1 DEF OperatorIdle
<1>5. \A p \in Packets : ~ OperatorDecides(p) /\ ~ OperatorReplays(p)
  BY <1>4 DEF OperatorDecides, OperatorReplays
<1>6. \A p \in Packets : ~ WeekPasses(p)
  BY DEF WeekPasses, WindowPasses, Quiet, TypeOK, QueueTypeOK
<1> QED
  BY <1>2, <1>3, <1>5, <1>6 DEF Next, QuietStep, Reading, Sends

LEMMA QuietQueue ==
    ASSUME TypeOK, QuietStep
    PROVE  QueueKept \/ Decided \/ Delivered \/ Suppressed \/ \E p \in Packets : Enqueue(p)
<1>1. CASE Reading
  BY <1>1 DEF Reading, ReadAlerted, ListOutbox, AbandonCycle, ListPending, EndCycle, QueueKept
<1>2. CASE \E p \in Packets : Pass(p)
  BY <1>2, PassQueueStep
<1>3. CASE \E p \in Packets : Arrive(p)
  BY <1>3 DEF Arrive
<1>4. CASE \E w \in Deciders : Sends(w)
  BY <1>4 DEF Sends, Deliver, Refuse, Acknowledge, QueueKept, Delivered
<1> QED
  BY <1>1, <1>2, <1>3, <1>4 DEF QuietStep

LEMMA QuietBefore == ASSUME TypeOK, Fresh, Next, Quiet' PROVE Quiet
<1>1. faults' = faults /\ commands' = commands
  <2>1. faults \in Nat /\ faults' = 0
    BY DEF TypeOK, Quiet
  <2>2. CASE \E w \in Deciders : Sends(w)
    <3>1. commands' = commands /\ (faults' = faults \/ faults' = faults + 1)
      BY <2>2 DEF Sends, Deliver, Refuse, Acknowledge, PostEnds
    <3> QED
      BY <2>1, <3>1
  <2>3. CASE Reading \/ \E p \in Packets : Pass(p) \/ Arrive(p)
    BY <2>3 DEF Reading, ReadAlerted, ListOutbox, AbandonCycle, ListPending, EndCycle, Pass,
       SuppressOutbox, DeferOutbox, SendOutbox, Decide, DeferJudgement, DeadletterTwin, Arrive
  <2> QED
    BY <2>2, <2>3, QuietNext DEF QuietStep
<1>2. ASSUME NEW p \in Packets, sent[p] = "old" PROVE sent'[p] = "old"
  <2> USE <1>2 DEF TypeOK, QueueTypeOK
  <2>1. CASE QueueKept
    BY <2>1 DEF QueueKept, queueVars
  <2>2. CASE Decided
    BY <2>2 DEF Decided, ApplyDecision, Fresh
  <2>3. CASE Delivered
    BY <2>3 DEF Delivered, MarkDelivered, Awaits, Owed
  <2>4. CASE Suppressed
    BY <2>4 DEF Suppressed, MarkSuppressed
  <2>5. CASE \E q \in Packets : Enqueue(q)
    BY <2>5 DEF Enqueue
  <2> QED
    BY <2>1, <2>2, <2>3, <2>4, <2>5, QuietNext, QuietQueue
<1> QED
  BY <1>1, <1>2 DEF Quiet

LEMMA ReadingKeeps ==
    ASSUME TypeInv, Undisturbed, Reading PROVE Undisturbed'
<1> USE DEF Undisturbed
<1>1. UNCHANGED <<queueVars, post, received>>
  BY DEF Reading, ReadAlerted, ListOutbox, AbandonCycle, ListPending, EndCycle
<1>2. AlertedKeys' = AlertedKeys /\ AcceptedIsMarked' /\ OneMarked'
  BY <1>1 DEF queueVars, AlertedKeys, AcceptedIsMarked, OneMarked, Approval
<1>3. \/ pc' = "idle" /\ post["autopilot"] = NoPost
      \/ pc' = "listing" /\ post["autopilot"] = NoPost /\ alerted' = AlertedKeys
      \/ pc' = "outbox" /\ todo' \subseteq Outbox /\ snap' = decision /\ alerted' = alerted
         /\ pc # "idle"
      \/ pc' = "decide" /\ alerted' = alerted /\ pc # "idle"
  BY DEF Reading, ReadAlerted, ListOutbox, AbandonCycle, ListPending, EndCycle, CycleIdle,
         PassDone, Oldest, NothingElseSent
<1>4. AlertedKnown'
  BY <1>2, <1>3 DEF AlertedKnown
<1>5. ReadIsOwed'
  BY <1>1, <1>3 DEF ReadIsOwed, Outbox, Awaits, Owed, queueVars
<1>6. SentIsOwed'
  BY <1>1, <1>3 DEF SentIsOwed, Awaits, Owed, queueVars
<1>7. NothingElseSent'
  BY <1>1, <1>3 DEF NothingElseSent
<1> QED
  BY <1>2, <1>4, <1>5, <1>6, <1>7

LEMMA ArrivalKeeps ==
    ASSUME TypeInv, Undisturbed, NEW p \in Packets, Arrive(p) PROVE Undisturbed'
<1> USE DEF Undisturbed
<1>1. UNCHANGED <<decision, required, sent, suppressed, cycle, post, received>>
  BY DEF Arrive, Enqueue
<1> QED
  BY <1>1 DEF cycle, AlertedKeys, AlertedKnown, ReadIsOwed, SentIsOwed, AcceptedIsMarked,
     OneMarked, NothingElseSent, Approval, Awaits, Owed

(* A turn of the autopilot begins with nothing being sent, so what the provider *)
(* has accepted is marked.                                                    *)
LEMMA TurnMarked ==
    ASSUME Undisturbed, NEW p \in Packets, Turn(p),
           NEW q \in Packets, NEW d \in Decisions,
           <<q, d>> \in received, d.verdict = "approve"
    PROVE  sent[q] = "recent" /\ decision[q] = d
BY DEF Undisturbed, AcceptedIsMarked, Turn, NoPost

LEMMA DecisionKeeps ==
    ASSUME TypeInv, Fresh, Undisturbed, NEW p \in Packets, NEW d \in Decisions,
           pc = "decide", Turn(p), DecideAs(p, d),
           UNCHANGED <<pc, snap, alerted, attempted, received>>
    PROVE  Undisturbed'
<1> DEFINE wanted == NotifyApproveOnly => d.verdict = "approve"
           duplicate == wanted /\ Event[p] \in alerted
<1> USE DEF TypeInv, TypeOK, QueueTypeOK
<1>1. post["autopilot"] = NoPost /\ post["operator"] = NoPost
  BY DEF Turn, Undisturbed, NothingElseSent
<1>2. CASE UNCHANGED <<queueVars, post>>
  BY <1>1, <1>2 DEF Undisturbed, queueVars, AlertedKnown, AlertedKeys, ReadIsOwed,
     SentIsOwed, AcceptedIsMarked, OneMarked, NothingElseSent, Approval
<1>3. CASE /\ ApplyDecision(p, d, wanted, duplicate)
           /\ IF wanted /\ ~ duplicate
                THEN post' = [post EXCEPT !["autopilot"] = Post(p, d)] /\ UNCHANGED todo
                ELSE todo' = todo \ {p} /\ UNCHANGED post
  <2>0. sent[p] = "unsent" /\ sent' = sent
    BY <1>3 DEF ApplyDecision, Fresh
  <2>1. \A q \in Packets : sent[q] = "recent" => q # p /\ decision'[q] = decision[q]
    BY <1>3, <2>0 DEF ApplyDecision
  <2>2. \A q \in Packets : Approval(q)' <=> Approval(q)
    BY <2>0, <2>1 DEF Approval
  <2>3. AlertedKeys' = AlertedKeys
    BY <2>2 DEF AlertedKeys, Approval
  <2>4. AlertedKnown' /\ ReadIsOwed' /\ OneMarked'
    BY <2>2, <2>3 DEF Undisturbed, AlertedKnown, ReadIsOwed, OneMarked
  <2>5. AcceptedIsMarked'
    BY <2>0, <2>1, TurnMarked DEF AcceptedIsMarked
  <2>6. CASE wanted /\ ~ duplicate
    <3>1. post'["autopilot"].packet = p /\ post'["autopilot"].decision = d
      BY <1>3, <2>6 DEF Post, Deciders
    <3>2. Awaits(p, d)'
      BY <1>3, <2>0, <2>6 DEF ApplyDecision, Awaits, Owed
    <3>3. SentIsOwed'
      BY <3>1, <3>2, <2>6 DEF SentIsOwed
    <3>4. NothingElseSent'
      BY <1>1, <1>3, <2>6 DEF NothingElseSent, Deciders
    <3> QED
      BY <2>4, <2>5, <3>3, <3>4 DEF Undisturbed
  <2>7. CASE ~ (wanted /\ ~ duplicate)
    <3>1. post' = post
      BY <1>3, <2>7
    <3> QED
      BY <1>1, <2>4, <2>5, <3>1 DEF Undisturbed, SentIsOwed, NothingElseSent
  <2> QED
    BY <2>6, <2>7
<1> QED
  BY <1>2, <1>3 DEF DecideAs

LEMMA PassKeeps ==
    ASSUME TypeInv, Fresh, Undisturbed, NEW p \in Packets, Pass(p) PROVE Undisturbed'
<1> USE DEF TypeInv, TypeOK, QueueTypeOK
<1>1. CASE SuppressOutbox(p)
  <2>1. post["autopilot"] = NoPost /\ post["operator"] = NoPost
    BY <1>1 DEF SuppressOutbox, Turn, Undisturbed, NothingElseSent
  <2>2. UNCHANGED <<pc, snap, alerted, post, received, sent, decision, required>>
    BY <1>1 DEF SuppressOutbox, MarkSuppressed, queueVars
  <2>3. ReadIsOwed'
    BY <1>1 DEF SuppressOutbox, MarkSuppressed, Undisturbed, ReadIsOwed, Awaits, Owed, queueVars
  <2> QED
    BY <2>1, <2>2, <2>3 DEF Undisturbed, AlertedKnown, AlertedKeys, SentIsOwed,
       AcceptedIsMarked, OneMarked, NothingElseSent, Approval
<1>2. CASE DeferOutbox(p) \/ DeferJudgement(p)
  <2>1. UNCHANGED <<queueVars, pc, snap, alerted, post, received>> /\ todo' \subseteq todo
    BY <1>2 DEF DeferOutbox, DeferJudgement
  <2> QED
    BY <2>1 DEF queueVars, Undisturbed, AlertedKnown, AlertedKeys, ReadIsOwed, SentIsOwed,
       AcceptedIsMarked, OneMarked, NothingElseSent, Approval, Awaits, Owed
<1>3. CASE SendOutbox(p)
  <2>1. post["autopilot"] = NoPost /\ post["operator"] = NoPost
    BY <1>3 DEF SendOutbox, Turn, Undisturbed, NothingElseSent
  <2>2. post' = [post EXCEPT !["autopilot"] = Post(p, snap[p])]
    BY <1>3 DEF SendOutbox
  <2>3. post'["autopilot"].packet = p /\ post'["autopilot"].decision = snap[p]
        /\ post'["operator"] = NoPost
    BY <2>1, <2>2 DEF Post, Deciders
  <2>4. UNCHANGED <<queueVars, pc, todo, snap, alerted, received>> /\ pc = "outbox"
    BY <1>3 DEF SendOutbox
  <2>5. Awaits(p, snap[p]) /\ Event[p] \notin alerted
    BY <1>3 DEF SendOutbox, Turn, Undisturbed, ReadIsOwed
  <2>6. SentIsOwed'
    BY <2>3, <2>4, <2>5 DEF SentIsOwed, Awaits, Owed, queueVars
  <2>7. AcceptedIsMarked'
    BY <1>3, <2>4, TurnMarked DEF SendOutbox, AcceptedIsMarked, queueVars
  <2> QED
    BY <2>3, <2>4, <2>6, <2>7 DEF queueVars, Undisturbed, AlertedKnown, AlertedKeys,
       ReadIsOwed, OneMarked, NothingElseSent, Approval, Awaits, Owed
<1>4. CASE Decide(p)
  BY <1>4, AutoType, AutoVerdictsAre, DecisionKeeps DEF Decide
<1>5. CASE DeadletterTwin(p)
  BY <1>5, AutoType, AutoVerdictsAre, DecisionKeeps DEF DeadletterTwin
<1> QED
  BY <1>1, <1>2, <1>3, <1>4, <1>5 DEF Pass

LEMMA SendKeeps ==
    ASSUME TypeInv, Undisturbed, NEW w \in Deciders, Sends(w) PROVE Undisturbed'
<1> DEFINE p == post["autopilot"].packet
           d == post["autopilot"].decision
<1> USE DEF TypeInv, TypeOK, QueueTypeOK
<1>1. w = "autopilot" /\ post["operator"] = NoPost
  <2>1. post[w].stage \in Stages
    BY DEF Sends, Deliver, Refuse, Acknowledge, Stages
  <2>2. post[w] # NoPost
    BY <2>1 DEF NoPost, Stages
  <2> QED
    BY <2>2 DEF Undisturbed, NothingElseSent, Deciders
<1>2. /\ post["autopilot"] \in Posts /\ p \in Packets /\ d \in Decisions
      /\ post["autopilot"].stage \in Stages
  BY <1>1, Sending DEF Sends, Deliver, Refuse, Acknowledge, Stages
<1>3. post["autopilot"] # NoPost
  BY <1>2 DEF NoPost, Stages
<1>4. Awaits(p, d) /\ (d.verdict = "approve" => Event[p] \notin alerted)
  BY <1>3 DEF Undisturbed, SentIsOwed
<1>5. CASE Deliver(w)
  <2>1. /\ post'["autopilot"].packet = p /\ post'["autopilot"].decision = d
        /\ post'["autopilot"].stage = "answered" /\ post'["operator"] = NoPost
        /\ post["autopilot"].stage = "asked"
    BY <1>1, <1>2, <1>5 DEF Deliver, Posts
  <2>2. UNCHANGED <<queueVars, cycle>> /\ received' = received \cup {<<p, d>>}
    BY <1>1, <1>5 DEF Deliver, Accept
  <2>3. AcceptedIsMarked'
    BY <2>1, <2>2 DEF queueVars, AcceptedIsMarked, Undisturbed
  <2>4. SentIsOwed'
    BY <1>4, <2>1, <2>2 DEF SentIsOwed, queueVars, cycle, Awaits, Owed
  <2>5. NothingElseSent'
    BY <1>3, <2>1, <2>2 DEF NothingElseSent, Undisturbed, cycle
  <2> QED
    BY <2>2, <2>3, <2>4, <2>5 DEF queueVars, cycle, Undisturbed, AlertedKnown, AlertedKeys,
       ReadIsOwed, OneMarked, Approval, Awaits, Owed
<1>6. CASE Refuse(w)
  <2>1. post' = [post EXCEPT !["autopilot"] = NoPost] /\ post["autopilot"].stage = "asked"
    BY <1>1, <1>6 DEF Refuse, PostEnds
  <2>2. UNCHANGED <<queueVars, pc, snap, alerted, received>> /\ todo' \subseteq todo
    BY <1>1, <1>6 DEF Refuse, PostEnds
  <2> QED
    BY <1>1, <2>1, <2>2 DEF queueVars, Undisturbed, AlertedKnown, AlertedKeys, ReadIsOwed,
       SentIsOwed, AcceptedIsMarked, OneMarked, NothingElseSent, Approval, Awaits, Owed
<1>7. CASE Acknowledge(w)
  <2>1. /\ \E valid \in BOOLEAN : MarkDelivered(p, d, valid)
        /\ alerted' = alerted \cup Keys({p})
    BY <1>1, <1>4, <1>7 DEF Acknowledge
  <2>2. /\ post' = [post EXCEPT !["autopilot"] = NoPost]
        /\ todo' = todo \ {p}
        /\ UNCHANGED <<pc, snap, received>>
    BY <1>1, <1>7 DEF Acknowledge, PostEnds
  <2>3. sent'[p] = "recent" /\ decision'[p] = d /\ UNCHANGED <<required, suppressed, decision>>
        /\ \A q \in Packets : q # p => sent'[q] = sent[q]
    BY <1>2, <2>1 DEF MarkDelivered, Awaits
  <2>4. \A q \in Packets : Approval(q)' => Approval(q) \/ (q = p /\ d.verdict = "approve")
    BY <2>3 DEF Approval
  <2>5. AlertedKeys' \subseteq AlertedKeys \cup Keys({p})
    BY <2>4 DEF AlertedKeys, Approval, Keys
  <2>6. AlertedKnown'
    BY <2>1, <2>2, <2>5 DEF AlertedKnown, Undisturbed
  <2>7. ReadIsOwed'
    BY <2>2, <2>3 DEF ReadIsOwed, Undisturbed, Awaits, Owed
  <2>8. AcceptedIsMarked'
    <3> SUFFICES ASSUME NEW q \in Packets, NEW e \in Decisions,
                        <<q, e>> \in received, e.verdict = "approve"
                 PROVE  sent'[q] = "recent" /\ decision'[q] = e
      BY <2>2 DEF AcceptedIsMarked
    <3>1. CASE sent[q] = "recent" /\ decision[q] = e
      BY <3>1, <2>3
    <3>2. CASE p = q /\ d = e
      BY <3>2, <2>3
    <3> QED
      BY <3>1, <3>2 DEF AcceptedIsMarked, Undisturbed
  <2>9. pc # "idle"
    BY <1>3 DEF Undisturbed, NothingElseSent
  <2>10. \A q \in Packets : Approval(q) /\ Event[q] # NoEvent => Event[q] \in alerted
    BY <2>9 DEF Undisturbed, AlertedKnown, AlertedKeys, Keys, Approval
  <2>11. OneMarked'
    BY <1>4, <2>4, <2>10 DEF OneMarked, Undisturbed
  <2> QED
    BY <1>1, <2>2, <2>6, <2>7, <2>8, <2>11 DEF Undisturbed, SentIsOwed, NothingElseSent
<1> QED
  BY <1>5, <1>6, <1>7 DEF Sends

LEMMA StepOneAlert == TypeInv /\ OneAlertInv /\ [Next]_vars => OneAlertInv'
<1> SUFFICES ASSUME TypeInv, OneAlertInv, [Next]_vars PROVE OneAlertInv'
  OBVIOUS
<1>1. CASE UNCHANGED vars
  BY <1>1 DEF vars, queueVars, cycle, OneAlertInv, Fresh, Quiet, Undisturbed, AlertedKnown,
     AlertedKeys, ReadIsOwed, SentIsOwed, AcceptedIsMarked, OneMarked, NothingElseSent,
     Approval, Awaits, Owed
<1>2. CASE Next
  <2>1. Fresh'
    BY <1>2, StepFresh DEF OneAlertInv, TypeInv
  <2>2. ASSUME Quiet' PROVE Undisturbed'
    <3>1. Undisturbed /\ Fresh
      BY <1>2, <2>2, QuietBefore DEF OneAlertInv, TypeInv
    <3>2. QuietStep
      BY <1>2, <2>2, QuietNext DEF TypeInv
    <3> QED
      BY <3>1, <3>2, ReadingKeeps, PassKeeps, ArrivalKeeps, SendKeeps DEF QuietStep
  <2> QED
    BY <2>1, <2>2 DEF OneAlertInv
<1> QED
  BY <1>1, <1>2

(* _economic_event_key: over any number of cycles, co-filings and refused sends, the  *)
(* provider is told of one packet only of an economic event, unless a response is     *)
(* lost, a process dies, the operator gives a command or a week passes.              *)
THEOREM OneAlert == Spec => []OneAlertPerEvent
<1>1. Init => OneAlertInv
  BY DEF Init, QueueInit, OneAlertInv, Fresh, Undisturbed, AlertedKnown, ReadIsOwed, SentIsOwed,
     AcceptedIsMarked, OneMarked, NothingElseSent, Approval, Deciders
<1>2. ASSUME TypeInv, OneAlertInv PROVE OneAlertPerEvent
  <2>1. ~ Quiet => faults > 0 \/ commands > 0 \/ \E p \in Packets : sent[p] = "old"
    BY <1>2 DEF Quiet, TypeInv, TypeOK
  <2> SUFFICES ASSUME Quiet, NEW a \in received, NEW b \in received,
                      a[2].verdict = "approve", b[2].verdict = "approve",
                      Event[a[1]] # NoEvent, Event[a[1]] = Event[b[1]]
               PROVE  a[1] = b[1]
    BY <2>1 DEF OneAlertPerEvent
  <2>2. received \subseteq Packets \X Decisions
    BY <1>2 DEF TypeInv, TypeOK
  <2>a. /\ a[1] \in Packets /\ a[2] \in Decisions /\ <<a[1], a[2]>> \in received
        /\ b[1] \in Packets /\ b[2] \in Decisions /\ <<b[1], b[2]>> \in received
    BY <2>2
  <2>3. Undisturbed
    BY <1>2 DEF OneAlertInv
  <2> DEFINE Under(r) == /\ post["autopilot"].stage = "answered"
                         /\ post["autopilot"].packet = r[1]
                         /\ post["autopilot"].decision = r[2]
  <2>4. (Approval(a[1]) \/ Under(a)) /\ (Approval(b[1]) \/ Under(b))
    BY <2>a, <2>3 DEF Undisturbed, AcceptedIsMarked, Approval
  <2>5. ASSUME NEW r \in received, NEW q \in Packets, Under(r), Approval(q),
               r[2].verdict = "approve", Event[q] # NoEvent
        PROVE  Event[q] # Event[r[1]]
    <3>1. post["autopilot"] # NoPost
      BY <2>5 DEF NoPost
    <3>2. pc # "idle" /\ Event[r[1]] \notin alerted
      BY <2>3, <2>5, <3>1 DEF Undisturbed, SentIsOwed, NothingElseSent
    <3> QED
      BY <2>3, <2>5, <3>2 DEF Undisturbed, AlertedKnown, AlertedKeys, Keys, Approval
  <2> QED
    BY <2>a, <2>3, <2>4, <2>5 DEF Undisturbed, OneMarked
<1> QED
  BY <1>1, <1>2, InitType, StepType, StepOneAlert, PTL DEF Spec
=============================================================================
