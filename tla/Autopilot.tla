----------------------------- MODULE Autopilot -----------------------------
(***************************************************************************)
(* cli.py: the cycle of `ops autopilot --loop` and the operator's commands *)
(* `review decide`, `review apply` and `ops deadletter-replay`, on the one *)
(* ReviewQueue they share, with the notification provider behind           *)
(* NtfyNotifier.send.                                                      *)
(*                                                                         *)
(* Every database transaction and every send is a step, so the operator,   *)
(* the enqueuing worker, a crash or the provider's answer falls between    *)
(* them.  Reading the queue and acting on what was read are apart: todo,   *)
(* age and snap are what the cycle read.                                   *)
(***************************************************************************)
EXTENDS ReviewQueue

CONSTANTS
    Event,              \* [Packets -> ...], _economic_event_key; NoEvent is its None
    NoEvent,
    NotifyApproveOnly,  \* --notify-approve-only or --notify-all-decisions
    DecisionLimit,      \* --decision-limit
    OperatorVerdicts,   \* verdicts the operator may give
    OperatorReports,    \* those the operator may give with --notify
    WindowEnds,         \* do seven days pass in this instance?
    MaxCommands,        \* bound on the operator's commands
    MaxFaults           \* bound on crashes, lost responses and a spoiled delivery ledger

ASSUME AutopilotAssumption ==
    /\ NotifyApproveOnly \in BOOLEAN
    /\ DecisionLimit \in Nat \ {0}
    /\ OperatorVerdicts \subseteq Verdicts
    /\ OperatorReports \subseteq OperatorVerdicts
    /\ WindowEnds \in BOOLEAN
    /\ MaxCommands \in Nat
    /\ MaxFaults \in Nat

VARIABLES
    pc,         \* where the autopilot's cycle stands
    todo,       \* packets the current pass has read and not handled
    age,        \* their order when they were read
    snap,       \* their decisions when the outbox was read
    alerted,    \* alerted_event_keys
    attempted,  \* outbox_event_keys_attempted
    seen,       \* seen_decision_keys
    post,       \* the notification each process is sending
    received,   \* pairs of packet and decision the provider has accepted
    commands,
    faults

cycle == <<pc, todo, age, snap, alerted, attempted, seen>>
vars  == <<queueVars, cycle, post, received, commands, faults>>

Stages == {"asked", "answered"}
NoPost == [stage |-> "none"]
Posts  == [packet : Packets, decision : Decisions, stage : Stages]

\* What a model judge or a rule may say; "deadletter" is left to the twins.
AutoVerdicts == {"approve", "reject", "escalate"}
ByAutopilot(v) == [by |-> "autopilot", verdict |-> v]

Keys(S) == {Event[p] : p \in S} \ {NoEvent}

\* Mutants: nothing is remembered of earlier cycles; an approval counts before its delivery.
NoKeys       == {}
ApprovedKeys == Keys({p \in Packets : decision[p].verdict = "approve"})

\* _recent_alerted_event_keys.
AlertedKeys == Keys({p \in Packets : sent[p] = "recent" /\ decision[p].verdict = "approve"})

NoOrder     == [p \in Packets |-> {}]
NoDecisions == [p \in Packets |-> NoDecision]

\* Mutant: the message carries the decision of the last reading.
PostAsRead(p, d) == [packet |-> p, decision |-> snap[p], stage |-> "asked"]
Post(p, d) == [packet |-> p, decision |-> d, stage |-> "asked"]

CycleIdle ==
    /\ pc' = "idle"
    /\ todo' = {}
    /\ age' = NoOrder
    /\ snap' = NoDecisions
    /\ alerted' = {}
    /\ attempted' = {}
    /\ seen' = {}

Init ==
    /\ QueueInit
    /\ pc = "idle"
    /\ todo = {}
    /\ age = NoOrder
    /\ snap = NoDecisions
    /\ alerted = {}
    /\ attempted = {}
    /\ seen = {}
    /\ post = [w \in Deciders |-> NoPost]
    /\ received = {}
    /\ commands = 0
    /\ faults = 0

\* The autopilot handles p next: it is the first row left, and nothing is being sent.
Turn(p) ==
    /\ p \in todo
    /\ age[p] \cap todo = {}
    /\ post["autopilot"] = NoPost

PassDone == todo = {} /\ post["autopilot"] = NoPost

-----------------------------------------------------------------------------
(* The outbox pass of _run_cycle. *)

ReadAlerted ==
    /\ pc = "idle"
    /\ pc' = "listing"
    /\ alerted' = AlertedKeys
    /\ UNCHANGED <<queueVars, todo, age, snap, attempted, seen, post, received, commands, faults>>

ListOutbox ==
    /\ pc = "listing"
    /\ pc' = "outbox"
    /\ todo' = Oldest(Outbox, updated, DecisionLimit)
    /\ age' = updated
    /\ snap' = decision
    /\ UNCHANGED <<queueVars, alerted, attempted, seen, post, received, commands, faults>>

SuppressOutbox(p) ==
    /\ pc = "outbox"
    /\ Turn(p)
    /\ Event[p] \in alerted
    /\ \/ MarkSuppressed(p, snap[p])
       \/ ~ Awaits(p, snap[p]) /\ UNCHANGED queueVars
    /\ todo' = todo \ {p}
    /\ UNCHANGED <<pc, age, snap, alerted, attempted, seen, post, received, commands, faults>>

\* Another packet of the same event was attempted in this pass.
DeferOutbox(p) ==
    /\ pc = "outbox"
    /\ Turn(p)
    /\ Event[p] \in attempted \ alerted
    /\ todo' = todo \ {p}
    /\ UNCHANGED <<queueVars, pc, age, snap, alerted, attempted, seen, post, received,
                   commands, faults>>

\* Mutant: the event counts as alerted when it is attempted.
SendOutboxEagerly(p) ==
    /\ pc = "outbox"
    /\ Turn(p)
    /\ Event[p] \notin alerted \cup attempted
    /\ attempted' = attempted \cup Keys({p})
    /\ alerted' = alerted \cup Keys({p})
    /\ post' = [post EXCEPT !["autopilot"] = Post(p, snap[p])]
    /\ UNCHANGED <<queueVars, pc, todo, age, snap, seen, received, commands, faults>>

SendOutbox(p) ==
    /\ pc = "outbox"
    /\ Turn(p)
    /\ Event[p] \notin alerted \cup attempted
    /\ attempted' = attempted \cup Keys({p})
    /\ post' = [post EXCEPT !["autopilot"] = Post(p, snap[p])]
    /\ UNCHANGED <<queueVars, pc, todo, age, snap, alerted, seen, received, commands, faults>>

\* run_sec_poll_once raised: _run_cycle_with_recovery gives the cycle up.
AbandonCycle ==
    /\ pc = "outbox"
    /\ PassDone
    /\ CycleIdle
    /\ UNCHANGED <<queueVars, post, received, commands, faults>>

-----------------------------------------------------------------------------
(* The decision pass of _run_cycle. *)

ListPending ==
    /\ pc = "outbox"
    /\ PassDone
    /\ pc' = "decide"
    /\ todo' = Oldest(Pending, created, DecisionLimit)
    /\ age' = created
    /\ snap' = NoDecisions
    /\ attempted' = {}
    /\ UNCHANGED <<queueVars, alerted, seen, post, received, commands, faults>>

\* Mutant: the intent to report is not recorded with the decision.
DecideWithoutIntent(p, d) ==
    LET wanted == NotifyApproveOnly => d.verdict = "approve"
    IN  \/ /\ ApplyDecision(p, d, FALSE, FALSE)
           /\ IF wanted
                THEN post' = [post EXCEPT !["autopilot"] = Post(p, d)] /\ UNCHANGED todo
                ELSE todo' = todo \ {p} /\ UNCHANGED post
        \/ status[p] # "pending" /\ todo' = todo \ {p} /\ UNCHANGED <<queueVars, post>>

\* A decision and the intent to report it, in one transaction; the send follows.
DecideAs(p, d) ==
    LET wanted    == NotifyApproveOnly => d.verdict = "approve"
        duplicate == wanted /\ Event[p] \in alerted
    IN  \/ /\ ApplyDecision(p, d, wanted, duplicate)
           /\ IF wanted /\ ~ duplicate
                THEN post' = [post EXCEPT !["autopilot"] = Post(p, d)] /\ UNCHANGED todo
                ELSE todo' = todo \ {p} /\ UNCHANGED post
        \/ /\ status[p] # "pending"         \* updated != 1
           /\ todo' = todo \ {p}
           /\ UNCHANGED <<queueVars, post>>

Decide(p) ==
    /\ pc = "decide"
    /\ Turn(p)
    /\ Filing[p] \notin seen
    /\ seen' = seen \cup {Filing[p]}
    /\ \E v \in AutoVerdicts : DecideAs(p, ByAutopilot(v))
    /\ UNCHANGED <<pc, age, snap, alerted, attempted, received, commands, faults>>

\* The judge did not answer for p: it stays pending.
DeferJudgement(p) ==
    /\ pc = "decide"
    /\ Turn(p)
    /\ Filing[p] \notin seen
    /\ seen' = seen \cup {Filing[p]}
    /\ todo' = todo \ {p}
    /\ UNCHANGED <<queueVars, pc, age, snap, alerted, attempted, post, received, commands, faults>>

\* Safety dedupe of a second row of one filing.
DeadletterTwin(p) ==
    /\ pc = "decide"
    /\ Turn(p)
    /\ Filing[p] \in seen
    /\ DecideAs(p, ByAutopilot("deadletter"))
    /\ UNCHANGED <<pc, age, snap, alerted, attempted, seen, received, commands, faults>>

EndCycle ==
    /\ pc = "decide"
    /\ PassDone
    /\ CycleIdle
    /\ UNCHANGED <<queueVars, post, received, commands, faults>>

-----------------------------------------------------------------------------
(* Sending: NtfyNotifier.send and the acknowledgement that follows it. *)

PostEnds(w) ==
    /\ post' = [post EXCEPT ![w] = NoPost]
    /\ todo' = IF w = "autopilot" THEN todo \ {post[w].packet} ELSE todo
    /\ UNCHANGED <<pc, age, snap, attempted, seen, commands>>

Accept(w) == received' = received \cup {<<post[w].packet, post[w].decision>>}

\* The provider accepts the message and its response arrives.
Deliver(w) ==
    /\ post[w].stage = "asked"
    /\ Accept(w)
    /\ post' = [post EXCEPT ![w].stage = "answered"]
    /\ UNCHANGED <<queueVars, cycle, commands, faults>>

\* NtfyNotificationError, and the message was not accepted.
Refuse(w) ==
    /\ post[w].stage = "asked"
    /\ PostEnds(w)
    /\ UNCHANGED <<queueVars, alerted, received, faults>>

\* NtfyNotificationError, but only the response was lost.
LoseResponse(w) ==
    /\ post[w].stage = "asked"
    /\ faults < MaxFaults
    /\ faults' = faults + 1
    /\ Accept(w)
    /\ PostEnds(w)
    /\ UNCHANGED <<queueVars, alerted>>

Acknowledge(w) ==
    LET p == post[w].packet
        d == post[w].decision
    IN  /\ post[w].stage = "answered"
        /\ \/ /\ \/ MarkDelivered(p, d, TRUE) /\ UNCHANGED faults
                 \/ MarkDelivered(p, d, FALSE) /\ faults < MaxFaults /\ faults' = faults + 1
              /\ alerted' = IF w = "autopilot" THEN alerted \cup Keys({p}) ELSE alerted
           \/ /\ ~ Awaits(p, d)         \* stale acknowledgement
              /\ UNCHANGED <<queueVars, alerted, faults>>
        /\ PostEnds(w)
        /\ UNCHANGED received

-----------------------------------------------------------------------------
(* The operator, the enqueuing worker, crashes and the calendar. *)

ByOperator(v) == [by |-> "operator", verdict |-> v]

OperatorIdle ==
    /\ post["operator"] = NoPost
    /\ commands < MaxCommands
    /\ commands' = commands + 1

\* review decide and review apply, with or without --notify.
OperatorDecides(p) ==
    /\ OperatorIdle
    /\ \E v \in OperatorVerdicts, notify \in BOOLEAN :
         /\ notify => v \in OperatorReports
         /\ ApplyDecision(p, ByOperator(v), notify, FALSE)
         /\ post' = IF notify THEN [post EXCEPT !["operator"] = Post(p, ByOperator(v))] ELSE post
    /\ UNCHANGED <<cycle, received, faults>>

OperatorReplays(p) ==
    /\ OperatorIdle
    /\ ReplayDeadletter(p)
    /\ UNCHANGED <<cycle, post, received, faults>>

Arrive(p) ==
    /\ Enqueue(p)
    /\ UNCHANGED <<cycle, post, received, commands, faults>>

\* The autopilot dies; the watchdog starts it again.
Crash ==
    /\ pc # "idle"
    /\ faults < MaxFaults
    /\ faults' = faults + 1
    /\ CycleIdle
    /\ post' = [post EXCEPT !["autopilot"] = NoPost]
    /\ UNCHANGED <<queueVars, received, commands>>

OperatorCrash ==
    /\ post["operator"] # NoPost
    /\ faults < MaxFaults
    /\ faults' = faults + 1
    /\ post' = [post EXCEPT !["operator"] = NoPost]
    /\ UNCHANGED <<queueVars, cycle, received, commands>>

WeekPasses(p) ==
    /\ WindowEnds
    /\ WindowPasses(p)
    /\ UNCHANGED <<cycle, post, received, commands, faults>>

-----------------------------------------------------------------------------

Pass(p) ==
    \/ SuppressOutbox(p) \/ DeferOutbox(p) \/ SendOutbox(p)
    \/ Decide(p) \/ DeferJudgement(p) \/ DeadletterTwin(p)

Next ==
    \/ ReadAlerted \/ ListOutbox \/ AbandonCycle \/ ListPending \/ EndCycle
    \/ \E p \in Packets : Pass(p)
    \/ \E w \in Deciders : Deliver(w) \/ Refuse(w) \/ LoseResponse(w) \/ Acknowledge(w)
    \/ \E p \in Packets : OperatorDecides(p) \/ OperatorReplays(p) \/ Arrive(p) \/ WeekPasses(p)
    \/ Crash \/ OperatorCrash

Spec == Init /\ [][Next]_vars

\* The autopilot keeps running; a judge asked about p for ever answers at last, the
\* provider asked to deliver p for ever accepts at last, and the SEC is not down for ever.
Running ==
    /\ WF_vars(ReadAlerted)
    /\ WF_vars(ListOutbox)
    /\ SF_vars(ListPending)
    /\ WF_vars(EndCycle)
    /\ WF_vars(Acknowledge("autopilot"))
    /\ WF_vars(Deliver("autopilot") \/ Refuse("autopilot"))
    /\ \A p \in Packets :
         /\ WF_vars(Pass(p))
         /\ SF_vars(Decide(p))
         /\ SF_vars(Deliver("autopilot") /\ post["autopilot"].packet = p)

FairSpec == Spec /\ Running

-----------------------------------------------------------------------------
(* Properties. *)

TypeOK ==
    /\ QueueTypeOK
    /\ pc \in {"idle", "listing", "outbox", "decide"}
    /\ todo \subseteq Packets
    /\ age \in [Packets -> SUBSET Packets]
    /\ snap \in [Packets -> Decisions \cup {NoDecision}]
    /\ alerted \subseteq {Event[p] : p \in Packets} \ {NoEvent}
    /\ attempted \subseteq {Event[p] : p \in Packets} \ {NoEvent}
    /\ seen \subseteq {Filing[p] : p \in Packets}
    /\ post \in [Deciders -> Posts \cup {NoPost}]
    /\ received \subseteq Packets \X Decisions
    /\ commands \in 0 .. MaxCommands
    /\ faults \in 0 .. MaxFaults

\* What the provider was told and, unless a fault spoiled it, the delivery ledger has.
Reported == {r \in received : r \in acks \/ faults > 0}

\* The compare-and-set of mark_notification_delivered: whatever the operator does to a row
\* while a message about it is under way, the ledger only says what the provider was told,
\* and a row marked as sent was reported with the decision it now carries.
AckedWasDelivered ==
    /\ acks \subseteq received
    /\ \A p \in Packets : sent[p] # "unsent" => <<p, decision[p]>> \in Reported

\* mark_notification_suppressed: a packet is suppressed only after a packet of the same
\* economic event was reported, in this cycle or an earlier one.
SuppressedWasReported ==
    \A p \in Packets : suppressed[p] =>
        /\ Event[p] # NoEvent
        /\ \E r \in Reported : Event[r[1]] = Event[p]

\* _recent_alerted_event_keys: what suppresses a co-filing is an approval of its event.
SuppressedByApproval ==
    \A p \in Packets : suppressed[p] =>
        \E r \in Reported : Event[r[1]] = Event[p] /\ r[2].verdict = "approve"

\* The autopilot's outbox and the operator may report one packet at the same time: it is
\* never both acknowledged and suppressed.
SentOrSuppressed == \A p \in Packets : ~ (sent[p] # "unsent" /\ suppressed[p])

\* The capture job of an approved packet, opened once by the trigger, carries the decision
\* the packet still has, and no other packet has a job.
JobMatches ==
    \A p \in Packets :
        /\ status[p] = "approve" => job[p] = decision[p]
        /\ status[p] # "approve" => job[p] = NoDecision

\* What the tables of the queue claim is true, whoever wrote it: an acknowledgement was
\* delivered, a suppression has a report of the same event behind it, no packet is both,
\* and the jobs are those of the approvals.
LedgersTrue == AckedWasDelivered /\ SuppressedWasReported /\ SentOrSuppressed /\ JobMatches

\* apply_decision and replay_deadletter: only a dead letter is ever decided again.
DecisionKept ==
    [][\A p \in Packets : status[p] \in {"approve", "reject", "escalate"} =>
          status'[p] = status[p] /\ decision'[p] = decision[p]]_vars

\* _economic_event_key: as long as no response is lost, no process dies, the operator gives
\* no command and no report is older than seven days, the approvals of one economic event
\* reach the provider for one packet only, whichever cycle its co-filings arrive in and
\* however often the provider refuses.
OneAlertPerEvent ==
    \/ faults > 0 \/ commands > 0 \/ \E p \in Packets : sent[p] = "old"
    \/ \A a, b \in received :
         (a[2].verdict = "approve" /\ b[2].verdict = "approve" /\ Event[a[1]] # NoEvent
            /\ Event[a[1]] = Event[b[1]]) => a[1] = b[1]

\* list_pending_review_packets, oldest first: no packet waits for ever behind others.
EveryPacketDecided ==
    \A p \in Packets : status[p] = "pending" ~> status[p] # "pending"

\* The durable outbox: an approval of the autopilot is reported or suppressed in the end,
\* over refused sends, lost responses and crashes between decision and send.
EveryApprovalReported ==
    \A p \in Packets :
        (status[p] = "approve" /\ decision[p].by = "autopilot")
            ~> (sent[p] # "unsent" \/ suppressed[p])

\* list_notification_outbox: an intent to report, the operator's too, is settled in the end.
EveryIntentSettled == \A p \in Packets : Owed(p) ~> ~ Owed(p)

\* No approval of the autopilot and no intent to report, whoever recorded it, is forgotten.
EveryReportSettled == EveryApprovalReported /\ EveryIntentSettled
=============================================================================
