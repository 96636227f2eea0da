---------------------------- MODULE ReviewQueue ----------------------------
(***************************************************************************)
(* review/queue.py: table review_packets, its notification columns, the    *)
(* delivery ledger notification_delivery_acks and the trigger that opens a *)
(* research capture job on approval.                                       *)
(*                                                                         *)
(* Every operator below is one transaction of the module.  Payloads are    *)
(* left out; a decision document is who decided and the verdict, which is  *)
(* what its text compares equal by.  Timestamps are kept only as far as    *)
(* the code looks at them: the orders by created_at and updated_at, and    *)
(* whether a delivery falls in the last seven days.                        *)
(***************************************************************************)
EXTENDS Naturals, FiniteSets

CONSTANTS
    Packets,    \* packet_id
    Filing,     \* [Packets -> ...], accession number and form type of a packet
    Legacy,     \* pending rows older than the check of enqueue_review_packets_batch
    RowId       \* [Packets -> Nat], the order in which the Legacy rows were created

ASSUME QueueAssumption ==
    /\ IsFiniteSet(Packets)
    /\ Legacy \subseteq Packets
    /\ RowId \in [Packets -> Nat]

Verdicts  == {"approve", "reject", "escalate", "deadletter"}
Deciders  == {"autopilot", "operator"}
Decisions == [by : Deciders, verdict : Verdicts]
NoDecision == [by |-> "nobody", verdict |-> "none"]

VARIABLES
    status,         \* "absent" stands for a packet without a row
    decision,       \* decision_json
    required,       \* notification_required
    sent,           \* notification_sent_at: "unsent", "recent" (seven days) or "old"
    suppressed,     \* notification_suppressed_at is set
    created,        \* created[p]: the rows created before p
    updated,        \* updated[p]: the rows last updated before p
    job,            \* decision_json of the capture job of a packet
    acks            \* notification_delivery_acks, as pairs of packet and decision

queueVars == <<status, decision, required, sent, suppressed, created, updated, job, acks>>

Exists(p) == status[p] # "absent"
Pending   == {p \in Packets : status[p] = "pending"}

\* p is last in an order given by the rows that come before each row.
Last(order, p) ==
    [q \in Packets |-> IF q = p THEN {r \in Packets : r # p /\ Exists(r)} ELSE order[q] \ {p}]

\* Mutant: the limit is applied before the condition.
OldestOfAll(S, order, n) == {p \in S : Cardinality(order[p]) < n}

\* ORDER BY ... ASC LIMIT n.
Oldest(S, order, n) == {p \in S : Cardinality(order[p] \cap S) < n}

QueueInit ==
    /\ status = [p \in Packets |-> IF p \in Legacy THEN "pending" ELSE "absent"]
    /\ decision = [p \in Packets |-> NoDecision]
    /\ required = [p \in Packets |-> FALSE]
    /\ sent = [p \in Packets |-> "unsent"]
    /\ suppressed = [p \in Packets |-> FALSE]
    /\ created = [p \in Packets |->
                    IF p \in Legacy THEN {q \in Legacy : RowId[q] < RowId[p]} ELSE {}]
    /\ updated = created
    /\ job = [p \in Packets |-> NoDecision]
    /\ acks = {}

-----------------------------------------------------------------------------

\* enqueue_review_packets_batch: one row of the batch.
Enqueue(p) ==
    /\ ~ Exists(p)
    /\ \A q \in Packets : Exists(q) => Filing[q] # Filing[p]
    /\ status' = [status EXCEPT ![p] = "pending"]
    /\ created' = Last(created, p)
    /\ updated' = Last(updated, p)
    /\ UNCHANGED <<decision, required, sent, suppressed, job, acks>>

\* Mutant: no compare-and-set on the pending status.
DecideAgain(p, d, notify, suppress) ==
    /\ Exists(p)
    /\ status' = [status EXCEPT ![p] = d.verdict]
    /\ decision' = [decision EXCEPT ![p] = d]
    /\ required' = [required EXCEPT ![p] = notify]
    /\ sent' = [sent EXCEPT ![p] = "unsent"]
    /\ suppressed' = [suppressed EXCEPT ![p] = suppress]
    /\ updated' = Last(updated, p)
    /\ job' = [job EXCEPT ![p] =
                 IF d.verdict = "approve" /\ job[p] = NoDecision THEN d ELSE job[p]]
    /\ UNCHANGED <<created, acks>>

\* apply_decision, with the trigger enqueue_research_capture_after_approval.
ApplyDecision(p, d, notify, suppress) ==
    /\ status[p] = "pending"
    /\ status' = [status EXCEPT ![p] = d.verdict]
    /\ decision' = [decision EXCEPT ![p] = d]
    /\ required' = [required EXCEPT ![p] = notify]
    /\ sent' = [sent EXCEPT ![p] = "unsent"]
    /\ suppressed' = [suppressed EXCEPT ![p] = suppress]
    /\ updated' = Last(updated, p)
    /\ job' = [job EXCEPT ![p] =
                 IF d.verdict = "approve" /\ job[p] = NoDecision THEN d ELSE job[p]]
    /\ UNCHANGED <<created, acks>>

\* Mutant: a suppressed row can still be acknowledged.
OwedUnsent(p) == required[p] /\ sent[p] = "unsent"

\* What both acknowledgements and the outbox ask of a row.
Owed(p) == required[p] /\ sent[p] = "unsent" /\ ~ suppressed[p]

\* Mutant: only the autopilot's own decisions are sent again.
OwnOutbox == {p \in Packets : Owed(p) /\ decision[p].by = "autopilot"}
Outbox  == {p \in Packets : Owed(p) /\ decision[p] # NoDecision}

\* Mutant: the acknowledgement does not compare the decision.
AwaitsAny(p, d) == Owed(p)

\* The compare-and-set of the acknowledgements: still owed, and for this decision.
Awaits(p, d) == Owed(p) /\ decision[p] = d

\* A delivery ledger whose schema no longer validates takes no row; the packet counts as sent.
MarkDelivered(p, d, valid) ==
    /\ Awaits(p, d)
    /\ sent' = [sent EXCEPT ![p] = "recent"]
    /\ acks' = IF valid THEN acks \cup {<<p, d>>} ELSE acks
    /\ UNCHANGED <<status, decision, required, suppressed, created, updated, job>>

MarkSuppressed(p, d) ==
    /\ Awaits(p, d)
    /\ suppressed' = [suppressed EXCEPT ![p] = TRUE]
    /\ UNCHANGED <<status, decision, required, sent, created, updated, job, acks>>

\* Mutant: any decided packet can be replayed.
ReplayAny(p) ==
    /\ status[p] \in Verdicts
    /\ status' = [status EXCEPT ![p] = "pending"]
    /\ decision' = [decision EXCEPT ![p] = NoDecision]
    /\ required' = [required EXCEPT ![p] = FALSE]
    /\ sent' = [sent EXCEPT ![p] = "unsent"]
    /\ suppressed' = [suppressed EXCEPT ![p] = FALSE]
    /\ updated' = Last(updated, p)
    /\ UNCHANGED <<created, job, acks>>

ReplayDeadletter(p) ==
    /\ status[p] = "deadletter"
    /\ status' = [status EXCEPT ![p] = "pending"]
    /\ decision' = [decision EXCEPT ![p] = NoDecision]
    /\ required' = [required EXCEPT ![p] = FALSE]
    /\ sent' = [sent EXCEPT ![p] = "unsent"]
    /\ suppressed' = [suppressed EXCEPT ![p] = FALSE]
    /\ updated' = Last(updated, p)
    /\ UNCHANGED <<created, job, acks>>

\* Seven days pass since the delivery of p.
WindowPasses(p) ==
    /\ sent[p] = "recent"
    /\ sent' = [sent EXCEPT ![p] = "old"]
    /\ UNCHANGED <<status, decision, required, suppressed, created, updated, job, acks>>

QueueTypeOK ==
    /\ status \in [Packets -> Verdicts \cup {"absent", "pending"}]
    /\ decision \in [Packets -> Decisions \cup {NoDecision}]
    /\ required \in [Packets -> BOOLEAN]
    /\ sent \in [Packets -> {"unsent", "recent", "old"}]
    /\ suppressed \in [Packets -> BOOLEAN]
    /\ created \in [Packets -> SUBSET Packets]
    /\ updated \in [Packets -> SUBSET Packets]
    /\ job \in [Packets -> Decisions \cup {NoDecision}]
    /\ acks \in SUBSET (Packets \X Decisions)
=============================================================================
