------------------------ MODULE NotificationEvidence ------------------------
(***************************************************************************)
(* research/notification_transport.py, research/notification_coverage.py,  *)
(* notify/ntfy.py and the observer of cli.py: the custody of what was sent.*)
(*                                                                         *)
(* A sender journals each attempt around its POST, on a best effort, and   *)
(* acknowledges a delivery in the source ledger.  The coverage monitor     *)
(* reads its own state, then the ledger, then the journal, each in a       *)
(* snapshot of its own, and records a gap for each delivery the journal    *)
(* does not prove.  Its runs may overlap and may die after every step.     *)
(***************************************************************************)
EXTENDS Integers, Sequences, FiniteSets, SequencesExt

CONSTANTS
    Packets,
    OldCode,      \* packets a process of an older build may deliver, without a ledger row
    Runs,
    Scheduled,    \* the run of the task; the others are started by hand
    MaxAttempts,  \* ntfy_retry_attempts
    MaxClock,
    MaxFaults,    \* bound on failed attempts and journal writes, crashes and extra runs
    MaxRestores,  \* bound on old copies put back in the place of a database
    MaxSetbacks   \* bound on clocks set back

\* A row of the ledger names a packet, and is none.
Ack == [packet : Packets, attempt : Nat, dispatch : Nat]
EvidenceAssumption == \A p \in Packets : p \notin Ack

VARIABLES
    clock,
    sent,       \* review_packets: notification_sent_at is set
    acks,       \* notification_delivery_acks
    journal,    \* notification_transport_events
    journaling, \* notification_journal_configuration exists
    sending,    \* what the sender of each packet is doing
    dispatches, \* dispatch nonces used
    coverage,   \* notification_coverage_configuration with its baseline
    gaps,       \* notification_coverage_gaps
    health,     \* notification_coverage_health
    run,        \* what each process of the monitor is doing
    witnessed,  \* history: the longest snapshots a run has ever checkpointed
    faults, restores, setbacks

sourceVars  == <<sent, acks>>
journalVars == <<journal, journaling>>
senderVars  == <<sending, dispatches>>
storeVars   == <<coverage, gaps, health, witnessed>>
counters    == <<faults, restores, setbacks>>
vars == <<clock, sourceVars, journalVars, senderVars, storeVars, run, counters>>

NotActive == [active |-> FALSE]
NoHealth  == [started |-> -1]
Idle      == [at |-> "idle"]
Waiting   == [at |-> "waiting"]
NoAttempt == 0
Nothing   == [acks |-> <<>>, journal |-> <<>>]

Init ==
    /\ clock = 0
    /\ sent = {} /\ acks = <<>>
    /\ journal = <<>> /\ journaling = FALSE
    /\ sending = [p \in Packets |-> Waiting] /\ dispatches = 0
    /\ coverage = NotActive /\ gaps = {} /\ health = NoHealth
    /\ run = [r \in Runs |-> Idle]
    /\ witnessed = Nothing
    /\ faults = 0 /\ restores = 0 /\ setbacks = 0

Fault == faults < MaxFaults /\ faults' = faults + 1 /\ UNCHANGED <<restores, setbacks>>

-----------------------------------------------------------------------------
(* The journal *)

Event(p, phase) ==
    [packet |-> p, dispatch |-> sending[p].dispatch, attempt |-> sending[p].attempt,
     phase |-> phase, at |-> clock]
SameAttempt(e, f) == e.dispatch = f.dispatch /\ e.attempt = f.attempt
Terminal(e) == e.phase # "request_started"

\* append and the triggers of the table: a terminal event needs its start.
Accepts(e) ==
    /\ journaling
    /\ Terminal(e) => /\ \E f \in Range(journal) : SameAttempt(e, f) /\ ~Terminal(f)
                      /\ ~ \E f \in Range(journal) : SameAttempt(e, f) /\ Terminal(f)

\* notification_journal_status: what makes the journal invalid as a whole.
JournalValid(events) ==
    \A i, j \in DOMAIN events :
        SameAttempt(events[i], events[j]) /\ ~Terminal(events[i]) /\ Terminal(events[j])
        => i < j /\ events[i].at <= events[j].at

\* activate_notification_journal
ActivateJournal ==
    /\ ~journaling
    /\ journaling' = TRUE
    /\ UNCHANGED <<clock, sourceVars, journal, senderVars, storeVars, run, counters>>

-----------------------------------------------------------------------------
(* A sender *)

At(p, stage) == sending[p].at = stage

\* Before the deployment of the ledger, or by a process that still runs the old build.
DeliverOld(p) ==
    /\ p \in OldCode /\ At(p, "waiting") /\ p \notin sent
    /\ sent' = sent \cup {p}
    /\ UNCHANGED <<clock, acks, journalVars, senderVars, storeVars, run, counters>>

\* _notification_transport_observer; without a journal there is no observer.
Dispatch(p) ==
    /\ At(p, "waiting") /\ p \notin sent
    /\ dispatches' = dispatches + 1
    /\ sending' = [sending EXCEPT ![p] =
         [at |-> "start", dispatch |-> dispatches + 1, attempt |-> 1, proof |-> NoAttempt]]
    /\ UNCHANGED <<clock, sourceVars, journalVars, storeVars, run, counters>>

\* The observer's error is swallowed: a locked journal loses the event.
Observe(e) ==
    \/ /\ Accepts(e) /\ journal' = Append(journal, e)
       /\ UNCHANGED counters
    \/ /\ ~Accepts(e) /\ UNCHANGED <<journal, counters>>
    \/ /\ Accepts(e) /\ Fault /\ UNCHANGED journal

StartAttempt(p) ==
    /\ At(p, "start")
    /\ Observe(Event(p, "request_started"))
    /\ sending' = [sending EXCEPT ![p].at = "post"]
    /\ UNCHANGED <<clock, sourceVars, journaling, dispatches, storeVars, run>>

\* The transport fails or the server refuses; the last attempt leaves the packet waiting.
AttemptFails(p) ==
    /\ At(p, "post") /\ Fault
    /\ LET e == Event(p, "transport_failed")
       IN  journal' = IF Accepts(e) THEN Append(journal, e) ELSE journal
    /\ sending' = [sending EXCEPT ![p] =
         IF sending[p].attempt = MaxAttempts THEN Waiting
         ELSE [at |-> "start", dispatch |-> sending[p].dispatch,
               attempt |-> sending[p].attempt + 1, proof |-> NoAttempt]]
    /\ UNCHANGED <<clock, sourceVars, journaling, dispatches, storeVars, run>>

\* observe keeps the attempt only when its response was persisted.
Respond(p) ==
    /\ At(p, "post")
    /\ Observe(Event(p, "response_received"))
    /\ sending' = [sending EXCEPT
         ![p].at = "acknowledge",
         ![p].proof = IF journal' # journal THEN sending[p].attempt ELSE NoAttempt]
    /\ UNCHANGED <<clock, sourceVars, journaling, dispatches, storeVars, run>>

\* mark_notification_sent: the mark and the ledger row are one transaction.
Acknowledge(p) ==
    /\ At(p, "acknowledge")
    /\ IF p \in sent THEN UNCHANGED sourceVars
       ELSE /\ sent' = sent \cup {p}
            /\ acks' = Append(acks, [packet |-> p, attempt |-> sending[p].proof,
                                     dispatch |-> IF sending[p].proof = NoAttempt THEN 0
                                                  ELSE sending[p].dispatch])
    /\ sending' = [sending EXCEPT ![p] = Waiting]
    /\ UNCHANGED <<clock, journalVars, dispatches, storeVars, run, counters>>

\* The outbox delivers the packet once more.
SenderCrashes(p) ==
    /\ ~At(p, "waiting") /\ Fault
    /\ sending' = [sending EXCEPT ![p] = Waiting]
    /\ UNCHANGED <<clock, sourceVars, journalVars, dispatches, storeVars, run>>

-----------------------------------------------------------------------------
(* Activation and the monitor *)

\* _ack_gap_reason
Proves(a, e, f) ==
    /\ e.phase = "request_started" /\ f.phase = "response_received"
    /\ {e.packet, f.packet} = {a.packet}
    /\ {e.dispatch, f.dispatch} = {a.dispatch} /\ {e.attempt, f.attempt} = {a.attempt}
    /\ e.at <= f.at

\* Mutant: an acknowledgement without a transport identity is passed over.
ProvedOrUnobserved(a, events) ==
    a.attempt # NoAttempt => \E i, j \in DOMAIN events : i < j /\ Proves(a, events[i], events[j])

Proved(a, events) ==
    /\ a.attempt # NoAttempt
    /\ \E i, j \in DOMAIN events : i < j /\ Proves(a, events[i], events[j])

InRun(r, stage) == run[r].at = stage
Goto(r, stage) == run' = [run EXCEPT ![r].at = stage]
End(r) == run' = [run EXCEPT ![r] = Idle]
Degrade(r) == Goto(r, "degraded")

Start(r, stage) ==
    /\ InRun(r, "idle")
    /\ run' = [run EXCEPT ![r] = [at |-> stage, started |-> clock]]

\* activate_notification_coverage reads the source before the journal.
ActivateStart(r) ==
    /\ coverage = NotActive
    /\ InRun(r, "idle")
    /\ run' = [run EXCEPT ![r] = [at |-> "activate", started |-> clock,
                                  acks |-> acks, sent |-> sent]]
    /\ UNCHANGED <<clock, sourceVars, journalVars, senderVars, storeVars, counters>>

ActivateJournalRead(r) ==
    /\ InRun(r, "activate")
    /\ IF journaling /\ JournalValid(journal)
       THEN run' = [run EXCEPT ![r] = [at |-> "seal", started |-> @.started, acks |-> @.acks,
                                       sent |-> @.sent, journal |-> journal]]
       ELSE End(r)
    /\ UNCHANGED <<clock, sourceVars, journalVars, senderVars, storeVars, counters>>

\* Another activation may have been faster.
ActivateSeal(r) ==
    /\ InRun(r, "seal")
    /\ IF coverage # NotActive THEN UNCHANGED storeVars
       ELSE /\ coverage' = [active |-> TRUE, acks |-> run[r].acks, journal |-> run[r].journal,
                            baseline |-> run[r].sent]
            /\ health' = [started |-> clock, gaps |-> 0, error |-> FALSE,
                          acks |-> run[r].acks, journal |-> run[r].journal]
            /\ witnessed' = [acks |-> run[r].acks, journal |-> run[r].journal]
            /\ UNCHANGED gaps
    /\ End(r)
    /\ UNCHANGED <<clock, sourceVars, journalVars, senderVars, counters>>

\* run_notification_coverage_once
Begin(r) ==
    /\ Start(r, "state")
    /\ IF r = Scheduled THEN UNCHANGED counters ELSE Fault
    /\ UNCHANGED <<clock, sourceVars, journalVars, senderVars, storeVars>>

\* _read_coverage_state; "owed" is history, for RollbackSeen.
ReadState(r) ==
    /\ InRun(r, "state")
    /\ run' = [run EXCEPT ![r] = IF coverage = NotActive THEN Idle
         ELSE [at |-> "source", started |-> @.started, owed |-> witnessed,
               health |-> health]]
    /\ UNCHANGED <<clock, sourceVars, journalVars, senderVars, storeVars, counters>>

ReadSource(r) ==
    /\ InRun(r, "source")
    /\ run' = [run EXCEPT ![r] =
         [at |-> "journal", started |-> @.started, owed |-> @.owed, health |-> @.health,
          acks |-> acks, sent |-> sent]]
    /\ UNCHANGED <<clock, sourceVars, journalVars, senderVars, storeVars, counters>>

\* Mutant: the checkpoint is not read with the configuration but when it is compared.
LatestCheckpoint(r) == health

PriorCheckpoint(r) == run[r].health

\* The sealed prefix and the checkpointed one must both be there unchanged.
RolledBack(r, events) ==
    ~ /\ IsPrefix(coverage.acks, run[r].acks) /\ IsPrefix(coverage.journal, events)
      /\ IsPrefix(PriorCheckpoint(r).acks, run[r].acks)
      /\ IsPrefix(PriorCheckpoint(r).journal, events)

\* Mutant: the journal is read before the ledger, with the monitor's state.
EvidenceOfState(r) == run[r].health.journal

\* The journal's snapshot is opened after the source's is closed.
Evidence(r) == journal

AckGaps(r, events) ==
    {a \in Range(run[r].acks) \ Range(coverage.acks) : ~Proved(a, events)}
Unledgered(r) ==
    {p \in run[r].sent \ coverage.baseline : \A a \in Range(run[r].acks) : a.packet # p}

ReadJournal(r) ==
    /\ InRun(r, "journal")
    /\ IF ~JournalValid(journal) THEN Degrade(r)
       ELSE IF RolledBack(r, journal) THEN Goto(r, "alarm")
       ELSE run' = [run EXCEPT ![r] =
              [at |-> "gaps", started |-> @.started, owed |-> @.owed, acks |-> @.acks,
               journal |-> journal, gaps |-> AckGaps(r, Evidence(r)) \cup Unledgered(r)]]
    /\ UNCHANGED <<clock, sourceVars, journalVars, senderVars, storeVars, counters>>

RecordGaps(r) ==
    /\ InRun(r, "gaps")
    /\ gaps' = gaps \cup run[r].gaps
    /\ Goto(r, "health")
    /\ UNCHANGED <<clock, sourceVars, journalVars, senderVars, coverage, health, witnessed,
                   counters>>

Longer(s, t) == IF Len(s) > Len(t) THEN s ELSE t

\* _write_health: the later start keeps the verdict, the longer snapshot the checkpoint.
Checkpoint(s, t) == IF Len(s) > Len(t) THEN s ELSE t

WriteHealth(r) ==
    /\ InRun(r, "health")
    /\ health' =
         [started |-> IF run[r].started > health.started THEN run[r].started
                      ELSE health.started,
          gaps    |-> IF run[r].started > health.started THEN Cardinality(run[r].gaps)
                      ELSE health.gaps,
          error   |-> IF run[r].started > health.started THEN run[r].gaps # {}
                      ELSE health.error,
          acks    |-> Checkpoint(run[r].acks, health.acks),
          journal |-> Checkpoint(run[r].journal, health.journal)]
    /\ witnessed' = [acks    |-> Longer(run[r].acks, witnessed.acks),
                     journal |-> Longer(run[r].journal, witnessed.journal)]
    /\ End(r)
    /\ UNCHANGED <<clock, sourceVars, journalVars, senderVars, coverage, gaps, counters>>

\* The error's health record keeps the checkpoint.
WriteError(r) ==
    /\ run[r].at \in {"degraded", "alarm"}
    /\ health' = IF run[r].started > health.started
                 THEN [health EXCEPT !.started = run[r].started, !.gaps = 0, !.error = TRUE]
                 ELSE health
    /\ End(r)
    /\ UNCHANGED <<clock, sourceVars, journalVars, senderVars, coverage, gaps, witnessed,
                   counters>>

RunDies(r) ==
    /\ ~InRun(r, "idle") /\ Fault
    /\ End(r)
    /\ UNCHANGED <<clock, sourceVars, journalVars, senderVars, storeVars>>

-----------------------------------------------------------------------------
(* The environment *)

Tick ==
    /\ clock < MaxClock
    /\ clock' = clock + 1
    /\ UNCHANGED <<sourceVars, journalVars, senderVars, storeVars, run, counters>>

SetBack ==
    /\ setbacks < MaxSetbacks /\ setbacks' = setbacks + 1
    /\ clock > 0 /\ clock' = clock - 1
    /\ UNCHANGED <<sourceVars, journalVars, senderVars, storeVars, run, faults, restores>>

\* An older copy takes the place of the journal or of the source ledger.
Restore ==
    /\ restores < MaxRestores /\ restores' = restores + 1
    /\ \/ /\ \E n \in 0 .. Len(journal) - 1 : journal' = SubSeq(journal, 1, n)
          /\ UNCHANGED sourceVars
       \/ /\ \E n \in 0 .. Len(acks) - 1 :
               /\ acks' = SubSeq(acks, 1, n)
               /\ sent' = sent \ {acks[i].packet : i \in n + 1 .. Len(acks)}
          /\ UNCHANGED journal
    /\ UNCHANGED <<clock, journaling, senderVars, storeVars, run, faults, setbacks>>

Send(p) == Dispatch(p) \/ StartAttempt(p) \/ Respond(p) \/ Acknowledge(p)
Activate(r) == ActivateStart(r) \/ ActivateJournalRead(r) \/ ActivateSeal(r)
Monitor(r) ==
    \/ Begin(r) \/ ReadState(r) \/ ReadSource(r) \/ ReadJournal(r)
    \/ RecordGaps(r) \/ WriteHealth(r) \/ WriteError(r)

Next ==
    \/ \E p \in Packets : DeliverOld(p) \/ Send(p) \/ AttemptFails(p) \/ SenderCrashes(p)
    \/ \E r \in Runs : Activate(r) \/ Monitor(r) \/ RunDies(r)
    \/ ActivateJournal \/ Tick \/ SetBack \/ Restore

Spec == Init /\ [][Next]_vars

\* The coverage task is repeated; nothing is assumed of the senders or of runs by hand.
FairSpec == Spec /\ WF_vars(Monitor(Scheduled))

-----------------------------------------------------------------------------
(* Properties *)

\* A gap is never recorded for a delivery whose attempt the journal held when the gap was
\* found: overlap of a sender and a monitor is no missing evidence (_live_reconciliation).
GapsAreTrue ==
    restores = 0 =>
    \A g \in gaps : IF g \in Packets THEN \A a \in Range(acks) : a.packet # g
                    ELSE ~Proved(g, journal)

\* Overlapping runs do not take each other's progress for evidence that was rolled back.
NoFalseAlarm == (\E r \in Runs : InRun(r, "alarm")) => restores > 0

\* A run that goes on to report has seen everything that was checkpointed by any run
\* before it read its state: put-back evidence is not accepted (_write_health).
RollbackSeen ==
    \A r \in Runs : run[r].at \in {"gaps", "health"} =>
        /\ IsPrefix(run[r].owed.acks, run[r].acks)
        /\ IsPrefix(run[r].owed.journal, run[r].journal)

\* What the monitor says of the evidence is true: all three of the above.
EvidenceTrue == GapsAreTrue /\ NoFalseAlarm /\ RollbackSeen

\* An acknowledgement after the sealed watermark that the journal does not prove becomes
\* a gap record in the end, whichever runs die or overlap (run_notification_coverage_once).
Missing(a) ==
    /\ coverage # NotActive
    /\ a \in Range(acks) \ Range(coverage.acks)
    /\ ~ \E i, j \in DOMAIN journal : i < j /\ Proves(a, journal[i], journal[j])
MissingRecorded == <>[](\A a \in Range(acks) : Missing(a) => a \in gaps)
=============================================================================
