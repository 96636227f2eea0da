---------------------------- MODULE LiveCanary ----------------------------
(***************************************************************************)
(* The live half of execution/canary.py: CanaryRunner._run_live and the    *)
(* handlers it calls, over the ledger CanaryStore keeps in SQLite, against *)
(* the account of CanaryBroker.                                            *)
(*                                                                         *)
(* One cycle reads the account once (snap) and acts on that reading.  Each *)
(* await between two ledger writes or order calls is a step boundary, so   *)
(* the broker, the clock and a crash fall between an order and its commit. *)
(* The rows of the ledger are durable; pc, todo and the other variables    *)
(* of a cycle are lost with the process.                                   *)
(***************************************************************************)
EXTENDS CanaryBroker

CONSTANTS
    Rank,           \* [Packets -> Nat], the order of lottery_rank
    MaxSlots,       \* config.max_live_slots
    MaxSessions,    \* config.max_sessions
    MaxFaults,      \* bound on crashes, lost connections and broker calls that raise
    PromptRestart   \* does a cycle adopt an orphan entry before the clock moves on?

ASSUME CanaryAssumption ==
    /\ Rank \in [Packets -> Nat]
    /\ \A p, q \in Packets : Rank[p] = Rank[q] => p = q
    /\ MaxSlots \in Nat \ {0}
    /\ MaxSessions \in Nat \ {0}
    /\ MaxFaults \in Nat
    /\ PromptRestart \in BOOLEAN

VARIABLES
    live_state,         \* the columns of table candidates
    entry_session,
    live_quantity,
    live_exit_session,
    timed_exit,         \* timed_exit_order_id, as the kind of that order
    connected,          \* IbkrBroker.ib
    pc,                 \* where the cycle stands
    todo,               \* rows the current loop has not handled yet
    snap,               \* account, orders, rows and time read when the cycle began
    gate,               \* _account_gate = "account_ready"
    reopened,           \* has this pass over the first row of todo reopened it?
    sent,               \* the timed exit being sent for the first row of todo
    window,             \* its dispatch_window, as the phase it must be sent in
    slots,              \* capacity - submitted
    faults

ledger == <<live_state, entry_session, live_quantity, live_exit_session, timed_exit>>
cycle  == <<pc, todo, snap, gate, reopened, sent, window, slots>>
vars   == <<brokerVars, ledger, connected, cycle, faults>>

Ended == {"closed", "closed_unattributed", "entry_failed", "entry_window_missed",
          "overlap_suppressed", "capacity_suppressed", "cash_suppressed",
          "preflight_rejected", "entry_expired_unknown"}
LiveStates == {"absent", "queued", "submitted", "open", "closing"} \cup Ended

NoSession == 0
NoKind    == "none"
Rows(states) == {p \in Packets : live_state[p] \in states}
Active == Rows({"submitted", "open", "closing"})

\* ORDER BY entry_session, lottery_rank
Before(p, q) == \/ entry_session[p] < entry_session[q]
                \/ entry_session[p] = entry_session[q] /\ Rank[p] < Rank[q]
Current(p) == p \in todo /\ \A q \in todo \ {p} : Before(p, q)

Done(p)  == todo' = todo \ {p}
Goto(at) == pc' = at
Set(p, state) == live_state' = [live_state EXCEPT ![p] = state]

NoSnap == [orders |-> [p \in Packets |-> [k \in Kinds |-> NoOrder]],
           position |-> [s \in Symbols |-> 0], day |-> 1, phase |-> "entry", managed |-> {}]
Snapshot(p, k) == snap.orders[p][k]
SnapPosition(p) == snap.position[Symbol[p]]
Remaining(o) == o.qty - o.filled
Ordered(o) == o.status # "none"

\* What a cycle holds in memory when it is over, or fails.
Forget ==
    /\ pc' = "idle" /\ todo' = {} /\ snap' = NoSnap /\ gate' = FALSE
    /\ reopened' = FALSE /\ sent' = NoKind /\ window' = NoKind /\ slots' = 0

\* The broker method raises IbkrExecutionError; the cycle ends and nothing is committed.
Raise == Forget /\ UNCHANGED <<ledger, connected, faults>>

----------------------------------------------------------------------------
Init ==
    /\ BrokerInit
    /\ live_state = [p \in Packets |-> "absent"]
    /\ entry_session = [p \in Packets |-> NoSession]
    /\ live_quantity = [p \in Packets |-> 0]
    /\ live_exit_session = [p \in Packets |-> NoSession]
    /\ timed_exit = [p \in Packets |-> NoKind]
    /\ connected = FALSE
    /\ pc = "idle" /\ todo = {} /\ snap = NoSnap /\ gate = FALSE
    /\ reopened = FALSE /\ sent = NoKind /\ window = NoKind /\ slots = 0
    /\ faults = 0

\* IbkrBroker.connect
Connect ==
    /\ ~connected
    /\ connected' = TRUE
    /\ orders' = Resynced
    /\ UNCHANGED <<position, held, day, phase, cancels, ledger, cycle, faults>>

\* CanaryRunner._discover queues an eligible packet for the next opening it
\* can still reach.  Discoveries stop when the position could outlive MaxDay.
Discover(p) ==
    LET session == IF phase = "entry" THEN day ELSE day + 1 IN
    /\ pc = "idle" /\ connected
    /\ live_state[p] = "absent"
    /\ session + MaxSessions <= MaxDay
    /\ Set(p, "queued")
    /\ entry_session' = [entry_session EXCEPT ![p] = session]
    /\ UNCHANGED <<brokerVars, live_quantity, live_exit_session, timed_exit,
                   connected, cycle, faults>>

\* account_snapshot, orders and _adopt_broker_orders
AdoptedEntry(p) == live_state[p] = "queued" /\ Accepted(orders[p]["ENTRY"])
AcceptedTimed(p) == {k \in TimedKinds : Accepted(orders[p][k])}
ForgottenExit(p) == FALSE    \* mutant of AdoptedExit: timed exits are not adopted
AdoptedExit(p) == /\ live_state[p] = "open" /\ timed_exit[p] = NoKind
                  /\ AcceptedTimed(p) # {}
PreferredExit(kinds) == IF "TIME" \in kinds THEN "TIME"
                        ELSE IF "OVERDUE" \in kinds THEN "OVERDUE" ELSE "QTYFAIL"

NothingUnexpected(state) == FALSE    \* mutant of Unexpected: positions are not compared
\* _account_gate on the adopted rows; its checks of cash, account name and
\* foreign orders may also close it.
Unexpected(state) ==
    \E s \in Symbols : /\ position[s] # 0
                       /\ \A p \in Packets : Symbol[p] = s =>
                             state[p] \notin {"submitted", "open", "closing"}
Missing(state) ==
    \E p \in Packets : state[p] \in {"open", "closing"} /\ position[Symbol[p]] = 0

BeginCycle ==
    /\ pc = "idle" /\ connected
    /\ Rows({"queued", "submitted", "open", "closing"}) # {}
    /\ live_state' = [p \in Packets |->
            IF AdoptedEntry(p) THEN "submitted"
            ELSE IF AdoptedExit(p) THEN "closing" ELSE live_state[p]]
    /\ live_quantity' = [p \in Packets |->
            IF AdoptedEntry(p) THEN Quantity ELSE live_quantity[p]]
    /\ timed_exit' = [p \in Packets |->
            IF AdoptedExit(p) THEN PreferredExit(AcceptedTimed(p)) ELSE timed_exit[p]]
    /\ snap' = [orders |-> orders, position |-> position, day |-> day, phase |-> phase,
                managed |-> {p \in Packets : live_state'[p] \in {"open", "closing"}}]
    /\ \E other \in BOOLEAN :
            gate' = (other /\ ~Unexpected(live_state') /\ ~Missing(live_state'))
    /\ todo' = {p \in Packets : live_state'[p] = "submitted"}
    /\ Goto("submitted")
    /\ UNCHANGED <<brokerVars, entry_session, live_exit_session, connected,
                   reopened, sent, window, slots, faults>>

----------------------------------------------------------------------------
(* _reconcile_orders, first loop: rows found 'submitted'. *)

EntryDead(o)    == o.status = "cancelled" /\ o.filled = 0
NotRecovered(p) == FALSE    \* mutant of Recoverable: only a visible fill is protected
Recoverable(p)  == ~Ordered(Snapshot(p, "ENTRY")) /\ SnapPosition(p) > 0
EntryFilled(p)  == Snapshot(p, "ENTRY").filled > 0

StillWaiting(p) ==
    /\ pc = "submitted" /\ Current(p)
    /\ ~EntryDead(Snapshot(p, "ENTRY")) /\ ~EntryFilled(p) /\ ~Recoverable(p)
    /\ Done(p)
    /\ UNCHANGED <<brokerVars, ledger, connected, pc, snap, gate, reopened, sent, window,
                   slots, faults>>

EntryEndsUnfilled(p) ==
    /\ pc = "submitted" /\ Current(p)
    /\ \/ EntryDead(Snapshot(p, "ENTRY")) /\ Set(p, "entry_failed")
       \/ EntryFilled(p) /\ SnapPosition(p) <= 0 /\ Set(p, "closed_unattributed")
    /\ Done(p)
    /\ UNCHANGED <<brokerVars, entry_session, live_quantity, live_exit_session, timed_exit,
                   connected, pc, snap, gate, reopened, sent, window, slots, faults>>

\* await cancel_order for a partial entry
CancelRemainder(p) ==
    /\ pc = "submitted" /\ Current(p)
    /\ EntryFilled(p) /\ SnapPosition(p) > 0 /\ Remaining(Snapshot(p, "ENTRY")) > 0
    /\ orders' = WithCancel(p)
    /\ Goto("protect")
    /\ UNCHANGED <<position, held, day, phase, cancels, ledger, connected, todo, snap, gate,
                   reopened, sent, window, slots, faults>>

\* submit_protective_oca puts the stop on the server first.  A refused order,
\* or a process that dies in between, leaves what was placed so far.
Refused(p, q) == /\ ~({orders[p]["STOP"].status, orders[p]["TARGET"].status} \subseteq Working)
                 /\ ~Sellable(p, q)
PlaceProtective(p, q, next) ==
    \/ /\ ~Refused(p, q)
       /\ orders' = WithProtection(p, q, {"STOP", "TARGET"})
       /\ Goto(next)
       /\ UNCHANGED <<ledger, connected, todo, snap, gate, reopened, sent, window, slots, faults>>
    \/ /\ ~Refused(p, q) /\ faults < MaxFaults
       /\ orders' = WithProtection(p, q, {"STOP"})
       /\ faults' = faults + 1
       /\ \E alive \in BOOLEAN : connected' = alive
       /\ Forget /\ UNCHANGED ledger
    \/ Refused(p, q) /\ Raise /\ UNCHANGED orders

Protect(p) ==
    /\ Current(p)
    /\ \/ pc = "protect"
       \/ /\ pc = "submitted" /\ SnapPosition(p) > 0
          /\ \/ Recoverable(p)
             \/ EntryFilled(p) /\ Remaining(Snapshot(p, "ENTRY")) = 0
    /\ PlaceProtective(p, SnapPosition(p), "protected")
    /\ UNCHANGED <<position, held, day, phase, cancels>>

\* One of the two was cancelled while the method slept, by the fill of the other.
PairBroken(p) == "cancelled" \in {orders[p]["STOP"].status, orders[p]["TARGET"].status}

\* The tenth session by this cycle's calendar, which may be too short or may
\* disagree with the one the entry was sent under.
ComputedExits(p) == LET planned == entry_session[p] + MaxSessions - 1
                    IN  {NoSession, planned, planned + 1}

\* mutant of CommitProtection: the calendar of this cycle decides
RecomputeProtection(p) ==
    /\ pc = "protected" /\ Current(p) /\ ~PairBroken(p)
    /\ Set(p, "open")
    /\ live_quantity' = [live_quantity EXCEPT ![p] = SnapPosition(p)]
    /\ \E computed \in ComputedExits(p) :
            live_exit_session' = [live_exit_session EXCEPT ![p] = computed]
    /\ Done(p) /\ Goto("submitted")
    /\ UNCHANGED <<brokerVars, entry_session, timed_exit, connected, snap, gate, reopened,
                   sent, window, slots, faults>>

\* _protect_position after the orders: the ledger learns of the position, and
\* an exit session stored before the entry was sent is kept.
CommitProtection(p) ==
    /\ pc = "protected" /\ Current(p) /\ ~PairBroken(p)
    /\ Set(p, "open")
    /\ live_quantity' = [live_quantity EXCEPT ![p] = SnapPosition(p)]
    /\ \E computed \in ComputedExits(p) :
            live_exit_session' = [live_exit_session EXCEPT ![p] =
                                    IF @ # NoSession THEN @ ELSE computed]
    /\ Done(p) /\ Goto("submitted")
    /\ UNCHANGED <<brokerVars, entry_session, timed_exit, connected, snap, gate, reopened,
                   sent, window, slots, faults>>

ProtectionFails(p) ==
    /\ pc \in {"protected", "repaired"} /\ Current(p) /\ PairBroken(p)
    /\ Raise
    /\ UNCHANGED brokerVars

----------------------------------------------------------------------------
(* _reconcile_orders, second loop: rows already 'open' or 'closing'. *)

StartHeld ==
    /\ pc = "submitted" /\ todo = {}
    /\ todo' = snap.managed /\ Goto("held")
    /\ UNCHANGED <<brokerVars, ledger, connected, snap, gate, reopened, sent, window, slots, faults>>

Timed(p) == IF timed_exit[p] = NoKind THEN NoOrder ELSE Snapshot(p, timed_exit[p])
ClosedByAnyFill(p, o) == o.filled > 0    \* mutant of ClosedBy: a partial exit closes
ClosedBy(p, o) == o.filled > 0 /\ (Remaining(o) = 0 \/ SnapPosition(p) = 0)
TimedNeverLost(p) == FALSE    \* mutant of TimedLost: a cancelled exit is not reopened
TimedLost(p)  == Timed(p).status = "cancelled" /\ SnapPosition(p) > 0
ExitFilled(p) == \E o \in {Snapshot(p, "STOP"), Snapshot(p, "TARGET"), Timed(p)} : ClosedBy(p, o)
BrokerFlat(p) == SnapPosition(p) = 0 /\ live_quantity[p] > 0
Mismatch(p)   == /\ SnapPosition(p) > 0 /\ SnapPosition(p) # live_quantity[p]
                 /\ timed_exit[p] = NoKind /\ ~reopened
Unprotected(p) == /\ SnapPosition(p) > 0
                  /\ ~({Snapshot(p, "STOP").status, Snapshot(p, "TARGET").status} \subseteq Working)

Managing(p) == pc = "held" /\ Current(p) /\ ~TimedLost(p)
NextRow(p)  == Done(p) /\ reopened' = FALSE

\* A cancelled timed exit leaves the residual position open again; the same
\* pass goes on with the columns it has already fetched.
ReopenTimed(p) ==
    /\ pc = "held" /\ Current(p) /\ TimedLost(p)
    /\ Set(p, "open")
    /\ live_quantity' = [live_quantity EXCEPT ![p] = SnapPosition(p)]
    /\ timed_exit' = [timed_exit EXCEPT ![p] = NoKind]
    /\ reopened' = TRUE
    /\ UNCHANGED <<brokerVars, entry_session, live_exit_session, connected, pc, todo, snap,
                   gate, sent, window, slots, faults>>

Close(p) ==
    /\ Managing(p)
    /\ \/ ExitFilled(p) /\ Set(p, "closed")
       \/ ~ExitFilled(p) /\ BrokerFlat(p) /\ Set(p, "closed_unattributed")
    /\ NextRow(p)
    /\ UNCHANGED <<brokerVars, entry_session, live_quantity, live_exit_session, timed_exit,
                   connected, pc, snap, gate, sent, window, slots, faults>>

\* A position that differs from the ledger is sold at the market.
Flatten(p) ==
    /\ Managing(p) /\ ~ExitFilled(p) /\ Mismatch(p)
    /\ sent' = "QTYFAIL" /\ window' = "any"
    /\ Goto("send")
    /\ UNCHANGED <<brokerVars, ledger, connected, todo, snap, gate, reopened, slots, faults>>

Repair(p) ==
    /\ Managing(p) /\ ~ExitFilled(p) /\ ~Mismatch(p) /\ Unprotected(p)
    /\ PlaceProtective(p, SnapPosition(p), "repaired")
    /\ UNCHANGED <<position, held, day, phase, cancels>>

CommitRepair(p) ==
    /\ pc = "repaired" /\ Current(p) /\ ~PairBroken(p)
    /\ NextRow(p) /\ Goto("held")
    /\ UNCHANGED <<brokerVars, ledger, connected, snap, gate, sent, window, slots, faults>>

LeaveAlone(p) ==
    /\ Managing(p) /\ ~ExitFilled(p) /\ ~BrokerFlat(p) /\ ~Mismatch(p) /\ ~Unprotected(p)
    /\ NextRow(p)
    /\ UNCHANGED <<brokerVars, ledger, connected, pc, snap, gate, sent, window, slots, faults>>

\* The last loop of _reconcile_orders, then the rows _submit_due_time_exits
\* selects.  From here on only the time of the reading is used.
Vanished(p) == /\ live_state[p] = "submitted" /\ entry_session[p] < snap.day
               /\ ~Ordered(Snapshot(p, "ENTRY")) /\ SnapPosition(p) = 0
ExitDue(p) == /\ live_state[p] = "open" /\ timed_exit[p] = NoKind
              /\ live_exit_session[p] \in 1..snap.day

StartExits ==
    /\ pc = "held" /\ todo = {}
    /\ live_state' = [p \in Packets |->
            IF Vanished(p) THEN "entry_expired_unknown" ELSE live_state[p]]
    /\ todo' = {p \in Packets : ExitDue(p)}
    /\ snap' = [NoSnap EXCEPT !.day = snap.day, !.phase = snap.phase]
    /\ Goto("exits")
    /\ UNCHANGED <<brokerVars, entry_session, live_quantity, live_exit_session, timed_exit,
                   connected, gate, reopened, sent, window, slots, faults>>

----------------------------------------------------------------------------
(* _submit_due_time_exits; it reads the clock again for every row. *)

Overdue(p) == live_exit_session[p] < day

NotYet(p) ==
    /\ pc = "exits" /\ Current(p) /\ ~Overdue(p) /\ phase \notin {"moc", "late"}
    /\ Done(p)
    /\ UNCHANGED <<brokerVars, ledger, connected, pc, snap, gate, reopened, sent, window,
                   slots, faults>>

ChooseExit(p) ==
    /\ pc = "exits" /\ Current(p)
    /\ \/ Overdue(p) /\ sent' = "OVERDUE" /\ window' = "any"
       \/ ~Overdue(p) /\ phase = "moc"  /\ sent' = "TIME"    /\ window' = "moc"
       \/ ~Overdue(p) /\ phase = "late" /\ sent' = "OVERDUE" /\ window' = "late"
    /\ Goto("send")
    /\ UNCHANGED <<brokerVars, ledger, connected, todo, snap, gate, reopened, slots, faults>>

AnyWindow(p) == TRUE    \* mutant of InWindow: the clock is not read again
\* _check_exit_window, right before placeOrder
InWindow(p) == window = "any" \/ (window = phase /\ live_exit_session[p] = day)
SendQuantity(p) == IF sent = "QTYFAIL" THEN SnapPosition(p) ELSE live_quantity[p]
Sendable(p) == \/ Accepted(orders[p][sent])
               \/ InWindow(p) /\ Sellable(p, SendQuantity(p))

\* submit_market_on_close and submit_market_exit
SendExit(p) ==
    /\ pc = "send" /\ Current(p)
    /\ \/ /\ Sendable(p)
          /\ orders' = WithOrder(p, sent, SendQuantity(p))
          /\ Goto("sent")
          /\ UNCHANGED <<ledger, connected, todo, snap, gate, reopened, sent, window, slots, faults>>
       \/ ~Sendable(p) /\ Raise /\ UNCHANGED orders
    /\ UNCHANGED <<position, held, day, phase, cancels>>

CommitExit(p) ==
    /\ pc = "sent" /\ Current(p)
    /\ \/ /\ orders[p][sent].status # "cancelled"
          /\ Set(p, "closing")
          /\ timed_exit' = [timed_exit EXCEPT ![p] = sent]
          /\ Done(p)
          /\ Goto(IF sent = "QTYFAIL" THEN "held" ELSE "exits")
          /\ sent' = NoKind /\ window' = NoKind
          /\ UNCHANGED <<entry_session, live_quantity, live_exit_session, connected, snap, gate,
                         reopened, slots, faults>>
       \/ orders[p][sent].status = "cancelled" /\ Raise
    /\ UNCHANGED brokerVars

----------------------------------------------------------------------------
(* _run_live after the exits, and _submit_due_entries. *)

HorizonMissing == \E p \in Rows({"open", "closing"}) : live_exit_session[p] = NoSession
DueToday == {p \in Rows({"queued"}) : entry_session[p] = snap.day}
Overlaps(p) == \/ \E q \in Active : Symbol[q] = Symbol[p]
               \/ \E q \in DueToday : Symbol[q] = Symbol[p] /\ Rank[q] < Rank[p]
FilledCapacity == MaxSlots - Cardinality(Rows({"open", "closing"}))    \* mutant of Capacity
OneMoreSlot    == MaxSlots - Cardinality(Active) + 1                   \* mutant of Capacity
Capacity == MaxSlots - Cardinality(Active)

EndCycle ==
    /\ \/ pc = "exits" /\ todo = {} /\ (~gate \/ HorizonMissing)
       \/ pc = "entries" /\ todo = {}
    /\ Forget
    /\ UNCHANGED <<brokerVars, ledger, connected, faults>>

\* Rows of earlier sessions are given up; in the submission window the rest
\* of the candidates is reduced to one per symbol.
StartEntries ==
    LET ranked == snap.phase = "entry" /\ Capacity > 0 IN
    /\ pc = "exits" /\ todo = {} /\ gate /\ ~HorizonMissing
    /\ live_state' = [p \in Packets |->
            IF live_state[p] = "queued" /\ entry_session[p] < snap.day THEN "entry_window_missed"
            ELSE IF ranked /\ p \in DueToday /\ Overlaps(p) THEN "overlap_suppressed"
            ELSE live_state[p]]
    /\ todo' = IF ranked THEN {p \in DueToday : ~Overlaps(p)} ELSE {}
    /\ slots' = IF ranked THEN Capacity ELSE 0
    /\ Goto("entries")
    /\ UNCHANGED <<brokerVars, entry_session, live_quantity, live_exit_session, timed_exit,
                   connected, snap, gate, reopened, sent, window, faults>>

\* No slot is left, or the cash and commission preview says no.
Suppress(p) ==
    /\ pc = "entries" /\ Current(p)
    /\ \/ slots = 0 /\ Set(p, "capacity_suppressed")
       \/ slots > 0 /\ \E why \in {"cash_suppressed", "preflight_rejected"} : Set(p, why)
    /\ Done(p)
    /\ UNCHANGED <<brokerVars, entry_session, live_quantity, live_exit_session, timed_exit,
                   connected, pc, snap, gate, reopened, sent, window, slots, faults>>

InEntryWindow == day = snap.day /\ phase = "entry"

MissBoundary(p) ==
    /\ pc = "entries" /\ Current(p) /\ slots > 0 /\ ~InEntryWindow
    /\ live_state' = [q \in Packets |->
            IF q \in todo THEN "entry_window_missed" ELSE live_state[q]]
    /\ todo' = {}
    /\ UNCHANGED <<brokerVars, entry_session, live_quantity, live_exit_session, timed_exit,
                   connected, pc, snap, gate, reopened, sent, window, slots, faults>>

\* mutant of FixExitSession: the session is left to the protection step
LeaveExitSession(p) ==
    /\ pc = "entries" /\ Current(p) /\ slots > 0 /\ InEntryWindow
    /\ Goto("buy")
    /\ UNCHANGED <<brokerVars, ledger, connected, todo, snap, gate, reopened, sent, window,
                   slots, faults>>

\* The exit session is persisted before the order is submitted.
FixExitSession(p) ==
    /\ pc = "entries" /\ Current(p) /\ slots > 0 /\ InEntryWindow
    /\ live_exit_session' = [live_exit_session EXCEPT ![p] = snap.day + MaxSessions - 1]
    /\ Goto("buy")
    /\ UNCHANGED <<brokerVars, live_state, entry_session, live_quantity, timed_exit, connected,
                   todo, snap, gate, reopened, sent, window, slots, faults>>

\* submit_market_on_open only asks calendar_gate: same day, and within a
\* minute of the cycle's start.
CalendarGate == day = snap.day /\ phase \in {"entry", "preopen"}

SendEntry(p) ==
    /\ pc = "buy" /\ Current(p)
    /\ \/ /\ CalendarGate
          /\ orders' = WithOrder(p, "ENTRY", Quantity)
          /\ Goto("bought")
          /\ UNCHANGED <<ledger, connected, todo, snap, gate, reopened, sent, window, slots, faults>>
       \/ ~CalendarGate /\ Raise /\ UNCHANGED orders
    /\ UNCHANGED <<position, held, day, phase, cancels>>

CommitEntry(p) ==
    /\ pc = "bought" /\ Current(p)
    /\ \/ /\ orders[p]["ENTRY"].status # "cancelled"
          /\ Set(p, "submitted")
          /\ live_quantity' = [live_quantity EXCEPT ![p] = Quantity]
          /\ slots' = slots - 1
          /\ Done(p) /\ Goto("entries")
          /\ UNCHANGED <<entry_session, live_exit_session, timed_exit, connected, snap, gate,
                         reopened, sent, window, faults>>
       \/ orders[p]["ENTRY"].status = "cancelled" /\ Raise
    /\ UNCHANGED brokerVars

----------------------------------------------------------------------------
\* The process dies, the connection drops, or an awaited call raises.
CycleFails ==
    /\ faults < MaxFaults
    /\ faults' = faults + 1
    /\ \/ connected /\ connected' = FALSE
       \/ pc # "idle" /\ UNCHANGED connected
    /\ Forget
    /\ UNCHANGED <<brokerVars, ledger>>

Runner ==
    \/ Connect \/ BeginCycle \/ StartHeld \/ StartExits \/ StartEntries \/ EndCycle
    \/ \E p \in Packets :
        \/ StillWaiting(p) \/ EntryEndsUnfilled(p) \/ CancelRemainder(p) \/ Protect(p)
        \/ CommitProtection(p) \/ ProtectionFails(p)
        \/ ReopenTimed(p) \/ Close(p) \/ Flatten(p) \/ Repair(p) \/ CommitRepair(p)
        \/ LeaveAlone(p)
        \/ NotYet(p) \/ ChooseExit(p) \/ SendExit(p) \/ CommitExit(p)
        \/ Suppress(p) \/ MissBoundary(p) \/ FixExitSession(p) \/ SendEntry(p) \/ CommitEntry(p)

\* Shares were bought, or may still be, for a row that is only queued.
Orphan(p) == live_state[p] = "queued" /\ Accepted(orders[p]["ENTRY"])

\* A cycle's waits are bounded by timeouts of seconds: it is shorter than the
\* shortest phase, so it spans at most one boundary.
Clock ==
    /\ pc = "idle" \/ phase = snap.phase
    /\ PromptRestart => \A p \in Packets : ~Orphan(p)
    /\ Tick
    /\ UNCHANGED <<ledger, connected, cycle, faults>>

Broker ==
    /\ \E p \in Packets : \/ EntryFill(p) \/ CancelTakesEffect(p)
                          \/ \E k \in ExitKinds : ExitFill(p, k)
                          \/ \E k \in Kinds : BrokerCancel(p, k)
    /\ UNCHANGED <<ledger, connected, cycle, faults>>

Next == \/ Runner \/ Clock \/ Broker \/ CycleFails
        \/ \E p \in Packets : Discover(p)

Spec == Init /\ [][Next]_vars

\* The worker keeps cycling, time passes, and the market fills a timed exit
\* that keeps being offered to it.
FairSpec ==
    /\ Spec
    /\ WF_vars(Runner) /\ WF_vars(Clock)
    /\ \A p \in Packets : \A k \in TimedKinds :
            SF_vars(ExitFill(p, k) /\ UNCHANGED <<ledger, connected, cycle, faults>>)
----------------------------------------------------------------------------
(* Properties *)

Readings == [orders : [Packets -> [Kinds -> Order]], position : [Symbols -> Int],
             day : 1..MaxDay, phase : Phases, managed : SUBSET Packets]

LedgerTypeOK ==
    /\ live_state \in [Packets -> LiveStates]
    /\ entry_session \in [Packets -> Nat]
    /\ live_quantity \in [Packets -> Nat]
    /\ live_exit_session \in [Packets -> Nat]
    /\ timed_exit \in [Packets -> TimedKinds \cup {NoKind}]

CycleTypeOK ==
    /\ pc \in {"idle", "submitted", "protect", "protected", "held", "repaired", "exits",
               "send", "sent", "entries", "buy", "bought"}
    /\ todo \in SUBSET Packets
    /\ snap \in Readings
    /\ gate \in BOOLEAN
    /\ reopened \in BOOLEAN
    /\ sent \in TimedKinds \cup {NoKind}
    /\ window \in {NoKind, "any", "moc", "late"}
    /\ slots \in 0..MaxSlots

\* Every variable holds values of its kind, and a cycle never has more slots
\* to give than max_live_slots.
TypeOK ==
    /\ BrokerTypeOK /\ LedgerTypeOK /\ CycleTypeOK
    /\ connected \in BOOLEAN
    /\ faults \in 0..MaxFaults

\* The canary never sells a share it does not own, whatever fills while it
\* places, replaces and adopts exits: every exit is in the packet's OCA group.
NeverShort == \A s \in Symbols : position[s] >= 0

\* The account never carries more entries and positions than max_live_slots,
\* also after a crash between placeOrder and the row that records it.
Exposed(p) == orders[p]["ENTRY"].status \in Working \/ held[p] > 0
SlotCap == Cardinality({p \in Packets : Exposed(p)}) <= MaxSlots

\* A row never ends while shares of its packet are held, whatever filled since the cycle
\* read the account and the orders, unless an exit was for the part of the entry that had
\* executed when it was sent (canary.py).
SoldLess(p) == \E k \in Kinds \ {"ENTRY"} :
    orders[p][k].status = "filled" /\ orders[p][k].qty < Quantity
RowEndsSold ==
    [][\A p \in Active : p \in Active' \/ held[p] = 0 \/ SoldLess(p)]_vars

\* At most one timed exit of a packet is at work, through crash, adoption,
\* cancellation and retry.
AtMostOneTimedExit ==
    \A p \in Packets : \A j, k \in TimedKinds :
        {orders[p][j].status, orders[p][k].status} \subseteq Working => j = k

\* An accepted entry order, and every row that may hold shares, has its time
\* exit on record: the session is persisted before the order is submitted.
ExitSessionSet ==
    \A p \in Packets :
        \/ live_exit_session[p] # NoSession
        \/ ~Ordered(orders[p]["ENTRY"]) /\ live_state[p] \notin {"submitted", "open", "closing"}

\* "Protection must never silently move it": the session a position leaves in
\* does not change once the row is active.
ExitSessionKept ==
    [][\A p \in Active : live_exit_session'[p] = live_exit_session[p]]_vars

Placed(p, k) == orders[p][k].status \notin Working /\ orders'[p][k].status \in Working

\* A market-on-close exit is only sent before its cutoff on the exit session,
\* a replacement market exit only after that cutoff, however long the cycle
\* waited since it chose the order.
TimedExitInWindow ==
    [][\A p \in Packets :
        /\ Placed(p, "TIME") => phase = "moc" /\ day = live_exit_session[p]
        /\ Placed(p, "OVERDUE") => \/ day > live_exit_session[p]
                                   \/ day = live_exit_session[p] /\ phase = "late"]_vars

\* While the account holds shares no active row accounts for, no entry is sent.
NoEntryOverUnknown ==
    [][\A p, q \in Packets :
        Placed(p, "ENTRY") /\ held[q] > 0 => \E r \in Active : Symbol[r] = Symbol[q]]_vars

\* Two active rows never share a symbol, so one position number per symbol
\* is the position of one row.
OneRowPerSymbol == \A p, q \in Active : Symbol[p] = Symbol[q] => p = q

\* Shares that are held get a stop or a market exit at the broker, or are
\* gone, also when the entry's fill is no longer visible after a restart.
Guarded(p) == \E k \in TimedKinds \cup {"STOP"} : orders[p][k].status \in Working
ProtectedEventually == \A p \in Packets : held[p] > 0 ~> (held[p] = 0 \/ Guarded(p))

\* "The unchanged overdue recovery takes over on the next date" (canary.py, line 1416): a
\* position that outlives its exit session is eventually sold.
Outlived(p) == held[p] > 0 /\ live_exit_session[p] \in 1..(day - 1)
OverdueSold == \A p \in Packets : Outlived(p) ~> held[p] = 0

\* As long as the worker never dies and its connection never drops, a position that
\* outlives its exit session is sold, also when the broker cancels its timed exit.
OverdueSoldWhileUp == \A p \in Packets : Outlived(p) ~> held[p] = 0 \/ faults > 0
=============================================================================
