------------------------- MODULE LiveCanary_proofs -------------------------
(* Theorems about LiveCanary, for every value of its constants. *)
EXTENDS LiveCanary, FiniteSetTheorems, TLAPS

USE BrokerAssumption, CanaryAssumption

(* The capacity a cycle starts with is a number of slots. *)
LEMMA CapacityType == Capacity > 0 => Capacity \in 1..MaxSlots
<1>1. IsFiniteSet(Active)
  BY FS_Subset DEF Active, Rows
<1>2. Cardinality(Active) \in Nat
  BY <1>1, FS_CardinalityType
<1> QED
  BY <1>2 DEF Capacity

(* Type correctness is inductive together with two facts about a cycle: an    *)
(* entry is only being sent while a slot is left for it, and protection is    *)
(* only being placed for a position that was read as positive.                *)
SlotLeft == pc \in {"buy", "bought"} => slots > 0
Holding == pc \in {"protect", "protected"} =>
             \A p \in Packets : Current(p) => SnapPosition(p) > 0
TypeInv == TypeOK /\ SlotLeft /\ Holding

LEMMA NoOrderType == NoOrder \in Order
BY DEF NoOrder, Order, Statuses

LEMMA CancelledType == ASSUME NEW o \in Order PROVE Cancelled(o) \in Order
BY DEF Cancelled, Order, Statuses

LEMMA ExecutedType ==
    ASSUME NEW o \in Order, NEW n \in 1..(o.qty - o.filled)
    PROVE  Executed(o, n) \in Order
<1>1. o.filled \in Nat /\ o.qty \in Nat /\ o.filled + n \in Nat /\ o.status \in Statuses
  BY DEF Order
<1>2. (IF o.filled + n = o.qty THEN "filled" ELSE o.status) \in Statuses
  BY <1>1 DEF Statuses
<1> QED
  BY <1>1, <1>2 DEF Executed, Order

LEMMA NewOrderType == ASSUME NEW q \in Nat PROVE NewOrder(q) \in Order
BY DEF NewOrder, NoOrder, Order, Statuses

LEMMA NoSnapType == NoSnap \in Readings
BY NoOrderType DEF NoSnap, Readings, Phases

LEMMA InitType == Init => TypeInv
<1> SUFFICES ASSUME Init PROVE TypeInv
  OBVIOUS
<1>1. BrokerTypeOK
  BY NoOrderType DEF Init, BrokerInit, BrokerTypeOK, Phases
<1>2. snap \in Readings
  BY NoSnapType DEF Init
<1>3. SlotLeft /\ Holding
  BY DEF Init, SlotLeft, Holding
<1>4. TypeOK
  <2>1. /\ live_state \in [Packets -> LiveStates]
        /\ entry_session \in [Packets -> Nat]
        /\ live_quantity \in [Packets -> Nat]
        /\ live_exit_session \in [Packets -> Nat]
        /\ timed_exit \in [Packets -> TimedKinds \cup {NoKind}]
    BY DEF Init, LiveStates, NoSession
  <2>2. /\ slots \in 0..MaxSlots
        /\ faults \in 0..MaxFaults
    BY DEF Init
  <2> QED
    BY <1>1, <1>2, <2>1, <2>2 DEF Init, TypeOK, LedgerTypeOK, CycleTypeOK, NoKind
<1> QED
  BY <1>3, <1>4 DEF TypeInv

(* The broker's own steps keep the account well typed. *)
LEMMA BrokerStepType ==
    ASSUME BrokerTypeOK, NEW p \in Packets,
           \/ EntryFill(p) \/ CancelTakesEffect(p)
           \/ \E k \in ExitKinds : ExitFill(p, k)
           \/ \E k \in Kinds : BrokerCancel(p, k)
    PROVE  BrokerTypeOK'
<1> USE DEF BrokerTypeOK
<1>e. "ENTRY" \in Kinds /\ ExitKinds \subseteq Kinds
  BY DEF Kinds, ExitKinds
<1>1. CASE EntryFill(p)
  BY <1>1, <1>e, ExecutedType DEF EntryFill
<1>2. CASE CancelTakesEffect(p)
  BY <1>2, <1>e, CancelledType DEF CancelTakesEffect
<1>3. ASSUME NEW k \in ExitKinds, ExitFill(p, k) PROVE BrokerTypeOK'
  <2>1. PICK n \in 1..(orders[p][k].qty - orders[p][k].filled) :
            /\ orders' = [orders EXCEPT ![p] = [j \in Kinds |->
                    IF j = k THEN Executed(orders[p][k], n)
                    ELSE IF {j, k} \subseteq OcaKinds /\ orders[p][j].status \in Working
                         THEN Cancelled(orders[p][j]) ELSE orders[p][j]]]
            /\ position' = [position EXCEPT ![Symbol[p]] = @ - n]
            /\ held' = [held EXCEPT ![p] = @ - n]
    BY <1>3 DEF ExitFill
  <2>2. \A j \in Kinds : orders[p][j] \in Order /\ Cancelled(orders[p][j]) \in Order
    BY CancelledType
  <2>3. Executed(orders[p][k], n) \in Order
    BY <1>e, ExecutedType
  <2>4. orders' \in [Packets -> [Kinds -> Order]]
    BY <2>1, <2>2, <2>3
  <2>5. position' \in [Symbols -> Int] /\ held' \in [Packets -> Int]
    BY <2>1
  <2> QED
    BY <1>3, <2>4, <2>5 DEF ExitFill
<1>4. ASSUME NEW k \in Kinds, BrokerCancel(p, k) PROVE BrokerTypeOK'
  BY <1>4, CancelledType DEF BrokerCancel
<1> QED
  BY <1>1, <1>2, <1>3, <1>4

LEMMA TickType == ASSUME BrokerTypeOK, Tick PROVE BrokerTypeOK'
<1> USE DEF BrokerTypeOK
<1>1. phase' \in Phases
  BY DEF Tick, NextPhase, Phases
<1>2. day' \in 1..MaxDay
  BY DEF Tick
<1>3. ASSUME NEW o \in Order PROVE [o EXCEPT !.today = FALSE] \in Order
  BY DEF Order
<1>4. orders' \in [Packets -> [Kinds -> Order]]
  BY <1>3, CancelledType DEF Tick
<1> QED
  BY <1>1, <1>2, <1>4 DEF Tick

(* What the order methods return is again a table of orders. *)
LEMMA OrderOps ==
    ASSUME BrokerTypeOK
    PROVE  /\ Resynced \in [Packets -> [Kinds -> Order]]
           /\ \A p \in Packets : WithCancel(p) \in [Packets -> [Kinds -> Order]]
           /\ \A p \in Packets, k \in Kinds, q \in Nat :
                   WithOrder(p, k, q) \in [Packets -> [Kinds -> Order]]
           /\ \A p \in Packets, q \in Nat, kinds \in SUBSET Kinds :
                   WithProtection(p, q, kinds) \in [Packets -> [Kinds -> Order]]
<1> USE DEF BrokerTypeOK
<1>1. Resynced \in [Packets -> [Kinds -> Order]]
  BY NoOrderType DEF Resynced
<1>2. ASSUME NEW p \in Packets PROVE WithCancel(p) \in [Packets -> [Kinds -> Order]]
  <2>1. "ENTRY" \in Kinds
    BY DEF Kinds
  <2>2. orders[p]["ENTRY"] \in Order
    BY <2>1
  <2>3. [orders[p]["ENTRY"] EXCEPT !.status = IF @ = "working" THEN "cancelling" ELSE @] \in Order
    BY <2>2 DEF Order, Statuses
  <2> QED
    BY <2>1, <2>3 DEF WithCancel
<1>3. ASSUME NEW p \in Packets, NEW k \in Kinds, NEW q \in Nat
      PROVE  WithOrder(p, k, q) \in [Packets -> [Kinds -> Order]]
  BY NewOrderType DEF WithOrder
<1>4. ASSUME NEW p \in Packets, NEW q \in Nat, NEW kinds \in SUBSET Kinds
      PROVE  WithProtection(p, q, kinds) \in [Packets -> [Kinds -> Order]]
  BY NewOrderType DEF WithProtection
<1> QED
  BY <1>1, <1>2, <1>3, <1>4

(* The rows of the ledger. *)
LEMMA SetType ==
    ASSUME LedgerTypeOK, NEW p \in Packets, NEW state \in LiveStates, Set(p, state)
    PROVE  live_state' \in [Packets -> LiveStates]
BY DEF LedgerTypeOK, Set

LEMMA StateNames == {"queued", "submitted", "open", "closing"} \cup Ended \subseteq LiveStates
BY DEF LiveStates

LEMMA LedgerSame == ASSUME LedgerTypeOK, UNCHANGED ledger PROVE LedgerTypeOK'
BY DEF LedgerTypeOK, ledger

LEMMA BrokerSame == ASSUME BrokerTypeOK, UNCHANGED brokerVars PROVE BrokerTypeOK'
BY DEF BrokerTypeOK, brokerVars

LEMMA CycleSame == ASSUME CycleTypeOK, UNCHANGED cycle PROVE CycleTypeOK'
BY DEF CycleTypeOK, cycle

LEMMA ForgetType == Forget => CycleTypeOK' /\ SlotLeft' /\ Holding'
<1>1. 0 \in 0..MaxSlots
  OBVIOUS
<1> QED
  BY <1>1, NoSnapType DEF Forget, CycleTypeOK, SlotLeft, Holding, NoKind

LEMMA ReadingType ==
    ASSUME CycleTypeOK
    PROVE  /\ snap.managed \subseteq Packets /\ snap.day \in 1..MaxDay /\ snap.phase \in Phases
           /\ \A p \in Packets : SnapPosition(p) \in Int
BY DEF CycleTypeOK, Readings, SnapPosition

(* The loops handle one row at a time. *)
LEMMA OneCurrent ==
    ASSUME LedgerTypeOK, NEW p \in Packets, NEW q \in Packets, Current(p), Current(q)
    PROVE  p = q
BY DEF Current, Before, LedgerTypeOK

(* Placing the protective pair, whatever part of it the broker ends up with. *)
LEMMA PlaceType ==
    ASSUME TypeInv, NEW p \in Packets, Current(p), NEW q \in Nat, q > 0, q = SnapPosition(p),
           NEW next \in {"protected", "repaired"},
           PlaceProtective(p, q, next), UNCHANGED <<position, held, day, phase, cancels>>
    PROVE  TypeInv'
<1> USE DEF TypeInv, TypeOK
<1>1. orders' \in [Packets -> [Kinds -> Order]]
  <2>1. {"STOP"} \in SUBSET Kinds /\ {"STOP", "TARGET"} \in SUBSET Kinds
    BY DEF Kinds
  <2>2. /\ WithProtection(p, q, {"STOP", "TARGET"}) \in [Packets -> [Kinds -> Order]]
        /\ WithProtection(p, q, {"STOP"}) \in [Packets -> [Kinds -> Order]]
    BY <2>1, OrderOps
  <2> QED
    BY <2>2 DEF PlaceProtective, BrokerTypeOK
<1>2. BrokerTypeOK'
  BY <1>1 DEF BrokerTypeOK
<1>3. CASE /\ Goto(next)
           /\ UNCHANGED <<ledger, connected, todo, snap, gate, reopened, sent, window, slots, faults>>
  <2>1. CycleTypeOK' /\ SlotLeft'
    BY <1>3 DEF Goto, CycleTypeOK, SlotLeft
  <2>2. ASSUME NEW x \in Packets, Current(x)' PROVE x = p
    <3>1. Current(x)
      BY <1>3, <2>2 DEF Current, Before, ledger
    <3> QED
      BY <3>1, OneCurrent
  <2>3. SnapPosition(p)' = q
    BY <1>3 DEF SnapPosition
  <2>4. Holding'
    BY <2>2, <2>3 DEF Holding
  <2> QED
    BY <1>2, <1>3, <2>1, <2>4, LedgerSame
<1>4. CASE /\ faults < MaxFaults /\ faults' = faults + 1 /\ connected' \in BOOLEAN
           /\ Forget /\ UNCHANGED ledger
  BY <1>2, <1>4, ForgetType, LedgerSame
<1>5. CASE Raise
  BY <1>2, <1>5, ForgetType, LedgerSame DEF Raise
<1> QED
  BY <1>3, <1>4, <1>5 DEF PlaceProtective

LEMMA NextType == ASSUME TypeInv, [Next]_vars PROVE TypeInv'
<1> USE DEF TypeInv, TypeOK
<1>1. CASE Connect
  BY <1>1, BrokerSame, LedgerSame, CycleSame, OrderOps DEF Connect, BrokerTypeOK, SlotLeft, Holding, Current, Before, SnapPosition, ledger, cycle
<1>2. CASE StartHeld
  BY <1>2, BrokerSame, LedgerSame, CycleSame, ReadingType DEF StartHeld, Goto, CycleTypeOK, SlotLeft, Holding
<1>3. CASE EndCycle
  BY <1>3, BrokerSame, LedgerSame, CycleSame, ForgetType DEF EndCycle, Goto
<1>4. ASSUME NEW p \in Packets, StillWaiting(p) PROVE TypeInv'
  BY <1>4, BrokerSame, LedgerSame, CycleSame DEF StillWaiting, Done, CycleTypeOK, SlotLeft, Holding
<1>5. ASSUME NEW p \in Packets, CancelRemainder(p) PROVE TypeInv'
  <2>1. BrokerTypeOK'
    BY <1>5, OrderOps DEF CancelRemainder, BrokerTypeOK
  <2>2. CycleTypeOK' /\ SlotLeft'
    BY <1>5 DEF CancelRemainder, Goto, CycleTypeOK, SlotLeft
  <2>3. ASSUME NEW x \in Packets, Current(x)' PROVE x = p
    <3>1. Current(x)
      BY <1>5, <2>3 DEF CancelRemainder, Current, Before, ledger
    <3> QED
      BY <1>5, <3>1, OneCurrent DEF CancelRemainder
  <2>4. SnapPosition(p)' > 0
    BY <1>5 DEF CancelRemainder, SnapPosition
  <2>5. Holding'
    BY <2>3, <2>4 DEF Holding
  <2> QED
    BY <1>5, <2>1, <2>2, <2>5, LedgerSame DEF CancelRemainder
<1>6. ASSUME NEW p \in Packets, ProtectionFails(p) PROVE TypeInv'
  BY <1>6, BrokerSame, LedgerSame, CycleSame, ForgetType DEF ProtectionFails, Raise
<1>7. ASSUME NEW p \in Packets, Flatten(p) PROVE TypeInv'
  BY <1>7, BrokerSame, LedgerSame, CycleSame DEF Flatten, Goto, TimedKinds, CycleTypeOK, SlotLeft, Holding
<1>8. ASSUME NEW p \in Packets, CommitRepair(p) PROVE TypeInv'
  BY <1>8, BrokerSame, LedgerSame, CycleSame DEF CommitRepair, Goto, NextRow, Done, CycleTypeOK, SlotLeft, Holding
<1>9. ASSUME NEW p \in Packets, LeaveAlone(p) PROVE TypeInv'
  BY <1>9, BrokerSame, LedgerSame, CycleSame DEF LeaveAlone, Managing, NextRow, Done, CycleTypeOK, SlotLeft, Holding
<1>10. ASSUME NEW p \in Packets, NotYet(p) PROVE TypeInv'
  BY <1>10, BrokerSame, LedgerSame, CycleSame DEF NotYet, Done, CycleTypeOK, SlotLeft, Holding
<1>11. ASSUME NEW p \in Packets, ChooseExit(p) PROVE TypeInv'
  BY <1>11, BrokerSame, LedgerSame, CycleSame DEF ChooseExit, Goto, TimedKinds, CycleTypeOK, SlotLeft, Holding
<1>12. CASE Clock
  BY <1>12, BrokerSame, LedgerSame, CycleSame, TickType DEF Clock, SlotLeft, Holding, Current, Before, SnapPosition, ledger, cycle
<1>13. CASE Broker
  BY <1>13, BrokerSame, LedgerSame, CycleSame, BrokerStepType DEF Broker, SlotLeft, Holding, Current, Before, SnapPosition, ledger, cycle
<1>14. ASSUME NEW p \in Packets, EntryEndsUnfilled(p) PROVE TypeInv'
  <2>1. LedgerTypeOK'
    BY <1>14, SetType, StateNames, ReadingType DEF EntryEndsUnfilled, Ended, LedgerTypeOK
  <2>2. CycleTypeOK' /\ SlotLeft' /\ Holding'
    BY <1>14 DEF EntryEndsUnfilled, Done, CycleTypeOK, SlotLeft, Holding
  <2> QED
    BY <1>14, <2>1, <2>2, BrokerSame DEF EntryEndsUnfilled
<1>15. ASSUME NEW p \in Packets, ReopenTimed(p) PROVE TypeInv'
  <2>1. LedgerTypeOK'
    BY <1>15, SetType, StateNames, ReadingType DEF ReopenTimed, TimedLost, LedgerTypeOK
  <2>2. CycleTypeOK' /\ SlotLeft' /\ Holding'
    BY <1>15 DEF ReopenTimed, Set, CycleTypeOK, SlotLeft, Holding
  <2> QED
    BY <1>15, <2>1, <2>2, BrokerSame DEF ReopenTimed
<1>16. ASSUME NEW p \in Packets, Close(p) PROVE TypeInv'
  <2>1. LedgerTypeOK'
    BY <1>16, SetType, StateNames, ReadingType DEF Close, Ended, LedgerTypeOK
  <2>2. CycleTypeOK' /\ SlotLeft' /\ Holding'
    BY <1>16 DEF Close, Managing, NextRow, Done, CycleTypeOK, SlotLeft, Holding
  <2> QED
    BY <1>16, <2>1, <2>2, BrokerSame DEF Close
<1>17. ASSUME NEW p \in Packets, Suppress(p) PROVE TypeInv'
  <2>1. LedgerTypeOK'
    BY <1>17, SetType, StateNames, ReadingType DEF Suppress, Ended, LedgerTypeOK
  <2>2. CycleTypeOK' /\ SlotLeft' /\ Holding'
    BY <1>17 DEF Suppress, Done, CycleTypeOK, SlotLeft, Holding
  <2> QED
    BY <1>17, <2>1, <2>2, BrokerSame DEF Suppress
<1>18. ASSUME NEW p \in Packets, MissBoundary(p) PROVE TypeInv'
  <2>1. LedgerTypeOK'
    BY <1>18, SetType, StateNames, ReadingType DEF MissBoundary, Ended, LedgerTypeOK
  <2>2. CycleTypeOK' /\ SlotLeft' /\ Holding'
    BY <1>18 DEF MissBoundary, Done, CycleTypeOK, SlotLeft, Holding
  <2> QED
    BY <1>18, <2>1, <2>2, BrokerSame DEF MissBoundary
<1>19. ASSUME NEW p \in Packets, FixExitSession(p) PROVE TypeInv'
  <2>1. LedgerTypeOK'
    BY <1>19, SetType, StateNames, ReadingType DEF FixExitSession, Done, LedgerTypeOK
  <2>2. CycleTypeOK' /\ SlotLeft' /\ Holding'
    BY <1>19 DEF FixExitSession, Goto, CycleTypeOK, SlotLeft, Holding
  <2> QED
    BY <1>19, <2>1, <2>2, BrokerSame DEF FixExitSession
<1>20. ASSUME NEW p \in Packets, Discover(p) PROVE TypeInv'
  <2>1. LedgerTypeOK'
    BY <1>20, SetType, StateNames, ReadingType DEF Discover, BrokerTypeOK, LedgerTypeOK
  <2>2. CycleTypeOK' /\ SlotLeft' /\ Holding'
    BY <1>20, CycleSame DEF Discover, cycle, SlotLeft, Holding
  <2> QED
    BY <1>20, <2>1, <2>2, BrokerSame DEF Discover
<1>21. CASE CycleFails
  <2>1. CycleTypeOK' /\ SlotLeft' /\ Holding'
    BY <1>21, ForgetType DEF CycleFails
  <2>2. faults' \in 0..MaxFaults
    BY <1>21 DEF CycleFails
  <2>3. connected' \in BOOLEAN
    BY <1>21 DEF CycleFails
  <2> QED
    BY <1>21, <2>1, <2>2, <2>3, BrokerSame, LedgerSame DEF CycleFails
<1>22. ASSUME NEW p \in Packets, CommitProtection(p) PROVE TypeInv'
  <2>1. SnapPosition(p) \in Nat /\ "open" \in LiveStates
    BY <1>22, ReadingType DEF CommitProtection, Holding, LiveStates
  <2>2. \A e \in ComputedExits(p) : e \in Nat
    BY DEF ComputedExits, NoSession, LedgerTypeOK
  <2>3. live_state' \in [Packets -> LiveStates]
    BY <1>22, <2>1, SetType DEF CommitProtection
  <2>4. live_quantity' \in [Packets -> Nat] /\ live_exit_session' \in [Packets -> Nat]
    BY <1>22, <2>1, <2>2 DEF CommitProtection, LedgerTypeOK
  <2>5. LedgerTypeOK'
    BY <1>22, <2>3, <2>4 DEF CommitProtection, LedgerTypeOK
  <2>6. CycleTypeOK' /\ SlotLeft' /\ Holding'
    BY <1>22 DEF CommitProtection, Done, Goto, CycleTypeOK, SlotLeft, Holding
  <2> QED
    BY <1>22, <2>5, <2>6, BrokerSame DEF CommitProtection
<1>23. ASSUME NEW p \in Packets, Protect(p) PROVE TypeInv'
  <2>1. SnapPosition(p) \in Nat /\ SnapPosition(p) > 0
    BY <1>23, ReadingType DEF Protect, Holding
  <2> QED
    BY <1>23, <2>1, PlaceType DEF Protect
<1>24. ASSUME NEW p \in Packets, Repair(p) PROVE TypeInv'
  <2>1. SnapPosition(p) \in Nat /\ SnapPosition(p) > 0
    BY <1>24, ReadingType DEF Repair, Unprotected
  <2> QED
    BY <1>24, <2>1, PlaceType DEF Repair, Managing
<1>25. CASE BeginCycle
  <2>1. LedgerTypeOK'
    BY <1>25, StateNames DEF BeginCycle, LedgerTypeOK, AdoptedExit, AcceptedTimed, PreferredExit,
                             TimedKinds
  <2>2. snap' \in Readings
    BY <1>25 DEF BeginCycle, Readings, BrokerTypeOK
  <2>3. CycleTypeOK' /\ SlotLeft' /\ Holding'
    BY <1>25, <2>2 DEF BeginCycle, Goto, CycleTypeOK, SlotLeft, Holding
  <2> QED
    BY <1>25, <2>1, <2>3, BrokerSame DEF BeginCycle
<1>26. CASE StartExits
  <2>1. LedgerTypeOK'
    BY <1>26, StateNames DEF StartExits, LedgerTypeOK, Ended
  <2>2. [NoSnap EXCEPT !.day = snap.day, !.phase = snap.phase] \in Readings
    BY NoSnapType, ReadingType DEF Readings
  <2>3. CycleTypeOK' /\ SlotLeft' /\ Holding'
    BY <1>26, <2>2 DEF StartExits, Goto, CycleTypeOK, SlotLeft, Holding
  <2> QED
    BY <1>26, <2>1, <2>3, BrokerSame DEF StartExits
<1>27. CASE StartEntries
  <2>1. LedgerTypeOK'
    BY <1>27, StateNames DEF StartEntries, LedgerTypeOK, Ended
  <2>2. slots' \in 0..MaxSlots
    BY <1>27, CapacityType DEF StartEntries
  <2>3. CycleTypeOK' /\ SlotLeft' /\ Holding'
    BY <1>27, <2>2 DEF StartEntries, Goto, CycleTypeOK, SlotLeft, Holding, DueToday, Rows
  <2> QED
    BY <1>27, <2>1, <2>3, BrokerSame DEF StartEntries
<1>28. ASSUME NEW p \in Packets, SendExit(p) PROVE TypeInv'
  <2>1. CASE ~Sendable(p)
    BY <1>28, <2>1, ForgetType, LedgerSame DEF SendExit, Raise, BrokerTypeOK
  <2>2. CASE Sendable(p)
    <3>1. sent \in Kinds => WithOrder(p, sent, SendQuantity(p)) \in [Packets -> [Kinds -> Order]]
      <4>1. SendQuantity(p) \in Int
        BY ReadingType DEF SendQuantity, LedgerTypeOK
      <4>2. CASE SendQuantity(p) > 0
        BY <4>1, <4>2, OrderOps
      <4>3. CASE Accepted(orders[p][sent])
        BY <4>3 DEF WithOrder, BrokerTypeOK
      <4> QED
        BY <2>2, <4>1, <4>2, <4>3 DEF Sendable, Sellable
    <3>2. sent \notin Kinds => WithOrder(p, sent, SendQuantity(p)) = orders
      BY DEF WithOrder, BrokerTypeOK
    <3>3. orders' = WithOrder(p, sent, SendQuantity(p))
      BY <1>28, <2>2 DEF SendExit
    <3>4. orders' \in [Packets -> [Kinds -> Order]]
      BY <3>1, <3>2, <3>3 DEF BrokerTypeOK
    <3> QED
      BY <1>28, <2>2, <3>4, LedgerSame
         DEF SendExit, Raise, Goto, BrokerTypeOK, CycleTypeOK, SlotLeft, Holding
  <2> QED
    BY <2>1, <2>2
<1>29. ASSUME NEW p \in Packets, CommitExit(p) PROVE TypeInv'
  <2>1. CASE Raise
    BY <1>29, <2>1, ForgetType, LedgerSame, BrokerSame DEF CommitExit, Raise
  <2>2. CASE ~Raise
    <3>1. LedgerTypeOK'
      BY <1>29, <2>2, SetType, StateNames DEF CommitExit, LedgerTypeOK, CycleTypeOK
    <3>2. CycleTypeOK' /\ SlotLeft' /\ Holding'
      BY <1>29, <2>2 DEF CommitExit, Done, Goto, CycleTypeOK, SlotLeft, Holding, NoKind
    <3> QED
      BY <1>29, <2>2, <3>1, <3>2, BrokerSame DEF CommitExit
  <2> QED
    BY <2>1, <2>2
<1>30. ASSUME NEW p \in Packets, SendEntry(p) PROVE TypeInv'
  <2>1. CASE ~CalendarGate
    BY <1>30, <2>1, ForgetType, LedgerSame DEF SendEntry, Raise, BrokerTypeOK
  <2>2. CASE CalendarGate
    <3>1. orders' \in [Packets -> [Kinds -> Order]]
      BY <1>30, <2>2, OrderOps DEF SendEntry, Kinds
    <3> QED
      BY <1>30, <2>2, <3>1, LedgerSame
         DEF SendEntry, Goto, BrokerTypeOK, CycleTypeOK, SlotLeft, Holding
  <2> QED
    BY <2>1, <2>2
<1>31. ASSUME NEW p \in Packets, CommitEntry(p) PROVE TypeInv'
  <2>1. CASE Raise
    BY <1>31, <2>1, ForgetType, LedgerSame, BrokerSame DEF CommitEntry, Raise
  <2>2. CASE ~Raise
    <3>1. LedgerTypeOK'
      BY <1>31, <2>2, SetType, StateNames DEF CommitEntry, LedgerTypeOK
    <3>2. CycleTypeOK' /\ SlotLeft' /\ Holding'
      BY <1>31, <2>2 DEF CommitEntry, Done, Goto, CycleTypeOK, SlotLeft, Holding
    <3> QED
      BY <1>31, <2>2, <3>1, <3>2, BrokerSame DEF CommitEntry
  <2> QED
    BY <2>1, <2>2
<1>32. CASE UNCHANGED vars
  BY <1>32, BrokerSame, LedgerSame, CycleSame
     DEF vars, SlotLeft, Holding, Current, Before, SnapPosition, ledger, cycle
<1> QED
  BY <1>1, <1>2, <1>3, <1>4, <1>5, <1>6, <1>7, <1>8, <1>9, <1>10, <1>11, <1>12, <1>13, <1>14, <1>15, <1>16, <1>17, <1>18, <1>19, <1>20, <1>21, <1>22, <1>23, <1>24, <1>25, <1>26, <1>27, <1>28, <1>29, <1>30, <1>31, <1>32 DEF Next, Runner

(* Every variable keeps holding values of its kind, through every crash, and  *)
(* no cycle has more slots to give than max_live_slots.                       *)
THEOREM TypeCorrect == Spec => []TypeOK
<1>1. TypeInv => TypeOK
  BY DEF TypeInv
<1> QED
  BY <1>1, InitType, NextType, PTL DEF Spec

----------------------------------------------------------------------------
(* The exit session.  ExitSessionSet is inductive together with what a cycle  *)
(* holds in memory: the rows it manages have their session, the rows it is    *)
(* about to buy are still queued, and the one being bought has its session.   *)
Assigned == pc \notin {"entries", "buy", "bought"} =>
              \A p \in todo \cup snap.managed : live_exit_session[p] # NoSession
StillQueued == pc \in {"entries", "buy", "bought"} => \A p \in todo : live_state[p] = "queued"
Fixed == pc \in {"buy", "bought"} =>
           \A p \in Packets : Current(p) => live_exit_session[p] # NoSession
SessionInv == TypeInv /\ ExitSessionSet /\ Assigned /\ StillQueued /\ Fixed

Holders == {"submitted", "open", "closing"}
Buying  == {"entries", "buy", "bought"}

(* What a step that buys nothing may do to entry orders and to the cycle. *)
NoNewEntry == \A p \in Packets :
                /\ Ordered(orders'[p]["ENTRY"]) => Ordered(orders[p]["ENTRY"])
                /\ Accepted(orders'[p]["ENTRY"]) => Accepted(orders[p]["ENTRY"])
QuietCycle == \/ UNCHANGED <<pc, todo, snap>>
              \/ /\ pc' \notin Buying
                 /\ \/ todo' = {} /\ snap'.managed = {}
                    \/ pc \notin Buying /\ todo' \cup snap'.managed \subseteq todo \cup snap.managed
QuietRows == \A p \in Packets :
               /\ live_exit_session[p] # NoSession => live_exit_session'[p] # NoSession
               /\ live_state'[p] \in Holders =>
                      live_state[p] \in Holders \/ live_exit_session'[p] # NoSession

LEMMA SetKept == ASSUME ExitSessionSet, NoNewEntry, QuietRows PROVE ExitSessionSet'
BY DEF ExitSessionSet, NoNewEntry, QuietRows, Holders, Ordered

LEMMA QuietStep ==
    ASSUME SessionInv, NoNewEntry, QuietCycle,
           UNCHANGED <<live_state, live_exit_session, entry_session>>
    PROVE  ExitSessionSet' /\ Assigned' /\ StillQueued' /\ Fixed'
<1> USE DEF SessionInv
<1>1. ExitSessionSet'
  BY SetKept DEF QuietRows
<1>2. CASE UNCHANGED <<pc, todo, snap>>
  BY <1>1, <1>2 DEF Assigned, StillQueued, Fixed, Current, Before
<1>3. CASE /\ pc' \notin Buying
           /\ \/ todo' = {} /\ snap'.managed = {}
              \/ pc \notin Buying /\ todo' \cup snap'.managed \subseteq todo \cup snap.managed
  BY <1>1, <1>3 DEF Assigned, StillQueued, Fixed, Buying
<1> QED
  BY <1>2, <1>3 DEF QuietCycle

LEMMA ForgetQuiet == Forget => QuietCycle
BY DEF Forget, QuietCycle, Buying, NoSnap

(* Only SendEntry places an entry order. *)
LEMMA EntryOps ==
    ASSUME BrokerTypeOK, NEW x \in Packets
    PROVE  /\ Ordered(Resynced[x]["ENTRY"]) => Ordered(orders[x]["ENTRY"])
           /\ Accepted(Resynced[x]["ENTRY"]) => Accepted(orders[x]["ENTRY"])
           /\ \A p \in Packets :
                /\ Ordered(WithCancel(p)[x]["ENTRY"]) => Ordered(orders[x]["ENTRY"])
                /\ Accepted(WithCancel(p)[x]["ENTRY"]) => Accepted(orders[x]["ENTRY"])
           /\ \A p \in Packets, k \in Kinds \ {"ENTRY"}, q \in Int :
                   WithOrder(p, k, q)[x]["ENTRY"] = orders[x]["ENTRY"]
           /\ \A p \in Packets, q \in Int, kinds \in SUBSET (Kinds \ {"ENTRY"}) :
                   WithProtection(p, q, kinds)[x]["ENTRY"] = orders[x]["ENTRY"]
<1> USE DEF BrokerTypeOK
<1>1. "ENTRY" \in Kinds
  BY DEF Kinds
<1>2. /\ Ordered(Resynced[x]["ENTRY"]) => Ordered(orders[x]["ENTRY"])
      /\ Accepted(Resynced[x]["ENTRY"]) => Accepted(orders[x]["ENTRY"])
  BY <1>1 DEF Resynced, Ordered, Accepted, Working, NoOrder
<1>3. ASSUME NEW p \in Packets
      PROVE  /\ Ordered(WithCancel(p)[x]["ENTRY"]) => Ordered(orders[x]["ENTRY"])
             /\ Accepted(WithCancel(p)[x]["ENTRY"]) => Accepted(orders[x]["ENTRY"])
  <2>1. orders[x]["ENTRY"] \in Order /\ orders[p]["ENTRY"] \in Order
    BY <1>1
  <2> QED
    BY <1>1, <2>1 DEF WithCancel, Ordered, Accepted, Working, Order
<1>4. ASSUME NEW p \in Packets, NEW k \in Kinds \ {"ENTRY"}, NEW q \in Int
      PROVE  WithOrder(p, k, q)[x]["ENTRY"] = orders[x]["ENTRY"]
  BY <1>1 DEF WithOrder
<1>5. ASSUME NEW p \in Packets, NEW q \in Int, NEW kinds \in SUBSET (Kinds \ {"ENTRY"})
      PROVE  WithProtection(p, q, kinds)[x]["ENTRY"] = orders[x]["ENTRY"]
  BY <1>1 DEF WithProtection
<1> QED
  BY <1>2, <1>3, <1>4, <1>5

LEMMA BrokerNoNewEntry ==
    ASSUME BrokerTypeOK, NEW p \in Packets,
           \/ EntryFill(p) \/ CancelTakesEffect(p)
           \/ \E k \in ExitKinds : ExitFill(p, k)
           \/ \E k \in Kinds : BrokerCancel(p, k)
    PROVE  NoNewEntry
<1> SUFFICES ASSUME NEW x \in Packets
             PROVE  /\ Ordered(orders'[x]["ENTRY"]) => Ordered(orders[x]["ENTRY"])
                    /\ Accepted(orders'[x]["ENTRY"]) => Accepted(orders[x]["ENTRY"])
  BY DEF NoNewEntry
<1> USE DEF BrokerTypeOK, Ordered, Accepted, Working, Cancelled, Executed, Order
<1>e. "ENTRY" \in Kinds /\ ExitKinds \subseteq Kinds
  BY DEF Kinds, ExitKinds
<1>1. CASE EntryFill(p)
  BY <1>1, <1>e DEF EntryFill
<1>2. CASE CancelTakesEffect(p)
  BY <1>2, <1>e DEF CancelTakesEffect
<1>3. ASSUME NEW k \in ExitKinds, ExitFill(p, k) PROVE orders'[x]["ENTRY"] = orders[x]["ENTRY"]
  <2>1. k # "ENTRY" /\ "ENTRY" \notin OcaKinds
    BY DEF OcaKinds, ExitKinds
  <2>2. PICK n \in 1..(orders[p][k].qty - orders[p][k].filled) :
          orders' = [orders EXCEPT ![p] = [j \in Kinds |->
                       IF j = k THEN Executed(orders[p][k], n)
                       ELSE IF {j, k} \subseteq OcaKinds /\ orders[p][j].status \in Working
                            THEN Cancelled(orders[p][j]) ELSE orders[p][j]]]
    BY <1>3 DEF ExitFill
  <2> HIDE DEF Executed, Cancelled, Working
  <2> QED
    BY <1>e, <2>1, <2>2
<1>4. ASSUME NEW k \in Kinds, BrokerCancel(p, k)
      PROVE  /\ Ordered(orders'[x]["ENTRY"]) => Ordered(orders[x]["ENTRY"])
             /\ Accepted(orders'[x]["ENTRY"]) => Accepted(orders[x]["ENTRY"])
  BY <1>4, <1>e DEF BrokerCancel
<1> QED
  BY <1>1, <1>2, <1>3, <1>4

LEMMA TickNoNewEntry == ASSUME BrokerTypeOK, Tick PROVE NoNewEntry
<1>1. "ENTRY" \in Kinds
  BY DEF Kinds
<1>2. \A o \in Order : [o EXCEPT !.today = FALSE].status = o.status
  BY DEF Order
<1> QED
  BY <1>1, <1>2 DEF Tick, NoNewEntry, Ordered, Accepted, Cancelled, BrokerTypeOK, Working, Order

LEMMA PlaceNoNewEntry ==
    ASSUME TypeInv, NEW p \in Packets, NEW q \in Int, NEW next \in {"protected", "repaired"},
           pc \in {"submitted", "protect", "held"}, PlaceProtective(p, q, next)
    PROVE  /\ NoNewEntry /\ QuietCycle
           /\ UNCHANGED <<live_state, live_exit_session, entry_session>>
<1>1. {"STOP"} \in SUBSET (Kinds \ {"ENTRY"}) /\ {"STOP", "TARGET"} \in SUBSET (Kinds \ {"ENTRY"})
  BY DEF Kinds
<1>2. NoNewEntry
  <2>1. ASSUME NEW x \in Packets
        PROVE  /\ WithProtection(p, q, {"STOP"})[x]["ENTRY"] = orders[x]["ENTRY"]
               /\ WithProtection(p, q, {"STOP", "TARGET"})[x]["ENTRY"] = orders[x]["ENTRY"]
    BY <1>1, EntryOps DEF TypeInv, TypeOK
  <2> QED
    BY <2>1 DEF PlaceProtective, NoNewEntry
<1>3. QuietCycle
  BY ForgetQuiet DEF PlaceProtective, Goto, Raise, QuietCycle, Buying
<1> QED
  BY <1>2, <1>3 DEF PlaceProtective, Raise, ledger

LEMMA ExitKeepsEntries ==
    ASSUME SessionInv, NEW p \in Packets, Sendable(p), SendExit(p) PROVE NoNewEntry
<1>b. BrokerTypeOK /\ LedgerTypeOK /\ CycleTypeOK
  BY DEF SessionInv, TypeInv, TypeOK
<1>1. SendQuantity(p) \in Int
  BY <1>b, ReadingType DEF SendQuantity, LedgerTypeOK
<1>2. \A x \in Packets : WithOrder(p, sent, SendQuantity(p))[x]["ENTRY"] = orders[x]["ENTRY"]
  <2>1. CASE sent \in TimedKinds
    <3>1. sent \in Kinds \ {"ENTRY"}
      BY <2>1 DEF TimedKinds, Kinds
    <3> QED
      BY <1>b, <1>1, <3>1, EntryOps
  <2>2. CASE sent = NoKind
    <3>1. "ENTRY" \in Kinds /\ NoKind # "ENTRY"
      BY DEF Kinds, NoKind
    <3> QED
      BY <1>b, <2>2, <3>1 DEF WithOrder, BrokerTypeOK
  <2> QED
    BY <1>b, <2>1, <2>2 DEF CycleTypeOK
<1> QED
  BY <1>2 DEF SendExit, NoNewEntry

LEMMA NextSession == ASSUME SessionInv, [Next]_vars PROVE SessionInv'
<1>t. TypeInv'
  BY NextType DEF SessionInv
<1>b. BrokerTypeOK /\ LedgerTypeOK /\ CycleTypeOK
  BY DEF SessionInv, TypeInv, TypeOK
<1>u. UNCHANGED orders => NoNewEntry
  BY DEF NoNewEntry
<1> SUFFICES ExitSessionSet' /\ Assigned' /\ StillQueued' /\ Fixed'
  BY <1>t DEF SessionInv
<1>q. ASSUME NoNewEntry, QuietCycle,
             UNCHANGED <<live_state, live_exit_session, entry_session>>
      PROVE  ExitSessionSet' /\ Assigned' /\ StillQueued' /\ Fixed'
  BY <1>q, QuietStep
<1>s. ASSUME NoNewEntry, QuietRows PROVE ExitSessionSet'
  BY <1>s, SetKept DEF SessionInv
<1>f. ASSUME Raise, NoNewEntry PROVE ExitSessionSet' /\ Assigned' /\ StillQueued' /\ Fixed'
  BY <1>f, <1>q, ForgetQuiet DEF Raise, ledger
<1>1. CASE Connect
  <2>1. NoNewEntry
    BY <1>1, <1>b, EntryOps DEF Connect, NoNewEntry
  <2> QED
    BY <1>1, <2>1, <1>q DEF Connect, QuietCycle, ledger, cycle
<1>2. CASE StartHeld
  BY <1>2, <1>u, <1>q DEF StartHeld, Goto, QuietCycle, Buying, brokerVars, ledger
<1>3. CASE EndCycle
  BY <1>3, <1>u, <1>q, ForgetQuiet DEF EndCycle, brokerVars, ledger
<1>4. ASSUME NEW p \in Packets,
             \/ StillWaiting(p) \/ Flatten(p) \/ CommitRepair(p) \/ LeaveAlone(p)
             \/ NotYet(p) \/ ChooseExit(p)
      PROVE  ExitSessionSet' /\ Assigned' /\ StillQueued' /\ Fixed'
  <2>1. NoNewEntry /\ UNCHANGED ledger
    BY <1>4, <1>u DEF StillWaiting, Flatten, CommitRepair, LeaveAlone, NotYet, ChooseExit, brokerVars
  <2>2. QuietCycle
    BY <1>4 DEF StillWaiting, Flatten, CommitRepair, LeaveAlone, NotYet, ChooseExit, Managing,
                NextRow, Done, Goto, QuietCycle, Buying
  <2> QED
    BY <2>1, <2>2, <1>q DEF ledger
<1>5. ASSUME NEW p \in Packets, CancelRemainder(p)
      PROVE  ExitSessionSet' /\ Assigned' /\ StillQueued' /\ Fixed'
  <2>1. NoNewEntry
    BY <1>5, <1>b, EntryOps DEF CancelRemainder, NoNewEntry
  <2> QED
    BY <1>5, <2>1, <1>q DEF CancelRemainder, Goto, QuietCycle, Buying, ledger
<1>6. ASSUME NEW p \in Packets, ProtectionFails(p)
      PROVE  ExitSessionSet' /\ Assigned' /\ StillQueued' /\ Fixed'
  BY <1>6, <1>u, <1>f DEF ProtectionFails, brokerVars
<1>7. ASSUME NEW p \in Packets, Protect(p) \/ Repair(p)
      PROVE  ExitSessionSet' /\ Assigned' /\ StillQueued' /\ Fixed'
  <2>1. SnapPosition(p) \in Int
    BY <1>b, ReadingType
  <2> QED
    BY <1>7, <2>1, <1>q, PlaceNoNewEntry DEF Protect, Repair, Managing, SessionInv
<1>8. ASSUME NEW p \in Packets, SendExit(p)
      PROVE  ExitSessionSet' /\ Assigned' /\ StillQueued' /\ Fixed'
  <2>1. CASE ~Sendable(p)
    BY <1>8, <2>1, <1>u, <1>f DEF SendExit
  <2>2. CASE Sendable(p)
    BY <1>8, <2>2, <1>q, ExitKeepsEntries DEF SendExit, Goto, QuietCycle, Buying, ledger
  <2> QED
    BY <2>1, <2>2
<1>9. CASE CycleFails
  BY <1>9, <1>u, <1>q, ForgetQuiet DEF CycleFails, brokerVars, ledger
<1>10. CASE Clock
  BY <1>10, <1>b, <1>q, TickNoNewEntry DEF Clock, QuietCycle, ledger, cycle
<1>11. CASE Broker
  BY <1>11, <1>b, <1>q, BrokerNoNewEntry DEF Broker, QuietCycle, ledger, cycle
<1>12. ASSUME NEW p \in Packets, Discover(p)
       PROVE  ExitSessionSet' /\ Assigned' /\ StillQueued' /\ Fixed'
  <2>1. QuietRows /\ NoNewEntry
    BY <1>12, <1>b, <1>u DEF Discover, Set, QuietRows, Holders, LedgerTypeOK, brokerVars
  <2>2. Assigned' /\ StillQueued' /\ Fixed'
    BY <1>12 DEF Discover, cycle, Assigned, StillQueued, Fixed, SessionInv
  <2> QED
    BY <2>1, <2>2, <1>s
<1>13. ASSUME BeginCycle PROVE ExitSessionSet' /\ Assigned' /\ StillQueued' /\ Fixed'
  <2>1. \A p \in Packets : live_state'[p] \in Holders => live_exit_session[p] # NoSession
    BY <1>13, <1>b DEF BeginCycle, AdoptedEntry, AdoptedExit, Accepted, Working, Ordered,
                       Holders, SessionInv, ExitSessionSet, LedgerTypeOK
  <2>2. QuietRows /\ NoNewEntry
    BY <1>13, <1>u, <2>1 DEF BeginCycle, QuietRows, brokerVars
  <2>3. /\ pc' = "submitted"
        /\ \A p \in todo' \cup snap'.managed : live_exit_session'[p] # NoSession
    BY <1>13, <2>1 DEF BeginCycle, Goto, Holders
  <2> QED
    BY <1>s, <2>2, <2>3 DEF Assigned, StillQueued, Fixed
<1>14. ASSUME NEW p \in Packets, EntryEndsUnfilled(p) \/ ReopenTimed(p) \/ Close(p)
       PROVE  ExitSessionSet' /\ Assigned' /\ StillQueued' /\ Fixed'
  <2>1. live_exit_session[p] # NoSession
    BY <1>14 DEF EntryEndsUnfilled, ReopenTimed, Close, Managing, Current, SessionInv, Assigned
  <2>2. QuietRows /\ NoNewEntry
    BY <1>14, <1>b, <1>u, <2>1 DEF EntryEndsUnfilled, ReopenTimed, Close, Set, QuietRows,
                                   Holders, LedgerTypeOK, brokerVars
  <2>3. /\ pc \notin Buying /\ pc' = pc
        /\ todo' \subseteq todo /\ UNCHANGED <<snap, live_exit_session>>
    BY <1>14 DEF EntryEndsUnfilled, ReopenTimed, Close, Managing, NextRow, Done, Buying
  <2>4. Assigned' /\ StillQueued' /\ Fixed'
    BY <2>3 DEF Assigned, StillQueued, Fixed, Buying, SessionInv
  <2> QED
    BY <1>s, <2>2, <2>4
<1>15. ASSUME NEW p \in Packets, CommitProtection(p)
       PROVE  ExitSessionSet' /\ Assigned' /\ StillQueued' /\ Fixed'
  <2>1. live_exit_session[p] # NoSession
    BY <1>15 DEF CommitProtection, Current, SessionInv, Assigned
  <2>2. UNCHANGED live_exit_session
    BY <1>15, <1>b, <2>1 DEF CommitProtection, LedgerTypeOK
  <2>3. QuietRows /\ NoNewEntry
    BY <1>15, <1>b, <1>u, <2>1, <2>2 DEF CommitProtection, Set, QuietRows, Holders,
                                         LedgerTypeOK, brokerVars
  <2>4. Assigned' /\ StillQueued' /\ Fixed'
    BY <1>15, <2>2 DEF CommitProtection, Done, Goto, Assigned, StillQueued, Fixed, SessionInv
  <2> QED
    BY <1>s, <2>3, <2>4
<1>16. CASE StartExits
  <2>1. QuietRows /\ NoNewEntry
    BY <1>16, <1>b, <1>u DEF StartExits, QuietRows, Holders, LedgerTypeOK, brokerVars
  <2>2. \A p \in todo' : live_exit_session'[p] # NoSession
    BY <1>16, <1>b, ReadingType DEF StartExits, ExitDue, NoSession
  <2>3. snap'.managed = {} /\ pc' = "exits"
    BY <1>16 DEF StartExits, NoSnap, Goto
  <2> QED
    BY <1>s, <2>1, <2>2, <2>3 DEF Assigned, StillQueued, Fixed
<1>17. ASSUME NEW p \in Packets, CommitExit(p)
       PROVE  ExitSessionSet' /\ Assigned' /\ StillQueued' /\ Fixed'
  <2>1. live_exit_session[p] # NoSession
    BY <1>17 DEF CommitExit, Current, SessionInv, Assigned
  <2>2. CASE Raise
    BY <1>17, <1>u, <1>f, <2>2 DEF CommitExit, brokerVars
  <2>3. CASE ~Raise
    <3>1. QuietRows /\ NoNewEntry
      BY <1>17, <1>b, <1>u, <2>1, <2>3 DEF CommitExit, Set, QuietRows, Holders, LedgerTypeOK,
                                           brokerVars
    <3>2. Assigned' /\ StillQueued' /\ Fixed'
      BY <1>17, <2>3 DEF CommitExit, Done, Goto, Assigned, StillQueued, Fixed, SessionInv
    <3> QED
      BY <1>s, <3>1, <3>2
  <2> QED
    BY <2>2, <2>3
<1>18. CASE StartEntries
  <2>1. QuietRows /\ NoNewEntry
    BY <1>18, <1>b, <1>u DEF StartEntries, QuietRows, Holders, LedgerTypeOK, brokerVars
  <2>2. \A p \in todo' : live_state'[p] = "queued"
    BY <1>18, <1>b DEF StartEntries, DueToday, Rows, LedgerTypeOK, CycleTypeOK, Readings
  <2>3. pc' = "entries"
    BY <1>18 DEF StartEntries, Goto
  <2> QED
    BY <1>s, <2>1, <2>2, <2>3 DEF Assigned, StillQueued, Fixed
<1>19. ASSUME NEW p \in Packets, Suppress(p) \/ MissBoundary(p)
       PROVE  ExitSessionSet' /\ Assigned' /\ StillQueued' /\ Fixed'
  <2>1. QuietRows /\ NoNewEntry
    BY <1>19, <1>b, <1>u DEF Suppress, MissBoundary, Set, QuietRows, Holders, LedgerTypeOK,
                             brokerVars
  <2>2. pc = "entries" /\ pc' = "entries" /\ todo' \subseteq todo
    BY <1>19 DEF Suppress, MissBoundary, Done
  <2>3. \A x \in todo' : live_state'[x] = "queued"
    BY <1>19, <1>b DEF Suppress, MissBoundary, Done, Set, SessionInv, StillQueued, CycleTypeOK,
                       LedgerTypeOK
  <2> QED
    BY <1>s, <2>1, <2>2, <2>3 DEF Assigned, StillQueued, Fixed
<1>20. ASSUME NEW p \in Packets, FixExitSession(p)
       PROVE  ExitSessionSet' /\ Assigned' /\ StillQueued' /\ Fixed'
  <2>1. snap.day + MaxSessions - 1 # NoSession
    BY <1>b, ReadingType DEF NoSession
  <2>2. QuietRows /\ NoNewEntry
    BY <1>20, <1>b, <1>u, <2>1 DEF FixExitSession, QuietRows, Holders, LedgerTypeOK, brokerVars
  <2>3. ASSUME NEW x \in Packets, Current(x)' PROVE live_exit_session'[x] # NoSession
    <3>1. Current(x)
      BY <1>20, <2>3 DEF FixExitSession, Current, Before
    <3>2. x = p
      BY <1>20, <1>b, <3>1, OneCurrent DEF FixExitSession
    <3> QED
      BY <1>20, <1>b, <2>1, <3>2 DEF FixExitSession, LedgerTypeOK
  <2>4. Assigned' /\ StillQueued'
    BY <1>20 DEF FixExitSession, Goto, Assigned, StillQueued, SessionInv
  <2> QED
    BY <1>s, <2>2, <2>3, <2>4 DEF Fixed
<1>21. ASSUME NEW p \in Packets, SendEntry(p)
       PROVE  ExitSessionSet' /\ Assigned' /\ StillQueued' /\ Fixed'
  <2>1. CASE ~CalendarGate
    BY <1>21, <1>u, <1>f, <2>1 DEF SendEntry
  <2>2. CASE CalendarGate
    <3>1. live_exit_session[p] # NoSession
      BY <1>21 DEF SendEntry, SessionInv, Fixed
    <3>2. \A x \in Packets \ {p} : orders'[x] = orders[x]
      BY <1>21, <1>b, <2>2 DEF SendEntry, WithOrder, BrokerTypeOK
    <3>3. ExitSessionSet'
      BY <1>21, <2>2, <3>1, <3>2 DEF SendEntry, ledger, SessionInv, ExitSessionSet
    <3>4. Assigned' /\ StillQueued' /\ Fixed'
      BY <1>21, <2>2 DEF SendEntry, Goto, ledger, Assigned, StillQueued, Fixed, Current, Before,
                         SessionInv
    <3> QED
      BY <3>3, <3>4
  <2> QED
    BY <2>1, <2>2
<1>22. ASSUME NEW p \in Packets, CommitEntry(p)
       PROVE  ExitSessionSet' /\ Assigned' /\ StillQueued' /\ Fixed'
  <2>1. CASE Raise
    BY <1>22, <1>u, <1>f, <2>1 DEF CommitEntry, brokerVars
  <2>2. CASE ~Raise
    <3>1. live_exit_session[p] # NoSession
      BY <1>22 DEF CommitEntry, SessionInv, Fixed
    <3>2. QuietRows /\ NoNewEntry
      BY <1>22, <1>b, <1>u, <2>2, <3>1 DEF CommitEntry, Set, QuietRows, Holders, LedgerTypeOK,
                                           brokerVars
    <3>3. pc' = "entries" /\ todo' = todo \ {p} /\ pc \in Buying
      BY <1>22, <2>2 DEF CommitEntry, Done, Goto, Buying
    <3>4. \A x \in todo' : live_state'[x] = "queued"
      BY <1>22, <1>b, <2>2, <3>3 DEF CommitEntry, Set, SessionInv, StillQueued, Buying,
                                     CycleTypeOK, LedgerTypeOK
    <3> QED
      BY <1>s, <3>2, <3>3, <3>4 DEF Assigned, StillQueued, Fixed
  <2> QED
    BY <2>1, <2>2
<1>23. CASE UNCHANGED vars
  BY <1>23, <1>u, <1>q DEF vars, brokerVars, ledger, cycle, QuietCycle
<1> QED
  BY <1>1, <1>2, <1>3, <1>4, <1>5, <1>6, <1>7, <1>8, <1>9, <1>10, <1>11, <1>12, <1>13, <1>14,
     <1>15, <1>16, <1>17, <1>18, <1>19, <1>20, <1>21, <1>22, <1>23 DEF Next, Runner

LEMMA InitSession == Init => SessionInv
BY InitType, SMT DEF Init, BrokerInit, NoOrder, NoSnap, SessionInv, ExitSessionSet, Assigned,
                StillQueued, Fixed, Ordered, Kinds

(* Every entry order the broker has accepted, and every row that may hold     *)
(* shares, has its exit session on record, whatever crashes in between.       *)
THEOREM ExitSessionRecorded == Spec => []ExitSessionSet
<1>1. SessionInv => ExitSessionSet
  BY DEF SessionInv
<1> QED
  BY <1>1, InitSession, NextSession, PTL DEF Spec

(* The session a position is to be sold in never moves once the row is        *)
(* active: no cycle, and no calendar that disagrees, can postpone the exit.   *)
THEOREM ExitSessionFixed == Spec => ExitSessionKept
<1>1. ASSUME SessionInv, [Next]_vars
      PROVE  [\A p \in Active : live_exit_session'[p] = live_exit_session[p]]_vars
  <2> SUFFICES ASSUME Next, NEW p \in Active PROVE live_exit_session'[p] = live_exit_session[p]
    BY <1>1 DEF vars
  <2>b. LedgerTypeOK /\ p \in Packets /\ live_state[p] \in Holders
    BY <1>1 DEF SessionInv, TypeInv, TypeOK, Active, Rows, Holders
  <2>1. ASSUME NEW x \in Packets, CommitProtection(x)
        PROVE  live_exit_session' = live_exit_session
    <3>1. live_exit_session[x] # NoSession
      BY <1>1, <2>1 DEF CommitProtection, Current, SessionInv, Assigned
    <3> QED
      BY <2>1, <2>b, <3>1 DEF CommitProtection, LedgerTypeOK
  <2>2. ASSUME NEW x \in Packets, FixExitSession(x)
        PROVE  live_exit_session'[p] = live_exit_session[p]
    <3>1. live_state[x] = "queued"
      BY <1>1, <2>2 DEF FixExitSession, Current, SessionInv, StillQueued
    <3> QED
      BY <2>2, <2>b, <3>1 DEF FixExitSession, Holders, LedgerTypeOK
  <2>3. \/ \E x \in Packets : CommitProtection(x) \/ FixExitSession(x)
        \/ UNCHANGED live_exit_session
    BY <1>1 DEF Next, Runner, Connect, BeginCycle, StartHeld, StartExits, StartEntries, EndCycle,
           StillWaiting, EntryEndsUnfilled, CancelRemainder, Protect, Repair, PlaceProtective,
           ProtectionFails, ReopenTimed, Close, Flatten, CommitRepair, LeaveAlone, NotYet,
           ChooseExit, SendExit, CommitExit, Suppress, MissBoundary, SendEntry, CommitEntry,
           Clock, Broker, CycleFails, Discover, Raise, ledger
  <2> QED
    BY <2>1, <2>2, <2>3
<1> QED
  BY <1>1, InitSession, NextSession, PTL DEF Spec, ExitSessionKept

----------------------------------------------------------------------------
(* Sales.  When packets have symbols of their own, NeverShort is inductive    *)
(* together with: no working exit could sell more than the position.          *)
Apart == \A p, q \in Packets : Symbol[p] = Symbol[q] => p = q
CoveredIn(table) ==
    \A p \in Packets : \A k \in ExitKinds :
        table[p][k].status \in Working => Remaining(table[p][k]) <= position[Symbol[p]]
SaleInv == TypeInv /\ NeverShort /\ CoveredIn(orders)

(* No order method leaves a working exit larger than the position.            *)
LEMMA CoveredOps ==
    ASSUME BrokerTypeOK, CoveredIn(orders), NEW p \in Packets
    PROVE  /\ CoveredIn(Resynced)
           /\ CoveredIn(WithCancel(p))
           /\ \A q \in Int : CoveredIn(WithOrder(p, "ENTRY", q))
           /\ \A k \in ExitKinds, q \in Int :
                   Accepted(orders[p][k]) \/ Sellable(p, q) => CoveredIn(WithOrder(p, k, q))
           /\ \A q \in Int, kinds \in SUBSET {"STOP", "TARGET"} :
                   ~Refused(p, q) => CoveredIn(WithProtection(p, q, kinds))
<1> USE DEF BrokerTypeOK, CoveredIn
<1>k. "ENTRY" \in Kinds /\ ExitKinds = Kinds \ {"ENTRY"} /\ {"STOP", "TARGET"} \subseteq ExitKinds
  BY DEF Kinds, ExitKinds
<1>n. ASSUME NEW q \in Int PROVE Remaining(NewOrder(q)) = q
  BY DEF NewOrder, NoOrder, Remaining
<1>1. CoveredIn(Resynced)
  BY <1>k DEF Resynced, NoOrder, Working
<1>2. CoveredIn(WithCancel(p))
  BY <1>k DEF WithCancel
<1>3. ASSUME NEW q \in Int PROVE CoveredIn(WithOrder(p, "ENTRY", q))
  BY <1>k DEF WithOrder
<1>4. ASSUME NEW k \in ExitKinds, NEW q \in Int, Accepted(orders[p][k]) \/ Sellable(p, q)
      PROVE  CoveredIn(WithOrder(p, k, q))
  <2>1. CASE Accepted(orders[p][k])
    BY <1>k, <2>1 DEF WithOrder
  <2>2. CASE ~Accepted(orders[p][k]) /\ q <= position[Symbol[p]]
    BY <1>k, <1>n, <2>2 DEF WithOrder
  <2> QED
    BY <1>4, <2>1, <2>2 DEF Sellable
<1>5. ASSUME NEW q \in Int, NEW kinds \in SUBSET {"STOP", "TARGET"}, ~Refused(p, q)
      PROVE  CoveredIn(WithProtection(p, q, kinds))
  <2>1. CASE {orders[p]["STOP"].status, orders[p]["TARGET"].status} \subseteq Working
    BY <1>k, <2>1 DEF WithProtection
  <2>2. CASE q <= position[Symbol[p]]
    BY <1>k, <1>n, <2>2 DEF WithProtection
  <2> QED
    BY <1>5, <2>1, <2>2 DEF Refused, Sellable
<1> QED
  BY <1>1, <1>2, <1>3, <1>4, <1>5

(* An execution of an exit takes from the position what it takes from the     *)
(* order, and ends the other exits of the packet.                             *)
LEMMA SaleCovered ==
    ASSUME Apart, BrokerTypeOK, NeverShort, CoveredIn(orders),
           NEW p \in Packets, NEW k \in ExitKinds, ExitFill(p, k)
    PROVE  NeverShort' /\ CoveredIn(orders)'
<1> USE DEF BrokerTypeOK
<1>k. ExitKinds \subseteq Kinds /\ Symbol[p] \in Symbols
  BY DEF Kinds, ExitKinds
<1>1. PICK n \in 1..(orders[p][k].qty - orders[p][k].filled) :
          /\ orders' = [orders EXCEPT ![p] = [j \in Kinds |->
                  IF j = k THEN Executed(orders[p][k], n)
                  ELSE IF {j, k} \subseteq OcaKinds /\ orders[p][j].status \in Working
                       THEN Cancelled(orders[p][j]) ELSE orders[p][j]]]
          /\ position' = [position EXCEPT ![Symbol[p]] = @ - n]
  BY DEF ExitFill
<1>2. orders[p][k] \in Order /\ orders[p][k].status \in Working
  BY <1>k DEF ExitFill
<1>3. orders[p][k].qty - orders[p][k].filled <= position[Symbol[p]]
  BY <1>2 DEF CoveredIn, Remaining
<1>4. n <= position[Symbol[p]] /\ position'[Symbol[p]] = position[Symbol[p]] - n
  BY <1>k, <1>1, <1>2, <1>3 DEF Order
<1>5. NeverShort'
  BY <1>k, <1>1, <1>4 DEF NeverShort
<1>6. ASSUME NEW x \in Packets, NEW j \in ExitKinds, orders'[x][j].status \in Working
      PROVE  Remaining(orders'[x][j]) <= position'[Symbol[x]]
  <2>1. CASE x # p
    <3>1. Symbol[x] # Symbol[p] /\ Symbol[x] \in Symbols
      BY <2>1 DEF Apart
    <3>2. orders'[x] = orders[x] /\ position'[Symbol[x]] = position[Symbol[x]]
      BY <1>1, <2>1, <3>1
    <3> QED
      BY <1>6, <3>2 DEF CoveredIn
  <2>2. CASE x = p /\ j = k
    <3>1. orders'[x][j] = Executed(orders[p][k], n)
      BY <1>k, <1>1, <2>2
    <3>2. Remaining(Executed(orders[p][k], n)) = orders[p][k].qty - orders[p][k].filled - n
      BY <1>2 DEF Executed, Remaining, Order
    <3> QED
      BY <1>2, <1>3, <1>4, <2>2, <3>1, <3>2 DEF Order
  <2>3. CASE x = p /\ j # k
    <3>1. orders'[x][j].status \notin Working
      <4>1. orders[p][j] \in Order
        BY <1>k
      <4>2. Cancelled(orders[p][j]).status = "cancelled"
        BY <4>1 DEF Cancelled, Order
      <4> QED
        BY <1>k, <1>1, <2>3, <4>2 DEF OcaKinds, Working
    <3> QED
      BY <1>6, <3>1
  <2> QED
    BY <2>1, <2>2, <2>3
<1> QED
  BY <1>5, <1>6 DEF CoveredIn

LEMMA BrokerCovered ==
    ASSUME Apart, BrokerTypeOK, NeverShort, CoveredIn(orders), Broker
    PROVE  NeverShort' /\ CoveredIn(orders)'
<1> USE DEF BrokerTypeOK
<1>k. "ENTRY" \in Kinds /\ ExitKinds = Kinds \ {"ENTRY"}
  BY DEF Kinds, ExitKinds
<1>1. ASSUME NEW p \in Packets, EntryFill(p) PROVE NeverShort' /\ CoveredIn(orders)'
  <2>0. orders[p]["ENTRY"] \in Order
    BY <1>k
  <2>1. PICK n \in 1..(orders[p]["ENTRY"].qty - orders[p]["ENTRY"].filled) :
            /\ position' = [position EXCEPT ![Symbol[p]] = @ + n]
            /\ orders' = [orders EXCEPT ![p]["ENTRY"] = Executed(orders[p]["ENTRY"], n)]
    BY <1>1 DEF EntryFill
  <2>2. \A s \in Symbols : position'[s] >= position[s]
    BY <2>0, <2>1 DEF Order
  <2>3. \A x \in Packets, k \in ExitKinds : orders'[x][k] = orders[x][k]
    BY <1>k, <2>1
  <2>4. NeverShort'
    BY <2>1, <2>2 DEF NeverShort
  <2>5. ASSUME NEW x \in Packets, NEW k \in ExitKinds, orders'[x][k].status \in Working
        PROVE  Remaining(orders'[x][k]) <= position'[Symbol[x]]
    <3>1. Symbol[x] \in Symbols /\ orders[x][k] \in Order
      BY <1>k
    <3>2. position'[Symbol[x]] \in Int
      BY <2>0, <2>1, <3>1 DEF Order
    <3> QED
      BY <2>2, <2>3, <2>5, <3>1, <3>2 DEF CoveredIn, Remaining, Order
  <2> QED
    BY <2>4, <2>5 DEF CoveredIn
<1>2. ASSUME NEW p \in Packets, CancelTakesEffect(p) PROVE NeverShort' /\ CoveredIn(orders)'
  BY <1>k, <1>2 DEF CancelTakesEffect, NeverShort, CoveredIn
<1>3. ASSUME NEW p \in Packets, NEW k \in Kinds, BrokerCancel(p, k)
      PROVE  NeverShort' /\ CoveredIn(orders)'
  <2>1. orders[p][k] \in Order /\ Cancelled(orders[p][k]).status \notin Working
    BY DEF Cancelled, Order, Working
  <2> QED
    BY <1>k, <1>3, <2>1 DEF BrokerCancel, NeverShort, CoveredIn
<1> QED
  BY <1>1, <1>2, <1>3, SaleCovered DEF Broker

LEMMA TickCovered ==
    ASSUME BrokerTypeOK, CoveredIn(orders), Tick
    PROVE  UNCHANGED position /\ CoveredIn(orders')
<1> USE DEF BrokerTypeOK
<1>1. ExitKinds \subseteq Kinds
  BY DEF ExitKinds
<1>2. \A o \in Order : /\ [o EXCEPT !.today = FALSE].status = o.status
                       /\ Cancelled(o).status \notin Working
  BY DEF Order, Cancelled, Working
<1> QED
  BY <1>1, <1>2 DEF Tick, CoveredIn, Working

LEMMA NextSale == ASSUME Apart, SaleInv, [Next]_vars PROVE SaleInv'
<1>t. TypeInv'
  BY NextType DEF SaleInv
<1>b. BrokerTypeOK /\ LedgerTypeOK /\ CycleTypeOK /\ CoveredIn(orders) /\ NeverShort
  BY DEF SaleInv, TypeInv, TypeOK
<1>o. ASSUME UNCHANGED position, CoveredIn(orders') PROVE SaleInv'
  BY <1>o, <1>t, <1>b DEF SaleInv, NeverShort, CoveredIn
<1>u. ASSUME UNCHANGED <<position, orders>> PROVE SaleInv'
  BY <1>u, <1>o, <1>b DEF CoveredIn
<1>1. CASE Connect
  <2>1. ASSUME NEW p \in Packets PROVE CoveredIn(Resynced)
    BY <1>b, CoveredOps
  <2>2. CoveredIn(Resynced)
    BY <2>1 DEF CoveredIn
  <2> QED
    BY <1>1, <1>o, <2>2 DEF Connect
<1>2. ASSUME NEW p \in Packets, CancelRemainder(p) PROVE SaleInv'
  BY <1>2, <1>b, <1>o, CoveredOps DEF CancelRemainder
<1>3. ASSUME NEW p \in Packets, Protect(p) \/ Repair(p) PROVE SaleInv'
  <2>1. UNCHANGED position /\ SnapPosition(p) \in Int
    BY <1>3, <1>b, ReadingType DEF Protect, Repair
  <2>2. \E next \in {"protected", "repaired"} : PlaceProtective(p, SnapPosition(p), next)
    BY <1>3 DEF Protect, Repair
  <2>3. CASE Refused(p, SnapPosition(p))
    BY <2>1, <2>2, <2>3, <1>u DEF PlaceProtective
  <2>4. CASE ~Refused(p, SnapPosition(p))
    <3>1. /\ CoveredIn(WithProtection(p, SnapPosition(p), {"STOP"}))
          /\ CoveredIn(WithProtection(p, SnapPosition(p), {"STOP", "TARGET"}))
      BY <1>b, <2>1, <2>4, CoveredOps
    <3> QED
      BY <2>1, <2>2, <2>4, <3>1, <1>o DEF PlaceProtective
  <2> QED
    BY <2>3, <2>4
<1>4. ASSUME NEW p \in Packets, SendExit(p) PROVE SaleInv'
  <2>1. CASE ~Sendable(p)
    BY <1>4, <1>u, <2>1 DEF SendExit
  <2>2. CASE Sendable(p)
    <3>1. SendQuantity(p) \in Int
      BY <1>b, ReadingType DEF SendQuantity, LedgerTypeOK
    <3>2. CASE sent \in TimedKinds
      <4>1. sent \in ExitKinds
        BY <3>2 DEF TimedKinds, ExitKinds, Kinds
      <4> QED
        BY <1>4, <1>b, <1>o, <2>2, <3>1, <4>1, CoveredOps DEF SendExit, Sendable
    <3>3. CASE sent = NoKind
      <4>1. NoKind \notin Kinds
        BY DEF Kinds, NoKind
      <4>2. WithOrder(p, sent, SendQuantity(p)) = orders
        BY <1>b, <3>3, <4>1 DEF WithOrder, BrokerTypeOK
      <4> QED
        BY <1>4, <1>u, <2>2, <4>2 DEF SendExit
    <3> QED
      BY <1>b, <3>2, <3>3 DEF CycleTypeOK
  <2> QED
    BY <2>1, <2>2
<1>5. ASSUME NEW p \in Packets, SendEntry(p) PROVE SaleInv'
  BY <1>5, <1>b, <1>o, <1>u, CoveredOps DEF SendEntry
<1>6. CASE Clock
  BY <1>6, <1>b, <1>o, TickCovered DEF Clock
<1>7. CASE Broker
  BY <1>7, <1>t, <1>b, BrokerCovered DEF SaleInv
<1>8. CASE UNCHANGED brokerVars
  BY <1>8, <1>u DEF brokerVars
<1>9. \/ Connect \/ Clock \/ Broker \/ UNCHANGED brokerVars
      \/ \E p \in Packets : \/ CancelRemainder(p) \/ Protect(p) \/ Repair(p)
                            \/ SendExit(p) \/ SendEntry(p)
  BY DEF vars, Next, Runner, BeginCycle, StartHeld, StartExits, StartEntries, EndCycle, StillWaiting,
         EntryEndsUnfilled, CommitProtection, ProtectionFails, ReopenTimed, Close, Flatten,
         CommitRepair, LeaveAlone, NotYet, ChooseExit, CommitExit, Suppress, MissBoundary,
         FixExitSession, CommitEntry, CycleFails, Discover
<1> QED
  BY <1>1, <1>2, <1>3, <1>4, <1>5, <1>6, <1>7, <1>8, <1>9

LEMMA InitSale == Init => SaleInv
<1>1. Init => NeverShort /\ CoveredIn(orders)
  BY DEF Init, BrokerInit, NeverShort, CoveredIn, NoOrder, Working, ExitKinds
<1> QED
  BY <1>1, InitType DEF SaleInv

(* Packets with symbols of their own never sell a share the account does not  *)
(* hold, whatever fills while exits are placed, replaced and adopted: every   *)
(* exit is in the group its packet shares, and is no larger than the position.*)
THEOREM NeverShortApart == Apart /\ Spec => []NeverShort
<1>1. SaleInv => NeverShort
  BY DEF SaleInv
<1>2. Apart /\ SaleInv /\ [Next]_vars => SaleInv'
  BY NextSale
<1>3. CASE Apart
  <2>1. SaleInv /\ [Next]_vars => SaleInv'
    BY <1>2, <1>3
  <2> QED
    BY <1>1, <2>1, InitSale, PTL DEF Spec
<1>4. CASE ~Apart
  BY <1>4
<1> QED
  BY <1>3, <1>4

----------------------------------------------------------------------------
(* One row per symbol.  The owner of a symbol is an active row, or a queued   *)
(* one whose entry the broker accepted before a crash.  Owners keep apart     *)
(* because a cycle that buys has adopted every such row first, and buys only  *)
(* symbols without an owner, one row each.                                    *)
Owner(p) == p \in Active \/ Orphan(p)
OwnersApart == \A p, q \in Packets : Owner(p) /\ Owner(q) /\ Symbol[p] = Symbol[q] => p = q
BuysApart == pc \in Buying =>
    \A p \in todo : \A q \in Packets :
        (q \in todo \/ Owner(q)) /\ Symbol[p] = Symbol[q] => p = q
AdoptedFirst == pc # "idle" => \A p \in Packets : Orphan(p) => pc = "bought" /\ Current(p)
NeverOrdered == \A p \in Packets : live_state[p] = "absent" => ~Accepted(orders[p]["ENTRY"])
OwnersInv == OwnersApart /\ BuysApart /\ AdoptedFirst /\ NeverOrdered

(* Outside the entry loop a cycle only handles rows that are active.          *)
First   == {"submitted", "protect", "protected"}
Managed == /\ pc \notin Buying => todo \subseteq Active
           /\ pc \in First => snap.managed \subseteq Active \ todo

LEMMA InitManaged == Init => Managed
BY DEF Init, Managed, First

LEMMA ForgetManaged == Forget => Managed'
BY DEF Forget, Managed, First, NoSnap

LEMMA NextManaged == ASSUME SessionInv, Managed, [Next]_vars PROVE Managed'
<1>b. LedgerTypeOK /\ CycleTypeOK
  BY DEF SessionInv, TypeInv, TypeOK
<1> USE DEF Active, Rows
<1>1. CASE Forget
  BY <1>1, ForgetManaged
<1>2. ASSUME UNCHANGED <<live_state, pc, todo, snap>> PROVE Managed'
  BY <1>2 DEF Managed
<1>3. ASSUME UNCHANGED <<live_state, snap>>, pc \notin Buying, pc' \in First => pc \in First,
             todo' \subseteq todo
      PROVE  Managed'
  BY <1>3 DEF Managed
<1>4. CASE Connect \/ Clock \/ Broker \/ UNCHANGED vars
  BY <1>4, <1>2 DEF Connect, Clock, Broker, vars, cycle, ledger
<1>5. CASE EndCycle \/ CycleFails
  BY <1>5, <1>1 DEF EndCycle, CycleFails
<1>6. CASE StartHeld
  BY <1>6 DEF StartHeld, Goto, ledger, Managed, First, Buying
<1>7. CASE BeginCycle
  BY <1>7 DEF BeginCycle, Goto, Managed, First
<1>8. CASE StartExits
  BY <1>8, <1>b DEF StartExits, ExitDue, Vanished, Goto, Managed, First, LedgerTypeOK
<1>9. ASSUME NEW p \in Packets,
             \/ StillWaiting(p) \/ Flatten(p) \/ CommitRepair(p) \/ LeaveAlone(p)
             \/ NotYet(p) \/ ChooseExit(p) \/ CancelRemainder(p)
      PROVE  Managed'
  BY <1>9, <1>3 DEF StillWaiting, Flatten, CommitRepair, LeaveAlone, NotYet, ChooseExit,
                    CancelRemainder, Managing, NextRow, Done, Goto, ledger, First, Buying
<1>10. ASSUME NEW p \in Packets, ProtectionFails(p) PROVE Managed'
  BY <1>10, <1>1 DEF ProtectionFails, Raise
<1>11. ASSUME NEW p \in Packets, Protect(p) \/ Repair(p) PROVE Managed'
  <2>1. CASE Forget
    BY <2>1, <1>1
  <2>2. CASE ~Forget
    BY <1>11, <2>2, <1>3 DEF Protect, Repair, PlaceProtective, Raise, Managing, Goto, ledger,
                             First, Buying
  <2> QED
    BY <2>1, <2>2
<1>12. ASSUME NEW p \in Packets, SendExit(p) PROVE Managed'
  <2>1. CASE Forget
    BY <2>1, <1>1
  <2>2. CASE ~Forget
    BY <1>12, <2>2, <1>3 DEF SendExit, Raise, Goto, ledger, First, Buying
  <2> QED
    BY <2>1, <2>2
<1>13. ASSUME NEW p \in Packets, EntryEndsUnfilled(p) PROVE Managed'
  BY <1>13, <1>b DEF EntryEndsUnfilled, Current, Set, Done, Managed, First, Buying, LedgerTypeOK
<1>14. ASSUME NEW p \in Packets, CommitProtection(p) PROVE Managed'
  BY <1>14, <1>b DEF CommitProtection, Current, Set, Done, Goto, Managed, First, Buying,
                     LedgerTypeOK
<1>15. ASSUME NEW p \in Packets, ReopenTimed(p) \/ Close(p) PROVE Managed'
  BY <1>15, <1>b DEF ReopenTimed, Close, Managing, NextRow, Current, Set, Done, Managed, First,
                     Buying, LedgerTypeOK
<1>16. ASSUME NEW p \in Packets, CommitExit(p) PROVE Managed'
  <2>1. CASE Forget
    BY <2>1, <1>1
  <2>2. CASE ~Forget
    BY <1>16, <1>b, <2>2 DEF CommitExit, Raise, Current, Set, Done, Goto, Managed, First, Buying,
                             LedgerTypeOK
  <2> QED
    BY <2>1, <2>2
<1>17. CASE StartEntries
  BY <1>17 DEF StartEntries, Goto, Managed, First, Buying
<1>18. ASSUME NEW p \in Packets,
              \/ Suppress(p) \/ MissBoundary(p) \/ FixExitSession(p) \/ SendEntry(p)
              \/ CommitEntry(p)
       PROVE  Managed'
  <2>1. CASE Forget
    BY <2>1, <1>1
  <2>2. CASE ~Forget
    BY <1>18, <2>2 DEF Suppress, MissBoundary, FixExitSession, SendEntry, CommitEntry, Raise,
                       Goto, Managed, First, Buying
  <2> QED
    BY <2>1, <2>2
<1>19. ASSUME NEW p \in Packets, Discover(p) PROVE Managed'
  BY <1>19, <1>b DEF Discover, Set, cycle, Managed, First, Buying, LedgerTypeOK
<1> QED
  BY <1>4, <1>5, <1>6, <1>7, <1>8, <1>9, <1>10, <1>11, <1>12, <1>13, <1>14, <1>15, <1>16, <1>17,
     <1>18, <1>19 DEF Next, Runner

(* A step that makes no owner and starts no entry keeps the owners apart.     *)
QuietOwners == \A p \in Packets :
    /\ p \in Active' => p \in Active
    /\ live_state'[p] = "queued" => live_state[p] = "queued"
    /\ live_state'[p] = "absent" => live_state[p] = "absent"
QuietTurn == \/ pc' = "idle"
             \/ pc \notin Buying \cup {"idle"} /\ pc' \notin Buying
             \/ pc \in {"entries", "buy"} /\ pc' \in {"entries", "buy"} /\ todo' \subseteq todo
             \/ UNCHANGED <<pc, todo, entry_session>>

LEMMA QuietOwnersStep == ASSUME OwnersInv, NoNewEntry, QuietOwners, QuietTurn PROVE OwnersInv'
<1> USE DEF OwnersInv
<1>1. \A p \in Packets : (Orphan(p)' => Orphan(p)) /\ (Owner(p)' => Owner(p))
  BY DEF NoNewEntry, QuietOwners, Orphan, Owner
<1>2. OwnersApart' /\ NeverOrdered'
  BY <1>1 DEF OwnersApart, NeverOrdered, NoNewEntry, QuietOwners
<1>3. BuysApart'
  BY <1>1 DEF BuysApart, QuietTurn, Buying
<1>4. AdoptedFirst'
  BY <1>1 DEF AdoptedFirst, QuietTurn, Buying, Current, Before
<1> QED
  BY <1>2, <1>3, <1>4

LEMMA NextOwners == ASSUME SessionInv, Managed, OwnersInv, [Next]_vars PROVE OwnersInv'
<1>b. BrokerTypeOK /\ LedgerTypeOK /\ CycleTypeOK
  BY DEF SessionInv, TypeInv, TypeOK
<1>u. UNCHANGED orders => NoNewEntry
  BY DEF NoNewEntry
<1>l. UNCHANGED live_state => QuietOwners
  BY DEF QuietOwners, Active, Rows
<1>q. ASSUME NoNewEntry, QuietOwners, QuietTurn PROVE OwnersInv'
  BY <1>q, QuietOwnersStep
<1>f. ASSUME Forget, NoNewEntry, UNCHANGED live_state PROVE OwnersInv'
  BY <1>f, <1>l, <1>q DEF Forget, QuietTurn
<1>1. CASE Connect
  <2>1. NoNewEntry
    BY <1>1, <1>b, EntryOps DEF Connect, NoNewEntry
  <2> QED
    BY <1>1, <2>1, <1>l, <1>q DEF Connect, QuietTurn, ledger, cycle
<1>2. CASE StartHeld
  BY <1>2, <1>u, <1>l, <1>q DEF StartHeld, Goto, QuietTurn, Buying, brokerVars, ledger
<1>3. CASE EndCycle \/ CycleFails
  BY <1>3, <1>u, <1>f DEF EndCycle, CycleFails, brokerVars, ledger
<1>4. ASSUME NEW p \in Packets,
             \/ StillWaiting(p) \/ Flatten(p) \/ CommitRepair(p) \/ LeaveAlone(p)
             \/ NotYet(p) \/ ChooseExit(p)
      PROVE  OwnersInv'
  <2>1. NoNewEntry /\ UNCHANGED live_state
    BY <1>4, <1>u DEF StillWaiting, Flatten, CommitRepair, LeaveAlone, NotYet, ChooseExit,
                      brokerVars, ledger
  <2>2. pc \notin Buying \cup {"idle"} /\ pc' \notin Buying
    BY <1>4 DEF StillWaiting, Flatten, CommitRepair, LeaveAlone, NotYet, ChooseExit, Managing,
                Goto, Buying
  <2> QED
    BY <2>1, <2>2, <1>l, <1>q DEF QuietTurn
<1>5. ASSUME NEW p \in Packets, CancelRemainder(p) PROVE OwnersInv'
  <2>1. NoNewEntry
    BY <1>5, <1>b, EntryOps DEF CancelRemainder, NoNewEntry
  <2> QED
    BY <1>5, <2>1, <1>l, <1>q DEF CancelRemainder, Goto, QuietTurn, Buying, ledger
<1>6. ASSUME NEW p \in Packets, ProtectionFails(p) PROVE OwnersInv'
  BY <1>6, <1>u, <1>f DEF ProtectionFails, Raise, brokerVars, ledger
<1>7. ASSUME NEW p \in Packets, Protect(p) \/ Repair(p) PROVE OwnersInv'
  <2>1. SnapPosition(p) \in Int
    BY <1>b, ReadingType
  <2>2. NoNewEntry /\ UNCHANGED live_state
    BY <1>7, <2>1, PlaceNoNewEntry DEF Protect, Repair, Managing, SessionInv
  <2>3. QuietTurn
    BY <1>7 DEF Protect, Repair, PlaceProtective, Raise, Forget, Managing, Goto, QuietTurn, Buying
  <2> QED
    BY <2>2, <2>3, <1>l, <1>q
<1>8. ASSUME NEW p \in Packets, SendExit(p) PROVE OwnersInv'
  <2>1. CASE ~Sendable(p)
    BY <1>8, <2>1, <1>u, <1>f DEF SendExit, Raise, ledger
  <2>2. CASE Sendable(p)
    BY <1>8, <2>2, <1>b, <1>l, <1>q, ExitKeepsEntries DEF SendExit, Goto, QuietTurn, Buying, ledger
  <2> QED
    BY <2>1, <2>2
<1>10. CASE Clock
  BY <1>10, <1>b, <1>l, <1>q, TickNoNewEntry DEF Clock, QuietTurn, ledger, cycle
<1>11. CASE Broker
  BY <1>11, <1>b, <1>l, <1>q, BrokerNoNewEntry DEF Broker, QuietTurn, ledger, cycle
<1>12. ASSUME NEW p \in Packets, Discover(p) PROVE OwnersInv'
  <2>1. ~Accepted(orders[p]["ENTRY"])
    BY <1>12 DEF Discover, OwnersInv, NeverOrdered
  <2>2. \A x \in Packets : (Orphan(x)' => Orphan(x)) /\ (Owner(x)' => Owner(x))
    BY <1>12, <1>b, <2>1 DEF Discover, Set, Orphan, Owner, Active, Rows, brokerVars, LedgerTypeOK
  <2>3. \A x \in Packets : live_state'[x] = "absent" => live_state[x] = "absent"
    BY <1>12, <1>b DEF Discover, Set, LedgerTypeOK
  <2>4. pc' = "idle"
    BY <1>12 DEF Discover, cycle
  <2> QED
    BY <1>12, <2>2, <2>3, <2>4 DEF Discover, brokerVars, OwnersInv, OwnersApart, BuysApart,
                                   AdoptedFirst, NeverOrdered, Buying
<1>13. CASE BeginCycle
  <2>1. \A x \in Packets : x \in Active' => Owner(x)
    BY <1>13 DEF BeginCycle, AdoptedEntry, AdoptedExit, Active, Rows, Owner, Orphan
  <2>2. \A x \in Packets : ~Orphan(x)'
    BY <1>13 DEF BeginCycle, AdoptedEntry, AdoptedExit, Orphan, brokerVars
  <2>3. \A x \in Packets : live_state'[x] = "absent" => live_state[x] = "absent"
    BY <1>13 DEF BeginCycle
  <2>4. pc' = "submitted"
    BY <1>13 DEF BeginCycle, Goto
  <2> QED
    BY <1>13, <2>1, <2>2, <2>3, <2>4 DEF BeginCycle, brokerVars, Owner, OwnersInv, OwnersApart,
                                         BuysApart, AdoptedFirst, NeverOrdered, Buying
<1>14. ASSUME NEW p \in Packets,
              EntryEndsUnfilled(p) \/ ReopenTimed(p) \/ Close(p) \/ CommitProtection(p)
       PROVE  OwnersInv'
  <2>1. pc \notin Buying \cup {"idle"} /\ pc' \notin Buying
    BY <1>14 DEF EntryEndsUnfilled, ReopenTimed, Close, CommitProtection, Managing, Goto, Buying
  <2>2. p \in Active
    BY <1>14, <2>1 DEF EntryEndsUnfilled, ReopenTimed, Close, CommitProtection, Managing, Current,
                       Managed
  <2>3. QuietOwners /\ NoNewEntry
    BY <1>14, <1>b, <1>u, <2>2 DEF EntryEndsUnfilled, ReopenTimed, Close, CommitProtection, Set,
                                   QuietOwners, Active, Rows, LedgerTypeOK, brokerVars
  <2> QED
    BY <2>1, <2>3, <1>q DEF QuietTurn
<1>16. CASE StartExits
  <2>1. QuietOwners /\ NoNewEntry
    BY <1>16, <1>b, <1>u DEF StartExits, QuietOwners, Active, Rows, brokerVars
  <2> QED
    BY <1>16, <2>1, <1>q DEF StartExits, Goto, QuietTurn, Buying
<1>17. ASSUME NEW p \in Packets, CommitExit(p) PROVE OwnersInv'
  <2>1. CASE Raise
    BY <1>17, <1>u, <1>f, <2>1 DEF CommitExit, Raise, brokerVars, ledger
  <2>2. CASE ~Raise
    <3>1. p \in Active
      BY <1>17 DEF CommitExit, Current, Managed, Buying
    <3>2. QuietOwners /\ NoNewEntry
      BY <1>17, <1>b, <1>u, <2>2, <3>1 DEF CommitExit, Set, QuietOwners, Active, Rows,
                                           LedgerTypeOK, brokerVars
    <3>3. pc \notin Buying \cup {"idle"} /\ pc' \notin Buying
      BY <1>17, <2>2 DEF CommitExit, Goto, Buying
    <3> QED
      BY <3>2, <3>3, <1>q DEF QuietTurn
  <2> QED
    BY <2>1, <2>2
<1>18. CASE StartEntries
  <2>1. \A x \in Packets : ~Orphan(x)
    BY <1>18 DEF StartEntries, OwnersInv, AdoptedFirst
  <2>2. QuietOwners /\ NoNewEntry
    BY <1>18, <1>b, <1>u DEF StartEntries, QuietOwners, Active, Rows, brokerVars
  <2>3. /\ \A x \in Packets : ~Orphan(x)' /\ (Owner(x)' => x \in Active)
        /\ \A x \in Packets : live_state'[x] = "absent" => ~Accepted(orders'[x]["ENTRY"])
    BY <2>1, <2>2 DEF QuietOwners, NoNewEntry, Orphan, Owner, OwnersInv, NeverOrdered
  <2>4. OwnersApart'
    BY <2>3 DEF OwnersInv, OwnersApart, Owner
  <2>5. ASSUME NEW x \in todo', NEW y \in Packets, y \in todo' \/ Owner(y)', Symbol[x] = Symbol[y]
        PROVE  x = y
    <3>1. x \in DueToday /\ ~Overlaps(x) /\ x \in Packets
      BY <1>18, <2>5 DEF StartEntries, DueToday, Rows
    <3>2. y \in DueToday /\ ~Overlaps(y)
      BY <1>18, <2>3, <2>5, <3>1 DEF StartEntries, Overlaps
    <3>3. Rank[x] \in Nat /\ Rank[y] \in Nat /\ ~(Rank[x] < Rank[y]) /\ ~(Rank[y] < Rank[x])
      BY <2>5, <3>1, <3>2, CanaryAssumption DEF Overlaps
    <3> QED
      BY <3>1, <3>3, CanaryAssumption
  <2>6. pc' = "entries"
    BY <1>18 DEF StartEntries, Goto
  <2> QED
    BY <2>3, <2>4, <2>5, <2>6 DEF OwnersInv, BuysApart, AdoptedFirst, NeverOrdered
<1>19. ASSUME NEW p \in Packets, Suppress(p) \/ MissBoundary(p) \/ FixExitSession(p)
       PROVE  OwnersInv'
  <2>1. QuietOwners /\ NoNewEntry
    BY <1>19, <1>b, <1>u DEF Suppress, MissBoundary, FixExitSession, Set, QuietOwners, Active,
                             Rows, LedgerTypeOK, brokerVars
  <2>2. pc = "entries" /\ pc' \in {"entries", "buy"} /\ todo' \subseteq todo
    BY <1>19 DEF Suppress, MissBoundary, FixExitSession, Done, Goto
  <2> QED
    BY <2>1, <2>2, <1>q DEF QuietTurn
<1>21. ASSUME NEW p \in Packets, SendEntry(p) PROVE OwnersInv'
  <2>1. CASE ~CalendarGate
    BY <1>21, <1>u, <1>f, <2>1 DEF SendEntry, Raise, ledger
  <2>2. CASE CalendarGate
    <3>1. p \in todo /\ live_state[p] = "queued"
      BY <1>21 DEF SendEntry, Current, SessionInv, StillQueued
    <3>2. /\ pc = "buy" /\ pc' = "bought"
          /\ UNCHANGED <<live_state, todo, entry_session>>
          /\ \A x \in Packets \ {p} : orders'[x] = orders[x]
      BY <1>21, <1>b, <2>2 DEF SendEntry, WithOrder, BrokerTypeOK, Goto, ledger
    <3>3. \A x \in Packets \ {p} : ~Orphan(x)' /\ (Owner(x)' => Owner(x))
      BY <3>2 DEF OwnersInv, AdoptedFirst, Orphan, Owner, Active, Rows
    <3>4. \A y \in Packets : (y \in todo \/ Owner(y)) /\ Symbol[p] = Symbol[y] => p = y
      BY <3>1, <3>2 DEF OwnersInv, BuysApart, Buying
    <3>5. OwnersApart'
      BY <3>3, <3>4 DEF OwnersInv, OwnersApart
    <3>6. BuysApart'
      BY <1>b, <3>1, <3>2, <3>3, <3>4 DEF OwnersInv, BuysApart, Buying, CycleTypeOK
    <3>7. AdoptedFirst'
      BY <1>21, <3>2, <3>3 DEF SendEntry, AdoptedFirst, Current, Before
    <3>8. NeverOrdered'
      BY <3>1, <3>2 DEF OwnersInv, NeverOrdered
    <3> QED
      BY <3>5, <3>6, <3>7, <3>8 DEF OwnersInv
  <2> QED
    BY <2>1, <2>2
<1>22. ASSUME NEW p \in Packets, CommitEntry(p) PROVE OwnersInv'
  <2>1. CASE Raise
    BY <1>22, <1>u, <1>f, <2>1 DEF CommitEntry, Raise, brokerVars, ledger
  <2>2. CASE ~Raise
    <3>1. p \in todo /\ pc = "bought" /\ Current(p)
      BY <1>22 DEF CommitEntry, Current
    <3>2. /\ pc' = "entries" /\ todo' = todo \ {p} /\ UNCHANGED orders
          /\ live_state' = [live_state EXCEPT ![p] = "submitted"]
      BY <1>22, <2>2 DEF CommitEntry, Set, Done, Goto, brokerVars
    <3>3. \A x \in Packets \ {p} : (Orphan(x)' <=> Orphan(x)) /\ (Owner(x)' <=> Owner(x))
      BY <1>b, <3>2 DEF Orphan, Owner, Active, Rows, LedgerTypeOK
    <3>4. \A x \in Packets : ~Orphan(x)'
      <4>1. ~Orphan(p)'
        BY <1>b, <3>2 DEF Orphan, LedgerTypeOK
      <4>2. \A x \in Packets \ {p} : ~Orphan(x)
        BY <1>b, <3>1, OneCurrent DEF OwnersInv, AdoptedFirst
      <4> QED
        BY <3>3, <4>1, <4>2
    <3>5. \A y \in Packets : (y \in todo \/ Owner(y)) /\ Symbol[p] = Symbol[y] => p = y
      BY <3>1 DEF OwnersInv, BuysApart, Buying
    <3>6. OwnersApart'
      BY <3>3, <3>5 DEF OwnersInv, OwnersApart
    <3>7. BuysApart'
      BY <1>b, <3>1, <3>2, <3>3, <3>5 DEF OwnersInv, BuysApart, Buying, CycleTypeOK
    <3>8. AdoptedFirst'
      BY <3>4 DEF AdoptedFirst
    <3>9. NeverOrdered'
      BY <1>b, <3>2 DEF OwnersInv, NeverOrdered, LedgerTypeOK
    <3> QED
      BY <3>6, <3>7, <3>8, <3>9 DEF OwnersInv
  <2> QED
    BY <2>1, <2>2
<1>23. CASE UNCHANGED vars
  BY <1>23, <1>u, <1>l, <1>q DEF vars, brokerVars, ledger, cycle, QuietTurn
<1> QED
  BY <1>1, <1>2, <1>3, <1>4, <1>5, <1>6, <1>7, <1>8, <1>10, <1>11, <1>12, <1>13, <1>14,
     <1>16, <1>17, <1>18, <1>19, <1>21, <1>22, <1>23 DEF Next, Runner

LEMMA InitOwners == Init => OwnersInv
BY DEF Init, BrokerInit, NoOrder, OwnersInv, OwnersApart, BuysApart, AdoptedFirst, NeverOrdered,
       Owner, Orphan, Active, Rows, Accepted, Working, Kinds, Buying

(* Two active rows never share a symbol, through any crash between an entry   *)
(* and its commit: the position of a symbol is the position of one row.       *)
THEOREM RowsApart == Spec => []OneRowPerSymbol
<1>1. OwnersInv => OneRowPerSymbol
  BY DEF OwnersInv, OwnersApart, OneRowPerSymbol, Owner, Active, Rows
<1> QED
  BY <1>1, InitSession, NextSession, InitManaged, NextManaged, InitOwners, NextOwners, PTL DEF Spec

----------------------------------------------------------------------------
(* Timed exits.  At most one is at work, because the ledger knows of it: the   *)
(* rows before "closing" have none on record, the record of a closing row names *)
(* the one at work, and a cycle sends one only for a row it found without.      *)
NoneAtWork(p)       == \A k \in TimedKinds : orders[p][k].status \notin Working
OnlyAtWork(p, kind) == \A k \in TimedKinds : orders[p][k].status \in Working => k = kind

Recorded(p) ==
    /\ live_state[p] \in {"absent", "queued", "submitted", "open"} => timed_exit[p] = NoKind
    /\ live_state[p] \in {"absent", "queued", "submitted"} => NoneAtWork(p)
    /\ live_state[p] = "closing" =>
         /\ timed_exit[p] \in TimedKinds
         /\ OnlyAtWork(p, timed_exit[p])
              \/ orders[p][timed_exit[p]].status \in {"filled", "none"}

(* An exit the broker has for an open row is adopted before the cycle goes on. *)
AdoptedExits == pc # "idle" =>
    \A p \in Packets : live_state[p] = "open" =>
        NoneAtWork(p) \/ (pc = "sent" /\ Current(p) /\ OnlyAtWork(p, sent))

HeldLoop == pc \in {"held", "repaired"} \/ (pc \in {"send", "sent"} /\ sent = "QTYFAIL")
ExitLoop == pc = "exits" \/ (pc \in {"send", "sent"} /\ sent # "QTYFAIL")
ToManage == IF pc \in First THEN snap.managed ELSE IF HeldLoop THEN todo ELSE {}

(* A row whose exit the cycle read as cancelled has none at work. *)
HeldRow(p) ==
    /\ live_state[p] \in {"open", "closing"}
    /\ live_state[p] = "closing" /\ Snapshot(p, timed_exit[p]).status = "cancelled" =>
         NoneAtWork(p)

LoopRows ==
    /\ pc \in First => \A p \in todo : live_state[p] = "submitted"
    /\ \A p \in ToManage : HeldRow(p)
    /\ ExitLoop => \A p \in todo : live_state[p] = "open"
    /\ pc \in {"send", "sent"} =>
         sent \in TimedKinds /\ \A p \in Packets : Current(p) => live_state[p] = "open"

TimedInv ==
    /\ AtMostOneTimedExit
    /\ \A p \in Packets : Recorded(p)
    /\ AdoptedExits
    /\ LoopRows

(* What a step that sends no timed exit may do to those orders. *)
TimedShrinks == \A p \in Packets : \A k \in TimedKinds :
    /\ orders'[p][k].status \in Working => orders[p][k].status \in Working
    /\ orders[p][k].status \in {"filled", "none"} => orders'[p][k].status \in {"filled", "none"}

LEMMA TimedAreKinds == TimedKinds \subseteq Kinds \ {"ENTRY", "STOP", "TARGET"}
BY DEF TimedKinds, Kinds

LEMMA TimedOps ==
    ASSUME BrokerTypeOK, NEW x \in Packets, NEW k \in TimedKinds
    PROVE  /\ Resynced[x][k] \in {orders[x][k], NoOrder}
           /\ \A p \in Packets : WithCancel(p)[x][k] = orders[x][k]
           /\ \A p \in Packets, q \in Nat : WithOrder(p, "ENTRY", q)[x][k] = orders[x][k]
           /\ \A p \in Packets, q \in Int, kinds \in SUBSET {"STOP", "TARGET"} :
                   WithProtection(p, q, kinds)[x][k] = orders[x][k]
<1> USE DEF BrokerTypeOK
<1>1. k \in Kinds /\ k # "ENTRY" /\ k \notin {"STOP", "TARGET"} /\ "ENTRY" \in Kinds
  BY TimedAreKinds DEF Kinds
<1>2. Resynced[x][k] \in {orders[x][k], NoOrder}
  BY <1>1 DEF Resynced
<1>3. ASSUME NEW p \in Packets
      PROVE  /\ WithCancel(p)[x][k] = orders[x][k]
             /\ \A q \in Nat : WithOrder(p, "ENTRY", q)[x][k] = orders[x][k]
             /\ \A q \in Int, kinds \in SUBSET {"STOP", "TARGET"} :
                   WithProtection(p, q, kinds)[x][k] = orders[x][k]
  BY <1>1 DEF WithCancel, WithOrder, WithProtection
<1> QED
  BY <1>2, <1>3

LEMMA BrokerShrinks ==
    ASSUME BrokerTypeOK, NEW p \in Packets,
           \/ EntryFill(p) \/ CancelTakesEffect(p)
           \/ \E k \in ExitKinds : ExitFill(p, k)
           \/ \E k \in Kinds : BrokerCancel(p, k)
    PROVE  TimedShrinks
<1> SUFFICES ASSUME NEW x \in Packets, NEW t \in TimedKinds
             PROVE  /\ orders'[x][t].status \in Working => orders[x][t].status \in Working
                    /\ orders[x][t].status \in {"filled", "none"} =>
                         orders'[x][t].status \in {"filled", "none"}
  BY DEF TimedShrinks
<1> USE DEF BrokerTypeOK
<1>k. t \in Kinds /\ t # "ENTRY" /\ "ENTRY" \in Kinds /\ ExitKinds \subseteq Kinds
  BY TimedAreKinds DEF Kinds, ExitKinds
<1>c. \A o \in Order : Cancelled(o).status = "cancelled"
  BY DEF Cancelled, Order
<1>1. CASE EntryFill(p) \/ CancelTakesEffect(p)
  BY <1>1, <1>k DEF EntryFill, CancelTakesEffect
<1>3. ASSUME NEW k \in ExitKinds, ExitFill(p, k)
      PROVE  /\ orders'[x][t].status \in Working => orders[x][t].status \in Working
             /\ orders[x][t].status \in {"filled", "none"} =>
                  orders'[x][t].status \in {"filled", "none"}
  <2>1. PICK n \in 1..(orders[p][k].qty - orders[p][k].filled) :
          orders' = [orders EXCEPT ![p] = [j \in Kinds |->
                       IF j = k THEN Executed(orders[p][k], n)
                       ELSE IF {j, k} \subseteq OcaKinds /\ orders[p][j].status \in Working
                            THEN Cancelled(orders[p][j]) ELSE orders[p][j]]]
    BY <1>3 DEF ExitFill
  <2>2. \/ orders'[x][t] = orders[x][t]
        \/ x = p /\ t = k /\ orders'[x][t] = Executed(orders[p][k], n)
        \/ x = p /\ orders[x][t].status \in Working /\ orders'[x][t] = Cancelled(orders[x][t])
    BY <1>k, <2>1
  <2>3. orders[p][k].status \in Working /\ orders[p][k] \in Order /\ orders[x][t] \in Order
    BY <1>3, <1>k DEF ExitFill
  <2> QED
    BY <1>c, <2>2, <2>3 DEF Working
<1>4. ASSUME NEW k \in Kinds, BrokerCancel(p, k)
      PROVE  /\ orders'[x][t].status \in Working => orders[x][t].status \in Working
             /\ orders[x][t].status \in {"filled", "none"} =>
                  orders'[x][t].status \in {"filled", "none"}
  BY <1>4, <1>k, <1>c DEF BrokerCancel, Working
<1> QED
  BY <1>1, <1>3, <1>4

LEMMA TickShrinks == ASSUME BrokerTypeOK, Tick PROVE TimedShrinks
<1>1. \A o \in Order : [o EXCEPT !.today = FALSE].status = o.status
                       /\ Cancelled(o).status = "cancelled"
  BY DEF Order, Cancelled
<1>2. \A x \in Packets, t \in TimedKinds :
        \/ orders'[x][t] = orders[x][t]
        \/ orders'[x][t] = [orders[x][t] EXCEPT !.today = FALSE]
        \/ orders[x][t].status \in Working /\ orders'[x][t] = Cancelled(orders[x][t])
  BY TimedAreKinds DEF Tick, BrokerTypeOK
<1>3. \A x \in Packets, t \in TimedKinds : orders[x][t] \in Order
  BY TimedAreKinds DEF BrokerTypeOK
<1> QED
  BY <1>1, <1>2, <1>3 DEF TimedShrinks, Working

(* The rows and the cycle, when no timed exit is sent and no row is written. *)
LEMMA RecordsKept ==
    ASSUME TimedInv, TypeInv, TimedShrinks, UNCHANGED <<live_state, timed_exit>>
    PROVE  /\ AtMostOneTimedExit'
           /\ \A p \in Packets : Recorded(p)'
           /\ \A p \in Packets : NoneAtWork(p) => NoneAtWork(p)'
<1>1. AtMostOneTimedExit'
  BY DEF TimedInv, AtMostOneTimedExit, TimedShrinks
<1>2. \A p \in Packets : NoneAtWork(p) => NoneAtWork(p)'
  BY DEF NoneAtWork, TimedShrinks
<1>3. ASSUME NEW p \in Packets PROVE Recorded(p)'
  <2>1. timed_exit[p] \in TimedKinds /\ OnlyAtWork(p, timed_exit[p]) =>
          OnlyAtWork(p, timed_exit[p])'
    BY DEF OnlyAtWork, TimedShrinks
  <2>2. timed_exit[p] \in TimedKinds /\ orders[p][timed_exit[p]].status \in {"filled", "none"} =>
          orders'[p][timed_exit[p]].status \in {"filled", "none"}
    BY DEF TimedShrinks
  <2> QED
    BY <1>2, <2>1, <2>2 DEF TimedInv, Recorded
<1> QED
  BY <1>1, <1>2, <1>3

LEMMA SameCycle ==
    ASSUME TimedInv, TypeInv, TimedShrinks,
           UNCHANGED <<live_state, timed_exit, entry_session, pc, todo, snap, sent>>
    PROVE  TimedInv'
<1>1. \A p \in Packets : OnlyAtWork(p, sent) => OnlyAtWork(p, sent)'
  BY DEF OnlyAtWork, TimedShrinks
<1>2. \A p \in Packets : Current(p)' <=> Current(p)
  BY DEF Current, Before
<1>3. AdoptedExits'
  BY <1>1, <1>2, RecordsKept DEF TimedInv, AdoptedExits
<1>4. ToManage' = ToManage /\ ToManage \subseteq Packets
  BY DEF ToManage, HeldLoop, TypeInv, TypeOK, CycleTypeOK, Readings
<1>5. \A p \in ToManage : HeldRow(p)'
  BY <1>4, RecordsKept DEF TimedInv, LoopRows, HeldRow, Snapshot
<1>6. LoopRows'
  BY <1>2, <1>4, <1>5 DEF TimedInv, LoopRows, ExitLoop
<1> QED
  BY <1>3, <1>6, RecordsKept DEF TimedInv

LEMMA ForgetTimed ==
    ASSUME TimedInv, TypeInv, TimedShrinks, UNCHANGED <<live_state, timed_exit>>, Forget
    PROVE  TimedInv'
BY RecordsKept DEF TimedInv, Forget, AdoptedExits, LoopRows, ToManage, HeldLoop, ExitLoop, First

(* A loop goes on with some of its rows. *)
SameLoop == \/ pc \in First /\ pc' \in First
            \/ pc \in {"held", "repaired"} /\ pc' \in {"held", "repaired"}
            \/ pc = "exits" /\ pc' = "exits"
            \/ pc \in Buying /\ pc' \in Buying

LEMMA LoopGoesOn ==
    ASSUME TimedInv, TypeInv, TimedShrinks, UNCHANGED <<live_state, timed_exit, snap>>,
           SameLoop, todo' \subseteq todo
    PROVE  TimedInv'
<1> USE DEF SameLoop, First, Buying
<1>1. AdoptedExits'
  BY RecordsKept DEF TimedInv, AdoptedExits
<1>2. ToManage' \subseteq ToManage /\ ToManage \subseteq Packets
  BY DEF ToManage, HeldLoop, TypeInv, TypeOK, CycleTypeOK, Readings
<1>3. \A p \in ToManage' : HeldRow(p)'
  BY <1>2, RecordsKept DEF TimedInv, LoopRows, HeldRow, Snapshot
<1>4. LoopRows'
  BY <1>3 DEF TimedInv, LoopRows, ExitLoop
<1> QED
  BY <1>1, <1>4, RecordsKept DEF TimedInv

(* One row is written, and the orders stay. *)
LEMMA RowWritten ==
    ASSUME TimedInv, TypeInv, UNCHANGED orders, NEW p \in Packets, Recorded(p)',
           \A q \in Packets : q # p =>
              live_state'[q] = live_state[q] /\ timed_exit'[q] = timed_exit[q]
    PROVE  /\ AtMostOneTimedExit'
           /\ \A q \in Packets : Recorded(q)'
           /\ \A q \in Packets : NoneAtWork(q)' <=> NoneAtWork(q)
BY DEF TimedInv, AtMostOneTimedExit, Recorded, NoneAtWork, OnlyAtWork

LEMMA TimedRows ==
    ASSUME TimedInv, Managed, TypeInv, NEW p \in Packets, pc # "idle", Current(p),
           \/ EntryEndsUnfilled(p) \/ CommitProtection(p)
           \/ ReopenTimed(p) \/ Close(p)
    PROVE  TimedInv'
<1>b. LedgerTypeOK /\ p \in todo
  BY DEF TypeInv, TypeOK, Current
<1>1. CASE EntryEndsUnfilled(p)
  <2>1. /\ pc = "submitted" /\ pc' = "submitted" /\ todo' = todo \ {p} /\ snap' = snap
        /\ UNCHANGED <<orders, timed_exit>> /\ live_state'[p] \in Ended
        /\ \A q \in Packets : q # p => live_state'[q] = live_state[q]
    BY <1>1, <1>b DEF EntryEndsUnfilled, Set, Done, Ended, LedgerTypeOK, brokerVars
  <2>2. Recorded(p)'
    BY <2>1 DEF Recorded, Ended
  <2>3. AdoptedExits'
    BY <2>1, <2>2, RowWritten DEF TimedInv, AdoptedExits, Ended
  <2>4. p \notin snap.managed /\ snap.managed \subseteq Packets
    BY <1>b, <2>1 DEF Managed, First, Active, Rows
  <2>5. \A q \in ToManage' : HeldRow(q)'
    BY <2>1, <2>2, <2>4, RowWritten DEF TimedInv, LoopRows, ToManage, First, HeldRow, Snapshot
  <2>6. LoopRows'
    BY <1>b, <2>1, <2>5 DEF TimedInv, LoopRows, First, ExitLoop, TypeInv, TypeOK, CycleTypeOK
  <2> QED
    BY <2>1, <2>2, <2>3, <2>6, RowWritten DEF TimedInv
<1>2. CASE CommitProtection(p)
  <2>1. /\ pc = "protected" /\ pc' = "submitted" /\ todo' = todo \ {p} /\ snap' = snap
        /\ UNCHANGED <<orders, timed_exit>> /\ live_state'[p] = "open"
        /\ \A q \in Packets : q # p => live_state'[q] = live_state[q]
    BY <1>2, <1>b DEF CommitProtection, Set, Done, Goto, LedgerTypeOK, brokerVars
  <2>2. live_state[p] = "submitted" /\ NoneAtWork(p) /\ timed_exit[p] = NoKind
    BY <1>b, <2>1 DEF TimedInv, LoopRows, First, Recorded
  <2>3. Recorded(p)'
    BY <2>1, <2>2 DEF Recorded
  <2>4. AdoptedExits'
    BY <2>1, <2>2, <2>3, RowWritten DEF TimedInv, AdoptedExits
  <2>5. p \notin snap.managed /\ snap.managed \subseteq Packets
    BY <1>b, <2>1 DEF Managed, First, Active, Rows
  <2>6. \A q \in ToManage' : HeldRow(q)'
    BY <2>1, <2>3, <2>5, RowWritten DEF TimedInv, LoopRows, ToManage, First, HeldRow, Snapshot
  <2>7. LoopRows'
    BY <1>b, <2>1, <2>6 DEF TimedInv, LoopRows, First, ExitLoop, TypeInv, TypeOK, CycleTypeOK
  <2> QED
    BY <2>1, <2>3, <2>4, <2>7, RowWritten DEF TimedInv
<1>3. CASE ReopenTimed(p)
  <2>1. /\ pc = "held" /\ UNCHANGED <<pc, todo, snap, orders>>
        /\ live_state'[p] = "open" /\ timed_exit'[p] = NoKind
        /\ Timed(p).status = "cancelled"
        /\ \A q \in Packets : q # p =>
              live_state'[q] = live_state[q] /\ timed_exit'[q] = timed_exit[q]
    BY <1>3, <1>b DEF ReopenTimed, TimedLost, Set, LedgerTypeOK, brokerVars
  <2>2. ToManage = todo /\ ToManage' = todo
    BY <2>1 DEF ToManage, HeldLoop, First
  <2>3. timed_exit[p] # NoKind /\ Snapshot(p, timed_exit[p]).status = "cancelled"
    BY <2>1 DEF Timed, NoOrder
  <2>4. NoneAtWork(p)
    BY <1>b, <2>2, <2>3 DEF TimedInv, LoopRows, HeldRow, Recorded
  <2>5. Recorded(p)'
    BY <2>1 DEF Recorded
  <2>6. AdoptedExits'
    BY <2>1, <2>4, <2>5, RowWritten DEF TimedInv, AdoptedExits
  <2>7. \A q \in ToManage' : HeldRow(q)'
    BY <1>b, <2>1, <2>2, <2>5, RowWritten DEF TimedInv, LoopRows, HeldRow, Snapshot, TypeInv,
                                              TypeOK, CycleTypeOK
  <2>8. LoopRows'
    BY <2>1, <2>7 DEF LoopRows, First, ExitLoop
  <2> QED
    BY <2>1, <2>5, <2>6, <2>8, RowWritten DEF TimedInv
<1>4. CASE Close(p)
  <2>1. /\ pc = "held" /\ UNCHANGED <<pc, snap, orders, timed_exit>> /\ todo' = todo \ {p}
        /\ live_state'[p] \in Ended
        /\ \A q \in Packets : q # p => live_state'[q] = live_state[q]
    BY <1>4, <1>b DEF Close, Managing, NextRow, Done, Set, Ended, LedgerTypeOK, brokerVars
  <2>2. ToManage = todo /\ ToManage' = todo \ {p}
    BY <2>1 DEF ToManage, HeldLoop, First
  <2>3. Recorded(p)'
    BY <2>1 DEF Recorded, Ended
  <2>4. AdoptedExits'
    BY <2>1, <2>3, RowWritten DEF TimedInv, AdoptedExits, Ended
  <2>5. \A q \in ToManage' : HeldRow(q)'
    BY <1>b, <2>1, <2>2, <2>3, RowWritten DEF TimedInv, LoopRows, HeldRow, Snapshot, TypeInv,
                                              TypeOK, CycleTypeOK
  <2>6. LoopRows'
    BY <2>1, <2>5 DEF LoopRows, First, ExitLoop
  <2> QED
    BY <2>1, <2>3, <2>4, <2>6, RowWritten DEF TimedInv
<1> QED
  BY <1>1, <1>2, <1>3, <1>4

(* The broker's list is adopted, so that the reading agrees with the ledger. *)
LEMMA TimedBegins ==
    ASSUME TimedInv, TypeInv, BeginCycle
    PROVE  TimedInv'
<1>b. LedgerTypeOK /\ CycleTypeOK /\ UNCHANGED orders
  BY DEF TypeInv, TypeOK, BeginCycle, brokerVars
<1>1. /\ pc' = "submitted"
      /\ todo' = {p \in Packets : live_state'[p] = "submitted"}
      /\ snap'.orders = orders
      /\ snap'.managed = {p \in Packets : live_state'[p] \in {"open", "closing"}}
  BY DEF BeginCycle, Goto
<1>2. \A p \in Packets :
        /\ live_state'[p] = IF AdoptedEntry(p) THEN "submitted"
                             ELSE IF AdoptedExit(p) THEN "closing" ELSE live_state[p]
        /\ timed_exit'[p] = IF AdoptedExit(p) THEN PreferredExit(AcceptedTimed(p))
                             ELSE timed_exit[p]
  BY DEF BeginCycle
<1>3. \A p \in Packets : NoneAtWork(p)' <=> NoneAtWork(p)
  BY <1>b DEF NoneAtWork
<1>4. ASSUME NEW p \in Packets, AdoptedExit(p)
      PROVE  /\ timed_exit'[p] \in TimedKinds
             /\ \/ OnlyAtWork(p, timed_exit'[p])
                \/ orders[p][timed_exit'[p]].status \in {"filled", "none"}
  <2>1. PICK t \in TimedKinds : t = timed_exit'[p] /\ Accepted(orders[p][t])
    BY <1>2, <1>4 DEF AdoptedExit, AcceptedTimed, PreferredExit, TimedKinds
  <2>2. orders[p][t].status \in Working => OnlyAtWork(p, t)
    BY DEF OnlyAtWork, TimedInv, AtMostOneTimedExit
  <2> QED
    BY <2>1, <2>2 DEF Accepted
<1>5. ASSUME NEW p \in Packets PROVE Recorded(p)'
  <2>1. CASE AdoptedExit(p)
    <3>1. ~AdoptedEntry(p)
      BY <2>1 DEF AdoptedExit, AdoptedEntry
    <3> QED
      BY <1>b, <1>2, <1>4, <2>1, <3>1 DEF Recorded, OnlyAtWork
  <2>2. CASE ~AdoptedExit(p)
    BY <1>b, <1>2, <1>3, <2>2 DEF TimedInv, Recorded, OnlyAtWork, AdoptedEntry
  <2> QED
    BY <2>1, <2>2
<1>6. AtMostOneTimedExit'
  BY <1>b DEF TimedInv, AtMostOneTimedExit
<1>7. ASSUME NEW p \in Packets, live_state'[p] = "open" PROVE NoneAtWork(p)
  <2>1. live_state[p] = "open" /\ ~AdoptedExit(p)
    BY <1>2, <1>7
  <2>2. timed_exit[p] = NoKind
    BY <2>1 DEF TimedInv, Recorded
  <2> QED
    BY <2>1, <2>2 DEF AdoptedExit, AcceptedTimed, Accepted, NoneAtWork
<1>8. ASSUME NEW p \in Packets, live_state'[p] = "closing",
             orders[p][timed_exit'[p]].status = "cancelled"
      PROVE  NoneAtWork(p)
  <2>1. timed_exit'[p] \in TimedKinds /\ OnlyAtWork(p, timed_exit'[p])
    BY <1>b, <1>5, <1>8 DEF Recorded, OnlyAtWork
  <2> QED
    BY <1>8, <2>1 DEF OnlyAtWork, NoneAtWork, Working
<1>9. AdoptedExits'
  BY <1>3, <1>7 DEF AdoptedExits
<1>10. \A p \in ToManage' : HeldRow(p)'
  BY <1>1, <1>3, <1>8 DEF ToManage, First, HeldRow, Snapshot
<1>11. LoopRows'
  BY <1>1, <1>10 DEF LoopRows, ExitLoop
<1> QED
  BY <1>5, <1>6, <1>9, <1>11 DEF TimedInv

(* From a row chosen for an exit to the row that has it. *)
LEMMA TimedSent ==
    ASSUME TimedInv, TypeInv, NEW p \in Packets, Current(p), Sendable(p), SendExit(p)
    PROVE  TimedInv'
<1>b. BrokerTypeOK /\ LedgerTypeOK /\ CycleTypeOK
  BY DEF TypeInv, TypeOK
<1>1. /\ pc = "send" /\ pc' = "sent"
      /\ orders' = WithOrder(p, sent, SendQuantity(p))
      /\ UNCHANGED <<live_state, timed_exit, entry_session, todo, snap, sent>>
  <2>1. ~Raise \/ pc' = "idle"
    BY DEF Raise, Forget
  <2> QED
    BY DEF SendExit, Goto, ledger
<1>2. sent \in TimedKinds /\ sent \in Kinds /\ live_state[p] = "open" /\ NoneAtWork(p)
  BY <1>1, TimedAreKinds DEF TimedInv, LoopRows, AdoptedExits
<1>3. /\ \A q \in Packets \ {p} : orders'[q] = orders[q]
      /\ \A k \in TimedKinds \ {sent} : orders'[p][k] = orders[p][k]
  BY <1>b, <1>1, <1>2, TimedAreKinds DEF WithOrder, BrokerTypeOK
<1>4. OnlyAtWork(p, sent)'
  BY <1>1, <1>2, <1>3 DEF OnlyAtWork, NoneAtWork
<1>5. \A q \in Packets \ {p} : /\ NoneAtWork(q)' <=> NoneAtWork(q)
                               /\ Recorded(q)'
  BY <1>1, <1>3 DEF NoneAtWork, OnlyAtWork, TimedInv, Recorded
<1>6. Recorded(p)'
  BY <1>1, <1>2 DEF TimedInv, Recorded
<1>7. AtMostOneTimedExit'
  <2>1. \A q \in Packets \ {p} : \A j, k \in TimedKinds :
          {orders'[q][j].status, orders'[q][k].status} \subseteq Working => j = k
    BY <1>3 DEF TimedInv, AtMostOneTimedExit
  <2>2. \A j, k \in TimedKinds :
          {orders'[p][j].status, orders'[p][k].status} \subseteq Working => j = k
    BY <1>1, <1>4 DEF OnlyAtWork
  <2> QED
    BY <2>1, <2>2 DEF AtMostOneTimedExit
<1>8. Current(p)'
  BY <1>1 DEF Current, Before
<1>9. AdoptedExits'
  <2>1. \A q \in Packets \ {p} : live_state[q] = "open" => NoneAtWork(q)
    BY <1>1 DEF TimedInv, AdoptedExits
  <2> QED
    BY <1>1, <1>4, <1>5, <1>8, <2>1 DEF AdoptedExits
<1>10. ToManage' = ToManage /\ ToManage \subseteq Packets
  BY <1>1, <1>b DEF ToManage, HeldLoop, First, CycleTypeOK
<1>11. \A q \in ToManage : HeldRow(q)'
  BY <1>1, <1>2, <1>5, <1>10 DEF TimedInv, LoopRows, HeldRow, Snapshot
<1>12. \A q \in Packets : Current(q)' <=> Current(q)
  BY <1>1 DEF Current, Before
<1>13. LoopRows'
  BY <1>1, <1>2, <1>10, <1>11, <1>12 DEF TimedInv, LoopRows, First, ExitLoop
<1> QED
  BY <1>5, <1>6, <1>7, <1>9, <1>13 DEF TimedInv

LEMMA TimedCommitted ==
    ASSUME TimedInv, TypeInv, NEW p \in Packets, Current(p), CommitExit(p), ~Raise
    PROVE  TimedInv'
<1>b. LedgerTypeOK /\ CycleTypeOK /\ p \in todo
  BY DEF TypeInv, TypeOK, Current
<1>1. /\ pc = "sent" /\ pc' = (IF sent = "QTYFAIL" THEN "held" ELSE "exits")
      /\ todo' = todo \ {p} /\ UNCHANGED <<orders, snap>>
      /\ live_state'[p] = "closing" /\ timed_exit'[p] = sent
      /\ \A q \in Packets : q # p =>
            live_state'[q] = live_state[q] /\ timed_exit'[q] = timed_exit[q]
  BY <1>b DEF CommitExit, Set, Done, Goto, LedgerTypeOK, brokerVars
<1>2. sent \in TimedKinds /\ live_state[p] = "open" /\ OnlyAtWork(p, sent)
  BY <1>1 DEF TimedInv, LoopRows, AdoptedExits, NoneAtWork, OnlyAtWork
<1>3. Recorded(p)'
  BY <1>1, <1>2 DEF Recorded, OnlyAtWork
<1>4. ASSUME NEW q \in Packets, live_state'[q] = "open" PROVE NoneAtWork(q)'
  <2>1. q # p /\ live_state[q] = "open"
    BY <1>1, <1>4
  <2>2. ~Current(q)
    BY <1>b, <2>1, OneCurrent
  <2> QED
    BY <1>1, <1>3, <2>1, <2>2, RowWritten DEF TimedInv, AdoptedExits
<1>5. AdoptedExits'
  BY <1>4 DEF AdoptedExits
<1>6. ToManage' \subseteq (ToManage \ {p}) /\ ToManage \subseteq Packets
  BY <1>1, <1>b DEF ToManage, HeldLoop, First, CycleTypeOK, Readings
<1>7. \A q \in ToManage' : HeldRow(q)'
  BY <1>1, <1>3, <1>6, RowWritten DEF TimedInv, LoopRows, HeldRow, Snapshot
<1>8. LoopRows'
  BY <1>1, <1>b, <1>7 DEF TimedInv, LoopRows, First, ExitLoop, CycleTypeOK
<1> QED
  BY <1>1, <1>3, <1>5, <1>8, RowWritten DEF TimedInv

(* Of the order methods only those of the timed exits send one. *)
LEMMA MethodsShrink ==
    ASSUME TypeInv,
           \/ UNCHANGED orders \/ orders' = Resynced
           \/ \E p \in Packets :
                \/ orders' = WithCancel(p) \/ orders' = WithOrder(p, "ENTRY", Quantity)
                \/ \E kinds \in SUBSET {"STOP", "TARGET"} :
                     orders' = WithProtection(p, SnapPosition(p), kinds)
    PROVE  TimedShrinks
<1>b. BrokerTypeOK /\ CycleTypeOK
  BY DEF TypeInv, TypeOK
<1>1. \A p \in Packets : SnapPosition(p) \in Int
  BY <1>b, ReadingType
<1>2. \A x \in Packets, k \in TimedKinds : orders'[x][k] \in {orders[x][k], NoOrder}
  BY <1>b, <1>1, TimedOps
<1> QED
  BY <1>2 DEF TimedShrinks, NoOrder, Working

LEMMA ProtectionShrinks ==
    ASSUME TypeInv, NEW p \in Packets, NEW next \in {"protected", "repaired"},
           PlaceProtective(p, SnapPosition(p), next)
    PROVE  TimedShrinks
<1>1. {"STOP"} \in SUBSET {"STOP", "TARGET"} /\ {"STOP", "TARGET"} \in SUBSET {"STOP", "TARGET"}
  OBVIOUS
<1> QED
  BY <1>1, MethodsShrink DEF PlaceProtective

LEMMA OnlySendExitSends ==
    ASSUME TypeInv, Next, ~TimedShrinks
    PROVE  \E p \in Packets : SendExit(p) /\ Sendable(p)
<1>b. BrokerTypeOK
  BY DEF TypeInv, TypeOK
<1>1. ASSUME Connect PROVE FALSE
  BY <1>1, MethodsShrink DEF Connect
<1>2. ASSUME Clock PROVE FALSE
  BY <1>2, <1>b, TickShrinks DEF Clock
<1>3. ASSUME Broker PROVE FALSE
  BY <1>3, <1>b, BrokerShrinks DEF Broker
<1>4. ASSUME NEW p \in Packets, Protect(p) \/ Repair(p) PROVE FALSE
  BY <1>4, ProtectionShrinks DEF Protect, Repair
<1>5. ASSUME NEW p \in Packets, CancelRemainder(p) \/ SendEntry(p) PROVE FALSE
  BY <1>5, MethodsShrink DEF CancelRemainder, SendEntry
<1>6. ASSUME NEW p \in Packets,
             \/ StillWaiting(p) \/ EntryEndsUnfilled(p) \/ CommitProtection(p)
             \/ ProtectionFails(p) \/ ReopenTimed(p) \/ Close(p) \/ Flatten(p)
             \/ CommitRepair(p) \/ LeaveAlone(p) \/ NotYet(p) \/ ChooseExit(p)
             \/ CommitExit(p) \/ Suppress(p) \/ MissBoundary(p) \/ FixExitSession(p)
             \/ CommitEntry(p) \/ Discover(p)
      PROVE  FALSE
  <2>1. UNCHANGED orders
    BY <1>6 DEF StillWaiting, EntryEndsUnfilled, CommitProtection, ProtectionFails, ReopenTimed,
                Close, Flatten, CommitRepair, LeaveAlone, NotYet, ChooseExit, CommitExit, Suppress,
                MissBoundary, FixExitSession, CommitEntry, Discover, brokerVars
  <2> QED
    BY <2>1, MethodsShrink
<1>7. ASSUME BeginCycle \/ StartHeld \/ StartExits \/ StartEntries \/ EndCycle \/ CycleFails
      PROVE  FALSE
  <2>1. UNCHANGED orders
    BY <1>7 DEF BeginCycle, StartHeld, StartExits, StartEntries, EndCycle, CycleFails, brokerVars
  <2> QED
    BY <2>1, MethodsShrink
<1>8. PICK p \in Packets : SendExit(p)
  BY <1>1, <1>2, <1>3, <1>4, <1>5, <1>6, <1>7 DEF Next, Runner
<1>9. CASE ~Sendable(p)
  BY <1>8, <1>9, MethodsShrink DEF SendExit
<1> QED
  BY <1>8, <1>9

LEMMA NextTimed == ASSUME SessionInv, Managed, TimedInv, [Next]_vars PROVE TimedInv'
<1>b. TypeInv /\ BrokerTypeOK /\ LedgerTypeOK /\ CycleTypeOK
  BY DEF SessionInv, TypeInv, TypeOK
<1>u. UNCHANGED orders => TimedShrinks
  BY DEF TimedShrinks
<1>f. ASSUME Forget, TimedShrinks, UNCHANGED <<live_state, timed_exit>> PROVE TimedInv'
  BY <1>f, <1>b, ForgetTimed
<1>r. ASSUME Raise, UNCHANGED orders PROVE TimedInv'
  BY <1>r, <1>f, <1>u DEF Raise, ledger
<1>1. CASE Connect
  <2>1. TimedShrinks
    BY <1>1, <1>b, MethodsShrink DEF Connect
  <2> QED
    BY <1>1, <1>b, <2>1, SameCycle DEF Connect, ledger, cycle
<1>2. CASE Clock
  BY <1>2, <1>b, TickShrinks, SameCycle DEF Clock, ledger, cycle
<1>3. CASE Broker
  BY <1>3, <1>b, BrokerShrinks, SameCycle DEF Broker, ledger, cycle
<1>4. CASE EndCycle \/ CycleFails
  BY <1>4, <1>u, <1>f DEF EndCycle, CycleFails, brokerVars, ledger
<1>5. CASE BeginCycle
  BY <1>5, <1>b, TimedBegins
<1>6. CASE StartHeld
  <2>1. /\ pc = "submitted" /\ pc' = "held" /\ todo' = snap.managed
        /\ UNCHANGED <<live_state, timed_exit, snap, orders>>
    BY <1>6 DEF StartHeld, Goto, ledger, brokerVars
  <2>2. /\ AtMostOneTimedExit' /\ \A p \in Packets : Recorded(p)'
        /\ \A p \in Packets : NoneAtWork(p) => NoneAtWork(p)'
    BY <1>b, <1>u, <2>1, RecordsKept
  <2>3. AdoptedExits'
    BY <2>1, <2>2 DEF TimedInv, AdoptedExits
  <2>4. ToManage' = ToManage /\ ToManage \subseteq Packets
    BY <2>1, <1>b DEF ToManage, HeldLoop, First, CycleTypeOK, Readings
  <2>5. \A p \in ToManage' : HeldRow(p)'
    BY <2>1, <2>2, <2>4 DEF TimedInv, LoopRows, HeldRow, Snapshot
  <2>6. LoopRows'
    BY <2>1, <2>5 DEF LoopRows, First, ExitLoop
  <2> QED
    BY <2>2, <2>3, <2>6 DEF TimedInv
<1>7. CASE StartExits
  <2>1. /\ pc = "held" /\ pc' = "exits" /\ UNCHANGED <<timed_exit, orders>>
        /\ todo' = {p \in Packets : ExitDue(p)}
        /\ \A p \in Packets :
             live_state'[p] = live_state[p]
               \/ (live_state[p] = "submitted" /\ live_state'[p] = "entry_expired_unknown")
    BY <1>7 DEF StartExits, Vanished, Goto, brokerVars
  <2>2. AtMostOneTimedExit' /\ \A p \in Packets : NoneAtWork(p)' <=> NoneAtWork(p)
    BY <2>1 DEF TimedInv, AtMostOneTimedExit, NoneAtWork
  <2>3. \A p \in Packets : Recorded(p)'
    BY <2>1, <2>2 DEF TimedInv, Recorded, OnlyAtWork
  <2>4. AdoptedExits'
    BY <2>1, <2>2 DEF TimedInv, AdoptedExits
  <2>5. \A p \in todo' : live_state'[p] = "open"
    BY <2>1 DEF ExitDue
  <2>6. LoopRows'
    BY <2>1, <2>5 DEF LoopRows, ToManage, HeldLoop, ExitLoop, First
  <2> QED
    BY <2>2, <2>3, <2>4, <2>6 DEF TimedInv
<1>8. ASSUME NEW p \in Packets,
             \/ StillWaiting(p) \/ CommitRepair(p) \/ LeaveAlone(p) \/ NotYet(p)
      PROVE  TimedInv'
  <2>1. UNCHANGED <<orders, live_state, timed_exit, snap>> /\ todo' \subseteq todo
    BY <1>8 DEF StillWaiting, CommitRepair, LeaveAlone, NotYet, NextRow, Done, brokerVars, ledger
  <2>2. SameLoop
    BY <1>8 DEF StillWaiting, CommitRepair, LeaveAlone, NotYet, Managing, Goto, SameLoop, First
  <2> QED
    BY <1>b, <1>u, <2>1, <2>2, LoopGoesOn
<1>9. ASSUME NEW p \in Packets, CancelRemainder(p) PROVE TimedInv'
  <2>1. TimedShrinks
    BY <1>9, <1>b, MethodsShrink DEF CancelRemainder
  <2> QED
    BY <1>9, <1>b, <2>1, LoopGoesOn DEF CancelRemainder, Goto, SameLoop, First, ledger
<1>10. ASSUME NEW p \in Packets, ProtectionFails(p) PROVE TimedInv'
  BY <1>10, <1>r DEF ProtectionFails, brokerVars
<1>11. ASSUME NEW p \in Packets, NEW next \in {"protected", "repaired"},
              PlaceProtective(p, SnapPosition(p), next),
              \/ pc \in First /\ next = "protected"
              \/ pc = "held" /\ next = "repaired"
       PROVE  TimedInv'
  <2>2. TimedShrinks
    BY <1>11, <1>b, ProtectionShrinks
  <2>3. CASE Forget /\ UNCHANGED ledger
    BY <1>f, <2>2, <2>3 DEF ledger
  <2>4. CASE Goto(next) /\ UNCHANGED <<ledger, todo, snap>>
    BY <1>11, <1>b, <2>2, <2>4, LoopGoesOn DEF Goto, SameLoop, First, ledger
  <2> QED
    BY <1>11, <2>3, <2>4 DEF PlaceProtective, Raise
<1>12. ASSUME NEW p \in Packets, Protect(p) \/ Repair(p) PROVE TimedInv'
  <2>1. CASE Protect(p)
    <3>1. pc \in First /\ PlaceProtective(p, SnapPosition(p), "protected")
      BY <2>1 DEF Protect, First
    <3> QED
      BY <1>11, <3>1, "protected" \in {"protected", "repaired"}
  <2>2. CASE Repair(p)
    <3>1. pc = "held" /\ PlaceProtective(p, SnapPosition(p), "repaired")
      BY <2>2 DEF Repair, Managing
    <3> QED
      BY <1>11, <3>1
  <2> QED
    BY <1>12, <2>1, <2>2
<1>13. ASSUME NEW p \in Packets,
              EntryEndsUnfilled(p) \/ CommitProtection(p) \/ ReopenTimed(p) \/ Close(p)
       PROVE  TimedInv'
  <2>1. Current(p) /\ pc # "idle"
    BY <1>13 DEF EntryEndsUnfilled, CommitProtection, ReopenTimed, Close, Managing
  <2> QED
    BY <1>13, <1>b, <2>1, TimedRows
<1>14. ASSUME NEW p \in Packets, Flatten(p) \/ ChooseExit(p) PROVE TimedInv'
  <2>1. /\ pc \in {"held", "exits"} /\ pc' = "send" /\ Current(p) /\ sent' \in TimedKinds
        /\ UNCHANGED <<live_state, timed_exit, entry_session, todo, snap, orders>>
        /\ pc = "held" <=> sent' = "QTYFAIL"
    BY <1>14 DEF Flatten, ChooseExit, Managing, Goto, TimedKinds, ledger, brokerVars
  <2>2. live_state[p] = "open"
    <3>1. CASE pc = "held"
      BY <1>14, <2>1, <3>1 DEF Flatten, ChooseExit, Mismatch, TimedInv, LoopRows, ToManage, First,
                               HeldLoop, HeldRow, Recorded, Current, TimedKinds, NoKind
    <3>2. CASE pc = "exits"
      BY <2>1, <3>2 DEF TimedInv, LoopRows, ExitLoop, Current
    <3> QED
      BY <2>1, <3>1, <3>2
  <2>3. /\ AtMostOneTimedExit' /\ \A q \in Packets : Recorded(q)'
        /\ \A q \in Packets : NoneAtWork(q) => NoneAtWork(q)'
    BY <1>b, <1>u, <2>1, RecordsKept
  <2>4. AdoptedExits'
    BY <2>1, <2>3 DEF TimedInv, AdoptedExits
  <2>5. ToManage' = ToManage /\ ToManage \subseteq Packets
    BY <2>1, <1>b DEF ToManage, HeldLoop, First, CycleTypeOK
  <2>6. \A q \in ToManage' : HeldRow(q)'
    BY <2>1, <2>3, <2>5 DEF TimedInv, LoopRows, HeldRow, Snapshot
  <2>7. \A q \in Packets : Current(q)' => q = p
    BY <1>b, <2>1, OneCurrent DEF Current, Before
  <2>8. LoopRows'
    BY <2>1, <2>2, <2>6, <2>7 DEF TimedInv, LoopRows, First, ExitLoop
  <2> QED
    BY <2>3, <2>4, <2>8 DEF TimedInv
<1>15. ASSUME NEW p \in Packets, SendExit(p) PROVE TimedInv'
  <2>1. CASE Sendable(p)
    BY <1>15, <1>b, <2>1, TimedSent DEF SendExit
  <2>2. CASE ~Sendable(p)
    BY <1>15, <1>r, <2>2 DEF SendExit
  <2> QED
    BY <2>1, <2>2
<1>16. ASSUME NEW p \in Packets, CommitExit(p) PROVE TimedInv'
  <2>1. CASE Raise
    BY <1>16, <1>r, <2>1 DEF CommitExit, brokerVars
  <2>2. CASE ~Raise
    BY <1>16, <1>b, <2>2, TimedCommitted DEF CommitExit
  <2> QED
    BY <2>1, <2>2
<1>17. CASE StartEntries
  <2>1. /\ pc' = "entries" /\ UNCHANGED <<timed_exit, orders>> /\ pc = "exits"
        /\ \A p \in Packets :
             \/ live_state'[p] = live_state[p]
             \/ live_state'[p] \in {"entry_window_missed", "overlap_suppressed"}
    BY <1>17 DEF StartEntries, Goto, brokerVars
  <2>2. AtMostOneTimedExit' /\ \A p \in Packets : NoneAtWork(p)' <=> NoneAtWork(p)
    BY <2>1 DEF TimedInv, AtMostOneTimedExit, NoneAtWork
  <2>3. \A p \in Packets : Recorded(p)'
    BY <2>1, <2>2 DEF TimedInv, Recorded, OnlyAtWork
  <2>4. AdoptedExits' /\ LoopRows'
    BY <2>1, <2>2 DEF TimedInv, AdoptedExits, LoopRows, ToManage, HeldLoop, ExitLoop, First
  <2> QED
    BY <2>2, <2>3, <2>4 DEF TimedInv
<1>18. ASSUME NEW p \in Packets, Suppress(p) \/ MissBoundary(p)
       PROVE  TimedInv'
  <2>1. /\ pc' = "entries" /\ UNCHANGED <<timed_exit, orders>> /\ pc = "entries"
        /\ \A q \in Packets :
             \/ live_state'[q] = live_state[q]
             \/ live_state'[q] \in Ended
    BY <1>18, <1>b DEF Suppress, MissBoundary, Set, Ended, brokerVars, LedgerTypeOK
  <2>2. AtMostOneTimedExit' /\ \A q \in Packets : NoneAtWork(q)' <=> NoneAtWork(q)
    BY <2>1 DEF TimedInv, AtMostOneTimedExit, NoneAtWork
  <2>3. \A q \in Packets : Recorded(q)'
    BY <2>1, <2>2 DEF TimedInv, Recorded, OnlyAtWork, Ended
  <2>4. AdoptedExits' /\ LoopRows'
    BY <2>1, <2>2 DEF TimedInv, AdoptedExits, LoopRows, ToManage, HeldLoop, ExitLoop, First, Ended
  <2> QED
    BY <2>2, <2>3, <2>4 DEF TimedInv
<1>19. ASSUME NEW p \in Packets, FixExitSession(p) PROVE TimedInv'
  BY <1>19, <1>b, <1>u, LoopGoesOn DEF FixExitSession, Goto, SameLoop, Buying, brokerVars
<1>20. ASSUME NEW p \in Packets, SendEntry(p) PROVE TimedInv'
  <2>1. CASE ~CalendarGate
    BY <1>20, <1>r, <2>1 DEF SendEntry
  <2>2. CASE CalendarGate
    <3>1. TimedShrinks
      BY <1>20, <1>b, <2>2, MethodsShrink DEF SendEntry
    <3> QED
      BY <1>20, <1>b, <2>2, <3>1, LoopGoesOn DEF SendEntry, Goto, SameLoop, Buying, ledger
  <2> QED
    BY <2>1, <2>2
<1>21. ASSUME NEW p \in Packets, CommitEntry(p) PROVE TimedInv'
  <2>1. CASE Raise
    BY <1>21, <1>r, <2>1 DEF CommitEntry, brokerVars
  <2>2. CASE ~Raise
    <3>1. /\ pc = "bought" /\ pc' = "entries" /\ UNCHANGED <<orders, timed_exit>>
          /\ live_state[p] = "queued" /\ live_state'[p] = "submitted"
          /\ \A q \in Packets : q # p => live_state'[q] = live_state[q]
      BY <1>21, <1>b, <2>2 DEF CommitEntry, Set, Goto, Current, SessionInv, StillQueued,
                               LedgerTypeOK, brokerVars
    <3>2. Recorded(p)'
      BY <3>1 DEF TimedInv, Recorded, NoneAtWork
    <3>3. AdoptedExits' /\ LoopRows'
      BY <1>b, <3>1, <3>2, RowWritten DEF TimedInv, AdoptedExits, LoopRows, ToManage, HeldLoop,
                                          ExitLoop, First
    <3> QED
      BY <1>b, <3>1, <3>2, <3>3, RowWritten DEF TimedInv
  <2> QED
    BY <2>1, <2>2
<1>22. ASSUME NEW p \in Packets, Discover(p) PROVE TimedInv'
  <2>1. /\ pc = "idle" /\ pc' = "idle" /\ UNCHANGED <<orders, timed_exit>>
        /\ live_state[p] = "absent" /\ live_state'[p] = "queued"
        /\ \A q \in Packets : q # p => live_state'[q] = live_state[q]
    BY <1>22, <1>b DEF Discover, Set, LedgerTypeOK, brokerVars, cycle
  <2>2. Recorded(p)'
    BY <2>1 DEF TimedInv, Recorded, NoneAtWork
  <2>3. AdoptedExits' /\ LoopRows'
    BY <2>1 DEF AdoptedExits, LoopRows, ToManage, HeldLoop, ExitLoop, First
  <2> QED
    BY <1>b, <2>1, <2>2, <2>3, RowWritten DEF TimedInv
<1>23. CASE UNCHANGED vars
  BY <1>23, <1>b, <1>u, SameCycle DEF vars, brokerVars, ledger, cycle
<1> QED
  BY <1>1, <1>2, <1>3, <1>4, <1>5, <1>6, <1>7, <1>8, <1>9, <1>10, <1>12, <1>13, <1>14, <1>15,
     <1>16, <1>17, <1>18, <1>19, <1>20, <1>21, <1>22, <1>23 DEF Next, Runner

LEMMA InitTimed == Init => TimedInv
<1> SUFFICES ASSUME Init PROVE TimedInv
  OBVIOUS
<1>1. \A p \in Packets : \A k \in TimedKinds : orders[p][k].status = "none"
  BY TimedAreKinds DEF Init, BrokerInit, NoOrder
<1>2. \A p \in Packets : Recorded(p)
  BY <1>1 DEF Init, Recorded, NoneAtWork, Working
<1>3. AtMostOneTimedExit /\ AdoptedExits /\ LoopRows
  BY <1>1 DEF Init, AtMostOneTimedExit, Working, AdoptedExits, LoopRows, ToManage, HeldLoop,
              ExitLoop, First
<1> QED
  BY <1>2, <1>3 DEF TimedInv

(* Through every crash, adoption, cancellation and retry, at most one timed exit of a      *)
(* packet is at work (_reconcile_orders, _submit_due_time_exits, _adopt_broker_orders).    *)
THEOREM OneTimedExit == Spec => []AtMostOneTimedExit
<1>1. TimedInv => AtMostOneTimedExit
  BY DEF TimedInv
<1> QED
  BY <1>1, InitSession, NextSession, InitManaged, NextManaged, InitTimed, NextTimed, PTL DEF Spec

----------------------------------------------------------------------------
(* The window of a timed exit.  What is chosen with the clock of one moment is *)
(* sent at another; the sessions do not move in between, and days only go on.  *)
Chosen == pc = "send" =>
    /\ sent = "TIME" => window = "moc"
    /\ sent = "OVERDUE" =>
         \/ window = "late"
         \/ window = "any" /\ \A p \in Packets : Current(p) => live_exit_session[p] < day

LEMMA NextChosen == ASSUME SessionInv, Chosen, [Next]_vars PROVE Chosen'
<1>b. LedgerTypeOK /\ BrokerTypeOK /\ CycleTypeOK
  BY DEF SessionInv, TypeInv, TypeOK
<1>1. CASE UNCHANGED <<cycle, live_exit_session, entry_session>> /\ day' \in {day, day + 1}
  <2>1. \A p \in Packets : Current(p)' <=> Current(p)
    BY <1>1 DEF Current, Before, cycle
  <2>2. day \in Int /\ \A p \in Packets : live_exit_session[p] \in Int
    BY <1>b DEF BrokerTypeOK, LedgerTypeOK
  <2> QED
    BY <1>1, <2>1, <2>2 DEF Chosen, cycle
<1>2. ASSUME NEW p \in Packets, ChooseExit(p) PROVE Chosen'
  <2>1. \A q \in Packets : Current(q)' => q = p
    BY <1>2, <1>b, OneCurrent DEF ChooseExit, Current, Before, ledger
  <2> QED
    BY <1>2, <2>1 DEF ChooseExit, Chosen, Overdue, ledger, brokerVars
<1>3. ASSUME NEW p \in Packets, Flatten(p) PROVE Chosen'
  BY <1>3 DEF Flatten, Chosen
<1>4. CASE pc' # "send"
  BY <1>4 DEF Chosen
<1>5. CASE Clock
  BY <1>1, <1>5, <1>b DEF Clock, Tick, ledger, BrokerTypeOK
<1>6. CASE Broker
  BY <1>1, <1>6 DEF Broker, EntryFill, CancelTakesEffect, ExitFill, BrokerCancel, ledger
<1>7. CASE Connect \/ UNCHANGED vars
  BY <1>1, <1>7 DEF Connect, vars, ledger, brokerVars
<1>8. CASE \E p \in Packets : Discover(p)
  BY <1>4, <1>8 DEF Discover, cycle
<1>9. CASE BeginCycle \/ StartHeld \/ StartExits \/ StartEntries \/ EndCycle \/ CycleFails
  BY <1>4, <1>9 DEF BeginCycle, StartHeld, StartExits, StartEntries, EndCycle, CycleFails, Forget,
                    Goto
<1>10. ASSUME NEW p \in Packets,
              \/ StillWaiting(p) \/ EntryEndsUnfilled(p) \/ CancelRemainder(p) \/ Protect(p)
              \/ CommitProtection(p) \/ ProtectionFails(p)
              \/ ReopenTimed(p) \/ Close(p) \/ Repair(p) \/ CommitRepair(p)
              \/ LeaveAlone(p)
              \/ NotYet(p) \/ SendExit(p) \/ CommitExit(p)
              \/ Suppress(p) \/ MissBoundary(p) \/ FixExitSession(p) \/ SendEntry(p)
              \/ CommitEntry(p)
       PROVE  pc' # "send"
  BY <1>10 DEF StillWaiting, EntryEndsUnfilled, CancelRemainder, Protect, CommitProtection,
               ProtectionFails, ReopenTimed, Close, Repair, CommitRepair, LeaveAlone, NotYet,
               SendExit, CommitExit, Suppress, MissBoundary, FixExitSession, SendEntry, CommitEntry,
               PlaceProtective, Raise, Forget, Goto, Managing
<1> QED
  BY <1>2, <1>3, <1>4, <1>5, <1>6, <1>7, <1>8, <1>9, <1>10 DEF Next, Runner

(* A market-on-close exit is placed only before its cutoff on the exit session, and a      *)
(* replacement only after that, however long the cycle waited since it chose the order     *)
(* (_submit_due_time_exits and _check_exit_window).                                        *)
THEOREM ExitsInWindow == Spec => TimedExitInWindow
<1>1. ASSUME SessionInv, Managed, TimedInv, Chosen, [Next]_vars
      PROVE  [\A p \in Packets :
                /\ Placed(p, "TIME") => phase = "moc" /\ day = live_exit_session[p]
                /\ Placed(p, "OVERDUE") => \/ day > live_exit_session[p]
                                           \/ day = live_exit_session[p] /\ phase = "late"]_vars
  <2> SUFFICES ASSUME Next, NEW p \in Packets, NEW k \in {"TIME", "OVERDUE"}, Placed(p, k)
               PROVE  /\ k = "TIME" => phase = "moc" /\ day = live_exit_session[p]
                      /\ k = "OVERDUE" => \/ day > live_exit_session[p]
                                          \/ day = live_exit_session[p] /\ phase = "late"
    BY <1>1 DEF vars
  <2>b. BrokerTypeOK /\ LedgerTypeOK /\ k \in TimedKinds /\ k \in Kinds
    BY <1>1, TimedAreKinds DEF SessionInv, TypeInv, TypeOK, TimedKinds
  <2>1. PICK x \in Packets : SendExit(x) /\ Sendable(x)
    <3>1. ~TimedShrinks
      BY <2>b DEF TimedShrinks, Placed
    <3> QED
      BY <1>1, <3>1, OnlySendExitSends DEF SessionInv
  <2>2. /\ pc = "send" /\ Current(x) /\ orders' = WithOrder(x, sent, SendQuantity(x))
        /\ sent \in TimedKinds /\ sent \in Kinds
    BY <1>1, <2>1, TimedAreKinds DEF SendExit, TimedInv, LoopRows
  <2>3. x = p /\ sent = k /\ ~Accepted(orders[p][k])
    BY <2>b, <2>2 DEF Placed, WithOrder, BrokerTypeOK
  <2>4. InWindow(p)
    BY <2>1, <2>3 DEF Sendable
  <2>5. day \in Int /\ live_exit_session[p] \in Int
    BY <2>b DEF BrokerTypeOK, LedgerTypeOK
  <2> QED
    BY <1>1, <2>2, <2>3, <2>4, <2>5 DEF Chosen, InWindow
<1>2. Init => Chosen
  BY DEF Init, Chosen
<1> QED
  BY <1>1, <1>2, NextChosen, InitSession, NextSession, InitManaged, NextManaged, InitTimed,
     NextTimed, PTL DEF Spec, TimedExitInWindow

----------------------------------------------------------------------------
(* Whole fills.  When the opening auction executes an entry in one piece and   *)
(* packets have symbols of their own, every exit is placed for exactly the     *)
(* shares that are held.  So a filled exit has sold them all, and the account, *)
(* the orders and the rows agree at every moment, also as a cycle read them.   *)
Whole == ~EntryInPieces

\* No exit is there before the entry has executed; a working exit is for all the shares,
\* and a filled one has sold them.
SoundIn(table, owned, p) ==
    /\ owned >= 0
    /\ table[p]["ENTRY"].status \in Working \cup {"cancelled"} =>
         /\ owned = 0 /\ table[p]["ENTRY"].filled = 0
         /\ \A k \in ExitKinds : table[p][k].status = "none"
    /\ \A k \in ExitKinds :
         /\ table[p][k].status \in Working => Remaining(table[p][k]) = owned /\ owned > 0
         /\ table[p][k].status = "filled" => owned = 0
         /\ table[p][k].status # "filled" /\ table[p][k].filled > 0 => Remaining(table[p][k]) > 0

Settled(o) == o.status \in {"filled", "none"}

AccountedRow(p) ==
    /\ held[p] = position[Symbol[p]]
    /\ SoundIn(orders, held[p], p)
    /\ live_state[p] \in {"absent", "queued"} => \A k \in ExitKinds : orders[p][k].status = "none"
    /\ orders[p]["ENTRY"].status \in Working => live_state[p] \in {"queued", "submitted"}
    /\ live_state[p] \in {"open", "closing"} => Settled(orders[p]["ENTRY"])
    /\ live_state[p] = "open" => held[p] <= live_quantity[p]
    /\ live_state[p] \in Ended \cup {"absent"} => held[p] = 0
Accounts == \A p \in Packets : AccountedRow(p)

\* What a cycle has read is as sound, and shares have only left the account since, unless
\* it read the entry as working.
Reading == pc \in First \/ HeldLoop
InHand(p) == p \in ToManage \/ (pc \in {"protect", "protected"} /\ Current(p))
ReadRow(p) ==
    /\ SoundIn(snap.orders, SnapPosition(p), p)
    /\ Snapshot(p, "ENTRY").status \notin Working =>
         orders[p]["ENTRY"].status = Snapshot(p, "ENTRY").status /\ held[p] <= SnapPosition(p)
    /\ InHand(p) => Settled(Snapshot(p, "ENTRY"))
ReadRows == Reading => \A p \in Packets : ReadRow(p)

\* A cycle that may buy has found no shares but those of its rows.
GateKept ==
    /\ pc \in Buying => gate
    /\ pc # "idle" /\ gate => \A p \in Packets : held[p] > 0 => Owner(p)

Offline == ~connected => pc = "idle"

AccountInv == Accounts /\ ReadRows /\ GateKept /\ Offline

(* Orders that are cancelled, or no longer reported, change nothing of that.   *)
Aged(o, n) == /\ n.qty = o.qty /\ n.filled = o.filled
              /\ n.status = o.status
                   \/ (o.status \in Working /\ n.status \in {"cancelling", "cancelled"})
Fades(o, n) == n = NoOrder \/ Aged(o, n)

LEMMA EntryIsKind == "ENTRY" \in Kinds /\ ExitKinds = Kinds \ {"ENTRY"}
BY DEF Kinds, ExitKinds

LEMMA FadedSound ==
    ASSUME NEW p \in Packets, NEW old, NEW new, NEW owned \in Int,
           SoundIn(old, owned, p), \A k \in Kinds : Fades(old[p][k], new[p][k])
    PROVE  SoundIn(new, owned, p)
<1>e. "ENTRY" \in Kinds /\ ExitKinds \subseteq Kinds /\ "ENTRY" \notin ExitKinds
  BY EntryIsKind
<1>1. NoOrder.status = "none" /\ NoOrder.filled = 0
  BY DEF NoOrder
<1>2. new[p]["ENTRY"].status \in Working \cup {"cancelled"} =>
         /\ owned = 0 /\ new[p]["ENTRY"].filled = 0
         /\ \A k \in ExitKinds : new[p][k].status = "none"
  <2> SUFFICES ASSUME new[p]["ENTRY"].status \in Working \cup {"cancelled"}
               PROVE  /\ owned = 0 /\ new[p]["ENTRY"].filled = 0
                      /\ \A k \in ExitKinds : new[p][k].status = "none"
    OBVIOUS
  <2>1. /\ old[p]["ENTRY"].status \in Working \cup {"cancelled"}
        /\ new[p]["ENTRY"].filled = old[p]["ENTRY"].filled
    BY <1>e, <1>1 DEF Fades, Aged, Working
  <2>2. \A k \in ExitKinds : old[p][k].status = "none"
    BY <2>1 DEF SoundIn
  <2>3. \A k \in ExitKinds : new[p][k].status = "none"
    BY <1>e, <1>1, <2>2 DEF Fades, Aged, Working
  <2> QED
    BY <2>1, <2>3 DEF SoundIn
<1>3. ASSUME NEW k \in ExitKinds
      PROVE  /\ new[p][k].status \in Working => Remaining(new[p][k]) = owned /\ owned > 0
             /\ new[p][k].status = "filled" => owned = 0
             /\ new[p][k].status # "filled" /\ new[p][k].filled > 0 => Remaining(new[p][k]) > 0
  <2>1. CASE new[p][k] = NoOrder
    BY <1>1, <2>1 DEF Working
  <2>2. CASE Aged(old[p][k], new[p][k])
    <3>1. Remaining(new[p][k]) = Remaining(old[p][k])
      BY <2>2 DEF Remaining, Aged
    <3> QED
      BY <2>2, <3>1 DEF SoundIn, Working, Aged
  <2> QED
    BY <1>e, <2>1, <2>2 DEF Fades
<1>4. owned >= 0
  BY DEF SoundIn
<1> QED
  BY <1>2, <1>3, <1>4 DEF SoundIn

LEMMA FadedAccounts ==
    ASSUME TypeInv, Accounts, UNCHANGED <<held, position, live_state, live_quantity>>,
           \A p \in Packets, k \in Kinds : Fades(orders[p][k], orders'[p][k])
    PROVE  Accounts'
<1> SUFFICES ASSUME NEW p \in Packets PROVE AccountedRow(p)'
  BY DEF Accounts
<1>0. AccountedRow(p) /\ held[p] \in Int
  BY DEF Accounts, TypeInv, TypeOK, BrokerTypeOK
<1>1. SoundIn(orders', held[p], p)
  BY <1>0, FadedSound DEF AccountedRow
<1>2. /\ orders'[p]["ENTRY"].status \in Working => orders[p]["ENTRY"].status \in Working
      /\ Settled(orders[p]["ENTRY"]) => Settled(orders'[p]["ENTRY"])
      /\ \A k \in ExitKinds : orders[p][k].status = "none" => orders'[p][k].status = "none"
  BY EntryIsKind DEF Fades, Aged, Settled, NoOrder, Working
<1>3. SoundIn(orders, held[p], p)'
  BY <1>1 DEF SoundIn
<1> QED
  BY <1>0, <1>2, <1>3 DEF AccountedRow

(* The steps of the clock and of the broker, and the methods that cancel.      *)
LEMMA Aging ==
    ASSUME TypeInv,
           \/ UNCHANGED orders \/ Tick
           \/ \E p \in Packets : \/ orders' = WithCancel(p) \/ CancelTakesEffect(p)
                                 \/ \E k \in Kinds : BrokerCancel(p, k)
    PROVE  \A p \in Packets, k \in Kinds : Aged(orders[p][k], orders'[p][k])
<1> SUFFICES ASSUME NEW x \in Packets, NEW j \in Kinds PROVE Aged(orders[x][j], orders'[x][j])
  OBVIOUS
<1>b. BrokerTypeOK /\ orders \in [Packets -> [Kinds -> Order]]
  BY DEF TypeInv, TypeOK, BrokerTypeOK
<1>o. orders[x][j] \in Order /\ "ENTRY" \in Kinds
  BY <1>b, EntryIsKind
<1>c. /\ Cancelled(orders[x][j]).qty = orders[x][j].qty
      /\ Cancelled(orders[x][j]).filled = orders[x][j].filled
      /\ Cancelled(orders[x][j]).status = "cancelled"
  BY <1>o DEF Cancelled, Order
<1>s. Aged(orders[x][j], orders[x][j])
  BY DEF Aged
<1>d. orders[x][j].status \in Working => Aged(orders[x][j], Cancelled(orders[x][j]))
  BY <1>c DEF Aged
<1>1. CASE Tick
  <2>1. \/ orders'[x][j] = orders[x][j]
        \/ orders[x][j].status \in Working /\ orders'[x][j] = Cancelled(orders[x][j])
        \/ orders'[x][j] = [orders[x][j] EXCEPT !.today = FALSE]
    BY <1>1, <1>b DEF Tick
  <2>2. Aged(orders[x][j], [orders[x][j] EXCEPT !.today = FALSE])
    BY <1>o DEF Aged, Order
  <2> QED
    BY <1>s, <1>d, <2>1, <2>2
<1>2. ASSUME NEW p \in Packets, orders' = WithCancel(p) PROVE Aged(orders[x][j], orders'[x][j])
  <2>1. \/ orders'[x][j] = orders[x][j]
        \/ /\ orders[x][j].status = "working"
           /\ orders'[x][j] = [orders[x][j] EXCEPT !.status = "cancelling"]
    <3>1. CASE x = p /\ j = "ENTRY"
      BY <1>2, <1>b, <1>o, <3>1 DEF WithCancel, Order
    <3>2. CASE x # p \/ j # "ENTRY"
      BY <1>2, <1>b, <1>o, <3>2 DEF WithCancel
    <3> QED
      BY <3>1, <3>2
  <2> QED
    BY <1>o, <1>s, <2>1 DEF Aged, Order, Working
<1>3. ASSUME NEW p \in Packets, NEW k \in Kinds, CancelTakesEffect(p) \/ BrokerCancel(p, k)
      PROVE  Aged(orders[x][j], orders'[x][j])
  <2>1. \/ orders'[x][j] = orders[x][j]
        \/ orders[x][j].status \in Working /\ orders'[x][j] = Cancelled(orders[x][j])
    BY <1>3, <1>b, <1>o DEF CancelTakesEffect, BrokerCancel, Working
  <2> QED
    BY <1>s, <1>d, <2>1
<1> QED
  BY <1>1, <1>2, <1>3, <1>o, <1>s

(* The market takes shares: an entry that executes at once, and the execution  *)
(* of an exit, which ends the others of its packet.                            *)
LEMMA BoughtAccounts ==
    ASSUME Apart, Whole, TypeInv, Accounts, NEW p \in Packets, EntryFill(p),
           UNCHANGED <<live_state, live_quantity>>
    PROVE  Accounts'
<1>b. BrokerTypeOK /\ "ENTRY" \in Kinds
  BY EntryIsKind DEF TypeInv, TypeOK
<1>o. orders[p]["ENTRY"] \in Order /\ held[p] \in Int /\ Symbol[p] \in Symbols
  BY <1>b DEF BrokerTypeOK
<1>a. AccountedRow(p) /\ orders[p]["ENTRY"].status \in Working
  BY DEF Accounts, EntryFill
<1>1. PICK n \in 1..(orders[p]["ENTRY"].qty - orders[p]["ENTRY"].filled) :
        /\ EntryInPieces \/ n = orders[p]["ENTRY"].qty
        /\ orders' = [orders EXCEPT ![p]["ENTRY"] = Executed(orders[p]["ENTRY"], n)]
        /\ position' = [position EXCEPT ![Symbol[p]] = @ + n]
        /\ held' = [held EXCEPT ![p] = @ + n]
  BY DEF EntryFill
<1>2. orders[p]["ENTRY"].filled = 0 /\ held[p] = 0 /\ n = orders[p]["ENTRY"].qty
  BY <1>1, <1>a DEF AccountedRow, SoundIn, Whole
<1>3. orders'[p]["ENTRY"].status = "filled"
  BY <1>1, <1>2, <1>b, <1>o DEF Executed, Order, BrokerTypeOK
<1>4. \A k \in ExitKinds : orders'[p][k] = orders[p][k] /\ orders'[p][k].status = "none"
  BY <1>1, <1>a, <1>b, EntryIsKind DEF AccountedRow, SoundIn, BrokerTypeOK
<1>5. held'[p] = n /\ held'[p] > 0 /\ held'[p] = position'[Symbol[p]]
  BY <1>1, <1>2, <1>a, <1>b, <1>o DEF AccountedRow, BrokerTypeOK
<1>6. \A k \in ExitKinds : orders[p][k].status = "none" /\ ~(orders[p][k].filled > 0
                              /\ ~(Remaining(orders[p][k]) > 0))
  BY <1>a DEF AccountedRow, SoundIn
<1>7. AccountedRow(p)'
  <2>1. SoundIn(orders, held[p], p)'
    BY <1>3, <1>4, <1>5, <1>6 DEF SoundIn, Working, Remaining
  <2> QED
    BY <1>3, <1>4, <1>5, <1>a, <2>1 DEF AccountedRow, Settled, Working, Ended
<1>8. ASSUME NEW q \in Packets, q # p PROVE AccountedRow(q)'
  <2>1. /\ orders'[q] = orders[q] /\ held'[q] = held[q]
        /\ position'[Symbol[q]] = position[Symbol[q]]
    BY <1>1, <1>8, <1>b DEF Apart, BrokerTypeOK
  <2> QED
    BY <2>1 DEF Accounts, AccountedRow, SoundIn
<1> QED
  BY <1>7, <1>8 DEF Accounts

LEMMA SoldAccounts ==
    ASSUME Apart, TypeInv, Accounts, NEW p \in Packets, NEW k \in ExitKinds, ExitFill(p, k),
           UNCHANGED <<live_state, live_quantity>>
    PROVE  /\ Accounts'
           /\ \A q \in Packets : held'[q] <= held[q] /\ orders'[q]["ENTRY"] = orders[q]["ENTRY"]
<1>b. BrokerTypeOK /\ k \in Kinds /\ k # "ENTRY" /\ "ENTRY" \in Kinds
  BY EntryIsKind DEF TypeInv, TypeOK
<1>o. /\ held[p] \in Int /\ Symbol[p] \in Symbols
      /\ \A j \in Kinds : orders[p][j] \in Order
  BY <1>b DEF BrokerTypeOK
<1>a. AccountedRow(p) /\ orders[p][k].status \in Working
  BY DEF Accounts, ExitFill
<1>1. PICK n \in 1..(orders[p][k].qty - orders[p][k].filled) :
        /\ orders' = [orders EXCEPT ![p] = [j \in Kinds |->
                IF j = k THEN Executed(orders[p][k], n)
                ELSE IF {j, k} \subseteq OcaKinds /\ orders[p][j].status \in Working
                     THEN Cancelled(orders[p][j]) ELSE orders[p][j]]]
        /\ position' = [position EXCEPT ![Symbol[p]] = @ - n]
        /\ held' = [held EXCEPT ![p] = @ - n]
  BY DEF ExitFill
<1>2. /\ Remaining(orders[p][k]) = held[p] /\ held[p] > 0
      /\ orders[p]["ENTRY"].status \notin Working \cup {"cancelled"}
      /\ \A j \in ExitKinds : orders[p][j].status # "filled"
  BY <1>a, <1>b DEF AccountedRow, SoundIn, Working
<1>3. /\ held'[p] = held[p] - n /\ position'[Symbol[p]] = position[Symbol[p]] - n
      /\ n \in 1..held[p]
  BY <1>1, <1>2, <1>b, <1>o DEF BrokerTypeOK, Remaining
<1>4. /\ orders'[p]["ENTRY"] = orders[p]["ENTRY"]
      /\ orders'[p][k] = Executed(orders[p][k], n)
      /\ \A j \in ExitKinds \ {k} :
           orders'[p][j] = IF orders[p][j].status \in Working THEN Cancelled(orders[p][j])
                           ELSE orders[p][j]
  <2>1. orders'[p] = [j \in Kinds |->
                IF j = k THEN Executed(orders[p][k], n)
                ELSE IF {j, k} \subseteq OcaKinds /\ orders[p][j].status \in Working
                     THEN Cancelled(orders[p][j]) ELSE orders[p][j]]
    BY <1>1, <1>b DEF BrokerTypeOK
  <2>2. "ENTRY" \notin OcaKinds /\ ExitKinds \subseteq OcaKinds /\ ExitKinds \subseteq Kinds
    BY EntryIsKind DEF OcaKinds
  <2> QED
    BY <1>b, <2>1, <2>2
<1>5. /\ Remaining(orders'[p][k]) = held'[p]
      /\ orders'[p][k].status = "filled" => held'[p] = 0
      /\ orders'[p][k].status # "filled" => held'[p] > 0
  BY <1>2, <1>3, <1>4, <1>o, <1>b DEF Executed, Order, Remaining
<1>6. ASSUME NEW j \in ExitKinds \ {k}
      PROVE  /\ orders'[p][j].status \notin Working \cup {"filled"}
             /\ orders'[p][j].filled > 0 => Remaining(orders'[p][j]) > 0
  <2>1. orders[p][j] \in Order /\ j \in Kinds
    BY <1>o, EntryIsKind
  <2>2. CASE orders[p][j].status \in Working
    <3>1. Remaining(orders[p][j]) > 0
      BY <1>a, <2>2 DEF AccountedRow, SoundIn
    <3> QED
      BY <1>4, <2>1, <2>2, <3>1 DEF Cancelled, Order, Remaining, Working
  <2>3. CASE orders[p][j].status \notin Working
    BY <1>2, <1>4, <1>a, <2>3 DEF AccountedRow, SoundIn
  <2> QED
    BY <2>2, <2>3
<1>7. SoundIn(orders, held[p], p)'
  <2>1. \A j \in ExitKinds :
          /\ orders'[p][j].status \in Working => Remaining(orders'[p][j]) = held'[p] /\ held'[p] > 0
          /\ orders'[p][j].status = "filled" => held'[p] = 0
          /\ orders'[p][j].status # "filled" /\ orders'[p][j].filled > 0 =>
               Remaining(orders'[p][j]) > 0
    BY <1>5, <1>6 DEF Working
  <2> QED
    BY <1>2, <1>3, <1>4, <1>o, <2>1 DEF SoundIn
<1>8. AccountedRow(p)'
  <2>1. live_state[p] \notin {"absent", "queued"} /\ live_state[p] \notin Ended
    BY <1>2, <1>a, <1>b DEF AccountedRow, Working
  <2>2. live_state[p] = "open" => live_quantity[p] \in Int /\ held[p] <= live_quantity[p]
    BY <1>a DEF AccountedRow, TypeInv, TypeOK, LedgerTypeOK
  <2> QED
    BY <1>2, <1>3, <1>4, <1>7, <1>a, <1>o, <2>1, <2>2 DEF AccountedRow
<1>9. ASSUME NEW q \in Packets, q # p
      PROVE  AccountedRow(q)' /\ orders'[q] = orders[q] /\ held'[q] = held[q]
  <2>1. /\ orders'[q] = orders[q] /\ held'[q] = held[q]
        /\ position'[Symbol[q]] = position[Symbol[q]]
    BY <1>1, <1>9, <1>b DEF Apart, BrokerTypeOK
  <2> QED
    BY <2>1 DEF Accounts, AccountedRow, SoundIn
<1>10. Accounts'
  BY <1>8, <1>9 DEF Accounts
<1>11. \A q \in Packets : held'[q] \in Int /\ held[q] \in Int /\ held'[q] <= held[q]
  BY <1>3, <1>9, <1>b, <1>o DEF BrokerTypeOK
<1> QED
  BY <1>4, <1>9, <1>10, <1>11

(* Exits are placed for all the shares that are held.                          *)
LEMMA PlacedAccounts ==
    ASSUME TypeInv, Accounts, UNCHANGED <<held, position, live_state, live_quantity>>,
           NEW p \in Packets, NEW q \in Int, held[p] <= q, Settled(orders[p]["ENTRY"]),
           live_state[p] \notin {"absent", "queued"},
           \A x \in Packets, k \in Kinds :
              \/ orders'[x][k] = orders[x][k]
              \/ x = p /\ k \in ExitKinds /\ Sellable(p, q) /\ orders'[x][k] = NewOrder(q)
    PROVE  /\ Accounts'
           /\ \A x \in Packets : orders'[x]["ENTRY"] = orders[x]["ENTRY"]
<1>b. BrokerTypeOK /\ "ENTRY" \in Kinds /\ ExitKinds \subseteq Kinds /\ "ENTRY" \notin ExitKinds
  BY EntryIsKind DEF TypeInv, TypeOK
<1>1. \A x \in Packets : orders'[x]["ENTRY"] = orders[x]["ENTRY"]
  BY <1>b
<1>2. ASSUME NEW x \in Packets, \A k \in Kinds : orders'[x][k] = orders[x][k]
      PROVE  AccountedRow(x)'
  <2>1. AccountedRow(x)
    BY DEF Accounts
  <2> QED
    BY <1>2, <1>b, <2>1 DEF AccountedRow, SoundIn
<1>3. CASE Sellable(p, q)
  <2>0. AccountedRow(p) /\ held[p] \in Int
    BY <1>b DEF Accounts, BrokerTypeOK
  <2>1. AccountedRow(p) /\ held[p] = q /\ q > 0
    <3>1. held[p] = position[Symbol[p]]
      BY <2>0 DEF AccountedRow
    <3> QED
      BY <1>3, <2>0, <3>1 DEF Sellable
  <2>2. ASSUME NEW k \in ExitKinds
        PROVE  /\ orders'[p][k].status \in Working =>
                    Remaining(orders'[p][k]) = held[p] /\ held[p] > 0
               /\ orders'[p][k].status = "filled" => held[p] = 0
               /\ orders'[p][k].status # "filled" /\ orders'[p][k].filled > 0 =>
                    Remaining(orders'[p][k]) > 0
    <3>1. CASE orders'[p][k] = orders[p][k]
      BY <2>1, <3>1 DEF AccountedRow, SoundIn
    <3>2. CASE orders'[p][k] = NewOrder(q)
      BY <2>1, <3>2 DEF NewOrder, NoOrder, Remaining
    <3> QED
      BY <1>b, <3>1, <3>2
  <2>3. SoundIn(orders, held[p], p)'
    BY <1>1, <2>1, <2>2 DEF SoundIn, Settled, Working
  <2>4. AccountedRow(p)'
    BY <1>1, <2>1, <2>3 DEF AccountedRow, Settled
  <2>5. \A x \in Packets : x # p => AccountedRow(x)'
    BY <1>2
  <2> QED
    BY <1>1, <2>4, <2>5 DEF Accounts
<1>4. CASE ~Sellable(p, q)
  BY <1>1, <1>2, <1>4 DEF Accounts
<1> QED
  BY <1>3, <1>4

LEMMA OrderedAccounts ==
    ASSUME TypeInv, Accounts, UNCHANGED <<held, position, live_state, live_quantity>>,
           NEW p \in Packets, live_state[p] = "queued", held[p] > 0 => Accepted(orders[p]["ENTRY"]),
           orders' = WithOrder(p, "ENTRY", Quantity)
    PROVE  Accounts'
<1>b. BrokerTypeOK /\ "ENTRY" \in Kinds /\ ExitKinds \subseteq Kinds /\ "ENTRY" \notin ExitKinds
  BY EntryIsKind DEF TypeInv, TypeOK
<1>1. \A x \in Packets, k \in Kinds :
        x # p \/ k # "ENTRY" \/ Accepted(orders[p]["ENTRY"]) => orders'[x][k] = orders[x][k]
  BY <1>b DEF WithOrder, BrokerTypeOK
<1>2. ASSUME NEW x \in Packets, \A k \in Kinds : orders'[x][k] = orders[x][k]
      PROVE  AccountedRow(x)'
  <2>1. AccountedRow(x)
    BY DEF Accounts
  <2> QED
    BY <1>2, <1>b, <2>1 DEF AccountedRow, SoundIn
<1>3. CASE ~Accepted(orders[p]["ENTRY"])
  <2>1. orders'[p]["ENTRY"] = NewOrder(Quantity)
    BY <1>3, <1>b DEF WithOrder, BrokerTypeOK
  <2>2. orders'[p]["ENTRY"].filled = 0
    BY <2>1 DEF NewOrder, NoOrder
  <2>3. /\ AccountedRow(p) /\ held[p] = 0
        /\ \A k \in ExitKinds : orders[p][k].status = "none" /\ orders'[p][k] = orders[p][k]
    BY <1>1, <1>3, <1>b DEF Accounts, AccountedRow, SoundIn, BrokerTypeOK
  <2>4. SoundIn(orders, held[p], p)'
    BY <2>2, <2>3 DEF AccountedRow, SoundIn
  <2>5. AccountedRow(p)'
    BY <2>3, <2>4 DEF AccountedRow
  <2> QED
    BY <1>1, <1>2, <2>5 DEF Accounts
<1>4. CASE Accepted(orders[p]["ENTRY"])
  BY <1>1, <1>2, <1>4 DEF Accounts
<1> QED
  BY <1>3, <1>4

(* The ledger writes rows: it ends those whose shares are gone, and calls open  *)
(* or closing those whose entry is over.                                        *)
RowStep(p) ==
    \/ /\ live_state'[p] = live_state[p]
       /\ live_quantity'[p] = live_quantity[p] \/ live_state[p] # "open"
    \/ live_state[p] \in {"absent", "queued"} /\ live_state'[p] \in {"queued", "submitted"}
    \/ /\ live_state'[p] \in Ended
       /\ held[p] = 0 /\ orders[p]["ENTRY"].status \notin Working
    \/ live_state'[p] = "open" /\ held[p] <= live_quantity'[p] /\ Settled(orders[p]["ENTRY"])
    \/ live_state'[p] = "closing" /\ Settled(orders[p]["ENTRY"])

(* Shares keep an owner, and what was read of an executed entry stays true.     *)
OwnersKept == \A p \in Packets : held'[p] > 0 /\ (held[p] > 0 => Owner(p)) => Owner(p)'
ReadingHolds == \A p \in Packets :
    orders[p]["ENTRY"].status \notin Working =>
      orders'[p]["ENTRY"].status = orders[p]["ENTRY"].status /\ held'[p] <= held[p]

LEMMA WrittenAccounts ==
    ASSUME TypeInv, Accounts, UNCHANGED <<orders, held, position>>,
           \A p \in Packets : RowStep(p)
    PROVE  Accounts' /\ OwnersKept /\ ReadingHolds
<1>1. ASSUME NEW p \in Packets PROVE AccountedRow(p)'
  <2>1. AccountedRow(p) /\ SoundIn(orders, held[p], p)'
    BY DEF Accounts, AccountedRow, SoundIn
  <2> QED
    BY <2>1 DEF RowStep, AccountedRow, Settled, Working, Ended
<1>2. OwnersKept
  BY DEF OwnersKept, Owner, Orphan, Active, Rows, RowStep
<1>3. ReadingHolds
  BY DEF ReadingHolds, TypeInv, TypeOK, BrokerTypeOK
<1> QED
  BY <1>1, <1>2, <1>3 DEF Accounts

LEMMA AgedKeeps ==
    ASSUME TypeInv, Accounts, UNCHANGED live_state,
           \A p \in Packets : /\ held'[p] \in Int /\ held'[p] <= held[p]
                              /\ Aged(orders[p]["ENTRY"], orders'[p]["ENTRY"])
    PROVE  OwnersKept /\ ReadingHolds
<1>1. ReadingHolds
  BY DEF ReadingHolds, Aged
<1>2. ASSUME NEW p \in Packets, held'[p] > 0, Owner(p) PROVE Owner(p)'
  <2>1. held[p] > 0 /\ held[p] \in Int
    BY <1>2 DEF TypeInv, TypeOK, BrokerTypeOK
  <2>2. orders[p]["ENTRY"].status \notin Working
    BY <2>1 DEF Accounts, AccountedRow, SoundIn
  <2> QED
    BY <1>1, <1>2, <2>2 DEF ReadingHolds, Owner, Orphan, Active, Rows, Accepted
<1>3. \A p \in Packets : held'[p] > 0 => held[p] > 0
  BY DEF TypeInv, TypeOK, BrokerTypeOK
<1> QED
  BY <1>1, <1>2, <1>3 DEF OwnersKept

LEMMA BoughtKeeps ==
    ASSUME Whole, TypeInv, Accounts, NEW p \in Packets, EntryFill(p), UNCHANGED live_state
    PROVE  OwnersKept /\ ReadingHolds
<1>b. BrokerTypeOK /\ "ENTRY" \in Kinds
  BY EntryIsKind DEF TypeInv, TypeOK
<1>1. /\ orders[p]["ENTRY"].status \in Working
      /\ \A q \in Packets : q # p => orders'[q] = orders[q] /\ held'[q] = held[q]
  BY <1>b DEF EntryFill, BrokerTypeOK
<1>2. orders'[p]["ENTRY"].status \in Working \cup {"filled"}
  BY <1>1, <1>b DEF EntryFill, Executed, Order, BrokerTypeOK
<1>3. Owner(p)'
  BY <1>1, <1>2 DEF Accounts, AccountedRow, Owner, Orphan, Active, Rows, Accepted
<1>4. ReadingHolds
  BY <1>1, <1>b DEF ReadingHolds, BrokerTypeOK
<1>5. OwnersKept
  BY <1>1, <1>3 DEF OwnersKept, Owner, Orphan, Active, Rows
<1> QED
  BY <1>4, <1>5

(* What a cycle has read goes on being sound.                                   *)
SameReading == Reading' =>
    /\ Reading /\ snap' = snap
    /\ \A p \in Packets : InHand(p)' => InHand(p) \/ Settled(Snapshot(p, "ENTRY"))

LEMMA ReadsOn ==
    ASSUME TypeInv, TypeInv', ReadRows, ReadingHolds, SameReading PROVE ReadRows'
<1> SUFFICES ASSUME Reading', NEW p \in Packets PROVE ReadRow(p)'
  BY DEF ReadRows
<1>1. ReadRow(p) /\ snap' = snap /\ (InHand(p)' => Settled(Snapshot(p, "ENTRY")))
  BY DEF SameReading, ReadRows, ReadRow
<1>2. held[p] \in Int /\ held'[p] \in Int /\ SnapPosition(p) \in Int
  BY ReadingType DEF TypeInv, TypeOK, BrokerTypeOK
<1>3. SoundIn(snap.orders, SnapPosition(p), p)'
  BY <1>1 DEF ReadRow, SoundIn, SnapPosition
<1>4. Snapshot(p, "ENTRY").status \notin Working =>
        /\ orders'[p]["ENTRY"].status = Snapshot(p, "ENTRY").status
        /\ held'[p] <= SnapPosition(p)
  BY <1>1, <1>2 DEF ReadRow, ReadingHolds
<1> QED
  BY <1>1, <1>3, <1>4 DEF ReadRow, Snapshot, SnapPosition

LEMMA GateOn ==
    ASSUME GateKept, OwnersKept, pc' \in Buying => gate',
           pc' # "idle" /\ gate' => pc # "idle" /\ gate
    PROVE  GateKept'
BY DEF GateKept, OwnersKept

(* The rows a cycle ends.                                                       *)
LEMMA ReadGone ==
    ASSUME TypeInv, Accounts, ReadRows, Reading, NEW p \in Packets,
           Snapshot(p, "ENTRY").status \notin Working,
           EntryDead(Snapshot(p, "ENTRY")) \/ SnapPosition(p) <= 0
    PROVE  held[p] = 0 /\ orders[p]["ENTRY"].status \notin Working
<1>1. ReadRow(p) /\ AccountedRow(p) /\ held[p] \in Int /\ SnapPosition(p) \in Int
  BY ReadingType DEF ReadRows, Accounts, TypeInv, TypeOK, BrokerTypeOK
<1>2. orders[p]["ENTRY"].status = Snapshot(p, "ENTRY").status /\ held[p] <= SnapPosition(p)
  BY <1>1 DEF ReadRow
<1>3. EntryDead(Snapshot(p, "ENTRY")) => held[p] = 0
  BY <1>1, <1>2 DEF EntryDead, AccountedRow, SoundIn
<1>4. held[p] >= 0
  BY <1>1 DEF AccountedRow, SoundIn
<1> QED
  BY <1>1, <1>2, <1>3, <1>4

LEMMA RowEnds ==
    ASSUME TypeInv, Accounts, ReadRows, NEW p \in Packets,
           \/ EntryEndsUnfilled(p) \/ Close(p)
           \/ pc = "held" /\ Vanished(p)
    PROVE  held[p] = 0 /\ orders[p]["ENTRY"].status \notin Working
<1>c. CycleTypeOK
  BY DEF TypeInv, TypeOK
<1>0. Reading
  BY DEF EntryEndsUnfilled, Close, Managing, Reading, First, HeldLoop
<1>1. ReadRow(p) /\ SoundIn(snap.orders, SnapPosition(p), p) /\ SnapPosition(p) \in Int
  BY <1>0, <1>c, ReadingType DEF ReadRows, ReadRow
<1>2. CASE EntryEndsUnfilled(p)
  <2>1. CASE EntryDead(Snapshot(p, "ENTRY"))
    BY <1>0, <2>1, ReadGone DEF EntryDead, Working
  <2>2. CASE EntryFilled(p) /\ SnapPosition(p) <= 0
    <3>1. Snapshot(p, "ENTRY").status \notin Working
      BY <1>1, <2>2 DEF SoundIn, EntryFilled, Snapshot
    <3> QED
      BY <1>0, <2>2, <3>1, ReadGone
  <2> QED
    BY <1>2, <2>1, <2>2 DEF EntryEndsUnfilled
<1>3. CASE Close(p)
  <2>1. InHand(p) /\ Snapshot(p, "ENTRY").status \notin Working
    BY <1>1, <1>3 DEF Close, Managing, Current, InHand, ToManage, HeldLoop, First, ReadRow,
                      Settled, Working
  <2>2. ASSUME NEW k \in ExitKinds, ClosedBy(p, Snapshot(p, k)) PROVE SnapPosition(p) = 0
    <3>1. Snapshot(p, k).status \notin Working \/ Remaining(Snapshot(p, k)) > 0
      BY <1>1 DEF SoundIn, Snapshot
    <3>2. Snapshot(p, k).status \in Statuses
      BY <1>c, EntryIsKind DEF Snapshot, CycleTypeOK, Readings, Order
    <3> QED
      BY <1>1, <2>2, <3>1, <3>2 DEF ClosedBy, SoundIn, Snapshot
  <2>3. timed_exit[p] = NoKind \/ timed_exit[p] \in ExitKinds
    BY TimedAreKinds, EntryIsKind DEF TypeInv, TypeOK, LedgerTypeOK
  <2>4. ~ClosedBy(p, NoOrder) /\ "STOP" \in ExitKinds /\ "TARGET" \in ExitKinds
    BY DEF ClosedBy, NoOrder, ExitKinds, Kinds
  <2>5. SnapPosition(p) = 0
    BY <1>3, <2>2, <2>3, <2>4 DEF Close, ExitFilled, Timed, BrokerFlat
  <2> QED
    BY <1>0, <1>1, <2>1, <2>5, ReadGone
<1>4. CASE pc = "held" /\ Vanished(p)
  BY <1>0, <1>1, <1>4, ReadGone DEF Vanished, Ordered, Working
<1> QED
  BY <1>2, <1>3, <1>4

LEMMA QueuedEnds ==
    ASSUME TypeInv, Accounts, GateKept, AdoptedFirst, gate, pc \in {"exits", "entries"},
           NEW p \in Packets, live_state[p] = "queued"
    PROVE  held[p] = 0 /\ orders[p]["ENTRY"].status \notin Working
<1>1. ~Orphan(p)
  BY DEF AdoptedFirst
<1>2. ~Owner(p)
  BY <1>1 DEF Owner, Active, Rows
<1>3. held[p] \in Int /\ held[p] >= 0 /\ ~(held[p] > 0)
  BY <1>2 DEF GateKept, TypeInv, TypeOK, BrokerTypeOK, Accounts, AccountedRow, SoundIn
<1> QED
  BY <1>1, <1>3 DEF Orphan, Accepted

(* Every step but the first of a cycle goes on with what was read, or forgets it. *)
CycleSteady == /\ SameReading
               /\ pc' \in Buying => gate'
               /\ pc' # "idle" /\ gate' => pc # "idle" /\ gate
               /\ Offline'

LEMMA ForgetSteady ==
    ASSUME Forget PROVE CycleSteady
BY DEF Forget, CycleSteady, SameReading, Reading, First, HeldLoop, Buying, Offline

LEMMA StayingSteady ==
    ASSUME GateKept, Offline, UNCHANGED <<entry_session, connected, cycle>>
    PROVE  CycleSteady
BY DEF CycleSteady, SameReading, Reading, HeldLoop, InHand, ToManage, Current, Before, GateKept,
       Offline, cycle

LEMMA LoopSteady ==
    ASSUME GateKept, Offline, UNCHANGED <<connected, snap, gate>>, todo' \subseteq todo,
           \/ pc = "submitted" /\ pc' = "submitted"
           \/ pc = "protected" /\ pc' = "submitted"
           \/ pc \in {"held", "repaired"} /\ pc' \in {"held", "repaired"}
           \/ pc = "held" /\ pc' = "send" /\ sent' = "QTYFAIL"
           \/ pc = "send" /\ pc' = "sent" /\ sent' = sent
           \/ pc = "sent" /\ sent = "QTYFAIL" /\ pc' = "held"
           \/ pc = "sent" /\ sent # "QTYFAIL" /\ pc' = "exits"
           \/ pc = "exits" /\ pc' = "exits"
           \/ pc = "exits" /\ pc' = "send" /\ sent' # "QTYFAIL"
           \/ pc \in Buying /\ pc' \in Buying
    PROVE  CycleSteady
<1>1. pc # "idle"
  BY DEF Buying
<1>2. pc' \in Buying => gate'
  BY DEF GateKept, Buying
<1>3. SameReading
  BY DEF SameReading, Reading, First, HeldLoop, InHand, ToManage, Buying
<1> QED
  BY <1>1, <1>2, <1>3 DEF CycleSteady, GateKept, Offline

(* A row in hand has an entry that is over, and its shares are among those read. *)
LEMMA InHandRow ==
    ASSUME TypeInv, Accounts, ReadRows, Reading, NEW p \in Packets,
           InHand(p) \/ Recoverable(p) \/ EntryFilled(p)
    PROVE  /\ Settled(Snapshot(p, "ENTRY")) /\ Settled(orders[p]["ENTRY"])
           /\ held[p] <= SnapPosition(p)
<1>c. CycleTypeOK
  BY DEF TypeInv, TypeOK
<1>1. ReadRow(p) /\ SoundIn(snap.orders, SnapPosition(p), p)
  BY DEF ReadRows, ReadRow
<1>2. Snapshot(p, "ENTRY").status \in Statuses
  BY <1>c, EntryIsKind DEF Snapshot, CycleTypeOK, Readings, Order
<1>3. Settled(Snapshot(p, "ENTRY"))
  BY <1>1, <1>2 DEF ReadRow, Recoverable, EntryFilled, Ordered, SoundIn, Snapshot, Settled,
                    Statuses, Working
<1> QED
  BY <1>1, <1>3 DEF ReadRow, Settled, Working

(* The row whose protection is being placed has an entry that is over.          *)
LEMMA ProtectSteady ==
    ASSUME TypeInv, Accounts, ReadRows, GateKept, Offline,
           UNCHANGED <<entry_session, connected, snap, gate, todo>>,
           NEW p \in Packets, Current(p), pc = "submitted" \/ InHand(p), pc \in First,
           pc = "submitted" => Recoverable(p) \/ EntryFilled(p), pc' \in {"protect", "protected"}
    PROVE  CycleSteady
<1>b. LedgerTypeOK /\ CycleTypeOK
  BY DEF TypeInv, TypeOK
<1>1. Settled(Snapshot(p, "ENTRY"))
  <2>1. Reading /\ (InHand(p) \/ Recoverable(p) \/ EntryFilled(p))
    BY DEF Reading
  <2> QED
    BY <2>1, InHandRow
<1>2. \A q \in Packets : Current(q)' => q = p
  BY <1>b, OneCurrent DEF Current, Before
<1>3. \A q \in Packets : InHand(q)' => InHand(q) \/ q = p
  BY <1>2 DEF InHand, ToManage, First
<1>4. SameReading
  BY <1>1, <1>3 DEF SameReading, Reading
<1> QED
  BY <1>4 DEF CycleSteady, Buying, GateKept, Offline, First

LEMMA PlaceSteady ==
    ASSUME TypeInv, Accounts, ReadRows, GateKept, Offline, NEW p \in Packets, Protect(p) \/ Repair(p)
    PROVE  CycleSteady
<1>1. ASSUME NEW next \in {"protected", "repaired"}, PlaceProtective(p, SnapPosition(p), next)
      PROVE  \/ CycleSteady
             \/ pc' = next /\ UNCHANGED <<ledger, connected, todo, snap, gate, sent>>
  BY <1>1, ForgetSteady DEF PlaceProtective, Raise, Goto
<1>2. CASE Protect(p)
  <2>1. PlaceProtective(p, SnapPosition(p), "protected") /\ Current(p) /\ pc \in First
    BY <1>2 DEF Protect, First
  <2>2. CASE CycleSteady
    BY <2>2
  <2>3. CASE pc' = "protected" /\ UNCHANGED <<ledger, connected, todo, snap, gate, sent>>
    <3>1. pc = "submitted" => Recoverable(p) \/ EntryFilled(p)
      BY <1>2 DEF Protect
    <3>2. pc = "submitted" \/ InHand(p)
      BY <1>2, <2>1 DEF Protect, InHand
    <3> QED
      BY <2>1, <2>3, <3>1, <3>2, ProtectSteady DEF ledger
  <2> QED
    BY <1>1, <2>1, <2>2, <2>3
<1>3. CASE Repair(p)
  <2>1. PlaceProtective(p, SnapPosition(p), "repaired") /\ pc = "held"
    BY <1>3 DEF Repair, Managing
  <2>2. CASE CycleSteady
    BY <2>2
  <2>3. CASE pc' = "repaired" /\ UNCHANGED <<ledger, connected, todo, snap, gate, sent>>
    BY <2>1, <2>3, LoopSteady
  <2> QED
    BY <1>1, <2>1, <2>2, <2>3
<1> QED
  BY <1>2, <1>3

LEMMA NextSteady ==
    ASSUME TypeInv, Accounts, ReadRows, GateKept, Offline, [Next]_vars, ~Connect, ~BeginCycle
    PROVE  CycleSteady
<1>1. CASE Clock \/ Broker \/ UNCHANGED vars
  BY <1>1, StayingSteady DEF Clock, Broker, vars, ledger
<1>2. ASSUME NEW p \in Packets, Discover(p) PROVE CycleSteady
  BY <1>2 DEF Discover, cycle, CycleSteady, SameReading, Reading, First, HeldLoop, Buying, Offline,
              GateKept
<1>3. CASE EndCycle \/ CycleFails
  BY <1>3, ForgetSteady DEF EndCycle, CycleFails
<1>4. CASE StartHeld
  BY <1>4 DEF StartHeld, Goto, CycleSteady, SameReading, Reading, First, HeldLoop, InHand, ToManage,
              Buying, GateKept, Offline
<1>5. CASE StartExits
  BY <1>5 DEF StartExits, Goto, CycleSteady, SameReading, Reading, First, HeldLoop, Buying, GateKept,
              Offline
<1>6. CASE StartEntries
  BY <1>6 DEF StartEntries, Goto, CycleSteady, SameReading, Reading, First, HeldLoop, Buying,
              GateKept, Offline
<1>7. ASSUME NEW p \in Packets,
             \/ StillWaiting(p) \/ EntryEndsUnfilled(p) \/ CommitProtection(p) \/ ReopenTimed(p)
             \/ Close(p) \/ Flatten(p) \/ CommitRepair(p) \/ LeaveAlone(p) \/ NotYet(p)
             \/ ChooseExit(p)
      PROVE  CycleSteady
  BY <1>7, LoopSteady DEF StillWaiting, EntryEndsUnfilled, CommitProtection, ReopenTimed, Close,
           Flatten, CommitRepair, LeaveAlone, NotYet, ChooseExit, Managing, NextRow, Done, Goto,
           ledger
<1>8. ASSUME NEW p \in Packets, CancelRemainder(p) PROVE CycleSteady
  <2>1. pc = "submitted" /\ pc' = "protect" /\ Current(p) /\ EntryFilled(p)
    BY <1>8 DEF CancelRemainder, Goto
  <2> QED
    BY <1>8, <2>1, ProtectSteady DEF CancelRemainder, First, ledger
<1>9. ASSUME NEW p \in Packets, Protect(p) \/ Repair(p) PROVE CycleSteady
  BY <1>9, PlaceSteady
<1>10. ASSUME NEW p \in Packets, ProtectionFails(p) PROVE CycleSteady
  BY <1>10, ForgetSteady DEF ProtectionFails, Raise
<1>11. ASSUME NEW p \in Packets, SendExit(p) \/ CommitExit(p) PROVE CycleSteady
  <2>1. CASE Forget
    BY <2>1, ForgetSteady
  <2>2. CASE ~Forget
    BY <1>11, <2>2, LoopSteady DEF SendExit, CommitExit, Raise, Goto, Done, ledger
  <2> QED
    BY <2>1, <2>2
<1>12. ASSUME NEW p \in Packets,
              \/ Suppress(p) \/ MissBoundary(p) \/ FixExitSession(p) \/ SendEntry(p)
              \/ CommitEntry(p)
       PROVE  CycleSteady
  <2>1. CASE Forget
    BY <2>1, ForgetSteady
  <2>2. CASE ~Forget
    BY <1>12, <2>2, LoopSteady DEF Suppress, MissBoundary, FixExitSession, SendEntry, CommitEntry,
                                   Raise, Goto, Done, Buying, ledger
  <2> QED
    BY <2>1, <2>2
<1> QED
  BY <1>1, <1>2, <1>3, <1>4, <1>5, <1>6, <1>7, <1>8, <1>9, <1>10, <1>11, <1>12 DEF Next, Runner

(* Every row that is written is written as its orders and shares allow.         *)
LEMMA RowSteps ==
    ASSUME SessionInv, OwnersInv, TimedInv, AccountInv, [Next]_vars, NEW p \in Packets
    PROVE  RowStep(p)
<1>b. TypeInv /\ LedgerTypeOK /\ CycleTypeOK
  BY DEF SessionInv, TypeInv, TypeOK
<1>a. Accounts /\ ReadRows /\ GateKept /\ AdoptedFirst /\ AccountedRow(p)
  BY DEF AccountInv, OwnersInv, Accounts
<1>u. CASE UNCHANGED <<live_state, live_quantity>>
  BY <1>u DEF RowStep
<1>1. CASE BeginCycle
  <2>1. CASE AdoptedEntry(p)
    BY <1>1, <2>1 DEF BeginCycle, AdoptedEntry, RowStep
  <2>2. CASE ~AdoptedEntry(p) /\ AdoptedExit(p)
    BY <1>1, <1>a, <2>2 DEF BeginCycle, AdoptedExit, RowStep, AccountedRow
  <2>3. CASE ~AdoptedEntry(p) /\ ~AdoptedExit(p)
    BY <1>1, <2>3 DEF BeginCycle, RowStep
  <2> QED
    BY <2>1, <2>2, <2>3
<1>2. ASSUME NEW x \in Packets, EntryEndsUnfilled(x) \/ Close(x) PROVE RowStep(p)
  <2>1. /\ live_quantity' = live_quantity /\ live_state'[x] \in Ended
        /\ x # p => live_state'[p] = live_state[p]
    BY <1>2, <1>b DEF EntryEndsUnfilled, Close, Set, Ended, LedgerTypeOK
  <2>2. held[x] = 0 /\ orders[x]["ENTRY"].status \notin Working
    BY <1>2, <1>a, <1>b, RowEnds
  <2> QED
    BY <2>1, <2>2 DEF RowStep
<1>3. ASSUME NEW x \in Packets, CommitProtection(x) \/ ReopenTimed(x) PROVE RowStep(p)
  <2>1. /\ live_state'[x] = "open" /\ live_quantity'[x] = SnapPosition(x)
        /\ x # p => live_state'[p] = live_state[p] /\ live_quantity'[p] = live_quantity[p]
    BY <1>3, <1>b DEF CommitProtection, ReopenTimed, Set, LedgerTypeOK
  <2>2. Reading /\ InHand(x)
    BY <1>3 DEF CommitProtection, ReopenTimed, Reading, First, HeldLoop, InHand, ToManage, Current
  <2>3. held[x] <= SnapPosition(x) /\ Settled(orders[x]["ENTRY"])
    BY <1>a, <1>b, <2>2, InHandRow
  <2> QED
    BY <2>1, <2>3 DEF RowStep
<1>4. ASSUME NEW x \in Packets, CommitExit(x) PROVE RowStep(p)
  <2>1. CASE Raise
    BY <1>u, <2>1 DEF Raise, ledger
  <2>2. CASE ~Raise
    <3>1. /\ live_quantity' = live_quantity /\ live_state'[x] = "closing"
          /\ x # p => live_state'[p] = live_state[p]
      BY <1>4, <1>b, <2>2 DEF CommitExit, Set, LedgerTypeOK
    <3>2. live_state[x] = "open"
      BY <1>4 DEF CommitExit, TimedInv, LoopRows
    <3> QED
      BY <1>a, <3>1, <3>2 DEF RowStep, AccountedRow
  <2> QED
    BY <2>1, <2>2
<1>5. CASE StartExits
  BY <1>5, <1>a, <1>b, RowEnds DEF StartExits, RowStep, Ended
<1>6. CASE StartEntries
  <2>1. /\ live_quantity' = live_quantity
        /\ \/ live_state'[p] = live_state[p]
           \/ live_state[p] = "queued" /\ live_state'[p] \in Ended
    BY <1>6 DEF StartEntries, DueToday, Rows, Ended
  <2>2. gate /\ pc \in {"exits", "entries"}
    BY <1>6 DEF StartEntries
  <2> QED
    BY <1>a, <1>b, <2>1, <2>2, QueuedEnds DEF RowStep
<1>7. ASSUME NEW x \in Packets, Suppress(x) \/ MissBoundary(x) PROVE RowStep(p)
  <2>1. pc = "entries" /\ x \in todo
    BY <1>7 DEF Suppress, MissBoundary, Current
  <2>2. /\ live_quantity' = live_quantity
        /\ \/ live_state'[p] = live_state[p]
           \/ p \in todo /\ live_state'[p] \in Ended
    BY <1>7, <1>b, <2>1 DEF Suppress, MissBoundary, Set, Ended, LedgerTypeOK
  <2>3. gate /\ (p \in todo => live_state[p] = "queued")
    BY <1>a, <2>1 DEF GateKept, Buying, SessionInv, StillQueued
  <2> QED
    BY <1>a, <1>b, <2>1, <2>2, <2>3, QueuedEnds DEF RowStep
<1>8. ASSUME NEW x \in Packets, CommitEntry(x) PROVE RowStep(p)
  <2>1. CASE Raise
    BY <1>u, <2>1 DEF Raise, ledger
  <2>2. CASE ~Raise
    <3>1. /\ live_state[x] = "queued" /\ live_state'[x] = "submitted"
          /\ x # p => live_state'[p] = live_state[p] /\ live_quantity'[p] = live_quantity[p]
      BY <1>8, <1>b, <2>2 DEF CommitEntry, Set, Current, SessionInv, StillQueued, LedgerTypeOK
    <3> QED
      BY <3>1 DEF RowStep
  <2> QED
    BY <2>1, <2>2
<1>9. ASSUME NEW x \in Packets, Discover(x) PROVE RowStep(p)
  BY <1>9, <1>b DEF Discover, Set, RowStep, LedgerTypeOK
<1>10. CASE Connect \/ StartHeld \/ EndCycle \/ Clock \/ Broker \/ CycleFails \/ UNCHANGED vars
  BY <1>10, <1>u DEF Connect, StartHeld, EndCycle, Clock, Broker, CycleFails, vars, ledger
<1>11. ASSUME NEW x \in Packets,
              \/ StillWaiting(x) \/ CancelRemainder(x) \/ Protect(x) \/ ProtectionFails(x)
              \/ Flatten(x) \/ Repair(x) \/ CommitRepair(x) \/ LeaveAlone(x)
              \/ NotYet(x) \/ ChooseExit(x) \/ SendExit(x) \/ FixExitSession(x) \/ SendEntry(x)
       PROVE  RowStep(p)
  BY <1>11, <1>u DEF StillWaiting, CancelRemainder, Protect, ProtectionFails, Flatten, Repair,
           CommitRepair, LeaveAlone, NotYet, ChooseExit, SendExit, FixExitSession, SendEntry,
           PlaceProtective, Raise, ledger
<1> QED
  BY <1>1, <1>2, <1>3, <1>4, <1>5, <1>6, <1>7, <1>8, <1>9, <1>10, <1>11 DEF Next, Runner

(* What a step does to the account, as far as the rest has to know.            *)
AccountStep == Accounts' /\ OwnersKept /\ ReadingHolds

LEMMA FadingStep ==
    ASSUME TypeInv, TypeInv', Accounts, UNCHANGED <<held, position, live_state, live_quantity>>,
           \A p \in Packets, k \in Kinds : Aged(orders[p][k], orders'[p][k])
    PROVE  AccountStep
<1>1. Accounts'
  BY FadedAccounts DEF Fades
<1>2. \A p \in Packets : held'[p] \in Int /\ held'[p] <= held[p]
  BY DEF TypeInv, TypeOK, BrokerTypeOK
<1>3. OwnersKept /\ ReadingHolds
  BY <1>2, AgedKeeps, EntryIsKind
<1> QED
  BY <1>1, <1>3 DEF AccountStep

LEMMA PlacingStep ==
    ASSUME TypeInv, TypeInv', Accounts, UNCHANGED <<held, position, live_state, live_quantity>>,
           NEW p \in Packets, NEW q \in Int, held[p] <= q, Settled(orders[p]["ENTRY"]),
           live_state[p] \notin {"absent", "queued"},
           \A x \in Packets, k \in Kinds :
              \/ orders'[x][k] = orders[x][k]
              \/ x = p /\ k \in ExitKinds /\ Sellable(p, q) /\ orders'[x][k] = NewOrder(q)
    PROVE  AccountStep
<1>1. Accounts' /\ \A x \in Packets : orders'[x]["ENTRY"] = orders[x]["ENTRY"]
  BY PlacedAccounts
<1>2. \A x \in Packets : /\ held'[x] \in Int /\ held'[x] <= held[x]
                         /\ Aged(orders[x]["ENTRY"], orders'[x]["ENTRY"])
  BY <1>1 DEF TypeInv, TypeOK, BrokerTypeOK, Aged
<1> QED
  BY <1>1, <1>2, AgedKeeps DEF AccountStep

LEMMA BrokerStep ==
    ASSUME Apart, Whole, TypeInv, TypeInv', Accounts, Broker
    PROVE  AccountStep
<1>0. UNCHANGED <<live_state, live_quantity>>
  BY DEF Broker, ledger
<1>1. ASSUME NEW p \in Packets, EntryFill(p) PROVE AccountStep
  BY <1>0, <1>1, BoughtAccounts, BoughtKeeps DEF AccountStep
<1>2. ASSUME NEW p \in Packets, NEW k \in ExitKinds, ExitFill(p, k) PROVE AccountStep
  <2>1. /\ Accounts'
        /\ \A q \in Packets : held'[q] <= held[q] /\ orders'[q]["ENTRY"] = orders[q]["ENTRY"]
    BY <1>0, <1>2, SoldAccounts
  <2>2. \A q \in Packets : held'[q] \in Int /\ Aged(orders[q]["ENTRY"], orders'[q]["ENTRY"])
    BY <2>1 DEF TypeInv, TypeOK, BrokerTypeOK, Aged
  <2> QED
    BY <1>0, <2>1, <2>2, AgedKeeps DEF AccountStep
<1>3. ASSUME NEW p \in Packets, CancelTakesEffect(p) \/ \E k \in Kinds : BrokerCancel(p, k)
      PROVE  AccountStep
  <2>1. UNCHANGED <<held, position>>
    BY <1>3 DEF CancelTakesEffect, BrokerCancel
  <2>2. \A x \in Packets, k \in Kinds : Aged(orders[x][k], orders'[x][k])
    BY <1>3, Aging
  <2> QED
    BY <1>0, <2>1, <2>2, FadingStep
<1> QED
  BY <1>1, <1>2, <1>3 DEF Broker

LEMMA ProtectionStep ==
    ASSUME SessionInv, TypeInv', TimedInv, AccountInv, NEW p \in Packets, Protect(p) \/ Repair(p)
    PROVE  AccountStep
<1>b. TypeInv /\ CycleTypeOK /\ BrokerTypeOK /\ Accounts /\ ReadRows /\ SnapPosition(p) \in Int
  BY ReadingType DEF SessionInv, TypeInv, TypeOK, AccountInv
<1>1. PICK next \in {"protected", "repaired"} : PlaceProtective(p, SnapPosition(p), next)
  BY DEF Protect, Repair
<1>2. UNCHANGED <<held, position, live_state, live_quantity>>
  BY <1>1 DEF Protect, Repair, PlaceProtective, Raise, ledger
<1>3. live_state[p] \notin {"absent", "queued"}
  BY DEF Protect, Repair, Managing, Current, TimedInv, LoopRows, First, ToManage, HeldLoop, HeldRow
<1>4. Reading /\ (InHand(p) \/ Recoverable(p) \/ EntryFilled(p))
  BY DEF Protect, Repair, Managing, Current, Reading, First, HeldLoop, InHand, ToManage
<1>5. held[p] <= SnapPosition(p) /\ Settled(orders[p]["ENTRY"])
  BY <1>b, <1>4, InHandRow
<1>6. ASSUME NEW kinds \in SUBSET {"STOP", "TARGET"}, ~Refused(p, SnapPosition(p)),
             orders' = WithProtection(p, SnapPosition(p), kinds), NEW x \in Packets, NEW k \in Kinds
      PROVE  \/ orders'[x][k] = orders[x][k]
             \/ /\ x = p /\ k \in ExitKinds /\ Sellable(p, SnapPosition(p))
                /\ orders'[x][k] = NewOrder(SnapPosition(p))
  <2>1. CASE x = p /\ k \in kinds /\ orders[p][k].status \notin Working
    BY <1>6, <1>b, <2>1, EntryIsKind DEF WithProtection, Refused, BrokerTypeOK
  <2>2. CASE ~(x = p /\ k \in kinds /\ orders[p][k].status \notin Working)
    BY <1>6, <1>b, <2>2 DEF WithProtection, BrokerTypeOK
  <2> QED
    BY <2>1, <2>2
<1>7. ASSUME NEW x \in Packets, NEW k \in Kinds
      PROVE  \/ orders'[x][k] = orders[x][k]
             \/ /\ x = p /\ k \in ExitKinds /\ Sellable(p, SnapPosition(p))
                /\ orders'[x][k] = NewOrder(SnapPosition(p))
  <2>1. {"STOP"} \in SUBSET {"STOP", "TARGET"} /\ {"STOP", "TARGET"} \in SUBSET {"STOP", "TARGET"}
    OBVIOUS
  <2> QED
    BY <1>1, <1>6, <2>1 DEF PlaceProtective
<1> QED
  BY <1>b, <1>2, <1>3, <1>5, <1>7, PlacingStep

LEMMA ExitStep ==
    ASSUME SessionInv, TypeInv', TimedInv, AccountInv, NEW p \in Packets, SendExit(p), Sendable(p)
    PROVE  AccountStep
<1>b. TypeInv /\ CycleTypeOK /\ BrokerTypeOK /\ Accounts /\ ReadRows /\ AccountedRow(p)
  BY DEF SessionInv, TypeInv, TypeOK, AccountInv, Accounts
<1>1. /\ pc = "send" /\ Current(p) /\ orders' = WithOrder(p, sent, SendQuantity(p))
      /\ UNCHANGED <<held, position, live_state, live_quantity>>
  BY DEF SendExit, ledger
<1>2. live_state[p] = "open" /\ sent \in TimedKinds /\ sent \in ExitKinds
  BY <1>1, TimedAreKinds, EntryIsKind DEF TimedInv, LoopRows
<1>3. Settled(orders[p]["ENTRY"])
  BY <1>b, <1>2 DEF AccountedRow
<1>4. SendQuantity(p) \in Int /\ held[p] <= SendQuantity(p)
  <2>1. CASE sent = "QTYFAIL"
    <3>1. Reading /\ InHand(p)
      BY <1>1, <2>1 DEF Reading, HeldLoop, InHand, ToManage, First, Current
    <3> QED
      BY <1>b, <2>1, <3>1, InHandRow, ReadingType DEF SendQuantity
  <2>2. CASE sent # "QTYFAIL"
    BY <1>b, <1>2, <2>2 DEF SendQuantity, AccountedRow, TypeInv, TypeOK, LedgerTypeOK
  <2> QED
    BY <2>1, <2>2
<1>5. ASSUME NEW x \in Packets, NEW k \in Kinds
      PROVE  \/ orders'[x][k] = orders[x][k]
             \/ /\ x = p /\ k \in ExitKinds /\ Sellable(p, SendQuantity(p))
                /\ orders'[x][k] = NewOrder(SendQuantity(p))
  <2>1. CASE x = p /\ k = sent
    BY <1>1, <1>2, <1>b, <2>1 DEF WithOrder, Sendable, BrokerTypeOK
  <2>2. CASE ~(x = p /\ k = sent)
    BY <1>1, <1>b, <2>2 DEF WithOrder, BrokerTypeOK
  <2> QED
    BY <2>1, <2>2
<1> QED
  BY <1>b, <1>1, <1>2, <1>3, <1>4, <1>5, PlacingStep

(* Every step but a connection and an entry order is such a step.               *)
LEMMA StepKinds ==
    ASSUME Apart, Whole, SessionInv, OwnersInv, TimedInv, AccountInv, [Next]_vars
    PROVE  Connect \/ AccountStep \/ \E p \in Packets : SendEntry(p) /\ CalendarGate
<1>b. TypeInv /\ TypeInv' /\ BrokerTypeOK /\ Accounts /\ ReadRows
  BY NextType DEF SessionInv, TypeInv, TypeOK, AccountInv
<1>w. ASSUME UNCHANGED brokerVars PROVE AccountStep
  <2>1. \A p \in Packets : RowStep(p)
    BY RowSteps
  <2> QED
    BY <1>b, <1>w, <2>1, WrittenAccounts DEF AccountStep, brokerVars
<1>1. CASE Clock
  <2>1. Tick /\ UNCHANGED <<held, position, live_state, live_quantity>>
    BY <1>1 DEF Clock, Tick, ledger
  <2>2. \A p \in Packets, k \in Kinds : Aged(orders[p][k], orders'[p][k])
    BY <1>b, <2>1, Aging
  <2> QED
    BY <1>b, <2>1, <2>2, FadingStep
<1>2. CASE Broker
  BY <1>b, <1>2, BrokerStep
<1>3. ASSUME NEW p \in Packets, CancelRemainder(p) PROVE AccountStep
  <2>1. orders' = WithCancel(p) /\ UNCHANGED <<held, position, live_state, live_quantity>>
    BY <1>3 DEF CancelRemainder, ledger
  <2>2. \A x \in Packets, k \in Kinds : Aged(orders[x][k], orders'[x][k])
    BY <1>b, <2>1, Aging
  <2> QED
    BY <1>b, <2>1, <2>2, FadingStep
<1>4. ASSUME NEW p \in Packets, Protect(p) \/ Repair(p) PROVE AccountStep
  BY <1>b, <1>4, ProtectionStep
<1>5. ASSUME NEW p \in Packets, SendExit(p) PROVE AccountStep
  <2>1. CASE Sendable(p)
    BY <1>b, <1>5, <2>1, ExitStep
  <2>2. CASE ~Sendable(p)
    BY <1>5, <1>w, <2>2 DEF SendExit, brokerVars
  <2> QED
    BY <2>1, <2>2
<1>6. ASSUME NEW p \in Packets, SendEntry(p), ~CalendarGate PROVE AccountStep
  BY <1>6, <1>w DEF SendEntry, brokerVars
<1>7. ASSUME NEW p \in Packets,
             \/ StillWaiting(p) \/ EntryEndsUnfilled(p) \/ CommitProtection(p)
             \/ ProtectionFails(p) \/ ReopenTimed(p) \/ Close(p) \/ Flatten(p)
             \/ CommitRepair(p) \/ LeaveAlone(p) \/ NotYet(p) \/ ChooseExit(p)
             \/ CommitExit(p) \/ Suppress(p) \/ MissBoundary(p) \/ FixExitSession(p)
             \/ CommitEntry(p) \/ Discover(p)
      PROVE  AccountStep
  <2>1. UNCHANGED brokerVars
    BY <1>7 DEF StillWaiting, EntryEndsUnfilled, CommitProtection, ProtectionFails, ReopenTimed,
                Close, Flatten, CommitRepair, LeaveAlone, NotYet, ChooseExit, CommitExit, Suppress,
                MissBoundary, FixExitSession, CommitEntry, Discover
  <2> QED
    BY <1>w, <2>1
<1>8. CASE \/ BeginCycle \/ StartHeld \/ StartExits \/ StartEntries \/ EndCycle \/ CycleFails
           \/ UNCHANGED vars
  BY <1>8, <1>w DEF BeginCycle, StartHeld, StartExits, StartEntries, EndCycle, CycleFails, vars
<1> QED
  BY <1>1, <1>2, <1>3, <1>4, <1>5, <1>6, <1>7, <1>8 DEF Next, Runner

(* The cycle begins with what is true at that moment.                           *)
LEMMA AccountsBegin ==
    ASSUME Apart, TypeInv, TypeInv', AccountInv, AccountStep, BeginCycle
    PROVE  AccountInv'
<1>1. /\ pc' = "submitted" /\ connected /\ connected' = connected
      /\ snap'.orders = orders /\ snap'.position = position
      /\ snap'.managed = {p \in Packets : live_state'[p] \in {"open", "closing"}}
      /\ UNCHANGED <<orders, held, position>>
  BY DEF BeginCycle, Goto, brokerVars
<1>2. ASSUME NEW p \in Packets PROVE ReadRow(p)'
  <2>1. AccountedRow(p)'
    BY DEF AccountStep, Accounts
  <2>2. /\ SnapPosition(p)' = held'[p]
        /\ Snapshot(p, "ENTRY")' = orders'[p]["ENTRY"]
        /\ held'[p] \in Int
    BY <1>1, <2>1 DEF AccountedRow, SnapPosition, Snapshot, TypeInv, TypeOK, BrokerTypeOK
  <2>3. SoundIn(snap.orders, SnapPosition(p), p)'
    BY <1>1, <2>1, <2>2 DEF AccountedRow, SoundIn
  <2>4. InHand(p)' => live_state'[p] \in {"open", "closing"}
    BY <1>1 DEF InHand, ToManage, First
  <2> QED
    BY <2>1, <2>2, <2>3, <2>4 DEF ReadRow, AccountedRow
<1>3. ASSUME gate', NEW p \in Packets, held'[p] > 0 PROVE p \in Active'
  <2>1. ~Unexpected(live_state')
    BY <1>3 DEF BeginCycle
  <2>2. position[Symbol[p]] # 0 /\ Symbol[p] \in Symbols
    BY <1>1, <1>3 DEF AccountInv, Accounts, AccountedRow
  <2>3. PICK q \in Packets : /\ Symbol[q] = Symbol[p]
                             /\ live_state'[q] \in {"submitted", "open", "closing"}
    BY <2>1, <2>2 DEF Unexpected
  <2> QED
    BY <2>3 DEF Apart, Active, Rows
<1> QED
  BY <1>1, <1>2, <1>3 DEF AccountInv, AccountStep, ReadRows, GateKept, Offline, Owner, Buying

LEMMA NextAccount ==
    ASSUME Apart, Whole, SessionInv, OwnersInv, TimedInv, AccountInv, [Next]_vars
    PROVE  AccountInv'
<1>b. /\ TypeInv /\ TypeInv' /\ BrokerTypeOK
      /\ Accounts /\ ReadRows /\ GateKept /\ Offline
  BY NextType DEF SessionInv, TypeInv, TypeOK, AccountInv
<1>1. CASE Connect
  <2>1. \A p \in Packets, k \in Kinds : Fades(orders[p][k], orders'[p][k])
    BY <1>1 DEF Connect, Resynced, Fades, Aged
  <2>2. Accounts'
    BY <1>1, <1>b, <2>1, FadedAccounts DEF Connect, ledger
  <2>3. pc' = "idle" /\ connected'
    BY <1>1, <1>b DEF Connect, Offline, cycle
  <2> QED
    BY <2>2, <2>3 DEF AccountInv, ReadRows, Reading, First, HeldLoop, GateKept, Buying, Offline
<1>2. ASSUME NEW p \in Packets, SendEntry(p), CalendarGate PROVE AccountInv'
  <2>1. /\ pc = "buy" /\ pc' = "bought" /\ Current(p) /\ orders' = WithOrder(p, "ENTRY", Quantity)
        /\ UNCHANGED <<held, position, live_state, live_quantity, connected, gate>>
    BY <1>2 DEF SendEntry, Goto, ledger
  <2>2. live_state[p] = "queued" /\ gate
    BY <2>1, <1>b DEF SessionInv, StillQueued, Current, GateKept, Buying
  <2>3. held[p] > 0 => Accepted(orders[p]["ENTRY"])
    BY <2>1, <2>2, <1>b DEF GateKept, Owner, Orphan, Active, Rows
  <2>4. Accounts'
    BY <1>b, <2>1, <2>2, <2>3, OrderedAccounts
  <2>5. \A q \in Packets : Accepted(orders[q]["ENTRY"]) => Accepted(orders'[q]["ENTRY"])
    BY <1>b, <2>1, EntryIsKind DEF WithOrder, BrokerTypeOK
  <2>6. OwnersKept
    BY <2>1, <2>5 DEF OwnersKept, Owner, Orphan, Active, Rows
  <2>7. GateKept'
    BY <1>b, <2>1, <2>2, <2>6, GateOn
  <2> QED
    BY <1>b, <2>1, <2>4, <2>7 DEF AccountInv, ReadRows, Reading, First, HeldLoop, Offline
<1>3. CASE AccountStep /\ BeginCycle
  BY <1>b, <1>3, AccountsBegin
<1>4. CASE AccountStep /\ ~Connect /\ ~BeginCycle
  <2>1. CycleSteady
    BY <1>b, <1>4, NextSteady
  <2> QED
    BY <1>b, <1>4, <2>1, ReadsOn, GateOn DEF AccountInv, AccountStep, CycleSteady
<1> QED
  BY <1>1, <1>2, <1>3, <1>4, StepKinds

LEMMA InitAccount == Init => AccountInv
<1> SUFFICES ASSUME Init PROVE AccountInv
  OBVIOUS
<1>1. \A p \in Packets : /\ held[p] = 0 /\ position[Symbol[p]] = 0 /\ live_state[p] = "absent"
                         /\ \A k \in Kinds : orders[p][k] = NoOrder
  BY DEF Init, BrokerInit
<1>2. \A p \in Packets : SoundIn(orders, held[p], p)
  BY <1>1, EntryIsKind DEF SoundIn, NoOrder, Working
<1>3. Accounts
  BY <1>1, <1>2, EntryIsKind DEF Accounts, AccountedRow, NoOrder, Working
<1>4. ReadRows /\ GateKept /\ Offline
  BY DEF Init, ReadRows, Reading, First, HeldLoop, GateKept, Buying, Offline
<1> QED
  BY <1>3, <1>4 DEF AccountInv

(* While the account holds shares no active row accounts for, no entry is sent, also when  *)
(* the cycle that read the account has waited since (_account_gate, _adopt_broker_orders). *)
THEOREM NothingBoughtOverUnknown == Apart /\ Whole /\ Spec => NoEntryOverUnknown
<1>1. ASSUME Apart, Whole, SessionInv, OwnersInv, TimedInv, AccountInv, [Next]_vars
      PROVE  [\A p, q \in Packets :
                Placed(p, "ENTRY") /\ held[q] > 0 => \E r \in Active : Symbol[r] = Symbol[q]]_vars
  <2> SUFFICES ASSUME Next, NEW p \in Packets, NEW q \in Packets, Placed(p, "ENTRY"), held[q] > 0
               PROVE  q \in Active
    BY <1>1 DEF vars
  <2>b. BrokerTypeOK
    BY <1>1 DEF SessionInv, TypeInv, TypeOK
  <2>1. ~Connect
    BY <2>b, EntryIsKind DEF Connect, Resynced, Placed, NoOrder, Working, BrokerTypeOK
  <2>2. ~AccountStep
    BY DEF AccountStep, ReadingHolds, Placed
  <2>3. PICK x \in Packets : SendEntry(x) /\ CalendarGate
    BY <1>1, <2>1, <2>2, StepKinds
  <2>4. pc = "buy" /\ gate
    BY <1>1, <2>3 DEF SendEntry, AccountInv, GateKept, Buying
  <2>5. Owner(q) /\ ~Orphan(q)
    BY <1>1, <2>4 DEF AccountInv, GateKept, OwnersInv, AdoptedFirst
  <2> QED
    BY <2>5 DEF Owner
<1>2. CASE Apart /\ Whole
  <2>1. AccountInv /\ SessionInv /\ OwnersInv /\ TimedInv /\ [Next]_vars => AccountInv'
    BY <1>2, NextAccount
  <2> QED
    BY <1>1, <1>2, <2>1, InitAccount, InitSession, NextSession, InitManaged, NextManaged, InitOwners,
       NextOwners, InitTimed, NextTimed, PTL DEF Spec, NoEntryOverUnknown
<1>3. CASE ~(Apart /\ Whole)
  BY <1>3
<1> QED
  BY <1>2, <1>3

----------------------------------------------------------------------------
(* Slots.  A packet is known when a row, an accepted order of a queued row, or *)
(* shares speak of it.  Only an entry order makes one known, for a slot a cycle *)
(* counted when all that was known was active.                                  *)
Known == {p \in Packets : Owner(p) \/ held[p] > 0}
SlotInv == /\ Cardinality(Known) <= MaxSlots
           /\ pc \in Buying => slots + Cardinality(Active) <= MaxSlots

LEMMA Counts ==
    ASSUME NEW A, NEW B, B \subseteq Packets, A \subseteq B
    PROVE  Cardinality(A) \in Nat /\ Cardinality(B) \in Nat /\ Cardinality(A) <= Cardinality(B)
<1>1. IsFiniteSet(B)
  BY FS_Subset
<1> QED
  BY <1>1, FS_Subset, FS_CardinalityType

LEMMA OneMore ==
    ASSUME NEW A, NEW B, NEW p \in Packets, B \subseteq Packets, A \subseteq B \cup {p}
    PROVE  /\ Cardinality(A) \in Nat /\ Cardinality(B) \in Nat
           /\ Cardinality(A) <= Cardinality(B) + 1
<1>1. IsFiniteSet(B) /\ B \cup {p} \subseteq Packets
  BY FS_Subset
<1>2. Cardinality(B \cup {p}) \in {Cardinality(B), Cardinality(B) + 1}
  BY <1>1, FS_AddElement
<1>3. /\ Cardinality(A) \in Nat /\ Cardinality(B \cup {p}) \in Nat
      /\ Cardinality(A) <= Cardinality(B \cup {p})
  BY <1>1, Counts
<1>4. Cardinality(B) \in Nat
  BY <1>1, FS_CardinalityType
<1> QED
  BY <1>2, <1>3, <1>4

(* Rows become active when the broker's orders are adopted, and when an entry is committed. *)
LEMMA ActiveKept ==
    ASSUME SessionInv, Managed, TimedInv, [Next]_vars,
           NEW p \in Packets, p \in Active', p \notin Active
    PROVE  (BeginCycle /\ AdoptedEntry(p)) \/ CommitEntry(p)
<1>b. LedgerTypeOK
  BY DEF SessionInv, TypeInv, TypeOK
<1> USE DEF Active, Rows
<1>1. CASE UNCHANGED live_state
  BY <1>1
<1>2. CASE BeginCycle
  BY <1>2 DEF BeginCycle, AdoptedExit
<1>3. CASE StartExits \/ StartEntries
  BY <1>3 DEF StartExits, StartEntries
<1>4. CASE Connect \/ StartHeld \/ EndCycle \/ Clock \/ Broker \/ CycleFails \/ UNCHANGED vars
  BY <1>1, <1>4 DEF Connect, StartHeld, EndCycle, Clock, Broker, CycleFails, vars, ledger
<1>5. ASSUME NEW x \in Packets,
             \/ StillWaiting(x) \/ CancelRemainder(x) \/ Protect(x) \/ ProtectionFails(x)
             \/ Flatten(x) \/ Repair(x) \/ CommitRepair(x) \/ LeaveAlone(x)
             \/ NotYet(x) \/ ChooseExit(x) \/ SendExit(x) \/ FixExitSession(x) \/ SendEntry(x)
      PROVE  UNCHANGED live_state
  BY <1>5 DEF StillWaiting, CancelRemainder, Protect, ProtectionFails, Flatten, Repair,
           CommitRepair, LeaveAlone, NotYet, ChooseExit, SendExit, FixExitSession, SendEntry,
           PlaceProtective, Raise, ledger
<1>6. ASSUME NEW x \in Packets,
             \/ EntryEndsUnfilled(x) \/ Close(x) \/ Suppress(x) \/ MissBoundary(x) \/ Discover(x)
      PROVE  FALSE
  BY <1>6, <1>b DEF EntryEndsUnfilled, Close, Suppress, MissBoundary, Discover, Set, LedgerTypeOK
<1>7. ASSUME NEW x \in Packets, CommitProtection(x) \/ ReopenTimed(x) \/ CommitExit(x)
      PROVE  FALSE
  <2>1. x \in Active
    BY <1>7 DEF CommitProtection, ReopenTimed, CommitExit, Current, Managed, Buying
  <2>2. \A q \in Packets : q # x => live_state'[q] = live_state[q]
    BY <1>7, <1>b DEF CommitProtection, ReopenTimed, CommitExit, Raise, ledger, Set, LedgerTypeOK
  <2> QED
    BY <2>1, <2>2
<1>8. ASSUME NEW x \in Packets, CommitEntry(x) PROVE CommitEntry(p)
  <2>1. \A q \in Packets : q # x => live_state'[q] = live_state[q]
    BY <1>8, <1>b DEF CommitEntry, Raise, ledger, Set, LedgerTypeOK
  <2> QED
    BY <1>8, <2>1
<1> QED
  BY <1>1, <1>2, <1>3, <1>4, <1>5, <1>6, <1>7, <1>8 DEF Next, Runner

LEMMA KnownKept ==
    ASSUME Apart, Whole, SessionInv, Managed, OwnersInv, TimedInv, AccountInv, [Next]_vars,
           NEW p \in Packets, p \in Known', p \notin Known
    PROVE  SendEntry(p) \/ CommitEntry(p)
<1>b. BrokerTypeOK /\ BrokerTypeOK' /\ AccountedRow(p)
  BY NextType DEF SessionInv, TypeInv, TypeOK, AccountInv, Accounts
<1>k. ~Owner(p) /\ ~(held[p] > 0) /\ (Owner(p)' \/ held'[p] > 0)
  BY DEF Known
<1>1. ASSUME NEW x \in Packets, SendEntry(x), CalendarGate, x # p PROVE FALSE
  <2>1. /\ orders'[p] = orders[p] /\ UNCHANGED <<held, live_state>>
    BY <1>1, <1>b DEF SendEntry, WithOrder, BrokerTypeOK, ledger
  <2> QED
    BY <1>k, <2>1 DEF Owner, Orphan, Active, Rows
<1>2. ASSUME Connect PROVE FALSE
  <2>1. orders'[p]["ENTRY"] \in {orders[p]["ENTRY"], NoOrder} /\ UNCHANGED <<held, live_state>>
    BY <1>2, EntryIsKind DEF Connect, Resynced, ledger
  <2> QED
    BY <1>k, <2>1 DEF Owner, Orphan, Active, Rows, Accepted, NoOrder, Working
<1>3. ASSUME AccountStep, ~CommitEntry(p) PROVE FALSE
  <2>1. orders[p]["ENTRY"].status \notin Working
    <3>1. orders[p]["ENTRY"].status \in Working => live_state[p] \in {"queued", "submitted"}
      BY <1>b DEF AccountedRow
    <3> QED
      BY <1>k, <3>1 DEF Owner, Orphan, Active, Rows, Accepted
  <2>2. orders'[p]["ENTRY"].status = orders[p]["ENTRY"].status /\ held'[p] <= held[p]
    BY <1>3, <2>1 DEF AccountStep, ReadingHolds
  <2>3. ~(held'[p] > 0)
    BY <1>b, <1>k, <2>2 DEF BrokerTypeOK
  <2>4. p \notin Active'
    BY <1>3, <1>k, ActiveKept DEF Owner, AdoptedEntry, Orphan
  <2>5. Orphan(p)'
    BY <1>k, <2>3, <2>4 DEF Owner
  <2>6. live_state[p] \in {"absent", "queued"} /\ Accepted(orders[p]["ENTRY"])
    BY <2>2, <2>5, RowSteps DEF Orphan, Accepted, RowStep, Ended
  <2> QED
    BY <1>k, <2>6 DEF Owner, Orphan, OwnersInv, NeverOrdered
<1> QED
  BY <1>1, <1>2, <1>3, StepKinds

(* What a cycle that buys does to its count.                                    *)
LEMMA SlotSteps ==
    ASSUME SessionInv, Managed, TimedInv, [Next]_vars, pc' \in Buying
    PROVE  \/ StartEntries
           \/ pc \in Buying /\ slots' = slots /\ Active' \subseteq Active
           \/ pc = "bought" /\ slots' = slots - 1 /\ \E p \in Packets : CommitEntry(p)
<1> USE DEF Buying
<1>1. CASE Connect \/ Clock \/ Broker \/ UNCHANGED vars
  <2>1. UNCHANGED cycle
    BY <1>1 DEF Connect, Clock, Broker, vars
  <2>2. ~BeginCycle /\ \A p \in Packets : ~CommitEntry(p)
    BY <2>1 DEF BeginCycle, CommitEntry, Goto, Forget, Raise, cycle
  <2> QED
    BY <2>1, <2>2, ActiveKept DEF cycle, Active, Rows
<1>2. CASE BeginCycle \/ StartHeld \/ StartExits \/ EndCycle \/ CycleFails
  BY <1>2 DEF BeginCycle, StartHeld, StartExits, EndCycle, CycleFails, Forget, Goto
<1>3. ASSUME NEW p \in Packets,
             \/ StillWaiting(p) \/ EntryEndsUnfilled(p) \/ CancelRemainder(p) \/ Protect(p)
             \/ CommitProtection(p) \/ ProtectionFails(p)
             \/ ReopenTimed(p) \/ Close(p) \/ Flatten(p) \/ Repair(p) \/ CommitRepair(p)
             \/ LeaveAlone(p) \/ NotYet(p) \/ ChooseExit(p) \/ SendExit(p) \/ CommitExit(p)
             \/ Discover(p)
      PROVE  FALSE
  BY <1>3 DEF StillWaiting, EntryEndsUnfilled, CancelRemainder, Protect, CommitProtection,
           ProtectionFails, ReopenTimed, Close, Flatten, Repair, CommitRepair, LeaveAlone, NotYet,
           ChooseExit, SendExit, CommitExit, Discover, PlaceProtective, Managing, Raise, Forget,
           Goto, cycle
<1>4. ASSUME NEW p \in Packets,
             Suppress(p) \/ MissBoundary(p) \/ FixExitSession(p) \/ SendEntry(p)
      PROVE  pc \in Buying /\ slots' = slots /\ Active' \subseteq Active
  <2>1. /\ pc \in {"entries", "buy"} /\ slots' = slots
        /\ ~BeginCycle /\ \A q \in Packets : ~CommitEntry(q)
    BY <1>4 DEF Suppress, MissBoundary, FixExitSession, SendEntry, BeginCycle, CommitEntry, Raise,
             Forget, Goto
  <2> QED
    BY <2>1, ActiveKept DEF Active, Rows
<1>5. ASSUME NEW p \in Packets, CommitEntry(p) PROVE pc = "bought" /\ slots' = slots - 1
  BY <1>5 DEF CommitEntry, Raise, Forget
<1> QED
  BY <1>1, <1>2, <1>3, <1>4, <1>5 DEF Next, Runner

(* An order is sent, and committed, for a slot no other packet has.             *)
LEMMA Bought ==
    ASSUME Apart, Whole, SessionInv, Managed, OwnersInv, TimedInv, AccountInv, SlotInv,
           [Next]_vars, NEW p \in Packets, SendEntry(p) \/ CommitEntry(p)
    PROVE  /\ Cardinality(Known') <= Cardinality(Active) + 1
           /\ Cardinality(Active') <= Cardinality(Active) + 1
           /\ slots \in 1..MaxSlots /\ slots + Cardinality(Active) <= MaxSlots
<1>1. pc \in {"buy", "bought"} /\ Current(p)
  BY DEF SendEntry, CommitEntry
<1>2. slots \in 1..MaxSlots /\ slots + Cardinality(Active) <= MaxSlots
  BY <1>1, CanaryAssumption DEF SlotInv, Buying, SessionInv, TypeInv, TypeOK, CycleTypeOK, SlotLeft
<1>3. \A q \in Packets : Current(q) => q = p
  BY <1>1 DEF SessionInv, TypeInv, TypeOK, LedgerTypeOK, CycleTypeOK, Current, Before
<1>4. Known \subseteq Active \cup {p}
  <2>1. \A q \in Packets : held[q] > 0 => Owner(q)
    BY <1>1 DEF AccountInv, GateKept, Buying
  <2>2. \A q \in Packets : Orphan(q) => q = p
    BY <1>1, <1>3 DEF OwnersInv, AdoptedFirst
  <2> QED
    BY <2>1, <2>2 DEF Known, Owner
<1>5. \A q \in Packets : SendEntry(q) \/ CommitEntry(q) => q = p
  BY <1>3 DEF SendEntry, CommitEntry
<1>6. Known' \subseteq Active \cup {p}
  BY <1>4, <1>5, KnownKept DEF Known
<1>7. Active' \subseteq Known' /\ Active \subseteq Packets
  BY DEF Known, Owner, Active, Rows
<1> QED
  BY <1>2, <1>6, <1>7, OneMore

LEMMA NextSlots ==
    ASSUME Apart, Whole, SessionInv, Managed, OwnersInv, TimedInv, AccountInv, SlotInv,
           [Next]_vars
    PROVE  SlotInv'
<1>t. MaxSlots \in Nat /\ (slots \in 0..MaxSlots) /\ slots' \in 0..MaxSlots
  BY CanaryAssumption, NextType DEF SessionInv, TypeInv, TypeOK, CycleTypeOK
<1>c. /\ Cardinality(Known) \in Nat /\ Cardinality(Known') \in Nat
      /\ Cardinality(Active) \in Nat /\ Cardinality(Active') \in Nat
      /\ Cardinality(Active') <= Cardinality(Known')
  <2>1. /\ Known \subseteq Packets /\ Known' \subseteq Packets /\ Active \subseteq Packets
        /\ Active' \subseteq Known'
    BY DEF Known, Owner, Active, Rows
  <2> QED
    BY <2>1, Counts
<1>1. CASE \E p \in Packets : SendEntry(p) \/ CommitEntry(p)
  <2>1. PICK p \in Packets : SendEntry(p) \/ CommitEntry(p)
    BY <1>1
  <2>2. /\ Cardinality(Known') <= Cardinality(Active) + 1
        /\ Cardinality(Active') <= Cardinality(Active) + 1
        /\ slots >= 1 /\ slots + Cardinality(Active) <= MaxSlots
    BY <1>t, <2>1, Bought
  <2>3. Cardinality(Known') <= MaxSlots
    BY <1>t, <1>c, <2>2
  <2>4. ASSUME pc' \in Buying PROVE slots' + Cardinality(Active') <= MaxSlots
    <3>1. CASE SendEntry(p)
      <4>1. pc = "buy"
        BY <3>1 DEF SendEntry
      <4>2. slots' = slots /\ Active' \subseteq Active
        BY <2>4, <4>1, SlotSteps DEF StartEntries
      <4>3. Active \subseteq Packets
        BY DEF Active, Rows
      <4>4. Cardinality(Active') <= Cardinality(Active)
        BY <4>2, <4>3, Counts
      <4> QED
        BY <1>t, <1>c, <2>2, <4>2, <4>4
    <3>2. CASE CommitEntry(p)
      <4>1. slots' = slots - 1
        BY <2>4, <3>2 DEF CommitEntry, Raise, Forget, Buying
      <4> QED
        BY <1>t, <1>c, <2>2, <4>1
    <3> QED
      BY <2>1, <3>1, <3>2
  <2> QED
    BY <2>3, <2>4 DEF SlotInv
<1>2. CASE ~\E p \in Packets : SendEntry(p) \/ CommitEntry(p)
  <2>1. Known' \subseteq Known /\ Known \subseteq Packets /\ Known' \subseteq Packets
    BY <1>2, KnownKept DEF Known
  <2>2. Cardinality(Known') <= MaxSlots
    <3>1. Cardinality(Known') <= Cardinality(Known)
      BY <2>1, Counts
    <3> QED
      BY <1>t, <1>c, <3>1 DEF SlotInv
  <2>3. ASSUME pc' \in Buying PROVE slots' + Cardinality(Active') <= MaxSlots
    <3>1. CASE StartEntries
      <4>1. Active' \subseteq Active /\ Active \subseteq Packets
        BY <3>1, <1>2, ActiveKept DEF StartEntries, BeginCycle, Goto, Active, Rows
      <4>2. Cardinality(Active') <= Cardinality(Active)
        BY <4>1, Counts
      <4>3. slots' = MaxSlots - Cardinality(Active) \/ slots' = 0
        BY <3>1 DEF StartEntries, Capacity
      <4> QED
        BY <1>t, <1>c, <2>2, <4>2, <4>3
    <3>2. CASE pc \in Buying /\ slots' = slots /\ Active' \subseteq Active
      <4>1. Active \subseteq Packets
        BY DEF Active, Rows
      <4>2. Cardinality(Active') <= Cardinality(Active)
        BY <3>2, <4>1, Counts
      <4>3. slots + Cardinality(Active) <= MaxSlots
        BY <3>2 DEF SlotInv
      <4> QED
        BY <1>t, <1>c, <3>2, <4>2, <4>3
    <3> QED
      BY <1>2, <2>3, <3>1, <3>2, SlotSteps
  <2> QED
    BY <2>2, <2>3 DEF SlotInv
<1> QED
  BY <1>1, <1>2

LEMMA InitSlots == Init => SlotInv
<1> SUFFICES ASSUME Init PROVE SlotInv
  OBVIOUS
<1>1. Known = {}
  BY DEF Init, BrokerInit, Known, Owner, Orphan, Active, Rows
<1> QED
  BY <1>1, FS_EmptySet, CanaryAssumption DEF SlotInv, Init, Buying

(* What max_live_slots promises of the account: an entry at work and shares that are held   *)
(* never outnumber the slots, also when the process died between placeOrder and the commit  *)
(* and the order is adopted later (_submit_due_entries, _adopt_broker_orders).              *)
THEOREM SlotsCapped == Apart /\ Whole /\ Spec => []SlotCap
<1>1. ASSUME AccountInv, SlotInv PROVE SlotCap
  <2>1. ASSUME NEW p \in Packets, Exposed(p) PROVE p \in Known
    <3>1. orders[p]["ENTRY"].status \in Working => live_state[p] \in {"queued", "submitted"}
      BY <1>1 DEF AccountInv, Accounts, AccountedRow
    <3> QED
      BY <2>1, <3>1 DEF Exposed, Known, Owner, Orphan, Accepted, Active, Rows
  <2>2. {p \in Packets : Exposed(p)} \subseteq Known /\ Known \subseteq Packets
    BY <2>1 DEF Known
  <2>3. /\ Cardinality({p \in Packets : Exposed(p)}) <= Cardinality(Known)
        /\ Cardinality({p \in Packets : Exposed(p)}) \in Nat /\ Cardinality(Known) \in Nat
    BY <2>2, Counts
  <2> QED
    BY <1>1, <2>3, CanaryAssumption DEF SlotInv, SlotCap
<1>2. CASE Apart /\ Whole
  <2>1. AccountInv /\ SessionInv /\ OwnersInv /\ TimedInv /\ [Next]_vars => AccountInv'
    BY <1>2, NextAccount
  <2>2. /\ SessionInv /\ Managed /\ OwnersInv /\ TimedInv /\ AccountInv /\ SlotInv /\ [Next]_vars
        => SlotInv'
    BY <1>2, NextSlots
  <2> QED
    BY <1>1, <2>1, <2>2, InitAccount, InitSession, NextSession, InitManaged, NextManaged,
       InitOwners, NextOwners, InitTimed, NextTimed, InitSlots, NextSlots, PTL DEF Spec
<1>3. CASE ~(Apart /\ Whole)
  BY <1>3
<1> QED
  BY <1>2, <1>3

----------------------------------------------------------------------------
(* Entries in pieces.  The opening auction may execute an entry in several    *)
(* pieces, and an exit may be placed for the first of them.  An exit that is  *)
(* smaller than the entry says so by its quantity (SoldLess); one as large is *)
(* only there once the entry is over, and covers all the shares still held.   *)
Entry(p) == orders[p]["ENTRY"]
Begun(o) == o.status \notin Working \/ o.filled > 0
Gone(p)  == held[p] = 0 \/ SoldLess(p)
FullSize(o) == o.status \in Working \cup {"filled"} /\ o.qty >= Quantity

\* A working entry is of today, with every other order of its packet.
AtWork(p) ==
    /\ Entry(p).qty = Quantity /\ Entry(p).filled < Quantity
    /\ Entry(p).filled > 0 /\ held[p] = 0 => SoldLess(p)
    /\ phase \in {"entry", "preopen", "rth"}
    /\ \A k \in Kinds : orders[p][k].today
ExitSound(p, o) ==
    /\ o.status \in Working => o.filled < o.qty
    /\ o.filled > 0 /\ Remaining(o) = 0 => o.status = "filled"
    /\ FullSize(o) => Entry(p).status \notin Working /\ held[p] <= Remaining(o)
PieceRow(p) ==
    /\ held[p] = position[Symbol[p]] /\ held[p] \in 0..Quantity
    /\ Entry(p).status # "none" => held[p] <= Entry(p).filled
    /\ Entry(p).status \in Working => AtWork(p)
    /\ \A k \in ExitKinds : ExitSound(p, orders[p][k])

\* A row that is still queued has no exits, and no shares before its opening.
Past(p) == \/ day > entry_session[p]
           \/ day = entry_session[p] /\ phase \notin {"entry", "preopen"}
LifeRow(p) ==
    /\ live_state[p] = "absent" => Entry(p).status = "none" /\ held[p] = 0
    /\ live_state[p] \in {"absent", "queued"} =>
         \A k \in ExitKinds : orders[p][k] = NoOrder
    /\ live_state[p] = "queued" =>
         /\ entry_session[p] < MaxDay
         /\ held[p] > 0 => Past(p)
         /\ Entry(p).status # "none" => entry_session[p] <= day
    /\ live_state[p] \in {"open", "closing"} => Begun(Entry(p))

\* What a cycle has read of an entry that was over is still so, and a packet whose shares
\* it read as gone has none, but those its exit was too small for.
ReadPiece(p) ==
    /\ SnapPosition(p) >= 0
    /\ Begun(Snapshot(p, "ENTRY")) => Begun(Entry(p))
    /\ Snapshot(p, "ENTRY").status \notin Working =>
         Entry(p).status \notin Working /\ held[p] <= SnapPosition(p)
    /\ EntryDead(Snapshot(p, "ENTRY")) => held[p] = 0
    /\ SnapPosition(p) = 0 /\ Begun(Snapshot(p, "ENTRY")) => Gone(p)
    /\ InHand(p) => Begun(Snapshot(p, "ENTRY"))
    /\ p \in ToManage /\ ExitFilled(p) => Gone(p)
BuysToday == pc \in Buying => \A p \in todo : entry_session[p] = snap.day

PieceRows  == \A p \in Packets : PieceRow(p)
LifeRows   == \A p \in Packets : LifeRow(p)
ReadPieces == Reading => \A p \in Packets : ReadPiece(p)
PieceInv   == PieceRows /\ LifeRows /\ ReadPieces /\ BuysToday /\ Offline

(* What a step does to the shares and orders of a packet.                     *)
PieceStep(p) ==
    /\ PieceRow(p)'
    /\ Begun(Entry(p)) => Begun(Entry(p))'
    /\ Entry(p).status \notin Working => Entry(p)'.status \notin Working /\ held'[p] <= held[p]
    /\ held'[p] > 0 => \/ held[p] > 0
                       \/ phase = "rth" /\ Entry(p).status # "none" /\ UNCHANGED <<day, phase>>
Unplaced(p)  == \A k \in Kinds :
    /\ orders[p][k] = NoOrder => orders'[p][k] = NoOrder
    /\ orders[p][k].status = "none" => orders'[p][k].status = "none"
GoneStays(p) == Gone(p) /\ Begun(Entry(p)) => Gone(p)'

LEMMA AgedPiece ==
    ASSUME TypeInv, TypeInv', NEW p \in Packets, PieceRow(p),
           held'[p] = held[p], position'[Symbol[p]] = position[Symbol[p]],
           \A k \in Kinds : Aged(orders[p][k], orders'[p][k]),
           Entry(p)'.status \in Working =>
              /\ phase' \in {"entry", "preopen", "rth"}
              /\ \A k \in Kinds : orders[p][k].today => orders'[p][k].today
    PROVE  PieceStep(p) /\ GoneStays(p)
<1>e. "ENTRY" \in Kinds /\ ExitKinds \subseteq Kinds /\ ExitKinds = Kinds \ {"ENTRY"}
  BY EntryIsKind
<1>h. held[p] \in Int /\ Quantity \in Nat
  BY DEF TypeInv, TypeOK, BrokerTypeOK
<1>a. /\ Aged(Entry(p), Entry(p)')
      /\ Entry(p)'.filled = Entry(p).filled /\ Entry(p)'.qty = Entry(p).qty
      /\ Entry(p)'.status \in Working => Entry(p).status \in Working
      /\ Entry(p)'.status # "none" => Entry(p).status # "none"
  BY <1>e DEF Entry, Aged, Working
<1>1. SoldLess(p) => SoldLess(p)'
  BY DEF SoldLess, Aged, Working
<1>2. Gone(p) => Gone(p)'
  BY <1>1 DEF Gone
<1>3. Entry(p)'.status \in Working => AtWork(p)'
  BY <1>a, <1>1, <1>e DEF PieceRow, AtWork, Entry
<1>4. ASSUME NEW k \in ExitKinds PROVE ExitSound(p, orders[p][k])'
  <2>1. Aged(orders[p][k], orders'[p][k]) /\ ExitSound(p, orders[p][k])
    BY <1>e DEF PieceRow
  <2>2. /\ orders'[p][k].status \in Working => orders[p][k].status \in Working
        /\ FullSize(orders'[p][k]) => FullSize(orders[p][k])
        /\ Remaining(orders'[p][k]) = Remaining(orders[p][k])
    BY <2>1 DEF Aged, FullSize, Working, Remaining
  <2>3. orders'[p][k].filled > 0 /\ Remaining(orders'[p][k]) = 0 => orders'[p][k].status = "filled"
    BY <2>1, <2>2 DEF ExitSound, Aged, Working
  <2> QED
    BY <1>a, <2>1, <2>2, <2>3 DEF ExitSound, FullSize, Aged, Working
<1>5. PieceRow(p)'
  BY <1>a, <1>3, <1>4 DEF PieceRow
<1>6. Begun(Entry(p)) => Begun(Entry(p))'
  BY <1>a DEF Begun, Working, Entry
<1> QED
  BY <1>a, <1>h, <1>2, <1>5, <1>6 DEF PieceStep, GoneStays

LEMMA AgingOrders ==
    ASSUME TypeInv,
           \/ UNCHANGED orders \/ Tick
           \/ \E p \in Packets : \/ orders' = WithCancel(p) \/ CancelTakesEffect(p)
                                 \/ \E k \in Kinds : BrokerCancel(p, k)
    PROVE  \A p \in Packets, k \in Kinds :
              /\ orders[p][k].status = "none" => orders'[p][k] = orders[p][k]
              /\ orders[p][k].today => orders'[p][k].today \/ (Tick /\ phase = "post")
              /\ Tick /\ orders'[p]["ENTRY"].status \in Working => phase # "rth"
<1> SUFFICES ASSUME NEW x \in Packets, NEW j \in Kinds
             PROVE  /\ orders[x][j].status = "none" => orders'[x][j] = orders[x][j]
                    /\ orders[x][j].today => orders'[x][j].today \/ (Tick /\ phase = "post")
                    /\ Tick /\ orders'[x]["ENTRY"].status \in Working => phase # "rth"
  OBVIOUS
<1>b. orders \in [Packets -> [Kinds -> Order]] /\ "ENTRY" \in Kinds
  BY EntryIsKind DEF TypeInv, TypeOK, BrokerTypeOK
<1>o. \A k \in Kinds : orders[x][k] \in Order
  BY <1>b
<1>c. \A k \in Kinds : /\ Cancelled(orders[x][k]).status = "cancelled"
                       /\ Cancelled(orders[x][k]).today = orders[x][k].today
  BY <1>o DEF Cancelled, Order
<1>1. CASE Tick
  <2>1. \A k \in Kinds :
        \/ orders'[x][k] = orders[x][k] /\ ~(orders[x][k].status \in Working /\ Expires(k))
        \/ orders[x][k].status \in Working /\ orders'[x][k] = Cancelled(orders[x][k])
        \/ /\ orders[x][k].status \in {"filled", "cancelled"} /\ phase = "post"
           /\ orders'[x][k] = [orders[x][k] EXCEPT !.today = FALSE]
    BY <1>1, <1>b DEF Tick
  <2>2. /\ orders[x][j].status = "none" => orders'[x][j] = orders[x][j]
        /\ orders[x][j].today => orders'[x][j].today \/ phase = "post"
    BY <1>c, <2>1 DEF Working
  <2>3. orders'[x]["ENTRY"].status \in Working => phase # "rth"
    BY <1>b, <1>c, <2>1 DEF Working, Expires
  <2> QED
    BY <1>1, <2>2, <2>3
<1>2. ASSUME NEW p \in Packets, orders' = WithCancel(p)
      PROVE  /\ orders[x][j].status = "none" => orders'[x][j] = orders[x][j]
             /\ orders[x][j].today => orders'[x][j].today
  <2>1. CASE x = p /\ j = "ENTRY" /\ orders[x][j].status = "working"
    BY <1>2, <1>b, <1>o, <2>1 DEF WithCancel, Order
  <2>2. CASE x = p /\ j = "ENTRY" /\ orders[x][j].status # "working"
    BY <1>2, <1>b, <1>o, <2>2 DEF WithCancel, Order
  <2>3. CASE x # p \/ j # "ENTRY"
    BY <1>2, <1>b, <1>o, <2>3 DEF WithCancel
  <2> QED
    BY <2>1, <2>2, <2>3
<1>3. ASSUME NEW p \in Packets, NEW k \in Kinds, CancelTakesEffect(p) \/ BrokerCancel(p, k)
      PROVE  /\ orders[x][j].status = "none" => orders'[x][j] = orders[x][j]
             /\ orders[x][j].today => orders'[x][j].today
  <2>1. \/ orders'[x][j] = orders[x][j]
        \/ orders[x][j].status \in Working /\ orders'[x][j] = Cancelled(orders[x][j])
    BY <1>3, <1>b, <1>o DEF CancelTakesEffect, BrokerCancel, Working
  <2> QED
    BY <1>c, <2>1 DEF Working
<1>4. ASSUME UNCHANGED orders
      PROVE  /\ orders[x][j].status = "none" => orders'[x][j] = orders[x][j]
             /\ orders[x][j].today => orders'[x][j].today
  BY <1>4
<1>5. CASE ~Tick
  <2>1. \/ UNCHANGED orders
        \/ \E p \in Packets : orders' = WithCancel(p)
        \/ \E p \in Packets, k \in Kinds : CancelTakesEffect(p) \/ BrokerCancel(p, k)
    BY <1>5, <1>b
  <2> QED
    BY <1>2, <1>3, <1>4, <1>5, <2>1
<1> QED
  BY <1>1, <1>5

(* The market takes shares.                                                   *)
LEMMA BoughtPiece ==
    ASSUME TypeInv, NEW p \in Packets, PieceRow(p), EntryFill(p)
    PROVE  PieceStep(p) /\ GoneStays(p)
<1>b. BrokerTypeOK /\ "ENTRY" \in Kinds /\ ExitKinds = Kinds \ {"ENTRY"}
  BY EntryIsKind DEF TypeInv, TypeOK
<1>o. Entry(p) \in Order /\ held[p] \in Int /\ Symbol[p] \in Symbols /\ Quantity \in Nat
  BY <1>b DEF BrokerTypeOK, Entry
<1>a. /\ Entry(p).status \in Working /\ AtWork(p) /\ phase = "rth" /\ UNCHANGED <<day, phase>>
      /\ held[p] <= Entry(p).filled
  BY DEF PieceRow, EntryFill, Entry, Executable, Working
<1>1. PICK n \in 1..(Entry(p).qty - Entry(p).filled) :
        /\ orders' = [orders EXCEPT ![p]["ENTRY"] = Executed(Entry(p), n)]
        /\ position' = [position EXCEPT ![Symbol[p]] = @ + n]
        /\ held' = [held EXCEPT ![p] = @ + n]
  BY DEF EntryFill, Entry
<1>2. /\ Entry(p)' = Executed(Entry(p), n)
      /\ \A k \in ExitKinds : orders'[p][k] = orders[p][k]
  BY <1>1, <1>b DEF Entry, BrokerTypeOK
<1>3. held'[p] = held[p] + n /\ held'[p] = position'[Symbol[p]]
  BY <1>1, <1>b, <1>o DEF PieceRow, BrokerTypeOK
<1>4. /\ Entry(p)'.filled = Entry(p).filled + n /\ Entry(p)'.qty = Quantity
      /\ Entry(p)'.today = Entry(p).today /\ Entry(p).qty = Quantity
      /\ Entry(p)'.status = IF Entry(p).filled + n = Quantity THEN "filled" ELSE Entry(p).status
  BY <1>2, <1>o, <1>a DEF Executed, Order, AtWork
<1>5. held'[p] \in 1..Quantity /\ held'[p] <= Entry(p)'.filled /\ Entry(p)'.filled \in 1..Quantity
  BY <1>1, <1>3, <1>4, <1>a, <1>o DEF PieceRow, Order
<1>6. Entry(p)'.status \in Working => AtWork(p)'
  <2>1. \A k \in Kinds : orders'[p][k].today
    BY <1>2, <1>4, <1>a, <1>b DEF AtWork, Entry
  <2> QED
    BY <1>4, <1>5, <1>a, <2>1 DEF AtWork, Working
<1>7. ASSUME NEW k \in ExitKinds PROVE ExitSound(p, orders[p][k])'
  BY <1>2, <1>a DEF PieceRow, ExitSound, FullSize
<1>8. PieceRow(p)'
  BY <1>3, <1>5, <1>6, <1>7 DEF PieceRow
<1>9. Gone(p) /\ Begun(Entry(p)) => Gone(p)'
  <2>1. SoldLess(p) => SoldLess(p)'
    BY <1>2, <1>b DEF SoldLess
  <2> QED
    BY <1>a, <2>1 DEF Gone, Begun, AtWork
<1>10. Begun(Entry(p))'
  BY <1>5 DEF Begun, Entry
<1>11. Entry(p).status # "none"
  BY <1>a DEF Working
<1> QED
  BY <1>8, <1>9, <1>10, <1>11, <1>a DEF PieceStep, GoneStays

LEMMA SoldPiece ==
    ASSUME TypeInv, NEW p \in Packets, PieceRow(p), CoveredIn(orders),
           NEW k \in ExitKinds, ExitFill(p, k)
    PROVE  PieceStep(p) /\ GoneStays(p)
<1>b. /\ BrokerTypeOK /\ "ENTRY" \in Kinds /\ ExitKinds = Kinds \ {"ENTRY"} /\ k \in Kinds
      /\ k # "ENTRY" /\ OcaKinds = ExitKinds
  BY EntryIsKind DEF TypeInv, TypeOK, OcaKinds
<1>o. /\ held[p] \in Int /\ Symbol[p] \in Symbols /\ Quantity \in Nat
      /\ \A j \in Kinds : orders[p][j] \in Order
  BY <1>b DEF BrokerTypeOK
<1>1. PICK n \in 1..(orders[p][k].qty - orders[p][k].filled) :
        /\ orders' = [orders EXCEPT ![p] = [j \in Kinds |->
                IF j = k THEN Executed(orders[p][k], n)
                ELSE IF {j, k} \subseteq OcaKinds /\ orders[p][j].status \in Working
                     THEN Cancelled(orders[p][j]) ELSE orders[p][j]]]
        /\ position' = [position EXCEPT ![Symbol[p]] = @ - n]
        /\ held' = [held EXCEPT ![p] = @ - n]
  BY DEF ExitFill
<1>2. /\ orders[p][k].status \in Working /\ UNCHANGED <<day, phase>>
      /\ Remaining(orders[p][k]) <= held[p]
  BY DEF ExitFill, CoveredIn, PieceRow
<1>3. /\ held'[p] = held[p] - n /\ held'[p] = position'[Symbol[p]]
      /\ n >= 1 /\ n <= Remaining(orders[p][k]) /\ n \in Nat
  BY <1>1, <1>b, <1>o DEF PieceRow, BrokerTypeOK, Remaining, Order
<1>4. /\ Entry(p)' = Entry(p)
      /\ orders'[p][k] = Executed(orders[p][k], n)
      /\ \A j \in ExitKinds \ {k} :
           orders'[p][j] = IF orders[p][j].status \in Working THEN Cancelled(orders[p][j])
                           ELSE orders[p][j]
  BY <1>1, <1>b DEF BrokerTypeOK, Entry
<1>5. /\ orders'[p][k].qty = orders[p][k].qty /\ orders'[p][k].filled = orders[p][k].filled + n
      /\ Remaining(orders'[p][k]) = Remaining(orders[p][k]) - n
      /\ orders'[p][k].today = orders[p][k].today
      /\ orders'[p][k].status = IF n = Remaining(orders[p][k]) THEN "filled"
                                ELSE orders[p][k].status
  BY <1>3, <1>4, <1>o, <1>b DEF Executed, Order, Remaining
<1>6. held'[p] \in 0..Quantity /\ held'[p] <= held[p] /\ held'[p] < held[p]
  BY <1>2, <1>3, <1>o, <1>b DEF PieceRow, Remaining, Order
<1>7. ASSUME NEW j \in ExitKinds, j # k
      PROVE  /\ orders'[p][j].status \notin Working
             /\ orders'[p][j].today = orders[p][j].today
             /\ orders'[p][j] = orders[p][j]
                  \/ (orders'[p][j].status = "cancelled" /\ orders[p][j].status \in Working
                      /\ Remaining(orders'[p][j]) > 0)
  <2>1. orders[p][j] \in Order /\ ExitSound(p, orders[p][j])
    BY <1>o, <1>b DEF PieceRow
  <2>2. CASE orders[p][j].status \in Working
    <3>1. orders'[p][j] = Cancelled(orders[p][j]) /\ orders[p][j].filled < orders[p][j].qty
      BY <1>4, <1>7, <2>1, <2>2 DEF ExitSound
    <3>2. /\ orders'[p][j].status = "cancelled" /\ orders'[p][j].today = orders[p][j].today
          /\ orders'[p][j].qty = orders[p][j].qty /\ orders'[p][j].filled = orders[p][j].filled
      BY <2>1, <3>1 DEF Cancelled, Order
    <3> QED
      BY <2>1, <2>2, <3>1, <3>2 DEF Working, Remaining, Order
  <2>3. CASE orders[p][j].status \notin Working
    BY <1>4, <1>7, <2>3
  <2> QED
    BY <2>2, <2>3
<1>8. SoldLess(p) => SoldLess(p)'
  <2>1. \A j \in ExitKinds : orders[p][j].status = "filled" => orders'[p][j] = orders[p][j]
    BY <1>2, <1>7 DEF Working
  <2> QED
    BY <1>b, <2>1 DEF SoldLess
<1>9. Entry(p).status \in Working /\ held'[p] = 0 => SoldLess(p)'
  <2>1. Entry(p).status \in Working => orders[p][k].qty < Quantity
    BY <1>2, <1>o, <1>b DEF PieceRow, ExitSound, FullSize, Order
  <2>2. held'[p] = 0 => orders'[p][k].status = "filled"
    BY <1>2, <1>3, <1>5, <1>o, <1>b DEF Remaining, Order
  <2> QED
    BY <1>5, <1>b, <2>1, <2>2 DEF SoldLess
<1>10. Entry(p).status \in Working => AtWork(p)'
  <2>1. ASSUME AtWork(p) PROVE \A j \in Kinds : orders'[p][j].today
    BY <1>4, <1>5, <1>7, <1>b, <2>1 DEF AtWork, Entry
  <2> QED
    BY <1>2, <1>4, <1>9, <2>1 DEF PieceRow, AtWork
<1>11. ASSUME NEW j \in ExitKinds PROVE ExitSound(p, orders[p][j])'
  <2>0. orders[p][j] \in Order /\ ExitSound(p, orders[p][j])
    BY <1>o, <1>b DEF PieceRow
  <2>1. CASE j = k
    BY <1>2, <1>3, <1>4, <1>5, <1>6, <1>o, <2>0, <2>1
    DEF ExitSound, FullSize, Order, Remaining, Working
  <2>2. CASE j # k
    <3>1. CASE orders'[p][j] = orders[p][j]
      BY <1>4, <1>6, <1>7, <1>o, <2>0, <2>2, <3>1 DEF ExitSound, Remaining, Order
    <3>2. CASE orders'[p][j].status = "cancelled" /\ Remaining(orders'[p][j]) > 0
      BY <3>2 DEF ExitSound, FullSize, Working
    <3> QED
      BY <1>7, <2>2, <3>1, <3>2
  <2> QED
    BY <2>1, <2>2
<1>12. PieceRow(p)'
  <2>1. Entry(p)'.status # "none" => held'[p] <= Entry(p)'.filled
    BY <1>4, <1>6, <1>o, <1>b DEF PieceRow, Order, Entry
  <2> QED
    BY <1>3, <1>4, <1>6, <1>10, <1>11, <2>1 DEF PieceRow
<1>13. Gone(p) => Gone(p)'
  BY <1>6, <1>8, <1>o DEF Gone
<1>14. held'[p] > 0 => held[p] > 0
  BY <1>6, <1>o
<1> QED
  BY <1>4, <1>6, <1>12, <1>13, <1>14 DEF PieceStep, GoneStays

(* Exits are placed, while the shares they are for are there.                 *)
LEMMA PlacedPiece ==
    ASSUME TypeInv, NEW p \in Packets, PieceRow(p), UNCHANGED <<held, position, day, phase>>,
           NEW q \in Int,
           \A k \in Kinds :
              \/ orders'[p][k] = orders[p][k]
              \/ k \in ExitKinds /\ Sellable(p, q) /\ orders'[p][k] = NewOrder(q)
    PROVE  /\ PieceStep(p)
           /\ \/ GoneStays(p)
              \/ \E k \in ExitKinds : orders[p][k].status = "filled" /\ orders'[p][k] = NewOrder(q)
<1>b. /\ BrokerTypeOK /\ "ENTRY" \in Kinds /\ ExitKinds = Kinds \ {"ENTRY"}
      /\ held[p] \in Int /\ Quantity \in Nat
  BY EntryIsKind DEF TypeInv, TypeOK, BrokerTypeOK
<1>n. /\ NewOrder(q).status = "working" /\ NewOrder(q).qty = q /\ NewOrder(q).filled = 0
      /\ NewOrder(q).today
  BY DEF NewOrder, NoOrder
<1>1. Entry(p)' = Entry(p)
  BY <1>b DEF Entry
<1>2. ASSUME Sellable(p, q) PROVE held[p] >= q /\ held[p] > 0 /\ q > 0
  BY <1>2, <1>b DEF Sellable, PieceRow
<1>3. CASE \A k \in Kinds : orders'[p][k] = orders[p][k]
  <2>1. SoldLess(p)' <=> SoldLess(p)
    BY <1>3 DEF SoldLess
  <2>2. AtWork(p)' <=> AtWork(p)
    BY <1>3, <1>1, <2>1 DEF AtWork
  <2>3. \A k \in ExitKinds : ExitSound(p, orders[p][k])'
    BY <1>1, <1>3, <1>b DEF PieceRow, ExitSound
  <2>4. PieceRow(p)'
    BY <1>1, <2>2, <2>3 DEF PieceRow
  <2> QED
    BY <1>1, <1>b, <2>1, <2>4 DEF PieceStep, GoneStays, Gone
<1>4. CASE Sellable(p, q)
  <2>1. Entry(p).status \in Working => AtWork(p)' /\ held[p] < Quantity
    <3>1. ASSUME AtWork(p) PROVE \A k \in Kinds : orders'[p][k].today
      BY <1>n, <3>1 DEF AtWork
    <3>2. orders[p]["ENTRY"] \in Order
      BY <1>b DEF BrokerTypeOK
    <3>3. Entry(p).status \in Working => AtWork(p) /\ held[p] <= Entry(p).filled
      BY DEF PieceRow, Working
    <3>4. AtWork(p) => AtWork(p)'
      BY <1>1, <1>2, <1>4, <1>b, <3>1 DEF AtWork
    <3>5. AtWork(p) => Entry(p).filled < Quantity
      BY DEF AtWork
    <3> QED
      BY <1>b, <3>2, <3>3, <3>4, <3>5 DEF Entry, Order
  <2>2. ASSUME NEW k \in ExitKinds PROVE ExitSound(p, orders[p][k])'
    <3>1. CASE orders'[p][k] = orders[p][k]
      BY <1>1, <3>1 DEF PieceRow, ExitSound
    <3>2. CASE orders'[p][k] = NewOrder(q)
      <4>1. q >= Quantity => Entry(p).status \notin Working /\ held[p] <= q
        BY <1>2, <1>4, <1>b, <2>1 DEF PieceRow
      <4> QED
        BY <1>1, <1>2, <1>4, <1>n, <3>2, <4>1 DEF ExitSound, FullSize, Remaining
    <3> QED
      BY <1>b, <3>1, <3>2
  <2>3. PieceRow(p)'
    BY <1>1, <2>1, <2>2 DEF PieceRow
  <2>4. PieceStep(p)
    BY <1>1, <1>b, <2>3 DEF PieceStep
  <2>5. (\A k \in ExitKinds : orders[p][k].status = "filled" => orders'[p][k] = orders[p][k])
          => GoneStays(p)
    BY <1>b DEF GoneStays, Gone, SoldLess
  <2> QED
    BY <2>4, <2>5, <1>b
<1> QED
  BY <1>3, <1>4

(* A new connection forgets only orders that have ended.                      *)
LEMMA ResyncedPiece ==
    ASSUME TypeInv, NEW p \in Packets, PieceRow(p), orders' = Resynced,
           UNCHANGED <<held, position, day, phase>>
    PROVE  PieceStep(p) /\ Unplaced(p)
<1>b. /\ BrokerTypeOK /\ "ENTRY" \in Kinds /\ ExitKinds = Kinds \ {"ENTRY"}
      /\ held[p] \in Int /\ Quantity \in Nat /\ \A k \in Kinds : orders[p][k] \in Order
  BY EntryIsKind DEF TypeInv, TypeOK, BrokerTypeOK
<1>n. NoOrder.status = "none" /\ NoOrder.filled = 0 /\ "none" \notin Working
  BY DEF NoOrder, Working
<1>1. \A k \in Kinds : orders'[p][k] = IF orders[p][k].today THEN orders[p][k] ELSE NoOrder
  BY DEF Resynced
<1>2. /\ Entry(p)' = IF Entry(p).today THEN Entry(p) ELSE NoOrder
      /\ Entry(p)'.status # "none" => Entry(p)' = Entry(p)
      /\ Entry(p)'.status \in Working => Entry(p).status \in Working
  BY <1>1, <1>b, <1>n DEF Entry
<1>3. Entry(p).status \in Working => AtWork(p)' /\ Entry(p)' = Entry(p)
  <2>1. Entry(p).status \in Working => \A k \in Kinds : orders'[p][k] = orders[p][k]
    BY <1>1 DEF PieceRow, AtWork
  <2>2. Entry(p).status \in Working => (SoldLess(p) => SoldLess(p)')
    BY <2>1 DEF SoldLess
  <2> QED
    BY <1>b, <2>1, <2>2 DEF PieceRow, AtWork, Entry
<1>4. ASSUME NEW k \in ExitKinds PROVE ExitSound(p, orders[p][k])'
  <2>1. ExitSound(p, orders[p][k])
    BY DEF PieceRow
  <2>2. CASE orders'[p][k] = orders[p][k]
    BY <1>2, <2>1, <2>2 DEF ExitSound
  <2>3. CASE orders'[p][k] = NoOrder
    BY <1>n, <2>3 DEF ExitSound, FullSize
  <2> QED
    BY <1>1, <1>b, <2>2, <2>3
<1>5. PieceRow(p)'
  BY <1>2, <1>3, <1>4 DEF PieceRow
<1>6. Begun(Entry(p)) => Begun(Entry(p))'
  BY <1>2, <1>3, <1>n DEF Begun
<1>7. Unplaced(p)
  BY <1>1, <1>n DEF Unplaced
<1> QED
  BY <1>2, <1>5, <1>6, <1>7, <1>b DEF PieceStep

(* The clock and the broker.                                                  *)
LEMMA BrokerPieces ==
    ASSUME Apart, TypeInv, TypeInv', CoveredIn(orders), PieceRows,
           \/ Clock \/ Broker \/ UNCHANGED brokerVars
           \/ \E x \in Packets : CancelRemainder(x)
    PROVE  /\ \A p \in Packets : PieceStep(p) /\ GoneStays(p) /\ Unplaced(p)
           /\ Tick \/ UNCHANGED <<day, phase>>
<1>b. /\ BrokerTypeOK /\ "ENTRY" \in Kinds /\ ExitKinds \subseteq Kinds
      /\ \A q \in Packets, k \in Kinds : orders[q][k] \in Order
  BY EntryIsKind DEF TypeInv, TypeOK, BrokerTypeOK
<1>n. NoOrder.status = "none" /\ "none" \notin Working
  BY DEF NoOrder, Working
<1>1. ASSUME NEW p \in Packets, orders'[p] = orders[p], held'[p] = held[p],
             position'[Symbol[p]] = position[Symbol[p]], UNCHANGED <<day, phase>>
      PROVE  PieceStep(p) /\ GoneStays(p) /\ Unplaced(p)
  <2>1. \A k \in Kinds : Aged(orders[p][k], orders'[p][k])
    BY <1>1 DEF Aged
  <2>2. Entry(p)'.status \in Working => phase' \in {"entry", "preopen", "rth"}
    BY <1>1 DEF PieceRows, PieceRow, AtWork, Entry
  <2>3. PieceStep(p) /\ GoneStays(p)
    BY <1>1, <2>1, <2>2, AgedPiece DEF PieceRows
  <2> QED
    BY <1>1, <2>3 DEF Unplaced
<1>2. ASSUME NEW x \in Packets, EntryFill(x)
      PROVE  \A p \in Packets : PieceStep(p) /\ GoneStays(p) /\ Unplaced(p)
  <2>1. PieceStep(x) /\ GoneStays(x)
    BY <1>2, BoughtPiece DEF PieceRows
  <2>2. /\ UNCHANGED <<day, phase>> /\ orders[x]["ENTRY"].status # "none"
        /\ \A k \in ExitKinds : orders'[x][k] = orders[x][k]
    BY <1>2, <1>b, EntryIsKind DEF EntryFill, Working, BrokerTypeOK
  <2>3. Unplaced(x)
    BY <2>2, <1>n, EntryIsKind DEF Unplaced
  <2>4. ASSUME NEW p \in Packets, p # x
        PROVE  /\ orders'[p] = orders[p] /\ held'[p] = held[p]
               /\ position'[Symbol[p]] = position[Symbol[p]]
    BY <1>2, <1>b, <2>4 DEF EntryFill, Apart, BrokerTypeOK
  <2> QED
    BY <1>1, <2>1, <2>2, <2>3, <2>4
<1>3. ASSUME NEW x \in Packets, NEW k \in ExitKinds, ExitFill(x, k)
      PROVE  \A p \in Packets : PieceStep(p) /\ GoneStays(p) /\ Unplaced(p)
  <2>1. PieceStep(x) /\ GoneStays(x)
    BY <1>3, SoldPiece DEF PieceRows
  <2>2. UNCHANGED <<day, phase>>
    BY <1>3 DEF ExitFill
  <2>3. Unplaced(x)
    <3>1. orders[x][k].status \in Working
      BY <1>3 DEF ExitFill
    <3>2. \A j \in Kinds : orders[x][j].status = "none" => orders'[x][j] = orders[x][j]
      BY <1>3, <1>b, <1>n, <3>1 DEF ExitFill, BrokerTypeOK
    <3> QED
      BY <1>n, <3>2 DEF Unplaced
  <2>4. ASSUME NEW p \in Packets, p # x
        PROVE  /\ orders'[p] = orders[p] /\ held'[p] = held[p]
               /\ position'[Symbol[p]] = position[Symbol[p]]
    BY <1>3, <1>b, <2>4 DEF ExitFill, Apart, BrokerTypeOK
  <2> QED
    BY <1>1, <2>1, <2>2, <2>3, <2>4
<1>4. ASSUME UNCHANGED <<held, position>>,
             \/ UNCHANGED <<orders, day, phase>> \/ Tick
             \/ /\ UNCHANGED <<day, phase>>
                /\ \E p \in Packets : \/ orders' = WithCancel(p) \/ CancelTakesEffect(p)
                                      \/ \E k \in Kinds : BrokerCancel(p, k),
             NEW p \in Packets
      PROVE  PieceStep(p) /\ GoneStays(p) /\ Unplaced(p)
  <2>1. \A k \in Kinds : Aged(orders[p][k], orders'[p][k])
    BY <1>4, Aging
  <2>2. \A k \in Kinds : /\ orders[p][k].status = "none" => orders'[p][k] = orders[p][k]
                         /\ orders[p][k].today => orders'[p][k].today \/ (Tick /\ phase = "post")
                         /\ Tick /\ orders'[p]["ENTRY"].status \in Working => phase # "rth"
    BY <1>4, AgingOrders
  <2>3. ASSUME Entry(p)'.status \in Working
        PROVE  /\ phase' \in {"entry", "preopen", "rth"} /\ phase # "post"
    <3>1. AtWork(p)
      BY <2>1, <2>3, <1>b DEF PieceRows, PieceRow, Aged, Entry, Working
    <3>2. Tick => phase # "rth"
      BY <2>2, <2>3, <1>b DEF Entry
    <3>3. Tick \/ UNCHANGED phase
      BY <1>4
    <3> QED
      BY <3>1, <3>2, <3>3 DEF AtWork, Tick, NextPhase
  <2>4. PieceStep(p) /\ GoneStays(p)
    BY <1>4, <2>1, <2>2, <2>3, AgedPiece DEF PieceRows
  <2> QED
    BY <1>n, <2>2, <2>4 DEF Unplaced
<1>5. CASE Clock
  BY <1>4, <1>5 DEF Clock, Tick
<1>6. CASE UNCHANGED brokerVars
  BY <1>4, <1>6 DEF brokerVars
<1>7. ASSUME NEW x \in Packets, CancelRemainder(x)
      PROVE  /\ \A p \in Packets : PieceStep(p) /\ GoneStays(p) /\ Unplaced(p)
             /\ UNCHANGED <<day, phase>>
  BY <1>4, <1>7 DEF CancelRemainder
<1>8. ASSUME NEW x \in Packets, NEW k \in Kinds, CancelTakesEffect(x) \/ BrokerCancel(x, k)
      PROVE  /\ \A p \in Packets : PieceStep(p) /\ GoneStays(p) /\ Unplaced(p)
             /\ UNCHANGED <<day, phase>>
  <2>1. UNCHANGED <<held, position, day, phase>>
    BY <1>8 DEF CancelTakesEffect, BrokerCancel
  <2> QED
    BY <1>4, <1>8, <2>1
<1>9. CASE Broker
  <2>1. UNCHANGED <<day, phase>>
    BY <1>9 DEF Broker, EntryFill, ExitFill, CancelTakesEffect, BrokerCancel
  <2> QED
    BY <1>2, <1>3, <1>8, <1>9, <1>b, <2>1 DEF Broker
<1>10. Clock => Tick
  BY DEF Clock
<1>11. UNCHANGED brokerVars => UNCHANGED <<day, phase>>
  BY DEF brokerVars
<1> QED
  BY <1>5, <1>6, <1>7, <1>9, <1>10, <1>11, <1>2, <1>3, <1>8

(* The row of the ledger keeps up with the shares.                            *)
LEMMA LifeKept ==
    ASSUME TypeInv, TypeInv', NEW p \in Packets, LifeRow(p), PieceStep(p),
           Unplaced(p) \/ live_state[p] \notin {"absent", "queued"},
           live_state'[p] = live_state[p], entry_session'[p] = entry_session[p],
           Tick \/ UNCHANGED <<day, phase>>
    PROVE  LifeRow(p)'
<1>b. /\ BrokerTypeOK /\ LedgerTypeOK /\ "ENTRY" \in Kinds /\ ExitKinds \subseteq Kinds
      /\ held[p] \in Int /\ entry_session[p] \in Nat /\ day \in 1..MaxDay /\ phase \in Phases
      /\ MaxDay \in Nat
  BY EntryIsKind DEF TypeInv, TypeOK, BrokerTypeOK, LedgerTypeOK
<1>0. held'[p] \in Int /\ held'[p] >= 0
  BY DEF PieceStep, PieceRow, TypeInv, TypeOK, BrokerTypeOK
<1>1. Unplaced(p) => (Entry(p).status = "none" => Entry(p)'.status = "none")
  BY <1>b DEF Unplaced, Entry
<1>2. live_state[p] = "absent" => Entry(p)'.status = "none" /\ held'[p] = 0
  BY <1>0, <1>1, <1>b DEF LifeRow, PieceStep
<1>3. live_state[p] \in {"absent", "queued"} => \A k \in ExitKinds : orders'[p][k] = NoOrder
  BY <1>b DEF LifeRow, Unplaced
<1>4. day' >= day /\ day' \in Int
  BY <1>b DEF Tick
<1>5. entry_session[p] < MaxDay /\ Past(p) => Past(p)'
  <2>1. CASE UNCHANGED <<day, phase>>
    BY <2>1 DEF Past
  <2>2. CASE Tick
    <3>1. CASE phase = "post"
      BY <1>b, <2>2, <3>1 DEF Past, Tick
    <3>2. CASE phase # "post"
      BY <1>b, <2>2, <3>2 DEF Past, Tick, NextPhase, Phases
    <3> QED
      BY <3>1, <3>2
  <2> QED
    BY <2>1, <2>2
<1>6. live_state[p] = "queued" =>
         /\ held'[p] > 0 => Past(p)'
         /\ Entry(p)'.status # "none" => entry_session[p] <= day'
  <2>1. CASE live_state[p] = "queued"
    <3>1. Entry(p)'.status # "none" => entry_session[p] <= day'
      BY <1>1, <1>4, <1>b, <2>1 DEF LifeRow
    <3>2. CASE held'[p] > 0 /\ held[p] > 0
      BY <1>5, <2>1, <3>1, <3>2 DEF LifeRow
    <3>3. CASE held'[p] > 0 /\ ~(held[p] > 0)
      <4>1. /\ phase = "rth" /\ UNCHANGED <<day, phase>> /\ entry_session[p] <= day
        BY <2>1, <3>3 DEF PieceStep, LifeRow
      <4> QED
        BY <1>b, <3>1, <4>1 DEF Past
    <3> QED
      BY <3>1, <3>2, <3>3
  <2> QED
    BY <2>1
<1>7. live_state[p] \in {"open", "closing"} => Begun(Entry(p))'
  BY DEF LifeRow, PieceStep
<1> QED
  BY <1>2, <1>3, <1>6, <1>7 DEF LifeRow

(* What a step does to every packet, as far as the rows and the reading have  *)
(* to know: a gone packet stays gone, unless the step places an exit for      *)
(* shares that were read as there.                                            *)
PieceMoves ==
    /\ \A p \in Packets :
         /\ PieceStep(p)
         /\ Unplaced(p) \/ live_state[p] \notin {"absent", "queued"}
         /\ GoneStays(p) \/ (SnapPosition(p) > 0 /\ (p \in ToManage => ~ExitFilled(p)))
    /\ Tick \/ UNCHANGED <<day, phase>>

LEMMA PlacingPieces ==
    ASSUME TypeInv, PieceRows, UNCHANGED <<held, position, day, phase>>,
           NEW x \in Packets, NEW q \in Int, live_state[x] \notin {"absent", "queued"},
           \A p \in Packets, k \in Kinds :
              \/ orders'[p][k] = orders[p][k]
              \/ p = x /\ k \in ExitKinds /\ Sellable(x, q) /\ orders'[p][k] = NewOrder(q),
           \/ SnapPosition(x) > 0 /\ (x \in ToManage => ~ExitFilled(x))
           \/ \A k \in ExitKinds : orders[x][k].status = "filled" => orders'[x][k] = orders[x][k]
    PROVE  PieceMoves
<1>n. NewOrder(q).status = "working" /\ ExitKinds \subseteq Kinds
  BY EntryIsKind DEF NewOrder, NoOrder
<1>1. ASSUME NEW p \in Packets
      PROVE  /\ PieceStep(p)
             /\ \/ GoneStays(p)
                \/ \E k \in ExitKinds : orders[p][k].status = "filled" /\ orders'[p][k] = NewOrder(q)
  BY PlacedPiece DEF PieceRows
<1>2. \A p \in Packets : p # x => Unplaced(p) /\ GoneStays(p)
  BY <1>1, <1>n DEF Unplaced
<1>3. \/ GoneStays(x)
      \/ SnapPosition(x) > 0 /\ (x \in ToManage => ~ExitFilled(x))
  BY <1>1, <1>n
<1> QED
  BY <1>1, <1>2, <1>3 DEF PieceMoves

LEMMA ProtectionPieces ==
    ASSUME TypeInv, TimedInv, PieceRows, NEW x \in Packets, Protect(x) \/ Repair(x)
    PROVE  PieceMoves
<1>b. CycleTypeOK /\ BrokerTypeOK /\ SnapPosition(x) \in Int /\ Holding
  BY ReadingType DEF TypeInv, TypeOK
<1>1. PICK next \in {"protected", "repaired"} : PlaceProtective(x, SnapPosition(x), next)
  BY DEF Protect, Repair
<1>2. UNCHANGED <<held, position, day, phase>> /\ Current(x) /\ x \in todo
  BY DEF Protect, Repair, Managing, Current
<1>3. live_state[x] \notin {"absent", "queued"}
  BY <1>2 DEF Protect, Repair, Managing, TimedInv, LoopRows, First, ToManage, HeldLoop, HeldRow
<1>4. SnapPosition(x) > 0 /\ (x \in ToManage => ~ExitFilled(x))
  <2>1. CASE Protect(x)
    <3>1. pc \in First /\ (pc = "submitted" \/ pc = "protect")
      BY <2>1 DEF Protect, First
    <3>2. live_state[x] = "submitted" /\ x \notin ToManage
      BY <1>2, <3>1 DEF TimedInv, LoopRows, HeldRow
    <3> QED
      BY <1>2, <1>b, <2>1, <3>2 DEF Protect, Holding
  <2>2. CASE Repair(x)
    BY <2>2 DEF Repair, Unprotected
  <2> QED
    BY <2>1, <2>2
<1>5. ASSUME NEW kinds \in SUBSET {"STOP", "TARGET"}, ~Refused(x, SnapPosition(x)),
             orders' = WithProtection(x, SnapPosition(x), kinds), NEW p \in Packets, NEW k \in Kinds
      PROVE  \/ orders'[p][k] = orders[p][k]
             \/ /\ p = x /\ k \in ExitKinds /\ Sellable(x, SnapPosition(x))
                /\ orders'[p][k] = NewOrder(SnapPosition(x))
  <2>1. CASE p = x /\ k \in kinds /\ orders[x][k].status \notin Working
    BY <1>5, <1>b, <2>1, EntryIsKind DEF WithProtection, Refused, BrokerTypeOK
  <2>2. CASE ~(p = x /\ k \in kinds /\ orders[x][k].status \notin Working)
    BY <1>5, <1>b, <2>2 DEF WithProtection, BrokerTypeOK
  <2> QED
    BY <2>1, <2>2
<1>6. ASSUME NEW p \in Packets, NEW k \in Kinds
      PROVE  \/ orders'[p][k] = orders[p][k]
             \/ /\ p = x /\ k \in ExitKinds /\ Sellable(x, SnapPosition(x))
                /\ orders'[p][k] = NewOrder(SnapPosition(x))
  <2>1. {"STOP"} \in SUBSET {"STOP", "TARGET"} /\ {"STOP", "TARGET"} \in SUBSET {"STOP", "TARGET"}
    OBVIOUS
  <2> QED
    BY <1>1, <1>5, <2>1 DEF PlaceProtective
<1> QED
  BY <1>b, <1>2, <1>3, <1>4, <1>6, PlacingPieces

LEMMA ExitPieces ==
    ASSUME TypeInv, TimedInv, PieceRows, NEW x \in Packets, SendExit(x), Sendable(x)
    PROVE  PieceMoves
<1>b. CycleTypeOK /\ BrokerTypeOK /\ LedgerTypeOK
  BY DEF TypeInv, TypeOK
<1>1. /\ pc = "send" /\ Current(x) /\ orders' = WithOrder(x, sent, SendQuantity(x))
      /\ UNCHANGED <<held, position, day, phase>>
  BY DEF SendExit
<1>2. live_state[x] \notin {"absent", "queued"} /\ sent \in TimedKinds /\ sent \in ExitKinds
  BY <1>1, TimedAreKinds, EntryIsKind DEF TimedInv, LoopRows
<1>3. SendQuantity(x) \in Int
  BY <1>b, ReadingType DEF SendQuantity, LedgerTypeOK
<1>4. ASSUME NEW p \in Packets, NEW k \in Kinds
      PROVE  \/ orders'[p][k] = orders[p][k]
             \/ /\ p = x /\ k \in ExitKinds /\ Sellable(x, SendQuantity(x))
                /\ orders'[p][k] = NewOrder(SendQuantity(x)) /\ orders[p][k].status # "filled"
  <2>1. CASE p = x /\ k = sent
    BY <1>1, <1>2, <1>b, <2>1 DEF WithOrder, Sendable, BrokerTypeOK, Accepted
  <2>2. CASE ~(p = x /\ k = sent)
    BY <1>1, <1>b, <2>2 DEF WithOrder, BrokerTypeOK
  <2> QED
    BY <2>1, <2>2
<1>5. \A k \in ExitKinds : orders[x][k].status = "filled" => orders'[x][k] = orders[x][k]
  BY <1>4, EntryIsKind
<1> QED
  BY <1>1, <1>2, <1>3, <1>4, <1>5, PlacingPieces

(* Every step but a connection and an entry order is such a step.             *)
LEMMA PieceKinds ==
    ASSUME Apart, SaleInv, TimedInv, PieceRows, [Next]_vars
    PROVE  \/ Connect \/ PieceMoves
           \/ \E p \in Packets : SendEntry(p) /\ CalendarGate
<1>b. TypeInv /\ TypeInv' /\ CoveredIn(orders)
  BY NextType DEF SaleInv
<1>1. CASE \/ Clock \/ Broker \/ UNCHANGED brokerVars
           \/ \E x \in Packets : CancelRemainder(x)
  BY <1>b, <1>1, BrokerPieces DEF PieceMoves
<1>0. ASSUME UNCHANGED <<orders, position, held, day, phase, cancels>> PROVE PieceMoves
  <2>1. UNCHANGED brokerVars
    BY <1>0 DEF brokerVars
  <2> QED
    BY <1>b, <2>1, BrokerPieces DEF PieceMoves
<1>2. ASSUME NEW x \in Packets, Protect(x) \/ Repair(x) PROVE PieceMoves
  BY <1>b, <1>2, ProtectionPieces
<1>3. ASSUME NEW x \in Packets, SendExit(x) PROVE PieceMoves
  <2>1. CASE Sendable(x)
    BY <1>b, <1>3, <2>1, ExitPieces
  <2>2. CASE ~Sendable(x)
    BY <1>3, <1>0, <2>2 DEF SendExit
  <2> QED
    BY <2>1, <2>2
<1>4. ASSUME NEW x \in Packets, SendEntry(x), ~CalendarGate PROVE PieceMoves
  BY <1>4, <1>0 DEF SendEntry
<1>5. \/ Connect \/ Clock \/ Broker \/ UNCHANGED brokerVars
      \/ \E p \in Packets : \/ CancelRemainder(p) \/ Protect(p) \/ Repair(p)
                            \/ SendExit(p) \/ SendEntry(p)
  BY DEF vars, Next, Runner, BeginCycle, StartHeld, StartExits, StartEntries, EndCycle, StillWaiting,
         EntryEndsUnfilled, CommitProtection, ProtectionFails, ReopenTimed, Close, Flatten,
         CommitRepair, LeaveAlone, NotYet, ChooseExit, CommitExit, Suppress, MissBoundary,
         FixExitSession, CommitEntry, CycleFails, Discover
<1> QED
  BY <1>1, <1>2, <1>3, <1>4, <1>5

(* The rows that are written: a row is opened once its entry has executed or  *)
(* is over, and ends when its shares are gone, but those an exit was too      *)
(* small for.                                                                 *)
PieceWrite(p) ==
    \/ live_state'[p] = live_state[p] /\ entry_session'[p] = entry_session[p]
    \/ /\ UNCHANGED brokerVars
       /\ \/ /\ live_state'[p] \in Ended \cup {"submitted"}
             /\ p \in Active => p \in Active' \/ Gone(p)
          \/ live_state'[p] \in {"open", "closing"} /\ Begun(Entry(p))
          \/ /\ live_state[p] = "absent" /\ live_state'[p] = "queued" /\ entry_session'[p] < MaxDay

LEMMA PieceEnds ==
    ASSUME TypeInv, ReadPieces, NEW p \in Packets,
           \/ EntryEndsUnfilled(p) \/ Close(p)
           \/ pc = "held" /\ Vanished(p)
    PROVE  Gone(p)
<1>b. CycleTypeOK
  BY DEF TypeInv, TypeOK
<1>1. Reading /\ ReadPiece(p) /\ SnapPosition(p) \in Int
  BY <1>b, ReadingType DEF EntryEndsUnfilled, Close, Managing, Reading, First, HeldLoop, ReadPieces
<1>2. CASE EntryEndsUnfilled(p)
  BY <1>1, <1>2 DEF EntryEndsUnfilled, EntryFilled, ReadPiece, Begun, Gone
<1>3. CASE Close(p)
  <2>1. p \in ToManage /\ InHand(p)
    BY <1>3 DEF Close, Managing, Current, InHand, ToManage, HeldLoop, First
  <2> QED
    BY <1>1, <1>3, <2>1 DEF Close, BrokerFlat, ReadPiece
<1>4. CASE pc = "held" /\ Vanished(p)
  BY <1>1, <1>4 DEF Vanished, Ordered, ReadPiece, Begun, Working
<1> QED
  BY <1>2, <1>3, <1>4

LEMMA PieceWrites ==
    ASSUME SessionInv, TimedInv, PieceInv, [Next]_vars, NEW p \in Packets
    PROVE  PieceWrite(p)
<1>b. /\ TypeInv /\ LedgerTypeOK /\ CycleTypeOK /\ BrokerTypeOK /\ ReadPieces /\ LifeRow(p)
      /\ StillQueued
  BY DEF SessionInv, TypeInv, TypeOK, PieceInv, LifeRows
<1>e. /\ \A state \in Ended : state \notin {"submitted", "open", "closing"}
      /\ "queued" \notin {"submitted", "open", "closing"}
  BY DEF Ended
<1>u. CASE UNCHANGED <<live_state, entry_session>>
  BY <1>u DEF PieceWrite
<1>1. CASE BeginCycle
  <2>1. UNCHANGED brokerVars /\ UNCHANGED entry_session
    BY <1>1 DEF BeginCycle
  <2>2. CASE AdoptedEntry(p)
    BY <1>1, <2>1, <2>2 DEF BeginCycle, AdoptedEntry, PieceWrite, Active, Rows
  <2>3. CASE ~AdoptedEntry(p) /\ AdoptedExit(p)
    BY <1>1, <1>b, <2>1, <2>3 DEF BeginCycle, AdoptedExit, PieceWrite, LifeRow
  <2>4. CASE ~AdoptedEntry(p) /\ ~AdoptedExit(p)
    BY <1>1, <2>1, <2>4 DEF BeginCycle, PieceWrite
  <2> QED
    BY <2>2, <2>3, <2>4
<1>2. ASSUME NEW x \in Packets, EntryEndsUnfilled(x) \/ Close(x) PROVE PieceWrite(p)
  <2>1. /\ live_state'[x] \in Ended /\ UNCHANGED brokerVars /\ UNCHANGED entry_session
        /\ x # p => live_state'[p] = live_state[p]
    BY <1>2, <1>b DEF EntryEndsUnfilled, Close, Set, Ended, LedgerTypeOK
  <2>2. Gone(x)
    BY <1>2, <1>b, PieceEnds
  <2> QED
    BY <2>1, <2>2 DEF PieceWrite
<1>3. ASSUME NEW x \in Packets, CommitProtection(x) \/ ReopenTimed(x) PROVE PieceWrite(p)
  <2>1. /\ live_state'[x] = "open" /\ UNCHANGED brokerVars /\ UNCHANGED entry_session
        /\ x # p => live_state'[p] = live_state[p]
    BY <1>3, <1>b DEF CommitProtection, ReopenTimed, Set, LedgerTypeOK
  <2>2. Reading /\ InHand(x)
    BY <1>3 DEF CommitProtection, ReopenTimed, Reading, First, HeldLoop, InHand, ToManage, Current
  <2>3. Begun(Entry(x))
    BY <1>b, <2>2 DEF ReadPieces, ReadPiece
  <2> QED
    BY <2>1, <2>3 DEF PieceWrite
<1>4. ASSUME NEW x \in Packets, CommitExit(x) PROVE PieceWrite(p)
  <2>1. CASE Raise
    BY <1>u, <2>1 DEF Raise, ledger
  <2>2. CASE ~Raise
    <3>1. /\ live_state'[x] = "closing" /\ UNCHANGED brokerVars /\ UNCHANGED entry_session
          /\ x # p => live_state'[p] = live_state[p]
      BY <1>4, <1>b, <2>2 DEF CommitExit, Set, LedgerTypeOK
    <3>2. live_state[x] = "open"
      BY <1>4 DEF CommitExit, TimedInv, LoopRows
    <3> QED
      BY <1>b, <3>1, <3>2 DEF PieceWrite, LifeRow
  <2> QED
    BY <2>1, <2>2
<1>5. CASE StartExits
  <2>1. /\ UNCHANGED brokerVars /\ UNCHANGED entry_session /\ pc = "held"
        /\ live_state'[p] = IF Vanished(p) THEN "entry_expired_unknown" ELSE live_state[p]
    BY <1>5 DEF StartExits
  <2>2. "entry_expired_unknown" \in Ended
    BY DEF Ended
  <2>3. Vanished(p) => Gone(p)
    BY <1>b, <2>1, PieceEnds
  <2> QED
    BY <2>1, <2>2, <2>3 DEF PieceWrite
<1>6. CASE StartEntries
  <2>1. /\ UNCHANGED brokerVars /\ UNCHANGED entry_session
        /\ \/ live_state'[p] = live_state[p]
           \/ live_state[p] = "queued" /\ live_state'[p] \in Ended
    BY <1>6 DEF StartEntries, DueToday, Rows, Ended
  <2> QED
    BY <1>e, <2>1 DEF PieceWrite, Active, Rows
<1>7. ASSUME NEW x \in Packets, Suppress(x) \/ MissBoundary(x) PROVE PieceWrite(p)
  <2>1. pc = "entries" /\ x \in todo
    BY <1>7 DEF Suppress, MissBoundary, Current
  <2>2. /\ UNCHANGED brokerVars /\ UNCHANGED entry_session
        /\ \/ live_state'[p] = live_state[p]
           \/ p \in todo /\ live_state'[p] \in Ended
    BY <1>7, <1>b, <2>1 DEF Suppress, MissBoundary, Set, Ended, LedgerTypeOK
  <2>3. p \in todo => live_state[p] = "queued"
    BY <1>b, <2>1 DEF StillQueued
  <2> QED
    BY <1>e, <2>2, <2>3 DEF PieceWrite, Active, Rows
<1>8. ASSUME NEW x \in Packets, CommitEntry(x) PROVE PieceWrite(p)
  <2>1. CASE Raise
    BY <1>u, <2>1 DEF Raise, ledger
  <2>2. CASE ~Raise
    <3>1. /\ live_state'[x] = "submitted" /\ UNCHANGED brokerVars /\ UNCHANGED entry_session
          /\ x # p => live_state'[p] = live_state[p]
      BY <1>8, <1>b, <2>2 DEF CommitEntry, Set, LedgerTypeOK
    <3> QED
      BY <3>1 DEF PieceWrite, Active, Rows
  <2> QED
    BY <2>1, <2>2
<1>9. ASSUME NEW x \in Packets, Discover(x) PROVE PieceWrite(p)
  <2>1. CASE x = p
    <3>1. /\ UNCHANGED brokerVars /\ live_state[p] = "absent" /\ live_state'[p] = "queued"
          /\ entry_session'[p] = IF phase = "entry" THEN day ELSE day + 1
          /\ (IF phase = "entry" THEN day ELSE day + 1) + MaxSessions <= MaxDay
      BY <1>9, <1>b, <2>1 DEF Discover, Set, LedgerTypeOK
    <3>2. day \in Nat /\ MaxDay \in Nat /\ MaxSessions \in Nat /\ MaxSessions > 0
      BY <1>b DEF BrokerTypeOK
    <3>3. entry_session'[p] \in Int /\ entry_session'[p] + MaxSessions <= MaxDay
      BY <3>1, <3>2
    <3>4. entry_session'[p] < MaxDay
      BY <3>2, <3>3
    <3> QED
      BY <3>1, <3>4 DEF PieceWrite
  <2>2. CASE x # p
    BY <1>9, <1>b, <2>2 DEF Discover, Set, PieceWrite, LedgerTypeOK
  <2> QED
    BY <2>1, <2>2
<1>10. CASE Connect \/ StartHeld \/ EndCycle \/ Clock \/ Broker \/ CycleFails \/ UNCHANGED vars
  BY <1>10, <1>u DEF Connect, StartHeld, EndCycle, Clock, Broker, CycleFails, vars, ledger
<1>11. ASSUME NEW x \in Packets,
              \/ StillWaiting(x) \/ CancelRemainder(x) \/ Protect(x) \/ ProtectionFails(x)
              \/ Flatten(x) \/ Repair(x) \/ CommitRepair(x) \/ LeaveAlone(x)
              \/ NotYet(x) \/ ChooseExit(x) \/ SendExit(x) \/ FixExitSession(x) \/ SendEntry(x)
       PROVE  PieceWrite(p)
  BY <1>11, <1>u DEF StillWaiting, CancelRemainder, Protect, ProtectionFails, Flatten, Repair,
           CommitRepair, LeaveAlone, NotYet, ChooseExit, SendExit, FixExitSession, SendEntry,
           PlaceProtective, Raise, ledger
<1> QED
  BY <1>1, <1>2, <1>3, <1>4, <1>5, <1>6, <1>7, <1>8, <1>9, <1>10, <1>11 DEF Next, Runner

(* What a cycle has read stays true while the cycle goes on with it.          *)
PieceReading == Reading' =>
    /\ Reading /\ snap' = snap
    /\ \A p \in Packets :
         /\ InHand(p)' => InHand(p) \/ Begun(Snapshot(p, "ENTRY"))
         /\ p \in ToManage' => p \in ToManage /\ timed_exit'[p] \in {timed_exit[p], NoKind}
PieceCycle == PieceReading /\ Offline'

LEMMA PieceReadsOn ==
    ASSUME TypeInv, TypeInv', ReadPieces, PieceMoves, PieceReading
    PROVE  ReadPieces'
<1> SUFFICES ASSUME Reading', NEW p \in Packets PROVE ReadPiece(p)'
  BY DEF ReadPieces
<1>1. /\ ReadPiece(p) /\ PieceStep(p) /\ snap' = snap
      /\ GoneStays(p) \/ (SnapPosition(p) > 0 /\ (p \in ToManage => ~ExitFilled(p)))
      /\ InHand(p)' => InHand(p) \/ Begun(Snapshot(p, "ENTRY"))
      /\ p \in ToManage' => p \in ToManage /\ timed_exit'[p] \in {timed_exit[p], NoKind}
  BY DEF PieceReading, PieceMoves, ReadPieces
<1>2. /\ held[p] \in Int /\ held'[p] \in Int /\ held'[p] >= 0 /\ SnapPosition(p) \in Int
  BY <1>1, ReadingType DEF TypeInv, TypeOK, BrokerTypeOK, PieceStep, PieceRow
<1>3. /\ SnapPosition(p)' = SnapPosition(p)
      /\ \A k \in Kinds : Snapshot(p, k)' = Snapshot(p, k)
      /\ Snapshot(p, "ENTRY")' = Snapshot(p, "ENTRY")
  BY <1>1 DEF Snapshot, SnapPosition
<1>4. p \in ToManage' /\ ExitFilled(p)' => p \in ToManage /\ ExitFilled(p)
  <2>1. ~ClosedBy(p, NoOrder)
    BY DEF ClosedBy, NoOrder
  <2>2. p \in ToManage' => Timed(p)' \in {Timed(p), NoOrder}
    BY <1>1 DEF Timed, Snapshot
  <2>3. /\ Snapshot(p, "STOP")' = Snapshot(p, "STOP")
        /\ Snapshot(p, "TARGET")' = Snapshot(p, "TARGET")
    BY <1>1 DEF Snapshot
  <2>4. ASSUME p \in ToManage', ExitFilled(p)' PROVE ExitFilled(p)
    <3>1. PICK o \in {Snapshot(p, "STOP")', Snapshot(p, "TARGET")', Timed(p)'} :
              o.filled > 0 /\ (Remaining(o) = 0 \/ SnapPosition(p)' = 0)
      BY <2>4 DEF ExitFilled, ClosedBy
    <3>2. ClosedBy(p, o)
      BY <1>3, <3>1 DEF ClosedBy
    <3>3. o \in {Snapshot(p, "STOP"), Snapshot(p, "TARGET"), Timed(p)}
      BY <2>1, <2>2, <2>3, <2>4, <3>1, <3>2
    <3> QED
      BY <3>2, <3>3 DEF ExitFilled
  <2> QED
    BY <1>1, <2>4
<1>5. EntryDead(Snapshot(p, "ENTRY")) => held'[p] = 0
  BY <1>1, <1>2 DEF EntryDead, ReadPiece, PieceStep, Working
<1>6. Begun(Snapshot(p, "ENTRY")) => Begun(Entry(p)) /\ Begun(Entry(p))'
  BY <1>1 DEF ReadPiece, PieceStep
<1>7. SnapPosition(p) = 0 /\ Begun(Snapshot(p, "ENTRY")) => Gone(p)'
  BY <1>1, <1>2, <1>6 DEF ReadPiece, GoneStays
<1>8. p \in ToManage' /\ ExitFilled(p)' => Gone(p)'
  <2>1. p \in ToManage => InHand(p)
    BY DEF InHand
  <2> QED
    BY <1>1, <1>4, <1>6, <2>1 DEF ReadPiece, GoneStays
<1>9. Snapshot(p, "ENTRY").status \notin Working =>
         Entry(p)'.status \notin Working /\ held'[p] <= SnapPosition(p)
  BY <1>1, <1>2 DEF ReadPiece, PieceStep
<1>10. InHand(p)' => Begun(Snapshot(p, "ENTRY"))
  BY <1>1 DEF ReadPiece
<1> QED
  BY <1>1, <1>3, <1>5, <1>6, <1>7, <1>8, <1>9, <1>10 DEF ReadPiece

LEMMA PieceForgets ==
    ASSUME Forget PROVE PieceCycle
BY DEF Forget, PieceCycle, PieceReading, Reading, First, HeldLoop, Offline

LEMMA PieceLoop ==
    ASSUME Offline, UNCHANGED <<connected, snap>>, todo' \subseteq todo,
           \A p \in Packets : \/ timed_exit'[p] \in {timed_exit[p], NoKind}
                              \/ p \notin todo' /\ pc \notin First,
           \/ pc = "submitted" /\ pc' = "submitted"
           \/ pc = "protected" /\ pc' = "submitted"
           \/ pc \in {"held", "repaired"} /\ pc' \in {"held", "repaired"}
           \/ pc = "held" /\ pc' = "send" /\ sent' = "QTYFAIL"
           \/ pc = "send" /\ pc' = "sent" /\ sent' = sent
           \/ pc = "sent" /\ sent = "QTYFAIL" /\ pc' = "held"
           \/ pc = "sent" /\ sent # "QTYFAIL" /\ pc' = "exits"
           \/ pc = "exits" /\ pc' = "exits"
           \/ pc = "exits" /\ pc' = "send" /\ sent' # "QTYFAIL"
           \/ pc \in Buying /\ pc' \in Buying
    PROVE  PieceCycle
<1>1. pc # "idle"
  BY DEF Buying
<1>2. Reading' => Reading
  BY DEF Reading, First, HeldLoop, Buying
<1>3. ASSUME Reading', NEW p \in Packets, p \in ToManage'
      PROVE  p \in ToManage /\ timed_exit'[p] \in {timed_exit[p], NoKind}
  BY <1>3 DEF Reading, First, HeldLoop, ToManage, Buying
<1>4. ASSUME Reading', NEW p \in Packets, InHand(p)' PROVE InHand(p)
  BY <1>3, <1>4 DEF Reading, First, HeldLoop, InHand, Buying
<1> QED
  BY <1>1, <1>2, <1>3, <1>4 DEF PieceCycle, PieceReading, Offline

\* The row whose protection is being placed has shares.
LEMMA PieceProtects ==
    ASSUME TypeInv, Offline, UNCHANGED <<entry_session, timed_exit, connected, snap, todo>>,
           NEW p \in Packets, Current(p), pc = "submitted" \/ InHand(p), pc \in First,
           pc = "submitted" => Recoverable(p) \/ EntryFilled(p), pc' \in {"protect", "protected"}
    PROVE  PieceCycle
<1>b. LedgerTypeOK
  BY DEF TypeInv, TypeOK
<1>1. InHand(p) \/ Begun(Snapshot(p, "ENTRY"))
  BY DEF Recoverable, EntryFilled, Ordered, Begun, Working
<1>2. \A q \in Packets : Current(q)' => q = p
  BY <1>b, OneCurrent DEF Current, Before
<1>3. \A q \in Packets : InHand(q)' => InHand(q) \/ q = p
  BY <1>2 DEF InHand, ToManage, First
<1>4. \A q \in Packets : q \in ToManage' => q \in ToManage
  BY DEF ToManage, First
<1>5. pc # "idle" /\ Reading
  BY DEF First, Reading
<1> QED
  BY <1>1, <1>3, <1>4, <1>5 DEF PieceCycle, PieceReading, Offline

LEMMA PieceCycles ==
    ASSUME TypeInv, Offline, [Next]_vars, ~BeginCycle
    PROVE  PieceCycle
<1>1. CASE Clock \/ Broker \/ UNCHANGED vars
  BY <1>1 DEF Clock, Broker, vars, ledger, cycle, PieceCycle, PieceReading, Reading, HeldLoop, InHand,
              ToManage, Current, Before, Offline
<1>2. CASE Connect \/ \E p \in Packets : Discover(p)
  <2>1. pc' = "idle"
    BY <1>2 DEF Discover, Connect, Offline, cycle
  <2> QED
    BY <2>1 DEF PieceCycle, PieceReading, Reading, First, HeldLoop, Offline
<1>3. CASE EndCycle \/ CycleFails
  BY <1>3, PieceForgets DEF EndCycle, CycleFails
<1>4. CASE StartHeld
  BY <1>4 DEF StartHeld, Goto, PieceCycle, PieceReading, Reading, First, HeldLoop, InHand, ToManage,
              Offline, ledger
<1>5. CASE StartExits \/ StartEntries
  BY <1>5 DEF StartExits, StartEntries, Goto, PieceCycle, PieceReading, Reading, First, HeldLoop,
              Offline
<1>7. ASSUME NEW p \in Packets,
             \/ StillWaiting(p) \/ EntryEndsUnfilled(p) \/ CommitProtection(p) \/ Close(p)
             \/ Flatten(p) \/ CommitRepair(p) \/ LeaveAlone(p) \/ NotYet(p) \/ ChooseExit(p)
      PROVE  PieceCycle
  <2>1. UNCHANGED <<timed_exit, connected, snap>> /\ todo' \subseteq todo
    BY <1>7 DEF StillWaiting, EntryEndsUnfilled, CommitProtection, Close, Flatten,
                CommitRepair, LeaveAlone, NotYet, ChooseExit, NextRow, Done, ledger
  <2>2. \/ pc = "submitted" /\ pc' = "submitted"
        \/ pc = "protected" /\ pc' = "submitted"
        \/ pc \in {"held", "repaired"} /\ pc' = "held"
        \/ pc = "held" /\ pc' = "send" /\ sent' = "QTYFAIL"
        \/ pc = "exits" /\ pc' = "exits"
        \/ pc = "exits" /\ pc' = "send" /\ sent' # "QTYFAIL"
    BY <1>7 DEF StillWaiting, EntryEndsUnfilled, CommitProtection, Close, Flatten,
                CommitRepair, LeaveAlone, NotYet, ChooseExit, Managing, Goto
  <2> QED
    BY <2>1, <2>2, PieceLoop
<1>8. ASSUME NEW p \in Packets, ReopenTimed(p) PROVE PieceCycle
  <2>1. \A q \in Packets : timed_exit'[q] \in {timed_exit[q], NoKind}
    BY <1>8 DEF ReopenTimed, TypeInv, TypeOK, LedgerTypeOK
  <2> QED
    BY <1>8, <2>1, PieceLoop DEF ReopenTimed
<1>9. ASSUME NEW p \in Packets, CancelRemainder(p) PROVE PieceCycle
  <2>1. pc = "submitted" /\ pc' = "protect" /\ Current(p) /\ EntryFilled(p)
    BY <1>9 DEF CancelRemainder, Goto
  <2> QED
    BY <1>9, <2>1, PieceProtects DEF CancelRemainder, First, ledger
<1>10. ASSUME NEW p \in Packets, Protect(p) PROVE PieceCycle
  <2>1. PlaceProtective(p, SnapPosition(p), "protected") /\ Current(p) /\ pc \in First
    BY <1>10 DEF Protect, First
  <2>2. CASE Forget
    BY <2>2, PieceForgets
  <2>3. CASE ~Forget
    <3>1. pc' = "protected" /\ UNCHANGED <<ledger, connected, todo, snap>>
      BY <2>1, <2>3 DEF PlaceProtective, Raise, Goto
    <3>2. /\ pc = "submitted" => Recoverable(p) \/ EntryFilled(p)
          /\ pc = "submitted" \/ InHand(p)
      BY <1>10, <2>1 DEF Protect, InHand
    <3> QED
      BY <2>1, <3>1, <3>2, PieceProtects DEF ledger
  <2> QED
    BY <2>2, <2>3
<1>11. ASSUME NEW p \in Packets, Repair(p) PROVE PieceCycle
  <2>1. CASE Forget
    BY <2>1, PieceForgets
  <2>2. CASE ~Forget
    <3>1. pc = "held" /\ pc' = "repaired" /\ UNCHANGED <<timed_exit, connected, todo, snap>>
      BY <1>11, <2>2 DEF Repair, Managing, PlaceProtective, Raise, Goto, ledger
    <3> QED
      BY <3>1, PieceLoop
  <2> QED
    BY <2>1, <2>2
<1>12. ASSUME NEW p \in Packets, ProtectionFails(p) PROVE PieceCycle
  BY <1>12, PieceForgets DEF ProtectionFails, Raise
<1>13. ASSUME NEW p \in Packets, SendExit(p) \/ CommitExit(p) PROVE PieceCycle
  <2>1. CASE Forget
    BY <2>1, PieceForgets
  <2>2. CASE ~Forget /\ SendExit(p)
    BY <2>2, PieceLoop DEF SendExit, Raise, Goto, ledger
  <2>3. CASE ~Forget /\ CommitExit(p)
    <3>1. /\ pc = "sent" /\ pc' = (IF sent = "QTYFAIL" THEN "held" ELSE "exits")
          /\ todo' = todo \ {p} /\ UNCHANGED <<connected, snap>>
          /\ \A q \in Packets : q # p => timed_exit'[q] = timed_exit[q]
      BY <2>3 DEF CommitExit, Raise, Goto, Done, TypeInv, TypeOK, LedgerTypeOK
    <3>2. \A q \in Packets : \/ timed_exit'[q] \in {timed_exit[q], NoKind}
                             \/ q \notin todo' /\ pc \notin First
      BY <3>1 DEF First
    <3> QED
      BY <3>1, <3>2, PieceLoop
  <2> QED
    BY <1>13, <2>1, <2>2, <2>3
<1>14. ASSUME NEW p \in Packets,
              \/ Suppress(p) \/ MissBoundary(p) \/ FixExitSession(p) \/ SendEntry(p)
              \/ CommitEntry(p)
       PROVE  PieceCycle
  <2>1. CASE Forget
    BY <2>1, PieceForgets
  <2>2. CASE ~Forget
    BY <1>14, <2>2, PieceLoop DEF Suppress, MissBoundary, FixExitSession, SendEntry, CommitEntry,
                                   Raise, Goto, Done, Buying, ledger
  <2> QED
    BY <2>1, <2>2
<1> QED
  BY <1>1, <1>2, <1>3, <1>4, <1>5, <1>7, <1>8, <1>9, <1>10, <1>11, <1>12, <1>13, <1>14
  DEF Next, Runner

LEMMA BuyingToday ==
    ASSUME TypeInv, BuysToday, [Next]_vars PROVE BuysToday'
<1>1. CASE StartEntries
  BY <1>1 DEF StartEntries, BuysToday, DueToday
<1>2. CASE ~StartEntries
  <2>1. pc' \in Buying => pc \in Buying /\ todo' \subseteq todo /\ UNCHANGED <<snap, entry_session>>
    <3> USE DEF Buying
    <3>1. CASE \/ Connect \/ BeginCycle \/ StartHeld \/ StartExits \/ EndCycle \/ CycleFails
               \/ Clock \/ Broker \/ UNCHANGED vars
      BY <3>1 DEF Connect, BeginCycle, StartHeld, StartExits, EndCycle, CycleFails, Clock, Broker,
                  vars, cycle, ledger, Goto, Forget
    <3>2. ASSUME NEW p \in Packets,
                 \/ StillWaiting(p) \/ EntryEndsUnfilled(p) \/ CancelRemainder(p) \/ Protect(p)
                 \/ CommitProtection(p) \/ ProtectionFails(p) \/ ReopenTimed(p) \/ Close(p)
                 \/ Flatten(p) \/ Repair(p) \/ CommitRepair(p) \/ LeaveAlone(p) \/ NotYet(p)
                 \/ ChooseExit(p) \/ SendExit(p) \/ CommitExit(p) \/ Discover(p)
          PROVE  pc' \notin Buying
      BY <3>2 DEF StillWaiting, EntryEndsUnfilled, CancelRemainder, Protect, CommitProtection,
                  ProtectionFails, ReopenTimed, Close, Flatten, Repair, CommitRepair, LeaveAlone,
                  NotYet, ChooseExit, SendExit, CommitExit, Discover, PlaceProtective, Raise,
                  Forget, Managing, Goto, cycle
    <3>3. ASSUME NEW p \in Packets,
                 \/ Suppress(p) \/ MissBoundary(p) \/ FixExitSession(p) \/ SendEntry(p)
                 \/ CommitEntry(p),
                 pc' \in Buying
          PROVE  pc \in Buying /\ todo' \subseteq todo /\ UNCHANGED <<snap, entry_session>>
      BY <3>3 DEF Suppress, MissBoundary, FixExitSession, SendEntry, CommitEntry, Raise, Forget,
                  Goto, Done, ledger
    <3> QED
      BY <1>2, <3>1, <3>2, <3>3 DEF Next, Runner
  <2> QED
    BY <2>1 DEF BuysToday
<1> QED
  BY <1>1, <1>2

(* An entry is only sent, or sent again, before its opening.                  *)
LEMMA EntryPieces ==
    ASSUME TypeInv, TypeInv', StillQueued, PieceRows, LifeRows, BuysToday,
           NEW x \in Packets, SendEntry(x), CalendarGate
    PROVE  PieceRows' /\ LifeRows'
<1>b. /\ BrokerTypeOK /\ LedgerTypeOK /\ "ENTRY" \in Kinds /\ ExitKinds = Kinds \ {"ENTRY"}
      /\ held[x] \in Int /\ Quantity \in Nat \ {0} /\ day \in Int /\ entry_session[x] \in Int
  BY EntryIsKind DEF TypeInv, TypeOK, BrokerTypeOK, LedgerTypeOK
<1>1. /\ pc = "buy" /\ x \in todo /\ orders' = WithOrder(x, "ENTRY", Quantity)
      /\ UNCHANGED <<held, position, day, phase, live_state, entry_session>>
  BY DEF SendEntry, Current, ledger
<1>2. live_state[x] = "queued" /\ entry_session[x] = day /\ phase \in {"entry", "preopen"}
  BY <1>1 DEF StillQueued, BuysToday, Buying, CalendarGate
<1>3. /\ PieceRow(x) /\ LifeRow(x) /\ held[x] = 0
      /\ \A k \in ExitKinds : orders[x][k] = NoOrder
  BY <1>2, <1>b DEF PieceRows, LifeRows, PieceRow, LifeRow, Past
<1>4. /\ \A k \in ExitKinds : orders'[x][k] = NoOrder
      /\ Entry(x)' \in {Entry(x), NewOrder(Quantity)}
  BY <1>1, <1>3, <1>b DEF WithOrder, BrokerTypeOK, Entry
<1>5. /\ NoOrder.status = "none" /\ NoOrder.filled = 0 /\ NoOrder.today
      /\ NewOrder(Quantity).status = "working" /\ NewOrder(Quantity).filled = 0
      /\ NewOrder(Quantity).qty = Quantity /\ NewOrder(Quantity).today
  BY DEF NewOrder, NoOrder
<1>6. PieceRow(x)' /\ LifeRow(x)'
  <2>1. \A k \in ExitKinds : ExitSound(x, orders[x][k])'
    BY <1>4, <1>5 DEF ExitSound, FullSize, Working
  <2>2. Entry(x)'.status \in Working => AtWork(x)'
    <3>1. CASE Entry(x)' = NewOrder(Quantity)
      BY <1>2, <1>1, <1>4, <1>5, <1>b, <3>1 DEF AtWork, Entry
    <3>2. CASE Entry(x)' = Entry(x)
      <4>1. \A k \in Kinds : orders'[x][k] = orders[x][k]
        BY <1>3, <1>4, <1>b, <3>2 DEF Entry
      <4>2. SoldLess(x) <=> SoldLess(x)'
        BY <4>1 DEF SoldLess
      <4> QED
        BY <1>1, <1>3, <3>2, <4>1, <4>2 DEF PieceRow, AtWork
    <3> QED
      BY <1>4, <3>1, <3>2
  <2>3. Entry(x)'.status # "none" => held'[x] <= Entry(x)'.filled
    BY <1>1, <1>3, <1>4, <1>5 DEF PieceRow
  <2>4. PieceRow(x)'
    BY <1>1, <1>3, <2>1, <2>2, <2>3 DEF PieceRow
  <2>5. LifeRow(x)'
    BY <1>1, <1>2, <1>3, <1>4, <1>b DEF LifeRow
  <2> QED
    BY <2>4, <2>5
<1>7. ASSUME NEW p \in Packets, p # x PROVE PieceRow(p)' /\ LifeRow(p)'
  <2>1. orders'[p] = orders[p]
    BY <1>1, <1>7, <1>b DEF WithOrder, BrokerTypeOK
  <2>2. SoldLess(p)' <=> SoldLess(p)
    BY <2>1 DEF SoldLess
  <2>3. PieceRow(p) /\ LifeRow(p)
    BY DEF PieceRows, LifeRows
  <2>4. PieceRow(p)'
    BY <1>1, <2>1, <2>2, <2>3 DEF PieceRow, AtWork, ExitSound, Entry
  <2>5. LifeRow(p)'
    BY <1>1, <2>1, <2>3 DEF LifeRow, Past, Entry
  <2> QED
    BY <2>4, <2>5
<1> QED
  BY <1>6, <1>7 DEF PieceRows, LifeRows

(* The cycle begins with what is true at that moment.                         *)
LEMMA PiecesBegin ==
    ASSUME TypeInv, TypeInv', PieceRows, LifeRows', BeginCycle PROVE ReadPieces'
<1> SUFFICES ASSUME NEW p \in Packets PROVE ReadPiece(p)'
  BY DEF ReadPieces
<1>b. /\ BrokerTypeOK /\ LedgerTypeOK' /\ held[p] \in Int /\ "ENTRY" \in Kinds
      /\ \A k \in Kinds : orders[p][k] \in Order
  BY EntryIsKind DEF TypeInv, TypeOK, BrokerTypeOK
<1>1. /\ pc' = "submitted" /\ snap'.orders = orders /\ snap'.position = position
      /\ snap'.managed = {q \in Packets : live_state'[q] \in {"open", "closing"}}
      /\ UNCHANGED <<orders, held, position>>
  BY DEF BeginCycle, Goto, brokerVars
<1>2. /\ SnapPosition(p)' = held[p] /\ \A k \in Kinds : Snapshot(p, k)' = orders[p][k]
      /\ Snapshot(p, "ENTRY")' = Entry(p) /\ Entry(p)' = Entry(p) /\ held'[p] = held[p]
      /\ PieceRow(p) /\ LifeRow(p)'
  BY <1>1 DEF PieceRows, PieceRow, LifeRows, SnapPosition, Snapshot, Entry
<1>3. EntryDead(Entry(p)) => held[p] = 0
  BY <1>2, <1>b DEF PieceRow, EntryDead
<1>4. Gone(p)' <=> Gone(p)
  BY <1>1 DEF Gone, SoldLess
<1>5. p \in ToManage' => Begun(Entry(p))
  BY <1>1, <1>2 DEF ToManage, First, LifeRow
<1>6. ASSUME NEW k \in ExitKinds, orders[p][k].filled > 0,
             Remaining(orders[p][k]) = 0 \/ held[p] = 0
      PROVE  Gone(p)
  <2>1. k \in Kinds /\ k # "ENTRY" /\ orders[p][k] \in Order
    BY <1>b, EntryIsKind
  <2>2. CASE held[p] = 0
    BY <2>2 DEF Gone
  <2>3. CASE Remaining(orders[p][k]) = 0
    <3>1. orders[p][k].status = "filled"
      BY <1>2, <1>6, <2>3 DEF PieceRow, ExitSound
    <3>2. CASE orders[p][k].qty < Quantity
      BY <2>1, <3>1, <3>2 DEF Gone, SoldLess
    <3>3. CASE ~(orders[p][k].qty < Quantity)
      <4>1. FullSize(orders[p][k])
        BY <2>1, <3>1, <3>3 DEF FullSize, Order
      <4> QED
        BY <1>2, <1>b, <2>3, <4>1 DEF PieceRow, ExitSound, Gone
    <3> QED
      BY <3>2, <3>3
  <2> QED
    BY <1>6, <2>2, <2>3
<1>7. ExitFilled(p)' => Gone(p)
  <2>1. ~(NoOrder.filled > 0) /\ "STOP" \in ExitKinds /\ "TARGET" \in ExitKinds
    BY DEF NoOrder, ExitKinds, Kinds
  <2>2. timed_exit'[p] = NoKind \/ timed_exit'[p] \in ExitKinds
    BY <1>b, TimedAreKinds, EntryIsKind DEF LedgerTypeOK
  <2>3. /\ Snapshot(p, "STOP")' = orders[p]["STOP"] /\ Snapshot(p, "TARGET")' = orders[p]["TARGET"]
        /\ Timed(p)' = IF timed_exit'[p] = NoKind THEN NoOrder ELSE orders[p][timed_exit'[p]]
    BY <1>1 DEF Snapshot, Timed
  <2>4. ASSUME ExitFilled(p)' PROVE Gone(p)
    <3>1. PICK o \in {Snapshot(p, "STOP")', Snapshot(p, "TARGET")', Timed(p)'} :
              o.filled > 0 /\ (Remaining(o) = 0 \/ SnapPosition(p)' = 0)
      BY <2>4 DEF ExitFilled, ClosedBy
    <3>2. PICK k \in ExitKinds : o = orders[p][k]
      BY <2>1, <2>2, <2>3, <3>1
    <3> QED
      BY <1>2, <1>6, <3>1, <3>2
  <2> QED
    BY <2>4
<1>8. Entry(p).status \notin Working => held[p] <= held[p]
  BY <1>b
<1>9. InHand(p)' => p \in ToManage'
  BY <1>1 DEF InHand
<1> QED
  BY <1>2, <1>3, <1>4, <1>5, <1>7, <1>8, <1>9, <1>b DEF ReadPiece, PieceRow, Gone

LEMMA NextPieces ==
    ASSUME Apart, SaleInv, SessionInv, TimedInv, PieceInv, [Next]_vars
    PROVE  PieceInv'
<1>b. /\ TypeInv /\ TypeInv' /\ StillQueued
      /\ PieceRows /\ LifeRows /\ ReadPieces /\ BuysToday /\ Offline
  BY NextType DEF SessionInv, PieceInv
<1>0. BuysToday'
  BY <1>b, BuyingToday
<1>1. ASSUME NEW x \in Packets, SendEntry(x), CalendarGate PROVE PieceInv'
  <2>1. PieceRows' /\ LifeRows'
    BY <1>1, <1>b, EntryPieces
  <2>2. pc' = "bought" /\ pc = "buy" /\ connected' = connected
    BY <1>1 DEF SendEntry, Goto
  <2> QED
    BY <1>0, <1>b, <2>1, <2>2 DEF PieceInv, ReadPieces, Reading, First, HeldLoop, Offline
<1>2. CASE Connect
  <2>1. /\ orders' = Resynced /\ pc' = "idle"
        /\ UNCHANGED <<held, position, day, phase, live_state, entry_session>>
    BY <1>2, <1>b DEF Connect, Offline, cycle, ledger
  <2>2. \A p \in Packets : PieceStep(p) /\ Unplaced(p)
    BY <1>b, <2>1, ResyncedPiece DEF PieceRows
  <2>3. \A p \in Packets : LifeRow(p)'
    BY <1>b, <2>1, <2>2, LifeKept DEF LifeRows
  <2> QED
    BY <1>0, <2>1, <2>2, <2>3 DEF PieceInv, PieceRows, LifeRows, PieceStep, ReadPieces, Reading,
                                  First, HeldLoop, Offline
<1>3. CASE PieceMoves
  <2>1. PieceRows'
    BY <1>3 DEF PieceMoves, PieceStep, PieceRows
  <2>2. ASSUME NEW p \in Packets PROVE LifeRow(p)'
    <3>1. /\ PieceWrite(p) /\ LifeRow(p) /\ PieceStep(p)
          /\ Unplaced(p) \/ live_state[p] \notin {"absent", "queued"}
      BY <1>3, PieceWrites DEF PieceMoves, PieceInv, LifeRows
    <3>2. CASE live_state'[p] = live_state[p] /\ entry_session'[p] = entry_session[p]
      BY <1>3, <1>b, <3>1, <3>2, LifeKept DEF PieceMoves
    <3>3. CASE ~(live_state'[p] = live_state[p] /\ entry_session'[p] = entry_session[p])
      <4>1. UNCHANGED <<orders, held, day, phase>>
        BY <3>1, <3>3 DEF PieceWrite, brokerVars
      <4>2. held[p] \in Int
        BY <1>b DEF TypeInv, TypeOK, BrokerTypeOK
      <4> QED
        BY <3>1, <3>3, <4>1, <4>2 DEF PieceWrite, LifeRow, Entry, Ended
    <3> QED
      BY <3>2, <3>3
  <2>3. CASE BeginCycle
    <3>1. LifeRows'
      BY <2>2 DEF LifeRows
    <3>2. ReadPieces'
      BY <1>b, <2>3, <3>1, PiecesBegin
    <3>3. Offline'
      BY <2>3 DEF BeginCycle, Offline
    <3> QED
      BY <1>0, <2>1, <3>1, <3>2, <3>3 DEF PieceInv
  <2>4. CASE ~BeginCycle
    <3>1. PieceCycle
      BY <1>b, <2>4, PieceCycles
    <3>2. ReadPieces'
      BY <1>3, <1>b, <3>1, PieceReadsOn DEF PieceCycle
    <3> QED
      BY <1>0, <2>1, <2>2, <3>1, <3>2 DEF PieceInv, LifeRows, PieceCycle
  <2> QED
    BY <2>3, <2>4
<1> QED
  BY <1>b, <1>1, <1>2, <1>3, PieceKinds

LEMMA InitPieces == Init => PieceInv
<1> SUFFICES ASSUME Init PROVE PieceInv
  OBVIOUS
<1>1. \A p \in Packets : /\ held[p] = 0 /\ position[Symbol[p]] = 0 /\ live_state[p] = "absent"
                         /\ \A k \in Kinds : orders[p][k] = NoOrder
  BY DEF Init, BrokerInit
<1>2. NoOrder.status = "none" /\ NoOrder.filled = 0 /\ "none" \notin Working
  BY DEF NoOrder, Working
<1>3. \A p \in Packets : Entry(p) = NoOrder
  BY <1>1, EntryIsKind DEF Entry
<1>4. PieceRows
  BY <1>1, <1>2, <1>3, EntryIsKind DEF PieceRows, PieceRow, ExitSound, FullSize, Working
<1>5. LifeRows
  BY <1>1, <1>2, <1>3, EntryIsKind DEF LifeRows, LifeRow
<1>6. ReadPieces /\ BuysToday /\ Offline
  BY DEF Init, ReadPieces, Reading, First, HeldLoop, BuysToday, Buying, Offline
<1> QED
  BY <1>4, <1>5, <1>6 DEF PieceInv

(* A row never ends while shares of its packet are held, whatever filled since the cycle  *)
(* read the account and the orders, unless an exit was for the part of the entry that had *)
(* executed when it was sent (_reconcile_orders).                                         *)
THEOREM RowsEndSold == Apart /\ Spec => RowEndsSold
<1>1. ASSUME SessionInv, TimedInv, PieceInv, [Next]_vars
      PROVE  [\A p \in Active : p \in Active' \/ held[p] = 0 \/ SoldLess(p)]_vars
  <2>1. ASSUME NEW p \in Active PROVE p \in Active' \/ Gone(p)
    <3>1. p \in Packets /\ PieceWrite(p)
      BY <1>1, PieceWrites DEF Active, Rows
    <3> QED
      BY <3>1 DEF PieceWrite, Active, Rows
  <2> QED
    BY <2>1 DEF Gone
<1>2. CASE Apart
  <2>1. SaleInv /\ [Next]_vars => SaleInv'
    BY <1>2, NextSale
  <2>2. PieceInv /\ SaleInv /\ SessionInv /\ TimedInv /\ [Next]_vars => PieceInv'
    BY <1>2, NextPieces
  <2> QED
    BY <1>1, <2>1, <2>2, InitPieces, InitSale, InitSession, NextSession, InitManaged, NextManaged,
       InitTimed, NextTimed, PTL DEF Spec, RowEndsSold
<1>3. CASE ~Apart
  BY <1>3
<1> QED
  BY <1>2, <1>3
=============================================================================
