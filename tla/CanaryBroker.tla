--------------------------- MODULE CanaryBroker ---------------------------
(***************************************************************************)
(* The IBKR account as execution/canary.py sees it through the order       *)
(* methods of execution/ibkr.py.  The gateway and the exchange are outside *)
(* the repository; their rules are modelled from what the code relies on:  *)
(*   - an order is known by its reference "IA-E07-<token>-<KIND>", so by   *)
(*     its packet and its kind; a new order with the same reference        *)
(*     replaces the finished one before it;                                *)
(*   - the exits of one packet form an OCA group of type 1: an execution   *)
(*     of one cancels the others;                                          *)
(*   - the account is a cash account: a sale beyond the position is        *)
(*     refused;                                                            *)
(*   - a fresh connection is told of the open orders and of those that     *)
(*     ended on the same day, but not of older ones.                       *)
(***************************************************************************)
EXTENDS Integers, FiniteSets

CONSTANTS
    Packets,        \* review packets that became canary candidates
    Symbols,        \* stock symbols
    Symbol,         \* [Packets -> Symbols]
    Quantity,       \* whole shares planned for an entry
    EntryInPieces,  \* may the opening auction fill an entry in several executions?
    MaxDay,         \* days are counted up to MaxDay, which stands for every later day
    MaxCancels      \* bound on cancellations the broker makes on its own

ASSUME BrokerAssumption ==
    /\ IsFiniteSet(Packets)
    /\ Symbol \in [Packets -> Symbols]
    /\ Quantity \in Nat \ {0}
    /\ EntryInPieces \in BOOLEAN
    /\ MaxDay \in Nat \ {0}
    /\ MaxCancels \in Nat

VARIABLES
    orders,     \* [packet][kind] -> the newest order with that reference
    position,   \* AccountSnapshot.positions: one number per symbol
    held,       \* the part of a position that the entry and exits of a packet account for
    day,        \* trading day on the wall clock
    phase,      \* part of that day
    cancels     \* cancellations the broker has made on its own

brokerVars == <<orders, position, held, day, phase, cancels>>

Kinds      == {"ENTRY", "STOP", "TARGET", "TIME", "OVERDUE", "QTYFAIL"}
ExitKinds  == Kinds \ {"ENTRY"}
TimedKinds == {"TIME", "OVERDUE", "QTYFAIL"}

PairOnly == {"STOP", "TARGET"}    \* mutant of OcaKinds: timed exits outside the group

\* The orders placed with ocaGroup IA-E07-<token>-EXIT.
OcaKinds == ExitKinds

\* Up to 09:20; to the open; to 15:30; to 15:45; to the close; the rest of the day.
Phases == {"entry", "preopen", "rth", "moc", "late", "post"}
NextPhase == [entry |-> "preopen", preopen |-> "rth", rth |-> "moc",
              moc |-> "late", late |-> "post", post |-> "entry"]

\* "none": never placed, or no longer reported by the connection.
Statuses == {"none", "working", "cancelling", "filled", "cancelled"}
Working  == {"working", "cancelling"}

Order == [status : Statuses, qty : Nat, filled : Nat, today : BOOLEAN]
NoOrder == [status |-> "none", qty |-> 0, filled |-> 0, today |-> TRUE]
NewOrder(q) == [NoOrder EXCEPT !.status = "working", !.qty = q]
Cancelled(o) == [o EXCEPT !.status = "cancelled"]
Executed(o, n) ==
    [o EXCEPT !.filled = o.filled + n,
              !.status = IF o.filled + n = o.qty THEN "filled" ELSE o.status]

\* An opening order executes at the open, a market-on-close order at the
\* close, the others while the market is open.
Executable(k) ==
    CASE k = "ENTRY" -> phase = "rth"
      [] k = "TIME"  -> phase = "late"
      [] OTHER       -> phase \in {"rth", "moc", "late"}

\* An OPG order ends with the auction, a DAY order with the session.
Expires(k) == \/ k = "ENTRY" /\ phase = "rth"
              \/ k \in TimedKinds /\ phase = "late"

----------------------------------------------------------------------------
BrokerInit ==
    /\ orders = [p \in Packets |-> [k \in Kinds |-> NoOrder]]
    /\ position = [s \in Symbols |-> 0]
    /\ held = [p \in Packets |-> 0]
    /\ day = 1
    /\ phase = "entry"
    /\ cancels = 0

\* n more shares of the opening purchase of p execute.
EntryFill(p) ==
    LET o == orders[p]["ENTRY"] IN
    /\ o.status \in Working /\ Executable("ENTRY")
    /\ \E n \in 1..(o.qty - o.filled) :
        /\ EntryInPieces \/ n = o.qty
        /\ orders' = [orders EXCEPT ![p]["ENTRY"] = Executed(o, n)]
        /\ position' = [position EXCEPT ![Symbol[p]] = @ + n]
        /\ held' = [held EXCEPT ![p] = @ + n]
    /\ UNCHANGED <<day, phase, cancels>>

\* n shares of an exit execute; OCA type 1 cancels the rest of its group.
ExitFill(p, k) ==
    LET mine == orders[p]
        Sibling(j) == {j, k} \subseteq OcaKinds /\ mine[j].status \in Working
    IN
    /\ mine[k].status \in Working /\ Executable(k)
    /\ \E n \in 1..(mine[k].qty - mine[k].filled) :
        /\ orders' = [orders EXCEPT ![p] = [j \in Kinds |->
                         IF j = k THEN Executed(mine[k], n)
                         ELSE IF Sibling(j) THEN Cancelled(mine[j]) ELSE mine[j]]]
        /\ position' = [position EXCEPT ![Symbol[p]] = @ - n]
        /\ held' = [held EXCEPT ![p] = @ - n]
    /\ UNCHANGED <<day, phase, cancels>>

\* A cancellation the runner asked for takes effect.
CancelTakesEffect(p) ==
    /\ orders[p]["ENTRY"].status = "cancelling"
    /\ orders' = [orders EXCEPT ![p]["ENTRY"] = Cancelled(@)]
    /\ UNCHANGED <<position, held, day, phase, cancels>>

\* The broker cancels an order nobody asked it to cancel.
BrokerCancel(p, k) ==
    /\ cancels < MaxCancels
    /\ orders[p][k].status \in Working
    /\ orders' = [orders EXCEPT ![p][k] = Cancelled(@)]
    /\ cancels' = cancels + 1
    /\ UNCHANGED <<position, held, day, phase>>

\* The clock moves on.  Orders expire with their session; what ended before
\* today is no longer in the list a new connection receives.
Tick ==
    /\ phase' = NextPhase[phase]
    /\ day' = IF phase = "post" /\ day < MaxDay THEN day + 1 ELSE day
    /\ orders' = [p \in Packets |-> [k \in Kinds |->
                    LET o == orders[p][k] IN
                    IF o.status \in Working /\ Expires(k) THEN Cancelled(o)
                    ELSE IF o.status \in {"filled", "cancelled"} /\ phase = "post"
                    THEN [o EXCEPT !.today = FALSE] ELSE o]]
    /\ UNCHANGED <<position, held, cancels>>

----------------------------------------------------------------------------
(* What the order methods of IbkrBroker do to the account. *)

\* ib.trades() right after a connection: open orders and today's finished ones.
Resynced == [p \in Packets |-> [k \in Kinds |->
                IF orders[p][k].today THEN orders[p][k] ELSE NoOrder]]

\* A cash account accepts a sale of at most the position.
Sellable(p, q) == 0 < q /\ q <= position[Symbol[p]]

\* _existing_trade: an order with this reference that was not rejected is reused.
Accepted(o) == o.status \in Working \cup {"filled"}

\* submit_market_on_open, submit_market_on_close, submit_market_exit.
WithOrder(p, k, q) ==
    [orders EXCEPT ![p][k] = IF Accepted(orders[p][k]) THEN orders[p][k] ELSE NewOrder(q)]

\* submit_protective_oca: each order is reused while it is not finished.
WithProtection(p, q, kinds) ==
    [orders EXCEPT ![p] = [k \in Kinds |->
        IF k \in kinds /\ orders[p][k].status \notin Working THEN NewOrder(q) ELSE orders[p][k]]]

\* cancel_order
WithCancel(p) ==
    [orders EXCEPT ![p]["ENTRY"].status = IF @ = "working" THEN "cancelling" ELSE @]

BrokerTypeOK ==
    /\ orders \in [Packets -> [Kinds -> Order]]
    /\ position \in [Symbols -> Int]
    /\ held \in [Packets -> Int]
    /\ day \in 1..MaxDay
    /\ phase \in Phases
    /\ cancels \in 0..MaxCancels
=============================================================================
