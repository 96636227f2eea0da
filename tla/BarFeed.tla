------------------------------- MODULE BarFeed -------------------------------
(***************************************************************************)
(* research/bar_feed.py, bar_worker.py, session_feed.py, session_worker.py *)
(* and ibkr_bar_source.py: the daily bars that prove a trial's outcomes.   *)
(*                                                                         *)
(* A collector run takes the clock once, asks the schedule which sessions  *)
(* are over, and fetches the symbols that are due, least recently tried    *)
(* first.  It appends the bars of a symbol and its poll receipt in two     *)
(* transactions, so it may die or meet a locked store between them.        *)
(*                                                                         *)
(* Each day has two instants, before and after its close.  Days after the  *)
(* last requested one are one day that comes again and again.  The task    *)
(* starts no second instance, and the clock is not set back.               *)
(***************************************************************************)
EXTENDS Integers, Sequences, FiniteSetsExt, SequencesExt

CONSTANTS
    Symbols,    \* naturals, in the order of the symbols' names
    Wanted,     \* the requests that may be made
    PerCycle,   \* max_symbols_per_cycle
    Failing,    \* symbols whose requests may fail for ever
    MaxFaults   \* bound on the other failures, deaths and damaged bars

BarAssumption ==
    /\ Symbols \subseteq Nat /\ IsFiniteSet(Symbols)
    /\ Wanted \subseteq [symbol : Symbols, start : Nat, through : Nat]
    /\ IsFiniteSet(Wanted) /\ Wanted # {}
    /\ PerCycle \in Nat \ {0}

VARIABLES
    clock,
    sessions,   \* session_observations: the days the schedule lists
    requests,   \* bar_feed_requests
    observed,   \* bar_observations
    receipts,   \* bar_poll_receipts
    polled,     \* bar_poll_state
    turn,       \* the order of the last attempts; 0: never tried
    run,        \* the collector
    faults

store == <<requests, observed, receipts, polled>>
vars  == <<clock, sessions, store, turn, run, faults>>

LastDay == Max({q.through : q \in Wanted}) + 1
Sessions == 0 .. LastDay
Date(t) == t \div 2
Closed(d, t) == t >= 2 * d + 1
NoDay     == -1
NotPolled == [today |-> FALSE, start |-> LastDay + 1, completed |-> NoDay]
Idle      == [at |-> "idle"]
Top       == Cardinality(Symbols) + 1

Init ==
    /\ clock = 0 /\ sessions = {}
    /\ requests = {} /\ observed = <<>> /\ receipts = {}
    /\ polled = [s \in Symbols |-> NotPolled]
    /\ turn = [s \in Symbols |-> 0]
    /\ run = Idle /\ faults = 0

Observed(s, d) == \E i \in DOMAIN observed : observed[i].symbol = s /\ observed[i].day = d

-----------------------------------------------------------------------------
(* The schedule and the requests *)

\* collect_sessions_once; the schedule reaches 45 days ahead.
ObserveSessions ==
    /\ sessions # Sessions
    /\ sessions' = Sessions
    /\ UNCHANGED <<clock, store, turn, run, faults>>

\* completed_through_date
CompletedThrough(t) == Max({d \in sessions : Closed(d, t)} \cup {NoDay})

Ask(q) ==
    /\ q \notin requests
    /\ requests' = requests \cup {q}
    /\ UNCHANGED <<clock, sessions, observed, receipts, polled, turn, run, faults>>

Unresolved == {q \in requests : ~Observed(q.symbol, q.through)}

Start(s, asked)   == Min({q.start : q \in {p \in asked : p.symbol = s}})
Through(s, asked) == Max({q.through : q \in {p \in asked : p.symbol = s}})

\* pending_requests
Due(s, completed) ==
    /\ \E q \in Unresolved : q.symbol = s
    /\ \/ ~polled[s].today
       \/ Start(s, Unresolved) < polled[s].start
       \/ /\ Start(s, Unresolved) <= completed /\ completed <= Through(s, Unresolved)
          /\ polled[s].completed < completed

-----------------------------------------------------------------------------
(* A run of the collector *)

\* fair_symbol_order
Before(s, t) == turn[s] < turn[t] \/ (turn[s] = turn[t] /\ s < t)

At(stage) == run.at = stage
Current == CHOOSE s \in run.todo : \A t \in run.todo \ {s} : Before(s, t)
NextSymbol ==
    run' = IF run.todo = {Current} THEN Idle
           ELSE [at |-> "fetch", now |-> run.now, today |-> run.today, asked |-> run.asked,
                 completed |-> run.completed, todo |-> run.todo \ {Current}]
Fault == faults < MaxFaults /\ faults' = faults + 1

\* The symbols of one cycle share its timestamp; those that it has not come to keep theirs.
Tried(s) == turn' = [turn EXCEPT ![s] = Top]

\* Mutant: only a successful poll moves a symbol back in the order.
NotTried(s) == UNCHANGED turn

\* record_failure
Failed(s) == turn' = [turn EXCEPT ![s] = Top]

Begin ==
    /\ At("idle")
    /\ LET due == {s \in Symbols : Due(s, CompletedThrough(clock))}
       IN  \E first \in (SUBSET due) \ {{}} :
             /\ Cardinality(first) = Min({PerCycle, Cardinality(due)})
             /\ \A s \in first, t \in due \ first : Before(s, t)
             /\ run' = [at |-> "fetch", now |-> clock, today |-> TRUE, asked |-> Unresolved,
                        completed |-> CompletedThrough(clock), todo |-> first]
    /\ turn' = [s \in Symbols |-> Cardinality({turn[t] : t \in Symbols} \cap 1 .. turn[s])]
    /\ UNCHANGED <<clock, sessions, store, faults>>

\* daily_bars answers with every day up to the present one, which may be unfinished;
\* one bar may be missing, or refused by the source's or the store's validation.
Fetch ==
    /\ At("fetch")
    /\ LET days == {d \in Start(Current, run.asked) .. Through(Current, run.asked) :
                      d <= Date(clock)}
           answer(bars, clean) ==
             run' = [at |-> "append", now |-> run.now, today |-> run.today,
                     asked |-> run.asked, completed |-> run.completed, todo |-> run.todo,
                     bars |-> bars, clean |-> clean,
                     final |-> {d \in bars : Closed(d, clock)}]
       IN  \/ answer(days, TRUE) /\ UNCHANGED faults
           \/ \E d \in days, clean \in BOOLEAN : answer(days \ {d}, clean) /\ Fault
    /\ UNCHANGED <<clock, sessions, store, turn>>

FetchFails ==
    /\ At("fetch")
    /\ IF Current \in Failing THEN UNCHANGED faults ELSE Fault
    /\ Failed(Current)
    /\ NextSymbol
    /\ UNCHANGED <<clock, sessions, store>>

\* Mutant: the clock is read again after the answer.
FinishedByNow(d) == d < Date(clock) \/ d <= CompletedThrough(clock)

\* append_completed judges a bar by the clock of the run's begin.
Finished(d) == d < Date(run.now) \/ d <= run.completed

\* The order of the trade dates.
InOrder(days) ==
    {f \in [1 .. Cardinality(days) -> days] :
       /\ Range(f) = days
       /\ \A i, j \in DOMAIN f : i < j => f[i] < f[j]}

\* A value that is there already is skipped, another one is a revision.
AppendBars ==
    /\ At("append")
    /\ LET bar(d) == [symbol |-> Current, day |-> d, final |-> d \in run.final]
           new == {d \in run.bars : Finished(d) /\ bar(d) \notin Range(observed)}
       IN  \E dates \in InOrder(new) :
             observed' = observed \o [i \in 1 .. Cardinality(new) |-> bar(dates[i])]
    /\ run' = [run EXCEPT !.at = "receipt"]
    /\ UNCHANGED <<clock, sessions, requests, receipts, polled, turn, faults>>

\* record_successful_poll
Receipt ==
    /\ At("receipt")
    /\ receipts' = receipts \cup
         {[symbol |-> Current, start |-> Start(Current, run.asked),
           through |-> Through(Current, run.asked), completed |-> run.completed,
           counted |-> {d \in run.bars : Finished(d)}, clean |-> run.clean,
           watermark |-> Len(observed)]}
    /\ polled' = [polled EXCEPT ![Current] =
         [today |-> run.today, start |-> Min({@.start, Start(Current, run.asked)}),
          completed |-> Max({@.completed, run.completed})]]
    /\ Tried(Current)
    /\ NextSymbol
    /\ UNCHANGED <<clock, sessions, requests, observed, faults>>

\* Mutant: the error of the append is swallowed, and the poll is recorded.
StoreFailsSilently ==
    /\ At("append") /\ Fault
    /\ run' = [run EXCEPT !.at = "receipt"]
    /\ UNCHANGED <<clock, sessions, store, turn>>

\* A locked store: the symbol has failed, whatever was committed before.
StoreFails ==
    /\ run.at \in {"append", "receipt"} /\ Fault
    /\ Failed(Current)
    /\ NextSymbol
    /\ UNCHANGED <<clock, sessions, store>>

\* The gateway cannot be reached, or the task's time limit ends the run.
Die ==
    /\ ~At("idle") /\ Fault
    /\ run' = Idle
    /\ UNCHANGED <<clock, sessions, store, turn>>

\* The next instant; a poll of yesterday is no poll of today.
Tick ==
    /\ clock' = IF clock = 2 * LastDay + 1 THEN 2 * LastDay ELSE clock + 1
    /\ IF clock % 2 = 0 THEN UNCHANGED <<polled, run>>
       ELSE /\ polled' = [s \in Symbols |-> [polled[s] EXCEPT !.today = FALSE]]
            /\ run' = IF At("idle") THEN run ELSE [run EXCEPT !.today = FALSE]
    /\ UNCHANGED <<sessions, requests, observed, receipts, turn, faults>>

Collect == Begin \/ Fetch \/ FetchFails \/ AppendBars \/ Receipt
Next ==
    \/ ObserveSessions \/ (\E q \in Wanted : Ask(q))
    \/ Collect \/ StoreFails \/ Die \/ Tick

Spec == Init /\ [][Next]_vars

\* Both tasks are repeated, and time goes on.
FairSpec == Spec /\ WF_vars(Collect) /\ WF_vars(ObserveSessions) /\ WF_vars(Tick)

-----------------------------------------------------------------------------
(* Properties *)

\* No bar of an unfinished session is ever observed, although the session may end
\* between the answer and the append: the first value is the one every consumer takes
\* (append_completed).
CompleteOnly == \A i \in DOMAIN observed : observed[i].final

\* A poll receipt counts no finished bar that its watermark does not cover: what it does
\* not show was not there, and was not lost by the collector (record_successful_poll).
ReceiptProves ==
    \A r \in receipts : \A d \in r.counted :
        \E i \in 1 .. r.watermark : observed[i].symbol = r.symbol /\ observed[i].day = d

\* A symbol that fails for ever does not keep the others from their last session's bar
\* (fair_symbol_order, pending_requests).
SymbolsServed ==
    \A q \in Wanted : (q \in requests /\ q.symbol \notin Failing)
                        ~> Observed(q.symbol, q.through)

\* What is stored and receipted is true: both of the above.
BarsTrue == CompleteOnly /\ ReceiptProves

\* Every request gets the clean receipt that the outcome of its candidate needs, the
\* later poll receipt that OUTCOME-MATERIALIZER.md:37 waits for (_terminal_receipt).
Proven(q) ==
    \E r \in receipts :
        /\ r.symbol = q.symbol /\ r.clean
        /\ r.start <= q.start /\ q.through <= r.through /\ q.through <= r.completed
ProvenEventually ==
    \A q \in Wanted : (q \in requests /\ q.symbol \notin Failing) ~> Proven(q)
=============================================================================
