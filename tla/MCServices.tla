----------------------------- MODULE MCServices -----------------------------
(* Small instances of the background workers in one run: the research trial, the    *)
(* capture of company facts, the admission of option chains, the bar feed, the      *)
(* coverage of notifications and the watchdogs.  They share no variable; the initial *)
(* state chooses the one that moves.                                                *)
EXTENDS TrialRuntime, Services, TLC

CONSTANTS w1, w2, i1, i2, i3, x, y, p1, r1

VARIABLES
    service,
    n_clock, n_sent, n_acks, n_journal, n_journaling, n_sending, n_dispatches, n_coverage,
    n_gaps, n_health, n_run, n_witnessed, n_faults, n_restores, n_setbacks

notices  == <<n_clock, n_sent, n_acks, n_journal, n_journaling, n_sending, n_dispatches,
              n_coverage, n_gaps, n_health, n_run, n_witnessed, n_faults, n_restores,
              n_setbacks>>

-----------------------------------------------------------------------------
(* The trial: i1 is for the first session, i2 and i3 for the second; i2 has the symbol *)
(* of i1, and i3 was set aside by an earlier build.                                    *)
OneWorker == {w1}
Three     == {i1, i2, i3}
Nothing   == {}
Old       == {i3}
Signals   == [i \in Items |-> IF i = i1 THEN 0 ELSE 1]
Ranks     == [i \in Items |-> CASE i = i1 -> 1 [] i = i2 -> 2 [] OTHER -> 3]
Names     == [i \in Items |-> IF i = i3 THEN y ELSE x]

\* i1 is written in time, or when its session is over and the second one is sealed.
Writings == [i \in Items |-> IF i = i1 THEN {0, MaxClock - 1} ELSE {1}]

\* i1 is still held on the second session, and leaves on it.
Exits == [i \in Items |-> IF i = i1 THEN 2 ELSE 1]

\* The first session has a time between its cutoff and its open; the coordinator may run
\* on the evening of each.
Cutoffs  == <<1, 4>>
Opens    == <<3, 5>>
Evenings == {4, 6}

\* Two signals: the timestamps of i1 are unusable, and i2 may be decided by a clock
\* ahead of the worker's.
SignalRanks == i1 :> 1 @@ i2 :> 2

\* Two packets of one symbol and two autopilots.
PacketSymbols == [p \in {i1, i2} |-> x]

\* A request for each of two symbols; a cycle has room for one, and the first symbol
\* may fail for ever.
WantedBars == {[symbol |-> s, start |-> 0, through |-> 0] : s \in {1, 2}}

\* One packet, which a process of an older build may deliver too.
Notices == INSTANCE NotificationEvidence WITH
    Packets <- {p1}, OldCode <- {p1}, Runs <- {r1}, Scheduled <- r1, MaxAttempts <- 2,
    MaxClock <- 1, MaxFaults <- 1, MaxRestores <- 0, MaxSetbacks <- 0,
    clock <- n_clock, sent <- n_sent, acks <- n_acks, journal <- n_journal,
    journaling <- n_journaling, sending <- n_sending, dispatches <- n_dispatches,
    coverage <- n_coverage, gaps <- n_gaps, health <- n_health, run <- n_run,
    witnessed <- n_witnessed, faults <- n_faults, restores <- n_restores,
    setbacks <- n_setbacks

ASSUME Features!FeatureAssumption
ASSUME Options!AdmissionAssumption
ASSUME Bars!BarAssumption

-----------------------------------------------------------------------------
Moves(name) == service = name

InitServices ==
    /\ service \in {"trial", "features", "options", "bars", "notices", "watchdog"}
    /\ Init /\ Features!Init /\ Options!Init /\ Bars!Init /\ Notices!Init /\ Dog!Init
    /\ Moves("features") \/ f_window[i2] = "open"
    /\ Moves("watchdog") \/ d_kind = "canary"

NextServices ==
    /\ \/ Moves("trial") /\ Next /\ UNCHANGED <<features, options, bars, notices, watchdog>>
       \/ Moves("features") /\ Features!Next
            /\ UNCHANGED <<vars, options, bars, notices, watchdog>>
       \/ Moves("options") /\ Options!Next
            /\ UNCHANGED <<vars, features, bars, notices, watchdog>>
       \/ Moves("bars") /\ Bars!Next
            /\ UNCHANGED <<vars, features, options, notices, watchdog>>
       \/ Moves("notices") /\ Notices!Next
            /\ UNCHANGED <<vars, features, options, bars, watchdog>>
       \/ Moves("watchdog") /\ Dog!Next
            /\ UNCHANGED <<vars, features, options, bars, notices>>
    /\ UNCHANGED service

\* Each service runs under its own fairness.
FairServices ==
    /\ InitServices
    /\ [][NextServices]_<<vars, service, features, options, bars, notices, watchdog>>
    /\ WF_vars(Moves("trial") /\ Tick)
    /\ WF_vars(Moves("trial") /\ Coordinate)
    /\ \A w \in Workers : WF_vars(Moves("trial") /\ Pass(w))
    /\ WF_features(Moves("features") /\ Features!Ingest(w1))
    /\ \A w \in {w1, w2} : WF_features(Moves("features") /\ Features!Step(w))
    /\ \A j \in {i1, i2} : WF_features(Moves("features") /\ Features!LeaseRunsOut(j))
    /\ WF_bars(Moves("bars") /\ Bars!Collect)
    /\ WF_bars(Moves("bars") /\ Bars!ObserveSessions)
    /\ WF_bars(Moves("bars") /\ Bars!Tick)
    /\ WF_notices(Moves("notices") /\ Notices!Monitor(r1))
    /\ WF_watchdog(Moves("watchdog") /\ Dog!Watch)
    /\ SF_watchdog(Moves("watchdog") /\ Dog!Register)
    /\ WF_watchdog(Moves("watchdog") /\ Dog!Progress)
    /\ WF_watchdog(Moves("watchdog") /\ Dog!Grow)
    /\ WF_watchdog(Moves("watchdog") /\ Dog!Ended)

-----------------------------------------------------------------------------
(* Properties of the components, stated for this run *)

\* Every candidate of the trial is resolved and the trial is decided, with the exceptions
\* that EveryCandidateResolved and TrialDecided name (trial_finalizer.py, terminal_coordinator.py).
TrialSettled == Moves("trial") => EveryCandidateResolved /\ TrialDecided

\* Every approved signal ends with a receipt or a rejection (feature_capture.py).
SignalsSettled == Moves("features") => Features!EverySignalSettled

\* The trial, the capture of company facts and the admission of option chains implement
\* the ledger of Verdicts: one verdict for each item, kept, and earned where it must be.
VerdictsKept == Ledger!Spec /\ Features!Ledger!Spec /\ Options!Ledger!Spec

\* A symbol that fails for ever does not starve the others (bar_feed.py).
SymbolsServed == Moves("bars") => Bars!SymbolsServed

\* An acknowledgement without evidence becomes a gap record (notification_coverage.py).
MissingRecorded == Moves("notices") => Notices!MissingRecorded

\* A live worker with a fresh heartbeat always comes back (watchdog.py, autopilot_watchdog.py).
WorkerReturns == Moves("watchdog") => Dog!WorkerReturns
=============================================================================
