# Insider alerts: a verification project

The repository is a pipeline that polls the SEC for insider trades (Form 4), reviews
them by rule and by a quantitative score, sends a notification for the approved ones,
and trades a small live "canary" of strategy E07 at Interactive Brokers.  Around it
stands a research part that records what was known when, under append-only custody,
so that a trial of the strategy can later be evaluated without hindsight.

This directory models the parts whose correctness depends on order, crashes and
concurrent actors, in TLA+, checks them with TLC on small instances, and proves the
most important properties for every value of the constants with TLAPS.

Contents: [the system](#the-system), [the modules](#the-modules), [what is
assumed](#what-the-models-assume), [the runs](#the-runs), [the proofs](#the-proofs),
[findings](#findings), [what is not modelled](#not-modelled), [the plan](#the-plan).

## The system

Paths are relative to `src/insider_alerts/` of the repository.

| component | state it keeps | operations | correct when |
|---|---|---|---|
| SEC ingestion, `sec/` | tables `filings`, `sec_processing_rejections` | poll RSS and daily indexes, locate and parse the XML, enqueue, backfill | every filing that can be settled is, an accession has one packet |
| Review queue, `review/queue.py` | tables `review_packets` and `deadletter_events`, the ledger `notification_delivery_acks`, and the trigger that opens a research capture job | enqueue, decide, acknowledge or suppress a notification, replay a dead letter | a packet is decided once; an acknowledgement belongs to the decision it was sent for |
| Autopilot, `cli.py` | none of its own: queue and SEC stores | one cycle: retry unsent notifications, decide pending packets | every approved packet is delivered or suppressed; one delivery per economic event |
| Live canary runner, `execution/canary.py` | table `candidates` of a SQLite ledger: state, sessions, quantity and order identifiers of each candidate | one cycle: discover, settle the shadow book, adopt, gate, reconcile, time exits, entries | shares bought belong to a managed row, are sold once, in the exit session; never more than `max_live_slots` |
| IBKR adapter, `execution/ibkr.py` | the connection; orders and positions live at the broker | connect, read account and orders, five order methods, calendar gates | no duplicate order per reference, a protective pair or none |
| Operational alerts, `execution/operational_alerts.py` | table `operational_incidents` in the canary's ledger, under an OS mutex | record failure, record success, dispatch | an outage is reported while it is open, a recovery only while nothing is, each once |
| Watchdogs, `execution/watchdog.py`, `autopilot_watchdog.py`, `windows_job.py` | the heartbeat store and its quarantine; the scheduled task | read the heartbeat, end and start the worker, move a corrupt store aside | a live worker always comes back, none runs beside a quarantine |
| Capture jobs, `research/capture.py`, `worker.py` | jobs with leases and attempts in SQLite | claim, renew, recover, query, append, finish, retry | one process at work, the market asked once per snapshot, every signal ends with its evidence |
| Feature capture, `research/feature_capture.py` | jobs, attempts and receipts of a stream of its own, under leases without owner | ingest, claim, request, retry, finalize | one receipt per signal, which agrees with the attempts |
| Option chain admission, `research/option_chain_admission.py` | admission rows | admit, launch a child, finalize | a child is started once per packet, a cadence apart per symbol |
| Trial runtime, `research/trial_runtime.py`, `trial_finalizer.py`, `trial_outcome_finalizer.py` | candidates, dispositions, resolutions, sealed entry dates, outcomes, faults | import evidence, complete or lapse a date, record an outcome | dates are sealed in order, decisions are in time and within the slots, a verdict is kept |
| Inference and terminal sealing, `research/inference.py`, `terminal_builder.py`, `terminal_coordinator.py`, `outcome_proof.py` | receipts, the staged dataset, the report | miss the deadline, stage, publish, seal, decide | one receipt binds one universe, the trial is decided once |
| Activation, `research/activation.py` | the activation store, the published and the deployed registry | prepare, seal, publish, arm, attest | one activation; all evidence is recorded under it and after its boundary |
| Notification transport and coverage, `research/notification_transport.py`, `notification_coverage.py` | the journal of attempts, coverage state, gaps, health | journal, activate, reconcile, checkpoint | a delivery without evidence becomes a gap, and only such a one |
| Bar and session feeds, `research/bar_feed.py`, `session_feed.py` | requests, observations, receipts, the schedule | ask, fetch, append, put a receipt | no unfinished bar is stored, a receipt counts no missing one, no symbol starves |
| SEC owner history, `research/sec_history.py` | archives, retrievals, releases, snapshots | sync, ingest, seal a snapshot, classify an owner | a snapshot is whole, a year is classified from what was public at its start |
| Observer, commissioning, calendar, diagnostics | documents and reports | read-only checks, one-shot administration | - |
| Backtest, scoring, market context, strategy rules | files, or none | batch computation, pure functions | - |

How they interact.  SEC ingestion writes filings, the review queue turns them into
packets, the autopilot decides the packets (asking for the option chain first) and sends
notifications, and an *approved* packet that came in by RSS becomes a candidate of the canary
(`backtest/signal_study.py`, line 129) and opens a capture job and a feature job.  The worker of
the canary reports its own outages to the operator.  The captured evidence becomes candidates of
the trial, whose outcomes the bar feed proves; the coverage monitor compares the queue's delivery
ledger with the journal of the transport.  The parts are separate processes that share
SQLite files; a watchdog or a scheduled task restarts each.

What is hard.  Every worker does work at somebody else's (a broker, a notification
service, the SEC) and commits to SQLite afterwards, so a crash in between leaves the two
apart; readings are taken once per cycle and acted upon while the other side moves; the
clock passes boundaries (the entry window, the market-on-close cutoff, lease expiry, a session's
open, the trial's deadline) between a check and the act, and may be set back; leases and retries
race late answers; and the custody stores must not depend on the order in which their writers arrive.

## The modules

### CanaryBroker

The account at the broker, which is outside the repository, together with the order methods
of `IbkrBroker`.  `orders` holds the newest order of each packet and kind, for an order
reference `IA-E07-<token>-<KIND>` names exactly these two; `position` is
`AccountSnapshot.positions`, one number per symbol; `held` is a history variable, the part
of a position that the orders of one packet account for.  The day has six phases, cut where the
code or the exchange treats time differently: up to 09:20, to the open, to 15:30, to 15:45
(market-on-close orders), to the close, and the rest.  `EntryFill`, `ExitFill`, `BrokerCancel`,
`CancelTakesEffect` and `Tick` are what the account does on its own; `WithOrder`,
`WithProtection` and `WithCancel` are what the order methods do to it, and `Resynced` is what a
new connection is told.

### LiveCanary

`CanaryRunner._run_live`.  The five ledger variables are the columns of table `candidates` that
drive it; a row keeps the names the code uses (`queued`, `submitted`, `open`, `closing`, and the
states a row ends in).  The order identifier columns collapse, since an order is found by
packet and kind: only `timed_exit_order_id` decides anything beyond that, and `timed_exit` holds
its kind.

| code | actions |
|---|---|
| `connect`, `account_snapshot`, `orders`, `_adopt_broker_orders`, `_account_gate` | `Connect`, `BeginCycle` |
| `_discover` | `Discover` |
| `_reconcile_orders`, rows `submitted` | `StillWaiting`, `EntryEndsUnfilled`, `CancelRemainder`, `Protect`, `CommitProtection`, `ProtectionFails` |
| `_reconcile_orders`, rows `open`, `closing` | `StartHeld`, `ReopenTimed`, `Close`, `Flatten`, `Repair`, `CommitRepair`, `LeaveAlone` |
| `_reconcile_orders`, last loop | `StartExits` |
| `_submit_due_time_exits` | `NotYet`, `ChooseExit`, `SendExit`, `CommitExit` |
| `_submit_due_entries` | `StartEntries`, `Suppress`, `MissBoundary`, `FixExitSession`, `SendEntry`, `CommitEntry` |
| `cycle` ends, or raises, or the process dies | `EndCycle`, `Raise`, `CycleFails` |

A cycle is cut where the code awaits: between choosing an order and sending it, between
sending it and committing it, and between rows.  At each cut the broker may fill, cancel or expire
orders, the clock may move, and the process may die, in which case `Forget` clears everything but
the ledger and the account.  `snap` is the one reading of the cycle; after `StartExits`
only its time is used, so the rest is dropped.

MCLiveCanary supplies the small instances, LiveCanary_proofs the theorems.

### ReviewQueue

The transactions of `review/queue.py`, one operator each; the module has no next-state
relation of its own.  A packet's row is `status`, `decision`, the three notification columns
and two orders, `created` and `updated`, of which the `ORDER BY ... LIMIT` of the listings is made.
A decision document is who decided and what, for `mark_notification_delivered` compares
nothing else of it.  `sent` says whether the delivery lies in the seven days that the
autopilot looks back on.  `Legacy` packets are pending rows that share a filing, which older versions
enqueued and which the dedupe of the autopilot exists for.

### Autopilot

The cycle of `ops autopilot --loop` over that queue, with the operator's commands and the
notification provider.

| code | actions |
|---|---|
| `_run_cycle`, outbox | `ReadAlerted`, `ListOutbox`, `SuppressOutbox`, `DeferOutbox`, `SendOutbox` |
| `_run_cycle`, the SEC poll fails | `AbandonCycle` |
| `_run_cycle`, pending packets | `ListPending`, `Decide`, `DeferJudgement`, `DeadletterTwin`, `EndCycle` |
| `NtfyNotifier.send`, and the acknowledgement after it | `Deliver`, `Refuse`, `LoseResponse`, `Acknowledge`, for the autopilot and for the operator |
| `review decide`, `review apply`, `ops deadletter-replay` | `OperatorDecides`, `OperatorReplays` |
| `enqueue_review_packets` | `Arrive` |
| a process dies | `Crash`, `OperatorCrash` |
| seven days pass | `WindowPasses` |

Every transaction and every send is a step, so that the other process, an arrival, or a crash
falls between reading the queue and acting on it.  `received` is what the provider accepted, whether or not
its answer arrived.  A ledger table of another schema, which an acknowledgement passes over, is one of the faults.  Which verdict the rules or the judge give is any verdict.

### OperationalIncidents

`OperationalIncidentTracker` and the background processor of `ops live-canary` that feeds it.
Several processes share the table of incidents; each has a queue of cycle outcomes, takes it as a batch,
records every outcome of the batch, and then dispatches the notices it has reserved.

| code | actions |
|---|---|
| a cycle ends, `submit_operational_transition` | `Cycle` |
| `process_operational_transitions` | `TakeBatch` |
| `record_failure` | `FirstFailure`, `FurtherFailure` |
| `record_success` | `Recovers`, `RetryRecovery`, `NothingToRecover` |
| an exception that the processor isolates | `LoseTransition`, `DropContended`, `LoseReceipt` |
| `dispatch`, with the mutex held over the send | `BeginSend`, `DropStale`, `Deliver`, `Refuse`, `LoseResponse`, `CommitReceipt` |
| the worker ends; the clock | `Crash`, `Tick` |

Timestamps are ages in ticks.  A reservation carries the stamp of its attempt in the code; here it carries
`current`, which a later reservation of the same row clears.  A settled row is never read again, so
its identifier is used for the next incident, and three identifiers stand for any number.

### CaptureJobs

A run of `research/worker.py` over the jobs that the queue's trigger opens for approved packets.  A job's row and
attempts are in the queue's database, its snapshot in another, and the option market is asked in
between; a process may be killed, or raise, at every gap between these.

| code | actions |
|---|---|
| `_artifact_process_mutex`, `_claim_job` | `Claim`, `ClaimNothing` |
| `_process_claimed_job`, before the request | `Recover`, `GiveUp`, `Begin` |
| `_capture_options`, and what becomes of its answer | `LiveSettled`, `LiveRetryable`, `VenueClosed` |
| `_capture_historical_options` | `History` |
| `_process_claimed_job`, after the request | `Renew`, `AppendSnapshot`, `Finish`, `Heartbeat` |
| the handler of `_run_active_capture_once` | `Raise`, `HandleRetry`, `HandleTerminal`, `HandleRefused` |
| the process is killed; the clock | `Die`, `DelayPasses`, `DeadlinePasses`, `LeaseRunsOut` |

The code asks three things of the clock: whether a job's delay, its deadline and its lease have
passed.  They are `phase` and `expired`, and each may pass at any step.  A job that is not there yet and a job whose delay has
not passed cannot be told apart by a claim, so all jobs are there from the start.  `evidence` is what a stored record
says of the options, an artifact or what is missing; `launches` counts historical requests up to two.  `Upgraded` jobs are
those `_claim_job` still provides for, leased rows whose attempt is on record, which this release never leaves behind.

### FeatureCapture

`run_feature_capture_once` over a store of its own.  No mutex keeps two workers apart and no statement after
the claim looks at the owner of the lease; what protects a settled job are the triggers and the unique keys.

| code | actions |
|---|---|
| `_ingest_next_job`, `_record_source_rejection` | `Ingest` |
| `_claim`, or nothing to claim | `Claim`, `ClaimNothing` |
| `run_feature_capture_once`, before, at and after the request | `Refuse`, `Request`, `RequestFails`, `PublishFails`, `Answer` |
| `_retry`, `_finalize` | `Retry`, `Finalize` |
| the process dies; the approval of a signal; the clock | `Die`; `Approve`; `WindowMoves`, `LeaseRunsOut` |

### OptionChainAdmission

`capture_predecision_option_chain`, called by the autopilot before it commits an approval.  `Call`, `Admit` and `Skip`
are its one transaction, with the clock read before it; `Launch`, `LaunchFails` and `Finalize` the child and its
result, `Return` the answer to the caller; `Die`, `Tick` and `ClockSetBack` the surroundings.

### TrialRuntime

The trial store with its finalizers and its terminal coordinator.  A pass is cut between its transactions, for it reads
the clock before each and another pass, by hand, may run beside it.

| code | actions |
|---|---|
| evidence is written; `run_trial_once` | `Record`; `Begin`, `PassOver`, `SetAside`, `ImportRetried`, `Import` |
| `apply_base_symbol_correction` | `Correct` |
| `finalize_pending_entry_dates` | `StartEntries`, `EntriesWait`, `LapseDate`, `ReadBook`, `Complete`, `AfterOpen` |
| `finalize_trial_outcomes` | `AppendOutcome`, `EndPass` |
| `evaluate_with_store`, `seal_deadline_miss` | `MissDeadline`, `DecideMiss` |
| `seal_terminal_dataset`, `stage_terminal`, `seal_terminal`, `decide_terminal_dataset` | `Stage`, `Restage`, `Publish`, `Seal`, `Decide` |
| a process dies; the clock | `PassDies`, `CoordinatorDies`; `Tick`, `ClockSetBack` |

`Complete` picks the candidates whose proofs make them eligible and the admitted ones that `Admits`, the rule of
`resolve_ranked_entry_date` (in the order of the ranks, what the book and the slots allow), determines from them.
`ReadBook` picks for each earlier position whether the bars show its exit yet.

### Verdicts

What every evidence stream promises, as an abstract specification: an item gets one verdict, which is kept, and a
verdict that only an outside service can justify is given only to an item the service was asked about.
TrialRuntime, FeatureCapture and OptionChainAdmission each define `Ledger == INSTANCE Verdicts WITH ...`, and
`Ledger!Spec` is checked (`VerdictsKept`) and proved of all three.

### Watchdog

The scheduled watchdog of the autopilot and of the canary.  `SchedulerStarts`, `Register`, `Progress`, `Grow` and
`Fault` are the scheduler, the worker and what may happen to its heartbeat; `Check`, `Query`, `Disable`,
`Requery`, `EndTask`, `Ended`, `Poll`, `GiveUp`, `Quarantine`, `Move`, `Enable`, `Run`, `Await` are a run in its order, which
may die after every step (`RunDies`).  The heartbeat is what the watchdog can tell of it: fresh, stale, ahead of the clock,
corrupt, or gone.

### NotificationEvidence

Senders journal around their POST (`DeliverOld`, `Dispatch`, `StartAttempt`, `AttemptFails`, `Respond`,
`Acknowledge`, `SenderCrashes`); the monitor is activated against a journal and then reads its state, the ledger and the
journal one after the other (`ReadState`, `ReadSource`, `ReadJournal`), records gaps and writes its checkpoint (`RecordGaps`,
`WriteHealth`, `WriteError`).  `Restore` puts an old copy of a database back; `SetBack` sets the clock back.

### BarFeed

`ObserveSessions` is the session worker; `Ask` a request; `Begin`, `Fetch`, `FetchFails`, `AppendBars`, `Receipt`, `StoreFails` and
`Die` a run of the collector, which takes the symbols that are due, the least recently tried first.

### SecIngestion

The three stages of the worker, with their reads and their two commits apart: `Poll`; `ListMissing`, `RejectPages`, `StoreUrls`;
`ListReview`, `RejectDocuments`, `EnqueuePackets`; and `Backfill`.  `Publish` is the SEC, `CycleFails` a failed request or
a process that ends.  A filing is a row with its accession, its page and its document; rows that nothing settles fill the batches.

### Activation, SecHistory, OwnerHistory

Activation: `Prepare`, `Seal`, `Publish`, `Crash` of an operator, `Deploy` (by hand, of any published or edited registry),
`Arm`, `Begin`, `Record` of a worker.  SecHistory: a sync goes through the quarters (`Begin`, `Reuse`, `Fetch`, `CheckRelease`, `Ingest`),
then `CreateSnapshot`; `SealLegacy` is the snapshot of the earlier format, `Publish` and `Replace` are the SEC, `Damage` and `Crash` the faults.
OwnerHistory: `Classify` is `classify_owner` as the replay of the filings year by year; it is compared with a definition in one formula of
what was public on the first of January, for every order of filings and amendments (`File`, `NewYear`, `CaptureHistory`).  A decision pins one
snapshot, so the filings are one growing set: an archive that the SEC replaces by one with other rows (`Replace` of SecHistory) does not change it.

### The MC modules

MCLiveCanary, MCAutopilot, MCOperationalIncidents and MCCaptureJobs supply constants.  MCSlots has the canary twice, with a symbol
for each packet and with one for both, and the initial state chooses.  MCLoops, MCCapture
and MCServices put components that share no variable into one run: the initial state chooses the one that moves, and each
runs under its own fairness.  They add no behaviour; what they say of a component is the component's own property.

### Services, Records, Overlapped

A component that runs beside others needs constants and variables of its own.  These three modules declare them and name what
is said of each component there: Services the company facts (`f_`), the option chains (`o_`), the bars (`b_`) and the watchdog (`d_`);
Records the activation (`a_`), the archives (`h_`), the owner (`c_`) and the evidence of notices (`e_`); Overlapped the trial whose
passes overlap (`t_`).  MCServices and MCCapture extend them to check the properties, and Background_proofs extends them to prove
the same definitions.  Where a component has a proof module, they are instances of that module, so that its theorems can be cited.

## What the models assume

Live canary.

* Positions and orders of one reading agree (`BeginCycle` reads both in one step).  In the
  code they are two requests on one connection; a fill in between is not modelled.
* The account is a cash account (`docs/runbook/LIVE_CANARY.md`, line 5): it refuses to sell more than the
  position.  OCA type 1 cancels the other exits of the group when one executes.
* A new connection is told of open orders and of those finished on the same day.
* One worker per client identifier; the broker refuses a second connection.
* The cash, commission and preview arithmetic is one nondeterministic answer, `Suppress`.
  The gate's checks of account name, cash and foreign orders are another, `other` in `BeginCycle`.
* A cycle is shorter than a phase of the day: it spans at most one boundary (`Clock`).
* With `PromptRestart` a cycle runs before the clock moves past an orphan entry, which is what the
  watchdog's one-minute recovery gives when it works; without it the worker may stay down for days, as in `live_slots`.
* Shares an entry buys after exits were already sent for a part of it are excepted in `RowEndsSold`; the limit
  about pieces under [findings](#findings) says why.
* Day `MaxDay` stands for every later day.  Discoveries stop early enough that a position is
  due before it.
* Phase `entry` stands for midnight to 09:20; that the window opens only at 09:18 is left out.

Autopilot.

* One autopilot (its lock file) and one operator's command at a time.
* The attempts inside one `send` are one step: accepted, refused, or accepted and the answer lost.
* `_economic_event_key` is a constant of the packet; `NoEvent` is its `None`.
* A message that arrives twice at the provider is one member of `received`: repetition of one packet is allowed.
* `WindowPasses` ages every delivery at once; it is disabled (`WindowEnds`) where a property speaks of
  one window.

Operational incidents.

* Ticks are long against a cycle: no tick falls between the end of a cycle and the transaction that
  records it, while one may fall before or during the notice that follows.  The threshold of five
  minutes and the retry interval are one or two ticks.
* `accepted` counts to two: more than one is what the properties ask about.

Capture jobs.

* The mutex is the system's, so it is free again when its holder has died; waiting for it in vain for three minutes ends
  the run without effect.  One claim and the processing after it are one process, as in `run_capture_once`.
* The registry window is active throughout; `Outside` are the jobs that were observed outside of it.  A queue of more than 100
  claimable jobs is not modelled.
* Decisions come due in their order, for the delay is the same for all.
* An exception is transient or permanent (`permanent`), whichever the handler reads from its type.

The other services.

* Feature capture: the clock is the three readings a job knows (`early`, `open`, `closed`) and the expiry of leases.
  Option chains: a child ends by itself or with its caller.
* Trial: the signal of every record falls before the cutoff of the last session of the model (`TrialAssumption`),
  so each has an entry date; cutoffs and opens alternate.  A coordinator's run is cut at its commits; while it seals, it holds
  the store's write lock (`Unlocked`).  `TrialDecided` speaks of outcomes that become provable: time brings every exit
  session of the model.
* Bars: one collector (the task ignores a second instance), a clock that is not set back, and a schedule that
  is empty or complete.
* Notices: `MissingRecorded` is checked with a clock that is not set back and no store put back; `EvidenceTrue` with
  both.
* SEC ingestion: what the SEC serves for a row does not change, and the SEC lists finitely many rows; the git state and the digests of
  Activation, and the manifest page of SecHistory, are taken to be in order.  A damaged file of an archive that is still
  served makes every later sync fail, so nothing is claimed of termination there.

Fairness.

* Live canary (`FairSpec`): weak fairness of the runner, which a loop with a sleep drives; weak fairness of
  the clock; strong fairness of the execution of timed exits, for a market order that is offered to an
  open market again and again does execute, while it may miss any one session.  No fairness of
  stops, targets, cancellations or faults.
* Autopilot (`Running`): weak fairness of the loop's steps; strong fairness of `ListPending`, for a poll
  of the SEC may fail now and then but not for ever; strong fairness of a verdict for each packet that is asked about
  again and again, and of the provider for each packet it is asked to report again and again.  No fairness of
  arrivals, commands, crashes or lost responses.
* Operational incidents (`Running`): weak fairness of cycles and of the processor; strong fairness of the
  provider for each kind of notice; and `[]<>CaughtUp`, for the loop sleeps `poll_delay_seconds` between
  cycles, in which the processor empties its queue.  No fairness of failures or recoveries.
* Capture jobs (`Scheduled`): weak fairness of some process' next step, for the task is started every minute and
  each request has a timeout; weak fairness of the clock for each job.  No fairness of exceptions and deaths, whose number is bounded, nor
  of any particular answer.
* Feature capture: weak fairness of the scheduled process' ingestion, of a process at work, and of leases that run out.
* Trial: weak fairness of each worker's pass, of the coordinator and of time, which are two scheduled tasks and the clock.
* Bars: weak fairness of the collector, of the session worker and of time; notices: of the scheduled monitor.
* Watchdog: weak fairness of the watchdog, of a live worker's progress, of ageing and of the end of a task that was told to end; strong
  fairness of `Register`, for a worker that is started again and again gets to its registration.  `SchedulerStarts` has none.
* SEC ingestion: weak fairness of the scheduled worker's next step.  `FilingsSettled` asks for fewer hopeless rows than
  a batch holds, for the batches take the newest rows first.

## The runs

The runs check for deadlock, except `services_settle`, whose components have bounded clocks and finished instances that really
stop.

| run | what moves, and its bounds | checks |
|---|---|---|
| live_partial | the canary: one packet, two shares bought and sold in pieces, one crash or lost connection, three days | `NeverShort`, `AtMostOneTimedExit`, `RowEndsSold`, `ExitSessionKept`, `TimedExitInWindow` |
| live_fair | the canary: one packet, one share, one cancellation by the broker, one crash; fair | `OverdueSoldWhileUp`, `ProtectedEventually` |
| live_stranded | the canary: one packet, one share, one crash; fair | `OverdueSold`, violated: see the findings |
| live_slots | the canary: two packets, on two symbols or on one, one slot, one crash, entries that execute whole, a worker that may stay down for days | `SlotCap`, `NoEntryOverUnknown` |
| pilot_races | three packets of one event, two of them one filing, every decision reported, two commands, one fault | `LedgersTrue`, `OneAlertPerEvent`, `DecisionKept` |
| pilot_served | two packets of one event, approvals reported, decision limit one, a window that may close, one command, one fault; fair | `SuppressedByApproval`, `EveryPacketDecided`, `EveryReportSettled` |
| pilot_misled | two packets of one event, every decision reported | `SuppressedByApproval`, violated |
| incident_races | two processes, three incidents, one fault | `StoryTrue`, `NoticedOnce`, `NoticesAreTrue` |
| loops_settle | notices: one process, two incidents, threshold of two ticks, batches of two, one fault; ingestion: six rows, two processes, batches of one to three, two commands, one fault; fair | `OutageHeard`, `RecoverySettled`, `FilingsSettled` |
| incident_forgotten | one process, two incidents, no fault | `RecoveryHeard`, violated |
| capture_settles | capture jobs: two processes, three jobs, two attempts, one fault; activation: two operators, two drafts, one boundary; archives: two syncs, two quarters, one replacement, one fault; an owner: eight filings, five years; the evidence of notices: one packet, two monitor runs, one trouble; the trial: two passes, two candidates of one symbol, two sessions, one slot, one fault | `LeaseNeverLost`, `MarketAskedOnce`, `SettledTruly`, `SignalsKept`, `ProspectiveOnly`, `HistoryTrue`, `EvidenceTrue`, `TrialSound` |
| services_settle | the trial: three records, two sessions, one slot, one fault; feature capture: two processes, two signals, two attempts, one fault; option chains: two callers, two packets of one symbol, one death or clock set back; bars: two symbols, one of which may fail for ever, one per cycle; notices: one packet, two attempts, one fault; both watchdogs, four faults; fair | `UniverseKept`, `FeaturesTrue`, `ChainsSpaced`, `BarsTrue`, `QuarantineAlone`, `VerdictsKept`, `TrialSettled`, `SignalsSettled`, `SymbolsServed`, `MissingRecorded`, `WorkerReturns` |

Why the bounds are enough.  Two shares are the least that fill in pieces; one cancellation
makes the close, reopen and replace path of a timed exit happen; one crash is enough for every gap between
an order and its commit, and two packets for every competition for a slot.  Three days hold the entry,
an exit session on another day and an overdue day.  Two rows of one filing and a third packet of
the same event are the least that meet both dedupes of the autopilot; two commands are a decision and
a replay, or two decisions about one packet; a decision limit of one makes every listing leave a row out.
Two processes are the least that contend for a mutex, a lease or a job; three incidents hold one that is
open, one whose recovery is owed and one that is reserved by an older notice.  Two attempts are one that can be
retried and a last one; three jobs are an ordinary one beside one of each kind that the claim treats apart.  Two sessions are the
least that have an order; a position of the first that is held on the second, with its symbol, meets the slots, the symbols
and the book at once, and a signal that may be written after its session was sealed meets the import behind a seal.
Two symbols and a cycle of one are the least that can starve; the six rows of the ingestion are one of each kind that a stage treats apart, and
the newest of them fill its batches.  Four faults let a watchdog die within a quarantine that an earlier one left incomplete.

What the properties say is beside their definitions.  In short: the canary keeps an owner for what it bought, sells
it once, in the right session, and stays within its slots through a crash at any point; the autopilot's ledger says only what
the provider was told, and every approval is reported or suppressed behind a report; the provider is
never told of an outage or recovery that is not the case at that moment; a capture job, whatever the market answers and
wherever its process dies, is settled once, truly, and with its evidence unless an exception reached it; the trial's dates are sealed in
order, its positions are decided in time and fit the slots, and its receipts bind what no longer changes; and every background worker
keeps its records true and gets its work done.

## The proofs

No proof assumes bounds on packets, faults, commands or processes; each rests on the named
assumptions about the constants only.  Where a theorem has a further hypothesis, it is part of the statement.

`LiveCanary_proofs`, for any finite set of packets, any symbols, slots, sessions and quantity:

* `TypeCorrect`.  The types are not inductive alone: the slot count may
  only be lowered while a slot is left, and a quantity may only be stored while the position read
  was positive; `TypeInv` adds `SlotLeft` and `Holding`.
* `ExitSessionRecorded` and `ExitSessionFixed`: an accepted entry has its exit session on record,
  and the session does not move while the row is active.  `SessionInv` says what a
  cycle holds in memory: rows it manages have their session, rows it is about to buy are still queued, and the
  row being bought has its session.  Together they also show that the gate
  `live_exit_horizon_missing` cannot close for a row this code wrote.
* `NeverShortApart`: if packets have symbols of their own, no position becomes negative.  `SaleInv` says that no working
  exit is larger than the position (`CoveredIn`), and it needs every exit in its packet's OCA group.
* `RowsApart`: two active rows never share a symbol, which is what lets the code read the
  position of a symbol as the position of one row.  `OwnersInv` counts a queued row whose
  entry was accepted before a crash as an owner of its symbol, and says that a cycle has adopted all of these
  before it buys, and buys only symbols without an owner; `Managed` says that outside the entry loop a cycle
  handles active rows only, so that no commit revives an ended row.
* `OneTimedExit` and `ExitsInWindow`: at most one timed exit of a packet works at a time, and it is sent in the
  market-on-close window of the exit session or on a later day.  `TimedInv` says what the order list of a cycle must show for a new exit to be
  chosen, and `Chosen` keeps the choice true until the order is sent.
* `NothingBoughtOverUnknown` and `SlotsCapped`, for packets with symbols of their own (`Apart`) whose entries
  execute whole (`Whole`).  `AccountInv` relates account and ledger: what each row holds (`Accounts`), what the reading of a cycle
  still says of it (`ReadRows`), that the gate's answer stays valid while the cycle buys (`GateKept`), and what a connection may not
  show (`Offline`).  `SlotInv` counts: the known rows never exceed the slots, nor do the active ones with the slots left to buy.
  With pieces they do not hold (see the findings).
* `RowsEndSold`, for packets with symbols of their own, however many pieces an entry executes in.  `PieceInv` is what makes it
  inductive.  A working entry is of today, and so is every other order of its packet, so that no connection forgets the exit that
  sold its first pieces (`AtWork`).  An exit as large as the entry is only there once the entry is over, and covers all that is still held
  (`ExitSound`).  A queued row holds nothing before its opening, so a second entry is never sent for one that has executed (`LifeRow`).
  And what a cycle has read as over or gone is still so when it acts, but for shares an exit was too small for (`ReadPiece`).

`Autopilot_proofs`, for any packets, filings, events, limits, commands and faults:

* `TypeCorrect`, then `DecisionsAreKept` and `JobsMatch` from `QueueStep`: what any step may do to a row,
  shown once for the whole next-state relation.
* `LedgerIsTrue`, `SuppressionIsBacked`, `NeverBoth`, and `LedgersAreTrue` with all of them: `Custody` adds to the properties that an
  answered send was accepted (`AnsweredWasAccepted`), and that the keys a cycle has in memory belong to
  reported packets (`AlertedWasReported`), which is what a crash between send and acknowledgement would
  break if the key were added too early.  Reported is what the provider accepted and, unless a fault spoiled the
  ledger, the ledger has (`Reported`).
* `SuppressionNeedsApproval`: under `ApprovalsOnly`, which is how the processes are installed, a
  report is owed for approvals alone (`ReportsApprove`), so only an approval suppresses.
* `OneAlert`: while nobody has disturbed the loop, an event is accepted once.  `OneAlertInv` says that what is in the
  cycle's memory, what is owed and what was accepted name each event once.

`OperationalIncidents_proofs`, for any number of processes, incidents and faults:

* `TypeCorrect`, `OneStoryAtATime`, `ReceiptsAreTrue`, `StoryIsTrue` and `NoticesTrue`.  `Custody` adds that a row not yet
  attempted has no notice outstanding (`Attempted`) and that a send is of a dispatchable row whose process holds the
  mutex (`SendingFenced`); with the latter, no other process can record anything during a send, which is what makes the
  accepted notice true.
* `NoticedAtMostOnce`: without a fault nothing is accepted twice; `OnceInv` says that every accepted notice has its receipt, except the
  one a process is about to commit.

`CaptureJobs_proofs`, for any processes, jobs, order of decisions, number of attempts and faults:

* `TypeCorrect`, `LeaseHeld`, `MarketAsked`, `Settlement` and `Retries` from one invariant, `IInv`: at most one
  process is at work (`Alone`); it owns its lease until its last commit, and nobody owns one under its name
  afterwards (`Held`); no attempt beyond a row's count is on record, nor the attempt of a lease, unless an
  earlier release left it (`CountedAt`, `Numbering`); and what it has seen of the evidence (`Evidenced`).
  `SweptRow` shows on the way that the claim's sweep of exhausted jobs finds none.
* `OneShotUnlessHurt`: `Accounted` adds that, while nothing has gone wrong, a job with a historical request behind
  it is complete or past the point where its attempt could be retried.

`FeatureCapture_proofs`, for any processes, jobs, kinds of rows, attempts and faults:

* `TypeCorrect`, `Settlement` (a job is complete exactly when its one receipt is on record with one closing attempt that agrees),
  `GivenUp` (only after its window or its attempts), `WhatIsSaidIsTrue` with both, and `VerdictsAreKept` (`Ledger!Spec`).  `IInv` adds that claims and deaths account for every
  attempt (`Counted`), that row, attempts and receipt agree (`Agrees`), and that what a process is about to
  write was answered in its own attempt (`Honest`): that is all that is left of a lease that ran out.

`OptionChainAdmission_proofs`, for any callers, packets, symbols, cadence and clock: `TypeCorrect`, `ChildStartedOnce`, `LaunchesSpaced`,
`ChainsAreSpaced` with both, and `VerdictsAreKept`, from an invariant that orders the admissions of a symbol by the clock each was made at.

`TrialRuntime_proofs`, for any workers, evidence, ranks, sessions, slots, floor, deadline, clock and faults:

* `TypeCorrect` and `PositionsInTime`: a position is decided before the open on evidence of before the cutoff, and the positions truly held on
  a session fit the slots with no symbol twice, although the book is only an estimate.  `IInv` adds that only recorded evidence is imported and
  only a candidate resolved (`Custody`), that no candidate waits behind a seal and the dates were sealed in their order (`InOrder`), that
  the positions are numbered without a gap (`Numbered`), and, for a pass about to commit, that the book it
  read holds every position truly held on its date unless a position was enrolled since, which its `next` would show (`Knows`).  `Touches` says once what
  any step may do to the five tables; each part of the invariant is shown for these few kinds of steps.
* `VerdictsAreKept`: the trial implements `Verdicts`, with one verdict for each record of this build and one report for the trial.
* `CohortIsSound` and `UniverseIsKept`, under `Steady`: either no second pass is started by hand (`Alone`), or the clock is never
  set back, in total, from a session's cutoff to before an earlier session's open (`Brief`).  The hypothesis is needed, because neither the
  loop of the finalizer (`trial_finalizer.py`, line 241) nor `append_entry_lapse` (`trial_runtime.py`, line 1779) looks at the freeze again: a pass
  with a clock reading of a later session could lapse a date of it after another pass has completed the date that
  froze the cohort, and staged decisions would change.  `FInv` says that the cohort is frozen by its last date (`Last`), what is staged and sealed
  (`Ceremony`, `Binding`), that a pass's reading is ahead of the clock by no more than the clock was set back (`Ahead`), and hence that
  a pass among the dates of a frozen cohort is too early for what is left (`Early`).  `TrialIsSound` states
  the three together.  The run that checks `UniverseKept` has a single pass.  The run that checks `TrialSound` has two and lets the clock be set
  back; it does not satisfy `Brief`, so that what it shows, on the small instance, is beyond the theorem.

`Background_proofs` proves the properties of the components that run beside others, each as its run checks it.  A component assumes
its own named assumption and nothing of the others.

* The activation: `TrialTypeCorrect`, `ActivatedOnce`, `EvidenceProspective` and `OneProspectiveTrial` (`ProspectiveOnly`), for any
  operators, workers, drafts, boundaries and hand edits, from what the seal (`TrialSealedSound`), the attestation
  (`TrialArmedSound`) and a pass under way know.
* The archives of the SEC: `ArchiveTypeCorrect` and `ArchiveSelected`, for any syncs, quarters, replacements and faults.  A release is ingested for one
  quarter and keeps it, and a sync has selected no more than the quarters it has passed (`ArchiveIInv`); a snapshot is therefore sealed
  only of archives that were all ingested as their quarters' releases.
* The owner's class: `OwnerClassified`, for any pool of filings.  The replay of the years by the code is a recursive function; what it answers is
  told without recursion (the first year that shows the pattern decides, and without one the years on record do), and a year depends on
  nothing that was filed after its first of January.  `HistoriesAreTrue` (`HistoryTrue`) is both.
* The bars: `BarsAreTrue` (`BarsTrue`).  A run's clock is never ahead, its symbols have requests that it has taken (`BarsRunKeeps`), an
  answer's finished bars are final (`BarsAnswered`), and a receipt is put only when each of them is stored (`BarsStored`), although a session may end between
  the request and its answer.
* The evidence of notices: `EvidenceIsTrue` (`EvidenceTrue`), for any packets, senders, overlapping monitor runs, crashes, clocks set back and
  databases put back.  A dispatch belongs to one sender, and once it is acknowledged its evidence can no longer come (`EvDispatched`,
  `EvAcksOver`); a gap is of such a dispatch (`EvGapsFit`); the checkpoint was witnessed, and nothing witnessed is lost unless a
  database was put back (`EvCheckpointed`, `EvStill`); and what a run holds in each of its stages is still so when it writes (`EvRunsSound`).
* The watchdog: `QuarantinesAlone` (`QuarantineAlone`).  An unfinished quarantine keeps the fence (`DogKept`), a run moves the store only behind it
  (`DogFenced`, `DogAlone`), and lifts it only when nothing is left to move (`DogSeen`, `DogLifted`).
* `FeaturesAreTrue`, `ChildrenAreSpaced` and `TrialsAreSound` cite `WhatIsSaidIsTrue`, `ChainsAreSpaced` and `TrialIsSound` for the
  instances of the runs.

The facts of the library about `IsFiniteSet` and `Cardinality` are about the library's own operators; those that a component brings along
as an instance are defined alike, and a short lemma per component says so.

Two lemmas that others rest on: a nonempty set of numbers has a least element, which `Min` picks (`Least`, from the well-foundedness of
finite sets), and as many positions as seats fit (`Seats`).

Model-checked only.  All liveness (`OverdueSoldWhileUp`, `ProtectedEventually`, `EveryPacketDecided`, `EveryReportSettled`,
`OutageHeard`, `RecoverySettled`, `FilingsSettled`, `SignalsKept`, `TrialSettled`, `SignalsSettled`, `SymbolsServed`, `MissingRecorded`,
`WorkerReturns`), which is outside the prover's reach.  `TrialSound` without `Steady`.
`SlotCap` and `NoEntryOverUnknown` for packets that share a symbol, where a position of the symbol need not be of the row that is
looked at: `live_slots` has such packets, the theorems assume `Apart`.  Of such packets `RowsApart` is proved; `NeverShort` and
`RowEndsSold` are neither proved nor in a run.

## Findings

Each has a run that exhibits it; `findings` in PROJECT.json quotes the text it departs from.

1. A timed exit that is adopted after a crash and no longer reported the next day: the position is never
   sold (`live_stranded`).  The crash is how the row came to hold an exit that a later connection does not list; the comment's "unchanged
   overdue recovery" is read as a promise about every missed exit.
2. The delivered report of a rejection suppresses the approval of a co-filing (`pilot_misled`).
3. A short renewed failure abandons the recovery notice of a reported outage and recovers silently
   (`incident_forgotten`).

Limits of the code that no run is spent on, found on the way:

* An entry accepted before a crash and filled is reported with its identifier on the same day only, so a restart on a later day
  does not adopt it (`canary.py`, line 797): the row is called `entry_window_missed` and its shares belong to no row.
* `docs/research/CLOSED-VENUE-OPTION-FALLBACK.md`, line 15, calls every historical launch a one-shot operation that is
  never retried automatically.  That holds of what the request returns; an exception or death between the launch and
  the snapshot has the next claim ask again, and launch a second time.  `RelaunchedAfterFault` is what holds.
* A job whose snapshot is stored and whose finish then raises for good, or on its last attempt, ends as failed beside its
  evidence (`capture.py`, line 2570), for the handler does not look for the snapshot as a later claim would.
* An entry that executes in pieces: the remainder is cancelled and the part is protected, and the row closes as soon as the stop or the
  target of that part has executed (`canary.py`, line 1197), although the cancellation may have come too late and the rest
  executed meanwhile.  These shares belong to no active row, and `NoEntryOverUnknown`, whose gate is computed before the row
  closes, fails with `EntryInPieces`; `RowEndsSold` excepts them.
* The entry window is checked at line 1019 and the order leaves after a commit and two awaits, so an order may be
  sent after the 09:20 of `docs/runbook/LIVE_CANARY.md`, line 18.  The model lets it.
* An operator's report and the autopilot's outbox may send one packet twice, and the operator's commands do not
  look at reported events, so `OneAlertPerEvent` speaks of behaviours without commands.
* `docs/research/INFERENCE-EXECUTABLE.md`, lines 18-20, has the entries that are pending at a missed deadline drain before the
  report.  When the date that froze the cohort was completed after the deadline, the finalizer stops at the freeze
  (`trial_finalizer.py`, lines 241 and 378), the later candidates stay pending, and the report (`inference.py`, line 1633) waits for them for ever.
  `Undrained` is this state, which `TrialDecided` excepts; `DrainedAndDecided` is what the document says.
* `docs/research/OUTCOME-MATERIALIZER.md`, lines 37-38, waits for a later poll receipt of each request.  A collector that dies between
  `append_completed` and `record_successful_poll` leaves a request whose bars are there, which `bar_feed.py`, lines 381-389, no longer asks for: no
  receipt follows.  `ProvenEventually` is what the document says.
* A pass started by hand beside the scheduled one, with the clock set back between sessions, may lapse a date of a
  frozen cohort (see `Steady` under [the proofs](#the-proofs)).

## Not modelled

PROJECT.json lists every part with its reason.  Of the parts that are modelled, these are left out: the
shadow book and the discovery arithmetic of the canary's ledger, the validation of exchange calendars, cash, commission and
preview arithmetic, market data and contract lookup (`LiveCanary`); the contents and format checks of packets and
decisions, heartbeats and counters (`Autopilot`); the wording of notices and the status report
(`OperationalIncidents`); what a snapshot contains, staging, publication and checks of artifacts, the health rows and
the arming of the registry (`CaptureJobs`, `FeatureCapture`); what makes a candidate eligible, the digests of the proofs, the bootstrap and
the economic gates (`TrialRuntime`); request bodies, routes and digests (`NotificationEvidence`); prices and corrections of the
schedule (`BarFeed`); parsing and market snapshots (`SecIngestion`); the rows of an archive (`SecHistory`).

Not modelled at all: scoring and market context, the rules of E07, the backtest except where the canary reads it, the
statistics of the inference, the observer and the diagnostics, which only read; commissioning, the research calendar,
the other commands and the configuration, installation scripts, skills and documents.

## The plan

Done: every module above, and a theorem for every safety property that a run checks, in the generality that
[the proofs](#the-proofs) name.  Next: the shadow book and the pure rules of E07 and of scoring, as operators checked over
small inputs; commissioning.
