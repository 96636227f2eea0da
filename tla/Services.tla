------------------------------ MODULE Services ------------------------------
(* The services that run beside the trial, each with constants and variables of its own: *)
(* the capture of company facts, the admission of option chains, the bar feed and the    *)
(* watchdogs of the workers; and what each promises.  Where a component has a module of  *)
(* theorems, the instance is one of that module, for Background_proofs to cite.          *)

(* The capture of company facts *)
CONSTANTS f_Workers, f_Scheduled, f_Jobs, f_Rank, f_Old, f_Ahead, f_Refused, f_Unfit,
          f_MaxAttempts, f_MaxFaults
VARIABLES f_source, f_window, f_rejected, f_job, f_attempts, f_receipt, f_work, f_asked,
          f_faults
features == <<f_source, f_window, f_rejected, f_job, f_attempts, f_receipt, f_work, f_asked,
              f_faults>>
Features == INSTANCE FeatureCapture_proofs WITH
    Workers <- f_Workers, Scheduled <- f_Scheduled, Jobs <- f_Jobs, Rank <- f_Rank,
    Old <- f_Old, Ahead <- f_Ahead, Refused <- f_Refused, Unfit <- f_Unfit,
    MaxAttempts <- f_MaxAttempts, MaxFaults <- f_MaxFaults,
    source <- f_source, window <- f_window, rejected <- f_rejected, job <- f_job,
    attempts <- f_attempts, receipt <- f_receipt, work <- f_work, asked <- f_asked,
    faults <- f_faults

(* The admission of option chains *)
CONSTANTS o_Callers, o_Packets, o_SymbolOf, o_Cadence, o_MaxClock, o_MaxSetbacks
VARIABLES o_clock, o_admission, o_call, o_launched, o_setbacks
options == <<o_clock, o_admission, o_call, o_launched, o_setbacks>>
Options == INSTANCE OptionChainAdmission_proofs WITH
    Callers <- o_Callers, Packets <- o_Packets, SymbolOf <- o_SymbolOf,
    Cadence <- o_Cadence, MaxClock <- o_MaxClock, MaxSetbacks <- o_MaxSetbacks,
    clock <- o_clock, admission <- o_admission, call <- o_call, launched <- o_launched,
    setbacks <- o_setbacks

(* The bar feed *)
CONSTANTS b_Symbols, b_Wanted, b_PerCycle, b_Failing, b_MaxFaults
VARIABLES b_clock, b_sessions, b_requests, b_observed, b_receipts, b_polled, b_turn, b_run,
          b_faults
bars == <<b_clock, b_sessions, b_requests, b_observed, b_receipts, b_polled, b_turn,
          b_run, b_faults>>
Bars == INSTANCE BarFeed WITH
    Symbols <- b_Symbols, Wanted <- b_Wanted, PerCycle <- b_PerCycle, Failing <- b_Failing,
    MaxFaults <- b_MaxFaults,
    clock <- b_clock, sessions <- b_sessions, requests <- b_requests,
    observed <- b_observed, receipts <- b_receipts, polled <- b_polled, turn <- b_turn,
    run <- b_run, faults <- b_faults

(* The watchdogs of the workers *)
CONSTANTS d_Kinds, d_MaxFaults
VARIABLES d_kind, d_enabled, d_worker, d_files, d_beat, d_manifest, d_aside, d_run, d_faults
watchdog == <<d_kind, d_enabled, d_worker, d_files, d_beat, d_manifest, d_aside, d_run,
              d_faults>>
Dog == INSTANCE Watchdog WITH
    Kinds <- d_Kinds, MaxFaults <- d_MaxFaults,
    kind <- d_kind, enabled <- d_enabled, worker <- d_worker, files <- d_files,
    beat <- d_beat, manifest <- d_manifest, aside <- d_aside, run <- d_run,
    faults <- d_faults

-----------------------------------------------------------------------------
\* A signal's job, attempts and receipt agree, and it is given up only when its window or
\* its attempts are over (feature_capture.py).
FeaturesTrue == Features!FeaturesTrue

\* A packet's capture of the option chain is launched at most once, and launches for one
\* symbol are a cadence apart (option_chain_admission.py).
ChainsSpaced == Options!ChainsSpaced

\* No bar of an unfinished session is stored, and a receipt counts no bar that is not
\* stored below its watermark (bar_feed.py).
BarsTrue == Bars!BarsTrue

\* No worker runs while a quarantine is half done (autopilot_watchdog.py).
QuarantineAlone == Dog!QuarantineAlone
=============================================================================
