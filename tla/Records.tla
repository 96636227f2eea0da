------------------------------- MODULE Records -------------------------------
(* Records that others rely on, each with constants and variables of its own: the         *)
(* activation that begins the trial, the archive of SEC quarters, the class of an owner   *)
(* and the evidence of notifications; and what each promises.                             *)

(* The activation of the trial *)
CONSTANTS a_Operators, a_Workers, a_Definitions, a_Boundaries, a_Lead, a_Edited,
          a_MaxClock, a_MaxSetbacks, a_MaxCrashes
VARIABLES a_clock, a_receipt, a_armed, a_artifacts, a_deployed, a_preparing, a_pass,
          a_evidence, a_setbacks, a_crashes
activation == <<a_clock, a_receipt, a_armed, a_artifacts, a_deployed, a_preparing, a_pass,
                a_evidence, a_setbacks, a_crashes>>
Trial == INSTANCE Activation WITH
    Operators <- a_Operators, Workers <- a_Workers, Definitions <- a_Definitions,
    Boundaries <- a_Boundaries, Lead <- a_Lead, Edited <- a_Edited, MaxClock <- a_MaxClock,
    MaxSetbacks <- a_MaxSetbacks, MaxCrashes <- a_MaxCrashes,
    clock <- a_clock, receipt <- a_receipt, armed <- a_armed, artifacts <- a_artifacts,
    deployed <- a_deployed, preparing <- a_preparing, pass <- a_pass,
    evidence <- a_evidence, setbacks <- a_setbacks, crashes <- a_crashes

(* The archive of SEC quarters *)
CONSTANTS h_Syncs, h_Archives, h_Served, h_Malformed, h_LegacySnapshot, h_MaxReplaced,
          h_MaxFaults
VARIABLES h_upstream, h_listed, h_files, h_retrievals, h_release, h_sealed, h_sync,
          h_replaced, h_faults
history == <<h_upstream, h_listed, h_files, h_retrievals, h_release, h_sealed, h_sync,
             h_replaced, h_faults>>
Archive == INSTANCE SecHistory WITH
    Syncs <- h_Syncs, Archives <- h_Archives, Served <- h_Served, Malformed <- h_Malformed,
    LegacySnapshot <- h_LegacySnapshot, MaxReplaced <- h_MaxReplaced,
    MaxFaults <- h_MaxFaults,
    upstream <- h_upstream, listed <- h_listed, files <- h_files,
    retrievals <- h_retrievals, release <- h_release, sealed <- h_sealed, sync <- h_sync,
    replaced <- h_replaced, faults <- h_faults

(* The class of an owner *)
CONSTANTS c_Pool, c_DaysPerYear, c_Months, c_LastYear, c_MaxCaptures
VARIABLES c_year, c_filings, c_captured
owner == <<c_year, c_filings, c_captured>>
Owner == INSTANCE OwnerHistory WITH
    Pool <- c_Pool, DaysPerYear <- c_DaysPerYear, Months <- c_Months, LastYear <- c_LastYear,
    MaxCaptures <- c_MaxCaptures, year <- c_year, filings <- c_filings, captured <- c_captured

(* The evidence of notifications *)
CONSTANTS e_Packets, e_OldCode, e_Runs, e_Scheduled, e_MaxAttempts, e_MaxClock,
          e_MaxFaults, e_MaxRestores, e_MaxSetbacks
VARIABLES e_clock, e_sent, e_acks, e_journal, e_journaling, e_sending, e_dispatches,
          e_coverage, e_gaps, e_health, e_run, e_witnessed, e_faults, e_restores, e_setbacks
delivery == <<e_clock, e_sent, e_acks, e_journal, e_journaling, e_sending, e_dispatches,
              e_coverage, e_gaps, e_health, e_run, e_witnessed, e_faults, e_restores,
              e_setbacks>>
Ev == INSTANCE NotificationEvidence WITH
    Packets <- e_Packets, OldCode <- e_OldCode, Runs <- e_Runs, Scheduled <- e_Scheduled,
    MaxAttempts <- e_MaxAttempts, MaxClock <- e_MaxClock, MaxFaults <- e_MaxFaults,
    MaxRestores <- e_MaxRestores, MaxSetbacks <- e_MaxSetbacks, clock <- e_clock,
    sent <- e_sent, acks <- e_acks, journal <- e_journal, journaling <- e_journaling,
    sending <- e_sending, dispatches <- e_dispatches, coverage <- e_coverage,
    gaps <- e_gaps, health <- e_health, run <- e_run, witnessed <- e_witnessed,
    faults <- e_faults, restores <- e_restores, setbacks <- e_setbacks

-----------------------------------------------------------------------------
\* The trial has one activation, and its evidence is recorded under it (activation.py).
ProspectiveOnly == Trial!ProspectiveOnly

\* What a sync selects is ingested and a sealed snapshot whole; an owner's class for a year
\* is the one of what was public on its first day (sec_history.py, capture.py).
HistoryTrue == Archive!SelectionIngested /\ Archive!SealedWhole /\ Owner!ClassifiedOnce

\* A gap is recorded only for a delivery that the journal did not prove when it was found,
\* no run calls the progress of another a rollback, and none reports on evidence that is
\* shorter than what any run has checkpointed (notification_coverage.py).
EvidenceTrue == Ev!EvidenceTrue
=============================================================================
