----------------------------- MODULE Overlapped -----------------------------
(* The research trial beside another program, with constants and variables of its own:   *)
(* its passes may overlap.  It is an instance of the module that holds its theorems, for *)
(* Background_proofs to cite.                                                            *)

CONSTANTS t_Workers, t_Scheduled, t_Items, t_Signal, t_Written, t_Rank, t_Symbol, t_Excluded,
          t_Legacy, t_Stays, t_Days, t_Cutoff, t_OpenAt, t_AfterHours, t_Horizon, t_Slots,
          t_Floor, t_FloorDates, t_Deadline, t_Transient, t_MaxSetback, t_MaxFaults, t_MaxClock
VARIABLES t_clock, t_recorded, t_imported, t_aside, t_resolution, t_sealed, t_outcomes,
          t_faulted, t_work, t_receipt, t_staged, t_published, t_report, t_coord, t_faults
passes == <<t_clock, t_recorded, t_imported, t_aside, t_resolution, t_sealed, t_outcomes,
            t_faulted, t_work, t_receipt, t_staged, t_published, t_report, t_coord, t_faults>>
Passes == INSTANCE TrialRuntime_proofs WITH
    Workers <- t_Workers, Scheduled <- t_Scheduled, Items <- t_Items, Signal <- t_Signal,
    Written <- t_Written, Rank <- t_Rank, Symbol <- t_Symbol, Excluded <- t_Excluded,
    Legacy <- t_Legacy, Stays <- t_Stays, Days <- t_Days, Cutoff <- t_Cutoff,
    OpenAt <- t_OpenAt, AfterHours <- t_AfterHours, Horizon <- t_Horizon, Slots <- t_Slots,
    Floor <- t_Floor, FloorDates <- t_FloorDates, Deadline <- t_Deadline,
    Transient <- t_Transient, MaxSetback <- t_MaxSetback, MaxFaults <- t_MaxFaults,
    MaxClock <- t_MaxClock,
    clock <- t_clock, recorded <- t_recorded, imported <- t_imported, aside <- t_aside,
    resolution <- t_resolution, sealed <- t_sealed, outcomes <- t_outcomes,
    faulted <- t_faulted, work <- t_work, receipt <- t_receipt, staged <- t_staged,
    published <- t_published, report <- t_report, coord <- t_coord, faults <- t_faults

-----------------------------------------------------------------------------
\* Overlapping passes, deaths and clocks set back leave a trial that its evaluation accepts,
\* its candidates enrolled in time and within the slots, and no symbol twice
\* (trial_runtime.py, trial_finalizer.py, inference.py).
TrialSound == Passes!TrialSound
=============================================================================
