------------------------------ MODULE Watchdog ------------------------------
(***************************************************************************)
(* execution/autopilot_watchdog.py, execution/watchdog.py and              *)
(* execution/windows_job.py: the scheduled task that keeps a worker alive. *)
(*                                                                         *)
(* A watchdog run reads the worker's heartbeat, asks the task scheduler    *)
(* whether the worker runs, and ends and starts it again.  The autopilot's *)
(* and the SEC worker's watchdog first disables the worker's task, so that *)
(* the scheduler's own restart on failure cannot start a worker while a    *)
(* corrupt heartbeat store is moved aside; the canary's has no such fence  *)
(* and no store of its own to move.  A run may die after every step.       *)
(***************************************************************************)
EXTENDS Naturals, FiniteSets

CONSTANTS Kinds, MaxFaults

VARIABLES
    kind,      \* the worker that is watched: "autopilot" or "canary"
    enabled,   \* the worker's scheduled task is enabled
    worker,    \* the process of the task
    files,     \* the members of the heartbeat store that exist
    beat,      \* what the store says of the last progress
    manifest,  \* the members a quarantine must move, or NoManifest
    aside,     \* the members the quarantine of the manifest has moved
    run,       \* what the watchdog is doing
    faults

task  == <<enabled, worker>>
store == <<files, beat, manifest, aside>>
vars  == <<kind, task, store, run, faults>>

Members    == {"main", "wal", "shm"}
NoManifest == {"none"}
Idle       == [at |-> "idle"]
Running    == worker # "none"

TypeOK ==
    /\ kind \in Kinds
    /\ enabled \in BOOLEAN
    /\ worker \in {"none", "starting", "up", "hung", "ending"}
    /\ files \subseteq Members
    /\ beat \in {"none", "fresh", "stale", "future", "corrupt"}
    /\ manifest = NoManifest \/ manifest \subseteq Members
    /\ aside \subseteq Members
    /\ run.at \in {"idle", "query", "disable", "requery", "end", "poll",
                   "quarantine", "move", "enable", "run", "await"}
    /\ faults \in 0 .. MaxFaults

Init ==
    /\ kind \in Kinds
    /\ enabled = TRUE
    /\ worker = "none"
    /\ files = IF kind = "canary" THEN Members ELSE {}
    /\ beat = "none"
    /\ manifest = NoManifest
    /\ aside = {}
    /\ run = Idle
    /\ faults = 0

-----------------------------------------------------------------------------
(* The worker and its heartbeat *)

\* Restart on failure and the logon trigger; another instance is not started.
SchedulerStarts ==
    /\ enabled /\ ~Running
    /\ worker' = "starting"
    /\ UNCHANGED <<kind, enabled, store, run, faults>>

\* register_runtime; a corrupt store ends the worker with an error.
Register ==
    /\ worker = "starting"
    /\ IF "main" \in files /\ beat = "corrupt"
       THEN worker' = "none" /\ UNCHANGED <<files, beat>>
       ELSE worker' = "up" /\ files' = Members /\ beat' = "fresh"
    /\ UNCHANGED <<kind, enabled, manifest, aside, run, faults>>

\* progress; it creates a lost store without the table, and its errors are swallowed.
Progress ==
    /\ worker = "up"
    /\ beat' = IF "main" \in files /\ beat # "corrupt" THEN "fresh" ELSE "corrupt"
    /\ files' = Members
    /\ UNCHANGED <<kind, task, manifest, aside, run, faults>>

\* The stale threshold is longer than any stage of a live worker.
Grow ==
    /\ worker # "up"
    /\ \/ beat = "fresh" /\ beat' = "stale"
       \/ beat = "future" /\ beat' = "fresh"
    /\ UNCHANGED <<kind, task, files, manifest, aside, run, faults>>

\* The worker ends by itself, with every process of its job, or hangs; the clock is
\* set or the host sleeps; the heartbeat store is damaged or lost.
Fault ==
    /\ faults < MaxFaults /\ faults' = faults + 1
    /\ \/ /\ worker \in {"starting", "up"} /\ worker' \in {"none", "hung"}
          /\ UNCHANGED <<files, beat>>
       \/ /\ beat \in {"fresh", "stale", "future"} /\ beat' \in {"stale", "future"}
          /\ UNCHANGED <<files, worker>>
       \/ /\ kind = "autopilot" /\ manifest = NoManifest /\ "main" \in files
          /\ \/ beat' = "corrupt" /\ UNCHANGED files
             \/ files' \in {{}, {"main"}} /\ beat' = "corrupt"
          /\ UNCHANGED worker
    /\ UNCHANGED <<kind, enabled, manifest, aside, run>>

-----------------------------------------------------------------------------
(* The run of the watchdog *)

At(stage) == run.at = stage
Goto(stage) == run' = [run EXCEPT !.at = stage]

\* heartbeat_state and, for the canary, heartbeat_is_stale
Corrupt == manifest # NoManifest \/ ("main" \in files /\ beat = "corrupt")
Stale ==
    IF kind = "canary" THEN beat \in {"none", "stale"}
    ELSE Corrupt \/ "main" \notin files \/ beat # "fresh"

Check ==
    /\ At("idle")
    /\ run' = [at |-> "query", stale |-> Stale, corrupt |-> kind = "autopilot" /\ Corrupt]
    /\ UNCHANGED <<kind, task, store, faults>>

Query ==
    /\ At("query")
    /\ IF ~run.stale /\ Running THEN run' = Idle
       ELSE IF kind = "autopilot" THEN Goto("disable")
       ELSE IF Running THEN Goto("end") ELSE Goto("run")
    /\ UNCHANGED <<kind, task, store, faults>>

\* Mutant: the task is not disabled.
NoFence ==
    /\ At("disable")
    /\ Goto("requery")
    /\ UNCHANGED <<kind, task, store, faults>>

\* The fence: no restart on failure from here on.
Disable ==
    /\ At("disable")
    /\ enabled' = FALSE
    /\ Goto("requery")
    /\ UNCHANGED <<kind, worker, store, faults>>

Stopped ==
    Goto(IF kind = "canary" THEN "run" ELSE IF run.corrupt THEN "quarantine" ELSE "enable")

Requery ==
    /\ At("requery")
    /\ IF Running THEN Goto("end") ELSE Stopped
    /\ UNCHANGED <<kind, task, store, faults>>

\* The scheduler ends the process, and its job's descendants with it, in its own time.
EndTask ==
    /\ At("end")
    /\ worker' = IF Running THEN "ending" ELSE worker
    /\ Goto("poll")
    /\ UNCHANGED <<kind, enabled, store, faults>>

Ended ==
    /\ worker = "ending"
    /\ worker' = "none"
    /\ UNCHANGED <<kind, enabled, store, run, faults>>

Poll ==
    /\ At("poll") /\ ~Running
    /\ Stopped
    /\ UNCHANGED <<kind, task, store, faults>>

\* The attempts run out; a task that was disabled stays so until a later run.
GiveUp ==
    /\ At("poll") /\ Running
    /\ run' = Idle
    /\ UNCHANGED <<kind, task, store, faults>>

\* Mutant: a quarantine left incomplete is an error.
QuarantineOnce ==
    /\ At("quarantine")
    /\ IF manifest = NoManifest
       THEN manifest' = files /\ Goto("move")
       ELSE run' = Idle /\ UNCHANGED manifest
    /\ UNCHANGED <<kind, task, files, beat, aside, faults>>

\* The manifest is written before anything is moved; one that exists is resumed.
Quarantine ==
    /\ At("quarantine")
    /\ manifest' = IF manifest = NoManifest THEN files ELSE manifest
    /\ Goto("move")
    /\ UNCHANGED <<kind, task, files, beat, aside, faults>>

\* A member that exists on both sides, or that is on neither, is an error.
Move ==
    /\ At("move")
    /\ \/ /\ \/ files \cap aside # {}
             \/ ~(manifest \subseteq files \cup aside)
          /\ run' = Idle
          /\ UNCHANGED store
       \/ /\ files \cap aside = {} /\ manifest \subseteq files \cup aside
          /\ \E m \in files :
               /\ files' = files \ {m}
               /\ aside' = aside \cup {m}
          /\ UNCHANGED <<beat, manifest, run>>
       \/ /\ files = {} /\ manifest \subseteq aside
          /\ manifest' = NoManifest /\ aside' = {} /\ beat' = "none"
          /\ Goto("enable")
          /\ UNCHANGED files
    /\ UNCHANGED <<kind, task, faults>>

Enable ==
    /\ At("enable")
    /\ enabled' = TRUE
    /\ Goto("run")
    /\ UNCHANGED <<kind, worker, store, faults>>

\* A worker the scheduler has started meanwhile is left alone.
Run ==
    /\ At("run")
    /\ worker' = IF enabled /\ ~Running THEN "starting" ELSE worker
    /\ IF kind = "autopilot" THEN Goto("await") ELSE run' = Idle
    /\ UNCHANGED <<kind, enabled, store, faults>>

\* _await_worker_runtime: the new runtime appears, or the attempts run out.
Await ==
    /\ At("await")
    /\ run' = Idle
    /\ UNCHANGED <<kind, task, store, faults>>

\* The store is locked, a command of the scheduler fails or times out, or the
\* watchdog's own time limit ends it.
RunDies ==
    /\ ~At("idle")
    /\ faults < MaxFaults /\ faults' = faults + 1
    /\ run' = Idle
    /\ UNCHANGED <<kind, task, store>>

Watch ==
    \/ Check \/ Query \/ Disable \/ Requery \/ EndTask \/ Poll \/ GiveUp
    \/ Quarantine \/ Move \/ Enable \/ Run \/ Await
Work == Register \/ Progress
Next == SchedulerStarts \/ Work \/ Grow \/ Fault \/ Ended \/ Watch \/ RunDies

Spec == Init /\ [][Next]_vars

(***************************************************************************)
(* The watchdog's task is repeated, a worker that is not hung goes on, an  *)
(* ended process goes away and a heartbeat nobody renews grows old.  The   *)
(* interval between two runs is longer than the start of a worker, so that *)
(* the watchdog does not end every worker before it registers (SF).  No    *)
(* fairness for the scheduler's restart: the watchdog does not rely on it. *)
(***************************************************************************)
FairSpec ==
    Spec /\ WF_vars(Watch) /\ SF_vars(Register) /\ WF_vars(Progress)
         /\ WF_vars(Grow) /\ WF_vars(Ended)

-----------------------------------------------------------------------------
(* Properties *)

\* While a corrupt store is moved aside, or was left half moved, no worker runs on
\* what is left of it, not even one that is being ended (run_autopilot_watchdog).
QuarantineAlone == manifest # NoManifest => ~Running

\* Whatever ends or hangs the worker, damages its heartbeat, or kills a watchdog run
\* half way through, a live worker with a fresh heartbeat comes back.
WorkerReturns == []<>(worker = "up" /\ beat = "fresh")
=============================================================================
