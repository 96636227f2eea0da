----------------------------- MODULE SecHistory -----------------------------
(***************************************************************************)
(* research/sec_history.py: the store of the SEC's quarterly ownership     *)
(* archives, and sync_bulk_archives, which brings every quarter into it    *)
(* and seals a snapshot of the selection.  A sync takes up what earlier    *)
(* ones left: it reuses the archive that was last retrieved from a         *)
(* quarter's address and ingested for it, and downloads any other.         *)
(*                                                                         *)
(* An archive is its content, which is what its digest stands for; the SEC *)
(* may replace the archive of a quarter.  The manifest page, the rows of   *)
(* an archive and the retrieval times (other than their order) are left    *)
(* out.                                                                    *)
(***************************************************************************)
EXTENDS Naturals, Sequences, FiniteSets, SequencesExt

CONSTANTS
    Syncs,          \* processes of history_worker
    Archives,       \* contents the SEC may serve
    Served,         \* [quarter -> contents], a sequence: what may stand at each address
    Malformed,      \* contents that ingest_archive refuses
    LegacySnapshot, \* members of a snapshot of format 1, or the empty sequence
    MaxReplaced,    \* bound on how often the SEC replaces an archive
    MaxFaults       \* bound on crashes and damaged files

HistoryAssumption ==
    /\ IsFiniteSet(Archives)
    /\ Served \in Seq(SUBSET Archives \ {{}}) \ {<<>>}
    /\ Malformed \subseteq Archives
    /\ LegacySnapshot \in Seq(Archives \ Malformed)
    /\ Len(LegacySnapshot) <= Len(Served)
    /\ MaxReplaced \in Nat
    /\ MaxFaults \in Nat

Quarters  == 1 .. Len(Served)
NoQuarter == 0
NoArchive == [none |-> TRUE]

VARIABLES
    upstream,   \* the content at the address of each quarter
    listed,     \* the last quarter of the manifest
    files,      \* the raw store: "absent", "good" or "damaged" for each content
    retrievals, \* raw_retrievals: the contents retrieved for each quarter, the last one last
    release,    \* archive_releases: the quarter of each ingested content
    sealed,     \* sealed_archive_snapshots: sequences of members
    sync,       \* sync[p]: where sync_bulk_archives stands
    replaced,
    faults

vars == <<upstream, listed, files, retrievals, release, sealed, sync, replaced, faults>>

Stopped == [at |-> "stopped", through |-> 0, refresh |-> FALSE, members |-> <<>>,
            archive |-> NoArchive]

Init ==
    /\ upstream \in {f \in [Quarters -> Archives] : \A q \in Quarters : f[q] \in Served[q]}
    /\ listed = 1
    /\ files = [c \in Archives |-> IF c \in ToSet(LegacySnapshot) THEN "good" ELSE "absent"]
    /\ retrievals = [q \in Quarters |-> IF q \in DOMAIN LegacySnapshot THEN <<LegacySnapshot[q]>>
                                                                    ELSE <<>>]
    /\ release = [c \in Archives |->
         IF c \in ToSet(LegacySnapshot)
           THEN CHOOSE q \in DOMAIN LegacySnapshot : LegacySnapshot[q] = c
           ELSE NoQuarter]
    /\ sealed = {}
    /\ sync = [p \in Syncs |-> Stopped]
    /\ replaced = 0
    /\ faults = 0

-----------------------------------------------------------------------------
(* The store *)

\* Mutant: a retrieval is reused whether it was ingested or not.
Retrieved(q) == ToSet(retrievals[q])

\* archived_object_for_url: the joined rows.
Ingested(q) == {c \in ToSet(retrievals[q]) : release[c] = q}

\* The one of them that was retrieved last.
LastIngested(q, c) ==
    \E i \in DOMAIN retrievals[q] :
        /\ retrievals[q][i] = c
        /\ \A j \in DOMAIN retrievals[q] : j > i => retrievals[q][j] \notin Ingested(q)

\* It, when its file verifies.
Archived(q) ==
    IF \E c \in Ingested(q) : LastIngested(q, c) /\ files[c] = "good"
      THEN CHOOSE c \in Ingested(q) : LastIngested(q, c)
      ELSE NoArchive

\* record_retrieval: c is the latest for q.
Latest(q, c) ==
    Append(IF c \in ToSet(retrievals[q])
             THEN RemoveAt(retrievals[q], CHOOSE i \in DOMAIN retrievals[q] : retrievals[q][i] = c)
             ELSE retrievals[q], c)

\* What create_snapshot asks of its members.
Sealable(members) ==
    /\ members # <<>>
    /\ \A q \in DOMAIN members : release[members[q]] = q /\ files[members[q]] = "good"

-----------------------------------------------------------------------------
(* sync_bulk_archives *)

Quarter(p) == Len(sync[p].members) + 1

At(p, stage) == sync[p].at = stage

\* The manifest: every quarter from the first one, through the last or an earlier one.
Begin(p) ==
    /\ At(p, "stopped")
    /\ \E through \in 1 .. listed, refresh \in BOOLEAN :
         sync' = [sync EXCEPT ![p].at = "next", ![p].through = through, ![p].refresh = refresh]
    /\ UNCHANGED <<upstream, listed, files, retrievals, release, sealed, replaced, faults>>

Member(p, c) ==
    sync' = [sync EXCEPT ![p].at = "next", ![p].members = Append(@, c), ![p].archive = NoArchive]

Fails(p) == sync' = [sync EXCEPT ![p] = Stopped]

Reuse(p) ==
    /\ At(p, "next")
    /\ Quarter(p) <= sync[p].through
    /\ ~ sync[p].refresh
    /\ Archived(Quarter(p)) # NoArchive
    /\ Member(p, Archived(Quarter(p)))
    /\ UNCHANGED <<upstream, listed, files, retrievals, release, sealed, replaced, faults>>

\* The download: RawObjectStore.publish and record_retrieval.
Fetch(p) ==
    LET q == Quarter(p)
        c == upstream[q]
    IN  /\ At(p, "next")
        /\ q <= sync[p].through
        /\ sync[p].refresh \/ Archived(q) = NoArchive
        /\ \/ /\ files[c] # "damaged"
              /\ files' = [files EXCEPT ![c] = "good"]
              /\ retrievals' = [retrievals EXCEPT ![q] = Latest(q, c)]
              /\ sync' = [sync EXCEPT ![p].at = "fetched", ![p].archive = c]
           \/ /\ files[c] = "damaged"       \* content-address collision or corruption
              /\ Fails(p)
              /\ UNCHANGED <<files, retrievals>>
        /\ UNCHANGED <<upstream, listed, release, sealed, replaced, faults>>

\* ingest_archive: an archive that is in the store for this quarter needs nothing more.
CheckRelease(p) ==
    LET c == sync[p].archive
    IN  /\ At(p, "fetched")
        /\ \/ release[c] = Quarter(p) /\ Member(p, c)
           \/ release[c] = NoQuarter /\ files[c] = "good" /\ c \notin Malformed
                /\ sync' = [sync EXCEPT ![p].at = "ingesting"]
           \/ release[c] = NoQuarter /\ (files[c] # "good" \/ c \in Malformed) /\ Fails(p)
           \/ release[c] \notin {NoQuarter, Quarter(p)} /\ Fails(p)
        /\ UNCHANGED <<upstream, listed, files, retrievals, release, sealed, replaced, faults>>

\* The archive's release and rows, in one transaction; another sync may have been first.
Ingest(p) ==
    LET c == sync[p].archive
    IN  /\ At(p, "ingesting")
        /\ \/ /\ release[c] = NoQuarter
              /\ release' = [release EXCEPT ![c] = Quarter(p)]
              /\ Member(p, c)
           \/ /\ release[c] # NoQuarter
              /\ Fails(p)
              /\ UNCHANGED release
        /\ UNCHANGED <<upstream, listed, files, retrievals, sealed, replaced, faults>>

\* create_snapshot; a selection that does not verify fails the sync.
CreateSnapshot(p) ==
    /\ At(p, "next")
    /\ Quarter(p) > sync[p].through
    /\ sealed' = IF Sealable(sync[p].members) THEN sealed \cup {sync[p].members} ELSE sealed
    /\ Fails(p)
    /\ UNCHANGED <<upstream, listed, files, retrievals, release, replaced, faults>>

\* seal_existing_snapshot.
SealLegacy ==
    /\ Sealable(LegacySnapshot)
    /\ sealed' = sealed \cup {LegacySnapshot}
    /\ UNCHANGED <<upstream, listed, files, retrievals, release, sync, replaced, faults>>

-----------------------------------------------------------------------------
(* The SEC, and failures *)

Publish ==
    /\ listed < Len(Served)
    /\ listed' = listed + 1
    /\ UNCHANGED <<upstream, files, retrievals, release, sealed, sync, replaced, faults>>

Replace(q) ==
    /\ replaced < MaxReplaced
    /\ replaced' = replaced + 1
    /\ \E c \in Served[q] \ {upstream[q]} : upstream' = [upstream EXCEPT ![q] = c]
    /\ UNCHANGED <<listed, files, retrievals, release, sealed, sync, faults>>

Fault == faults < MaxFaults /\ faults' = faults + 1

\* A crash, or a request that fails after its retries.
Crash(p) ==
    /\ ~ At(p, "stopped")
    /\ Fault
    /\ Fails(p)
    /\ UNCHANGED <<upstream, listed, files, retrievals, release, sealed, replaced>>

\* A file of the raw store is damaged or lost.
Damage(c) ==
    /\ files[c] = "good"
    /\ Fault
    /\ \E harm \in {"damaged", "absent"} : files' = [files EXCEPT ![c] = harm]
    /\ UNCHANGED <<upstream, listed, retrievals, release, sealed, sync, replaced>>

Next ==
    \/ \E p \in Syncs :
         \/ Begin(p) \/ Reuse(p) \/ Fetch(p) \/ CheckRelease(p) \/ Ingest(p)
         \/ CreateSnapshot(p) \/ Crash(p)
    \/ \E q \in Quarters : Replace(q)
    \/ \E c \in Archives : Damage(c)
    \/ SealLegacy \/ Publish

Spec == Init /\ [][Next]_vars

-----------------------------------------------------------------------------
(* Properties *)

Selections == UNION {[1 .. n -> Archives] : n \in 0 .. Len(Served)}

TypeOK ==
    /\ upstream \in [Quarters -> Archives]
    /\ listed \in Quarters
    /\ files \in [Archives -> {"absent", "good", "damaged"}]
    /\ \A q \in Quarters : retrievals[q] \in Seq(Archives) /\ IsInjective(retrievals[q])
    /\ release \in [Archives -> Quarters \cup {NoQuarter}]
    /\ sealed \subseteq Selections
    /\ sync \in [Syncs -> [at : {"stopped", "next", "fetched", "ingesting"},
                           through : 0 .. Len(Served), refresh : BOOLEAN,
                           members : Selections, archive : Archives \cup {NoArchive}]]
    /\ replaced \in 0 .. MaxReplaced
    /\ faults \in 0 .. MaxFaults

\* sync_bulk_archives is resumable: whatever earlier syncs left, crashed or ran beside it,
\* and whatever the SEC replaced, what a sync has selected is ingested for the quarter it is
\* selected for, so that only a damaged file keeps its snapshot from being sealed.
SelectionIngested ==
    \A p \in Syncs : \A q \in DOMAIN sync[p].members : release[sync[p].members[q]] = q

\* create_snapshot: every sealed snapshot has one ingested archive for each quarter from the
\* first one, and no archive stands for two quarters.
SealedWhole ==
    \A s \in sealed : s # <<>> /\ (\A q \in DOMAIN s : release[s[q]] = q) /\ IsInjective(s)
=============================================================================
