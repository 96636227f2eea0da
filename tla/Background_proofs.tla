--------------------------- MODULE Background_proofs ---------------------------
(* Theorems about the services around the trial: its activation, the archive of SEC    *)
(* quarters, the record of an owner, the bars it keeps, the evidence of notifications  *)
(* and the watchdogs, as Services, Records and Overlapped instantiate them; at its end, *)
(* those of the components with a module of theorems, cited for their instance there.  *)
(* What a theorem assumes of a component's constants is that component's assumption.   *)
(* The names of a component's part of the proof begin with the name of its instance.   *)
EXTENDS Services, Records, Overlapped, Integers, Sequences, FiniteSetTheorems,
        SequenceTheorems, TLAPS

-----------------------------------------------------------------------------
(* The activation of the trial (Activation): the inductive invariant. *)

(* A registry an operator derived: active, and a lead before its boundary. *)
TrialDerived(r) ==
    /\ r \in Trial!Registries
    /\ r.status = "active"
    /\ r.at - r.prepared >= a_Lead

TrialSealedSound ==
    a_receipt # Trial!NoRegistry =>
      TrialDerived(a_receipt) /\ Trial!EarlierRow \notin a_evidence

TrialPreparingSound ==
    \A o \in a_Operators :
       /\ a_preparing[o].at = "sealing" => TrialDerived(a_preparing[o].registry)
       /\ a_preparing[o].at = "publishing" =>
            a_receipt # Trial!NoRegistry /\ a_preparing[o].registry = a_receipt

(* The first attestation is of the sealed registry, and precedes its boundary. *)
TrialArmedSound ==
    a_armed # Trial!NoArmed =>
      /\ a_receipt # Trial!NoRegistry
      /\ a_armed.registry = a_receipt
      /\ a_armed.time < a_receipt.at

(* What a pass records is evidence under the armed registry, from its boundary on. *)
TrialUnder(e) ==
    /\ a_armed # Trial!NoArmed
    /\ e.registry = a_receipt
    /\ a_receipt.at <= e.began

TrialIInv ==
    /\ Trial!TypeOK
    /\ TrialSealedSound
    /\ TrialPreparingSound
    /\ a_artifacts \subseteq {a_receipt}
    /\ TrialArmedSound
    /\ \A w \in a_Workers : a_pass[w] # Trial!NoPass => TrialUnder(a_pass[w])
    /\ \A e \in a_evidence \ {Trial!EarlierRow} : TrialUnder(e)

-----------------------------------------------------------------------------
(* The operators' steps. *)

LEMMA TrialNobody == Trial!NoRegistry \notin Trial!Registries
<1>1. Trial!NoRegistry.status = "none"
  BY DEF Trial!NoRegistry
<1>2. \A r \in Trial!Registries : r.status # "none"
  BY DEF Trial!Registries
<1> QED
  BY <1>1, <1>2

LEMMA TrialPreparing ==
    ASSUME Trial!ActivationAssumption, TrialIInv, NEW o \in a_Operators,
               NEW at \in a_Boundaries, Trial!Prepare(o, at)
    PROVE  TrialIInv'
<1>1. UNCHANGED <<a_clock, a_receipt, a_armed, a_artifacts, a_deployed, a_pass,
                  a_evidence, a_setbacks, a_crashes>>
  BY DEF Trial!Prepare
<1>2. PICK r \in Trial!Registries : /\ TrialDerived(r)
                                    /\ a_preparing' = [a_preparing EXCEPT ![o] =
                                                       [at |-> "sealing", registry |-> r]]
  <2>1. CASE a_receipt = Trial!NoRegistry
    <3> DEFINE r == [status |-> "active", definition |-> a_deployed.definition,
                     prepared |-> a_clock, at |-> at]
    <3>1. r \in Trial!Registries /\ TrialDerived(r)
      BY <2>1 DEF Trial!Prepare, TrialIInv, Trial!TypeOK, Trial!Registries, TrialDerived,
         Trial!Times, Trial!ActivationAssumption
    <3> QED
      BY <2>1, <3>1 DEF Trial!Prepare
  <2>2. CASE a_receipt # Trial!NoRegistry
    BY <2>2 DEF Trial!Prepare, TrialIInv, TrialSealedSound, TrialDerived
  <2> QED
    BY <2>1, <2>2
<1>3. Trial!TypeOK'
  BY <1>1, <1>2 DEF TrialIInv, Trial!TypeOK
<1>4. TrialPreparingSound'
  BY <1>1, <1>2 DEF TrialIInv, Trial!TypeOK, TrialPreparingSound, TrialDerived
<1> QED
  BY <1>1, <1>3, <1>4 DEF TrialIInv, TrialSealedSound, TrialArmedSound, TrialUnder,
     TrialDerived

LEMMA TrialSealing ==
    ASSUME TrialIInv, NEW o \in a_Operators, Trial!Seal(o)
    PROVE  TrialIInv'
<1>1. UNCHANGED <<a_clock, a_armed, a_artifacts, a_deployed, a_pass, a_evidence,
                  a_setbacks, a_crashes>>
  BY DEF Trial!Seal
<1>2. PICK r : r = a_preparing[o].registry
  OBVIOUS
<1>3. TrialDerived(r) /\ r # Trial!NoRegistry
  BY <1>2, TrialNobody DEF Trial!Seal, TrialIInv, TrialPreparingSound, TrialDerived
<1>4. CASE a_evidence = {} /\ a_receipt \in {Trial!NoRegistry, r} /\ a_receipt' = r
           /\ a_preparing' = [a_preparing EXCEPT ![o].at = "publishing"]
  <2>1. a_preparing'[o] = [at |-> "publishing", registry |-> r]
        /\ \A p \in a_Operators : p # o => a_preparing'[p] = a_preparing[p]
    BY <1>2, <1>4 DEF TrialIInv, Trial!TypeOK
  <2>2. a_preparing' \in [a_Operators -> [at : {"idle", "sealing", "publishing"},
                                      registry : Trial!Registries \cup {Trial!NoRegistry}]]
    BY <1>3, <1>4, <2>1 DEF TrialIInv, Trial!TypeOK, TrialDerived
  <2>3. Trial!TypeOK'
    BY <1>1, <1>3, <1>4, <2>2 DEF TrialIInv, Trial!TypeOK, TrialDerived
  <2>4. TrialPreparingSound'
    BY <1>3, <1>4, <2>1 DEF TrialIInv, TrialPreparingSound, TrialDerived
  <2>5. a_receipt = Trial!NoRegistry => a_armed = Trial!NoArmed /\ a_artifacts = {}
        /\ \A w \in a_Workers : a_pass[w] = Trial!NoPass
    BY TrialNobody DEF TrialIInv, TrialArmedSound, TrialUnder, Trial!TypeOK
  <2>6. a_artifacts' \subseteq {a_receipt'}
    BY <1>1, <1>4, <2>5 DEF TrialIInv
  <2>7. TrialSealedSound'
    BY <1>1, <1>3, <1>4 DEF TrialSealedSound, TrialDerived
  <2>8. TrialArmedSound' /\ \A w \in a_Workers : a_pass'[w] # Trial!NoPass
            => TrialUnder(a_pass[w])'
    BY <1>1, <1>4, <2>5 DEF TrialIInv, TrialArmedSound, TrialUnder
  <2>9. \A e \in a_evidence' \ {Trial!EarlierRow} : TrialUnder(e)'
    BY <1>1, <1>4
  <2> QED
    BY <2>3, <2>4, <2>6, <2>7, <2>8, <2>9 DEF TrialIInv
<1>5. CASE UNCHANGED a_receipt /\ a_preparing' = [a_preparing EXCEPT ![o] = Trial!Asleep]
  <2>1. Trial!TypeOK' /\ TrialPreparingSound'
    BY <1>1, <1>5 DEF TrialIInv, Trial!TypeOK, TrialPreparingSound, TrialDerived,
       Trial!Asleep
  <2> QED
    BY <1>1, <1>5, <2>1 DEF TrialIInv, TrialSealedSound, TrialArmedSound, TrialUnder,
       TrialDerived
<1> QED
  BY <1>2, <1>4, <1>5 DEF Trial!Seal

LEMMA TrialPublishing ==
    ASSUME TrialIInv, NEW o \in a_Operators, Trial!Publish(o)
    PROVE  TrialIInv'
<1>1. UNCHANGED <<a_clock, a_receipt, a_armed, a_deployed, a_pass, a_evidence,
                  a_setbacks, a_crashes>>
  BY DEF Trial!Publish
<1>2. a_artifacts' \subseteq {a_receipt} /\ a_artifacts' \subseteq Trial!Registries
  BY DEF Trial!Publish, TrialIInv, TrialPreparingSound, TrialSealedSound, TrialDerived,
     Trial!TypeOK
<1>3. Trial!TypeOK' /\ TrialPreparingSound'
  BY <1>1, <1>2 DEF Trial!Publish, TrialIInv, Trial!TypeOK, TrialPreparingSound,
     TrialDerived, Trial!Asleep
<1> QED
  BY <1>1, <1>2, <1>3 DEF TrialIInv, TrialSealedSound, TrialArmedSound, TrialUnder,
     TrialDerived

LEMMA TrialCrashing ==
    ASSUME Trial!ActivationAssumption, TrialIInv, NEW o \in a_Operators, Trial!Crash(o)
    PROVE  TrialIInv'
<1>1. UNCHANGED <<a_clock, a_receipt, a_armed, a_artifacts, a_deployed, a_pass,
                  a_evidence, a_setbacks>>
  BY DEF Trial!Crash
<1>2. Trial!TypeOK' /\ TrialPreparingSound'
  BY <1>1 DEF Trial!Crash, TrialIInv, Trial!TypeOK, TrialPreparingSound, TrialDerived,
     Trial!Asleep, Trial!ActivationAssumption
<1> QED
  BY <1>1, <1>2 DEF TrialIInv, TrialSealedSound, TrialArmedSound, TrialUnder, TrialDerived

LEMMA TrialDeploying ==
    ASSUME Trial!ActivationAssumption, TrialIInv, NEW registry \in Trial!Deployable,
               Trial!Deploy(registry)
    PROVE  TrialIInv'
<1>1. UNCHANGED <<a_clock, a_receipt, a_armed, a_artifacts, a_preparing, a_pass,
                  a_evidence, a_setbacks, a_crashes>>
  BY DEF Trial!Deploy
<1>2. registry \in Trial!Registries
  BY DEF Trial!Deployable, Trial!Draft, Trial!Registries, Trial!ActivationAssumption,
     TrialIInv, Trial!TypeOK
<1> QED
  BY <1>1, <1>2 DEF Trial!Deploy, TrialIInv, Trial!TypeOK, TrialSealedSound,
     TrialPreparingSound, TrialArmedSound, TrialUnder, TrialDerived

-----------------------------------------------------------------------------
(* The workers' steps. *)

LEMMA TrialArming ==
    ASSUME TrialIInv, NEW w \in a_Workers, Trial!Arm(w)
    PROVE  TrialIInv'
<1>1. /\ UNCHANGED <<a_clock, a_receipt, a_artifacts, a_deployed, a_preparing, a_pass,
             a_evidence, a_setbacks,
                     a_crashes>>
      /\ a_armed = Trial!NoArmed /\ a_armed' = [registry |-> a_receipt, time |-> a_clock]
      /\ a_clock < a_receipt.at /\ a_receipt \in Trial!Registries
  BY DEF Trial!Arm, TrialIInv, Trial!TypeOK
<1>2. a_receipt # Trial!NoRegistry
  BY <1>1, TrialNobody
<1>3. Trial!TypeOK'
  BY <1>1 DEF TrialIInv, Trial!TypeOK
<1>4. TrialArmedSound'
  BY <1>1, <1>2 DEF TrialArmedSound
<1>5. /\ \A v \in a_Workers : a_pass'[v] # Trial!NoPass => TrialUnder(a_pass[v])'
      /\ \A e \in a_evidence' \ {Trial!EarlierRow} : TrialUnder(e)'
  BY <1>1 DEF TrialIInv, TrialUnder
<1> QED
  BY <1>1, <1>3, <1>4, <1>5 DEF TrialIInv, TrialSealedSound, TrialPreparingSound,
     TrialDerived

LEMMA TrialBeginning ==
    ASSUME TrialIInv, NEW w \in a_Workers, Trial!Begin(w)
    PROVE  TrialIInv'
<1>1. /\ UNCHANGED <<a_clock, a_receipt, a_armed, a_artifacts, a_deployed, a_preparing,
             a_evidence, a_setbacks,
                     a_crashes>>
      /\ a_pass' = [a_pass EXCEPT ![w] = [registry |-> a_receipt, began |-> a_clock]]
      /\ a_receipt.at <= a_clock /\ a_armed.registry = a_receipt
             /\ a_receipt \in Trial!Registries
      /\ a_clock \in Trial!Times
  BY DEF Trial!Begin, Trial!Attested, TrialIInv, Trial!TypeOK, Trial!Registries, Trial!Times
<1>2. a_armed # Trial!NoArmed
  BY <1>1, TrialNobody DEF Trial!NoArmed
<1>3. Trial!TypeOK'
  BY <1>1 DEF TrialIInv, Trial!TypeOK
<1>4. ASSUME NEW v \in a_Workers, a_pass'[v] # Trial!NoPass
      PROVE  TrialUnder(a_pass[v])'
  BY <1>1, <1>2, <1>4 DEF TrialIInv, Trial!TypeOK, TrialUnder
<1> QED
  BY <1>1, <1>3, <1>4 DEF TrialIInv, TrialSealedSound, TrialPreparingSound, TrialArmedSound,
     TrialUnder, TrialDerived

LEMMA TrialRecording ==
    ASSUME Trial!ActivationAssumption, TrialIInv, NEW w \in a_Workers, Trial!Record(w)
    PROVE  TrialIInv'
<1>1. /\ UNCHANGED <<a_clock, a_receipt, a_armed, a_artifacts, a_deployed, a_preparing,
                     a_setbacks, a_crashes>>
      /\ a_evidence' \in {a_evidence, a_evidence \cup {a_pass[w]}}
      /\ a_pass' = [a_pass EXCEPT ![w] = Trial!NoPass]
      /\ TrialUnder(a_pass[w]) /\ a_pass[w] # Trial!EarlierRow
  BY DEF Trial!Record, TrialIInv, Trial!NoPass, Trial!EarlierRow
<1>2. Trial!TypeOK'
  <2>1. 0 \in Trial!Times
    BY DEF Trial!ActivationAssumption, Trial!Times
  <2> QED
    BY <1>1, <2>1 DEF TrialIInv, Trial!TypeOK, Trial!NoPass
<1>3. TrialSealedSound'
  BY <1>1 DEF TrialIInv, TrialSealedSound, TrialDerived
<1>4. \A e \in a_evidence' \ {Trial!EarlierRow} : TrialUnder(e)'
  BY <1>1 DEF TrialIInv, TrialUnder
<1>5. ASSUME NEW v \in a_Workers, a_pass'[v] # Trial!NoPass
      PROVE  TrialUnder(a_pass[v])'
  BY <1>1, <1>5 DEF TrialIInv, Trial!TypeOK, TrialUnder
<1> QED
  BY <1>1, <1>2, <1>3, <1>4, <1>5 DEF TrialIInv, TrialPreparingSound, TrialArmedSound,
     TrialDerived

LEMMA TrialInductive ==
    ASSUME Trial!ActivationAssumption, TrialIInv, [Trial!Next]_Trial!vars
    PROVE  TrialIInv'
<1>1. CASE Trial!Tick \/ Trial!SetBack \/ UNCHANGED Trial!vars
  <2>1. UNCHANGED <<a_receipt, a_armed, a_artifacts, a_deployed, a_preparing, a_pass,
                    a_evidence, a_crashes>>
    BY <1>1 DEF Trial!Tick, Trial!SetBack, Trial!vars
  <2>2. a_clock' \in Trial!Times /\ a_setbacks' \in 0 .. a_MaxSetbacks
    BY <1>1 DEF Trial!Tick, Trial!SetBack, Trial!vars, TrialIInv, Trial!TypeOK, Trial!Times,
       Trial!ActivationAssumption
  <2> QED
    BY <2>1, <2>2 DEF TrialIInv, Trial!TypeOK, TrialSealedSound, TrialPreparingSound,
       TrialArmedSound, TrialUnder, TrialDerived
<1> QED
  BY <1>1, TrialPreparing, TrialSealing, TrialPublishing, TrialCrashing, TrialDeploying,
     TrialArming, TrialBeginning, TrialRecording DEF Trial!Next

LEMMA TrialInitial ==
    ASSUME Trial!ActivationAssumption, Trial!Init
    PROVE  TrialIInv
<1>1. Trial!TypeOK
  BY DEF Trial!ActivationAssumption, Trial!Init, Trial!TypeOK, Trial!Times,
     Trial!Registries, Trial!Draft, Trial!NoRegistry, Trial!NoArmed, Trial!Asleep,
     Trial!NoPass, Trial!EarlierRow
<1> QED
  BY <1>1 DEF Trial!Init, TrialIInv, TrialSealedSound, TrialPreparingSound, TrialArmedSound,
     Trial!Asleep

LEMMA TrialInvariance ==
    ASSUME Trial!ActivationAssumption
    PROVE  Trial!Spec => []TrialIInv
<1>1. Trial!Init => TrialIInv
  BY TrialInitial
<1>2. TrialIInv /\ [Trial!Next]_Trial!vars => TrialIInv'
  BY TrialInductive
<1> QED
  BY <1>1, <1>2, PTL DEF Trial!Spec

-----------------------------------------------------------------------------
(* The theorems. *)

(* The stores, the registry file and the passes stay within their types (activation.py,    *)
(* the tables of ActivationStore).                                                         *)
THEOREM TrialTypeCorrect ==
    ASSUME Trial!ActivationAssumption
    PROVE  Trial!Spec => []Trial!TypeOK
<1>1. TrialIInv => Trial!TypeOK
  BY DEF TrialIInv
<1> QED
  BY <1>1, TrialInvariance, PTL

(* Whatever any operators prepare, seal, publish and deploy, the registry published for    *)
(* review is the one that was sealed, over empty stores and a lead before its boundary     *)
(* (prepare_activation, ActivationStore.put).                                              *)
THEOREM ActivatedOnce ==
    ASSUME Trial!ActivationAssumption
    PROVE  Trial!Spec => []Trial!OneActivation
<1>1. TrialIInv => Trial!OneActivation
  BY DEF TrialIInv, Trial!OneActivation, TrialSealedSound, TrialDerived
<1> QED
  BY <1>1, TrialInvariance, PTL

(* Every row of evidence was recorded by a pass that began at or after the boundary of the *)
(* sealed registry, which had been attested before it, also when the clock was set back    *)
(* (validate_deployed_registry_state, verify_armed).                                       *)
THEOREM EvidenceProspective ==
    ASSUME Trial!ActivationAssumption
    PROVE  Trial!Spec => []Trial!Prospective
<1>1. TrialIInv => Trial!Prospective
  BY DEF TrialIInv, Trial!Prospective, TrialUnder, TrialArmedSound
<1> QED
  BY <1>1, TrialInvariance, PTL

(* Both together: the trial has one activation, and all its evidence was recorded under it. *)
THEOREM OneProspectiveTrial ==
    ASSUME Trial!ActivationAssumption
    PROVE  Trial!Spec => []ProspectiveOnly
<1>1. TrialIInv => ProspectiveOnly
  BY DEF ProspectiveOnly, TrialIInv, Trial!ProspectiveOnly, Trial!OneActivation, Trial!Prospective,
     TrialSealedSound, TrialDerived, TrialUnder, TrialArmedSound
<1> QED
  BY <1>1, TrialInvariance, PTL

-----------------------------------------------------------------------------
(* The archive of SEC quarters (SecHistory). *)

(* The inductive invariant: the types, the two promises, and that a sync has selected no *)
(* more than it was asked for and holds an archive while it checks or ingests it.         *)
ArchiveSyncing ==
    [at : {"stopped", "next", "fetched", "ingesting"}, through : 0 .. Len(h_Served),
     refresh : BOOLEAN, members : Seq(h_Archives), archive : h_Archives \cup {Archive!NoArchive}]

(* What a sync still has to select, and the archive it holds. *)
ArchiveInRange(p) ==
    /\ Len(h_sync[p].members) <= h_sync[p].through
    /\ h_sync[p].at = "stopped" => h_sync[p].members = <<>>
    /\ h_sync[p].at \in {"fetched", "ingesting"} =>
         Len(h_sync[p].members) < h_sync[p].through /\ h_sync[p].archive \in h_Archives

ArchiveWhole(s) == s # <<>> /\ (\A q \in DOMAIN s : h_release[s[q]] = q)
    /\ Archive!IsInjective(s)

ArchiveIInv ==
    /\ h_upstream \in [Archive!Quarters -> h_Archives]
    /\ h_listed \in Archive!Quarters
    /\ h_files \in [h_Archives -> {"absent", "good", "damaged"}]
    /\ h_retrievals \in [Archive!Quarters -> Seq(h_Archives)]
    /\ \A q \in Archive!Quarters : Archive!IsInjective(h_retrievals[q])
    /\ h_release \in [h_Archives -> Archive!Quarters \cup {Archive!NoQuarter}]
    /\ h_sealed \subseteq Seq(h_Archives)
    /\ h_sync \in [h_Syncs -> ArchiveSyncing]
    /\ h_replaced \in 0 .. h_MaxReplaced
    /\ h_faults \in 0 .. h_MaxFaults
    /\ \A p \in h_Syncs : ArchiveInRange(p)
    /\ Archive!SelectionIngested
    /\ Archive!SealedWhole

LEMMA ArchiveQuarterRange ==
    Archive!HistoryAssumption => Len(h_Served) \in Nat \ {0} /\ 1 \in Archive!Quarters
        /\ Archive!NoQuarter \notin Archive!Quarters
BY DEF Archive!HistoryAssumption, Archive!Quarters, Archive!NoQuarter

LEMMA ArchiveStarts == Archive!HistoryAssumption /\ Archive!Init => ArchiveIInv
<1> SUFFICES ASSUME Archive!HistoryAssumption, Archive!Init PROVE ArchiveIInv
  OBVIOUS
<1>1. Len(h_Served) \in Nat \ {0} /\ 1 \in Archive!Quarters
          /\ Archive!NoQuarter \notin Archive!Quarters
  BY ArchiveQuarterRange
<1>2. /\ h_LegacySnapshot \in Seq(h_Archives)
      /\ DOMAIN h_LegacySnapshot \subseteq Archive!Quarters
      /\ \A q \in DOMAIN h_LegacySnapshot : h_LegacySnapshot[q] \in h_Archives
  BY DEF Archive!HistoryAssumption, Archive!Quarters
<1>3. \A c \in Archive!ToSet(h_LegacySnapshot) :
        (CHOOSE q \in DOMAIN h_LegacySnapshot : h_LegacySnapshot[q] = c) \in Archive!Quarters
  BY <1>2 DEF Archive!ToSet
<1>4. /\ h_upstream \in [Archive!Quarters -> h_Archives]
      /\ h_listed \in Archive!Quarters
      /\ h_files \in [h_Archives -> {"absent", "good", "damaged"}]
  BY <1>1 DEF Archive!Init
<1>5. h_release \in [h_Archives -> Archive!Quarters \cup {Archive!NoQuarter}]
  BY <1>3 DEF Archive!Init
<1>6. /\ h_retrievals \in [Archive!Quarters -> Seq(h_Archives)]
      /\ \A q \in Archive!Quarters : Archive!IsInjective(h_retrievals[q])
  BY <1>2 DEF Archive!Init, Archive!IsInjective
<1>7. h_sync \in [h_Syncs -> ArchiveSyncing] /\ \A p \in h_Syncs : ArchiveInRange(p)
  BY <1>1 DEF Archive!Init, ArchiveSyncing, Archive!Stopped, ArchiveInRange
<1>8. Archive!SelectionIngested /\ Archive!SealedWhole /\ h_sealed \subseteq Seq(h_Archives)
  BY DEF Archive!Init, Archive!SelectionIngested, Archive!SealedWhole, Archive!Stopped
<1>9. h_replaced \in 0 .. h_MaxReplaced /\ h_faults \in 0 .. h_MaxFaults
  BY DEF Archive!Init, Archive!HistoryAssumption
<1> QED
  BY <1>4, <1>5, <1>6, <1>7, <1>8, <1>9 DEF ArchiveIInv

(* An archive keeps the quarter it was ingested for. *)
(* A release once ingested is never taken for another quarter's. *)
LEMMA ArchiveReleaseKept ==
    ASSUME ArchiveIInv, [Archive!Next]_Archive!vars
    PROVE  /\ h_release' \in [h_Archives -> Archive!Quarters \cup {Archive!NoQuarter}]
           /\ \A c \in h_Archives : h_release[c] # Archive!NoQuarter
                  => h_release'[c] = h_release[c]
<1>1. ASSUME NEW p \in h_Syncs, Archive!Ingest(p)
      PROVE  /\ h_release' \in [h_Archives -> Archive!Quarters \cup {Archive!NoQuarter}]
             /\ \A c \in h_Archives : h_release[c] # Archive!NoQuarter
                    => h_release'[c] = h_release[c]
  <2>1. Archive!Quarter(p) \in Archive!Quarters
    BY <1>1 DEF Archive!Ingest, Archive!At, ArchiveIInv, ArchiveInRange, Archive!Quarter,
       Archive!Quarters, ArchiveSyncing
  <2>2. h_release \in [h_Archives -> Archive!Quarters \cup {Archive!NoQuarter}]
    BY DEF ArchiveIInv
  <2>3. \/ h_release' = h_release
        \/ /\ h_release[h_sync[p].archive] = Archive!NoQuarter
           /\ h_release' = [h_release EXCEPT ![h_sync[p].archive] = Archive!Quarter(p)]
    BY <1>1 DEF Archive!Ingest
  <2> QED
    BY <2>1, <2>2, <2>3
<1>2. ASSUME \A p \in h_Syncs : ~Archive!Ingest(p)
      PROVE  h_release' = h_release
  BY <1>2 DEF Archive!Next, Archive!vars, Archive!Begin, Archive!Reuse, Archive!Fetch,
     Archive!CheckRelease, Archive!CreateSnapshot, Archive!Crash, Archive!Replace,
     Archive!Damage, Archive!SealLegacy, Archive!Publish
<1> QED
  BY <1>1, <1>2 DEF ArchiveIInv

LEMMA ArchiveWholeKept ==
    ASSUME ArchiveIInv, [Archive!Next]_Archive!vars, NEW s \in Seq(h_Archives), ArchiveWhole(s)
    PROVE  ArchiveWhole(s)'
<1>1. \A q \in DOMAIN s : s[q] \in h_Archives /\ q # Archive!NoQuarter
  BY DEF Archive!NoQuarter
<1> QED
  BY <1>1, ArchiveReleaseKept DEF ArchiveWhole

LEMMA ArchiveReused ==
    ASSUME ArchiveIInv, NEW q \in Archive!Quarters, Archive!Archived(q) # Archive!NoArchive
    PROVE  Archive!Archived(q) \in h_Archives /\ h_release[Archive!Archived(q)] = q
<1>1. PICK c \in Archive!Ingested(q) : Archive!LastIngested(q, c)
  BY DEF Archive!Archived
<1>2. Archive!Archived(q) \in Archive!Ingested(q)
  BY <1>1 DEF Archive!Archived
<1> QED
  BY <1>2 DEF Archive!Ingested, Archive!ToSet, ArchiveIInv

(* What a step does to what the syncs have selected: one adds an archive that is ingested *)
(* for its quarter, one stops, or the selections stay.                                    *)
ArchiveAdds(p) ==
    \E c \in h_Archives :
       /\ h_sync' = [h_sync EXCEPT ![p].at = "next", ![p].members = Append(@, c),
                               ![p].archive = Archive!NoArchive]
       /\ Len(h_sync[p].members) < h_sync[p].through
       /\ h_release'[c] = Len(h_sync[p].members) + 1
ArchiveStops(p) == h_sync' = [h_sync EXCEPT ![p] = Archive!Stopped]
ArchiveStays ==
    /\ h_sync' \in [h_Syncs -> ArchiveSyncing]
    /\ \A p \in h_Syncs : h_sync'[p].members = h_sync[p].members /\ ArchiveInRange(p)'

LEMMA ArchiveSelecting ==
    ASSUME Archive!HistoryAssumption, ArchiveIInv, [Archive!Next]_Archive!vars
    PROVE  (\E p \in h_Syncs : ArchiveAdds(p) \/ ArchiveStops(p)) \/ ArchiveStays
<1>1. ASSUME NEW p \in h_Syncs, Archive!Begin(p)  PROVE ArchiveStays
  <2>1. PICK through \in 1 .. h_listed, refresh \in BOOLEAN :
          h_sync' = [h_sync EXCEPT ![p].at = "next", ![p].through = through,
              ![p].refresh = refresh]
    BY <1>1 DEF Archive!Begin
  <2>2. h_sync[p] \in ArchiveSyncing /\ h_sync[p].at = "stopped" /\ h_sync[p].members = <<>>
    BY <1>1 DEF Archive!Begin, Archive!At, ArchiveIInv, ArchiveInRange
  <2>3. through \in 0 .. Len(h_Served)
    BY DEF ArchiveIInv, Archive!Quarters
  <2>4. /\ h_sync'[p] \in ArchiveSyncing /\ h_sync'[p].members = <<>> /\ h_sync'[p].at = "next"
        /\ h_sync'[p].through = through
        /\ \A o \in h_Syncs \ {p} : h_sync'[o] = h_sync[o]
    BY <2>1, <2>2, <2>3 DEF ArchiveIInv, ArchiveSyncing
  <2> QED
    BY <2>1, <2>2, <2>4 DEF ArchiveStays, ArchiveIInv, ArchiveInRange
<1>2. ASSUME NEW p \in h_Syncs, Archive!Reuse(p)  PROVE ArchiveAdds(p)
  <2>0. h_sync[p] \in ArchiveSyncing /\ Archive!Quarter(p) <= h_sync[p].through
    BY <1>2 DEF Archive!Reuse, ArchiveIInv
  <2>1. Archive!Quarter(p) \in Archive!Quarters
            /\ Archive!Quarter(p) = Len(h_sync[p].members) + 1
    BY <2>0 DEF Archive!Quarter, Archive!Quarters, ArchiveSyncing
  <2>2. UNCHANGED h_release
    BY <1>2 DEF Archive!Reuse
  <2> QED
    <3> DEFINE c == Archive!Archived(Archive!Quarter(p))
    <3>1. c \in h_Archives /\ h_release'[c] = Len(h_sync[p].members) + 1
      BY <1>2, <2>1, <2>2, ArchiveReused DEF Archive!Reuse
    <3>2. Archive!Member(p, c)
      BY <1>2 DEF Archive!Reuse
    <3>3. Len(h_sync[p].members) < h_sync[p].through
      BY <2>0, <2>1 DEF ArchiveSyncing
    <3> HIDE DEF c
    <3> QED
      BY <3>1, <3>2, <3>3 DEF ArchiveAdds, Archive!Member
<1>3. ASSUME NEW p \in h_Syncs, Archive!Fetch(p)  PROVE ArchiveStays \/ ArchiveStops(p)
  <2>1. CASE Archive!Fails(p)
    BY <2>1 DEF Archive!Fails, ArchiveStops
  <2>2. CASE h_sync' = [h_sync EXCEPT ![p].at = "fetched",
                 ![p].archive = h_upstream[Archive!Quarter(p)]]
    <3>0. h_sync[p] \in ArchiveSyncing /\ Archive!Quarter(p) <= h_sync[p].through
      BY <1>3 DEF Archive!Fetch, ArchiveIInv
    <3>1. h_upstream[Archive!Quarter(p)] \in h_Archives
              /\ Len(h_sync[p].members) < h_sync[p].through
      BY <3>0 DEF Archive!Quarter, Archive!Quarters, ArchiveIInv, ArchiveSyncing
    <3> QED
      <4>1. /\ h_sync'[p] \in ArchiveSyncing /\ h_sync'[p].members = h_sync[p].members
            /\ h_sync'[p].at = "fetched" /\ h_sync'[p].through = h_sync[p].through
            /\ h_sync'[p].archive \in h_Archives
            /\ \A o \in h_Syncs \ {p} : h_sync'[o] = h_sync[o]
            /\ h_sync' \in [h_Syncs -> ArchiveSyncing]
        BY <2>2, <3>0, <3>1 DEF ArchiveIInv, ArchiveSyncing
      <4> QED
        BY <3>0, <3>1, <4>1 DEF ArchiveStays, ArchiveIInv, ArchiveInRange, ArchiveSyncing
  <2> QED
    BY <1>3, <2>1, <2>2 DEF Archive!Fetch
<1>4. ASSUME NEW p \in h_Syncs, Archive!CheckRelease(p)
      PROVE  ArchiveStays \/ ArchiveStops(p) \/ ArchiveAdds(p)
  <2>1. UNCHANGED h_release /\ h_sync[p].archive \in h_Archives
            /\ Len(h_sync[p].members) < h_sync[p].through
    BY <1>4 DEF Archive!CheckRelease, Archive!At, ArchiveIInv, ArchiveInRange
  <2>2. CASE Archive!Fails(p)
    BY <2>2 DEF Archive!Fails, ArchiveStops
  <2>3. CASE h_release[h_sync[p].archive] = Archive!Quarter(p)
                 /\ Archive!Member(p, h_sync[p].archive)
    BY <2>1, <2>3 DEF ArchiveAdds, Archive!Member, Archive!Quarter
  <2>4. CASE h_sync' = [h_sync EXCEPT ![p].at = "ingesting"]
    BY <2>1, <2>4 DEF ArchiveStays, ArchiveIInv, ArchiveInRange, ArchiveSyncing
  <2> QED
    BY <1>4, <2>2, <2>3, <2>4 DEF Archive!CheckRelease
<1>5. ASSUME NEW p \in h_Syncs, Archive!Ingest(p)  PROVE ArchiveStops(p) \/ ArchiveAdds(p)
  <2>1. h_sync[p].archive \in h_Archives /\ Len(h_sync[p].members) < h_sync[p].through
    BY <1>5 DEF Archive!Ingest, Archive!At, ArchiveIInv, ArchiveInRange
  <2> QED
    BY <1>5, <2>1 DEF Archive!Ingest, Archive!Fails, ArchiveStops, ArchiveAdds,
       Archive!Member, Archive!Quarter, ArchiveIInv
<1>6. ASSUME NEW p \in h_Syncs, Archive!CreateSnapshot(p) \/ Archive!Crash(p)
      PROVE  ArchiveStops(p)
  BY <1>6 DEF Archive!CreateSnapshot, Archive!Crash, Archive!Fails, ArchiveStops
<1>7. ASSUME h_sync' = h_sync  PROVE ArchiveStays
  BY <1>7 DEF ArchiveStays, ArchiveIInv, ArchiveInRange
<1>8. CASE \E q \in Archive!Quarters : Archive!Replace(q)
  BY <1>7, <1>8 DEF Archive!Replace
<1>9. CASE \E c \in h_Archives : Archive!Damage(c)
  BY <1>7, <1>9 DEF Archive!Damage
<1>10. CASE Archive!SealLegacy \/ Archive!Publish \/ UNCHANGED Archive!vars
  BY <1>7, <1>10 DEF Archive!SealLegacy, Archive!Publish, Archive!vars
<1> QED
  BY <1>1, <1>2, <1>3, <1>4, <1>5, <1>6, <1>8, <1>9, <1>10 DEF Archive!Next

LEMMA ArchiveSelectionsKept ==
    ASSUME Archive!HistoryAssumption, ArchiveIInv, [Archive!Next]_Archive!vars
    PROVE  /\ h_sync' \in [h_Syncs -> ArchiveSyncing]
           /\ \A p \in h_Syncs : ArchiveInRange(p)'
           /\ Archive!SelectionIngested'
<1>1. \A p \in h_Syncs : \A q \in DOMAIN h_sync[p].members : h_release'[h_sync[p].members[q]] = q
  <2>1. \A p \in h_Syncs : \A q \in DOMAIN h_sync[p].members :
          h_sync[p].members[q] \in h_Archives /\ q # Archive!NoQuarter
    BY DEF ArchiveIInv, ArchiveSyncing, Archive!NoQuarter
  <2> QED
    BY <2>1, ArchiveReleaseKept DEF ArchiveIInv, Archive!SelectionIngested
<1>2. ASSUME NEW p \in h_Syncs, ArchiveAdds(p)
      PROVE  /\ h_sync' \in [h_Syncs -> ArchiveSyncing]
             /\ \A o \in h_Syncs : ArchiveInRange(o)'
             /\ Archive!SelectionIngested'
  <2>1. PICK c \in h_Archives :
          /\ h_sync' = [h_sync EXCEPT ![p].at = "next", ![p].members = Append(@, c),
                                  ![p].archive = Archive!NoArchive]
          /\ Len(h_sync[p].members) < h_sync[p].through
          /\ h_release'[c] = Len(h_sync[p].members) + 1
    BY <1>2 DEF ArchiveAdds
  <2>2. h_sync[p] \in ArchiveSyncing
    BY DEF ArchiveIInv
  <2>3. /\ Append(h_sync[p].members, c) \in Seq(h_Archives)
        /\ Len(Append(h_sync[p].members, c)) = Len(h_sync[p].members) + 1
        /\ \A q \in DOMAIN Append(h_sync[p].members, c) :
             h_release'[Append(h_sync[p].members, c)[q]] = q
    BY <1>1, <2>1, <2>2 DEF ArchiveSyncing
  <2>4. /\ h_sync'[p] \in ArchiveSyncing
        /\ h_sync'[p].members = Append(h_sync[p].members, c)
        /\ h_sync'[p].at = "next" /\ h_sync'[p].through = h_sync[p].through
        /\ \A o \in h_Syncs \ {p} : h_sync'[o] = h_sync[o]
        /\ DOMAIN h_sync' = h_Syncs
    BY <2>1, <2>2, <2>3 DEF ArchiveIInv, ArchiveSyncing
  <2>5. h_sync' \in [h_Syncs -> ArchiveSyncing]
    BY <2>1, <2>4 DEF ArchiveIInv
  <2>6. \A o \in h_Syncs : ArchiveInRange(o)'
    BY <2>1, <2>2, <2>3, <2>4 DEF ArchiveIInv, ArchiveInRange, ArchiveSyncing
  <2>7. Archive!SelectionIngested'
    BY <1>1, <2>3, <2>4 DEF Archive!SelectionIngested
  <2> QED
    BY <2>5, <2>6, <2>7
<1>3. ASSUME NEW p \in h_Syncs, ArchiveStops(p)
      PROVE  /\ h_sync' \in [h_Syncs -> ArchiveSyncing]
             /\ \A o \in h_Syncs : ArchiveInRange(o)'
             /\ Archive!SelectionIngested'
  <2>1. Len(h_Served) \in Nat
    BY ArchiveQuarterRange
  <2>2. Archive!Stopped \in ArchiveSyncing /\ Archive!Stopped.members = <<>>
            /\ Archive!Stopped.through = 0 /\ Archive!Stopped.at = "stopped"
    BY <2>1 DEF Archive!Stopped, ArchiveSyncing
  <2>3. \A o \in h_Syncs : h_sync'[o] = IF o = p THEN Archive!Stopped ELSE h_sync[o]
    BY <1>3 DEF ArchiveStops, ArchiveIInv
  <2>4. h_sync' \in [h_Syncs -> ArchiveSyncing]
    BY <1>3, <2>2 DEF ArchiveStops, ArchiveIInv
  <2>5. \A o \in h_Syncs : ArchiveInRange(o)'
    BY <2>2, <2>3 DEF ArchiveInRange, ArchiveIInv
  <2>6. Archive!SelectionIngested'
    BY <1>1, <2>2, <2>3 DEF Archive!SelectionIngested
  <2> QED
    BY <2>4, <2>5, <2>6
<1>4. CASE ArchiveStays
  BY <1>1, <1>4 DEF ArchiveStays, Archive!SelectionIngested
<1> QED
  BY <1>2, <1>3, <1>4, ArchiveSelecting

(* A snapshot is sealed only of archives that are all ingested for their quarters. *)
LEMMA ArchiveSealedKept ==
    ASSUME Archive!HistoryAssumption, ArchiveIInv, [Archive!Next]_Archive!vars
    PROVE  h_sealed' \subseteq Seq(h_Archives) /\ Archive!SealedWhole'
<1>1. \A s \in h_sealed : s \in Seq(h_Archives) /\ ArchiveWhole(s)
  BY DEF ArchiveIInv, Archive!SealedWhole, ArchiveWhole
<1>2. ASSUME NEW s \in Seq(h_Archives), Archive!Sealable(s)  PROVE ArchiveWhole(s)
  BY <1>2 DEF Archive!Sealable, ArchiveWhole, Archive!IsInjective
<1>3. \A s \in h_sealed' : s \in Seq(h_Archives) /\ ArchiveWhole(s)
  <2>1. ASSUME NEW p \in h_Syncs, Archive!CreateSnapshot(p), NEW s \in h_sealed'
        PROVE  s \in Seq(h_Archives) /\ ArchiveWhole(s)
    <3>1. h_sync[p].members \in Seq(h_Archives)
      BY DEF ArchiveIInv, ArchiveSyncing
    <3>2. s \in h_sealed \/ (s = h_sync[p].members /\ Archive!Sealable(s))
      BY <2>1 DEF Archive!CreateSnapshot
    <3> QED
      BY <1>1, <1>2, <3>1, <3>2
  <2>2. ASSUME Archive!SealLegacy, NEW s \in h_sealed'
        PROVE  s \in Seq(h_Archives) /\ ArchiveWhole(s)
    <3>1. h_LegacySnapshot \in Seq(h_Archives)
      BY DEF Archive!HistoryAssumption
    <3> QED
      BY <1>1, <1>2, <2>2, <3>1 DEF Archive!SealLegacy
  <2>3. ASSUME \A p \in h_Syncs : ~Archive!CreateSnapshot(p), ~Archive!SealLegacy
        PROVE  h_sealed' = h_sealed
    BY <2>3 DEF Archive!Next, Archive!vars, Archive!Begin, Archive!Reuse, Archive!Fetch,
       Archive!CheckRelease, Archive!Ingest, Archive!Crash, Archive!Replace, Archive!Damage,
       Archive!Publish
  <2> QED
    BY <1>1, <2>1, <2>2, <2>3
<1>4. \A s \in h_sealed' : ArchiveWhole(s)'
  BY <1>3, ArchiveWholeKept
<1> QED
  BY <1>3, <1>4 DEF Archive!SealedWhole, ArchiveWhole

LEMMA ArchiveLatestKept ==
    ASSUME ArchiveIInv, NEW q \in Archive!Quarters, NEW c \in h_Archives
    PROVE  Archive!Latest(q, c) \in Seq(h_Archives) /\ Archive!IsInjective(Archive!Latest(q, c))
<1> DEFINE s == h_retrievals[q]
<1>1. s \in Seq(h_Archives) /\ Archive!IsInjective(s)
  BY DEF ArchiveIInv
<1>2. CASE c \notin Archive!ToSet(s)
  <2>1. \A i \in DOMAIN s : s[i] # c
    BY <1>2 DEF Archive!ToSet
  <2>2. Archive!Latest(q, c) = Append(s, c)
    BY <1>2 DEF Archive!Latest
  <2> HIDE DEF s
  <2> QED
    BY <1>1, <2>1, <2>2 DEF Archive!IsInjective
<1>3. CASE c \in Archive!ToSet(s)
  <2> DEFINE k == CHOOSE i \in DOMAIN s : s[i] = c
             t == Archive!RemoveAt(s, k)
  <2>1. k \in DOMAIN s /\ s[k] = c
    BY <1>3 DEF Archive!ToSet
  <2>2. Archive!Latest(q, c) = Append(t, c)
    BY <1>3 DEF Archive!Latest
  <2> HIDE DEF s, k
  <2>3. k \in 1 .. Len(s) /\ Len(s) \in Nat
    BY <1>1, <2>1
  <2>4. /\ SubSeq(s, 1, k - 1) \in Seq(h_Archives)
        /\ Len(SubSeq(s, 1, k - 1)) = k - 1
        /\ \A i \in 1 .. k - 1 : SubSeq(s, 1, k - 1)[i] = s[i]
    BY <1>1, <2>3, SubSeqProperties
  <2>5. /\ SubSeq(s, k + 1, Len(s)) \in Seq(h_Archives)
        /\ Len(SubSeq(s, k + 1, Len(s))) = Len(s) - k
        /\ \A i \in 1 .. Len(s) - k : SubSeq(s, k + 1, Len(s))[i] = s[k + i]
    BY <1>1, <2>3, SubSeqProperties
  <2>6. /\ t \in Seq(h_Archives)
        /\ Len(t) = Len(s) - 1
        /\ \A i \in 1 .. Len(t) : t[i] = IF i < k THEN s[i] ELSE s[i + 1]
    <3> DEFINE a == SubSeq(s, 1, k - 1)
               b == SubSeq(s, k + 1, Len(s))
    <3>1. t = a \o b
      BY DEF Archive!RemoveAt
    <3> HIDE DEF a, b, t
    <3>2. /\ a \in Seq(h_Archives) /\ Len(a) = k - 1 /\ \A i \in 1 .. k - 1 : a[i] = s[i]
          /\ b \in Seq(h_Archives) /\ Len(b) = Len(s) - k
          /\ \A i \in 1 .. Len(s) - k : b[i] = s[k + i]
      BY <2>4, <2>5 DEF a, b
    <3>3. t \in Seq(h_Archives) /\ Len(t) = Len(s) - 1
      <4>1. t \in Seq(h_Archives) /\ Len(t) = Len(a) + Len(b)
        BY <3>1, <3>2, ConcatProperties
      <4> QED
        BY <2>3, <3>2, <4>1
    <3>4. ASSUME NEW i \in 1 .. Len(t)
          PROVE  t[i] = IF i < k THEN s[i] ELSE s[i + 1]
      <4>1. CASE i < k
        BY <2>3, <3>1, <3>2, <3>3, <4>1
      <4>2. CASE i >= k
        <5>1. t[i] = b[i - (k - 1)] /\ i - (k - 1) \in 1 .. Len(s) - k
          BY <2>3, <3>1, <3>2, <3>3, <4>2
        <5>2. k + (i - (k - 1)) = i + 1
          BY <2>3, <3>3
        <5> QED
          BY <2>3, <3>2, <4>2, <5>1, <5>2
      <4> QED
        BY <2>3, <4>1, <4>2
    <3> QED
      BY <3>3, <3>4
  <2> HIDE DEF t
  <2>7. \A i \in 1 .. Len(s) : s[i] = c => i = k
    BY <1>1, <2>1 DEF Archive!IsInjective
  <2>8. Archive!IsInjective(t) /\ \A i \in DOMAIN t : t[i] # c
    <3> DEFINE n(i) == IF i < k THEN i ELSE i + 1
    <3>1. DOMAIN t = 1 .. Len(s) - 1 /\ DOMAIN s = 1 .. Len(s)
      BY <1>1, <2>3, <2>6
    <3>2. \A i \in 1 .. Len(s) - 1 : n(i) \in 1 .. Len(s) /\ n(i) # k /\ t[i] = s[n(i)]
      BY <2>3, <2>6
    <3>3. \A i, j \in 1 .. Len(s) - 1 : n(i) = n(j) => i = j
      BY <2>3
    <3> HIDE DEF n
    <3> QED
      BY <1>1, <2>7, <3>1, <3>2, <3>3 DEF Archive!IsInjective
  <2> QED
    BY <2>2, <2>6, <2>8 DEF Archive!IsInjective
<1> QED
  BY <1>2, <1>3

LEMMA ArchiveStoreTyped ==
    ASSUME Archive!HistoryAssumption, ArchiveIInv, [Archive!Next]_Archive!vars
    PROVE  /\ h_upstream' \in [Archive!Quarters -> h_Archives]
           /\ h_listed' \in Archive!Quarters
           /\ h_files' \in [h_Archives -> {"absent", "good", "damaged"}]
           /\ h_retrievals' \in [Archive!Quarters -> Seq(h_Archives)]
           /\ \A q \in Archive!Quarters : Archive!IsInjective(h_retrievals'[q])
           /\ h_replaced' \in 0 .. h_MaxReplaced
           /\ h_faults' \in 0 .. h_MaxFaults
<1> DEFINE Typed == /\ h_upstream' \in [Archive!Quarters -> h_Archives]
                    /\ h_listed' \in Archive!Quarters
                    /\ h_files' \in [h_Archives -> {"absent", "good", "damaged"}]
                    /\ h_retrievals' \in [Archive!Quarters -> Seq(h_Archives)]
                    /\ \A q \in Archive!Quarters : Archive!IsInjective(h_retrievals'[q])
                    /\ h_replaced' \in 0 .. h_MaxReplaced
                    /\ h_faults' \in 0 .. h_MaxFaults
<1> USE DEF ArchiveIInv, Archive!HistoryAssumption
<1>1. ASSUME NEW p \in h_Syncs, Archive!Fetch(p)  PROVE Typed
  <2>1. UNCHANGED <<h_upstream, h_listed, h_replaced, h_faults>>
    BY <1>1 DEF Archive!Fetch
  <2>2. Archive!Quarter(p) \in Archive!Quarters
    BY <1>1 DEF Archive!Fetch, Archive!Quarter, Archive!Quarters, ArchiveSyncing
  <2>3. /\ h_files' \in [h_Archives -> {"absent", "good", "damaged"}]
        /\ \/ h_retrievals' = h_retrievals
           \/ h_retrievals' = [h_retrievals EXCEPT ![Archive!Quarter(p)] =
                                                Archive!Latest(Archive!Quarter(p),
                                                    h_upstream[Archive!Quarter(p)])]
    BY <1>1, <2>2 DEF Archive!Fetch
  <2> QED
    <3>1. h_upstream[Archive!Quarter(p)] \in h_Archives
      BY <2>2
    <3>2. \A q \in Archive!Quarters : h_retrievals'[q] \in Seq(h_Archives)
              /\ Archive!IsInjective(h_retrievals'[q])
      <4>1. CASE h_retrievals' = h_retrievals
        BY <4>1
      <4>2. CASE h_retrievals' = [h_retrievals EXCEPT ![Archive!Quarter(p)] =
                                                    Archive!Latest(Archive!Quarter(p),
                                                        h_upstream[Archive!Quarter(p)])]
        <5>1. \A q \in Archive!Quarters : h_retrievals'[q] =
                IF q = Archive!Quarter(p) THEN Archive!Latest(q,
                    h_upstream[q]) ELSE h_retrievals[q]
          BY <2>2, <4>2
        <5> QED
          BY <3>1, <5>1, ArchiveLatestKept
      <4> QED
        BY <2>3, <4>1, <4>2
    <3>3. h_retrievals' \in [Archive!Quarters -> Seq(h_Archives)]
      BY <2>3, <3>2
    <3> QED
      BY <2>1, <2>3, <3>2, <3>3
<1>2. ASSUME NEW p \in h_Syncs,
             Archive!Begin(p) \/ Archive!Reuse(p) \/ Archive!CheckRelease(p)
                 \/ Archive!Ingest(p) \/ Archive!CreateSnapshot(p)
      PROVE  Typed
  <2>1. UNCHANGED <<h_upstream, h_listed, h_files, h_retrievals, h_replaced, h_faults>>
    BY <1>2 DEF Archive!Begin, Archive!Reuse, Archive!CheckRelease, Archive!Ingest,
       Archive!CreateSnapshot
  <2> QED
    BY <2>1
<1>3. ASSUME NEW p \in h_Syncs, Archive!Crash(p)  PROVE Typed
  BY <1>3 DEF Archive!Crash, Archive!Fault
<1>4. ASSUME NEW q \in Archive!Quarters, Archive!Replace(q)  PROVE Typed
  <2>1. h_Served[q] \subseteq h_Archives
    BY DEF Archive!Quarters
  <2> QED
    BY <1>4, <2>1 DEF Archive!Replace
<1>5. ASSUME NEW c \in h_Archives, Archive!Damage(c)  PROVE Typed
  BY <1>5 DEF Archive!Damage, Archive!Fault
<1>6. CASE Archive!SealLegacy \/ UNCHANGED Archive!vars
  BY <1>6 DEF Archive!SealLegacy, Archive!vars
<1>7. CASE Archive!Publish
  BY <1>7 DEF Archive!Publish, Archive!Quarters
<1> QED
  BY <1>1, <1>2, <1>3, <1>4, <1>5, <1>6, <1>7 DEF Archive!Next

LEMMA ArchiveSteps ==
    Archive!HistoryAssumption /\ ArchiveIInv /\ [Archive!Next]_Archive!vars => ArchiveIInv'
BY ArchiveReleaseKept, ArchiveSelectionsKept, ArchiveSealedKept, ArchiveStoreTyped DEF
   ArchiveIInv

LEMMA ArchiveShortSeq ==
    ASSUME NEW s \in Seq(h_Archives), Len(h_Served) \in Nat, Len(s) <= Len(h_Served)
    PROVE  s \in Archive!Selections
<1>1. Len(s) \in 0 .. Len(h_Served) /\ s \in [1 .. Len(s) -> h_Archives]
  OBVIOUS
<1> QED
  BY <1>1 DEF Archive!Selections

(* The archive, the retrievals, the ingested releases, the sealed snapshots and the syncs *)
(* stay within their types: no sync ever holds more than one archive of each quarter      *)
(* (owner_history.py, sync_bulk_archives).                                                *)
THEOREM ArchiveTypeCorrect ==
    ASSUME Archive!HistoryAssumption PROVE Archive!Spec => []Archive!TypeOK
<1>1. Archive!Init => ArchiveIInv
  BY ArchiveStarts
<1>2. ArchiveIInv /\ [Archive!Next]_Archive!vars => ArchiveIInv'
  BY ArchiveSteps
<1>3. ASSUME ArchiveIInv  PROVE Archive!TypeOK
  <2>1. Len(h_Served) \in Nat
    BY ArchiveQuarterRange
  <2>2. ASSUME NEW s \in h_sealed  PROVE s \in Archive!Selections
    <3>1. s \in Seq(h_Archives) /\ \A q \in DOMAIN s : h_release[s[q]] = q
      BY <1>3 DEF ArchiveIInv, Archive!SealedWhole
    <3>2. \A q \in DOMAIN s : q \in Archive!Quarters
      <4>1. \A q \in DOMAIN s : s[q] \in h_Archives /\ q # Archive!NoQuarter
        BY <3>1 DEF Archive!NoQuarter
      <4> QED
        BY <1>3, <3>1, <4>1 DEF ArchiveIInv
    <3>3. s # <<>> => Len(s) \in DOMAIN s
      BY <3>1
    <3>4. Len(s) <= Len(h_Served)
      BY <2>1, <3>1, <3>2, <3>3 DEF Archive!Quarters
    <3> QED
      BY <2>1, <3>1, <3>4, ArchiveShortSeq
  <2>3. ASSUME NEW p \in h_Syncs
        PROVE  h_sync[p] \in [at : {"stopped", "next", "fetched", "ingesting"},
                                    through : 0 .. Len(h_Served), refresh : BOOLEAN,
                                    members : Archive!Selections,
                                        archive : h_Archives \cup {Archive!NoArchive}]
    <3>1. h_sync[p] \in ArchiveSyncing /\ ArchiveInRange(p)
      BY <1>3 DEF ArchiveIInv
    <3>2. Len(h_sync[p].members) <= Len(h_Served)
      BY <2>1, <3>1 DEF ArchiveSyncing, ArchiveInRange
    <3>3. h_sync[p].members \in Archive!Selections
      BY <2>1, <3>1, <3>2, ArchiveShortSeq DEF ArchiveSyncing
    <3> QED
      BY <3>1, <3>3 DEF ArchiveSyncing
  <2> QED
    BY <1>3, <2>2, <2>3 DEF ArchiveIInv, Archive!TypeOK
<1> QED
  BY <1>1, <1>2, <1>3, PTL DEF Archive!Spec

(* Every archive a sync selects has been ingested as that quarter's release, and every    *)
(* sealed snapshot names, quarter by quarter without a gap, archives that were ingested   *)
(* for those quarters, whatever is republished, damaged or interrupted meanwhile, for any *)
(* number of syncs and quarters (sync_bulk_archives, create_snapshot).                    *)
THEOREM ArchiveSelected ==
    ASSUME Archive!HistoryAssumption PROVE Archive!Spec
               => [](Archive!SelectionIngested /\ Archive!SealedWhole)
<1>1. Archive!Init => ArchiveIInv
  BY ArchiveStarts
<1>2. ArchiveIInv /\ [Archive!Next]_Archive!vars => ArchiveIInv'
  BY ArchiveSteps
<1>3. ArchiveIInv => Archive!SelectionIngested /\ Archive!SealedWhole
  BY DEF ArchiveIInv
<1> QED
  BY <1>1, <1>2, <1>3, PTL DEF Archive!Spec

-----------------------------------------------------------------------------
(* The class of an owner's record (OwnerHistory). *)

(* A nonempty set of numbers has a least element. *)
LEMMA Smallest ==
    ASSUME NEW S \in SUBSET Nat, S # {}
    PROVE  \E m \in S : \A x \in S : m <= x
<1> DEFINE Initials == {0 .. x : x \in S}
<1>1. Initials \subseteq FiniteSubsetsOf(Nat) /\ Initials # {}
  <2>1. ASSUME NEW x \in S PROVE 0 .. x \in FiniteSubsetsOf(Nat)
    BY FS_Interval DEF FiniteSubsetsOf
  <2> QED
    BY <2>1
<1>2. PICK A \in Initials : \A B \in Initials : ~ (<<B, A>> \in StrictSubsetOrdering(Nat))
  <2>1. IsWellFoundedOn(StrictSubsetOrdering(Nat), FiniteSubsetsOf(Nat))
    BY FS_StrictSubsetOrderingWellFounded
  <2> HIDE DEF Initials
  <2> QED
    BY <1>1, <2>1, WFMin
<1>3. PICK m \in S : A = 0 .. m
  BY <1>2
<1>4. ASSUME NEW x \in S PROVE m <= x
  <2>1. ~ (<<0 .. x, 0 .. m>> \in StrictSubsetOrdering(Nat))
    BY <1>2, <1>3
  <2> SUFFICES ASSUME x < m PROVE FALSE
    OBVIOUS
  <2>2. 0 .. x \subseteq 0 .. m /\ 0 .. x # 0 .. m
    OBVIOUS
  <2> QED
    BY <2>1, <2>2 DEF StrictSubsetOrdering
<1> QED
  BY <1>3, <1>4

-----------------------------------------------------------------------------
(* The replay of the years, without recursion: the first year that shows the pattern *)
(* decides, and before it the first complete window.                                 *)
OwnerComplete(F, y) == Owner!Resolved(Owner!Before(F, y)) /\ Owner!CompleteWindow(F, y)

OwnerTold(F, y) ==
    IF \E t \in Owner!FirstPartitionable .. y : Owner!ShownBy(F, t) THEN "routine"
    ELSE IF \E t \in Owner!FirstPartitionable .. y : OwnerComplete(F, t) THEN "opportunistic"
    ELSE "unpartitionable"

OwnerTurn(F, g, y) ==
    IF y < Owner!FirstPartitionable THEN "unpartitionable" ELSE Owner!Evaluate(F, y, g[y - 1])

LEMMA OwnerTurnTold ==
    ASSUME NEW F, NEW g, NEW y \in Owner!Years, c_LastYear \in Nat,
           y >= Owner!FirstPartitionable => g[y - 1] = OwnerTold(F, y - 1)
    PROVE  OwnerTurn(F, g, y) = OwnerTold(F, y)
<1>1. y \in Nat /\ Owner!FirstPartitionable = 4
  BY DEF Owner!Years, Owner!FirstPartitionable
<1>2. CASE y < Owner!FirstPartitionable
  BY <1>1, <1>2 DEF OwnerTurn, OwnerTold
<1>3. CASE y >= Owner!FirstPartitionable
  <2>1. Owner!FirstPartitionable .. y = (Owner!FirstPartitionable .. y - 1) \cup {y}
    BY <1>1, <1>3
  <2>2. OwnerTurn(F, g, y) = Owner!Evaluate(F, y, OwnerTold(F, y - 1))
    BY <1>1, <1>3 DEF OwnerTurn
  <2>3. Owner!RoutinePattern(F, y) => Owner!CompleteWindow(F, y)
    BY DEF Owner!RoutinePattern
  <2> HIDE DEF Owner!FirstPartitionable
  <2> QED
    BY <2>1, <2>2, <2>3 DEF OwnerTold, Owner!Evaluate, Owner!ShownBy, OwnerComplete
<1> QED
  BY <1>1, <1>2, <1>3

LEMMA OwnerReplayTold ==
    ASSUME NEW F, c_LastYear \in Nat
    PROVE  \A y \in Owner!Years : Owner!Replay(F)[y] = OwnerTold(F, y)
<1> DEFINE IsReplay(g) == g = [y \in Owner!Years |-> OwnerTurn(F, g, y)]
<1>1. Owner!Replay(F) = CHOOSE g : IsReplay(g)
  BY DEF Owner!Replay, OwnerTurn
<1>2. \E g : IsReplay(g)
  <2> DEFINE told == [y \in Owner!Years |-> OwnerTold(F, y)]
  <2>1. \A y \in Owner!Years : OwnerTurn(F, told, y) = OwnerTold(F, y)
    <3> SUFFICES ASSUME NEW y \in Owner!Years  PROVE OwnerTurn(F, told, y) = OwnerTold(F, y)
      OBVIOUS
    <3>1. y >= Owner!FirstPartitionable => y - 1 \in Owner!Years
      BY DEF Owner!Years, Owner!FirstPartitionable
    <3>2. y >= Owner!FirstPartitionable => told[y - 1] = OwnerTold(F, y - 1)
      BY <3>1
    <3> HIDE DEF told
    <3> QED
      BY <3>2, OwnerTurnTold
  <2>2. IsReplay(told)
    BY <2>1
  <2> QED
    BY <2>2
<1>3. IsReplay(Owner!Replay(F))
  <2> HIDE DEF IsReplay
  <2> QED
    BY <1>1, <1>2
<1>4. \A y \in Owner!Years : Owner!Replay(F)[y] = OwnerTurn(F, Owner!Replay(F), y)
  BY <1>3
<1> DEFINE Wrong == {y \in Owner!Years : Owner!Replay(F)[y] # OwnerTold(F, y)}
<1>5. Wrong = {}
  <2> SUFFICES ASSUME Wrong # {}  PROVE FALSE
    OBVIOUS
  <2>1. Wrong \in SUBSET Nat
    BY DEF Owner!Years
  <2>2. PICK m \in Wrong : \A y \in Wrong : m <= y
    <3> HIDE DEF Wrong
    <3> QED
      BY <2>1, Smallest
  <2>3. m \in Owner!Years /\ m \in Nat
    BY DEF Owner!Years
  <2>4. m >= Owner!FirstPartitionable => Owner!Replay(F)[m - 1] = OwnerTold(F, m - 1)
    <3>1. m >= Owner!FirstPartitionable => m - 1 \in Owner!Years /\ ~ (m <= m - 1)
      BY <2>3 DEF Owner!Years, Owner!FirstPartitionable
    <3> QED
      BY <2>2, <3>1
  <2>5. OwnerTurn(F, Owner!Replay(F), m) = OwnerTold(F, m)
    BY <2>3, <2>4, OwnerTurnTold
  <2> QED
    BY <1>4, <2>3, <2>5
<1> QED
  BY <1>5

-----------------------------------------------------------------------------
(* A classification sees only what was filed before its year. *)
LEMMA OwnerCutoffsGrow ==
    ASSUME Owner!OwnerAssumption, NEW y \in Nat, NEW t \in Nat, t <= y
    PROVE  Owner!Cutoff(t) \in Nat /\ Owner!Cutoff(y) \in Nat
               /\ Owner!Cutoff(t) <= Owner!Cutoff(y)
<1>1. c_DaysPerYear \in Nat
  BY DEF Owner!OwnerAssumption
<1>2. PICK n \in Nat : y = t + n
  BY y - t \in Nat, y = t + (y - t)
<1>3. y * c_DaysPerYear = t * c_DaysPerYear + n * c_DaysPerYear
  BY <1>1, <1>2
<1>4. n * c_DaysPerYear \in Nat /\ t * c_DaysPerYear \in Nat /\ y * c_DaysPerYear \in Nat
  BY <1>1
<1> QED
  BY <1>3, <1>4 DEF Owner!Cutoff, Owner!DateIn

LEMMA OwnerSeenBefore ==
    ASSUME Owner!OwnerAssumption, NEW F \in SUBSET c_Pool, NEW y \in Nat, NEW t \in Nat, t <= y
    PROVE  Owner!Before(Owner!Before(F, y), t) = Owner!Before(F, t)
<1>1. \A f \in F : f.filed \in Nat
  BY DEF Owner!OwnerAssumption, Owner!Filings
<1>2. Owner!Cutoff(t) \in Nat /\ Owner!Cutoff(y) \in Nat /\ Owner!Cutoff(t) <= Owner!Cutoff(y)
  BY OwnerCutoffsGrow
<1> QED
  BY <1>1, <1>2 DEF Owner!Before

LEMMA OwnerClassifiedByVisible ==
    ASSUME NEW F, NEW G, NEW y, NEW c, NEW d,
           Owner!Before(F, y) = Owner!Before(G, y), ~ (c < y - 1), ~ (d < y - 1)
    PROVE  Owner!Classify(F, y, c) = Owner!Classify(G, y, d)
BY DEF Owner!Classify

(* What the classification of a year tells. *)
LEMMA OwnerClassifiedTold ==
    ASSUME Owner!OwnerAssumption, NEW F \in SUBSET c_Pool, NEW y \in Owner!Years, NEW c
    PROVE  /\ Owner!Classify(F, y, c) \in {"routine", "opportunistic", "unpartitionable"}
           /\ Owner!Classify(F, y, c) # "unpartitionable" =>
                ~ (c < y - 1)
           /\ Owner!Classify(F, y, c) # "unpartitionable" =>
                (Owner!Classify(F, y, c) = "routine"
                   <=> \E t \in Owner!FirstPartitionable .. y : Owner!ShownBy(F, t))
<1>1. y \in Nat /\ c_LastYear \in Nat
  BY DEF Owner!OwnerAssumption, Owner!Years
<1>2. Owner!Replay(Owner!Before(F, y))[y] = OwnerTold(Owner!Before(F, y), y)
  BY <1>1, OwnerReplayTold
<1>3. ASSUME NEW t \in Owner!FirstPartitionable .. y
      PROVE  Owner!ShownBy(Owner!Before(F, y), t) = Owner!ShownBy(F, t)
  <2>1. t \in Nat /\ t <= y
    BY <1>1 DEF Owner!FirstPartitionable
  <2>2. Owner!Before(Owner!Before(F, y), t) = Owner!Before(F, t)
    BY <1>1, <2>1, OwnerSeenBefore
  <2> QED
    BY <2>2 DEF Owner!ShownBy, Owner!RoutinePattern, Owner!CompleteWindow
<1>4. OwnerTold(Owner!Before(F, y), y) \in {"routine", "opportunistic", "unpartitionable"}
  BY DEF OwnerTold
<1>5. OwnerTold(Owner!Before(F, y), y) = "routine"
          <=> \E t \in Owner!FirstPartitionable .. y : Owner!ShownBy(F, t)
  BY <1>3 DEF OwnerTold
<1>6. Owner!Classify(F, y, c) = "unpartitionable"
        \/ (Owner!Classify(F, y, c) = OwnerTold(Owner!Before(F, y), y) /\ ~ (c < y - 1))
  BY <1>2 DEF Owner!Classify
<1> QED
  BY <1>4, <1>5, <1>6

-----------------------------------------------------------------------------
(* The inductive invariant. *)
OwnerDecided(state) == state \in {"routine", "opportunistic"}

(* A recorded class is still the one of what was public then. *)
OwnerLasting(c) ==
    /\ c \in [year : 1 .. c_year, covered : Owner!Years, state : Owner!States]
    /\ OwnerDecided(c.state) =>
         c.covered >= c.year - 1 /\ c.state = Owner!Classify(c_filings, c.year, c_LastYear)

OwnerIInv ==
    /\ c_year \in Owner!Years
    /\ c_filings \subseteq c_Pool
    /\ \A c \in c_captured : OwnerLasting(c)

LEMMA OwnerStarts == Owner!OwnerAssumption /\ Owner!Init => OwnerIInv
BY DEF Owner!OwnerAssumption, Owner!Init, OwnerIInv, Owner!Years

LEMMA OwnerFiling ==
    ASSUME Owner!OwnerAssumption, OwnerIInv, NEW f \in c_Pool, Owner!File(f)
    PROVE  OwnerIInv'
<1>1. ASSUME NEW y \in 1 .. c_year
      PROVE  Owner!Before(c_filings', y) = Owner!Before(c_filings, y)
  <2>1. y \in Nat /\ c_year \in Nat /\ y <= c_year
    BY DEF OwnerIInv, Owner!Years
  <2>2. Owner!Cutoff(y) \in Nat /\ Owner!Cutoff(c_year) \in Nat
            /\ Owner!Cutoff(y) <= Owner!Cutoff(c_year)
    BY <2>1, OwnerCutoffsGrow
  <2>3. f.filed \in Nat /\ f.filed >= Owner!Cutoff(c_year)
    <3>1. f.filed \in Nat
      BY DEF Owner!OwnerAssumption, Owner!Filings
    <3>2. f.filed \in Owner!Cutoff(c_year) .. Owner!Cutoff(c_year + 1) - 1
      BY DEF Owner!File
    <3>3. Owner!Cutoff(c_year + 1) \in Nat
      BY <2>1, OwnerCutoffsGrow
    <3> HIDE DEF Owner!Cutoff
    <3> QED
      BY <2>2, <3>1, <3>2, <3>3
  <2>4. ~ (f.filed < Owner!Cutoff(y))
    BY <2>2, <2>3
  <2>5. c_filings' = c_filings \cup {f}
    BY DEF Owner!File
  <2> QED
    BY <2>4, <2>5 DEF Owner!Before
<1>2. ASSUME NEW c \in c_captured  PROVE OwnerLasting(c)'
  <2>1. c_year' = c_year
    BY DEF Owner!File
  <2>2. OwnerLasting(c) /\ c.year \in 1 .. c_year
    BY DEF OwnerIInv, OwnerLasting
  <2>3. c.year \in Nat /\ ~ (c_LastYear < c.year - 1)
    BY <2>2 DEF OwnerIInv, Owner!Years, Owner!OwnerAssumption
  <2>4. Owner!Classify(c_filings', c.year, c_LastYear) = Owner!Classify(c_filings, c.year,
            c_LastYear)
    BY <1>1, <2>2, <2>3, OwnerClassifiedByVisible
  <2> QED
    BY <2>1, <2>2, <2>4 DEF OwnerLasting
<1> QED
  BY <1>2 DEF Owner!File, OwnerIInv

LEMMA OwnerCapturing ==
    ASSUME Owner!OwnerAssumption, OwnerIInv, NEW mapping, NEW covered \in 1 .. c_year,
               NEW verified \in BOOLEAN,
           Owner!CaptureHistory(mapping, covered, verified)
    PROVE  OwnerIInv'
<1> DEFINE state == IF mapping = "ambiguous" THEN "ambiguous_multi_owner"
                    ELSE IF mapping = "missing" \/ ~ verified
                        \/ c_year < Owner!FirstPartitionable
                      THEN "unpartitionable"
                    ELSE Owner!Classify(Owner!SnapshotRows(covered), c_year, covered)
<1>1. /\ c_captured' = c_captured \cup {[year |-> c_year, covered |-> covered, state |-> state]}
      /\ UNCHANGED <<c_year, c_filings>>
  BY DEF Owner!CaptureHistory
<1>2. c_year \in Nat /\ c_year <= c_LastYear /\ covered \in Nat /\ c_LastYear \in Nat
          /\ covered \in Owner!Years
  BY DEF OwnerIInv, Owner!Years, Owner!OwnerAssumption
<1>3. Owner!SnapshotRows(covered) \in SUBSET c_Pool
  BY DEF Owner!SnapshotRows, Owner!Before, OwnerIInv
<1>4. state \in Owner!States
  BY <1>3, OwnerClassifiedTold DEF Owner!States, OwnerIInv
<1>5. ASSUME OwnerDecided(state)
      PROVE  covered >= c_year - 1 /\ state = Owner!Classify(c_filings, c_year, c_LastYear)
  <2>1. state = Owner!Classify(Owner!SnapshotRows(covered), c_year, covered)
    BY <1>5 DEF OwnerDecided
  <2>2. ~ (covered < c_year - 1)
    BY <1>3, <1>5, <2>1, OwnerClassifiedTold DEF OwnerDecided, OwnerIInv
  <2>3. Owner!Before(Owner!SnapshotRows(covered), c_year) = Owner!Before(c_filings, c_year)
    <3>1. Owner!Cutoff(c_year) \in Nat /\ Owner!Cutoff(covered + 1) \in Nat
              /\ Owner!Cutoff(c_year) <= Owner!Cutoff(covered + 1)
      BY <1>2, <2>2, OwnerCutoffsGrow
    <3>2. \A f \in c_filings : f.filed \in Nat
      BY DEF OwnerIInv, Owner!OwnerAssumption, Owner!Filings
    <3> QED
      BY <3>1, <3>2 DEF Owner!SnapshotRows, Owner!Before
  <2>4. ~ (c_LastYear < c_year - 1)
    BY <1>2
  <2>5. Owner!Classify(Owner!SnapshotRows(covered), c_year,
            covered) = Owner!Classify(c_filings, c_year, c_LastYear)
    BY <2>2, <2>3, <2>4, OwnerClassifiedByVisible
  <2> QED
    BY <1>2, <2>1, <2>2, <2>5
<1> HIDE DEF state
<1>6. ASSUME NEW c, c = [year |-> c_year, covered |-> covered, state |-> state]
      PROVE  OwnerLasting(c)'
  <2>1. c.year = c_year /\ c.covered = covered /\ c.state = state
    BY <1>6
  <2>2. c_year \in 1 .. c_year
    BY <1>2 DEF OwnerIInv, Owner!Years
  <2>3. c \in [year : 1 .. c_year, covered : Owner!Years, state : Owner!States]
    BY <1>2, <1>4, <1>6, <2>2
  <2> QED
    BY <1>1, <1>5, <2>1, <2>3 DEF OwnerLasting
<1>7. ASSUME NEW c \in c_captured  PROVE OwnerLasting(c)'
  BY <1>1 DEF OwnerIInv, OwnerLasting
<1>8. \A c \in c_captured' : OwnerLasting(c)'
  BY <1>1, <1>6, <1>7
<1> QED
  BY <1>1, <1>8 DEF OwnerIInv

LEMMA OwnerSteps ==
    Owner!OwnerAssumption /\ OwnerIInv /\ [Owner!Next]_Owner!vars => OwnerIInv'
<1> SUFFICES ASSUME Owner!OwnerAssumption, OwnerIInv, [Owner!Next]_Owner!vars  PROVE OwnerIInv'
  OBVIOUS
<1>1. CASE Owner!NewYear
  <2>1. c_year' \in Owner!Years /\ 1 .. c_year \subseteq 1 .. c_year'
            /\ UNCHANGED <<c_filings, c_captured>>
    BY <1>1 DEF Owner!NewYear, OwnerIInv, Owner!Years, Owner!OwnerAssumption
  <2>2. ASSUME NEW c \in c_captured  PROVE OwnerLasting(c)'
    BY <2>1 DEF OwnerIInv, OwnerLasting
  <2> QED
    BY <2>1, <2>2 DEF OwnerIInv
<1>2. CASE UNCHANGED Owner!vars
  BY <1>2 DEF Owner!vars, OwnerIInv, OwnerLasting
<1> QED
  BY <1>1, <1>2, OwnerFiling, OwnerCapturing DEF Owner!Next

(* A captured class is the one the owner's filings support: a class is only claimed over  *)
(* the years the snapshot covers, the record as known later gives the same one, and       *)
(* "routine" is claimed exactly when some year up to the capture shows the pattern, for   *)
(* any filings and any number of years (owner_history.py, classify_owner).                *)
THEOREM OwnerClassified ==
    ASSUME Owner!OwnerAssumption PROVE Owner!Spec => [](Owner!TypeOK /\ Owner!ClassifiedOnce)
<1>1. Owner!Init => OwnerIInv
  BY OwnerStarts
<1>2. OwnerIInv /\ [Owner!Next]_Owner!vars => OwnerIInv'
  BY OwnerSteps
<1>3. ASSUME OwnerIInv  PROVE Owner!TypeOK /\ Owner!ClassifiedOnce
  <2>1. \A c \in c_captured : c.year \in Owner!Years /\ OwnerLasting(c)
    BY <1>3 DEF OwnerIInv, OwnerLasting, Owner!Years, Owner!OwnerAssumption
  <2>2. Owner!TypeOK
    BY <1>3, <2>1 DEF Owner!TypeOK, OwnerIInv, OwnerLasting
  <2>3. ASSUME NEW c \in c_captured, c.state \in {"routine", "opportunistic"}
        PROVE  /\ c.covered >= c.year - 1
               /\ c.state = Owner!Classify(c_filings, c.year, c_LastYear)
               /\ c.state = "routine" <=>
                    \E y \in Owner!FirstPartitionable .. c.year : Owner!ShownBy(c_filings, y)
    BY <1>3, <2>1, <2>3, OwnerClassifiedTold DEF OwnerIInv, OwnerLasting, OwnerDecided
  <2> QED
    BY <2>2, <2>3 DEF Owner!ClassifiedOnce
<1> QED
  BY <1>1, <1>2, <1>3, PTL DEF Owner!Spec

(* The two histories together, each running beside the other: what the archive seals and  *)
(* what the owner's class says stay true (owner_history.py).                              *)
THEOREM HistoriesAreTrue ==
    ASSUME Archive!HistoryAssumption, Owner!OwnerAssumption
    PROVE  Archive!Spec /\ Owner!Spec => []HistoryTrue
<1>1. Archive!Spec => [](Archive!SelectionIngested /\ Archive!SealedWhole)
  BY ArchiveSelected
<1>2. Owner!Spec => [](Owner!TypeOK /\ Owner!ClassifiedOnce)
  BY OwnerClassified
<1> QED
  BY <1>1, <1>2, PTL DEF HistoryTrue

-----------------------------------------------------------------------------
(* The bars of the feed (BarFeed). *)

(* A bounded set of days has a last one. *)
LEMMA BarsLargest ==
    ASSUME NEW S, S \subseteq Nat \cup {-1}, S # {}, NEW n \in Nat, \A x \in S : x <= n
    PROVE  /\ Bars!Max(S) \in S
           /\ \A x \in S : x <= Bars!Max(S)
<1> DEFINE D == {n - x : x \in S}
<1>1. D \in SUBSET Nat /\ D # {}
  <2>1. ASSUME NEW x \in S PROVE n - x \in Nat
    <3>1. x \in Int /\ x <= n
      OBVIOUS
    <3> QED
      BY <3>1
  <2> QED
    BY <2>1
<1>2. PICK m \in D : \A x \in D : m <= x
  <2> HIDE DEF D
  <2> QED
    BY <1>1, Smallest
<1>3. PICK y \in S : m = n - y
  BY <1>2
<1>4. ASSUME NEW x \in S PROVE x <= y
  <2>1. m <= n - x
    BY <1>2
  <2> QED
    BY <1>3, <2>1
<1>5. \A x \in S : y >= x
  BY <1>4
<1>6. /\ Bars!Max(S) \in S
      /\ \A x \in S : Bars!Max(S) >= x
  BY <1>5 DEF Bars!Max
<1> QED
  BY <1>6

LEMMA BarsLeast ==
    ASSUME NEW S \in SUBSET Nat, S # {}
    PROVE  Bars!Min(S) \in S
<1>1. PICK m \in S : \A x \in S : m <= x
  BY Smallest
<1> QED
  BY <1>1 DEF Bars!Min

(* The feed's IsFiniteSet and Cardinality are the ones the library's facts are about. *)
LEMMA BarsCounting ==
    /\ \A S : Bars!IsFiniteSet(S) <=> IsFiniteSet(S)
    /\ \A S : Bars!Cardinality(S) = Cardinality(S)
BY DEF Bars!IsFiniteSet, IsFiniteSet, Bars!Cardinality, Cardinality

(* Finitely many requests end before some day. *)
LEMMA BarsBounded ==
    ASSUME NEW W, IsFiniteSet(W), \A q \in W : q.through \in Nat
    PROVE  \E n \in Nat : \A q \in W : q.through <= n
<1> DEFINE Beyond == {V \in FiniteSubsetsOf(W) : \A n \in Nat : \E q \in V : ~ (q.through <= n)}
<1> SUFFICES ASSUME W \in Beyond PROVE FALSE
  BY DEF FiniteSubsetsOf
<1>1. PICK A \in Beyond : \A B \in Beyond : ~ (<<B, A>> \in StrictSubsetOrdering(W))
  <2>1. IsWellFoundedOn(StrictSubsetOrdering(W), FiniteSubsetsOf(W))
    BY FS_StrictSubsetOrderingWellFounded
  <2>2. Beyond \subseteq FiniteSubsetsOf(W)
    OBVIOUS
  <2> HIDE DEF Beyond
  <2> QED
    BY <2>1, <2>2, WFMin
<1>2. A \subseteq W /\ IsFiniteSet(A)
  BY DEF FiniteSubsetsOf
<1>3. PICK p \in A : ~ (p.through <= 0)
  OBVIOUS
<1>4. A \ {p} \notin Beyond
  BY <1>1, <1>2, <1>3 DEF StrictSubsetOrdering
<1>5. A \ {p} \in FiniteSubsetsOf(W)
  BY <1>2, FS_RemoveElement DEF FiniteSubsetsOf
<1>6. PICK n \in Nat : \A q \in A \ {p} : q.through <= n
  BY <1>4, <1>5
<1>7. p.through \in Nat
  BY <1>2
<1>8. PICK k \in Nat : n <= k /\ p.through <= k
  <2>1. n + p.through \in Nat /\ n <= n + p.through /\ p.through <= n + p.through
    BY <1>7
  <2> QED
    BY <2>1
<1>9. ASSUME NEW q \in A PROVE q.through <= k
  BY <1>6, <1>8, <1>9, <1>2
<1> QED
  BY <1>8, <1>9

LEMMA BarsDays ==
    ASSUME Bars!BarAssumption
    PROVE  /\ Bars!LastDay \in Nat \ {0}
           /\ \A q \in b_Wanted : q.symbol \in b_Symbols /\ q.start \in Nat
                                /\ q.through \in Nat /\ q.through < Bars!LastDay
<1>1. \A q \in b_Wanted : q.symbol \in b_Symbols /\ q.start \in Nat /\ q.through \in Nat
  BY DEF Bars!BarAssumption
<1>2. PICK n \in Nat : \A q \in b_Wanted : q.through <= n
  BY <1>1, BarsBounded, BarsCounting DEF Bars!BarAssumption
<1> DEFINE Ends == {q.through : q \in b_Wanted}
<1>3. Ends \subseteq Nat \cup {-1} /\ Ends # {} /\ \A x \in Ends : x <= n
  BY <1>1, <1>2 DEF Bars!BarAssumption
<1>4. /\ Bars!Max(Ends) \in Ends
      /\ \A x \in Ends : x <= Bars!Max(Ends)
  <2> HIDE DEF Ends
  <2> QED
    BY <1>3, BarsLargest
<1>5. Bars!Max(Ends) \in Nat
  BY <1>1, <1>4
<1>6. Bars!LastDay = Bars!Max(Ends) + 1
  BY DEF Bars!LastDay
<1>7. ASSUME NEW q \in b_Wanted PROVE q.through <= Bars!Max(Ends)
  BY <1>4
<1> HIDE DEF Ends
<1> QED
  BY <1>1, <1>5, <1>6, <1>7

-----------------------------------------------------------------------------
BarsCollecting == [at : {"fetch"}, now : 0 .. 2 * Bars!LastDay + 1, today : BOOLEAN,
               asked : SUBSET b_Wanted, completed : Nat \cup {-1}, todo : SUBSET b_Symbols]
BarsStoring == [at : {"append", "receipt"}, now : 0 .. 2 * Bars!LastDay + 1, today : BOOLEAN,
            asked : SUBSET b_Wanted, completed : Nat \cup {-1}, todo : SUBSET b_Symbols,
            bars : SUBSET (0 .. Bars!LastDay), clean : BOOLEAN, final : SUBSET Nat]

BarsTypes ==
    /\ b_clock \in 0 .. 2 * Bars!LastDay + 1
    /\ b_sessions \in {{}, Bars!Sessions}
    /\ b_requests \subseteq b_Wanted
    /\ b_observed \in Seq([symbol : b_Symbols, day : Nat, final : BOOLEAN])
    /\ b_turn \in [b_Symbols -> Nat]
    /\ b_run \in BarsCollecting \cup BarsStoring \cup {Bars!Idle}
    /\ \A r \in b_receipts : r.watermark \in 0 .. Len(b_observed)

(* What a run has taken at its begin is not ahead of the clock, and each symbol it works  *)
(* for has a request.                                                                      *)
BarsRunKeeps ==
    ~Bars!At("idle") =>
      /\ b_run.now <= b_clock \/ b_clock >= 2 * Bars!LastDay
      /\ b_run.completed = Bars!NoDay \/ 2 * b_run.completed + 1 <= b_run.now
      /\ b_run.todo # {}
      /\ \A s \in b_run.todo : \E q \in b_run.asked : q.symbol = s

BarsAnswered == Bars!At("append") => \A d \in b_run.bars : Bars!Finished(d) => d \in b_run.final
BarsStored == Bars!At("receipt") => \A d \in b_run.bars : Bars!Finished(d)
    => Bars!Observed(Bars!Current, d)

BarsIInv == BarsTypes /\ BarsRunKeeps /\ BarsAnswered /\ BarsStored /\ Bars!CompleteOnly
    /\ Bars!ReceiptProves

LEMMA BarsRunShape ==
    ASSUME BarsTypes, ~Bars!At("idle")
    PROVE  /\ b_run \in BarsCollecting \cup BarsStoring
           /\ b_run.now \in 0 .. 2 * Bars!LastDay + 1 /\ b_run.asked \subseteq b_Wanted
           /\ b_run.completed \in Nat \cup {-1} /\ b_run.todo \subseteq b_Symbols
           /\ b_run.at \in {"append", "receipt"} => b_run \in BarsStoring
           /\ b_run.at = "fetch" => b_run \in BarsCollecting
BY DEF BarsTypes, BarsCollecting, BarsStoring, Bars!Idle, Bars!At

LEMMA BarsCurrentTodo ==
    ASSUME Bars!BarAssumption, BarsTypes, BarsRunKeeps, ~Bars!At("idle")
    PROVE  Bars!Current \in b_run.todo
<1>1. b_run.todo \subseteq b_Symbols /\ b_run.todo # {} /\ b_Symbols \subseteq Nat
  BY BarsRunShape DEF BarsRunKeeps, Bars!BarAssumption
<1>2. b_turn \in [b_Symbols -> Nat]
  BY DEF BarsTypes
<1> DEFINE Turns == {b_turn[s] : s \in b_run.todo}
<1>3. PICK m \in Turns : \A x \in Turns : m <= x
  <2>1. Turns \in SUBSET Nat /\ Turns # {}
    BY <1>1, <1>2
  <2> HIDE DEF Turns
  <2> QED
    BY <2>1, Smallest
<1> DEFINE Firsts == {s \in b_run.todo : b_turn[s] = m}
<1>4. PICK f \in Firsts : \A x \in Firsts : f <= x
  <2>1. Firsts \in SUBSET Nat /\ Firsts # {}
    BY <1>1, <1>3
  <2> HIDE DEF Firsts
  <2> QED
    BY <2>1, Smallest
<1>5. ASSUME NEW t \in b_run.todo \ {f} PROVE Bars!Before(f, t)
  <2>1. m <= b_turn[t] /\ b_turn[f] = m /\ b_turn[t] \in Nat /\ m \in Nat
    BY <1>1, <1>2, <1>3
  <2>2. b_turn[t] = m => f <= t /\ f # t /\ f \in Nat /\ t \in Nat
    BY <1>1, <1>4
  <2> QED
    BY <2>1, <2>2 DEF Bars!Before
<1> QED
  BY <1>4, <1>5 DEF Bars!Current

LEMMA BarsSpan ==
    ASSUME Bars!BarAssumption, BarsTypes, BarsRunKeeps, ~Bars!At("idle")
    PROVE  /\ Bars!Current \in b_Symbols
           /\ Bars!Start(Bars!Current, b_run.asked) \in Nat
           /\ Bars!Through(Bars!Current, b_run.asked) \in Nat
           /\ Bars!Through(Bars!Current, b_run.asked) < Bars!LastDay
<1> DEFINE Q == {p \in b_run.asked : p.symbol = Bars!Current}
           Starts == {q.start : q \in Q}
           Ends == {q.through : q \in Q}
<1>1. Q # {} /\ Q \subseteq b_Wanted /\ Bars!Current \in b_Symbols
  BY BarsCurrentTodo, BarsRunShape DEF BarsRunKeeps
<1>2. Bars!Min(Starts) \in Nat
  <2>1. Starts \in SUBSET Nat /\ Starts # {}
    BY <1>1, BarsDays
  <2> HIDE DEF Starts
  <2> QED
    BY <2>1, BarsLeast
<1>3. Bars!Max(Ends) \in Ends
  <2>1. Ends \subseteq Nat \cup {-1} /\ Ends # {} /\ Bars!LastDay \in Nat
            /\ \A x \in Ends : x <= Bars!LastDay
    BY <1>1, BarsDays
  <2> HIDE DEF Ends
  <2> QED
    BY <2>1, BarsLargest
<1>4. Bars!Max(Ends) \in Nat /\ Bars!Max(Ends) < Bars!LastDay
  BY <1>1, <1>3, BarsDays
<1> QED
  BY <1>1, <1>2, <1>4 DEF Bars!Start, Bars!Through

LEMMA BarsSameCurrent ==
    ASSUME b_run'.todo = b_run.todo, b_turn' = b_turn
    PROVE  Bars!Current' = Bars!Current
BY DEF Bars!Current, Bars!Before

LEMMA BarsBegins ==
    ASSUME Bars!BarAssumption, BarsTypes, b_sessions \in {{}, Bars!Sessions}
    PROVE  /\ Bars!CompletedThrough(b_clock) \in Nat \cup {-1}
           /\ Bars!CompletedThrough(b_clock) = Bars!NoDay
                  \/ 2 * Bars!CompletedThrough(b_clock) + 1 <= b_clock
<1> DEFINE S == {d \in b_sessions : Bars!Closed(d, b_clock)} \cup {Bars!NoDay}
<1>1. S \subseteq Nat \cup {-1} /\ S # {} /\ Bars!LastDay \in Nat
          /\ \A x \in S : x <= Bars!LastDay
  BY BarsDays DEF BarsTypes, Bars!Sessions, Bars!NoDay
<1>2. Bars!Max(S) \in S
  <2> HIDE DEF S
  <2> QED
    BY <1>1, BarsLargest
<1> QED
  BY <1>1, <1>2 DEF Bars!CompletedThrough, Bars!Closed, Bars!NoDay, BarsTypes

-----------------------------------------------------------------------------
LEMMA BarsInitIInv == ASSUME Bars!BarAssumption, Bars!Init PROVE BarsIInv
BY BarsDays DEF Bars!Init, BarsIInv, BarsTypes, BarsRunKeeps, BarsAnswered, BarsStored,
   Bars!CompleteOnly, Bars!ReceiptProves, Bars!At, Bars!Idle

(* What stands in observed and in the receipts, when neither changes. *)
LEMMA BarsRecordsKept ==
    ASSUME BarsIInv, UNCHANGED <<b_observed, b_receipts>>
    PROVE  /\ Bars!CompleteOnly' /\ Bars!ReceiptProves'
           /\ b_observed' \in Seq([symbol : b_Symbols, day : Nat, final : BOOLEAN])
           /\ \A r \in b_receipts' : r.watermark \in 0 .. Len(b_observed')
BY DEF BarsIInv, BarsTypes, Bars!CompleteOnly, Bars!ReceiptProves

(* A run that goes on to its next symbol, or ends. *)
LEMMA BarsNexts ==
    ASSUME Bars!BarAssumption, BarsIInv, ~Bars!At("idle"), Bars!NextSymbol, UNCHANGED b_clock
    PROVE  /\ b_run' \in BarsCollecting \cup BarsStoring \cup {Bars!Idle}
           /\ BarsRunKeeps' /\ BarsAnswered' /\ BarsStored'
<1>1. /\ b_run.now \in 0 .. 2 * Bars!LastDay + 1 /\ b_run.asked \subseteq b_Wanted
      /\ b_run.completed \in Nat \cup {-1} /\ b_run.todo \subseteq b_Symbols
             /\ b_run.today \in BOOLEAN
  BY BarsRunShape DEF BarsIInv, BarsCollecting, BarsStoring
<1>2. CASE b_run' = Bars!Idle
  BY <1>2 DEF BarsRunKeeps, BarsAnswered, BarsStored, Bars!At, Bars!Idle
<1>3. CASE b_run' # Bars!Idle
  <2>1. /\ b_run' = [at |-> "fetch", now |-> b_run.now, today |-> b_run.today,
               asked |-> b_run.asked,
                   completed |-> b_run.completed, todo |-> b_run.todo \ {Bars!Current}]
        /\ b_run.todo # {Bars!Current}
    BY <1>3 DEF Bars!NextSymbol
  <2>2. b_run' \in BarsCollecting
    BY <1>1, <2>1 DEF BarsCollecting
  <2>3. b_run.todo \ {Bars!Current} # {}
    BY <2>1, BarsCurrentTodo DEF BarsIInv
  <2> QED
    BY <1>1, <2>1, <2>2, <2>3 DEF BarsIInv, BarsRunKeeps, BarsAnswered, BarsStored, Bars!At
<1> QED
  BY <1>2, <1>3

LEMMA BarsStepBegin == ASSUME Bars!BarAssumption, BarsIInv, Bars!Begin PROVE BarsIInv'
<1>1. PICK first \in SUBSET {s \in b_Symbols : Bars!Due(s, Bars!CompletedThrough(b_clock))} :
        /\ first # {}
        /\ b_run' = [at |-> "fetch", now |-> b_clock, today |-> TRUE, asked |-> Bars!Unresolved,
                   completed |-> Bars!CompletedThrough(b_clock), todo |-> first]
  BY DEF Bars!Begin
<1>2. Bars!Unresolved \subseteq b_Wanted
  BY DEF Bars!Unresolved, BarsIInv, BarsTypes
<1>3. b_turn' \in [b_Symbols -> Nat]
  <2>1. ASSUME NEW s \in b_Symbols
        PROVE  Cardinality({b_turn[t] : t \in b_Symbols} \cap 1 .. b_turn[s]) \in Nat
    <3>1. IsFiniteSet(1 .. b_turn[s])
      BY FS_Interval DEF BarsIInv, BarsTypes
    <3> QED
      BY <3>1, FS_Subset, FS_CardinalityType
  <2> QED
    BY <2>1, BarsCounting DEF Bars!Begin
<1>4. /\ Bars!CompletedThrough(b_clock) \in Nat \cup {-1}
      /\ Bars!CompletedThrough(b_clock) = Bars!NoDay
             \/ 2 * Bars!CompletedThrough(b_clock) + 1 <= b_clock
  BY BarsBegins DEF BarsIInv, BarsTypes
<1>5. b_run' \in BarsCollecting
  BY <1>1, <1>2, <1>4 DEF BarsCollecting, BarsIInv, BarsTypes
<1>6. BarsRunKeeps'
  BY <1>1, <1>4 DEF BarsRunKeeps, Bars!Due, Bars!At, Bars!Begin, BarsIInv, BarsTypes
<1>7. BarsAnswered' /\ BarsStored'
  BY <1>1 DEF BarsAnswered, BarsStored, Bars!At
<1> QED
  BY <1>3, <1>5, <1>6, <1>7, BarsRecordsKept DEF BarsIInv, BarsTypes, Bars!Begin, Bars!store

LEMMA BarsStepFetch == ASSUME Bars!BarAssumption, BarsIInv, Bars!Fetch PROVE BarsIInv'
<1> DEFINE days == {d \in Bars!Start(Bars!Current,
               b_run.asked) .. Bars!Through(Bars!Current, b_run.asked) :
                      d <= Bars!Date(b_clock)}
<1>1. PICK B \in SUBSET days, clean \in BOOLEAN :
        b_run' = [at |-> "append", now |-> b_run.now, today |-> b_run.today,
                asked |-> b_run.asked, completed |-> b_run.completed, todo |-> b_run.todo,
                bars |-> B, clean |-> clean,
                final |-> {d \in B : Bars!Closed(d, b_clock)}]
  BY DEF Bars!Fetch
<1>2. b_run \in BarsCollecting
  BY BarsRunShape DEF Bars!Fetch, Bars!At, BarsIInv
<1>3. /\ Bars!Start(Bars!Current, b_run.asked) \in Nat
      /\ Bars!Through(Bars!Current, b_run.asked) \in Nat
      /\ Bars!Through(Bars!Current, b_run.asked) < Bars!LastDay
  BY BarsSpan DEF Bars!Fetch, Bars!At, BarsIInv
<1>4. \A d \in B : d \in 0 .. Bars!LastDay /\ d < Bars!LastDay
  BY <1>3, BarsDays
<1>5. b_run' \in BarsStoring
  <2> DEFINE final == {d \in B : Bars!Closed(d, b_clock)}
  <2> HIDE DEF days
  <2>1. B \in SUBSET (0 .. Bars!LastDay)
    BY <1>4
  <2>2. final \in SUBSET Nat
    BY <1>4
  <2> HIDE DEF final
  <2> QED
    BY <1>1, <1>2, <2>1, <2>2 DEF BarsStoring, BarsCollecting, final
<1>6. BarsRunKeeps'
  BY <1>1 DEF BarsRunKeeps, Bars!Fetch, Bars!At, BarsIInv
<1>7. BarsAnswered'
  <2>1. ASSUME NEW d \in B, d < Bars!Date(b_run.now) \/ d <= b_run.completed
        PROVE  Bars!Closed(d, b_clock)
    <3>1. /\ b_run.now \in Nat /\ b_clock \in Nat /\ Bars!LastDay \in Nat /\ d \in Nat
                 /\ d < Bars!LastDay
          /\ b_run.now <= 2 * Bars!LastDay + 1 /\ b_run.completed \in Nat \cup {-1}
      BY <1>2, <1>4, BarsDays DEF BarsCollecting, BarsIInv, BarsTypes
    <3>2. /\ b_run.now <= b_clock \/ b_clock >= 2 * Bars!LastDay
          /\ b_run.completed = -1 \/ 2 * b_run.completed + 1 <= b_run.now
      BY DEF BarsIInv, BarsRunKeeps, Bars!Fetch, Bars!At, Bars!NoDay
    <3>3. CASE b_clock >= 2 * Bars!LastDay
      BY <3>1, <3>3 DEF Bars!Closed
    <3>4. CASE b_run.now <= b_clock
      <4>1. CASE d < Bars!Date(b_run.now)
        BY <3>1, <3>4, <4>1 DEF Bars!Closed, Bars!Date
      <4>2. CASE d <= b_run.completed
        BY <3>1, <3>2, <3>4, <4>2 DEF Bars!Closed
      <4> QED
        BY <2>1, <4>1, <4>2
    <3> QED
      BY <3>2, <3>3, <3>4
  <2> QED
    BY <1>1, <2>1 DEF BarsAnswered, Bars!Finished
<1>8. BarsStored'
  BY <1>1 DEF BarsStored, Bars!At
<1> QED
  BY <1>5, <1>6, <1>7, <1>8, BarsRecordsKept DEF BarsIInv, BarsTypes, Bars!Fetch, Bars!store

LEMMA BarsTops == ASSUME Bars!BarAssumption PROVE Bars!Top \in Nat
<1>1. IsFiniteSet(b_Symbols)
  BY BarsCounting DEF Bars!BarAssumption
<1>2. Cardinality(b_Symbols) \in Nat
  BY <1>1, FS_CardinalityType
<1> QED
  BY <1>2, BarsCounting DEF Bars!Top

LEMMA BarsStepFetchFails ==
    ASSUME Bars!BarAssumption, BarsIInv, Bars!FetchFails
    PROVE  BarsIInv'
<1>1. b_turn' \in [b_Symbols -> Nat]
  BY BarsTops DEF Bars!FetchFails, Bars!Failed, BarsIInv, BarsTypes
<1>2. ~Bars!At("idle") /\ UNCHANGED b_clock
  BY DEF Bars!FetchFails, Bars!At
<1> QED
  BY <1>1, <1>2, BarsNexts, BarsRecordsKept DEF BarsIInv, BarsTypes, Bars!FetchFails,
     Bars!store

(* What concatenation leaves where. *)
LEMMA BarsConcat ==
    ASSUME NEW S, NEW a \in Seq(S), NEW b \in Seq(S)
    PROVE  /\ a \o b \in Seq(S) /\ Len(a \o b) = Len(a) + Len(b) /\ Len(a) \in Nat
           /\ \A i \in 1 .. Len(a) : (a \o b)[i] = a[i]
           /\ \A i \in 1 .. Len(b) : (a \o b)[Len(a) + i] = b[i]
           /\ \A i \in 1 .. Len(a \o b) : i > Len(a) => (a \o b)[i] = b[i - Len(a)]
<1>1. a \o b \in Seq(S) /\ Len(a \o b) = Len(a) + Len(b) /\ Len(a) \in Nat /\ Len(b) \in Nat
  OBVIOUS
<1>2. \A i \in 1 .. Len(a) : (a \o b)[i] = a[i]
  OBVIOUS
<1>3. ASSUME NEW i \in 1 .. Len(a \o b), i > Len(a) PROVE (a \o b)[i] = b[i - Len(a)]
  BY <1>1, <1>3
<1>4. ASSUME NEW i \in 1 .. Len(b) PROVE (a \o b)[Len(a) + i] = b[i]
  BY <1>1
<1> QED
  BY <1>1, <1>2, <1>3, <1>4

LEMMA BarsStepAppend ==
    ASSUME Bars!BarAssumption, BarsIInv, Bars!AppendBars
    PROVE  BarsIInv'
<1> DEFINE bar(d) == [symbol |-> Bars!Current, day |-> d, final |-> d \in b_run.final]
           new == {d \in b_run.bars : Bars!Finished(d) /\ bar(d) \notin Bars!Range(b_observed)}
           n == Cardinality(new)
           Bar == [symbol : b_Symbols, day : Nat, final : BOOLEAN]
<1>1. PICK dates \in Bars!InOrder(new) :
        b_observed' = b_observed \o [i \in 1 .. n |-> bar(dates[i])]
  BY BarsCounting DEF Bars!AppendBars
<1>2. b_run \in BarsStoring /\ b_run.at = "append"
  BY BarsRunShape DEF Bars!AppendBars, Bars!At, BarsIInv
<1>3. Bars!Current \in b_Symbols
  BY BarsSpan, <1>2 DEF BarsIInv, Bars!At
<1>4. n \in Nat
  <2>1. IsFiniteSet(0 .. Bars!LastDay) /\ new \subseteq 0 .. Bars!LastDay
    BY <1>2, BarsDays, FS_Interval DEF BarsStoring
  <2>2. IsFiniteSet(new)
    BY <2>1, FS_Subset
  <2> HIDE DEF new
  <2> QED
    BY <2>2, FS_CardinalityType
<1>5. /\ dates \in [1 .. n -> new]
      /\ new = {dates[i] : i \in 1 .. n}
  BY <1>1, <1>4, BarsCounting DEF Bars!InOrder, Bars!Range
<1>6. \A d \in new : bar(d) \in Bar /\ d \in b_run.bars /\ d \in b_run.final /\ Bars!Finished(d)
  BY <1>2, <1>3, BarsDays DEF BarsStoring, BarsIInv, BarsAnswered, Bars!At
<1> HIDE DEF new, n
<1> DEFINE added == [i \in 1 .. n |-> bar(dates[i])]
<1>7. added \in Seq(Bar) /\ Len(added) = n /\ b_observed \in Seq(Bar)
  <2>1. added \in [1 .. n -> Bar]
    BY <1>5, <1>6
  <2> HIDE DEF added, Bar
  <2>2. added \in Seq(Bar) /\ Len(added) = n
    BY <1>4, <2>1
  <2> QED
    BY <2>2 DEF Bar, BarsIInv, BarsTypes
<1>8. /\ b_observed' \in Seq(Bar) /\ Len(b_observed') = Len(b_observed) + n
      /\ Len(b_observed) \in Nat
      /\ \A i \in 1 .. Len(b_observed) : b_observed'[i] = b_observed[i]
      /\ \A i \in 1 .. n : b_observed'[Len(b_observed) + i] = added[i]
      /\ \A i \in 1 .. Len(b_observed') : i > Len(b_observed)
             => b_observed'[i] = added[i - Len(b_observed)]
  <2> HIDE DEF added, Bar
  <2>1. b_observed' = b_observed \o added
    BY <1>1 DEF added
  <2>2. PICK joined : joined = b_observed'
    OBVIOUS
  <2>3. joined = b_observed \o added
    BY <2>1, <2>2
  <2>4. PICK m : m = n
    OBVIOUS
  <2>5. added \in Seq(Bar) /\ Len(added) = m /\ b_observed \in Seq(Bar)
    BY <1>7, <2>4
  <2>6. /\ joined \in Seq(Bar) /\ Len(joined) = Len(b_observed) + m
        /\ Len(b_observed) \in Nat
        /\ \A i \in 1 .. Len(b_observed) : joined[i] = b_observed[i]
        /\ \A i \in 1 .. m : joined[Len(b_observed) + i] = added[i]
        /\ \A i \in 1 .. Len(joined) : i > Len(b_observed)
               => joined[i] = added[i - Len(b_observed)]
    BY <2>3, <2>5, BarsConcat
  <2> QED
    BY <2>2, <2>4, <2>6
<1>9. UNCHANGED <<b_clock, b_sessions, b_requests, b_receipts, b_turn>>
      /\ b_run' = [b_run EXCEPT !.at = "receipt"]
  BY DEF Bars!AppendBars
<1>10. b_run' \in BarsStoring /\ b_run'.at = "receipt"
  BY <1>2, <1>9 DEF BarsStoring
<1>11. /\ b_run'.bars = b_run.bars /\ b_run'.now = b_run.now
              /\ b_run'.completed = b_run.completed
       /\ b_run'.todo = b_run.todo /\ b_run'.asked = b_run.asked
  BY <1>2, <1>9 DEF BarsStoring
<1>12. BarsRunKeeps' /\ BarsAnswered'
  BY <1>2, <1>9, <1>10, <1>11 DEF BarsIInv, BarsRunKeeps, BarsAnswered, Bars!At
<1>13. BarsStored'
  <2>1. Bars!Current' = Bars!Current
    BY <1>9, <1>11, BarsSameCurrent
  <2>2. ASSUME NEW d \in b_run.bars, Bars!Finished(d)
        PROVE  \E i \in DOMAIN b_observed' : b_observed'[i].symbol = Bars!Current
                   /\ b_observed'[i].day = d
    <3>1. CASE d \in new
      <4>1. PICK i \in 1 .. n : dates[i] = d
        BY <1>5, <3>1
      <4>2. b_observed'[Len(b_observed) + i] = bar(d)
        BY <1>8, <4>1
      <4>3. Len(b_observed) + i \in DOMAIN b_observed'
        BY <1>4, <1>8
      <4> QED
        BY <4>2, <4>3
    <3>2. CASE d \notin new
      <4>1. bar(d) \in Bars!Range(b_observed)
        BY <2>2, <3>2 DEF new
      <4>2. PICK i \in DOMAIN b_observed : b_observed[i] = bar(d)
        BY <4>1 DEF Bars!Range
      <4>3. i \in 1 .. Len(b_observed) /\ i \in DOMAIN b_observed'
        BY <1>4, <1>7, <1>8
      <4> QED
        BY <1>8, <4>2, <4>3
    <3> QED
      BY <3>1, <3>2
  <2>3. \A d : Bars!Finished(d)' <=> Bars!Finished(d)
    BY <1>11 DEF Bars!Finished
  <2> QED
    BY <1>11, <2>1, <2>2, <2>3 DEF BarsStored, Bars!Observed
<1>14. Bars!CompleteOnly'
  <2>1. ASSUME NEW i \in DOMAIN b_observed' PROVE b_observed'[i].final
    <3>1. i \in 1 .. Len(b_observed')
      BY <1>8
    <3>2. CASE i <= Len(b_observed)
      <4>1. i \in DOMAIN b_observed /\ b_observed'[i] = b_observed[i]
        BY <1>7, <1>8, <3>1, <3>2
      <4> QED
        BY <4>1 DEF BarsIInv, Bars!CompleteOnly
    <3>3. CASE i > Len(b_observed)
      <4>1. i - Len(b_observed) \in 1 .. n
        BY <1>4, <1>8, <3>1, <3>3
      <4>2. b_observed'[i] = bar(dates[i - Len(b_observed)])
                /\ dates[i - Len(b_observed)] \in new
        BY <1>5, <1>8, <3>1, <3>3, <4>1
      <4> QED
        BY <1>6, <4>2
    <3> QED
      BY <1>8, <3>1, <3>2, <3>3
  <2> QED
    BY <2>1 DEF Bars!CompleteOnly
<1>15. Bars!ReceiptProves'
  <2>1. ASSUME NEW r \in b_receipts, NEW d \in r.counted
        PROVE  \E i \in 1 .. r.watermark : b_observed'[i].symbol = r.symbol
                   /\ b_observed'[i].day = d
    <3>1. PICK i \in 1 .. r.watermark : b_observed[i].symbol = r.symbol /\ b_observed[i].day = d
      BY DEF BarsIInv, Bars!ReceiptProves
    <3>2. r.watermark \in 0 .. Len(b_observed)
      BY DEF BarsIInv, BarsTypes
    <3>3. b_observed'[i] = b_observed[i]
      BY <1>8, <3>1, <3>2
    <3> QED
      BY <3>1, <3>3
  <2> QED
    BY <1>9, <2>1 DEF Bars!ReceiptProves
<1>16. \A r \in b_receipts' : r.watermark \in 0 .. Len(b_observed')
  BY <1>4, <1>8, <1>9 DEF BarsIInv, BarsTypes
<1> QED
  BY <1>8, <1>9, <1>10, <1>12, <1>13, <1>14, <1>15, <1>16 DEF BarsIInv, BarsTypes

LEMMA BarsStepReceipt ==
    ASSUME Bars!BarAssumption, BarsIInv, Bars!Receipt
    PROVE  BarsIInv'
<1> DEFINE new == [symbol |-> Bars!Current, start |-> Bars!Start(Bars!Current, b_run.asked),
                   through |-> Bars!Through(Bars!Current, b_run.asked),
                       completed |-> b_run.completed,
                   counted |-> {d \in b_run.bars : Bars!Finished(d)}, clean |-> b_run.clean,
                   watermark |-> Len(b_observed)]
<1>1. b_receipts' = b_receipts \cup {new} /\ UNCHANGED <<b_clock, b_sessions, b_requests,
                                                         b_observed>>
  BY DEF Bars!Receipt
<1>2. b_turn' \in [b_Symbols -> Nat]
  BY BarsTops DEF Bars!Receipt, Bars!Tried, BarsIInv, BarsTypes
<1>3. ~Bars!At("idle") /\ Bars!NextSymbol
  BY DEF Bars!Receipt, Bars!At
<1>4. \A d \in new.counted : \E i \in 1 .. new.watermark :
        b_observed[i].symbol = new.symbol /\ b_observed[i].day = d
  <2>1. ASSUME NEW d \in b_run.bars, Bars!Finished(d)
        PROVE  \E i \in 1 .. Len(b_observed) : b_observed[i].symbol = Bars!Current
                   /\ b_observed[i].day = d
    BY <2>1 DEF BarsIInv, BarsTypes, BarsStored, Bars!Receipt, Bars!At, Bars!Observed
  <2>2. /\ new.counted = {d \in b_run.bars : Bars!Finished(d)}
        /\ new.watermark = Len(b_observed) /\ new.symbol = Bars!Current
    OBVIOUS
  <2> HIDE DEF new
  <2> QED
    BY <2>1, <2>2
<1>5. new.watermark \in 0 .. Len(b_observed)
  BY DEF BarsIInv, BarsTypes
<1> HIDE DEF new
<1>6. Bars!ReceiptProves'
  BY <1>1, <1>4 DEF BarsIInv, Bars!ReceiptProves
<1>7. Bars!CompleteOnly'
  BY <1>1 DEF BarsIInv, Bars!CompleteOnly
<1> QED
  BY <1>1, <1>2, <1>3, <1>5, <1>6, <1>7, BarsNexts DEF BarsIInv, BarsTypes

LEMMA BarsStepStoreFails ==
    ASSUME Bars!BarAssumption, BarsIInv, Bars!StoreFails
    PROVE  BarsIInv'
<1>1. b_turn' \in [b_Symbols -> Nat]
  BY BarsTops DEF Bars!StoreFails, Bars!Failed, BarsIInv, BarsTypes
<1>2. ~Bars!At("idle") /\ UNCHANGED b_clock
  BY DEF Bars!StoreFails, Bars!At
<1> QED
  BY <1>1, <1>2, BarsNexts, BarsRecordsKept DEF BarsIInv, BarsTypes, Bars!StoreFails,
     Bars!store

LEMMA BarsStepDie == ASSUME BarsIInv, Bars!Die PROVE BarsIInv'
<1>1. BarsRunKeeps' /\ BarsAnswered' /\ BarsStored'
  BY DEF Bars!Die, BarsRunKeeps, BarsAnswered, BarsStored, Bars!At, Bars!Idle
<1> QED
  BY <1>1, BarsRecordsKept DEF BarsIInv, BarsTypes, Bars!Die, Bars!store

(* A step that leaves the run's work, the turns and the clock alone. *)
LEMMA BarsAside ==
    ASSUME BarsIInv, UNCHANGED <<b_run, b_turn, b_clock, b_observed>>
    PROVE  BarsRunKeeps' /\ BarsAnswered' /\ BarsStored'
<1>1. Bars!Current' = Bars!Current
  BY BarsSameCurrent
<1> QED
  BY <1>1 DEF BarsIInv, BarsRunKeeps, BarsAnswered, BarsStored, Bars!At, Bars!Finished,
     Bars!Observed

LEMMA BarsStepObserve == ASSUME BarsIInv, Bars!ObserveSessions PROVE BarsIInv'
BY BarsAside, BarsRecordsKept DEF BarsIInv, BarsTypes, Bars!ObserveSessions, Bars!store

LEMMA BarsStepAsk == ASSUME BarsIInv, NEW q \in b_Wanted, Bars!Ask(q) PROVE BarsIInv'
BY BarsAside, BarsRecordsKept DEF BarsIInv, BarsTypes, Bars!Ask

LEMMA BarsStepTick == ASSUME Bars!BarAssumption, BarsIInv, Bars!Tick PROVE BarsIInv'
<1>1. b_clock' \in 0 .. 2 * Bars!LastDay + 1
          /\ (b_clock' >= b_clock \/ b_clock' >= 2 * Bars!LastDay)
  BY BarsDays DEF Bars!Tick, BarsIInv, BarsTypes
<1>2. UNCHANGED <<b_sessions, b_requests, b_observed, b_receipts, b_turn>>
  BY DEF Bars!Tick
<1>3. b_run' = b_run \/ (~Bars!At("idle") /\ b_run' = [b_run EXCEPT !.today = FALSE])
  BY DEF Bars!Tick
<1>4. /\ b_run' \in BarsCollecting \cup BarsStoring \cup {Bars!Idle}
      /\ b_run'.at = b_run.at
      /\ ~Bars!At("idle") => /\ b_run'.now = b_run.now /\ b_run'.completed = b_run.completed
                             /\ b_run'.todo = b_run.todo /\ b_run'.asked = b_run.asked
                             /\ b_run'.at \in {"append", "receipt"} =>
                                  b_run'.bars = b_run.bars /\ b_run'.final = b_run.final
  <2>1. CASE b_run' = b_run
    BY <2>1 DEF BarsIInv, BarsTypes
  <2>2. CASE ~Bars!At("idle") /\ b_run' = [b_run EXCEPT !.today = FALSE]
    <3>1. CASE b_run \in BarsCollecting
      BY <2>2, <3>1 DEF BarsCollecting
    <3>2. CASE b_run \in BarsStoring
      BY <2>2, <3>2 DEF BarsStoring
    <3> QED
      BY <2>2, <3>1, <3>2, BarsRunShape DEF BarsIInv
  <2> QED
    BY <1>3, <2>1, <2>2
<1>5. Bars!At("idle")' <=> Bars!At("idle")
  BY <1>4 DEF Bars!At
<1>6. BarsRunKeeps'
  <2> SUFFICES ASSUME ~Bars!At("idle") PROVE BarsRunKeeps'
    BY <1>5 DEF BarsRunKeeps
  <2>1. b_run.now \in 0 .. 2 * Bars!LastDay + 1 /\ b_clock \in Nat /\ Bars!LastDay \in Nat
    BY BarsRunShape, BarsDays DEF BarsIInv, BarsTypes
  <2>2. b_run.now <= b_clock' \/ b_clock' >= 2 * Bars!LastDay
    BY <1>1, <2>1 DEF BarsIInv, BarsRunKeeps
  <2> QED
    BY <1>4, <2>2 DEF BarsIInv, BarsRunKeeps
<1>7. BarsAnswered'
  BY <1>4 DEF BarsIInv, BarsAnswered, Bars!Finished, Bars!At
<1>8. BarsStored'
  <2> SUFFICES ASSUME Bars!At("receipt") PROVE BarsStored'
    BY <1>4 DEF BarsStored, Bars!At
  <2>1. Bars!Current' = Bars!Current
    BY <1>2, <1>4, BarsSameCurrent DEF Bars!At
  <2> QED
    BY <1>2, <1>4, <2>1 DEF BarsIInv, BarsStored, Bars!Finished, Bars!At, Bars!Observed
<1> QED
  BY <1>1, <1>2, <1>4, <1>6, <1>7, <1>8, BarsRecordsKept DEF BarsIInv, BarsTypes

(* Only bars of finished sessions are ever stored, although a session may end between the *)
(* answer and the append, and a poll receipt counts no finished bar its watermark does    *)
(* not cover, however polls fail or die, for any symbols and requests                     *)
(* (append_completed, record_successful_poll).                                            *)
THEOREM BarsAreTrue == Bars!BarAssumption => (Bars!Spec => []BarsTrue)
<1> SUFFICES ASSUME Bars!BarAssumption PROVE Bars!Spec => []BarsTrue
  OBVIOUS
<1>1. ASSUME BarsIInv, [Bars!Next]_Bars!vars PROVE BarsIInv'
  <2>1. CASE UNCHANGED Bars!vars
    BY <1>1, <2>1, BarsAside, BarsRecordsKept DEF Bars!vars, Bars!store, BarsIInv, BarsTypes
  <2>2. CASE Bars!Next
    BY <1>1, <2>2, BarsStepObserve, BarsStepAsk, BarsStepBegin, BarsStepFetch,
       BarsStepFetchFails, BarsStepAppend, BarsStepReceipt, BarsStepStoreFails, BarsStepDie,
       BarsStepTick DEF Bars!Next, Bars!Collect
  <2> QED
    BY <1>1, <2>1, <2>2
<1>2. BarsIInv => BarsTrue
  BY DEF BarsTrue, BarsIInv, Bars!BarsTrue
<1> QED
  BY BarsInitIInv, <1>1, <1>2, PTL DEF Bars!Spec

-----------------------------------------------------------------------------
(* The evidence of notifications (NotificationEvidence). *)

(* Prefixes. *)
LEMMA EvPrefixBy ==
    ASSUME NEW S, NEW s \in Seq(S), NEW t \in Seq(S)
    PROVE  Ev!IsPrefix(s, t) <=> Len(s) <= Len(t) /\ \A i \in 1 .. Len(s) : s[i] = t[i]
<1>1. CASE Len(s) <= Len(t)
  <2> DEFINE u == SubSeq(s, 1, Len(s))
             v == SubSeq(t, 1, Len(s))
  <2>1. /\ u \in Seq(S) /\ Len(u) = Len(s) /\ \A i \in 1 .. Len(s) : u[i] = s[i]
        /\ v \in Seq(S) /\ Len(v) = Len(s) /\ \A i \in 1 .. Len(s) : v[i] = t[i]
    BY <1>1
  <2>2. Ev!IsPrefix(s, t) <=> u = v
    BY <1>1 DEF Ev!IsPrefix
  <2> HIDE DEF u, v
  <2>3. u = v <=> \A i \in 1 .. Len(s) : u[i] = v[i]
    BY <2>1
  <2> QED
    BY <1>1, <2>1, <2>2, <2>3
<1>2. CASE ~ (Len(s) <= Len(t))
  BY <1>2 DEF Ev!IsPrefix
<1> QED
  BY <1>1, <1>2

LEMMA EvPrefixSelf == ASSUME NEW S, NEW s \in Seq(S) PROVE Ev!IsPrefix(s, s)
BY EvPrefixBy

LEMMA EvPrefixOfPrefix ==
    ASSUME NEW S, NEW s \in Seq(S), NEW t \in Seq(S), NEW u \in Seq(S),
           Ev!IsPrefix(s, t), Ev!IsPrefix(t, u)
    PROVE  Ev!IsPrefix(s, u)
<1>1. /\ Len(s) <= Len(t) /\ \A i \in 1 .. Len(s) : s[i] = t[i]
      /\ Len(t) <= Len(u) /\ \A i \in 1 .. Len(t) : t[i] = u[i]
  BY EvPrefixBy
<1>2. Len(s) \in Nat /\ Len(t) \in Nat /\ Len(u) \in Nat
  OBVIOUS
<1>3. Len(s) <= Len(u) /\ \A i \in 1 .. Len(s) : s[i] = u[i]
  BY <1>1, <1>2
<1> QED
  BY <1>3, EvPrefixBy

LEMMA EvPrefixAppend ==
    ASSUME NEW S, NEW s \in Seq(S), NEW e \in S
    PROVE  Append(s, e) \in Seq(S) /\ Ev!IsPrefix(s, Append(s, e))
<1>1. /\ Append(s, e) \in Seq(S) /\ Len(s) <= Len(Append(s, e))
      /\ \A i \in 1 .. Len(s) : s[i] = Append(s, e)[i]
  OBVIOUS
<1> QED
  BY <1>1, EvPrefixBy

-----------------------------------------------------------------------------
EvPhases == {"request_started", "transport_failed", "response_received"}
EvRow == [packet : e_Packets, dispatch : Nat, attempt : Nat, phase : EvPhases, at : Int]
EvCounts == {Ev!Cardinality(S) : S \in SUBSET (Ev!Ack \cup e_Packets)}
EvCoverages ==
    {Ev!NotActive} \cup [active : {TRUE}, acks : Seq(Ev!Ack), journal : Seq(EvRow),
                         baseline : SUBSET e_Packets]
EvSnapshots == [acks : Seq(Ev!Ack), journal : Seq(EvRow)]
EvHealths == [started : Int, gaps : EvCounts, error : BOOLEAN, acks : Seq(Ev!Ack),
    journal : Seq(EvRow)]

EvSenders == {Ev!Waiting} \cup [at : {"start", "post", "acknowledge"}, dispatch : Nat,
                           attempt : Nat, proof : Nat]
EvActivating == [at : {"activate"}, started : Int, acks : Seq(Ev!Ack), sent : SUBSET e_Packets]
EvSealing == [at : {"seal"}, started : Int, acks : Seq(Ev!Ack), sent : SUBSET e_Packets,
            journal : Seq(EvRow)]
EvBegun == [at : {"state"}, started : Int]
EvSourcing == [at : {"source"}, started : Int, owed : EvSnapshots, health : EvHealths]
EvComparing == [at : {"journal", "degraded", "alarm"}, started : Int, owed : EvSnapshots,
              health : EvHealths, acks : Seq(Ev!Ack), sent : SUBSET e_Packets]
EvReporting == [at : {"gaps", "health"}, started : Int, owed : EvSnapshots, acks : Seq(Ev!Ack),
              journal : Seq(EvRow), gaps : SUBSET (Ev!Ack \cup e_Packets)]
EvRunnings ==
    {Ev!Idle} \cup EvActivating \cup EvSealing \cup EvBegun \cup EvSourcing \cup EvComparing
      \cup EvReporting

EvTypes ==
    /\ e_clock \in Nat
    /\ e_sent \subseteq e_Packets /\ e_acks \in Seq(Ev!Ack)
    /\ e_journal \in Seq(EvRow)
    /\ e_sending \in [e_Packets -> EvSenders] /\ e_dispatches \in Nat
    /\ e_coverage \in EvCoverages
    /\ e_gaps \subseteq Ev!Ack \cup e_Packets
    /\ e_health \in {Ev!NoHealth} \cup EvHealths
    /\ e_run \in [e_Runs -> EvRunnings]
    /\ e_witnessed \in EvSnapshots
    /\ e_restores \in Nat

(* A dispatch belongs to one sender.  An acknowledged one is over, and its evidence can  *)
(* no longer come.                                                                       *)
EvDispatched ==
    \A p \in e_Packets : ~Ev!At(p, "waiting") =>
        /\ e_sending[p].dispatch \in 1 .. e_dispatches
        /\ \A q \in e_Packets \ {p} : ~Ev!At(q, "waiting")
               => e_sending[q].dispatch # e_sending[p].dispatch

EvOver(a) ==
    a.attempt # Ev!NoAttempt =>
      /\ a.dispatch \in 1 .. e_dispatches
      /\ \A p \in e_Packets : ~Ev!At(p, "waiting") => e_sending[p].dispatch # a.dispatch

EvUnacked(p) == p \in e_sent /\ \A a \in Ev!Range(e_acks) : a.packet # p

EvFits(g) == IF g \in e_Packets THEN e_restores = 0 => EvUnacked(g)
                            ELSE EvOver(g) /\ ~Ev!Proved(g, e_journal)

EvAcksOver == \A a \in Ev!Range(e_acks) : EvOver(a)
EvGapsFit == \A g \in e_gaps : EvFits(g)

(* The checkpoint is what has been witnessed. *)
EvCheckpointed ==
    /\ e_health = Ev!NoHealth <=> e_coverage = Ev!NotActive
    /\ e_health # Ev!NoHealth => e_health.acks = e_witnessed.acks
           /\ e_health.journal = e_witnessed.journal

(* Without a database put back, every snapshot is still there. *)
EvReached(s) == Ev!IsPrefix(s.acks, e_acks) /\ Ev!IsPrefix(s.journal, e_journal)
EvStill ==
    e_restores = 0 => /\ e_coverage # Ev!NotActive => EvReached(e_coverage)
                      /\ e_health # Ev!NoHealth => EvReached(e_health)

(* What a run has read is over, it owes what it has read as the checkpoint, and without a *)
(* database put back what it has read is still there.                                      *)
EvSound(x) ==
    /\ x.at = "journal" =>
         /\ \A a \in Ev!Range(x.acks) : EvOver(a)
         /\ e_restores = 0 =>
              /\ \A p \in x.sent : (\A a \in Ev!Range(x.acks) : a.packet # p) => EvUnacked(p)
              /\ Ev!IsPrefix(e_coverage.acks, x.acks)
              /\ Ev!IsPrefix(x.health.acks, x.acks) /\ Ev!IsPrefix(x.health.journal, e_journal)
    /\ x.at = "gaps" => \A g \in x.gaps : EvFits(g)
    /\ x.at \in {"source", "journal", "degraded", "alarm", "gaps", "health"} =>
         e_coverage # Ev!NotActive
    /\ x.at \in {"source", "journal"} =>
         /\ x.owed.acks = x.health.acks /\ x.owed.journal = x.health.journal
    /\ x.at = "alarm" => e_restores > 0
    /\ x.at \in {"gaps", "health"} =>
         Ev!IsPrefix(x.owed.acks, x.acks) /\ Ev!IsPrefix(x.owed.journal, x.journal)
    /\ e_restores = 0 =>
         /\ x.at \in {"activate", "seal", "journal", "gaps", "health"}
                => Ev!IsPrefix(x.acks, e_acks)
         /\ x.at \in {"seal", "gaps", "health"} => Ev!IsPrefix(x.journal, e_journal)
         /\ x.at = "source" => EvReached(x.health)

EvRunsSound == \A r \in e_Runs : EvSound(e_run[r])

EvIInv ==
    EvTypes /\ EvDispatched /\ EvAcksOver /\ EvGapsFit /\ EvCheckpointed /\ EvStill
        /\ EvRunsSound

-----------------------------------------------------------------------------
(* The evidence's Cardinality is the one the library's facts are about: no gaps are 0. *)
LEMMA EvNone == 0 \in EvCounts
<1>1. Ev!Cardinality({}) = Cardinality({})
  BY DEF Ev!Cardinality, Cardinality, Ev!IsFiniteSet, IsFiniteSet
<1> QED
  BY <1>1, FS_EmptySet DEF EvCounts

LEMMA EvStages ==
    ASSUME NEW x \in EvRunnings
    PROVE  /\ x.at = "idle" => x = Ev!Idle
           /\ x.at = "activate" => x \in EvActivating
           /\ x.at = "seal" => x \in EvSealing
           /\ x.at = "state" => x \in EvBegun
           /\ x.at = "source" => x \in EvSourcing
           /\ x.at \in {"journal", "degraded", "alarm"} => x \in EvComparing
           /\ x.at \in {"gaps", "health"} => x \in EvReporting
<1>1. CASE x = Ev!Idle
  BY <1>1 DEF Ev!Idle
<1>2. CASE x \in EvActivating
  BY <1>2 DEF EvActivating
<1>3. CASE x \in EvSealing
  BY <1>3 DEF EvSealing
<1>4. CASE x \in EvBegun
  BY <1>4 DEF EvBegun
<1>5. CASE x \in EvSourcing
  BY <1>5 DEF EvSourcing
<1>6. CASE x \in EvComparing
  BY <1>6 DEF EvComparing
<1>7. CASE x \in EvReporting
  BY <1>7 DEF EvReporting
<1> QED
  BY <1>1, <1>2, <1>3, <1>4, <1>5, <1>6, <1>7 DEF EvRunnings

(* What a run holds in each stage. *)
LEMMA EvHolds ==
    ASSUME NEW x \in EvRunnings
    PROVE  /\ x.at \in {"activate", "seal", "journal", "gaps", "health"}
                  => x.acks \in Seq(Ev!Ack)
           /\ x.at \in {"seal", "gaps", "health"} => x.journal \in Seq(EvRow)
           /\ x.at \in {"journal"} => x.sent \subseteq e_Packets
           /\ x.at \in {"gaps", "health"} => x.gaps \subseteq Ev!Ack \cup e_Packets
           /\ x.at \in {"source", "journal"} =>
                /\ x.health.acks \in Seq(Ev!Ack) /\ x.health.journal \in Seq(EvRow)
                /\ x.owed.acks \in Seq(Ev!Ack) /\ x.owed.journal \in Seq(EvRow)
BY EvStages DEF EvActivating, EvSealing, EvSourcing, EvComparing, EvReporting, EvHealths,
   EvSnapshots

LEMMA EvIdleSound ==
    Ev!Idle \in EvRunnings /\ Ev!Idle.at = "idle" /\ EvSound(Ev!Idle) /\ EvSound(Ev!Idle)'
BY DEF Ev!Idle, EvRunnings, EvSound

LEMMA EvInitIInv == Ev!Init => EvIInv
<1> SUFFICES ASSUME Ev!Init PROVE EvIInv
  OBVIOUS
<1>1. EvTypes
  BY DEF Ev!Init, EvTypes, EvCoverages, Ev!Nothing, EvSnapshots, EvSenders, EvRunnings
<1>2. Ev!Range(e_acks) = {}
  BY DEF Ev!Init, Ev!Range
<1>3. \A p \in e_Packets : Ev!At(p, "waiting")
  BY DEF Ev!Init, Ev!At, Ev!Waiting
<1>4. EvRunsSound
  BY EvIdleSound DEF Ev!Init, EvRunsSound
<1> QED
  BY <1>1, <1>2, <1>3, <1>4 DEF Ev!Init, EvIInv, EvDispatched, EvAcksOver, EvGapsFit,
     EvCheckpointed, EvStill

(* The evidence of a dispatch that is over cannot come any more. *)
LEMMA EvProvedStays ==
    ASSUME NEW a, NEW e, e_journal \in Seq(EvRow), e \in EvRow, a.dispatch # e.dispatch,
           Ev!Proved(a, Append(e_journal, e))
    PROVE  Ev!Proved(a, e_journal)
<1>1. PICK i, j \in DOMAIN Append(e_journal, e) :
        i < j /\ Ev!Proves(a, Append(e_journal, e)[i], Append(e_journal, e)[j])
  BY DEF Ev!Proved
<1>2. /\ DOMAIN Append(e_journal, e) = 1 .. Len(e_journal) + 1
      /\ DOMAIN e_journal = 1 .. Len(e_journal) /\ Len(e_journal) \in Nat
      /\ Append(e_journal, e)[Len(e_journal) + 1] = e
      /\ \A k \in 1 .. Len(e_journal) : Append(e_journal, e)[k] = e_journal[k]
  OBVIOUS
<1>3. a.dispatch = Append(e_journal, e)[i].dispatch
          /\ a.dispatch = Append(e_journal, e)[j].dispatch
  BY <1>1 DEF Ev!Proves
<1>4. i # Len(e_journal) + 1 /\ j # Len(e_journal) + 1
  BY <1>2, <1>3
<1>5. i \in DOMAIN e_journal /\ j \in DOMAIN e_journal
  BY <1>1, <1>2, <1>4
<1> QED
  BY <1>1, <1>2, <1>5 DEF Ev!Proved

(* A step of a sender: the ledger and the journal grow by what is over, and by rows of a  *)
(* dispatch that is not.                                                                 *)
LEMMA EvSenderStep ==
    ASSUME EvIInv, UNCHANGED <<e_coverage, e_gaps, e_health, e_witnessed, e_run, e_restores>>,
           e_clock' \in Nat, e_sent' \subseteq e_Packets, e_acks' \in Seq(Ev!Ack),
               e_journal' \in Seq(EvRow),
           e_sending' \in [e_Packets -> EvSenders], e_dispatches' \in Nat,
           EvDispatched', EvAcksOver', Ev!IsPrefix(e_acks, e_acks'),
               Ev!IsPrefix(e_journal, e_journal'),
           \A a \in Ev!Ack : EvOver(a) => EvOver(a)',
           \A a \in Ev!Ack : EvOver(a) /\ ~Ev!Proved(a, e_journal) => ~Ev!Proved(a, e_journal'),
           \A p \in e_Packets : EvUnacked(p) => EvUnacked(p)'
    PROVE  EvIInv'
<1>1. EvTypes'
  BY DEF EvIInv, EvTypes
<1>2. ASSUME NEW g \in Ev!Ack \cup e_Packets, EvFits(g) PROVE EvFits(g)'
  BY <1>2 DEF EvFits
<1>3. EvGapsFit'
  BY <1>2 DEF EvIInv, EvTypes, EvGapsFit
<1>4. /\ \A s \in Seq(Ev!Ack) : Ev!IsPrefix(s, e_acks) => Ev!IsPrefix(s, e_acks')
      /\ \A s \in Seq(EvRow) : Ev!IsPrefix(s, e_journal) => Ev!IsPrefix(s, e_journal')
  BY EvPrefixOfPrefix DEF EvIInv, EvTypes
<1>5. EvCheckpointed' /\ EvStill'
  <2>1. /\ e_coverage # Ev!NotActive => e_coverage.acks \in Seq(Ev!Ack)
               /\ e_coverage.journal \in Seq(EvRow)
        /\ e_health # Ev!NoHealth => e_health.acks \in Seq(Ev!Ack)
               /\ e_health.journal \in Seq(EvRow)
    BY DEF EvIInv, EvTypes, EvHealths, EvCoverages
  <2> QED
    BY <1>4, <2>1 DEF EvIInv, EvCheckpointed, EvStill, EvReached
<1>6. ASSUME NEW x \in EvRunnings, EvSound(x) PROVE EvSound(x)'
  <2>1. x.at = "journal" => (\A a \in Ev!Range(x.acks) : EvOver(a)')
    BY <1>6, EvHolds DEF EvSound, Ev!Range
  <2>2. x.at = "journal" /\ e_restores = 0 =>
          \A p \in x.sent : (\A a \in Ev!Range(x.acks) : a.packet # p) => EvUnacked(p)'
    BY <1>6, EvHolds DEF EvSound
  <2>3. x.at = "gaps" => \A g \in x.gaps : EvFits(g)'
    BY <1>2, <1>6, EvHolds DEF EvSound
  <2> QED
    BY <1>4, <1>6, <2>1, <2>2, <2>3, EvHolds DEF EvSound, EvReached
<1>7. EvRunsSound'
  BY <1>6 DEF EvIInv, EvTypes, EvRunsSound
<1> QED
  BY <1>1, <1>3, <1>5, <1>7 DEF EvIInv

LEMMA EvStepDeliverOld ==
    ASSUME EvIInv, NEW p \in e_Packets, Ev!DeliverOld(p)
    PROVE  EvIInv'
<1>1. /\ e_sent' = e_sent \cup {p} /\ p \notin e_sent
      /\ UNCHANGED <<e_clock, e_acks, e_journal, e_sending, e_dispatches>>
      /\ UNCHANGED <<e_coverage, e_gaps, e_health, e_witnessed, e_run, e_restores>>
  BY DEF Ev!DeliverOld, Ev!journalVars, Ev!senderVars, Ev!storeVars, Ev!counters
<1>2. /\ Ev!IsPrefix(e_acks, e_acks') /\ Ev!IsPrefix(e_journal, e_journal')
  BY <1>1, EvPrefixSelf DEF EvIInv, EvTypes
<1>3. /\ EvDispatched' /\ EvAcksOver' /\ \A a : EvOver(a)' <=> EvOver(a)
  BY <1>1 DEF EvIInv, EvDispatched, EvAcksOver, EvOver, Ev!At
<1>4. \A q \in e_Packets : EvUnacked(q) => EvUnacked(q)'
  BY <1>1 DEF EvUnacked
<1>5. /\ e_clock' \in Nat /\ e_sent' \subseteq e_Packets /\ e_acks' \in Seq(Ev!Ack)
      /\ e_journal' \in Seq(EvRow) /\ e_sending' \in [e_Packets -> EvSenders]
             /\ e_dispatches' \in Nat
  BY <1>1 DEF EvIInv, EvTypes
<1> QED
  BY <1>1, <1>2, <1>3, <1>4, <1>5, EvSenderStep

(* A step of a sender that adds at most a row of its own dispatch to the journal. *)
LEMMA EvSenderJournals ==
    ASSUME EvIInv, NEW p \in e_Packets, NEW e \in EvRow,
           UNCHANGED <<e_clock, e_sent, e_acks, e_dispatches>>,
           UNCHANGED <<e_coverage, e_gaps, e_health, e_witnessed, e_run, e_restores>>,
           e_journal' = e_journal \/ e_journal' = Append(e_journal, e),
           ~Ev!At(p, "waiting"), e.dispatch = e_sending[p].dispatch,
           NEW x \in EvSenders, e_sending' = [e_sending EXCEPT ![p] = x],
           x = Ev!Waiting \/ x.dispatch = e_sending[p].dispatch
    PROVE  EvIInv'
<1>1. e_sending' = [e_sending EXCEPT ![p] = x]
          /\ (x = Ev!Waiting \/ x.dispatch = e_sending[p].dispatch)
  OBVIOUS
<1>2. /\ e_sending \in [e_Packets -> EvSenders] /\ e_sending' \in [e_Packets -> EvSenders]
      /\ e_sending'[p] = x /\ \A q \in e_Packets \ {p} : e_sending'[q] = e_sending[q]
  BY <1>1 DEF EvIInv, EvTypes
<1>3. \A q \in e_Packets : ~Ev!At(q, "waiting")' =>
        ~Ev!At(q, "waiting") /\ e_sending'[q].dispatch = e_sending[q].dispatch
  BY <1>1, <1>2 DEF Ev!At, Ev!Waiting
<1>4. EvDispatched'
  BY <1>3 DEF EvIInv, EvDispatched
<1>5. \A a : EvOver(a) => EvOver(a)'
  BY <1>3 DEF EvOver
<1>6. EvAcksOver'
  BY <1>5 DEF EvIInv, EvAcksOver
<1>7. /\ Ev!IsPrefix(e_acks, e_acks') /\ Ev!IsPrefix(e_journal, e_journal')
             /\ e_journal' \in Seq(EvRow)
  BY EvPrefixSelf, EvPrefixAppend DEF EvIInv, EvTypes
<1>8. ASSUME NEW a \in Ev!Ack, EvOver(a), ~Ev!Proved(a, e_journal)
      PROVE  ~Ev!Proved(a, e_journal')
  <2>1. CASE a.attempt = Ev!NoAttempt
    BY <2>1 DEF Ev!Proved
  <2>2. CASE a.attempt # Ev!NoAttempt
    <3>1. a.dispatch # e.dispatch
      BY <1>8, <2>2 DEF EvOver
    <3> QED
      BY <1>8, <3>1, EvProvedStays DEF EvIInv, EvTypes
  <2> QED
    BY <2>1, <2>2
<1>9. \A q \in e_Packets : EvUnacked(q) => EvUnacked(q)'
  BY DEF EvUnacked
<1>10. /\ e_clock' \in Nat /\ e_sent' \subseteq e_Packets /\ e_acks' \in Seq(Ev!Ack)
       /\ e_dispatches' \in Nat
  BY DEF EvIInv, EvTypes
<1> QED
  BY <1>2, <1>4, <1>5, <1>6, <1>7, <1>8, <1>9, <1>10, EvSenderStep

LEMMA EvSending ==
    ASSUME EvIInv, NEW p \in e_Packets, ~Ev!At(p, "waiting")
    PROVE  /\ e_sending[p] \in [at : {"start", "post", "acknowledge"}, dispatch : Nat,
                               attempt : Nat, proof : Nat]
           /\ \A phase \in EvPhases : Ev!Event(p, phase) \in EvRow
           /\ \A phase : Ev!Event(p, phase).dispatch = e_sending[p].dispatch
<1>1. e_sending[p] \in [at : {"start", "post", "acknowledge"}, dispatch : Nat,
                      attempt : Nat, proof : Nat]
  BY DEF EvIInv, EvTypes, EvSenders, Ev!At, Ev!Waiting
<1> QED
  BY <1>1 DEF Ev!Event, EvRow, EvIInv, EvTypes

LEMMA EvStepStartAttempt ==
    ASSUME EvIInv, NEW p \in e_Packets, Ev!StartAttempt(p)
    PROVE  EvIInv'
<1>1. ~Ev!At(p, "waiting")
  BY DEF Ev!StartAttempt, Ev!At
<1> DEFINE x == [e_sending[p] EXCEPT !.at = "post"]
<1>2. x \in EvSenders /\ x.dispatch = e_sending[p].dispatch
  BY <1>1, EvSending DEF EvSenders
<1>3. e_sending' = [e_sending EXCEPT ![p] = x]
  BY DEF Ev!StartAttempt
<1>4. e_journal' = e_journal \/ e_journal' = Append(e_journal, Ev!Event(p, "request_started"))
  BY DEF Ev!StartAttempt, Ev!Observe
<1>5. /\ UNCHANGED <<e_clock, e_sent, e_acks, e_dispatches>>
      /\ UNCHANGED <<e_coverage, e_gaps, e_health, e_witnessed, e_run, e_restores>>
  BY DEF Ev!StartAttempt, Ev!Observe, Ev!Fault, Ev!sourceVars, Ev!storeVars, Ev!counters
<1>6. Ev!Event(p, "request_started") \in EvRow
      /\ Ev!Event(p, "request_started").dispatch = e_sending[p].dispatch
  BY <1>1, EvSending DEF EvPhases
<1> HIDE DEF x
<1> QED
  BY <1>1, <1>2, <1>3, <1>4, <1>5, <1>6, EvSenderJournals

LEMMA EvStepAttemptFails ==
    ASSUME EvIInv, NEW p \in e_Packets, Ev!AttemptFails(p)
    PROVE  EvIInv'
<1>1. ~Ev!At(p, "waiting")
  BY DEF Ev!AttemptFails, Ev!At
<1> DEFINE s == e_sending[p]
           y == [at |-> "start", dispatch |-> s.dispatch, attempt |-> s.attempt + 1,
                 proof |-> Ev!NoAttempt]
           x == IF s.attempt = e_MaxAttempts THEN Ev!Waiting ELSE y
<1>2. x \in EvSenders /\ (x = Ev!Waiting \/ x.dispatch = s.dispatch)
  <2>1. s \in [at : {"start", "post", "acknowledge"}, dispatch : Nat, attempt : Nat, proof : Nat]
    BY <1>1, EvSending
  <2> HIDE DEF s
  <2>2. y \in [at : {"start", "post", "acknowledge"}, dispatch : Nat, attempt : Nat, proof : Nat]
        /\ y.dispatch = s.dispatch
    BY <2>1 DEF Ev!NoAttempt
  <2> HIDE DEF y
  <2> QED
    BY <2>2 DEF EvSenders
<1>3. e_sending' = [e_sending EXCEPT ![p] = x]
  BY DEF Ev!AttemptFails
<1>4. e_journal' = e_journal \/ e_journal' = Append(e_journal, Ev!Event(p, "transport_failed"))
  BY DEF Ev!AttemptFails
<1>5. /\ UNCHANGED <<e_clock, e_sent, e_acks, e_dispatches>>
      /\ UNCHANGED <<e_coverage, e_gaps, e_health, e_witnessed, e_run, e_restores>>
  BY DEF Ev!AttemptFails, Ev!Fault, Ev!sourceVars, Ev!storeVars
<1>6. Ev!Event(p, "transport_failed") \in EvRow
      /\ Ev!Event(p, "transport_failed").dispatch = e_sending[p].dispatch
  BY <1>1, EvSending DEF EvPhases
<1> HIDE DEF x
<1> QED
  BY <1>1, <1>2, <1>3, <1>4, <1>5, <1>6, EvSenderJournals

LEMMA EvStepRespond == ASSUME EvIInv, NEW p \in e_Packets, Ev!Respond(p) PROVE EvIInv'
<1>1. ~Ev!At(p, "waiting")
  BY DEF Ev!Respond, Ev!At
<1> DEFINE proof == IF e_journal' # e_journal THEN e_sending[p].attempt ELSE Ev!NoAttempt
           x == [e_sending[p] EXCEPT !.at = "acknowledge", !.proof = proof]
<1>2. x \in EvSenders /\ x.dispatch = e_sending[p].dispatch
  BY <1>1, EvSending DEF EvSenders, Ev!NoAttempt
<1>3. e_sending' = [e_sending EXCEPT ![p] = x]
  BY DEF Ev!Respond
<1>4. e_journal' = e_journal \/ e_journal' = Append(e_journal, Ev!Event(p, "response_received"))
  BY DEF Ev!Respond, Ev!Observe
<1>5. /\ UNCHANGED <<e_clock, e_sent, e_acks, e_dispatches>>
      /\ UNCHANGED <<e_coverage, e_gaps, e_health, e_witnessed, e_run, e_restores>>
  BY DEF Ev!Respond, Ev!Observe, Ev!Fault, Ev!sourceVars, Ev!storeVars, Ev!counters
<1>6. Ev!Event(p, "response_received") \in EvRow
      /\ Ev!Event(p, "response_received").dispatch = e_sending[p].dispatch
  BY <1>1, EvSending DEF EvPhases
<1> HIDE DEF x
<1> QED
  BY <1>1, <1>2, <1>3, <1>4, <1>5, <1>6, EvSenderJournals

LEMMA EvStepDispatch == ASSUME EvIInv, NEW p \in e_Packets, Ev!Dispatch(p) PROVE EvIInv'
<1> DEFINE x == [at |-> "start", dispatch |-> e_dispatches + 1, attempt |-> 1,
               proof |-> Ev!NoAttempt]
<1>1. /\ e_sending' = [e_sending EXCEPT ![p] = x] /\ e_dispatches' = e_dispatches + 1
      /\ UNCHANGED <<e_clock, e_sent, e_acks, e_journal>>
      /\ UNCHANGED <<e_coverage, e_gaps, e_health, e_witnessed, e_run, e_restores>>
  BY DEF Ev!Dispatch, Ev!sourceVars, Ev!journalVars, Ev!storeVars, Ev!counters
<1>2. /\ e_dispatches \in Nat /\ e_sending \in [e_Packets -> EvSenders]
  BY DEF EvIInv, EvTypes
<1>3. x \in EvSenders /\ e_sending' \in [e_Packets -> EvSenders]
  <2>1. x \in EvSenders
    BY <1>2 DEF EvSenders, Ev!NoAttempt
  <2> QED
    BY <1>1, <1>2, <2>1
<1>4. /\ e_sending'[p].dispatch = e_dispatches + 1
      /\ \A q \in e_Packets \ {p} : e_sending'[q] = e_sending[q]
  BY <1>1, <1>2
<1>5. EvDispatched'
  BY <1>1, <1>2, <1>4 DEF EvIInv, EvDispatched, Ev!At
<1>6. \A a \in Ev!Ack : EvOver(a) => EvOver(a)'
  BY <1>1, <1>2, <1>4 DEF EvOver, Ev!At
<1>7. EvAcksOver'
  BY <1>1, <1>6 DEF EvIInv, EvAcksOver, EvTypes, Ev!Range
<1>8. /\ Ev!IsPrefix(e_acks, e_acks') /\ Ev!IsPrefix(e_journal, e_journal')
  BY <1>1, EvPrefixSelf DEF EvIInv, EvTypes
<1>9. \A q \in e_Packets : EvUnacked(q) => EvUnacked(q)'
  BY <1>1 DEF EvUnacked
<1>10. /\ e_clock' \in Nat /\ e_sent' \subseteq e_Packets /\ e_acks' \in Seq(Ev!Ack)
       /\ e_journal' \in Seq(EvRow) /\ e_dispatches' \in Nat
  BY <1>1, <1>2 DEF EvIInv, EvTypes
<1> HIDE DEF x
<1> QED
  BY <1>1, <1>3, <1>5, <1>6, <1>7, <1>8, <1>9, <1>10, EvSenderStep

LEMMA EvStepAcknowledge ==
    ASSUME EvIInv, NEW p \in e_Packets, Ev!Acknowledge(p)
    PROVE  EvIInv'
<1>1. ~Ev!At(p, "waiting")
  BY DEF Ev!Acknowledge, Ev!At
<1>2. /\ UNCHANGED <<e_clock, e_dispatches, e_journal>>
             /\ e_sending' = [e_sending EXCEPT ![p] = Ev!Waiting]
      /\ UNCHANGED <<e_coverage, e_gaps, e_health, e_witnessed, e_run, e_restores>>
  BY DEF Ev!Acknowledge, Ev!journalVars, Ev!storeVars, Ev!counters
<1>3. CASE p \in e_sent
  <2>1. UNCHANGED <<e_sent, e_acks>>
    BY <1>3 DEF Ev!Acknowledge, Ev!sourceVars
  <2>2. Ev!Event(p, "request_started") \in EvRow
        /\ Ev!Event(p, "request_started").dispatch = e_sending[p].dispatch
    BY <1>1, EvSending DEF EvPhases
  <2>3. Ev!Waiting \in EvSenders
    BY DEF EvSenders
  <2> QED
    BY <1>1, <1>2, <2>1, <2>2, <2>3, EvSenderJournals
<1>4. CASE p \notin e_sent
  <2>1. PICK a \in Ev!Ack : /\ e_sent' = e_sent \cup {p} /\ e_acks' = Append(e_acks, a) /\ a.packet = p
                            /\ a.attempt # Ev!NoAttempt => a.dispatch = e_sending[p].dispatch
    <3> DEFINE b == [packet |-> p, attempt |-> e_sending[p].proof,
                     dispatch |-> IF e_sending[p].proof = Ev!NoAttempt THEN 0 ELSE e_sending[p].dispatch]
    <3>1. b \in Ev!Ack /\ b.packet = p
              /\ (b.attempt # Ev!NoAttempt => b.dispatch = e_sending[p].dispatch)
      BY <1>1, EvSending DEF Ev!Ack
    <3>2. e_sent' = e_sent \cup {p} /\ e_acks' = Append(e_acks, b)
      BY <1>4 DEF Ev!Acknowledge
    <3> HIDE DEF b
    <3> QED
      BY <3>1, <3>2
  <2>3. /\ e_sending \in [e_Packets -> EvSenders] /\ e_sending' \in [e_Packets -> EvSenders]
        /\ e_sending'[p] = Ev!Waiting /\ \A q \in e_Packets \ {p} : e_sending'[q] = e_sending[q]
    BY <1>2 DEF EvIInv, EvTypes, EvSenders
  <2>4. /\ \A q \in e_Packets : ~Ev!At(q, "waiting")' =>
             q # p /\ ~Ev!At(q, "waiting") /\ e_sending'[q].dispatch = e_sending[q].dispatch
        /\ Ev!At(p, "waiting")'
    BY <2>3 DEF Ev!At, Ev!Waiting
  <2>5. EvDispatched'
    BY <1>2, <2>4 DEF EvIInv, EvDispatched
  <2>6. \A b : EvOver(b) => EvOver(b)'
    BY <1>2, <2>4 DEF EvOver
  <2>7. EvOver(a)'
    BY <1>1, <1>2, <2>1, <2>4 DEF EvOver, EvIInv, EvDispatched
  <2>8. e_acks' \in Seq(Ev!Ack) /\ Ev!IsPrefix(e_acks, e_acks')
            /\ Ev!IsPrefix(e_journal, e_journal')
    BY <1>2, <2>1, EvPrefixAppend, EvPrefixSelf DEF EvIInv, EvTypes
  <2>9. Ev!Range(e_acks') = Ev!Range(e_acks) \cup {a}
    <3>1. e_acks \in Seq(Ev!Ack) /\ e_acks' = Append(e_acks, a)
      BY <2>1 DEF EvIInv, EvTypes
    <3>2. /\ DOMAIN e_acks' = DOMAIN e_acks \cup {Len(e_acks) + 1}
                 /\ e_acks'[Len(e_acks) + 1] = a
          /\ \A i \in DOMAIN e_acks : e_acks'[i] = e_acks[i]
      BY <3>1
    <3> QED
      BY <3>2 DEF Ev!Range
  <2>10. EvAcksOver'
    <3>1. \A b \in Ev!Range(e_acks') : EvOver(b)'
      BY <2>6, <2>7, <2>9 DEF EvIInv, EvAcksOver
    <3> QED
      BY <3>1 DEF EvAcksOver
  <2>12. \A q \in e_Packets : EvUnacked(q) => EvUnacked(q)'
    BY <1>4, <2>1, <2>9 DEF EvUnacked
  <2>13. /\ e_clock' \in Nat /\ e_sent' \subseteq e_Packets /\ e_journal' \in Seq(EvRow)
         /\ e_dispatches' \in Nat
    BY <1>2, <2>1 DEF EvIInv, EvTypes
  <2> QED
    BY <1>2, <2>3, <2>5, <2>6, <2>8, <2>10, <2>12, <2>13, EvSenderStep
<1> QED
  BY <1>3, <1>4

LEMMA EvStepSenderCrashes ==
    ASSUME EvIInv, NEW p \in e_Packets, Ev!SenderCrashes(p)
    PROVE  EvIInv'
<1>1. /\ UNCHANGED <<e_clock, e_sent, e_acks, e_dispatches, e_journal>>
      /\ e_sending' = [e_sending EXCEPT ![p] = Ev!Waiting] /\ ~Ev!At(p, "waiting")
      /\ UNCHANGED <<e_coverage, e_gaps, e_health, e_witnessed, e_run, e_restores>>
  BY DEF Ev!SenderCrashes, Ev!Fault, Ev!sourceVars, Ev!journalVars, Ev!storeVars
<1>2. Ev!Event(p, "request_started") \in EvRow
      /\ Ev!Event(p, "request_started").dispatch = e_sending[p].dispatch
  BY <1>1, EvSending DEF EvPhases
<1>3. Ev!Waiting \in EvSenders
  BY DEF EvSenders
<1> QED
  BY <1>1, <1>2, <1>3, EvSenderJournals

LEMMA EvQuiet ==
    ASSUME EvIInv, UNCHANGED <<e_sent, e_acks, e_journal, e_sending, e_dispatches>>,
               e_clock' \in Nat,
           UNCHANGED <<e_coverage, e_gaps, e_health, e_witnessed, e_run, e_restores>>
    PROVE  EvIInv'
<1>1. /\ Ev!IsPrefix(e_acks, e_acks') /\ Ev!IsPrefix(e_journal, e_journal')
  BY EvPrefixSelf DEF EvIInv, EvTypes
<1>2. /\ EvDispatched' /\ EvAcksOver' /\ \A a : EvOver(a)' <=> EvOver(a)
  BY DEF EvIInv, EvDispatched, EvAcksOver, EvOver, Ev!At
<1>3. \A q \in e_Packets : EvUnacked(q) => EvUnacked(q)'
  BY DEF EvUnacked
<1>4. /\ e_sent' \subseteq e_Packets /\ e_acks' \in Seq(Ev!Ack)
      /\ e_journal' \in Seq(EvRow) /\ e_sending' \in [e_Packets -> EvSenders]
             /\ e_dispatches' \in Nat
  BY DEF EvIInv, EvTypes
<1> QED
  BY <1>1, <1>2, <1>3, <1>4, EvSenderStep

LEMMA EvStepTime ==
    ASSUME EvIInv, Ev!ActivateJournal \/ Ev!Tick \/ Ev!SetBack
    PROVE  EvIInv'
<1>1. /\ UNCHANGED <<e_sent, e_acks, e_journal, e_sending, e_dispatches>>
      /\ UNCHANGED <<e_coverage, e_gaps, e_health, e_witnessed, e_run, e_restores>>
  BY DEF Ev!ActivateJournal, Ev!Tick, Ev!SetBack, Ev!sourceVars, Ev!journalVars,
     Ev!senderVars, Ev!storeVars, Ev!counters
<1>2. e_clock' \in Nat
  BY DEF EvIInv, EvTypes, Ev!ActivateJournal, Ev!Tick, Ev!SetBack
<1> QED
  BY <1>1, <1>2, EvQuiet

LEMMA EvPart ==
    ASSUME NEW S, NEW s \in Seq(S), NEW n \in 0 .. Len(s) - 1
    PROVE  /\ SubSeq(s, 1, n) \in Seq(S)
           /\ Len(SubSeq(s, 1, n)) = n
           /\ \A i \in 1 .. n : SubSeq(s, 1, n)[i] = s[i]
OBVIOUS

LEMMA EvStepRestore == ASSUME EvIInv, Ev!Restore PROVE EvIInv'
<1>1. /\ e_restores' = e_restores + 1 /\ e_restores \in Nat /\ e_restores' \in Nat
             /\ e_restores' # 0
      /\ e_restores' > 0
      /\ UNCHANGED <<e_clock, e_sending, e_dispatches, e_coverage, e_gaps, e_health,
                     e_witnessed, e_run>>
  BY DEF Ev!Restore, Ev!senderVars, Ev!storeVars, EvIInv, EvTypes
<1>2. /\ e_acks' \in Seq(Ev!Ack) /\ Ev!Range(e_acks') \subseteq Ev!Range(e_acks)
             /\ e_sent' \subseteq e_Packets
      /\ e_journal' \in Seq(EvRow)
      /\ \A a : Ev!Proved(a, e_journal') => Ev!Proved(a, e_journal)
  <2>1. CASE UNCHANGED Ev!sourceVars
                 /\ \E n \in 0 .. Len(e_journal) - 1 : e_journal' = SubSeq(e_journal, 1, n)
    <3>1. PICK n \in 0 .. Len(e_journal) - 1 : e_journal' = SubSeq(e_journal, 1, n)
      BY <2>1
    <3>2. e_journal \in Seq(EvRow)
      BY DEF EvIInv, EvTypes
    <3>3. /\ e_journal' \in Seq(EvRow) /\ Len(e_journal') = n
          /\ \A i \in 1 .. n : e_journal'[i] = e_journal[i]
      BY <3>1, <3>2, EvPart
    <3>4. \A i \in DOMAIN e_journal' : i \in DOMAIN e_journal /\ e_journal'[i] = e_journal[i]
      BY <3>2, <3>3
    <3>5. \A a : Ev!Proved(a, e_journal') => Ev!Proved(a, e_journal)
      BY <3>4 DEF Ev!Proved
    <3> QED
      BY <2>1, <3>3, <3>5 DEF Ev!sourceVars, EvIInv, EvTypes
  <2>2. CASE UNCHANGED e_journal /\ \E n \in 0 .. Len(e_acks) - 1 :
               /\ e_acks' = SubSeq(e_acks, 1, n)
               /\ e_sent' = e_sent \ {e_acks[i].packet : i \in n + 1 .. Len(e_acks)}
    <3>1. PICK n \in 0 .. Len(e_acks) - 1 :
               /\ e_acks' = SubSeq(e_acks, 1, n)
               /\ e_sent' = e_sent \ {e_acks[i].packet : i \in n + 1 .. Len(e_acks)}
      BY <2>2
    <3>2. e_acks \in Seq(Ev!Ack)
      BY DEF EvIInv, EvTypes
    <3>3. /\ e_acks' \in Seq(Ev!Ack) /\ Len(e_acks') = n
          /\ \A i \in 1 .. n : e_acks'[i] = e_acks[i]
      BY <3>1, <3>2, EvPart
    <3>4. \A i \in DOMAIN e_acks' : i \in DOMAIN e_acks /\ e_acks'[i] = e_acks[i]
      BY <3>2, <3>3
    <3>5. Ev!Range(e_acks') \subseteq Ev!Range(e_acks)
      BY <3>4 DEF Ev!Range
    <3> QED
      BY <2>2, <3>1, <3>3, <3>5 DEF EvIInv, EvTypes
  <2> QED
    BY <2>1, <2>2 DEF Ev!Restore
<1>3. \A a : EvOver(a)' <=> EvOver(a)
  BY <1>1 DEF EvOver, Ev!At
<1>4. EvTypes' /\ EvDispatched' /\ EvAcksOver'
  BY <1>1, <1>2, <1>3 DEF EvIInv, EvTypes, EvDispatched, EvAcksOver, Ev!At
<1>5. \A g : EvFits(g) => EvFits(g)'
  BY <1>1, <1>2, <1>3 DEF EvFits
<1>6. EvGapsFit' /\ EvCheckpointed' /\ EvStill'
  BY <1>1, <1>5 DEF EvIInv, EvGapsFit, EvCheckpointed, EvStill
<1>7. \A x : EvSound(x) => EvSound(x)'
  BY <1>1, <1>3, <1>5 DEF EvSound
<1> QED
  BY <1>1, <1>4, <1>6, <1>7 DEF EvIInv, EvRunsSound

-----------------------------------------------------------------------------
(* A step of a run of the monitor, or of an activation. *)
LEMMA EvMonitorStep ==
    ASSUME EvIInv, NEW r \in e_Runs, NEW x \in EvRunnings, e_run' = [e_run EXCEPT ![r] = x],
               EvSound(x)',
           UNCHANGED <<e_clock, e_sent, e_acks, e_journal, e_sending, e_dispatches, e_restores>>,
           e_coverage' = e_coverage \/ e_coverage = Ev!NotActive,
           e_coverage' \in EvCoverages,
           e_gaps' \subseteq Ev!Ack \cup e_Packets, e_health' \in {Ev!NoHealth} \cup EvHealths,
           e_witnessed' \in EvSnapshots, EvGapsFit', EvCheckpointed', EvStill'
    PROVE  EvIInv'
<1>1. EvTypes'
  BY DEF EvIInv, EvTypes
<1>2. EvDispatched' /\ EvAcksOver' /\ \A a : EvOver(a)' <=> EvOver(a)
  BY DEF EvIInv, EvDispatched, EvAcksOver, EvOver, Ev!At
<1>3. \A g : EvFits(g)' <=> EvFits(g)
  BY <1>2 DEF EvFits, EvUnacked
<1>4. ASSUME NEW y, EvSound(y) PROVE EvSound(y)'
  <2>1. \A p : EvUnacked(p)' <=> EvUnacked(p)
    BY DEF EvUnacked
  <2>2. \A s : EvReached(s)' <=> EvReached(s)
    BY DEF EvReached
  <2>3. CASE e_coverage' = e_coverage
    BY <1>2, <1>3, <1>4, <2>1, <2>2, <2>3 DEF EvSound
  <2>4. CASE e_coverage = Ev!NotActive
    BY <1>2, <1>3, <1>4, <2>1, <2>2, <2>4 DEF EvSound
  <2> QED
    BY <2>3, <2>4
<1>5. ASSUME NEW q \in e_Runs PROVE EvSound(e_run[q])'
  <2>1. CASE q = r
    BY <2>1 DEF EvIInv, EvTypes
  <2>2. CASE q # r
    BY <1>4, <2>2 DEF EvIInv, EvTypes, EvRunsSound
  <2> QED
    BY <2>1, <2>2
<1> QED
  BY <1>1, <1>2, <1>5 DEF EvIInv, EvRunsSound

(* The same for a step that leaves the monitor's database alone. *)
LEMMA EvReads ==
    ASSUME EvIInv, NEW r \in e_Runs, NEW x \in EvRunnings, e_run' = [e_run EXCEPT ![r] = x],
               EvSound(x)',
           UNCHANGED <<e_clock, e_sent, e_acks, e_journal, e_sending, e_dispatches, e_restores>>,
           UNCHANGED <<e_coverage, e_gaps, e_health, e_witnessed>>
    PROVE  EvIInv'
<1>1. /\ e_coverage' \in EvCoverages
      /\ e_gaps' \subseteq Ev!Ack \cup e_Packets /\ e_health' \in {Ev!NoHealth} \cup EvHealths
      /\ e_witnessed' \in EvSnapshots
  BY DEF EvIInv, EvTypes
<1>2. \A g : EvFits(g)' <=> EvFits(g)
  BY DEF EvFits, EvUnacked, EvOver, Ev!At
<1>3. EvGapsFit' /\ EvCheckpointed' /\ EvStill'
  BY <1>2 DEF EvIInv, EvGapsFit, EvCheckpointed, EvStill, EvReached
<1>4. e_coverage' = e_coverage \/ e_coverage = Ev!NotActive
  OBVIOUS
<1> QED
  BY <1>1, <1>3, <1>4, EvMonitorStep

LEMMA EvStepBegin == ASSUME EvIInv, NEW r \in e_Runs, Ev!Begin(r) PROVE EvIInv'
<1>1. PICK x : x = [at |-> "state", started |-> e_clock]
  OBVIOUS
<1>2. e_run' = [e_run EXCEPT ![r] = x]
  BY <1>1 DEF Ev!Begin, Ev!Start
<1>3. /\ UNCHANGED <<e_clock, e_sent, e_acks, e_journal, e_sending, e_dispatches,
                     e_restores>>
      /\ UNCHANGED <<e_coverage, e_gaps, e_health, e_witnessed>>
  BY DEF Ev!Begin, Ev!Fault, Ev!sourceVars, Ev!journalVars, Ev!senderVars, Ev!storeVars,
     Ev!counters
<1>4. x \in EvRunnings
  BY <1>1 DEF EvRunnings, EvBegun, EvIInv, EvTypes
<1>5. EvSound(x)'
  BY <1>1 DEF EvSound
<1> QED
  BY <1>2, <1>3, <1>4, <1>5, EvReads

LEMMA EvStepActivateStart ==
    ASSUME EvIInv, NEW r \in e_Runs, Ev!ActivateStart(r)
    PROVE  EvIInv'
<1>1. PICK x : x = [at |-> "activate", started |-> e_clock, acks |-> e_acks, sent |-> e_sent]
  OBVIOUS
<1>2. e_run' = [e_run EXCEPT ![r] = x]
  BY <1>1 DEF Ev!ActivateStart
<1>3. /\ UNCHANGED <<e_clock, e_sent, e_acks, e_journal, e_sending, e_dispatches,
                     e_restores>>
      /\ UNCHANGED <<e_coverage, e_gaps, e_health, e_witnessed>>
  BY DEF Ev!ActivateStart, Ev!sourceVars, Ev!journalVars, Ev!senderVars, Ev!storeVars,
     Ev!counters
<1>4. x \in EvRunnings
  BY <1>1 DEF EvRunnings, EvActivating, EvIInv, EvTypes
<1>5. Ev!IsPrefix(e_acks, e_acks)
  BY EvPrefixSelf DEF EvIInv, EvTypes
<1>6. EvSound(x)'
  BY <1>1, <1>3, <1>5 DEF EvSound
<1> QED
  BY <1>2, <1>3, <1>4, <1>6, EvReads

LEMMA EvStepActivateJournalRead ==
    ASSUME EvIInv, NEW r \in e_Runs, Ev!ActivateJournalRead(r) PROVE EvIInv'
<1>1. e_run[r] \in EvActivating /\ e_run[r].at = "activate" /\ e_run[r] \in EvRunnings
  BY EvStages DEF Ev!ActivateJournalRead, Ev!InRun, EvIInv, EvTypes
<1>2. /\ UNCHANGED <<e_clock, e_sent, e_acks, e_journal, e_sending, e_dispatches,
                     e_restores>>
      /\ UNCHANGED <<e_coverage, e_gaps, e_health, e_witnessed>>
  BY DEF Ev!ActivateJournalRead, Ev!sourceVars, Ev!journalVars, Ev!senderVars, Ev!storeVars,
     Ev!counters
<1>3. PICK x : x = [at |-> "seal", started |-> e_run[r].started, acks |-> e_run[r].acks,
                    sent |-> e_run[r].sent, journal |-> e_journal]
  OBVIOUS
<1>4. e_run' = [e_run EXCEPT ![r] = x] \/ e_run' = [e_run EXCEPT ![r] = Ev!Idle]
  BY <1>3 DEF Ev!ActivateJournalRead, Ev!End
<1>5. x \in EvRunnings
  BY <1>1, <1>3 DEF EvRunnings, EvActivating, EvSealing, EvIInv, EvTypes
<1>6. EvSound(e_run[r])
  BY DEF EvIInv, EvRunsSound
<1>7. Ev!IsPrefix(e_journal, e_journal)
  BY EvPrefixSelf DEF EvIInv, EvTypes
<1>8. EvSound(x)'
  BY <1>1, <1>2, <1>3, <1>6, <1>7 DEF EvSound
<1> QED
  BY <1>2, <1>4, <1>5, <1>8, EvIdleSound, EvReads

LEMMA EvStepActivateSeal ==
    ASSUME EvIInv, NEW r \in e_Runs, Ev!ActivateSeal(r)
    PROVE  EvIInv'
<1>1. e_run[r] \in EvSealing /\ e_run[r].at = "seal" /\ EvSound(e_run[r])
  BY EvStages DEF Ev!ActivateSeal, Ev!InRun, EvIInv, EvTypes, EvRunsSound
<1>2. /\ UNCHANGED <<e_clock, e_sent, e_acks, e_journal, e_sending, e_dispatches,
                     e_restores>>
      /\ e_run' = [e_run EXCEPT ![r] = Ev!Idle]
  BY DEF Ev!ActivateSeal, Ev!End, Ev!sourceVars, Ev!journalVars, Ev!senderVars, Ev!counters
<1>3. CASE e_coverage # Ev!NotActive
  <2>1. UNCHANGED <<e_coverage, e_gaps, e_health, e_witnessed>>
    BY <1>3 DEF Ev!ActivateSeal, Ev!storeVars
  <2> QED
    BY <1>2, <2>1, EvIdleSound, EvReads
<1>4. CASE e_coverage = Ev!NotActive
  <2>1. /\ e_coverage' = [active |-> TRUE, acks |-> e_run[r].acks, journal |-> e_run[r].journal,
                        baseline |-> e_run[r].sent]
        /\ e_health' = [started |-> e_clock, gaps |-> 0, error |-> FALSE,
                      acks |-> e_run[r].acks, journal |-> e_run[r].journal]
        /\ e_witnessed' = [acks |-> e_run[r].acks, journal |-> e_run[r].journal]
        /\ UNCHANGED e_gaps
    BY <1>4 DEF Ev!ActivateSeal
  <2>2. e_run[r].acks \in Seq(Ev!Ack) /\ e_run[r].journal \in Seq(EvRow)
            /\ e_run[r].sent \subseteq e_Packets
    BY <1>1 DEF EvSealing
  <2>3. e_coverage' \in [active : {TRUE}, acks : Seq(Ev!Ack), journal : Seq(EvRow),
                       baseline : SUBSET e_Packets]
    BY <2>1, <2>2
  <2>4. 0 \in EvCounts
    BY EvNone
  <2>5. e_health' \in EvHealths /\ e_witnessed' \in EvSnapshots
    BY <2>1, <2>2, <2>4 DEF EvHealths, EvSnapshots, EvIInv, EvTypes
  <2>6. e_gaps' \subseteq Ev!Ack \cup e_Packets
    BY <2>1 DEF EvIInv, EvTypes
  <2>7. \A g : EvFits(g)' <=> EvFits(g)
    BY <1>2 DEF EvFits, EvUnacked, EvOver, Ev!At
  <2>8. EvGapsFit'
    BY <2>1, <2>7 DEF EvIInv, EvGapsFit
  <2>9. e_coverage' # Ev!NotActive /\ e_health' # Ev!NoHealth
    <3>1. e_coverage'.active # Ev!NotActive.active \/ e_coverage' # Ev!NotActive
      BY <2>1 DEF Ev!NotActive
    <3>2. "active" \in DOMAIN e_coverage' /\ e_coverage'.active = TRUE
      BY <2>1
    <3>3. e_coverage' # Ev!NotActive
      BY <3>2 DEF Ev!NotActive
    <3>4. e_health'.started \in Nat
      BY <2>1 DEF EvIInv, EvTypes
    <3> QED
      BY <3>3, <3>4 DEF Ev!NoHealth
  <2>10. EvCheckpointed'
    BY <2>1, <2>9 DEF EvCheckpointed
  <2>11. EvStill'
    BY <1>1, <1>2, <2>1 DEF EvStill, EvReached, EvSound
  <2> QED
    BY <1>2, <1>4, <2>3, <2>5, <2>6, <2>8, <2>10, <2>11, EvIdleSound, EvMonitorStep DEF EvCoverages
<1> QED
  BY <1>3, <1>4

LEMMA EvStepReadState == ASSUME EvIInv, NEW r \in e_Runs, Ev!ReadState(r) PROVE EvIInv'
<1>1. e_run[r] \in EvBegun
  BY EvStages DEF Ev!ReadState, Ev!InRun, EvIInv, EvTypes
<1>2. /\ UNCHANGED <<e_clock, e_sent, e_acks, e_journal, e_sending, e_dispatches,
                     e_restores>>
      /\ UNCHANGED <<e_coverage, e_gaps, e_health, e_witnessed>>
  BY DEF Ev!ReadState, Ev!sourceVars, Ev!journalVars, Ev!senderVars, Ev!storeVars,
     Ev!counters
<1>3. CASE e_coverage = Ev!NotActive
  <2>1. e_run' = [e_run EXCEPT ![r] = Ev!Idle]
    BY <1>3 DEF Ev!ReadState
  <2> QED
    BY <1>2, <2>1, EvIdleSound, EvReads
<1>4. CASE e_coverage # Ev!NotActive
  <2>1. PICK x : x = [at |-> "source", started |-> e_run[r].started, owed |-> e_witnessed,
                      health |-> e_health]
    OBVIOUS
  <2>2. e_run' = [e_run EXCEPT ![r] = x]
    BY <1>4, <2>1 DEF Ev!ReadState
  <2>3. e_health # Ev!NoHealth /\ e_health \in EvHealths
    BY <1>4 DEF EvIInv, EvCheckpointed, EvTypes
  <2>4. x \in EvRunnings
    BY <1>1, <2>1, <2>3 DEF EvRunnings, EvBegun, EvSourcing, EvIInv, EvTypes
  <2>5. EvSound(x)'
    BY <1>2, <1>4, <2>1, <2>3 DEF EvSound, EvIInv, EvCheckpointed, EvStill, EvReached
  <2> QED
    BY <1>2, <2>2, <2>4, <2>5, EvReads
<1> QED
  BY <1>3, <1>4

LEMMA EvStepReadSource ==
    ASSUME EvIInv, NEW r \in e_Runs, Ev!ReadSource(r)
    PROVE  EvIInv'
<1>1. e_run[r] \in EvSourcing /\ e_run[r].at = "source" /\ EvSound(e_run[r])
  BY EvStages DEF Ev!ReadSource, Ev!InRun, EvIInv, EvTypes, EvRunsSound
<1>2. /\ UNCHANGED <<e_clock, e_sent, e_acks, e_journal, e_sending, e_dispatches,
                     e_restores>>
      /\ UNCHANGED <<e_coverage, e_gaps, e_health, e_witnessed>>
  BY DEF Ev!ReadSource, Ev!sourceVars, Ev!journalVars, Ev!senderVars, Ev!storeVars,
     Ev!counters
<1>3. PICK x : x = [at |-> "journal", started |-> e_run[r].started, owed |-> e_run[r].owed,
                    health |-> e_run[r].health, acks |-> e_acks, sent |-> e_sent]
  OBVIOUS
<1>4. e_run' = [e_run EXCEPT ![r] = x]
  BY <1>3 DEF Ev!ReadSource
<1>5. x \in EvRunnings
  BY <1>1, <1>3 DEF EvRunnings, EvSourcing, EvComparing, EvIInv, EvTypes
<1>6. EvSound(x)'
  <2>1. Ev!IsPrefix(e_acks, e_acks)
    BY EvPrefixSelf DEF EvIInv, EvTypes
  <2>2. \A a \in Ev!Range(e_acks) : EvOver(a)'
    BY <1>2 DEF EvIInv, EvAcksOver, EvOver, Ev!At
  <2>3. \A p \in e_sent : (\A a \in Ev!Range(e_acks) : a.packet # p) => EvUnacked(p)'
    BY <1>2 DEF EvUnacked
  <2> QED
    BY <1>1, <1>2, <1>3, <2>1, <2>2, <2>3 DEF EvSound, EvIInv, EvStill, EvReached
<1> QED
  BY <1>2, <1>4, <1>5, <1>6, EvReads

LEMMA EvStepReadJournal ==
    ASSUME Ev!EvidenceAssumption, EvIInv, NEW r \in e_Runs, Ev!ReadJournal(r) PROVE EvIInv'
<1>1. e_run[r] \in EvComparing /\ e_run[r].at = "journal" /\ EvSound(e_run[r])
  BY EvStages DEF Ev!ReadJournal, Ev!InRun, EvIInv, EvTypes, EvRunsSound
<1>2. /\ UNCHANGED <<e_clock, e_sent, e_acks, e_journal, e_sending, e_dispatches,
                     e_restores>>
      /\ UNCHANGED <<e_coverage, e_gaps, e_health, e_witnessed>>
  BY DEF Ev!ReadJournal, Ev!sourceVars, Ev!journalVars, Ev!senderVars, Ev!storeVars,
     Ev!counters
<1>3. CASE ~Ev!JournalValid(e_journal)
  <2>1. PICK x : x = [e_run[r] EXCEPT !.at = "degraded"]
    OBVIOUS
  <2>2. e_run' = [e_run EXCEPT ![r] = x]
    BY <1>3, <2>1 DEF Ev!ReadJournal, Ev!Degrade, Ev!Goto
  <2>3. x \in EvRunnings /\ x.at = "degraded"
    BY <1>1, <2>1 DEF EvRunnings, EvComparing
  <2>4. EvSound(x)'
    BY <1>1, <1>2, <2>3 DEF EvSound
  <2> QED
    BY <1>2, <2>2, <2>3, <2>4, EvReads
<1>4. CASE Ev!JournalValid(e_journal) /\ Ev!RolledBack(r, e_journal)
  <2>1. PICK x : x = [e_run[r] EXCEPT !.at = "alarm"]
    OBVIOUS
  <2>2. e_run' = [e_run EXCEPT ![r] = x]
    BY <1>4, <2>1 DEF Ev!ReadJournal, Ev!Goto
  <2>3. x \in EvRunnings /\ x.at = "alarm"
    BY <1>1, <2>1 DEF EvRunnings, EvComparing
  <2>4. e_restores > 0
    <3> SUFFICES ASSUME e_restores = 0 PROVE FALSE
      BY DEF EvIInv, EvTypes
    <3>1. /\ Ev!IsPrefix(e_coverage.acks, e_run[r].acks)
                 /\ Ev!IsPrefix(e_run[r].health.acks, e_run[r].acks)
          /\ Ev!IsPrefix(e_run[r].health.journal, e_journal)
      BY <1>1 DEF EvSound
    <3>2. Ev!IsPrefix(e_coverage.journal, e_journal)
      BY <1>1 DEF EvSound, EvIInv, EvStill, EvReached
    <3> QED
      BY <1>4, <3>1, <3>2 DEF Ev!RolledBack, Ev!PriorCheckpoint
  <2>5. EvSound(x)'
    BY <1>1, <1>2, <2>3, <2>4 DEF EvSound
  <2> QED
    BY <1>2, <2>2, <2>3, <2>5, EvReads
<1>5. CASE Ev!JournalValid(e_journal) /\ ~Ev!RolledBack(r, e_journal)
  <2>1. PICK found : found = Ev!AckGaps(r, e_journal) \cup Ev!Unledgered(r)
    OBVIOUS
  <2>2. PICK x : x = [at |-> "gaps", started |-> e_run[r].started, owed |-> e_run[r].owed,
                      acks |-> e_run[r].acks, journal |-> e_journal, gaps |-> found]
    OBVIOUS
  <2>3. e_run' = [e_run EXCEPT ![r] = x]
    BY <1>5, <2>1, <2>2 DEF Ev!ReadJournal, Ev!Evidence
  <2>4. /\ e_run[r].acks \in Seq(Ev!Ack) /\ e_run[r].sent \subseteq e_Packets
        /\ Ev!Range(e_run[r].acks) \subseteq Ev!Ack
    BY <1>1 DEF EvComparing, Ev!Range
  <2>5. found \subseteq Ev!Ack \cup e_Packets
    BY <2>1, <2>4 DEF Ev!AckGaps, Ev!Unledgered
  <2>6. x \in EvRunnings
    BY <1>1, <2>2, <2>5 DEF EvRunnings, EvReporting, EvComparing, EvIInv, EvTypes
  <2>7. ASSUME NEW g \in found PROVE EvFits(g)
    <3>1. CASE g \in Ev!AckGaps(r, e_journal)
      <4>1. g \in Ev!Ack /\ g \notin e_Packets /\ g \in Ev!Range(e_run[r].acks)
                /\ ~Ev!Proved(g, e_journal)
        BY <2>4, <3>1 DEF Ev!AckGaps, Ev!EvidenceAssumption
      <4>2. EvOver(g)
        BY <1>1, <4>1 DEF EvSound
      <4> QED
        BY <4>1, <4>2 DEF EvFits
    <3>2. CASE g \in Ev!Unledgered(r)
      <4>1. g \in e_Packets /\ g \in e_run[r].sent
                /\ \A a \in Ev!Range(e_run[r].acks) : a.packet # g
        BY <2>4, <3>2 DEF Ev!Unledgered
      <4> QED
        BY <1>1, <4>1 DEF EvSound, EvFits
    <3> QED
      BY <2>1, <3>1, <3>2
  <2>8. \A g : EvFits(g)' <=> EvFits(g)
    BY <1>2 DEF EvFits, EvUnacked, EvOver, Ev!At
  <2>9. Ev!IsPrefix(e_journal, e_journal)
    BY EvPrefixSelf DEF EvIInv, EvTypes
  <2>10. Ev!IsPrefix(e_run[r].owed.acks, e_run[r].acks)
             /\ Ev!IsPrefix(e_run[r].owed.journal, e_journal)
    BY <1>1, <1>5 DEF EvSound, Ev!RolledBack, Ev!PriorCheckpoint
  <2>11. EvSound(x)'
    BY <1>1, <1>2, <2>2, <2>7, <2>8, <2>9, <2>10 DEF EvSound
  <2> QED
    BY <1>2, <2>3, <2>6, <2>11, EvReads
<1> QED
  BY <1>3, <1>4, <1>5

LEMMA EvStepRecordGaps ==
    ASSUME EvIInv, NEW r \in e_Runs, Ev!RecordGaps(r)
    PROVE  EvIInv'
<1>1. e_run[r] \in EvReporting /\ e_run[r].at = "gaps" /\ EvSound(e_run[r])
  BY EvStages DEF Ev!RecordGaps, Ev!InRun, EvIInv, EvTypes, EvRunsSound
<1>2. /\ UNCHANGED <<e_clock, e_sent, e_acks, e_journal, e_sending, e_dispatches,
                     e_restores>>
      /\ UNCHANGED <<e_coverage, e_health, e_witnessed>>
      /\ e_gaps' = e_gaps \cup e_run[r].gaps
  BY DEF Ev!RecordGaps, Ev!sourceVars, Ev!journalVars, Ev!senderVars, Ev!counters
<1>3. PICK x : x = [e_run[r] EXCEPT !.at = "health"]
  OBVIOUS
<1>4. e_run' = [e_run EXCEPT ![r] = x]
  BY <1>3 DEF Ev!RecordGaps, Ev!Goto
<1>5. /\ x \in EvRunnings /\ x.at = "health" /\ x.acks = e_run[r].acks
      /\ x.journal = e_run[r].journal /\ x.owed = e_run[r].owed
  BY <1>1, <1>3 DEF EvRunnings, EvReporting
<1>6. EvSound(x)'
  BY <1>1, <1>2, <1>5 DEF EvSound
<1>7. \A g : EvFits(g)' <=> EvFits(g)
  BY <1>2 DEF EvFits, EvUnacked, EvOver, Ev!At
<1>8. EvGapsFit'
  BY <1>1, <1>2, <1>7 DEF EvIInv, EvGapsFit, EvSound
<1>9. EvCheckpointed' /\ EvStill'
  BY <1>2 DEF EvIInv, EvCheckpointed, EvStill, EvReached
<1>10. /\ e_gaps' \subseteq Ev!Ack \cup e_Packets /\ e_health' \in {Ev!NoHealth} \cup EvHealths
       /\ e_witnessed' \in EvSnapshots
       /\ e_coverage' \in EvCoverages
  BY <1>1, <1>2 DEF EvIInv, EvTypes, EvReporting
<1> QED
  BY <1>2, <1>4, <1>5, <1>6, <1>8, <1>9, <1>10, EvMonitorStep

LEMMA EvStepWriteHealth ==
    ASSUME EvIInv, NEW r \in e_Runs, Ev!WriteHealth(r)
    PROVE  EvIInv'
<1>1. e_run[r] \in EvReporting /\ e_run[r].at = "health" /\ EvSound(e_run[r])
  BY EvStages DEF Ev!WriteHealth, Ev!InRun, EvIInv, EvTypes, EvRunsSound
<1>2. /\ UNCHANGED <<e_clock, e_sent, e_acks, e_journal, e_sending, e_dispatches,
                     e_restores>>
      /\ UNCHANGED <<e_coverage, e_gaps>> /\ e_run' = [e_run EXCEPT ![r] = Ev!Idle]
  BY DEF Ev!WriteHealth, Ev!End, Ev!sourceVars, Ev!journalVars, Ev!senderVars, Ev!counters
<1>3. /\ e_run[r].acks \in Seq(Ev!Ack) /\ e_run[r].journal \in Seq(EvRow)
      /\ e_run[r].gaps \subseteq Ev!Ack \cup e_Packets /\ e_run[r].started \in Int
  BY <1>1 DEF EvReporting
<1>4. /\ e_coverage # Ev!NotActive /\ e_health # Ev!NoHealth /\ e_health \in EvHealths
      /\ e_health.acks = e_witnessed.acks /\ e_health.journal = e_witnessed.journal
      /\ e_health.acks \in Seq(Ev!Ack) /\ e_health.journal \in Seq(EvRow)
      /\ e_health.gaps \in EvCounts /\ e_health.started \in Int /\ e_health.error \in BOOLEAN
  BY <1>1 DEF EvSound, EvIInv, EvCheckpointed, EvTypes, EvHealths
<1>5. Ev!Cardinality(e_run[r].gaps) \in EvCounts
  BY <1>3 DEF EvCounts
<1>6. /\ e_health' \in EvHealths
      /\ e_health'.acks = Ev!Checkpoint(e_run[r].acks, e_health.acks)
      /\ e_health'.journal = Ev!Checkpoint(e_run[r].journal, e_health.journal)
  <2>1. /\ Ev!Checkpoint(e_run[r].acks, e_health.acks) \in Seq(Ev!Ack)
        /\ Ev!Checkpoint(e_run[r].journal, e_health.journal) \in Seq(EvRow)
    BY <1>3, <1>4 DEF Ev!Checkpoint
  <2> QED
    BY <1>3, <1>4, <1>5, <2>1 DEF Ev!WriteHealth, EvHealths
<1>7. /\ e_witnessed' \in EvSnapshots
      /\ e_health'.acks = e_witnessed'.acks /\ e_health'.journal = e_witnessed'.journal
  <2>1. /\ Ev!Longer(e_run[r].acks, e_witnessed.acks) = Ev!Checkpoint(e_run[r].acks,
               e_health.acks)
        /\ Ev!Longer(e_run[r].journal,
               e_witnessed.journal) = Ev!Checkpoint(e_run[r].journal, e_health.journal)
    BY <1>4 DEF Ev!Longer, Ev!Checkpoint
  <2>2. /\ Ev!Checkpoint(e_run[r].acks, e_health.acks) \in Seq(Ev!Ack)
        /\ Ev!Checkpoint(e_run[r].journal, e_health.journal) \in Seq(EvRow)
    BY <1>3, <1>4 DEF Ev!Checkpoint
  <2> QED
    BY <1>6, <2>1, <2>2 DEF Ev!WriteHealth, EvSnapshots
<1>8. EvCheckpointed'
  <2>1. e_health' # Ev!NoHealth
    BY <1>6 DEF EvHealths, Ev!NoHealth
  <2> QED
    BY <1>2, <1>4, <1>7, <2>1 DEF EvCheckpointed
<1>9. EvStill'
  <2>1. e_restores = 0 => EvReached(e_health) /\ Ev!IsPrefix(e_run[r].acks, e_acks)
            /\ Ev!IsPrefix(e_run[r].journal, e_journal)
    BY <1>1, <1>4 DEF EvSound, EvIInv, EvStill
  <2> QED
    BY <1>2, <1>6, <2>1 DEF EvIInv, EvStill, EvReached, Ev!Checkpoint
<1>10. EvGapsFit'
  BY <1>2 DEF EvIInv, EvGapsFit, EvFits, EvUnacked, EvOver, Ev!At
<1>11. /\ e_gaps' \subseteq Ev!Ack \cup e_Packets
       /\ e_coverage' \in EvCoverages
  BY <1>2 DEF EvIInv, EvTypes
<1> QED
  BY <1>2, <1>6, <1>7, <1>8, <1>9, <1>10, <1>11, EvIdleSound, EvMonitorStep

LEMMA EvStepWriteError ==
    ASSUME EvIInv, NEW r \in e_Runs, Ev!WriteError(r)
    PROVE  EvIInv'
<1>1. e_run[r] \in EvComparing /\ EvSound(e_run[r]) /\ e_run[r].at \in {"degraded", "alarm"}
  BY EvStages DEF Ev!WriteError, EvIInv, EvTypes, EvRunsSound
<1>2. /\ UNCHANGED <<e_clock, e_sent, e_acks, e_journal, e_sending, e_dispatches,
                     e_restores>>
      /\ UNCHANGED <<e_coverage, e_gaps, e_witnessed>> /\ e_run' = [e_run EXCEPT ![r] = Ev!Idle]
  BY DEF Ev!WriteError, Ev!End, Ev!sourceVars, Ev!journalVars, Ev!senderVars, Ev!counters
<1>3. /\ e_coverage # Ev!NotActive /\ e_health # Ev!NoHealth /\ e_health \in EvHealths
  BY <1>1 DEF EvSound, EvIInv, EvCheckpointed, EvTypes
<1>4. e_health' \in EvHealths /\ e_health'.acks = e_health.acks
          /\ e_health'.journal = e_health.journal
  <2>1. 0 \in EvCounts /\ e_run[r].started \in Int
    BY <1>1, EvNone DEF EvComparing
  <2>2. CASE e_health' = e_health
    BY <1>3, <2>2
  <2>3. CASE e_health' = [e_health EXCEPT !.started = e_run[r].started, !.gaps = 0,
                 !.error = TRUE]
    BY <1>3, <2>1, <2>3 DEF EvHealths
  <2> QED
    BY <2>2, <2>3 DEF Ev!WriteError
<1>5. EvCheckpointed' /\ EvStill'
  <2>1. e_health' # Ev!NoHealth
    BY <1>4 DEF EvHealths, Ev!NoHealth
  <2> QED
    BY <1>2, <1>3, <1>4, <2>1 DEF EvIInv, EvCheckpointed, EvStill, EvReached
<1>6. EvGapsFit'
  BY <1>2 DEF EvIInv, EvGapsFit, EvFits, EvUnacked, EvOver, Ev!At
<1>7. /\ e_gaps' \subseteq Ev!Ack \cup e_Packets /\ e_witnessed' \in EvSnapshots
      /\ e_coverage' \in EvCoverages
  BY <1>2 DEF EvIInv, EvTypes
<1> QED
  BY <1>2, <1>4, <1>5, <1>6, <1>7, EvIdleSound, EvMonitorStep

LEMMA EvStepRunDies == ASSUME EvIInv, NEW r \in e_Runs, Ev!RunDies(r) PROVE EvIInv'
<1>1. /\ UNCHANGED <<e_clock, e_sent, e_acks, e_journal, e_sending, e_dispatches,
                     e_restores>>
      /\ UNCHANGED <<e_coverage, e_gaps, e_health, e_witnessed>>
             /\ e_run' = [e_run EXCEPT ![r] = Ev!Idle]
  BY DEF Ev!RunDies, Ev!Fault, Ev!End, Ev!sourceVars, Ev!journalVars, Ev!senderVars,
     Ev!storeVars
<1> QED
  BY <1>1, EvIdleSound, EvReads

-----------------------------------------------------------------------------
LEMMA EvTruthful == ASSUME EvIInv PROVE Ev!EvidenceTrue
<1>1. Ev!GapsAreTrue
  BY DEF EvIInv, EvGapsFit, EvFits, EvUnacked, Ev!GapsAreTrue
<1>2. Ev!NoFalseAlarm
  BY DEF EvIInv, EvRunsSound, EvSound, Ev!NoFalseAlarm, Ev!InRun
<1>3. Ev!RollbackSeen
  BY DEF EvIInv, EvRunsSound, EvSound, Ev!RollbackSeen
<1> QED
  BY <1>1, <1>2, <1>3 DEF Ev!EvidenceTrue

LEMMA EvSteps == ASSUME Ev!EvidenceAssumption, EvIInv, [Ev!Next]_Ev!vars PROVE EvIInv'
<1>1. CASE UNCHANGED Ev!vars
  <2>1. /\ UNCHANGED <<e_clock, e_sent, e_acks, e_journal, e_sending, e_dispatches>>
        /\ UNCHANGED <<e_coverage, e_gaps, e_health, e_witnessed, e_run, e_restores>>
    BY <1>1 DEF Ev!vars, Ev!sourceVars, Ev!journalVars, Ev!senderVars, Ev!storeVars,
       Ev!counters
  <2>2. e_clock' \in Nat
    BY <2>1 DEF EvIInv, EvTypes
  <2> QED
    BY <2>1, <2>2, EvQuiet
<1>2. CASE \E p \in e_Packets : Ev!DeliverOld(p) \/ Ev!Send(p) \/ Ev!AttemptFails(p)
               \/ Ev!SenderCrashes(p)
  BY <1>2, EvStepDeliverOld, EvStepDispatch, EvStepStartAttempt, EvStepRespond,
     EvStepAcknowledge, EvStepAttemptFails, EvStepSenderCrashes DEF Ev!Send
<1>3. CASE \E r \in e_Runs : Ev!Activate(r) \/ Ev!Monitor(r) \/ Ev!RunDies(r)
  BY <1>3, EvStepActivateStart, EvStepActivateJournalRead, EvStepActivateSeal, EvStepBegin,
     EvStepReadState, EvStepReadSource, EvStepReadJournal, EvStepRecordGaps,
     EvStepWriteHealth, EvStepWriteError, EvStepRunDies DEF Ev!Activate, Ev!Monitor
<1>4. CASE Ev!ActivateJournal \/ Ev!Tick \/ Ev!SetBack \/ Ev!Restore
  BY <1>4, EvStepTime, EvStepRestore
<1> QED
  BY <1>1, <1>2, <1>3, <1>4 DEF Ev!Next

(* While no database was put back, a recorded gap is of a delivery the journal does not   *)
(* prove and no run alarms; and a run that goes on to report has seen all that was        *)
(* checkpointed when it began: for any packets, senders and overlapping runs, also after  *)
(* crashes and with the clock set back (_live_reconciliation, _write_health).             *)
THEOREM EvidenceIsTrue == Ev!EvidenceAssumption => (Ev!Spec => []EvidenceTrue)
<1> SUFFICES ASSUME Ev!EvidenceAssumption PROVE Ev!Spec => []EvidenceTrue
  OBVIOUS
<1>1. EvIInv /\ [Ev!Next]_Ev!vars => EvIInv'
  BY EvSteps
<1>2. EvIInv => EvidenceTrue
  BY EvTruthful DEF EvidenceTrue
<1> QED
  BY EvInitIInv, <1>1, <1>2, PTL DEF Ev!Spec

-----------------------------------------------------------------------------
(* The worker watchdogs (Watchdog). *)

DogStages == {"query", "disable", "requery", "end", "poll",
           "quarantine", "move", "enable", "run", "await"}

DogTypes ==
    /\ d_files \subseteq Dog!Members
    /\ d_manifest = Dog!NoManifest \/ d_manifest \subseteq Dog!Members
    /\ d_aside \subseteq Dog!Members
    /\ d_worker \in {"none", "starting", "up", "hung", "ending"}
    /\ d_run \in {Dog!Idle} \cup [at : DogStages, stale : BOOLEAN, corrupt : BOOLEAN]
    /\ d_enabled \in BOOLEAN
    /\ d_beat \in {"none", "fresh", "stale", "future", "corrupt"}
    /\ d_kind \in d_Kinds

(* An unfinished quarantine keeps the fence: the task stays disabled and no process *)
(* runs, whoever carries it out.                                                    *)
DogKept == d_manifest # Dog!NoManifest => d_kind = "autopilot" /\ ~d_enabled /\ ~Dog!Running

(* A run that saw no corrupt store has no quarantine to finish. *)
DogSeen ==
    d_run.at # "idle" =>
      /\ d_manifest # Dog!NoManifest => d_run.corrupt = TRUE
      /\ d_run.corrupt = TRUE => d_kind = "autopilot"

(* From its fence to its lifting the task is disabled, *)
DogFenced ==
    d_kind = "autopilot" /\ d_run.at \in {"requery", "end", "poll", "quarantine", "move",
        "enable"}
      => ~d_enabled

(* the worker is gone before anything is moved, *)
DogAlone ==
    d_run.at \in {"quarantine", "move"} =>
      d_kind = "autopilot" /\ ~Dog!Running /\ d_run.corrupt = TRUE

(* and nothing is left to move when the fence is lifted. *)
DogLifted == d_run.at \in {"enable", "run", "await"} => d_manifest = Dog!NoManifest

DogIInv == DogTypes /\ DogKept /\ DogSeen /\ DogFenced /\ DogAlone /\ DogLifted

USE DEF Dog!Running, Dog!Idle, Dog!NoManifest

LEMMA DogStarts == Dog!Init => DogIInv
BY DEF Dog!Init, DogIInv, DogTypes, DogKept, DogSeen, DogFenced, DogAlone, DogLifted,
   Dog!Members

LEMMA DogNoneOfMembers == \A F : F \subseteq Dog!Members => F # Dog!NoManifest
BY DEF Dog!Members

DogRuns == [at : DogStages, stale : BOOLEAN, corrupt : BOOLEAN]

LEMMA DogGoing ==
    ASSUME DogTypes, d_run.at # "idle", NEW stage \in DogStages, Dog!Goto(stage)
    PROVE  /\ d_run' \in DogRuns
           /\ d_run'.at = stage
           /\ d_run'.corrupt = d_run.corrupt
BY DEF DogTypes, Dog!Goto, DogRuns, DogStages

LEMMA DogStopping ==
    ASSUME DogTypes, DogSeen, d_run.at # "idle", Dog!Stopped
    PROVE  \E stage \in {"run", "quarantine", "enable"} :
             /\ Dog!Goto(stage)
             /\ stage = "quarantine" => d_kind = "autopilot" /\ d_run.corrupt = TRUE
             /\ stage # "quarantine" => d_manifest = Dog!NoManifest \/ d_kind = "canary"
<1>1. d_run.corrupt \in BOOLEAN
  BY DEF DogTypes, DogStages
<1>2. CASE d_kind = "canary"
  BY <1>2 DEF Dog!Stopped
<1>3. CASE d_kind # "canary" /\ d_run.corrupt
  BY <1>1, <1>3 DEF Dog!Stopped, DogSeen
<1>4. CASE d_kind # "canary" /\ ~d_run.corrupt
  BY <1>1, <1>4 DEF Dog!Stopped, DogSeen
<1> QED
  BY <1>1, <1>2, <1>3, <1>4

LEMMA DogEnding ==
    ASSUME d_run' = Dog!Idle
    PROVE  d_run' \in {Dog!Idle} \cup DogRuns /\ d_run'.at = "idle"
OBVIOUS

LEMMA DogSteps == DogIInv /\ [Dog!Next]_Dog!vars => DogIInv'
<1> SUFFICES ASSUME DogIInv, [Dog!Next]_Dog!vars PROVE DogIInv'
  OBVIOUS
<1> USE DEF DogIInv, DogTypes, DogKept, DogSeen, DogFenced, DogAlone, DogLifted, DogStages,
                DogRuns, Dog!At, Dog!store, Dog!task
<1>1. CASE Dog!SchedulerStarts
  BY <1>1 DEF Dog!SchedulerStarts
<1>2. CASE Dog!Work
  <2>1. CASE Dog!Register
    <3>1. /\ d_worker = "starting" /\ d_worker' \in {"none", "up"}
          /\ d_files' \in {d_files, Dog!Members} /\ d_beat' \in {d_beat, "fresh"}
          /\ UNCHANGED <<d_kind, d_enabled, d_manifest, d_aside, d_run>>
      BY <2>1 DEF Dog!Register
    <3> QED
      BY <3>1
  <2>2. CASE Dog!Progress
    <3>1. /\ d_files' = Dog!Members /\ d_beat' \in {"fresh", "corrupt"}
          /\ UNCHANGED <<d_kind, d_enabled, d_worker, d_manifest, d_aside, d_run>>
      BY <2>2 DEF Dog!Progress
    <3> QED
      BY <3>1
  <2> QED
    BY <1>2, <2>1, <2>2 DEF Dog!Work
<1>3. CASE Dog!Grow
  BY <1>3 DEF Dog!Grow
<1>4. CASE Dog!Fault
  <2>1. /\ d_worker' # d_worker => d_worker # "none" /\ d_worker' \in {"none", "hung"}
        /\ d_files' = d_files \/ d_files' \subseteq Dog!Members
        /\ d_beat' \in {d_beat, "stale", "future", "corrupt"}
        /\ UNCHANGED <<d_kind, d_enabled, d_manifest, d_aside, d_run>>
    BY <1>4 DEF Dog!Fault, Dog!Members
  <2>2. DogTypes'
    BY <2>1
  <2>3. d_worker' # d_worker => d_manifest = Dog!NoManifest
            /\ d_run.at \notin {"quarantine", "move"}
    BY <2>1
  <2>4. DogKept' /\ DogAlone'
    BY <2>1, <2>3
  <2>5. DogSeen' /\ DogFenced' /\ DogLifted'
    BY <2>1
  <2> QED
    BY <2>2, <2>4, <2>5
<1>5. CASE Dog!Ended
  BY <1>5 DEF Dog!Ended
<1>6. CASE Dog!RunDies
  BY <1>6 DEF Dog!RunDies
<1>7. CASE Dog!Check
  <2>1. Dog!Stale \in BOOLEAN /\ Dog!Corrupt \in BOOLEAN
    <3>1. Dog!Corrupt \in BOOLEAN
      BY Zenon DEF Dog!Corrupt
    <3>2. /\ d_kind = "canary" => Dog!Stale = (d_beat \in {"none", "stale"})
          /\ d_kind # "canary" => Dog!Stale = (Dog!Corrupt \/ "main" \notin d_files
                 \/ d_beat # "fresh")
      BY DEF Dog!Stale
    <3>3. \A P \in BOOLEAN, Q \in BOOLEAN : (P \/ Q) \in BOOLEAN
      OBVIOUS
    <3>4. /\ (d_beat \in {"none", "stale"}) \in BOOLEAN
          /\ ("main" \notin d_files \/ d_beat # "fresh") \in BOOLEAN
      OBVIOUS
    <3> QED
      BY <3>1, <3>2, <3>3, <3>4
  <2>2. /\ d_run' \in DogRuns
        /\ d_run'.at = "query"
        /\ d_run'.corrupt = (d_kind = "autopilot" /\ Dog!Corrupt)
    BY <1>7, <2>1 DEF Dog!Check
  <2>3. d_manifest # Dog!NoManifest => Dog!Corrupt
    BY DEF Dog!Corrupt
  <2> QED
    BY <1>7, <2>2, <2>3 DEF Dog!Check
<1>8. CASE Dog!Query
  <2>1. CASE d_run' = Dog!Idle
    BY <1>8, <2>1 DEF Dog!Query
  <2>2. CASE d_run' # Dog!Idle
    <3>1. PICK stage \in {"disable", "end", "run"} :
            /\ Dog!Goto(stage)
            /\ stage # "disable" => d_kind # "autopilot"
      BY <1>8, <2>2 DEF Dog!Query
    <3> QED
      BY <1>8, <3>1, DogGoing DEF Dog!Query
  <2> QED
    BY <2>1, <2>2
<1>9. CASE Dog!Disable
  BY <1>9, DogGoing DEF Dog!Disable
<1>10. CASE Dog!Requery
  <2>1. CASE Dog!Running
    BY <1>10, <2>1, DogGoing DEF Dog!Requery
  <2>2. CASE ~Dog!Running
    <3>1. PICK stage \in {"run", "quarantine", "enable"} :
             /\ Dog!Goto(stage)
             /\ stage = "quarantine" => d_kind = "autopilot" /\ d_run.corrupt = TRUE
             /\ stage # "quarantine" => d_manifest = Dog!NoManifest \/ d_kind = "canary"
      BY <1>10, <2>2, DogStopping DEF Dog!Requery
    <3> QED
      BY <1>10, <2>2, <3>1, DogGoing DEF Dog!Requery
  <2> QED
    BY <2>1, <2>2
<1>11. CASE Dog!EndTask
  BY <1>11, DogGoing DEF Dog!EndTask
<1>12. CASE Dog!Poll
  <2>1. PICK stage \in {"run", "quarantine", "enable"} :
           /\ Dog!Goto(stage)
           /\ stage = "quarantine" => d_kind = "autopilot" /\ d_run.corrupt = TRUE
           /\ stage # "quarantine" => d_manifest = Dog!NoManifest \/ d_kind = "canary"
    BY <1>12, DogStopping DEF Dog!Poll
  <2> QED
    BY <1>12, <2>1, DogGoing DEF Dog!Poll
<1>13. CASE Dog!GiveUp
  BY <1>13 DEF Dog!GiveUp
<1>14. CASE Dog!Quarantine
  BY <1>14, DogGoing, DogNoneOfMembers DEF Dog!Quarantine
<1>15. CASE Dog!Move
  <2>1. /\ d_files' \subseteq Dog!Members /\ d_aside' \subseteq Dog!Members
        /\ d_manifest' = d_manifest \/ d_manifest' = Dog!NoManifest
        /\ d_beat' \in {d_beat, "none"}
        /\ UNCHANGED <<d_kind, d_enabled, d_worker>>
    BY <1>15 DEF Dog!Move
  <2>2. d_run' \in {Dog!Idle, d_run} \/ (Dog!Goto("enable") /\ d_manifest' = Dog!NoManifest)
    BY <1>15 DEF Dog!Move
  <2> QED
    BY <1>15, <2>1, <2>2, DogGoing DEF Dog!Move
<1>16. CASE Dog!Enable
  BY <1>16, DogGoing DEF Dog!Enable
<1>17. CASE Dog!Run
  BY <1>17, DogGoing DEF Dog!Run
<1>18. CASE Dog!Await
  BY <1>18 DEF Dog!Await
<1>19. CASE UNCHANGED Dog!vars
  BY <1>19 DEF Dog!vars
<1> QED
  BY <1>1, <1>2, <1>3, <1>4, <1>5, <1>6, <1>7, <1>8, <1>9, <1>10, <1>11, <1>12, <1>13,
     <1>14, <1>15, <1>16, <1>17, <1>18, <1>19 DEF Dog!Next, Dog!Watch

(* While a corrupt store is moved aside, or was left half moved by a run that was killed, *)
(* no worker runs on what is left of it, for any faults of worker, files and runs         *)
(* (run_autopilot_watchdog).                                                              *)
THEOREM QuarantinesAlone == Dog!Spec => []QuarantineAlone
<1>1. DogIInv => QuarantineAlone
  BY DEF QuarantineAlone, DogIInv, DogKept, Dog!QuarantineAlone
<1> QED
  BY DogStarts, DogSteps, <1>1, PTL DEF Dog!Spec

-----------------------------------------------------------------------------
(* The services that have theorems of their own, as they stand beside the others. *)

(* What is said of a signal's company facts is true: its job, attempts and receipt agree   *)
(* for any workers, deaths and late answers, and it is given up only when its window or    *)
(* its attempts are over (feature_capture.py).                                             *)
THEOREM FeaturesAreTrue ==
    ASSUME Features!FeatureAssumption
    PROVE  Features!Spec => []FeaturesTrue
BY Features!WhatIsSaidIsTrue DEF FeaturesTrue

(* However autopilots call and die and the clock moves, the child of a packet is launched  *)
(* at most once and the launches of a symbol are a cadence apart                           *)
(* (option_chain_admission.py).                                                            *)
THEOREM ChildrenAreSpaced ==
    ASSUME Options!AdmissionAssumption
    PROVE  Options!Spec => []ChainsSpaced
BY Options!ChainsAreSpaced DEF ChainsSpaced

(* However passes overlap, die or run with a clock set back, the trial store stays one that *)
(* its evaluation accepts, with the entries in time and within the slots; either one worker *)
(* runs the passes, or no clock set back reaches from a session's cutoff to before an       *)
(* earlier open (trial_runtime.py, trial_finalizer.py, inference.py).                       *)
THEOREM TrialsAreSound ==
    ASSUME Passes!TrialAssumption, Passes!Steady
    PROVE  Passes!Spec => []TrialSound
BY Passes!TrialIsSound DEF TrialSound

=============================================================================
