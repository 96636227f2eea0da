----------------------------- MODULE Activation -----------------------------
(***************************************************************************)
(* research/activation.py: the one-time activation of the research trial.  *)
(* An operator prepares a boundary in the future: an active registry is    *)
(* derived from the deployed draft, sealed in the activation store while   *)
(* the scientific stores are locked and empty, and published for review;   *)
(* deploying it is the operator's own act.  Every worker checks the        *)
(* deployed registry at the start of a pass (validate_deployed_registry_   *)
(* state): before the boundary it attests that the registry was armed, and *)
(* from the boundary on it records evidence only under an attested one.    *)
(*                                                                         *)
(* Times are readings of the machine's clock.  The git state of the        *)
(* checkout and the digests of reviewed files are taken to be in order.    *)
(***************************************************************************)
EXTENDS Integers

CONSTANTS
    Operators,      \* processes of prepare_activation
    Workers,        \* processes that record evidence
    Definitions,    \* registry_definition_sha256
    Boundaries,     \* activated_at an operator may ask for
    Lead,           \* MINIMUM_ACTIVATION_LEAD
    Edited,         \* active registries that were altered by hand
    MaxClock,       \* the last time of the model
    MaxSetbacks,    \* bound on how often the clock is set back
    MaxCrashes      \* bound on the operators' crashes

\* A registry document; prepared and at mean nothing in a draft.
Registries == [status : {"draft", "active"}, definition : Definitions,
               prepared : 0 .. MaxClock, at : 0 .. MaxClock]
Draft(d) == [status |-> "draft", definition |-> d, prepared |-> 0, at |-> 0]

ActivationAssumption ==
    /\ Lead \in Nat \ {0}
    /\ MaxClock \in Nat
    /\ MaxSetbacks \in Nat
    /\ MaxCrashes \in Nat
    /\ Boundaries \subseteq 0 .. MaxClock
    /\ Edited \subseteq {r \in Registries : r.status = "active"}

VARIABLES
    clock,
    receipt,    \* activation_receipt: the sealed registry
    armed,      \* activation_armed_attestation: a registry and a time
    artifacts,  \* registries published for review
    deployed,   \* the registry file every process reads
    preparing,  \* preparing[o]: where prepare_activation stands, with its registry
    pass,       \* pass[w]: the registry and the time a worker's pass began with
    evidence,   \* rows of the scientific stores: the registry and the time of their pass
    setbacks,
    crashes

vars == <<clock, receipt, armed, artifacts, deployed, preparing, pass, evidence, setbacks,
          crashes>>

NoRegistry == [status |-> "none"]
NoArmed    == [registry |-> NoRegistry, time |-> 0]
Asleep     == [at |-> "idle", registry |-> NoRegistry]
NoPass     == [registry |-> NoRegistry, began |-> 0]

\* A row that an earlier build recorded without an activation.
EarlierRow == [registry |-> NoRegistry, began |-> 0]

Init ==
    /\ clock = 0
    /\ receipt = NoRegistry
    /\ armed = NoArmed
    /\ artifacts = {}
    /\ deployed \in {Draft(d) : d \in Definitions}
    /\ preparing = [o \in Operators |-> Asleep]
    /\ pass = [w \in Workers |-> NoPass]
    /\ evidence \in {{}, {EarlierRow}}
    /\ setbacks = 0
    /\ crashes = 0

-----------------------------------------------------------------------------
(* prepare_activation *)

\* The registry is derived from the draft, or the sealed one is taken up again.
Prepare(o, at) ==
    /\ preparing[o] = Asleep
    /\ deployed.status = "draft"
    /\ \/ /\ receipt = NoRegistry
          /\ at - clock >= Lead
          /\ preparing' = [preparing EXCEPT ![o] =
               [at |-> "sealing",
                registry |-> [status |-> "active", definition |-> deployed.definition,
                              prepared |-> clock, at |-> at]]]
       \/ /\ receipt # NoRegistry
          /\ receipt.at = at
          /\ clock < at
          /\ receipt.definition = deployed.definition
          /\ preparing' = [preparing EXCEPT ![o] = [at |-> "sealing", registry |-> receipt]]
    /\ UNCHANGED <<clock, receipt, armed, artifacts, deployed, pass, evidence, setbacks, crashes>>

\* Mutant: the store keeps what it has and says nothing.
SealSilently(o) ==
    /\ preparing[o].at = "sealing"
    /\ receipt' = IF evidence = {} /\ receipt = NoRegistry THEN preparing[o].registry ELSE receipt
    /\ preparing' = [preparing EXCEPT ![o].at = "publishing"]
    /\ UNCHANGED <<clock, armed, artifacts, deployed, pass, evidence, setbacks, crashes>>

\* ActivationStore.put, under _locked_empty_stores; another registry is prohibited.
Seal(o) ==
    LET registry == preparing[o].registry
    IN  /\ preparing[o].at = "sealing"
        /\ \/ /\ evidence = {}
              /\ receipt \in {NoRegistry, registry}
              /\ receipt' = registry
              /\ preparing' = [preparing EXCEPT ![o].at = "publishing"]
           \/ /\ evidence # {} \/ receipt \notin {NoRegistry, registry}
              /\ preparing' = [preparing EXCEPT ![o] = Asleep]
              /\ UNCHANGED receipt
        /\ UNCHANGED <<clock, armed, artifacts, deployed, pass, evidence, setbacks, crashes>>

\* _publish_registry_artifact.
Publish(o) ==
    /\ preparing[o].at = "publishing"
    /\ artifacts' = artifacts \cup {preparing[o].registry}
    /\ preparing' = [preparing EXCEPT ![o] = Asleep]
    /\ UNCHANGED <<clock, receipt, armed, deployed, pass, evidence, setbacks, crashes>>

Crash(o) ==
    /\ preparing[o] # Asleep
    /\ crashes < MaxCrashes
    /\ crashes' = crashes + 1
    /\ preparing' = [preparing EXCEPT ![o] = Asleep]
    /\ UNCHANGED <<clock, receipt, armed, artifacts, deployed, pass, evidence, setbacks>>

Deployable == artifacts \cup {Draft(d) : d \in Definitions} \cup Edited

\* The operator deploys a reviewed registry, a draft, or one altered by hand.
Deploy(registry) ==
    /\ registry # deployed
    /\ deployed' = registry
    /\ UNCHANGED <<clock, receipt, armed, artifacts, preparing, pass, evidence, setbacks, crashes>>

-----------------------------------------------------------------------------
(* The workers' passes *)

\* validate_deployed_registry_state up to the boundary; the first attestation stays.
Arm(w) ==
    /\ pass[w] = NoPass
    /\ deployed = receipt
    /\ clock < deployed.at
    /\ armed = NoArmed
    /\ armed' = [registry |-> deployed, time |-> clock]
    /\ UNCHANGED <<clock, receipt, artifacts, deployed, preparing, pass, evidence, setbacks,
                   crashes>>

\* Mutant: the attestation is not asked for.
NotAsked == TRUE

\* verify_armed.
Attested == armed.registry = deployed /\ armed.time < deployed.at

\* A pass that finds the deployed registry active; any other is idle or refused.
Begin(w) ==
    /\ pass[w] = NoPass
    /\ deployed = receipt
    /\ clock >= deployed.at
    /\ Attested
    /\ pass' = [pass EXCEPT ![w] = [registry |-> deployed, began |-> clock]]
    /\ UNCHANGED <<clock, receipt, armed, artifacts, deployed, preparing, evidence, setbacks,
                   crashes>>

\* The pass commits a row, or ends without one.
Record(w) ==
    /\ pass[w] # NoPass
    /\ evidence' \in {evidence, evidence \cup {pass[w]}}
    /\ pass' = [pass EXCEPT ![w] = NoPass]
    /\ UNCHANGED <<clock, receipt, armed, artifacts, deployed, preparing, setbacks, crashes>>

Tick ==
    /\ clock < MaxClock
    /\ clock' = clock + 1
    /\ UNCHANGED <<receipt, armed, artifacts, deployed, preparing, pass, evidence, setbacks,
                   crashes>>

SetBack ==
    /\ setbacks < MaxSetbacks
    /\ clock > 0
    /\ clock' = clock - 1
    /\ setbacks' = setbacks + 1
    /\ UNCHANGED <<receipt, armed, artifacts, deployed, preparing, pass, evidence, crashes>>

Next ==
    \/ \E o \in Operators, at \in Boundaries : Prepare(o, at)
    \/ \E o \in Operators : Seal(o) \/ Publish(o) \/ Crash(o)
    \/ \E registry \in Deployable : Deploy(registry)
    \/ \E w \in Workers : Arm(w) \/ Begin(w) \/ Record(w)
    \/ Tick \/ SetBack

Spec == Init /\ [][Next]_vars

-----------------------------------------------------------------------------
(* Properties *)

Times == 0 .. MaxClock

TypeOK ==
    /\ clock \in Times
    /\ receipt \in Registries \cup {NoRegistry}
    /\ armed \in [registry : Registries \cup {NoRegistry}, time : Times]
    /\ artifacts \subseteq Registries
    /\ deployed \in Registries
    /\ preparing \in [Operators -> [at : {"idle", "sealing", "publishing"},
                                    registry : Registries \cup {NoRegistry}]]
    /\ pass \in [Workers -> [registry : Registries \cup {NoRegistry}, began : Times]]
    /\ evidence \subseteq [registry : Registries \cup {NoRegistry}, began : Times]
    /\ setbacks \in 0 .. MaxSetbacks
    /\ crashes \in 0 .. MaxCrashes

\* ActivationStore: whatever two operators prepare, publish again after a crash and deploy,
\* and whenever the workers look, the published registry is the one that was sealed, over
\* empty stores and a lead before its boundary.
OneActivation ==
    /\ artifacts \subseteq {receipt}
    /\ receipt # NoRegistry => EarlierRow \notin evidence /\ receipt.at - receipt.prepared >= Lead

\* verify_armed: every row is of a pass that began at or after the boundary of the sealed
\* registry, and that registry was in place before its boundary.
Prospective ==
    \A e \in evidence \ {EarlierRow} :
        /\ e.registry = receipt
        /\ armed.registry = e.registry
        /\ armed.time < e.registry.at
        /\ e.registry.at <= e.began

\* The trial has one activation, and all its evidence was recorded under it.
ProspectiveOnly == OneActivation /\ Prospective
=============================================================================
