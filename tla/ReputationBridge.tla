---------------------------- MODULE ReputationBridge ----------------------------
(***************************************************************************)
(* contracts/core/ReputationBridge.sol: forwards the outcome of a job to   *)
(* an ERC-8004 reputation registry, which is outside this repository and   *)
(* may fail at every call.  `signals` is what that registry has accepted;  *)
(* who reported a signal and the attempt it is about are history fields.   *)
(***************************************************************************)
EXTENDS Naturals, Bags

CONSTANTS
    BridgeManagers,    \* addresses passed to setJobManager
    Registries,        \* addresses passed to setReputationRegistry
    NoAddress

ASSUME BridgeAssumption == NoAddress \notin BridgeManagers \cup Registries

VARIABLES
    trustedManager,    \* jobManager
    reputationRegistry,
    signals

bridgeVars == <<trustedManager, reputationRegistry, signals>>

\* Nothing is recorded by a bridge without a manager.
BridgeTypeOK ==
    /\ trustedManager \in BridgeManagers \cup {NoAddress}
    /\ reputationRegistry \in Registries \cup {NoAddress}
    /\ IsABag(signals)
    /\ trustedManager = NoAddress => signals = EmptyBag

BridgeInit ==
    /\ trustedManager = NoAddress
    /\ reputationRegistry = NoAddress
    /\ signals = EmptyBag

Signal(caller, outcome, agent, counterpart) ==
    [by |-> caller, job |-> outcome.job, attempt |-> outcome.cycle, agent |-> agent,
     counterpart |-> counterpart, positive |-> outcome.completed]

\* Slip: the evaluator is rated with its provider, also for a rejection.
SignalsOfBothAlways(caller, outcome) ==
    {Signal(caller, outcome, outcome.provider, outcome.evaluator),
     Signal(caller, outcome, outcome.evaluator, outcome.provider)}

\* The evaluator is rated for an approval only.
SignalsOf(caller, outcome) ==
    {Signal(caller, outcome, outcome.provider, outcome.evaluator)} \cup
        IF outcome.completed
        THEN {Signal(caller, outcome, outcome.evaluator, outcome.provider)}
        ELSE {}

\* _tryRecordOutcome catches each failure by itself: any part may arrive.
RecordJobOutcome(caller, outcome) ==
    /\ caller = trustedManager
    /\ IF reputationRegistry = NoAddress THEN UNCHANGED signals
       ELSE \E accepted \in SUBSET SignalsOf(caller, outcome) :
                signals' = signals (+) SetToBag(accepted)
    /\ UNCHANGED <<trustedManager, reputationRegistry>>

\* Slip: the zero address is accepted.
SetJobManagerUnchecked(manager) ==
    /\ trustedManager' = manager
    /\ UNCHANGED <<reputationRegistry, signals>>

SetJobManager(manager) ==
    /\ manager # NoAddress
    /\ trustedManager' = manager
    /\ UNCHANGED <<reputationRegistry, signals>>

SetReputationRegistry(registry) ==
    /\ reputationRegistry' = registry
    /\ UNCHANGED <<trustedManager, signals>>

BridgeOwnerCall ==
    \/ \E manager \in BridgeManagers \cup {NoAddress} : SetJobManager(manager)
    \/ \E registry \in Registries \cup {NoAddress} : SetReputationRegistry(registry)

=============================================================================
