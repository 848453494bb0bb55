--------------------------- MODULE SettlementProtocol ---------------------------
(***************************************************************************)
(* AgentJobManager, EvaluatorRegistry and ReputationBridge deployed        *)
(* together.  The job manager asks the registry who is eligible and whom   *)
(* it draws, in the transaction that needs the answer, and tells the       *)
(* bridge how a job ended.  It never calls slash(); only a job manager     *)
(* wired before or after it may.  The owner of the three contracts may     *)
(* make any of its calls at any moment.                                    *)
(***************************************************************************)
EXTENDS ReputationBridge, Integers, FiniteSets, Sequences

CONSTANTS
    Manager,                   \* the AgentJobManager of this deployment
    Bridge,                    \* the ReputationBridge of this deployment
    OtherOutcomes,             \* what another job manager may report to the bridge
    StartTime, GOVERNANCE_DELAY, MaxTime, NoValue,
    \* EvaluatorRegistry
    Stakers, JobManagers, Registry, Amounts, Minimums, WarmupPeriods,
    InitialStakeBalance, InitialMinimum, InitialWarmup, MIN_WARMUP_PERIOD,
    MAX_WARMUP_PERIOD, MAX_ACTIVE_EVALUATORS,
    \* AgentJobManager
    Accounts, Treasuries, Bridges, Tokens, Escrow, Deliverables, NoHash,
    AcceptingVerifiers, Budgets, Deadlines, FeeRates, EvaluationFees, InitialFeeRate,
    InitialTreasury, InitialBridge, InitialBalance, BPS, MAX_FEE_RATE,
    EVALUATOR_SHARE_BPS, MIN_BUDGET, MIN_DEADLINE_OFFSET, MIN_EVALUATION_WINDOW,
    EVALUATION_GRACE_PERIOD, MAX_EXTENSION, MaxJobs, MaxReopens, Clients, Providers

VARIABLES
    now,
    vrtBalanceOf, evaluators, activeEvaluators, published, minEvaluatorStake,
    warmupPeriod, jobManager, slashPaused, registryChanges, lastBelow,
    balanceOf, jobs, nextJobId, pendingRefunds, allowedTokens, feeRate,
    evaluationFee, treasury, reputationBridge, pendingChanges, outcomes, unbacked

Stakes == INSTANCE EvaluatorRegistry WITH
    balanceOf <- vrtBalanceOf, pendingChanges <- registryChanges,
    InitialBalance <- InitialStakeBalance

\* What AgentJobManager leaves open, who is eligible, is the registry's answer.
Jobs == INSTANCE AgentJobManager WITH
    eligible <- {a \in Stakers : Stakes!IsEligible(a)},
    Evaluators <- Stakers

ASSUME DeploymentAssumption ==
    /\ Manager \in JobManagers
    /\ Bridge \in Bridges

\* The constants of the registry (RegistryAssumption of EvaluatorRegistry).
ASSUME StakesAssumption ==
    /\ IsFiniteSet(Stakers)
    /\ NoAddress \notin Stakers \cup JobManagers
    /\ Registry \notin Stakers
    /\ Amounts \subseteq Nat
    /\ Minimums \subseteq Nat
    /\ WarmupPeriods \subseteq Nat
    /\ InitialStakeBalance \in Nat
    /\ InitialMinimum \in Nat \ {0}
    /\ MIN_WARMUP_PERIOD \in Nat
    /\ MAX_WARMUP_PERIOD \in Nat
    /\ InitialWarmup \in MIN_WARMUP_PERIOD .. MAX_WARMUP_PERIOD
    /\ MAX_ACTIVE_EVALUATORS \in Nat
    /\ GOVERNANCE_DELAY \in Nat \ {0}
    /\ StartTime \in Nat
    /\ StartTime >= MAX_WARMUP_PERIOD

\* Those of the job manager (the assumptions of AgentJobManager).
ASSUME JobsAssumption ==
    /\ IsFiniteSet(Accounts)
    /\ Stakers \subseteq Accounts
    /\ Treasuries \subseteq Accounts
    /\ NoAddress \notin Accounts \cup Bridges \cup Tokens \cup AcceptingVerifiers
    /\ Escrow \notin Accounts
    /\ NoHash \notin Deliverables
    /\ InitialTreasury \in Accounts
    /\ InitialBridge \in Bridges \cup {NoAddress}
    /\ BPS \in Nat \ {0}
    /\ MAX_FEE_RATE \in 0 .. BPS
    /\ EVALUATOR_SHARE_BPS \in 0 .. BPS
    /\ MIN_BUDGET \in Nat \ {0}
    /\ Budgets \subseteq Nat
    /\ FeeRates \subseteq Nat
    /\ EvaluationFees \subseteq Nat
    /\ InitialFeeRate \in 0 .. MAX_FEE_RATE
    /\ InitialBalance \in Nat
    /\ MIN_DEADLINE_OFFSET \in Nat
    /\ MIN_EVALUATION_WINDOW \in Nat
    /\ EVALUATION_GRACE_PERIOD \in 0 .. MIN_EVALUATION_WINDOW
    /\ MAX_EXTENSION \in Nat
    /\ GOVERNANCE_DELAY \in Nat \ {0}
    /\ Deadlines \subseteq Nat
    /\ StartTime \in Nat \ {0}
    /\ MaxTime \in Nat \ {0}
    /\ MaxJobs \in Nat \ {0}
    /\ MaxReopens \in Nat
    /\ Clients \subseteq Accounts
    /\ Providers \subseteq Accounts

stakeVars == <<vrtBalanceOf, evaluators, activeEvaluators, published, minEvaluatorStake,
               warmupPeriod, jobManager, slashPaused, registryChanges>>
managerVars == <<balanceOf, jobs, nextJobId, pendingRefunds, allowedTokens, feeRate,
                 evaluationFee, treasury, reputationBridge, pendingChanges, outcomes,
                 unbacked>>
vars == <<now, stakeVars, lastBelow, managerVars, bridgeVars>>

\* The job manager knows its registry from the constructor and its bridge from its
\* timelock (scripts/executeGovernance.ts); the registry and the bridge do not know
\* the job manager yet.
Init == Stakes!Init /\ Jobs!Init /\ BridgeInit

TimePasses ==
    /\ Stakes!Tick
    /\ UNCHANGED <<managerVars, bridgeVars>>

\* A job manager other than this one may have been wired, and slash.
SlashByOther ==
    \E caller \in JobManagers \ {Manager}, a \in Stakers, amount \in Amounts :
        Stakes!Slash(caller, a, amount)

RegistryCall ==
    /\ Stakes!StakerCall \/ SlashByOther \/ Stakes!OwnerCall
    /\ UNCHANGED <<managerVars, bridgeVars>>

\* fund() without an evaluator takes what assignEvaluator() returned, which answers
\* its job manager only.
DrawnByRegistry == \A j \in Jobs!JobIds :
    jobs[j].status = "Open" /\ jobs'[j].status = "Funded" /\ jobs[j].evaluator = NoAddress
        => /\ jobManager = Manager
           /\ jobs'[j].evaluator \in Stakes!Assigned(jobs[j].provider, jobs[j].client)

\* complete() and reject() call the bridge in force, which may be another one; when it
\* does not trust the caller the call reverts inside the try and the settlement stands.
BridgeTold ==
    IF outcomes' = outcomes \/ reputationBridge # Bridge THEN UNCHANGED bridgeVars
    ELSE \E outcome \in outcomes' \ outcomes : RecordJobOutcome(Manager, outcome)

JobCall ==
    /\ UNCHANGED <<now, stakeVars>>
    /\ Jobs!JobManagerCall
    /\ DrawnByRegistry
    /\ BridgeTold

\* The owner of the job manager.
ManagerOwner ==
    /\ UNCHANGED <<now, stakeVars>>
    /\ Jobs!TimelockCall \/ Jobs!WhitelistCall
    /\ UNCHANGED bridgeVars

\* Another job manager, while the bridge trusts it.  It numbers its jobs from 1 as this
\* one does, so the reputation registry is told about the same identifiers.
ReportByOther ==
    /\ \E caller \in BridgeManagers \ {Manager}, outcome \in OtherOutcomes :
          RecordJobOutcome(caller, outcome)
    /\ UNCHANGED <<now, stakeVars, managerVars>>

BridgeOwner ==
    /\ BridgeOwnerCall
    /\ UNCHANGED <<now, stakeVars, managerVars>>

Next ==
    /\ \/ TimePasses \/ RegistryCall \/ JobCall \/ ManagerOwner
       \/ BridgeOwner \/ ReportByOther
    /\ Stakes!RecordBelow

Spec == Init /\ [][Next]_vars

-----------------------------------------------------------------------------
(* The behaviours of Spec in which the owner only wires the contracts and      *)
(* nobody stores metadata, for the runs.                                       *)

StakeMoves ==
    /\ \E a \in Stakers, amount \in Amounts :
          Stakes!Stake(a, amount) \/ Stakes!Unstake(a, amount)
    /\ UNCHANGED <<managerVars, bridgeVars>>

\* The registry learns its job manager through its timelock.
Wiring ==
    /\ \/ Stakes!ProposeJobManager(Manager) \/ Stakes!ExecuteJobManager(Manager)
       \/ \E key \in DOMAIN registryChanges : Stakes!CancelProposal(key)
    /\ UNCHANGED <<managerVars, bridgeVars>>

\* Bound: nothing is accepted twice from the other job manager.
ReportOnce ==
    /\ ReportByOther
    /\ \A s \in BagToSet(signals') : s.by # Manager => signals'[s] = 1

QuietNext ==
    /\ TimePasses \/ StakeMoves \/ Wiring \/ JobCall \/ BridgeOwner \/ ReportOnce
    /\ Stakes!RecordBelow

QuietSpec == Init /\ [][QuietNext]_vars

-----------------------------------------------------------------------------
TypeOK == Stakes!TypeOK /\ Jobs!TypeOK /\ BridgeTypeOK

\* Money enters escrow only under an evaluator that is independent and has held the
\* minimum stake for the whole warm-up up to that moment, whether the client chose it
\* when the job was created or the registry drew it, and whatever it withdrew or
\* staked again in between.
FundedUnderWarmStake ==
    [][\A j \in Jobs!JobIds :
         jobs[j].status = "Open" /\ jobs'[j].status = "Funded" =>
             LET a == jobs'[j].evaluator
             IN  /\ a \notin {jobs[j].client, jobs[j].provider}
                 /\ a \in Stakers
                 /\ evaluators[a].stakedAmount >= minEvaluatorStake
                 /\ lastBelow[a] + warmupPeriod <= now]_vars

\* What the reputation registry has accepted from this job manager agrees with how each
\* attempt ended: nobody is rated twice for it, a provider badly only when an evaluator
\* rejected its work, an evaluator only for an approval, through changes of the bridge's
\* two addresses, reports of another manager, partial failures and reopenings.
SignalsMatchVerdicts ==
    \A s \in {r \in BagToSet(signals) : r.by = Manager} :
        /\ signals[s] = 1
        /\ s.positive <=> s.attempt = jobs[s.job].cycle /\ jobs[s.job].status = "Completed"
        /\ s.attempt = jobs[s.job].cycle =>
              /\ jobs[s.job].status \in {"Completed", "Rejected"}
              /\ s.positive => {s.agent, s.counterpart} = {jobs[s.job].provider, jobs[s.job].evaluator}
              /\ ~s.positive => s.agent = jobs[s.job].provider

\* "The EvaluatorRegistry requires evaluators to lock protocol tokens as collateral":
\* an evaluator that holds a job has the minimum at stake until it is settled.
VerdictsCollateralised ==
    \A j \in Jobs!JobIds : Jobs!InEscrow(j) =>
        evaluators[jobs[j].evaluator].stakedAmount >= minEvaluatorStake

=============================================================================
