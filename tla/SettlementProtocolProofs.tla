------------------------ MODULE SettlementProtocolProofs ------------------------
(***************************************************************************)
(* The three contracts together, for every value of the constants.  Every  *)
(* behaviour of the deployment is one of EvaluatorRegistry and one of      *)
(* AgentJobManager, in which the calls to the other contracts are steps    *)
(* that change nothing or only what the module calls its environment.  The *)
(* theorems about each contract therefore hold of the deployment, and what *)
(* relates the contracts to each other is proved from them.                *)
(*                                                                         *)
(* Stakes and Jobs of SettlementProtocol are instances of the models;      *)
(* StakesProved and JobsProved are the same instances of the modules that  *)
(* prove theorems about them, and the first lemmas of each part identify   *)
(* the operators of the two.                                               *)
(***************************************************************************)
EXTENDS SettlementProtocol, TLAPS

StakesProved == INSTANCE RegistryProofs WITH
    balanceOf <- vrtBalanceOf, pendingChanges <- registryChanges,
    InitialBalance <- InitialStakeBalance

JobsProved == INSTANCE SettlementProofs WITH
    eligible <- {a \in Stakers : Stakes!IsEligible(a)},
    Evaluators <- Stakers

LEMMA FiniteStakers == StakesProved!IsFiniteSet(Stakers)
BY StakesAssumption DEF IsFiniteSet, StakesProved!IsFiniteSet

LEMMA FiniteAccounts == JobsProved!IsFiniteSet(Accounts)
BY JobsAssumption DEF IsFiniteSet, JobsProved!IsFiniteSet

-----------------------------------------------------------------------------
(* The deployment and the registry *)

LEMMA SameRosters ==
    ASSUME NEW a, NEW remaining, NEW newMinimum
    PROVE  /\ Stakes!AfterLoss(a, remaining) = StakesProved!AfterLoss(a, remaining)
           /\ Stakes!Sweep(newMinimum) = StakesProved!Sweep(newMinimum)
<1> USE DEF Stakes!Deactivate, StakesProved!Deactivate, Stakes!RemoveFromActive,
            StakesProved!RemoveFromActive, Stakes!Last, StakesProved!Last,
            Stakes!Front, StakesProved!Front
<1>1. Stakes!AfterLoss(a, remaining) = StakesProved!AfterLoss(a, remaining)
    BY DEF Stakes!AfterLoss, StakesProved!AfterLoss
<1>2. Stakes!Sweep(newMinimum) = StakesProved!Sweep(newMinimum)
    BY DEF Stakes!Sweep, StakesProved!Sweep, Stakes!SweepRound, StakesProved!SweepRound
<1> QED BY <1>1, <1>2

LEMMA RegistryInitMaps == Stakes!Init => StakesProved!Init
BY DEF Stakes!Init, StakesProved!Init, Stakes!NoEvaluator, StakesProved!NoEvaluator,
       Stakes!NoChange, StakesProved!NoChange

LEMMA StakerCallMaps == Stakes!StakerCall => StakesProved!StakerCall
<1> USE DEF Stakes!ruleVars, StakesProved!ruleVars, Stakes!stakeVars, StakesProved!stakeVars,
            Stakes!SetRoster, StakesProved!SetRoster
<1>1. ASSUME NEW a, NEW amount, Stakes!Stake(a, amount)
      PROVE  StakesProved!Stake(a, amount)
    BY <1>1 DEF Stakes!Stake, StakesProved!Stake
<1>2. ASSUME NEW a, NEW amount, Stakes!Unstake(a, amount)
      PROVE  StakesProved!Unstake(a, amount)
    BY <1>2, SameRosters DEF Stakes!Unstake, StakesProved!Unstake
<1>3. ASSUME NEW a, Stakes!SetMetadata(a) PROVE StakesProved!SetMetadata(a)
    BY <1>3 DEF Stakes!SetMetadata, StakesProved!SetMetadata
<1> QED BY <1>1, <1>2, <1>3 DEF Stakes!StakerCall, StakesProved!StakerCall

LEMMA SlashMaps == SlashByOther => StakesProved!JobManagerCall
<1>1. ASSUME NEW caller, NEW a, NEW amount, Stakes!Slash(caller, a, amount)
      PROVE  StakesProved!Slash(caller, a, amount)
    BY <1>1, SameRosters
       DEF Stakes!Slash, StakesProved!Slash, Stakes!SetRoster, StakesProved!SetRoster,
           Stakes!ruleVars, StakesProved!ruleVars
<1> QED BY <1>1 DEF SlashByOther, StakesProved!JobManagerCall

LEMMA RegistryOwnerMaps == Stakes!OwnerCall => StakesProved!OwnerCall
<1> USE DEF Stakes!Propose, StakesProved!Propose, Stakes!Execute, StakesProved!Execute,
            Stakes!NoChange, StakesProved!NoChange, Stakes!stakeVars,
            StakesProved!stakeVars, Stakes!SetRoster, StakesProved!SetRoster
<1>1. ASSUME NEW paused, Stakes!SetSlashPaused(paused)
      PROVE  StakesProved!SetSlashPaused(paused)
    BY <1>1 DEF Stakes!SetSlashPaused, StakesProved!SetSlashPaused
<1>2. ASSUME NEW period, Stakes!SetWarmupPeriod(period)
      PROVE  StakesProved!SetWarmupPeriod(period)
    BY <1>2 DEF Stakes!SetWarmupPeriod, StakesProved!SetWarmupPeriod
<1>3. ASSUME NEW manager,
             Stakes!ProposeJobManager(manager) \/ Stakes!ExecuteJobManager(manager)
      PROVE  \/ StakesProved!ProposeJobManager(manager)
             \/ StakesProved!ExecuteJobManager(manager)
    BY <1>3 DEF Stakes!ProposeJobManager, StakesProved!ProposeJobManager,
                Stakes!ExecuteJobManager, StakesProved!ExecuteJobManager
<1>4. ASSUME NEW minimum, \/ Stakes!ProposeMinEvaluatorStake(minimum)
                          \/ Stakes!ExecuteMinEvaluatorStake(minimum)
      PROVE  \/ StakesProved!ProposeMinEvaluatorStake(minimum)
             \/ StakesProved!ExecuteMinEvaluatorStake(minimum)
    BY <1>4, SameRosters
       DEF Stakes!ProposeMinEvaluatorStake, StakesProved!ProposeMinEvaluatorStake,
           Stakes!ExecuteMinEvaluatorStake, StakesProved!ExecuteMinEvaluatorStake
<1>5. ASSUME NEW key, Stakes!CancelProposal(key) PROVE StakesProved!CancelProposal(key)
    BY <1>5 DEF Stakes!CancelProposal, StakesProved!CancelProposal
<1> QED BY <1>1, <1>2, <1>3, <1>4, <1>5 DEF Stakes!OwnerCall, StakesProved!OwnerCall

\* The history variable is up to date, so that recording it again after a step that
\* leaves the registry alone changes nothing.
BelowRecorded ==
    /\ lastBelow = [a \in Stakers |-> lastBelow[a]]
    /\ \A a \in Stakers : evaluators[a].stakedAmount < minEvaluatorStake =>
           lastBelow[a] = now

LEMMA BelowInvariant == Spec => []BelowRecorded
<1>1. Init => BelowRecorded
    BY DEF Init, Stakes!Init, BelowRecorded
<1>2. BelowRecorded /\ [Next]_vars => BelowRecorded'
    <2>1. ASSUME Stakes!RecordBelow PROVE BelowRecorded'
        BY <2>1 DEF Stakes!RecordBelow, BelowRecorded
    <2>2. ASSUME BelowRecorded, UNCHANGED vars PROVE BelowRecorded'
        BY <2>2 DEF BelowRecorded, vars, stakeVars
    <2> QED BY <2>1, <2>2 DEF Next
<1> QED BY <1>1, <1>2, PTL DEF Spec

LEMMA RegistryUntouched ==
    ASSUME BelowRecorded, UNCHANGED <<now, stakeVars>>, Stakes!RecordBelow
    PROVE  UNCHANGED StakesProved!vars
<1>1. lastBelow' = lastBelow
    BY DEF BelowRecorded, stakeVars, Stakes!RecordBelow
<1> QED BY <1>1 DEF stakeVars, StakesProved!vars, StakesProved!registryVars,
                    StakesProved!stakeVars, StakesProved!ruleVars

LEMMA RegistryStepMaps ==
    BelowRecorded /\ [Next]_vars => [StakesProved!Next]_(StakesProved!vars)
<1> SUFFICES ASSUME BelowRecorded, [Next]_vars
             PROVE  StakesProved!Next \/ UNCHANGED StakesProved!vars
    OBVIOUS
<1>1. CASE UNCHANGED vars
    BY <1>1 DEF vars, stakeVars, StakesProved!vars, StakesProved!registryVars,
                StakesProved!stakeVars, StakesProved!ruleVars
<1>2. Stakes!RecordBelow => StakesProved!RecordBelow
    BY DEF Stakes!RecordBelow, StakesProved!RecordBelow
<1>3. TimePasses => StakesProved!Tick
    BY DEF TimePasses, Stakes!Tick, StakesProved!Tick, Stakes!stakeVars, Stakes!ruleVars,
           StakesProved!stakeVars, StakesProved!ruleVars
<1>4. RegistryCall => \/ StakesProved!StakerCall \/ StakesProved!JobManagerCall
                      \/ StakesProved!OwnerCall
    BY StakerCallMaps, SlashMaps, RegistryOwnerMaps DEF RegistryCall
<1>5. JobCall \/ ManagerOwner \/ BridgeOwner \/ ReportByOther => UNCHANGED <<now, stakeVars>>
    BY DEF JobCall, ManagerOwner, BridgeOwner, ReportByOther
<1> QED BY <1>1, <1>2, <1>3, <1>4, <1>5, RegistryUntouched DEF Next, StakesProved!Next

\* In the deployment the registry behaves as EvaluatorRegistry says, whatever the
\* other contracts do in between.
THEOREM ImplementsRegistry == Spec => StakesProved!Spec
<1>1. Init => StakesProved!Init
    BY RegistryInitMaps DEF Init
<1> QED BY <1>1, BelowInvariant, RegistryStepMaps, PTL DEF Spec, StakesProved!Spec

-----------------------------------------------------------------------------
(* The deployment and the job manager *)

LEMMA JobsInitMaps == Jobs!Init => JobsProved!Init
BY DEF Jobs!Init, JobsProved!Init, Jobs!NoJob, JobsProved!NoJob, Jobs!NoChange,
       JobsProved!NoChange, Jobs!JobIds, JobsProved!JobIds, Jobs!Holders,
       JobsProved!Holders

\* The operators that the calls share.
LEMMA SameJobOperators ==
    /\ Jobs!JobIds = JobsProved!JobIds
    /\ \A j : Jobs!JobExists(j) <=> JobsProved!JobExists(j)
    /\ \A j : Jobs!InEscrow(j) <=> JobsProved!InEscrow(j)
    /\ \A budget : Jobs!ComputeFee(budget) = JobsProved!ComputeFee(budget)
BY DEF Jobs!JobIds, JobsProved!JobIds, Jobs!JobExists, JobsProved!JobExists,
       Jobs!InEscrow, JobsProved!InEscrow, Jobs!ComputeFee, JobsProved!ComputeFee

LEMMA SettlementMaps ==
    ASSUME NEW caller, NEW j
    PROVE  /\ Jobs!SettleComplete(caller, j) => JobsProved!SettleComplete(caller, j)
           /\ Jobs!Reject(caller, j) => JobsProved!Reject(caller, j)
           /\ Jobs!ClaimExpired(caller, j) => JobsProved!ClaimExpired(caller, j)
<1> USE SameJobOperators
    DEF Jobs!Transfer, JobsProved!Transfer, Jobs!DistributeFee, JobsProved!DistributeFee,
        Jobs!EvaluatorShare, JobsProved!EvaluatorShare, Jobs!ForwardOutcome,
        JobsProved!ForwardOutcome, Jobs!CreditRefund, JobsProved!CreditRefund,
        Jobs!envVars, JobsProved!envVars, Jobs!govVars, JobsProved!govVars
<1>1. Jobs!SettleComplete(caller, j) => JobsProved!SettleComplete(caller, j)
    BY DEF Jobs!SettleComplete, JobsProved!SettleComplete
<1>2. Jobs!Reject(caller, j) => JobsProved!Reject(caller, j)
    BY DEF Jobs!Reject, JobsProved!Reject, Jobs!RejectAuthorized,
           JobsProved!RejectAuthorized
<1>3. Jobs!ClaimExpired(caller, j) => JobsProved!ClaimExpired(caller, j)
    BY DEF Jobs!ClaimExpired, JobsProved!ClaimExpired
<1> QED BY <1>1, <1>2, <1>3

LEMMA JobManagerCallMaps == Jobs!JobManagerCall => JobsProved!JobManagerCall
<1> USE SameJobOperators
    DEF Jobs!Transfer, JobsProved!Transfer, Jobs!NoJob, JobsProved!NoJob,
        Jobs!envVars, JobsProved!envVars, Jobs!govVars, JobsProved!govVars
<1>1. ASSUME NEW caller, NEW provider, NEW evaluator, NEW token, NEW deadline,
             Jobs!CreateJob(caller, provider, evaluator, token, deadline)
      PROVE  JobsProved!CreateJob(caller, provider, evaluator, token, deadline)
    BY <1>1 DEF Jobs!CreateJob, JobsProved!CreateJob
<1>2. ASSUME NEW caller, NEW token, Jobs!ClaimRefund(caller, token)
      PROVE  JobsProved!ClaimRefund(caller, token)
    BY <1>2 DEF Jobs!ClaimRefund, JobsProved!ClaimRefund
<1>3. ASSUME NEW caller, NEW j, NEW amount, Jobs!SetBudget(caller, j, amount)
      PROVE  JobsProved!SetBudget(caller, j, amount)
    BY <1>3 DEF Jobs!SetBudget, JobsProved!SetBudget
<1>4. ASSUME NEW caller, NEW j, NEW amount, Jobs!Fund(caller, j, amount)
      PROVE  JobsProved!Fund(caller, j, amount)
    BY <1>4 DEF Jobs!Fund, JobsProved!Fund, Jobs!Assignable, JobsProved!Assignable
<1>5. ASSUME NEW caller, NEW j, NEW deliverable, Jobs!Submit(caller, j, deliverable)
      PROVE  JobsProved!Submit(caller, j, deliverable)
    BY <1>5 DEF Jobs!Submit, JobsProved!Submit
<1>6. ASSUME NEW caller, NEW j, Jobs!Complete(caller, j) \/ Jobs!Reject(caller, j)
                                  \/ Jobs!ClaimExpired(caller, j)
      PROVE  JobsProved!Complete(caller, j) \/ JobsProved!Reject(caller, j)
                 \/ JobsProved!ClaimExpired(caller, j)
    BY <1>6, SettlementMaps DEF Jobs!Complete, JobsProved!Complete
<1>7. ASSUME NEW caller, NEW j, NEW verifier, Jobs!CompleteAttested(caller, j, verifier)
      PROVE  JobsProved!CompleteAttested(caller, j, verifier)
    BY <1>7, SettlementMaps DEF Jobs!CompleteAttested, JobsProved!CompleteAttested
<1>8. ASSUME NEW caller, NEW j, NEW deadline, Jobs!ExtendDeadline(caller, j, deadline)
      PROVE  JobsProved!ExtendDeadline(caller, j, deadline)
    BY <1>8 DEF Jobs!ExtendDeadline, JobsProved!ExtendDeadline
<1>9. ASSUME NEW caller, NEW j, NEW provider, NEW deadline,
             Jobs!Reopen(caller, j, provider, deadline)
      PROVE  JobsProved!Reopen(caller, j, provider, deadline)
    BY <1>9 DEF Jobs!Reopen, JobsProved!Reopen
<1> HIDE SameJobOperators
    DEF Jobs!Transfer, JobsProved!Transfer, Jobs!NoJob, JobsProved!NoJob,
        Jobs!envVars, JobsProved!envVars, Jobs!govVars, JobsProved!govVars
<1>10. ASSUME NEW caller \in Accounts, NEW j \in Jobs!JobIds,
              \/ \E amount \in Budgets :
                   Jobs!SetBudget(caller, j, amount) \/ Jobs!Fund(caller, j, amount)
              \/ \E deliverable \in Deliverables \cup {NoHash} :
                   Jobs!Submit(caller, j, deliverable)
              \/ Jobs!Complete(caller, j)
              \/ \E verifier \in AcceptingVerifiers :
                   Jobs!CompleteAttested(caller, j, verifier)
              \/ Jobs!Reject(caller, j)
              \/ Jobs!ClaimExpired(caller, j)
              \/ \E deadline \in Deadlines : Jobs!ExtendDeadline(caller, j, deadline)
              \/ \E provider \in Providers \cup {NoAddress}, deadline \in Deadlines :
                   Jobs!Reopen(caller, j, provider, deadline)
       PROVE  JobsProved!JobManagerCall
    <2>1. j \in JobsProved!JobIds
        BY SameJobOperators
    <2> QED BY <1>3, <1>4, <1>5, <1>6, <1>7, <1>8, <1>9, <1>10, <2>1
            DEF JobsProved!JobManagerCall
<1>11. ASSUME \/ \E caller \in Clients, provider \in Providers \cup {NoAddress},
                     token \in Tokens, evaluator \in Stakers \cup {NoAddress},
                     deadline \in Deadlines :
                       Jobs!CreateJob(caller, provider, evaluator, token, deadline)
              \/ \E caller \in Accounts, token \in Tokens :
                       Jobs!ClaimRefund(caller, token)
       PROVE  JobsProved!JobManagerCall
    BY <1>1, <1>2, <1>11 DEF JobsProved!JobManagerCall
<1> QED BY <1>10, <1>11 DEF Jobs!JobManagerCall

LEMMA ManagerOwnerMaps ==
    /\ Jobs!TimelockCall => JobsProved!TimelockCall
    /\ Jobs!WhitelistCall => JobsProved!WhitelistCall
<1> USE DEF Jobs!Propose, JobsProved!Propose, Jobs!Execute, JobsProved!Execute,
            Jobs!NoChange, JobsProved!NoChange, Jobs!envVars, JobsProved!envVars,
            Jobs!jobVars, JobsProved!jobVars
<1>1. ASSUME NEW rate, Jobs!ProposeFeeRate(rate) \/ Jobs!ExecuteFeeRate(rate)
      PROVE  JobsProved!ProposeFeeRate(rate) \/ JobsProved!ExecuteFeeRate(rate)
    BY <1>1 DEF Jobs!ProposeFeeRate, JobsProved!ProposeFeeRate, Jobs!ExecuteFeeRate,
                JobsProved!ExecuteFeeRate
<1>2. ASSUME NEW fee, Jobs!ProposeEvaluationFee(fee) \/ Jobs!ExecuteEvaluationFee(fee)
      PROVE  \/ JobsProved!ProposeEvaluationFee(fee)
             \/ JobsProved!ExecuteEvaluationFee(fee)
    BY <1>2 DEF Jobs!ProposeEvaluationFee, JobsProved!ProposeEvaluationFee,
                Jobs!ExecuteEvaluationFee, JobsProved!ExecuteEvaluationFee
<1>3. ASSUME NEW address, Jobs!ProposeTreasury(address) \/ Jobs!ExecuteTreasury(address)
      PROVE  JobsProved!ProposeTreasury(address) \/ JobsProved!ExecuteTreasury(address)
    BY <1>3 DEF Jobs!ProposeTreasury, JobsProved!ProposeTreasury, Jobs!ExecuteTreasury,
                JobsProved!ExecuteTreasury
<1>4. ASSUME NEW bridge, \/ Jobs!ProposeReputationBridge(bridge)
                         \/ Jobs!ExecuteReputationBridge(bridge)
      PROVE  \/ JobsProved!ProposeReputationBridge(bridge)
             \/ JobsProved!ExecuteReputationBridge(bridge)
    BY <1>4 DEF Jobs!ProposeReputationBridge, JobsProved!ProposeReputationBridge,
                Jobs!ExecuteReputationBridge, JobsProved!ExecuteReputationBridge
<1>5. ASSUME NEW key, Jobs!CancelProposal(key) PROVE JobsProved!CancelProposal(key)
    BY <1>5 DEF Jobs!CancelProposal, JobsProved!CancelProposal
<1>6. ASSUME NEW token, Jobs!AllowToken(token) \/ Jobs!DisallowToken(token)
      PROVE  JobsProved!AllowToken(token) \/ JobsProved!DisallowToken(token)
    BY <1>6 DEF Jobs!AllowToken, JobsProved!AllowToken, Jobs!DisallowToken,
                JobsProved!DisallowToken
<1>7. Jobs!TimelockCall => JobsProved!TimelockCall
    BY <1>1, <1>2, <1>3, <1>4, <1>5 DEF Jobs!TimelockCall, JobsProved!TimelockCall
<1>8. Jobs!WhitelistCall => JobsProved!WhitelistCall
    BY <1>6 DEF Jobs!WhitelistCall, JobsProved!WhitelistCall
<1> QED BY <1>7, <1>8

\* What the registry answers is a set of its stakers, and it answers the same as long
\* as time and the registry stand still.
LEMMA JobsEnvironment ==
    /\ {a \in Stakers : Stakes!IsEligible(a)}' \in SUBSET Stakers
    /\ UNCHANGED <<now, stakeVars>> =>
           {a \in Stakers : Stakes!IsEligible(a)}' = {a \in Stakers : Stakes!IsEligible(a)}
BY DEF stakeVars, Stakes!IsEligible

LEMMA JobsUntouched ==
    ASSUME UNCHANGED <<now, stakeVars, managerVars>>
    PROVE  UNCHANGED JobsProved!vars
BY JobsEnvironment DEF managerVars, JobsProved!vars, JobsProved!envVars, JobsProved!jobVars,
                       JobsProved!govVars

LEMMA JobsStepMaps == [Next]_vars => [JobsProved!Next]_(JobsProved!vars)
<1> SUFFICES ASSUME [Next]_vars
             PROVE  JobsProved!Next \/ UNCHANGED JobsProved!vars
    OBVIOUS
<1> USE DEF JobsProved!jobVars, JobsProved!govVars, managerVars
<1>1. CASE TimePasses
    BY <1>1, JobsEnvironment DEF TimePasses, Stakes!Tick, JobsProved!Tick, JobsProved!Next
<1>2. CASE RegistryCall
    <2>1. now' = now
        BY <1>2 DEF RegistryCall, SlashByOther, Stakes!StakerCall, Stakes!OwnerCall,
                    Stakes!Stake, Stakes!Unstake, Stakes!SetMetadata, Stakes!Slash,
                    Stakes!SetSlashPaused, Stakes!SetWarmupPeriod, Stakes!Propose,
                    Stakes!Execute, Stakes!ProposeJobManager, Stakes!ExecuteJobManager,
                    Stakes!ProposeMinEvaluatorStake, Stakes!ExecuteMinEvaluatorStake,
                    Stakes!CancelProposal
    <2> QED BY <1>2, <2>1, JobsEnvironment
            DEF RegistryCall, JobsProved!RegistryStep, JobsProved!Next
<1>3. CASE JobCall
    BY <1>3, JobManagerCallMaps DEF JobCall, JobsProved!Next
<1>4. CASE ManagerOwner
    BY <1>4, ManagerOwnerMaps DEF ManagerOwner, JobsProved!Next
<1>5. CASE BridgeOwner \/ ReportByOther
    BY <1>5, JobsUntouched DEF BridgeOwner, ReportByOther
<1>6. CASE UNCHANGED vars
    BY <1>6, JobsUntouched DEF vars
<1> QED BY <1>1, <1>2, <1>3, <1>4, <1>5, <1>6 DEF Next

\* In the deployment the job manager behaves as AgentJobManager says, with the
\* registry's answer where that module leaves eligibility open.
THEOREM ImplementsJobManager == Spec => JobsProved!Spec
<1>1. Init => JobsProved!Init
    BY JobsInitMaps DEF Init
<1> QED BY <1>1, JobsStepMaps, PTL DEF Spec, JobsProved!Spec

-----------------------------------------------------------------------------
(* What was proved about each contract holds of the deployment *)

RegistryFacts ==
    StakesProved!TypeOK /\ StakesProved!RosterConsistent /\ StakesProved!StakesBacked
        /\ StakesProved!EligibleWarmedUp

JobFacts ==
    /\ JobsProved!LifecycleInv /\ JobsProved!OutcomesInv /\ JobsProved!OutcomesOnRecord
    /\ JobsProved!DeliverableOfThisAttempt /\ JobsProved!EscrowAccounting

\* Stakes are backed, the roster is consistent and temporary stake never qualifies,
\* also between the calls of the other contracts.
THEOREM RegistryFactsHold == Spec => []RegistryFacts
<1> USE StakesAssumption, FiniteStakers
<1>1. StakesProved!Spec => []StakesProved!TypeOK
    BY StakesProved!TypeCorrect
<1>2. StakesProved!Spec => []StakesProved!RosterConsistent
    BY StakesProved!RosterHolds
<1>3. StakesProved!Spec => []StakesProved!StakesBacked
    BY StakesProved!StakesHeld
<1>4. StakesProved!Spec => []StakesProved!EligibleWarmedUp
    BY StakesProved!EligibleHolds
<1> QED BY <1>1, <1>2, <1>3, <1>4, ImplementsRegistry, PTL DEF RegistryFacts

\* The escrow's books balance and outcomes agree with verdicts while the registry
\* decides who may be an evaluator.
THEOREM JobFactsHold == Spec => []JobFacts
<1> USE JobsAssumption, FiniteAccounts
<1>1. JobsProved!Spec => []JobsProved!LifecycleInv
    BY JobsProved!LifecycleInvariant
<1>2. JobsProved!Spec => []JobsProved!OutcomesInv
    BY JobsProved!OutcomesInvariant
<1>3. JobsProved!Spec => []JobsProved!OutcomesOnRecord
    BY JobsProved!OutcomesNameParties
<1>4. JobsProved!Spec => []JobsProved!DeliverableOfThisAttempt
    BY JobsProved!DeliverableHolds
<1>5. JobsProved!Spec => []JobsProved!EscrowAccounting
    BY JobsProved!EscrowBalanced
<1> QED BY <1>1, <1>2, <1>3, <1>4, <1>5, ImplementsJobManager, PTL DEF JobFacts

\* What a client reads of its job moves along JobChain in the deployment too.
THEOREM RefinesJobChain == Spec => JobsProved!ImplementsJobChain
<1>1. JobsProved!Spec => JobsProved!ImplementsJobChain
    BY JobsProved!RefinesJobChain, JobsAssumption, FiniteAccounts
<1> QED BY <1>1, ImplementsJobManager, PTL

\* Neither contract gives the other a way round its rules: seats and seniority are
\* lost only below the minimum, idle stake that meets it is the lowered minimum's
\* doing, terms, evaluation window and refunds are kept, whatever else is called.
THEOREM RulesKept ==
    Spec => /\ StakesProved!SeniorityKept
            /\ StakesProved!OnlyLoweringIdles
            /\ JobsProved!FundedTermsFrozen
            /\ JobsProved!EvaluationWindowHonoured
            /\ JobsProved!RefundsOnlyPaidOut
<1>1. StakesProved!Spec => StakesProved!SeniorityKept
    BY StakesProved!SeniorityHolds, StakesAssumption, FiniteStakers
<1>2. StakesProved!Spec => StakesProved!OnlyLoweringIdles
    BY StakesProved!IdleHolds, StakesAssumption, FiniteStakers
<1>3. JobsProved!Spec => JobsProved!FundedTermsFrozen
    BY JobsProved!TermsFrozen, JobsAssumption, FiniteAccounts
<1>4. JobsProved!Spec => JobsProved!EvaluationWindowHonoured
    BY JobsProved!WindowHonoured, JobsAssumption, FiniteAccounts
<1>5. JobsProved!Spec => JobsProved!RefundsOnlyPaidOut
    BY JobsProved!RefundsPaidOut, JobsAssumption, FiniteAccounts
<1> QED BY <1>1, <1>2, <1>3, <1>4, <1>5, ImplementsRegistry, ImplementsJobManager, PTL

-----------------------------------------------------------------------------
(* Types *)

LEMMA BagGrows ==
    ASSUME NEW bag, IsABag(bag), NEW S
    PROVE  /\ IsABag(bag (+) SetToBag(S))
           /\ BagToSet(bag (+) SetToBag(S)) = BagToSet(bag) \cup S
           /\ \A e \in BagToSet(bag) \ S : (bag (+) SetToBag(S))[e] = bag[e]
           /\ \A e \in S \ BagToSet(bag) : (bag (+) SetToBag(S))[e] = 1
BY DEF IsABag, (+), BagToSet, SetToBag

\* What a step may do to the bridge.
LEMMA BridgeCases ==
    ASSUME [Next]_vars
    PROVE  \/ UNCHANGED bridgeVars
           \/ BridgeOwnerCall /\ outcomes' = outcomes
           \/ \E outcome \in outcomes' \ outcomes : RecordJobOutcome(Manager, outcome)
           \/ \E caller \in BridgeManagers \ {Manager}, outcome \in OtherOutcomes :
                 RecordJobOutcome(caller, outcome)
BY DEF Next, TimePasses, RegistryCall, JobCall, BridgeTold, ManagerOwner, BridgeOwner,
       ReportByOther, vars, managerVars

\* The registry accepts any part of what the bridge forwards.
LEMMA SignalsAccepted ==
    ASSUME NEW caller, NEW outcome, RecordJobOutcome(caller, outcome)
    PROVE  \/ signals' = signals
           \/ \E accepted \in SUBSET SignalsOf(caller, outcome) :
                  signals' = signals (+) SetToBag(accepted)
BY DEF RecordJobOutcome

LEMMA BridgeStepType == BridgeTypeOK /\ [Next]_vars => BridgeTypeOK'
<1> SUFFICES ASSUME BridgeTypeOK, [Next]_vars PROVE BridgeTypeOK'
    OBVIOUS
<1>1. CASE UNCHANGED bridgeVars
    BY <1>1 DEF bridgeVars, BridgeTypeOK
<1>2. CASE BridgeOwnerCall
    BY <1>2 DEF BridgeOwnerCall, SetJobManager, SetReputationRegistry, BridgeTypeOK
<1>3. ASSUME NEW caller \in BridgeManagers \cup {Manager}, NEW outcome,
             RecordJobOutcome(caller, outcome)
      PROVE  BridgeTypeOK'
    <2>1. /\ trustedManager' = trustedManager /\ trustedManager' # NoAddress
          /\ reputationRegistry' = reputationRegistry
        BY <1>3, BridgeAssumption, DeploymentAssumption, StakesAssumption
           DEF RecordJobOutcome
    <2>2. IsABag(signals')
        BY <1>3, SignalsAccepted, BagGrows DEF BridgeTypeOK
    <2> QED BY <2>1, <2>2 DEF BridgeTypeOK
<1> QED BY <1>1, <1>2, <1>3, BridgeCases

\* Type correctness of the deployment: in particular a bridge nobody has wired has
\* forwarded nothing.
THEOREM TypeCorrect == Spec => []TypeOK
<1>1. Init => BridgeTypeOK
    BY DEF Init, BridgeInit, BridgeTypeOK, IsABag, EmptyBag, SetToBag
<1>2. Spec => []BridgeTypeOK
    BY <1>1, BridgeStepType, PTL DEF Spec
<1>3. RegistryFacts => Stakes!TypeOK
    BY DEF RegistryFacts, Stakes!TypeOK, StakesProved!TypeOK, Stakes!Evaluator,
           StakesProved!Evaluator, Stakes!NoChange, StakesProved!NoChange,
           Stakes!Change, StakesProved!Change
<1>4. JobFacts => JobsProved!TypeOK
    BY DEF JobFacts, JobsProved!LifecycleInv, JobsProved!PartiesInv
<1>5. JobsProved!TypeOK => Jobs!TypeOK
    BY DEF JobsProved!TypeOK, Jobs!TypeOK, Jobs!Holders, JobsProved!Holders, Jobs!JobIds,
           JobsProved!JobIds, Jobs!Job, JobsProved!Job, Jobs!JobStatus,
           JobsProved!JobStatus, Jobs!Change, JobsProved!Change, Jobs!NoChange,
           JobsProved!NoChange, Jobs!Outcome, JobsProved!Outcome
<1> QED BY <1>2, <1>3, <1>4, <1>5, RegistryFactsHold, JobFactsHold, PTL DEF TypeOK

-----------------------------------------------------------------------------
(* Money enters escrow under warm stake *)

\* fund(): the evaluator it records, chosen or drawn, is independent and warm in the
\* registry's state of that transaction, since both contracts move in one step.
THEOREM FundedUnderStake == Spec => FundedUnderWarmStake
<1>1. ASSUME RegistryFacts, JobFacts, [JobsProved!Next]_(JobsProved!vars)
      PROVE  \A j \in Jobs!JobIds :
                 jobs[j].status = "Open" /\ jobs'[j].status = "Funded" =>
                     LET a == jobs'[j].evaluator
                     IN  /\ a \notin {jobs[j].client, jobs[j].provider}
                         /\ a \in Stakers
                         /\ evaluators[a].stakedAmount >= minEvaluatorStake
                         /\ lastBelow[a] + warmupPeriod <= now
    <2> SUFFICES ASSUME NEW j \in Jobs!JobIds, jobs[j].status = "Open",
                        jobs'[j].status = "Funded"
                 PROVE  LET a == jobs'[j].evaluator
                        IN  /\ a \notin {jobs[j].client, jobs[j].provider}
                            /\ a \in Stakers
                            /\ evaluators[a].stakedAmount >= minEvaluatorStake
                            /\ lastBelow[a] + warmupPeriod <= now
        OBVIOUS
    <2> DEFINE a == jobs'[j].evaluator
    <2>1. JobsProved!JobTransition(j)
        <3>1. j \in JobsProved!JobIds /\ JobsProved!LifecycleInv
            BY SameJobOperators, <1>1 DEF JobFacts
        <3> QED BY <1>1, <3>1, JobsProved!StepOfJob, JobsAssumption, FiniteAccounts
    <2>2. JobsProved!FundedNow(j)
        BY <2>1 DEF JobsProved!JobTransition, JobsProved!Created, JobsProved!Budgeted,
                    JobsProved!SubmittedNow, JobsProved!Settled, JobsProved!Extended,
                    JobsProved!Reopened
    <2>3. /\ a \notin {jobs[j].client, jobs[j].provider}
          /\ a \in Stakers /\ Stakes!IsEligible(a)
        BY <2>2 DEF JobsProved!FundedNow
    <2> HIDE DEF a
    <2>4. StakesProved!IsEligible(a)
        BY <2>3 DEF Stakes!IsEligible, StakesProved!IsEligible
    <2>5. lastBelow[a] + warmupPeriod <= now
        BY <1>1, <2>3, <2>4 DEF RegistryFacts, StakesProved!EligibleWarmedUp
    <2>6. evaluators[a].stakedAmount >= minEvaluatorStake
        BY <1>1, <2>3, <2>4 DEF RegistryFacts, StakesProved!RosterConsistent,
                                StakesProved!IsEligible
    <2> QED BY <2>3, <2>5, <2>6 DEF a
<1> QED BY <1>1, RegistryFactsHold, JobFactsHold, ImplementsJobManager, PTL
        DEF FundedUnderWarmStake, JobsProved!Spec

-----------------------------------------------------------------------------
(* Signals *)

\* Every signal of this job manager was accepted once, and is about an outcome that it
\* reported.
SignalsInv ==
    \A s \in BagToSet(signals) : s.by = Manager =>
        signals[s] = 1 /\ \E outcome \in outcomes : s \in SignalsOf(Manager, outcome)

\* Outcomes are never withdrawn.
LEMMA OutcomesStay ==
    ASSUME JobFacts, [JobsProved!Next]_(JobsProved!vars)
    PROVE  outcomes \subseteq outcomes'
<1>1. CASE outcomes' = outcomes
    BY <1>1
<1>2. CASE outcomes' # outcomes
    <2>1. JobsProved!LifecycleInv
        BY DEF JobFacts
    <2>2. \E j \in JobsProved!JobIds, verdict \in BOOLEAN : JobsProved!Reported(j, verdict)
        BY <1>2, <2>1, JobsProved!OutcomeReported, JobsAssumption, FiniteAccounts
    <2> QED BY <2>2 DEF JobsProved!Reported
<1> QED BY <1>1, <1>2

\* A signal names who reported it and its attempt, so the signals of two managers or
\* about two attempts are different.
LEMMA SignalNamesAttempt ==
    ASSUME NEW caller, NEW outcome, NEW s \in SignalsOf(caller, outcome)
    PROVE  /\ s.by = caller
           /\ s.job = outcome.job /\ s.attempt = outcome.cycle
           /\ s.positive = outcome.completed
           /\ \/ s.agent = outcome.provider /\ s.counterpart = outcome.evaluator
              \/ /\ outcome.completed
                 /\ s.agent = outcome.evaluator /\ s.counterpart = outcome.provider
BY DEF SignalsOf, Signal

LEMMA SignalsStep ==
    ASSUME JobFacts, JobFacts', BridgeTypeOK, SignalsInv, [Next]_vars
    PROVE  SignalsInv'
<1>1. outcomes \subseteq outcomes'
    BY JobsStepMaps, OutcomesStay
<1>2. ASSUME signals' = signals PROVE SignalsInv'
    BY <1>1, <1>2 DEF SignalsInv
<1>3. ASSUME NEW outcome \in outcomes' \ outcomes,
             NEW accepted \in SUBSET SignalsOf(Manager, outcome),
             signals' = signals (+) SetToBag(accepted)
      PROVE  SignalsInv'
    <2>1. \A s \in accepted : s \notin BagToSet(signals)
        <3> SUFFICES ASSUME NEW s \in accepted, s \in BagToSet(signals) PROVE FALSE
            OBVIOUS
        <3>1. PICK earlier \in outcomes : s \in SignalsOf(Manager, earlier)
            BY SignalNamesAttempt DEF SignalsInv
        <3>2. earlier.job = outcome.job /\ earlier.cycle = outcome.cycle
            BY <3>1, SignalNamesAttempt
        <3> QED BY <1>1, <3>2 DEF JobFacts, JobsProved!OutcomesInv,
                                  JobsProved!OutcomesMatchVerdicts
    <2>2. /\ BagToSet(signals') = BagToSet(signals) \cup accepted
          /\ \A s \in BagToSet(signals) \ accepted : signals'[s] = signals[s]
          /\ \A s \in accepted \ BagToSet(signals) : signals'[s] = 1
        BY <1>3, BagGrows DEF BridgeTypeOK
    <2> QED BY <1>1, <2>1, <2>2 DEF SignalsInv
<1>4. BridgeOwnerCall => signals' = signals
    BY DEF BridgeOwnerCall, SetJobManager, SetReputationRegistry
<1>5. ASSUME NEW caller \in BridgeManagers \ {Manager}, NEW outcome,
             NEW accepted \in SUBSET SignalsOf(caller, outcome),
             signals' = signals (+) SetToBag(accepted)
      PROVE  SignalsInv'
    <2>1. /\ BagToSet(signals') = BagToSet(signals) \cup accepted
          /\ \A s \in BagToSet(signals) \ accepted : signals'[s] = signals[s]
        BY <1>5, BagGrows DEF BridgeTypeOK
    <2>2. \A s \in accepted : s.by # Manager
        BY SignalNamesAttempt
    <2> QED BY <1>1, <2>1, <2>2 DEF SignalsInv
<1>6. ASSUME NEW outcome \in outcomes' \ outcomes, RecordJobOutcome(Manager, outcome)
      PROVE  SignalsInv'
    BY <1>2, <1>3, <1>6, SignalsAccepted
<1>7. ASSUME NEW caller \in BridgeManagers \ {Manager}, NEW outcome,
             RecordJobOutcome(caller, outcome)
      PROVE  SignalsInv'
    BY <1>2, <1>5, <1>7, SignalsAccepted
<1>8. UNCHANGED bridgeVars => signals' = signals
    BY DEF bridgeVars
<1> QED BY <1>2, <1>4, <1>6, <1>7, <1>8, BridgeCases

\* What each signal says follows from the outcome it is about.
LEMMA SignalsAgree == JobFacts /\ SignalsInv => SignalsMatchVerdicts
<1> SUFFICES ASSUME JobFacts, SignalsInv, NEW s \in BagToSet(signals), s.by = Manager
             PROVE  /\ signals[s] = 1
                    /\ s.positive <=> /\ s.attempt = jobs[s.job].cycle
                                      /\ jobs[s.job].status = "Completed"
                    /\ s.attempt = jobs[s.job].cycle =>
                          /\ jobs[s.job].status \in {"Completed", "Rejected"}
                          /\ s.positive => {s.agent, s.counterpart}
                                  = {jobs[s.job].provider, jobs[s.job].evaluator}
                          /\ ~s.positive => s.agent = jobs[s.job].provider
    BY DEF SignalsMatchVerdicts
<1>1. PICK o \in outcomes : s \in SignalsOf(Manager, o)
    BY DEF SignalsInv
<1>2. /\ s.job = o.job /\ s.attempt = o.cycle /\ s.positive = o.completed
      /\ \/ s.agent = o.provider /\ s.counterpart = o.evaluator
         \/ o.completed /\ s.agent = o.evaluator /\ s.counterpart = o.provider
    BY <1>1, SignalNamesAttempt
<1>3. /\ o.completed => o.cycle = jobs[o.job].cycle
      /\ o.cycle = jobs[o.job].cycle =>
            /\ o.provider = jobs[o.job].provider /\ o.evaluator = jobs[o.job].evaluator
            /\ jobs[o.job].status = IF o.completed THEN "Completed" ELSE "Rejected"
    BY DEF JobFacts, JobsProved!OutcomesInv, JobsProved!OutcomesMatchVerdicts,
           JobsProved!OutcomesOnRecord
<1>4. o.completed \in BOOLEAN
    BY DEF JobFacts, JobsProved!LifecycleInv, JobsProved!PartiesInv, JobsProved!TypeOK,
           JobsProved!Outcome
<1>5. signals[s] = 1
    BY DEF SignalsInv
<1> QED BY <1>2, <1>3, <1>4, <1>5

\* The reputation an agent has earned agrees with how its jobs ended, whoever the
\* bridge trusted in between and whichever part of a report the registry refused.
THEOREM SignalsCorrect == Spec => []SignalsMatchVerdicts
<1>1. Init => SignalsInv
    BY DEF Init, BridgeInit, SignalsInv, BagToSet, EmptyBag, SetToBag
<1>2. TypeOK => BridgeTypeOK
    BY DEF TypeOK
<1>3. Spec => []SignalsInv
    BY <1>1, <1>2, SignalsStep, JobFactsHold, TypeCorrect, PTL DEF Spec
<1> QED BY <1>3, SignalsAgree, JobFactsHold, PTL

=============================================================================
