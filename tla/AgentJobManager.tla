---------------------------- MODULE AgentJobManager ----------------------------
(***************************************************************************)
(* contracts/core/AgentJobManager.sol: the escrow and the life cycle of a  *)
(* job.  A transaction is atomic on the chain, so each external function   *)
(* is one action; a call that reverts changes nothing and is no step.      *)
(*                                                                         *)
(* Environment of the contract, as this module sees it:                    *)
(*   now       block.timestamp; several transactions may share a value.    *)
(*   eligible  the addresses for which EvaluatorRegistry.isEligible holds. *)
(*             It changes at any moment (stakes, warm-ups, governance).    *)
(*   balanceOf ERC-20 balances of the accounts and of the escrow.          *)
(*                                                                         *)
(* createdAt and the reason hash are written and never read by the         *)
(* contract; they are left out.  `cycle` and `unbacked` are history        *)
(* variables: how often a job was funded, and how much refund was credited *)
(* for budgets that had never been deposited.                              *)
(***************************************************************************)
EXTENDS Integers, FiniteSets, Functions

CONSTANTS
    Accounts,            \* externally owned addresses, treasuries included
    Evaluators,          \* the accounts that ever stake in the registry
    Treasuries,          \* accounts passed to proposeTreasury
    Bridges,             \* addresses of ReputationBridge deployments
    Tokens,              \* ERC-20 tokens
    NoAddress,           \* address(0)
    Escrow,              \* address(this) as a token holder
    Deliverables,        \* non-zero deliverable hashes
    NoHash,              \* bytes32(0)
    NoValue,             \* the value hash of a deleted proposal
    AcceptingVerifiers,  \* attestation verifiers whose verify() returns true
    Budgets,             \* amounts passed to setBudget
    Deadlines,           \* timestamps passed as a deadline
    FeeRates,            \* values passed to proposeFeeRate
    EvaluationFees,      \* values passed to proposeEvaluationFee
    InitialFeeRate, InitialTreasury, InitialBridge,
    InitialBalance,      \* tokens each account starts with
    BPS,                 \* 10_000 basis points
    MAX_FEE_RATE, EVALUATOR_SHARE_BPS, MIN_BUDGET,
    MIN_DEADLINE_OFFSET, MIN_EVALUATION_WINDOW, EVALUATION_GRACE_PERIOD,
    MAX_EXTENSION,       \* the 30 days of extendDeadline
    GOVERNANCE_DELAY,
    StartTime,           \* block.timestamp at deployment
    MaxTime,             \* bound: the clock stops here
    MaxJobs,             \* bound: jobs ever created
    MaxReopens,          \* bound: times one job is reopened
    Clients, Providers   \* bound: accounts that appear in these roles

ASSUME AddressAssumption ==
    /\ IsFiniteSet(Accounts)             \* 160-bit addresses
    /\ Evaluators \subseteq Accounts
    /\ Treasuries \subseteq Accounts
    /\ NoAddress \notin Accounts \cup Bridges \cup Tokens \cup AcceptingVerifiers
    /\ Escrow \notin Accounts
    /\ NoHash \notin Deliverables
    /\ InitialTreasury \in Accounts
    /\ InitialBridge \in Bridges \cup {NoAddress}

ASSUME AmountAssumption ==
    /\ BPS \in Nat \ {0}
    /\ MAX_FEE_RATE \in 0 .. BPS
    /\ EVALUATOR_SHARE_BPS \in 0 .. BPS
    /\ MIN_BUDGET \in Nat \ {0}
    /\ Budgets \subseteq Nat
    /\ FeeRates \subseteq Nat
    /\ EvaluationFees \subseteq Nat
    /\ InitialFeeRate \in 0 .. MAX_FEE_RATE
    /\ InitialBalance \in Nat

ASSUME TimeAssumption ==
    /\ MIN_DEADLINE_OFFSET \in Nat
    /\ MIN_EVALUATION_WINDOW \in Nat
    /\ EVALUATION_GRACE_PERIOD \in 0 .. MIN_EVALUATION_WINDOW
    /\ MAX_EXTENSION \in Nat
    /\ GOVERNANCE_DELAY \in Nat \ {0}
    /\ Deadlines \subseteq Nat
    /\ StartTime \in Nat \ {0}
    /\ MaxTime \in Nat \ {0}

ASSUME BoundAssumption ==
    /\ MaxJobs \in Nat \ {0}
    /\ MaxReopens \in Nat
    /\ Clients \subseteq Accounts
    /\ Providers \subseteq Accounts

VARIABLES
    now, eligible, balanceOf,          \* the environment
    jobs, nextJobId, pendingRefunds,   \* escrow state
    allowedTokens,
    feeRate, evaluationFee, treasury, reputationBridge, pendingChanges,
    outcomes,                          \* calls that reached the bridge
    unbacked                           \* history

envVars == <<now, eligible>>
jobVars == <<jobs, nextJobId, pendingRefunds, balanceOf, outcomes, unbacked>>
govVars == <<allowedTokens, feeRate, evaluationFee, treasury, reputationBridge,
             pendingChanges>>
vars == <<envVars, jobVars, govVars>>

-----------------------------------------------------------------------------
(* Types *)

JobIds == 1 .. MaxJobs
Holders == Accounts \cup {Escrow}
JobStatus == {"Open", "Funded", "Submitted", "Completed", "Rejected", "Expired"}

Job == [client: Accounts \cup {NoAddress}, provider: Accounts \cup {NoAddress},
        evaluator: Accounts \cup {NoAddress}, token: Tokens \cup {NoAddress},
        budget: Nat, deadline: Nat, submittedAt: Nat, status: JobStatus,
        deliverable: Deliverables \cup {NoHash}, cycle: Nat]

\* An unwritten storage slot: client = address(0) and the first enum value.
NoJob == [client |-> NoAddress, provider |-> NoAddress, evaluator |-> NoAddress,
          token |-> NoAddress, budget |-> 0, deadline |-> 0, submittedAt |-> 0,
          status |-> "Open", deliverable |-> NoHash, cycle |-> 0]

JobExists(j) == jobs[j].client # NoAddress

InEscrow(j) == jobs[j].status \in {"Funded", "Submitted"}

Change(S) == [value: S, executableAt: Nat]
NoChange == [value |-> NoValue, executableAt |-> 0]

Outcome == [job: JobIds, cycle: Nat, provider: Accounts, evaluator: Accounts,
            completed: BOOLEAN]

TypeOK ==
    /\ now \in Nat
    /\ eligible \in SUBSET Evaluators
    /\ balanceOf \in [Tokens -> [Holders -> Nat]]
    /\ jobs \in [JobIds -> Job]
    /\ nextJobId \in 1 .. MaxJobs + 1
    /\ pendingRefunds \in [Accounts -> [Tokens -> Nat]]
    /\ allowedTokens \in SUBSET Tokens
    /\ feeRate \in 0 .. MAX_FEE_RATE
    /\ evaluationFee \in Nat
    /\ treasury \in Accounts
    /\ reputationBridge \in Bridges \cup {NoAddress}
    /\ DOMAIN pendingChanges =
           {"feeRate", "treasury", "reputationBridge", "evaluationFee"}
    /\ pendingChanges["feeRate"] \in Change(0 .. MAX_FEE_RATE) \cup {NoChange}
    /\ pendingChanges["treasury"] \in Change(Accounts) \cup {NoChange}
    /\ pendingChanges["reputationBridge"] \in
           Change(Bridges \cup {NoAddress}) \cup {NoChange}
    /\ pendingChanges["evaluationFee"] \in Change(Nat) \cup {NoChange}
    /\ outcomes \in SUBSET Outcome
    /\ unbacked \in [Tokens -> Nat]

-----------------------------------------------------------------------------
(* Token movements and fees *)

\* An ERC-20 transfer; the caller checks that `from` holds the amount.
Transfer(holdings, from, to, amount) ==
    LET debited == [holdings EXCEPT ![from] = @ - amount]
    IN  [debited EXCEPT ![to] = @ + amount]

\* Slip: the fixed fee is not capped by the budget.
ComputeFeeUncapped(budget) ==
    IF evaluationFee > 0 THEN evaluationFee ELSE (budget * feeRate) \div BPS

ComputeFee(budget) ==
    IF evaluationFee > 0
    THEN IF evaluationFee > budget THEN budget ELSE evaluationFee
    ELSE (budget * feeRate) \div BPS

EvaluatorShare(fee) == (fee * EVALUATOR_SHARE_BPS) \div BPS

\* Slip: both shares are rounded down and the dust stays in the contract.
DistributeFeeWithDust(holdings, evaluator, fee) ==
    Transfer(Transfer(holdings, Escrow, treasury,
                      (fee * (BPS - EVALUATOR_SHARE_BPS)) \div BPS),
             Escrow, evaluator, EvaluatorShare(fee))

\* Treasury first, then the evaluator; the treasury absorbs the rounding.
DistributeFee(holdings, evaluator, fee) ==
    LET evaluatorFee == EvaluatorShare(fee)
    IN  Transfer(Transfer(holdings, Escrow, treasury, fee - evaluatorFee),
                 Escrow, evaluator, evaluatorFee)

\* recordJobOutcome is called in a try/catch with a gas cap: it may fail and
\* the settlement stands.
ForwardOutcome(j, verdict) ==
    LET outcome == [job |-> j, cycle |-> jobs[j].cycle,
                    provider |-> jobs[j].provider,
                    evaluator |-> jobs[j].evaluator, completed |-> verdict]
    IN  \/ reputationBridge # NoAddress /\ outcomes' = outcomes \cup {outcome}
        \/ UNCHANGED outcomes

\* Slip: a new refund overwrites an unclaimed one.
CreditRefundOverwrite(client, token, amount) ==
    pendingRefunds' = [pendingRefunds EXCEPT ![client][token] = amount]

CreditRefund(client, token, amount) ==
    pendingRefunds' = [pendingRefunds EXCEPT ![client][token] = @ + amount]

-----------------------------------------------------------------------------
Init ==
    /\ now = StartTime
    /\ eligible \in SUBSET Evaluators
    /\ balanceOf = [t \in Tokens |->
                      [h \in Holders |-> IF h = Escrow THEN 0 ELSE InitialBalance]]
    /\ jobs = [j \in JobIds |-> NoJob]
    /\ nextJobId = 1
    /\ pendingRefunds = [a \in Accounts |-> [t \in Tokens |-> 0]]
    /\ allowedTokens = Tokens
    /\ feeRate = InitialFeeRate
    /\ evaluationFee = 0
    /\ treasury = InitialTreasury
    /\ reputationBridge = InitialBridge
    /\ pendingChanges = [key \in {"feeRate", "treasury", "reputationBridge",
                                  "evaluationFee"} |-> NoChange]
    /\ outcomes = {}
    /\ unbacked = [t \in Tokens |-> 0]

-----------------------------------------------------------------------------
(* The environment *)

\* The clock moves; warm-ups may complete, so eligibility may change with it.
Tick ==
    /\ now < MaxTime
    /\ now' = now + 1
    /\ eligible' \in SUBSET Evaluators
    /\ UNCHANGED <<jobVars, govVars>>

\* Stakes, slashes or registry governance change who is eligible.
RegistryStep ==
    /\ eligible' \in SUBSET Evaluators
    /\ UNCHANGED <<now, jobVars, govVars>>

-----------------------------------------------------------------------------
(* ERC-8183 core *)

\* Slip: an explicit evaluator is compared with the client only.
CreateJobAnyEvaluator(caller, provider, evaluator, token, deadline) ==
    /\ nextJobId <= MaxJobs
    /\ provider # NoAddress
    /\ token # NoAddress
    /\ token \in allowedTokens
    /\ provider # caller
    /\ evaluator # NoAddress => evaluator # caller /\ evaluator \in eligible
    /\ deadline >= now + MIN_DEADLINE_OFFSET
    /\ jobs' = [jobs EXCEPT ![nextJobId] =
                  [NoJob EXCEPT !.client = caller, !.provider = provider,
                                !.evaluator = evaluator, !.token = token,
                                !.deadline = deadline]]
    /\ nextJobId' = nextJobId + 1
    /\ UNCHANGED <<envVars, pendingRefunds, balanceOf, outcomes, unbacked, govVars>>

CreateJob(caller, provider, evaluator, token, deadline) ==
    /\ nextJobId <= MaxJobs
    /\ provider # NoAddress
    /\ token # NoAddress
    /\ token \in allowedTokens
    /\ provider # caller
    /\ evaluator # NoAddress => /\ evaluator \notin {caller, provider}
                                /\ evaluator \in eligible
    /\ deadline >= now + MIN_DEADLINE_OFFSET
    /\ jobs' = [jobs EXCEPT ![nextJobId] =
                  [NoJob EXCEPT !.client = caller, !.provider = provider,
                                !.evaluator = evaluator, !.token = token,
                                !.deadline = deadline]]
    /\ nextJobId' = nextJobId + 1
    /\ UNCHANGED <<envVars, pendingRefunds, balanceOf, outcomes, unbacked, govVars>>

\* Slip: the budget may be renegotiated after funding.
SetBudgetAfterFunding(caller, j, amount) ==
    /\ JobExists(j)
    /\ jobs[j].status \in {"Open", "Funded"}
    /\ caller \in {jobs[j].client, jobs[j].provider}
    /\ amount >= MIN_BUDGET
    /\ jobs' = [jobs EXCEPT ![j].budget = amount]
    /\ UNCHANGED <<envVars, nextJobId, pendingRefunds, balanceOf, outcomes,
                   unbacked, govVars>>

SetBudget(caller, j, amount) ==
    /\ JobExists(j)
    /\ jobs[j].status = "Open"
    /\ caller \in {jobs[j].client, jobs[j].provider}
    /\ amount >= MIN_BUDGET
    /\ jobs' = [jobs EXCEPT ![j].budget = amount]
    /\ UNCHANGED <<envVars, nextJobId, pendingRefunds, balanceOf, outcomes,
                   unbacked, govVars>>

\* EvaluatorRegistry.assignEvaluator: a stake-weighted draw among the eligible,
\* redrawn while it hits the provider or the client (it may also give up: no step).
Assignable(provider, client) == eligible \ {provider, client}

\* Slip: an evaluator chosen at creation is not asked about again.
FundTrustingCreation(caller, j, expectedBudget) ==
    /\ JobExists(j)
    /\ jobs[j].status = "Open"
    /\ caller = jobs[j].client
    /\ jobs[j].budget # 0
    /\ expectedBudget = jobs[j].budget
    /\ balanceOf[jobs[j].token][caller] >= jobs[j].budget
    /\ \E evaluator \in Accounts :
         /\ IF jobs[j].evaluator # NoAddress
            THEN evaluator = jobs[j].evaluator
            ELSE evaluator \in Assignable(jobs[j].provider, jobs[j].client)
         /\ jobs' = [jobs EXCEPT ![j].evaluator = evaluator,
                                 ![j].status = "Funded"]
    /\ balanceOf' = [balanceOf EXCEPT ![jobs[j].token] =
                       Transfer(@, caller, Escrow, jobs[j].budget)]
    /\ UNCHANGED <<envVars, nextJobId, pendingRefunds, outcomes, unbacked, govVars>>

Fund(caller, j, expectedBudget) ==
    /\ JobExists(j)
    /\ jobs[j].status = "Open"
    /\ caller = jobs[j].client
    /\ jobs[j].budget # 0
    /\ expectedBudget = jobs[j].budget
    /\ balanceOf[jobs[j].token][caller] >= jobs[j].budget
    /\ \E evaluator \in Accounts :
         /\ IF jobs[j].evaluator # NoAddress
            THEN evaluator = jobs[j].evaluator /\ evaluator \in eligible
            ELSE evaluator \in Assignable(jobs[j].provider, jobs[j].client)
         /\ evaluator \notin {jobs[j].provider, jobs[j].client}
         /\ jobs' = [jobs EXCEPT ![j].evaluator = evaluator,
                                 ![j].status = "Funded"]
    /\ balanceOf' = [balanceOf EXCEPT ![jobs[j].token] =
                       Transfer(@, caller, Escrow, jobs[j].budget)]
    /\ UNCHANGED <<envVars, nextJobId, pendingRefunds, outcomes, unbacked, govVars>>

\* Slip: a late submission does not extend the deadline.
SubmitWithoutExtension(caller, j, deliverable) ==
    /\ JobExists(j)
    /\ jobs[j].status = "Funded"
    /\ caller = jobs[j].provider
    /\ now <= jobs[j].deadline
    /\ deliverable # NoHash
    /\ jobs' = [jobs EXCEPT ![j].status = "Submitted", ![j].submittedAt = now,
                            ![j].deliverable = deliverable]
    /\ UNCHANGED <<envVars, nextJobId, pendingRefunds, balanceOf, outcomes,
                   unbacked, govVars>>

Submit(caller, j, deliverable) ==
    /\ JobExists(j)
    /\ jobs[j].status = "Funded"
    /\ caller = jobs[j].provider
    /\ now <= jobs[j].deadline
    /\ deliverable # NoHash
    /\ jobs' = [jobs EXCEPT
                  ![j].status = "Submitted",
                  ![j].submittedAt = now,
                  ![j].deliverable = deliverable,
                  ![j].deadline = IF now + MIN_EVALUATION_WINDOW > @
                                  THEN now + MIN_EVALUATION_WINDOW ELSE @]
    /\ UNCHANGED <<envVars, nextJobId, pendingRefunds, balanceOf, outcomes,
                   unbacked, govVars>>

\* _settleComplete: there is no deadline check, a late approval still pays.
SettleComplete(caller, j) ==
    LET job == jobs[j]
        fee == ComputeFee(job.budget)
    IN  /\ JobExists(j)
        /\ job.status = "Submitted"
        /\ caller = job.evaluator
        /\ balanceOf[job.token][Escrow] >= job.budget
        /\ jobs' = [jobs EXCEPT ![j].status = "Completed", ![j].budget = 0]
        /\ balanceOf' = [balanceOf EXCEPT ![job.token] =
              DistributeFee(Transfer(@, Escrow, job.provider, job.budget - fee),
                            job.evaluator, fee)]
        /\ ForwardOutcome(j, TRUE)
        /\ UNCHANGED <<envVars, nextJobId, pendingRefunds, unbacked, govVars>>

Complete(caller, j) == SettleComplete(caller, j)

\* The attested overload: the evaluator names a verifier that accepts the proof.
CompleteAttested(caller, j, verifier) ==
    /\ verifier # NoAddress
    /\ verifier \in AcceptingVerifiers
    /\ SettleComplete(caller, j)

\* Slip: the evaluator's branch does not look at the status.
RejectAuthorizedAnyStatus(caller, j) ==
    \/ jobs[j].status = "Open" /\ caller = jobs[j].client
    \/ caller = jobs[j].evaluator /\ now < jobs[j].deadline

RejectAuthorized(caller, j) ==
    \/ jobs[j].status = "Open" /\ caller = jobs[j].client
    \/ InEscrow(j) /\ caller = jobs[j].evaluator /\ now < jobs[j].deadline

Reject(caller, j) ==
    LET job == jobs[j]
        fee == IF InEscrow(j) THEN ComputeFee(job.budget) ELSE 0
    IN  /\ JobExists(j)
        /\ RejectAuthorized(caller, j)
        /\ balanceOf[job.token][Escrow] >= fee
        /\ jobs' = [jobs EXCEPT ![j].status = "Rejected", ![j].budget = 0]
        /\ CreditRefund(job.client, job.token, job.budget - fee)
        /\ IF InEscrow(j)
           THEN /\ balanceOf' = [balanceOf EXCEPT ![job.token] =
                                   DistributeFee(@, job.evaluator, fee)]
                /\ ForwardOutcome(j, FALSE)
                /\ UNCHANGED unbacked
           ELSE /\ unbacked' = [unbacked EXCEPT ![job.token] = @ + job.budget]
                /\ UNCHANGED <<balanceOf, outcomes>>
        /\ UNCHANGED <<envVars, nextJobId, govVars>>

\* Slip: only a Funded job can expire (the defect FINDING-004 corrected).
ClaimExpiredFundedOnly(caller, j) ==
    /\ JobExists(j)
    /\ jobs[j].status = "Funded"
    /\ caller = jobs[j].client
    /\ now > jobs[j].deadline
    /\ jobs' = [jobs EXCEPT ![j].status = "Expired", ![j].budget = 0]
    /\ CreditRefund(jobs[j].client, jobs[j].token, jobs[j].budget)
    /\ UNCHANGED <<envVars, nextJobId, balanceOf, outcomes, unbacked, govVars>>

ClaimExpired(caller, j) ==
    LET job == jobs[j]
    IN  /\ JobExists(j)
        /\ InEscrow(j)
        /\ caller = job.client
        /\ now > job.deadline
        /\ ~ /\ job.status = "Submitted"
             /\ job.submittedAt # 0
             /\ now < job.submittedAt + EVALUATION_GRACE_PERIOD
        /\ jobs' = [jobs EXCEPT ![j].status = "Expired", ![j].budget = 0]
        /\ CreditRefund(job.client, job.token, job.budget)
        /\ UNCHANGED <<envVars, nextJobId, balanceOf, outcomes, unbacked, govVars>>

\* Slip: a refund can be claimed only while its token is whitelisted.
ClaimRefundAllowedToken(caller, token) ==
    LET amount == pendingRefunds[caller][token]
    IN  /\ amount # 0
        /\ token \in allowedTokens
        /\ balanceOf[token][Escrow] >= amount
        /\ pendingRefunds' = [pendingRefunds EXCEPT ![caller][token] = 0]
        /\ balanceOf' = [balanceOf EXCEPT ![token] =
                           Transfer(@, Escrow, caller, amount)]
        /\ UNCHANGED <<envVars, jobs, nextJobId, outcomes, unbacked, govVars>>

ClaimRefund(caller, token) ==
    LET amount == pendingRefunds[caller][token]
    IN  /\ amount # 0
        /\ balanceOf[token][Escrow] >= amount
        /\ pendingRefunds' = [pendingRefunds EXCEPT ![caller][token] = 0]
        /\ balanceOf' = [balanceOf EXCEPT ![token] =
                           Transfer(@, Escrow, caller, amount)]
        /\ UNCHANGED <<envVars, jobs, nextJobId, outcomes, unbacked, govVars>>

-----------------------------------------------------------------------------
(* Extensions *)

ExtendDeadline(caller, j, newDeadline) ==
    /\ JobExists(j)
    /\ jobs[j].status = "Funded"
    /\ caller = jobs[j].client
    /\ newDeadline > jobs[j].deadline
    /\ newDeadline >= now + MIN_DEADLINE_OFFSET
    /\ newDeadline <= now + MAX_EXTENSION
    /\ jobs' = [jobs EXCEPT ![j].deadline = newDeadline]
    /\ UNCHANGED <<envVars, nextJobId, pendingRefunds, balanceOf, outcomes,
                   unbacked, govVars>>

\* Slip: the previous deliverable survives the reopening.
ReopenKeepingDeliverable(caller, j, newProvider, newDeadline) ==
    /\ JobExists(j)
    /\ jobs[j].status = "Rejected"
    /\ caller = jobs[j].client
    /\ newProvider \notin {NoAddress, jobs[j].client, jobs[j].evaluator}
    /\ jobs[j].token \in allowedTokens
    /\ newDeadline >= now + MIN_DEADLINE_OFFSET
    /\ jobs[j].cycle < MaxReopens
    /\ jobs' = [jobs EXCEPT ![j].status = "Open", ![j].provider = newProvider,
                            ![j].deadline = newDeadline,
                            ![j].evaluator = NoAddress, ![j].budget = 0,
                            ![j].cycle = @ + 1]
    /\ UNCHANGED <<envVars, nextJobId, pendingRefunds, balanceOf, outcomes,
                   unbacked, govVars>>

\* Slip: the evaluator of the rejected attempt stays for the next one.
ReopenKeepingEvaluator(caller, j, newProvider, newDeadline) ==
    /\ JobExists(j)
    /\ jobs[j].status = "Rejected"
    /\ caller = jobs[j].client
    /\ newProvider \notin {NoAddress, jobs[j].client, jobs[j].evaluator}
    /\ jobs[j].token \in allowedTokens
    /\ newDeadline >= now + MIN_DEADLINE_OFFSET
    /\ jobs[j].cycle < MaxReopens
    /\ jobs' = [jobs EXCEPT ![j].status = "Open", ![j].provider = newProvider,
                            ![j].deadline = newDeadline, ![j].budget = 0,
                            ![j].deliverable = NoHash, ![j].cycle = @ + 1]
    /\ UNCHANGED <<envVars, nextJobId, pendingRefunds, balanceOf, outcomes,
                   unbacked, govVars>>

\* submittedAt keeps its old value, as in the code.
Reopen(caller, j, newProvider, newDeadline) ==
    /\ JobExists(j)
    /\ jobs[j].status = "Rejected"
    /\ caller = jobs[j].client
    /\ newProvider \notin {NoAddress, jobs[j].client, jobs[j].evaluator}
    /\ jobs[j].token \in allowedTokens
    /\ newDeadline >= now + MIN_DEADLINE_OFFSET
    /\ jobs[j].cycle < MaxReopens
    /\ jobs' = [jobs EXCEPT ![j].status = "Open",
                            ![j].provider = newProvider,
                            ![j].deadline = newDeadline,
                            ![j].evaluator = NoAddress,
                            ![j].budget = 0,
                            ![j].deliverable = NoHash,
                            ![j].cycle = @ + 1]
    /\ UNCHANGED <<envVars, nextJobId, pendingRefunds, balanceOf, outcomes,
                   unbacked, govVars>>

-----------------------------------------------------------------------------
(* Governance (onlyOwner) *)

\* Slip: a proposal is executable at once.
ProposeWithoutDelay(key, newValue) ==
    /\ pendingChanges' = [pendingChanges EXCEPT ![key] =
           [value |-> newValue, executableAt |-> now]]
    /\ UNCHANGED <<envVars, jobVars, allowedTokens, feeRate, evaluationFee,
                   treasury, reputationBridge>>

Propose(key, newValue) ==
    /\ pendingChanges' = [pendingChanges EXCEPT ![key] =
           [value |-> newValue, executableAt |-> now + GOVERNANCE_DELAY]]
    /\ UNCHANGED <<envVars, jobVars, allowedTokens, feeRate, evaluationFee,
                   treasury, reputationBridge>>

\* The checks and the deletion shared by the execute functions.
Execute(key, newValue) ==
    /\ pendingChanges[key].executableAt # 0
    /\ now >= pendingChanges[key].executableAt
    /\ newValue = pendingChanges[key].value
    /\ pendingChanges' = [pendingChanges EXCEPT ![key] = NoChange]
    /\ UNCHANGED <<envVars, jobVars, allowedTokens>>

ProposeFeeRate(newFeeRate) ==
    newFeeRate <= MAX_FEE_RATE /\ Propose("feeRate", newFeeRate)

ExecuteFeeRate(newFeeRate) ==
    /\ Execute("feeRate", newFeeRate)
    /\ feeRate' = newFeeRate
    /\ UNCHANGED <<evaluationFee, treasury, reputationBridge>>

ProposeTreasury(newTreasury) ==
    newTreasury # NoAddress /\ Propose("treasury", newTreasury)

ExecuteTreasury(newTreasury) ==
    /\ Execute("treasury", newTreasury)
    /\ treasury' = newTreasury
    /\ UNCHANGED <<feeRate, evaluationFee, reputationBridge>>

ProposeReputationBridge(bridge) == Propose("reputationBridge", bridge)

ExecuteReputationBridge(bridge) ==
    /\ Execute("reputationBridge", bridge)
    /\ reputationBridge' = bridge
    /\ UNCHANGED <<feeRate, evaluationFee, treasury>>

\* No upper bound is checked, unlike proposeFeeRate.
ProposeEvaluationFee(newFee) == Propose("evaluationFee", newFee)

ExecuteEvaluationFee(newFee) ==
    /\ Execute("evaluationFee", newFee)
    /\ evaluationFee' = newFee
    /\ UNCHANGED <<feeRate, treasury, reputationBridge>>

CancelProposal(key) ==
    /\ pendingChanges[key].executableAt # 0
    /\ pendingChanges' = [pendingChanges EXCEPT ![key] = NoChange]
    /\ UNCHANGED <<envVars, jobVars, allowedTokens, feeRate, evaluationFee,
                   treasury, reputationBridge>>

AllowToken(token) ==
    /\ token # NoAddress
    /\ allowedTokens' = allowedTokens \cup {token}
    /\ UNCHANGED <<envVars, jobVars, feeRate, evaluationFee, treasury,
                   reputationBridge, pendingChanges>>

DisallowToken(token) ==
    /\ token # NoAddress
    /\ allowedTokens' = allowedTokens \ {token}
    /\ UNCHANGED <<envVars, jobVars, feeRate, evaluationFee, treasury,
                   reputationBridge, pendingChanges>>

-----------------------------------------------------------------------------
JobManagerCall ==
    \/ \E caller \in Clients, provider \in Providers \cup {NoAddress}, token \in Tokens,
          evaluator \in Evaluators \cup {NoAddress}, deadline \in Deadlines :
            CreateJob(caller, provider, evaluator, token, deadline)
    \/ \E caller \in Accounts, token \in Tokens : ClaimRefund(caller, token)
    \/ \E caller \in Accounts, j \in JobIds :
         \/ \E amount \in Budgets :
              SetBudget(caller, j, amount) \/ Fund(caller, j, amount)
         \/ \E deliverable \in Deliverables \cup {NoHash} : Submit(caller, j, deliverable)
         \/ Complete(caller, j)
         \/ \E verifier \in AcceptingVerifiers : CompleteAttested(caller, j, verifier)
         \/ Reject(caller, j)
         \/ ClaimExpired(caller, j)
         \/ \E newDeadline \in Deadlines : ExtendDeadline(caller, j, newDeadline)
         \/ \E newProvider \in Providers \cup {NoAddress}, newDeadline \in Deadlines :
              Reopen(caller, j, newProvider, newDeadline)

TimelockCall ==
    \/ \E rate \in FeeRates : ProposeFeeRate(rate) \/ ExecuteFeeRate(rate)
    \/ \E fee \in EvaluationFees :
         ProposeEvaluationFee(fee) \/ ExecuteEvaluationFee(fee)
    \/ \E address \in Treasuries : ProposeTreasury(address) \/ ExecuteTreasury(address)
    \/ \E bridge \in Bridges \cup {NoAddress} :
         ProposeReputationBridge(bridge) \/ ExecuteReputationBridge(bridge)
    \/ \E key \in DOMAIN pendingChanges : CancelProposal(key)

WhitelistCall == \E token \in Tokens : AllowToken(token) \/ DisallowToken(token)

Next == Tick \/ RegistryStep \/ JobManagerCall \/ TimelockCall \/ WhitelistCall

Spec == Init /\ [][Next]_vars

\* The behaviours of Spec in which the owner makes no call: the runs about the
\* life cycle of jobs use it to stay small.
QuietNext == Tick \/ RegistryStep \/ JobManagerCall
QuietSpec == Init /\ [][QuietNext]_vars

-----------------------------------------------------------------------------
(* Fairness.  Blocks keep coming.  A client whose money is due calls the      *)
(* contract again: claimExpired once the deadline has passed, claimRefund     *)
(* while a refund is pending.  Nobody else is assumed to act.                 *)

ClientsReturn ==
    /\ WF_vars(Tick)
    /\ \A j \in JobIds : WF_vars(\E caller \in Accounts : ClaimExpired(caller, j))
    /\ \A a \in Accounts, t \in Tokens : WF_vars(ClaimRefund(a, t))

FairSpec == Init /\ [][QuietNext \/ WhitelistCall]_vars /\ ClientsReturn

-----------------------------------------------------------------------------
(* Safety *)

\* The three parties of a job are different addresses, through explicit choice,
\* assignment at funding and any number of reopenings; a funded job has all
\* three (createJob, fund, reopen).
EvaluatorIndependence ==
    \A j \in JobIds : JobExists(j) =>
        /\ jobs[j].provider # NoAddress
        /\ jobs[j].provider # jobs[j].client
        /\ jobs[j].evaluator \notin {jobs[j].client, jobs[j].provider}
        /\ jobs[j].status \notin {"Open", "Rejected"} => jobs[j].evaluator # NoAddress

\* A deliverable belongs to the current attempt: none before submit(), one from
\* submit() to the approval, and reopen() forgets the rejected one.
DeliverableOfThisAttempt ==
    \A j \in JobIds :
        /\ jobs[j].status \in {"Open", "Funded"} => jobs[j].deliverable = NoHash
        /\ jobs[j].status \in {"Submitted", "Completed"} =>
               jobs[j].deliverable # NoHash

\* Budgets in escrow and refunds not yet claimed, per token.
Locked(t) ==
    SumFunctionOnSet([j \in JobIds |-> jobs[j].budget],
                     {j \in JobIds : InEscrow(j) /\ jobs[j].token = t})
Owed(t) == SumFunction([a \in Accounts |-> pendingRefunds[a][t]])

\* No call mints, loses or strands a token: what the contract holds is what it
\* owes, except for exactly the refunds that reject() credited on Open jobs for
\* budgets set and never deposited.  Rounding leaves no dust.
EscrowAccounting ==
    \A t \in Tokens : balanceOf[t][Escrow] + unbacked[t] = Locked(t) + Owed(t)

\* What the test "sum of active budgets equals USDC balance of the contract"
\* samples: the contract can always pay what it owes.
Solvency == \A t \in Tokens : balanceOf[t][Escrow] >= Locked(t) + Owed(t)

\* The outcomes the bridge received agree with how each attempt ended, and one
\* attempt never yields two different verdicts.
OutcomesMatchVerdicts ==
    /\ \A o1, o2 \in outcomes : o1.job = o2.job /\ o1.cycle = o2.cycle => o1 = o2
    /\ \A o \in outcomes : o.cycle = jobs[o.job].cycle =>
           jobs[o.job].status = IF o.completed THEN "Completed" ELSE "Rejected"

-----------------------------------------------------------------------------
(* Action properties *)

\* A submitted job expires only once the evaluator has had the whole evaluation
\* window, whatever deadline the client chose or extended (submit, claimExpired).
EvaluationWindowHonoured ==
    [][\A j \in JobIds :
         jobs[j].status = "Submitted" /\ jobs'[j].status = "Expired" =>
             now > jobs[j].submittedAt + MIN_EVALUATION_WINDOW]_vars

\* From fund() to the settlement nobody changes the parties, the token or the
\* budget of a job, and its deadline never moves closer.
FundedTermsFrozen ==
    [][\A j \in JobIds : InEscrow(j) /\ InEscrow(j)' =>
         /\ \A field \in {"client", "provider", "evaluator", "token", "budget"} :
              jobs'[j][field] = jobs[j][field]
         /\ jobs'[j].deadline >= jobs[j].deadline]_vars

\* A pending refund shrinks only by being paid in full to its owner: later
\* rejections and expiries, of any job, add to it (pull over push).
RefundsOnlyPaidOut ==
    [][\A a \in Accounts, t \in Tokens :
         pendingRefunds'[a][t] < pendingRefunds[a][t] =>
             /\ pendingRefunds'[a][t] = 0
             /\ balanceOf'[t][a] = balanceOf[t][a] + pendingRefunds[a][t]]_vars

\* "Once expired, only claimExpired() is valid": after its deadline a job in
\* escrow can only become Expired.
OnlyExpiryAfterDeadline ==
    [][\A j \in JobIds :
         InEscrow(j) /\ now > jobs[j].deadline /\ ~InEscrow(j)' =>
             jobs'[j].status = "Expired"]_vars

-----------------------------------------------------------------------------
(* Liveness *)

\* A funded job is settled in the end although provider and evaluator may never
\* answer: the client is never locked out (FINDING-004).
FundsReleased == \A j \in JobIds : InEscrow(j) ~> ~InEscrow(j)

\* While nothing unbacked was credited, every pending refund is paid out, even
\* if the token leaves the whitelist meanwhile.
RefundsPaid ==
    [](\A t \in Tokens : unbacked[t] = 0) =>
        \A a \in Accounts, t \in Tokens :
            pendingRefunds[a][t] > 0 ~> pendingRefunds[a][t] = 0

=============================================================================
