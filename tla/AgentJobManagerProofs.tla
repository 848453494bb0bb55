------------------------- MODULE AgentJobManagerProofs -------------------------
(***************************************************************************)
(* Machine-checked facts about AgentJobManager, for every value of its     *)
(* constants: first its types, then the life cycle of one job, as the      *)
(* steps of the contract allow it, and the properties that follow.         *)
(*                                                                         *)
(* JobTransition lists what one step may do to one job.  StepOfJob proves  *)
(* that every step of the contract does one of these to every job, and the *)
(* properties are then proved from JobTransition alone.  The last part     *)
(* proves that the contract implements the abstract JobChain.              *)
(***************************************************************************)
EXTENDS JobChainRefinement, TLAPS

-----------------------------------------------------------------------------
(* Arithmetic of the fees *)

\* Taking `rate` out of `base` shares of an amount never takes more than all of it.
LEMMA ShareBounded ==
    ASSUME NEW amount \in Nat, NEW base \in Nat \ {0}, NEW rate \in 0 .. base
    PROVE  (amount * rate) \div base \in 0 .. amount
<1>1. amount * rate \in Nat /\ amount * rate <= amount * base
    OBVIOUS
<1>2. \A x, y \in Nat : x <= y * base => x \div base <= y
    OBVIOUS
<1>3. \A x \in Nat : x \div base \in Nat
    OBVIOUS
<1> QED BY <1>1, <1>2, <1>3

\* _computeFee: the fee is never larger than the budget it is taken from.
LEMMA FeeBounded ==
    ASSUME TypeOK, NEW budget \in Nat
    PROVE  ComputeFee(budget) \in 0 .. budget
<1>1. feeRate \in 0 .. BPS /\ BPS \in Nat \ {0}
    BY AmountAssumption DEF TypeOK
<1>2. (budget * feeRate) \div BPS \in 0 .. budget
    BY <1>1, ShareBounded
<1> QED BY <1>2 DEF ComputeFee, TypeOK

LEMMA EvaluatorShareBounded ==
    ASSUME NEW fee \in Nat
    PROVE  EvaluatorShare(fee) \in 0 .. fee
BY ShareBounded, AmountAssumption DEF EvaluatorShare

-----------------------------------------------------------------------------
(* Token movements *)

LEMMA TransferType ==
    ASSUME NEW holdings \in [Holders -> Nat], NEW from \in Holders,
           NEW to \in Holders, NEW amount \in Nat, amount <= holdings[from]
    PROVE  Transfer(holdings, from, to, amount) \in [Holders -> Nat]
BY DEF Transfer

LEMMA TransferFromEscrow ==
    ASSUME NEW holdings \in [Holders -> Nat], NEW to \in Accounts,
           NEW amount \in Nat, amount <= holdings[Escrow]
    PROVE  /\ Transfer(holdings, Escrow, to, amount) \in [Holders -> Nat]
           /\ Transfer(holdings, Escrow, to, amount)[Escrow]
                  = holdings[Escrow] - amount
BY AddressAssumption DEF Transfer, Holders

LEMMA DistributeFeeFromEscrow ==
    ASSUME TypeOK, NEW holdings \in [Holders -> Nat], NEW evaluator \in Accounts,
           NEW fee \in Nat, fee <= holdings[Escrow]
    PROVE  /\ DistributeFee(holdings, evaluator, fee) \in [Holders -> Nat]
           /\ DistributeFee(holdings, evaluator, fee)[Escrow]
                  = holdings[Escrow] - fee
<1> DEFINE share == EvaluatorShare(fee)
           first == Transfer(holdings, Escrow, treasury, fee - share)
<1>1. share \in 0 .. fee
    BY EvaluatorShareBounded
<1>2. treasury \in Accounts
    BY DEF TypeOK
<1>3. /\ first \in [Holders -> Nat]
      /\ first[Escrow] = holdings[Escrow] - (fee - share)
    <2> HIDE DEF share
    <2>1. fee - share \in Nat /\ fee - share <= holdings[Escrow]
        BY <1>1 DEF Holders
    <2> QED BY <2>1, <1>2, TransferFromEscrow
<1>4. /\ Transfer(first, Escrow, evaluator, share) \in [Holders -> Nat]
      /\ Transfer(first, Escrow, evaluator, share)[Escrow] = first[Escrow] - share
    <2> HIDE DEF first, share
    <2>1. share \in Nat /\ share <= first[Escrow]
        BY <1>1, <1>3 DEF Holders
    <2> QED BY <2>1, <1>3, TransferFromEscrow
<1>5. DistributeFee(holdings, evaluator, fee) = Transfer(first, Escrow, evaluator, share)
    BY DEF DistributeFee
<1> HIDE DEF first, share
<1>6. holdings[Escrow] \in Nat
    BY DEF Holders
<1> QED BY <1>1, <1>3, <1>4, <1>5, <1>6

-----------------------------------------------------------------------------
(* Type correctness *)

LEMMA InitType == Init => TypeOK
<1> SUFFICES ASSUME Init PROVE TypeOK
    OBVIOUS
<1> USE AddressAssumption, AmountAssumption, TimeAssumption, BoundAssumption
<1>1. NoJob \in Job
    BY DEF NoJob, Job, JobStatus
<1>2. jobs \in [JobIds -> Job]
    BY <1>1 DEF Init
<1>3. balanceOf \in [Tokens -> [Holders -> Nat]]
    BY DEF Init
<1>4. nextJobId \in 1 .. MaxJobs + 1
    BY DEF Init
<1>5. pendingChanges = [key \in {"feeRate", "treasury", "reputationBridge",
                                 "evaluationFee"} |-> NoChange]
    BY DEF Init
<1> QED BY <1>2, <1>3, <1>4, <1>5 DEF Init, TypeOK

\* Writing one field of one job keeps every job well typed.
LEMMA FieldUpdate ==
    ASSUME NEW all \in [JobIds -> Job], NEW j \in JobIds
    PROVE  /\ \A value \in JobStatus : [all EXCEPT ![j].status = value] \in [JobIds -> Job]
           /\ \A value \in Accounts \cup {NoAddress} :
                /\ [all EXCEPT ![j].evaluator = value] \in [JobIds -> Job]
                /\ [all EXCEPT ![j].provider = value] \in [JobIds -> Job]
           /\ \A value \in Nat :
                /\ [all EXCEPT ![j].budget = value] \in [JobIds -> Job]
                /\ [all EXCEPT ![j].deadline = value] \in [JobIds -> Job]
                /\ [all EXCEPT ![j].submittedAt = value] \in [JobIds -> Job]
                /\ [all EXCEPT ![j].cycle = value] \in [JobIds -> Job]
           /\ \A value \in Deliverables \cup {NoHash} :
                [all EXCEPT ![j].deliverable = value] \in [JobIds -> Job]
BY DEF Job

\* Calls that only write one job's record.
LEMMA JobOnlyType ==
    ASSUME TypeOK, jobs' \in [JobIds -> Job], nextJobId' \in 1 .. MaxJobs + 1,
           UNCHANGED <<envVars, pendingRefunds, balanceOf, outcomes, unbacked, govVars>>
    PROVE  TypeOK'
BY DEF TypeOK, envVars, govVars

LEMMA EnvironmentType ==
    ASSUME TypeOK, Tick \/ RegistryStep
    PROVE  TypeOK'
BY DEF TypeOK, Tick, RegistryStep, jobVars, govVars

LEMMA CreateJobType ==
    ASSUME TypeOK, NEW caller \in Accounts, NEW provider \in Accounts,
           NEW evaluator \in Accounts \cup {NoAddress}, NEW token \in Tokens,
           NEW deadline \in Nat, CreateJob(caller, provider, evaluator, token, deadline)
    PROVE  TypeOK'
<1> DEFINE job == [NoJob EXCEPT !.client = caller, !.provider = provider,
                                !.evaluator = evaluator, !.token = token,
                                !.deadline = deadline]
<1>1. job \in Job
    BY DEF NoJob, Job, JobStatus
<1>2. jobs' = [jobs EXCEPT ![nextJobId] = job] /\ nextJobId \in JobIds
    BY BoundAssumption DEF CreateJob, TypeOK, JobIds
<1> HIDE DEF job
<1>3. jobs' \in [JobIds -> Job]
    BY <1>1, <1>2 DEF TypeOK
<1>4. nextJobId' \in 1 .. MaxJobs + 1
    BY BoundAssumption DEF CreateJob, TypeOK
<1> QED BY <1>3, <1>4, JobOnlyType DEF CreateJob

LEMMA SetBudgetType ==
    ASSUME TypeOK, NEW caller \in Accounts, NEW j \in JobIds, NEW amount \in Nat,
           SetBudget(caller, j, amount)
    PROVE  TypeOK'
<1>1. jobs' \in [JobIds -> Job]
    BY FieldUpdate DEF TypeOK, SetBudget
<1> QED BY <1>1, JobOnlyType DEF SetBudget, TypeOK

LEMMA FundType ==
    ASSUME TypeOK, NEW caller \in Accounts, NEW j \in JobIds, NEW amount \in Nat,
           Fund(caller, j, amount)
    PROVE  TypeOK'
<1>1. jobs[j] \in Job
    BY DEF TypeOK
<1>2. jobs' \in [JobIds -> Job]
    <2>1. PICK evaluator \in Accounts :
              jobs' = [jobs EXCEPT ![j].evaluator = evaluator, ![j].status = "Funded"]
        BY DEF Fund
    <2> DEFINE jobs1 == [jobs EXCEPT ![j].evaluator = evaluator]
    <2>2. jobs1 \in [JobIds -> Job]
        BY FieldUpdate DEF TypeOK
    <2>3. jobs' = [jobs1 EXCEPT ![j].status = "Funded"]
        BY <2>1
    <2> HIDE DEF jobs1
    <2> QED BY <2>2, <2>3, FieldUpdate DEF JobStatus
<1>3. balanceOf' \in [Tokens -> [Holders -> Nat]]
    <2>1. balanceOf' = [balanceOf EXCEPT ![jobs[j].token] =
                          Transfer(@, caller, Escrow, jobs[j].budget)]
        BY DEF Fund
    <2>2. CASE jobs[j].token \in Tokens
        <3>1. /\ balanceOf[jobs[j].token] \in [Holders -> Nat]
              /\ jobs[j].budget \in Nat
              /\ jobs[j].budget <= balanceOf[jobs[j].token][caller]
            BY <1>1, <2>2 DEF TypeOK, Fund, Job, Holders
        <3>2. Transfer(balanceOf[jobs[j].token], caller, Escrow, jobs[j].budget)
                  \in [Holders -> Nat]
            BY <3>1, TransferType DEF Holders
        <3> QED BY <2>1, <2>2, <3>2 DEF TypeOK
    <2>3. CASE jobs[j].token \notin Tokens
        BY <2>1, <2>3 DEF TypeOK
    <2> QED BY <2>2, <2>3
<1> QED BY <1>2, <1>3 DEF Fund, TypeOK, envVars, govVars

LEMMA SubmitType ==
    ASSUME TypeOK, NEW caller \in Accounts, NEW j \in JobIds,
           NEW deliverable \in Deliverables \cup {NoHash},
           Submit(caller, j, deliverable)
    PROVE  TypeOK'
<1> DEFINE jobs1 == [jobs EXCEPT ![j].status = "Submitted"]
           jobs2 == [jobs1 EXCEPT ![j].submittedAt = now]
           jobs3 == [jobs2 EXCEPT ![j].deliverable = deliverable]
           later == IF now + MIN_EVALUATION_WINDOW > jobs3[j].deadline
                    THEN now + MIN_EVALUATION_WINDOW ELSE jobs3[j].deadline
<1>1. jobs' = [jobs3 EXCEPT ![j].deadline = later]
    BY DEF Submit
<1>2. jobs1 \in [JobIds -> Job]
    BY FieldUpdate DEF TypeOK, JobStatus
<1> HIDE DEF jobs1
<1>3. jobs2 \in [JobIds -> Job]
    BY <1>2, FieldUpdate DEF TypeOK
<1> HIDE DEF jobs2
<1>4. jobs3 \in [JobIds -> Job]
    BY <1>3, FieldUpdate
<1> HIDE DEF jobs3
<1>5. later \in Nat
    BY <1>4, TimeAssumption DEF TypeOK, Job
<1> HIDE DEF later
<1>6. jobs' \in [JobIds -> Job]
    BY <1>1, <1>4, <1>5, FieldUpdate
<1> QED BY <1>6, JobOnlyType DEF Submit, TypeOK

\* What the settlements share: the job is closed with an empty budget.
LEMMA CloseJobType ==
    ASSUME TypeOK, NEW j \in JobIds, NEW status \in JobStatus
    PROVE  [jobs EXCEPT ![j].status = status, ![j].budget = 0] \in [JobIds -> Job]
<1> DEFINE jobs1 == [jobs EXCEPT ![j].status = status]
<1>1. jobs1 \in [JobIds -> Job]
    BY FieldUpdate DEF TypeOK
<1> HIDE DEF jobs1
<1>2. [jobs1 EXCEPT ![j].budget = 0] \in [JobIds -> Job]
    BY <1>1, FieldUpdate
<1> QED BY <1>2 DEF jobs1

LEMMA ForwardOutcomeType ==
    ASSUME TypeOK, NEW j \in JobIds, NEW verdict \in BOOLEAN,
           jobs[j].provider \in Accounts, jobs[j].evaluator \in Accounts,
           ForwardOutcome(j, verdict)
    PROVE  outcomes' \in SUBSET Outcome
<1> DEFINE outcome == [job |-> j, cycle |-> jobs[j].cycle,
                       provider |-> jobs[j].provider,
                       evaluator |-> jobs[j].evaluator, completed |-> verdict]
<1>1. outcomes' \in {outcomes, outcomes \cup {outcome}}
    BY DEF ForwardOutcome
<1>2. jobs[j].cycle \in Nat
    BY DEF TypeOK, Job
<1>3. outcome \in Outcome
    BY <1>2 DEF Outcome
<1> HIDE DEF outcome
<1> QED BY <1>1, <1>3 DEF TypeOK

\* A settlement or a refund needs the parties and the token of the job: they are
\* known for every job that exists.  TypeOK alone is therefore not inductive.
TokenKnown == \A j \in JobIds : JobExists(j) => jobs[j].token \in Tokens

PartiesInv == TypeOK /\ TokenKnown /\ EvaluatorIndependence

LEMMA PartiesKnown ==
    ASSUME PartiesInv, NEW j \in JobIds, JobExists(j)
    PROVE  /\ jobs[j] \in Job
           /\ jobs[j].client \in Accounts
           /\ jobs[j].provider \in Accounts
           /\ jobs[j].token \in Tokens
           /\ jobs[j].budget \in Nat
           /\ jobs[j].evaluator \in Accounts \cup {NoAddress}
           /\ InEscrow(j) => jobs[j].evaluator \in Accounts
<1>1. jobs[j] \in Job
    BY DEF PartiesInv, TypeOK
<1> QED BY <1>1 DEF PartiesInv, TokenKnown, EvaluatorIndependence, JobExists, InEscrow, Job

LEMMA CreditRefundType ==
    ASSUME TypeOK, NEW client \in Accounts, NEW token \in Tokens, NEW amount \in Nat,
           CreditRefund(client, token, amount)
    PROVE  pendingRefunds' \in [Accounts -> [Tokens -> Nat]]
BY DEF TypeOK, CreditRefund

LEMMA SettleCompleteType ==
    ASSUME PartiesInv, NEW caller \in Accounts, NEW j \in JobIds,
           SettleComplete(caller, j)
    PROVE  TypeOK'
<1> DEFINE job == jobs[j]
           fee == ComputeFee(job.budget)
           paid == Transfer(balanceOf[job.token], Escrow, job.provider, job.budget - fee)
<1>1. TypeOK /\ JobExists(j) /\ InEscrow(j)
    BY DEF PartiesInv, SettleComplete, InEscrow
<1>2. /\ job.provider \in Accounts
      /\ job.evaluator \in Accounts
      /\ job.token \in Tokens
      /\ job.budget \in Nat
    BY <1>1, PartiesKnown
<1>3. fee \in 0 .. job.budget
    BY <1>1, <1>2, FeeBounded
<1>4. balanceOf[job.token] \in [Holders -> Nat] /\ job.budget <= balanceOf[job.token][Escrow]
    BY <1>1, <1>2 DEF TypeOK, SettleComplete, Holders
<1> HIDE DEF fee
<1>5. /\ paid \in [Holders -> Nat]
      /\ paid[Escrow] = balanceOf[job.token][Escrow] - (job.budget - fee)
    <2>1. job.budget - fee \in Nat /\ job.budget - fee <= balanceOf[job.token][Escrow]
        BY <1>2, <1>3, <1>4 DEF Holders
    <2> QED BY <2>1, <1>2, <1>4, TransferFromEscrow
<1> HIDE DEF paid
<1>6. DistributeFee(paid, job.evaluator, fee) \in [Holders -> Nat]
    <2>1. fee \in Nat /\ fee <= paid[Escrow]
        BY <1>2, <1>3, <1>4, <1>5 DEF Holders
    <2> QED BY <2>1, <1>1, <1>2, <1>5, DistributeFeeFromEscrow
<1>7. balanceOf' = [balanceOf EXCEPT ![job.token] = DistributeFee(paid, job.evaluator, fee)]
    BY DEF SettleComplete, paid, fee
<1>8. balanceOf' \in [Tokens -> [Holders -> Nat]]
    BY <1>1, <1>6, <1>7 DEF TypeOK
<1>9. jobs' \in [JobIds -> Job]
    <2>1. jobs' = [jobs EXCEPT ![j].status = "Completed", ![j].budget = 0]
        BY DEF SettleComplete
    <2> QED BY <1>1, <2>1, CloseJobType DEF JobStatus
<1>10. outcomes' \in SUBSET Outcome
    BY <1>1, <1>2, ForwardOutcomeType DEF SettleComplete
<1>11. UNCHANGED <<envVars, nextJobId, pendingRefunds, unbacked, govVars>>
    BY DEF SettleComplete
<1> QED BY <1>1, <1>8, <1>9, <1>10, <1>11 DEF TypeOK, envVars, govVars

LEMMA RejectType ==
    ASSUME PartiesInv, NEW caller \in Accounts, NEW j \in JobIds, Reject(caller, j)
    PROVE  TypeOK'
<1> DEFINE job == jobs[j]
           fee == IF InEscrow(j) THEN ComputeFee(job.budget) ELSE 0
<1>1. TypeOK /\ JobExists(j)
    BY DEF PartiesInv, Reject
<1>2. /\ job.client \in Accounts
      /\ job.provider \in Accounts
      /\ InEscrow(j) => job.evaluator \in Accounts
      /\ job.token \in Tokens
      /\ job.budget \in Nat
    BY <1>1, PartiesKnown
<1>3. fee \in 0 .. job.budget
    BY <1>1, <1>2, FeeBounded
<1>4. fee <= balanceOf[job.token][Escrow] /\ CreditRefund(job.client, job.token, job.budget - fee)
    <2>1. balanceOf[job.token][Escrow] >= fee /\ balanceOf[job.token][Escrow] \in Nat
        BY <1>1, <1>2 DEF Reject, TypeOK, Holders
    <2>2. CreditRefund(job.client, job.token, job.budget - fee)
        BY DEF Reject
    <2> HIDE DEF fee
    <2> QED BY <2>1, <2>2, <1>2, <1>3
<1>5. jobs' = [jobs EXCEPT ![j].status = "Rejected", ![j].budget = 0]
    BY DEF Reject
<1>6. /\ InEscrow(j) => /\ balanceOf' = [balanceOf EXCEPT ![job.token] =
                                           DistributeFee(@, job.evaluator, fee)]
                        /\ ForwardOutcome(j, FALSE)
                        /\ UNCHANGED unbacked
      /\ ~InEscrow(j) => /\ unbacked' = [unbacked EXCEPT ![job.token] = @ + job.budget]
                         /\ UNCHANGED <<balanceOf, outcomes>>
      /\ UNCHANGED <<envVars, nextJobId, govVars>>
    BY DEF Reject
<1> HIDE DEF fee
<1>7. pendingRefunds' \in [Accounts -> [Tokens -> Nat]]
    BY <1>1, <1>2, <1>3, <1>4, CreditRefundType
<1>8. jobs' \in [JobIds -> Job]
    BY <1>1, <1>5, CloseJobType DEF JobStatus
<1>9. balanceOf' \in [Tokens -> [Holders -> Nat]]
    <2>1. CASE InEscrow(j)
        <3>1. balanceOf[job.token] \in [Holders -> Nat]
            BY <1>1, <1>2 DEF TypeOK
        <3>2. DistributeFee(balanceOf[job.token], job.evaluator, fee) \in [Holders -> Nat]
            BY <1>1, <1>2, <1>3, <1>4, <2>1, <3>1, DistributeFeeFromEscrow
        <3> QED BY <1>1, <1>6, <2>1, <3>2 DEF TypeOK
    <2>2. CASE ~InEscrow(j)
        BY <1>1, <1>6, <2>2 DEF TypeOK
    <2> QED BY <2>1, <2>2
<1>10. outcomes' \in SUBSET Outcome
    <2>1. CASE InEscrow(j)
        BY <1>1, <1>2, <1>6, <2>1, ForwardOutcomeType
    <2>2. CASE ~InEscrow(j)
        BY <1>1, <1>6, <2>2 DEF TypeOK
    <2> QED BY <2>1, <2>2
<1>11. unbacked' \in [Tokens -> Nat]
    <2>1. unbacked \in [Tokens -> Nat]
        BY <1>1 DEF TypeOK
    <2>2. CASE InEscrow(j)
        BY <1>6, <2>1, <2>2
    <2>3. CASE ~InEscrow(j)
        BY <1>2, <1>6, <2>1, <2>3
    <2> QED BY <2>2, <2>3
<1> QED BY <1>1, <1>6, <1>7, <1>8, <1>9, <1>10, <1>11 DEF TypeOK, envVars, govVars

LEMMA ClaimExpiredType ==
    ASSUME PartiesInv, NEW caller \in Accounts, NEW j \in JobIds, ClaimExpired(caller, j)
    PROVE  TypeOK'
<1>1. TypeOK /\ JobExists(j)
    BY DEF PartiesInv, ClaimExpired
<1>2. jobs[j].client \in Accounts /\ jobs[j].token \in Tokens /\ jobs[j].budget \in Nat
    BY <1>1, PartiesKnown
<1>3. /\ jobs' = [jobs EXCEPT ![j].status = "Expired", ![j].budget = 0]
      /\ CreditRefund(jobs[j].client, jobs[j].token, jobs[j].budget)
      /\ UNCHANGED <<envVars, nextJobId, balanceOf, outcomes, unbacked, govVars>>
    BY DEF ClaimExpired
<1>4. jobs' \in [JobIds -> Job]
    BY <1>1, <1>3, CloseJobType DEF JobStatus
<1>5. pendingRefunds' \in [Accounts -> [Tokens -> Nat]]
    BY <1>1, <1>2, <1>3, CreditRefundType
<1> QED BY <1>1, <1>3, <1>4, <1>5 DEF TypeOK, envVars, govVars

LEMMA ClaimRefundType ==
    ASSUME TypeOK, NEW caller \in Accounts, NEW token \in Tokens, ClaimRefund(caller, token)
    PROVE  TypeOK'
<1> DEFINE amount == pendingRefunds[caller][token]
<1>1. amount \in Nat /\ balanceOf[token] \in [Holders -> Nat]
    BY DEF TypeOK
<1>2. amount <= balanceOf[token][Escrow]
    BY <1>1 DEF ClaimRefund, Holders
<1>3. /\ pendingRefunds' = [pendingRefunds EXCEPT ![caller][token] = 0]
      /\ balanceOf' = [balanceOf EXCEPT ![token] = Transfer(@, Escrow, caller, amount)]
      /\ UNCHANGED <<envVars, jobs, nextJobId, outcomes, unbacked, govVars>>
    BY DEF ClaimRefund
<1> HIDE DEF amount
<1>4. Transfer(balanceOf[token], Escrow, caller, amount) \in [Holders -> Nat]
    BY <1>1, <1>2, TransferFromEscrow
<1>5. balanceOf' \in [Tokens -> [Holders -> Nat]]
    BY <1>3, <1>4 DEF TypeOK
<1>6. pendingRefunds' \in [Accounts -> [Tokens -> Nat]]
    BY <1>3 DEF TypeOK
<1> QED BY <1>3, <1>5, <1>6 DEF TypeOK, envVars, govVars

LEMMA ExtendDeadlineType ==
    ASSUME TypeOK, NEW caller \in Accounts, NEW j \in JobIds, NEW newDeadline \in Nat,
           ExtendDeadline(caller, j, newDeadline)
    PROVE  TypeOK'
<1>1. jobs' \in [JobIds -> Job]
    BY FieldUpdate DEF TypeOK, ExtendDeadline
<1> QED BY <1>1, JobOnlyType DEF ExtendDeadline, TypeOK

LEMMA ReopenType ==
    ASSUME TypeOK, NEW caller \in Accounts, NEW j \in JobIds,
           NEW newProvider \in Accounts \cup {NoAddress}, NEW newDeadline \in Nat,
           Reopen(caller, j, newProvider, newDeadline)
    PROVE  TypeOK'
<1> DEFINE jobs1 == [jobs EXCEPT ![j].status = "Open"]
           jobs2 == [jobs1 EXCEPT ![j].provider = newProvider]
           jobs3 == [jobs2 EXCEPT ![j].deadline = newDeadline]
           jobs4 == [jobs3 EXCEPT ![j].evaluator = NoAddress]
           jobs5 == [jobs4 EXCEPT ![j].budget = 0]
           jobs6 == [jobs5 EXCEPT ![j].deliverable = NoHash]
           nextCycle == jobs[j].cycle + 1
<1>1. jobs' = [jobs6 EXCEPT ![j].cycle = nextCycle]
    BY DEF Reopen
<1>2. jobs1 \in [JobIds -> Job]
    BY FieldUpdate DEF TypeOK, JobStatus
<1> HIDE DEF jobs1
<1>3. jobs2 \in [JobIds -> Job]
    BY <1>2, FieldUpdate
<1> HIDE DEF jobs2
<1>4. jobs3 \in [JobIds -> Job]
    BY <1>3, FieldUpdate
<1> HIDE DEF jobs3
<1>5. jobs4 \in [JobIds -> Job]
    BY <1>4, FieldUpdate
<1> HIDE DEF jobs4
<1>6. jobs5 \in [JobIds -> Job]
    BY <1>5, FieldUpdate
<1> HIDE DEF jobs5
<1>7. jobs6 \in [JobIds -> Job]
    BY <1>6, FieldUpdate
<1> HIDE DEF jobs6
<1>8. nextCycle \in Nat
    BY DEF TypeOK, Job
<1> HIDE DEF nextCycle
<1>9. [jobs6 EXCEPT ![j].cycle = nextCycle] \in [JobIds -> Job]
    BY <1>7, <1>8, FieldUpdate
<1>10. jobs' \in [JobIds -> Job]
    BY <1>1, <1>9
<1> QED BY <1>10, JobOnlyType DEF Reopen, TypeOK

LEMMA JobManagerCallType ==
    ASSUME PartiesInv, JobManagerCall
    PROVE  TypeOK'
<1>1. /\ TypeOK
      /\ Budgets \subseteq Nat /\ Deadlines \subseteq Nat
      /\ Clients \subseteq Accounts /\ Providers \subseteq Accounts
      /\ Evaluators \subseteq Accounts
    BY AddressAssumption, AmountAssumption, TimeAssumption, BoundAssumption DEF PartiesInv
<1>2. CASE \E caller \in Clients, provider \in Providers \cup {NoAddress}, token \in Tokens,
              evaluator \in Evaluators \cup {NoAddress}, deadline \in Deadlines :
                CreateJob(caller, provider, evaluator, token, deadline)
    <2>1. PICK caller \in Clients, provider \in Providers \cup {NoAddress}, token \in Tokens,
               evaluator \in Evaluators \cup {NoAddress}, deadline \in Deadlines :
                 CreateJob(caller, provider, evaluator, token, deadline)
        BY <1>2
    <2>2. provider \in Accounts
        BY <1>1, <2>1 DEF CreateJob
    <2> QED BY <1>1, <2>1, <2>2, CreateJobType
<1>3. CASE \E caller \in Accounts, token \in Tokens : ClaimRefund(caller, token)
    BY <1>1, <1>3, ClaimRefundType
<1>4. ASSUME NEW caller \in Accounts, NEW j \in JobIds, NEW amount \in Budgets,
             SetBudget(caller, j, amount) \/ Fund(caller, j, amount)
      PROVE  TypeOK'
    BY <1>1, <1>4, SetBudgetType, FundType
<1>5. ASSUME NEW caller \in Accounts, NEW j \in JobIds,
             NEW deliverable \in Deliverables \cup {NoHash}, Submit(caller, j, deliverable)
      PROVE  TypeOK'
    BY <1>1, <1>5, SubmitType
<1>6. ASSUME NEW caller \in Accounts, NEW j \in JobIds,
             \/ Complete(caller, j)
             \/ \E verifier \in AcceptingVerifiers : CompleteAttested(caller, j, verifier)
      PROVE  TypeOK'
    BY <1>6, SettleCompleteType DEF Complete, CompleteAttested
<1>7. ASSUME NEW caller \in Accounts, NEW j \in JobIds,
             Reject(caller, j) \/ ClaimExpired(caller, j)
      PROVE  TypeOK'
    BY <1>7, RejectType, ClaimExpiredType
<1>8. ASSUME NEW caller \in Accounts, NEW j \in JobIds, NEW newDeadline \in Deadlines,
             ExtendDeadline(caller, j, newDeadline)
      PROVE  TypeOK'
    BY <1>1, <1>8, ExtendDeadlineType
<1>9. ASSUME NEW caller \in Accounts, NEW j \in JobIds,
             NEW newProvider \in Providers \cup {NoAddress}, NEW newDeadline \in Deadlines,
             Reopen(caller, j, newProvider, newDeadline)
      PROVE  TypeOK'
    BY <1>1, <1>9, ReopenType
<1> QED BY <1>2, <1>3, <1>4, <1>5, <1>6, <1>7, <1>8, <1>9 DEF JobManagerCall

\* A proposal or its deletion leaves every key with a typed value.
LEMMA TimelockCallType ==
    ASSUME TypeOK, TimelockCall
    PROVE  TypeOK'
<1>1. now + GOVERNANCE_DELAY \in Nat
    BY TimeAssumption DEF TypeOK
<1>2. ASSUME NEW rate \in FeeRates, ProposeFeeRate(rate) PROVE TypeOK'
    <2>1. rate \in 0 .. MAX_FEE_RATE
        BY <1>2, AmountAssumption DEF ProposeFeeRate
    <2> QED BY <1>1, <1>2, <2>1 DEF ProposeFeeRate, Propose, TypeOK, Change, envVars, jobVars
<1>3. ASSUME NEW rate \in FeeRates, ExecuteFeeRate(rate) PROVE TypeOK'
    <2>1. rate \in 0 .. MAX_FEE_RATE
        BY <1>3 DEF ExecuteFeeRate, Execute, TypeOK, Change, NoChange
    <2> QED BY <1>3, <2>1 DEF ExecuteFeeRate, Execute, TypeOK, envVars, jobVars
<1>4. ASSUME NEW fee \in EvaluationFees, ProposeEvaluationFee(fee) PROVE TypeOK'
    BY <1>1, <1>4, AmountAssumption
       DEF ProposeEvaluationFee, Propose, TypeOK, Change, envVars, jobVars
<1>5. ASSUME NEW fee \in EvaluationFees, ExecuteEvaluationFee(fee) PROVE TypeOK'
    BY <1>5, AmountAssumption DEF ExecuteEvaluationFee, Execute, TypeOK, envVars, jobVars
<1>6. ASSUME NEW address \in Treasuries, ProposeTreasury(address) PROVE TypeOK'
    BY <1>1, <1>6, AddressAssumption
       DEF ProposeTreasury, Propose, TypeOK, Change, envVars, jobVars
<1>7. ASSUME NEW address \in Treasuries, ExecuteTreasury(address) PROVE TypeOK'
    BY <1>7, AddressAssumption DEF ExecuteTreasury, Execute, TypeOK, envVars, jobVars
<1>8. ASSUME NEW bridge \in Bridges \cup {NoAddress}, ProposeReputationBridge(bridge)
      PROVE  TypeOK'
    BY <1>1, <1>8 DEF ProposeReputationBridge, Propose, TypeOK, Change, envVars, jobVars
<1>9. ASSUME NEW bridge \in Bridges \cup {NoAddress}, ExecuteReputationBridge(bridge)
      PROVE  TypeOK'
    BY <1>9 DEF ExecuteReputationBridge, Execute, TypeOK, envVars, jobVars
<1>10. ASSUME NEW key \in DOMAIN pendingChanges, CancelProposal(key) PROVE TypeOK'
    BY <1>10 DEF CancelProposal, TypeOK, envVars, jobVars
<1> QED BY <1>2, <1>3, <1>4, <1>5, <1>6, <1>7, <1>8, <1>9, <1>10 DEF TimelockCall

LEMMA WhitelistCallType ==
    ASSUME TypeOK, WhitelistCall
    PROVE  TypeOK'
BY DEF WhitelistCall, AllowToken, DisallowToken, TypeOK, envVars, jobVars

LEMMA NextType ==
    ASSUME PartiesInv, Next
    PROVE  TypeOK'
BY EnvironmentType, JobManagerCallType, TimelockCallType, WhitelistCallType
   DEF Next, PartiesInv

-----------------------------------------------------------------------------
(* The inductive invariant *)

\* Identifiers not handed out yet are empty slots.
FreshIds == \A j \in JobIds : j >= nextJobId => ~JobExists(j)

LifecycleInv == PartiesInv /\ FreshIds

-----------------------------------------------------------------------------
(* What a step may do to job j *)

SameParties(j) ==
    /\ jobs'[j].client = jobs[j].client
    /\ jobs'[j].provider = jobs[j].provider
    /\ jobs'[j].evaluator = jobs[j].evaluator
    /\ jobs'[j].token = jobs[j].token
    /\ jobs'[j].cycle = jobs[j].cycle

Created(j) ==
    /\ j = nextJobId /\ nextJobId' = nextJobId + 1
    /\ ~JobExists(j)
    /\ jobs'[j].client \in Accounts
    /\ jobs'[j].provider \in Accounts \ {jobs'[j].client}
    /\ jobs'[j].evaluator \notin {jobs'[j].client, jobs'[j].provider}
    /\ jobs'[j].token \in Tokens
    /\ jobs'[j].status = "Open"
    /\ jobs'[j].deliverable = NoHash

Budgeted(j) ==
    /\ SameParties(j)
    /\ jobs[j].status = "Open" /\ jobs'[j].status = "Open"
    /\ jobs'[j].deliverable = jobs[j].deliverable

FundedNow(j) ==
    /\ jobs'[j].client = jobs[j].client
    /\ jobs'[j].provider = jobs[j].provider
    /\ jobs'[j].token = jobs[j].token
    /\ jobs'[j].cycle = jobs[j].cycle
    /\ jobs'[j].evaluator \in Accounts \ {jobs[j].client, jobs[j].provider}
    /\ jobs'[j].evaluator \in eligible
    /\ jobs[j].status = "Open" /\ jobs'[j].status = "Funded"
    /\ jobs'[j].deliverable = jobs[j].deliverable

SubmittedNow(j) ==
    /\ SameParties(j)
    /\ jobs[j].status = "Funded" /\ jobs'[j].status = "Submitted"
    /\ jobs'[j].budget = jobs[j].budget
    /\ jobs'[j].deliverable # NoHash
    /\ jobs'[j].submittedAt = now
    /\ jobs'[j].deadline >= now + MIN_EVALUATION_WINDOW
    /\ jobs'[j].deadline >= jobs[j].deadline

Settled(j) ==
    /\ SameParties(j)
    /\ jobs'[j].deliverable = jobs[j].deliverable
    /\ \/ jobs[j].status = "Submitted" /\ jobs'[j].status = "Completed"
       \/ jobs[j].status \in {"Open", "Funded", "Submitted"} /\ jobs'[j].status = "Rejected"
       \/ InEscrow(j) /\ jobs'[j].status = "Expired" /\ now > jobs[j].deadline

Extended(j) ==
    /\ SameParties(j)
    /\ jobs[j].status = "Funded" /\ jobs'[j].status = "Funded"
    /\ jobs'[j].budget = jobs[j].budget
    /\ jobs'[j].deliverable = jobs[j].deliverable
    /\ jobs'[j].deadline >= jobs[j].deadline

Reopened(j) ==
    /\ jobs'[j].client = jobs[j].client
    /\ jobs'[j].token = jobs[j].token
    /\ jobs'[j].provider \in Accounts \ {jobs[j].client}
    /\ jobs'[j].evaluator = NoAddress
    /\ jobs[j].status = "Rejected" /\ jobs'[j].status = "Open"
    /\ jobs'[j].deliverable = NoHash
    /\ jobs'[j].cycle = jobs[j].cycle + 1

JobTransition(j) ==
    \/ jobs'[j] = jobs[j]
    \/ Created(j)
    \/ /\ JobExists(j)
       /\ \/ Budgeted(j) \/ FundedNow(j) \/ SubmittedNow(j) \/ Settled(j)
          \/ Extended(j) \/ Reopened(j)

-----------------------------------------------------------------------------
(* Every step of the contract is one of these for every job *)

LEMMA CreateJobStep ==
    ASSUME LifecycleInv, NEW caller \in Accounts,
           NEW provider \in Accounts \cup {NoAddress},
           NEW evaluator \in Evaluators \cup {NoAddress}, NEW token \in Tokens,
           NEW deadline \in Nat,
           CreateJob(caller, provider, evaluator, token, deadline)
    PROVE  \A i \in JobIds : JobTransition(i)
<1> DEFINE n == nextJobId
<1>1. jobs \in [JobIds -> Job] /\ n \in JobIds /\ ~JobExists(n)
    BY BoundAssumption
       DEF LifecycleInv, PartiesInv, TypeOK, FreshIds, CreateJob, JobIds
<1>2. jobs' = [jobs EXCEPT ![n] =
                  [NoJob EXCEPT !.client = caller, !.provider = provider,
                                !.evaluator = evaluator, !.token = token,
                                !.deadline = deadline]]
    BY DEF CreateJob
<1>3. /\ jobs'[n].client = caller
      /\ jobs'[n].provider = provider
      /\ jobs'[n].evaluator = evaluator
      /\ jobs'[n].token = token
      /\ jobs'[n].status = "Open"
      /\ jobs'[n].deliverable = NoHash
    BY <1>1, <1>2 DEF NoJob
<1>4. /\ provider \in Accounts \ {caller}
      /\ evaluator \notin {caller, provider}
    BY AddressAssumption DEF CreateJob
<1>5. Created(n)
    <2>1. nextJobId' = nextJobId + 1
        BY DEF CreateJob
    <2> QED BY <1>1, <1>3, <1>4, <2>1 DEF Created
<1>6. \A i \in JobIds : i # n => jobs'[i] = jobs[i]
    BY <1>1, <1>2
<1> QED BY <1>5, <1>6 DEF JobTransition

\* Closing a job: complete, reject and claimExpired.
LEMMA ClosedStep ==
    ASSUME LifecycleInv, NEW j \in JobIds, NEW status \in JobStatus,
           jobs' = [jobs EXCEPT ![j].status = status, ![j].budget = 0]
    PROVE  /\ SameParties(j)
           /\ jobs'[j].deliverable = jobs[j].deliverable
           /\ jobs'[j].status = status
           /\ \A i \in JobIds : i # j => jobs'[i] = jobs[i]
<1>1. jobs \in [JobIds -> Job]
    BY DEF LifecycleInv, PartiesInv, TypeOK
<1> QED BY <1>1 DEF SameParties, Job

LEMMA SetBudgetStep ==
    ASSUME LifecycleInv, NEW caller \in Accounts, NEW j \in JobIds, NEW amount \in Nat,
           SetBudget(caller, j, amount)
    PROVE  \A i \in JobIds : JobTransition(i)
<1>1. jobs \in [JobIds -> Job]
    BY DEF LifecycleInv, PartiesInv, TypeOK
<1>2. jobs' = [jobs EXCEPT ![j].budget = amount] /\ JobExists(j) /\ jobs[j].status = "Open"
    BY DEF SetBudget
<1>3. Budgeted(j)
    BY <1>1, <1>2 DEF Budgeted, SameParties, Job
<1>4. \A i \in JobIds : i # j => jobs'[i] = jobs[i]
    BY <1>1, <1>2
<1> QED BY <1>2, <1>3, <1>4 DEF JobTransition

LEMMA FundStep ==
    ASSUME LifecycleInv, NEW caller \in Accounts, NEW j \in JobIds, NEW amount \in Nat,
           Fund(caller, j, amount)
    PROVE  \A i \in JobIds : JobTransition(i)
<1>1. jobs \in [JobIds -> Job]
    BY DEF LifecycleInv, PartiesInv, TypeOK
<1>2. PICK evaluator \in Accounts :
          /\ evaluator \notin {jobs[j].provider, jobs[j].client}
          /\ jobs' = [jobs EXCEPT ![j].evaluator = evaluator, ![j].status = "Funded"]
    BY DEF Fund
<1>3. JobExists(j) /\ jobs[j].status = "Open"
    BY DEF Fund
<1>4. FundedNow(j)
    BY <1>1, <1>2, <1>3 DEF FundedNow, Job
<1>5. \A i \in JobIds : i # j => jobs'[i] = jobs[i]
    BY <1>1, <1>2
<1> QED BY <1>3, <1>4, <1>5 DEF JobTransition

LEMMA SubmitStep ==
    ASSUME LifecycleInv, NEW caller \in Accounts, NEW j \in JobIds,
           NEW deliverable \in Deliverables \cup {NoHash},
           Submit(caller, j, deliverable)
    PROVE  \A i \in JobIds : JobTransition(i)
<1> DEFINE later == IF now + MIN_EVALUATION_WINDOW > jobs[j].deadline
                    THEN now + MIN_EVALUATION_WINDOW ELSE jobs[j].deadline
<1>1. jobs \in [JobIds -> Job] /\ now \in Nat
    BY DEF LifecycleInv, PartiesInv, TypeOK
<1>2. /\ JobExists(j) /\ jobs[j].status = "Funded" /\ deliverable # NoHash
      /\ jobs' = [jobs EXCEPT ![j].status = "Submitted", ![j].submittedAt = now,
                              ![j].deliverable = deliverable, ![j].deadline = later]
    BY DEF Submit
<1>3. later >= now + MIN_EVALUATION_WINDOW /\ later >= jobs[j].deadline
    BY <1>1, TimeAssumption DEF Job
<1> HIDE DEF later
<1>4. /\ SameParties(j)
      /\ jobs'[j].status = "Submitted"
      /\ jobs'[j].budget = jobs[j].budget
      /\ jobs'[j].deliverable = deliverable
      /\ jobs'[j].submittedAt = now
      /\ jobs'[j].deadline = later
    BY <1>1, <1>2 DEF SameParties, Job
<1>5. SubmittedNow(j)
    BY <1>2, <1>3, <1>4 DEF SubmittedNow
<1>6. \A i \in JobIds : i # j => jobs'[i] = jobs[i]
    BY <1>1, <1>2
<1> QED BY <1>2, <1>5, <1>6 DEF JobTransition

LEMMA SettleCompleteStep ==
    ASSUME LifecycleInv, NEW caller \in Accounts, NEW j \in JobIds,
           SettleComplete(caller, j)
    PROVE  \A i \in JobIds : JobTransition(i)
<1>1. /\ JobExists(j) /\ jobs[j].status = "Submitted"
      /\ jobs' = [jobs EXCEPT ![j].status = "Completed", ![j].budget = 0]
    BY DEF SettleComplete
<1> QED BY <1>1, ClosedStep DEF JobTransition, Settled, JobStatus

LEMMA RejectStep ==
    ASSUME LifecycleInv, NEW caller \in Accounts, NEW j \in JobIds, Reject(caller, j)
    PROVE  \A i \in JobIds : JobTransition(i)
<1>1. /\ JobExists(j) /\ jobs[j].status \in {"Open", "Funded", "Submitted"}
      /\ jobs' = [jobs EXCEPT ![j].status = "Rejected", ![j].budget = 0]
    BY DEF Reject, RejectAuthorized, InEscrow
<1> QED BY <1>1, ClosedStep DEF JobTransition, Settled, JobStatus

LEMMA ClaimExpiredStep ==
    ASSUME LifecycleInv, NEW caller \in Accounts, NEW j \in JobIds, ClaimExpired(caller, j)
    PROVE  \A i \in JobIds : JobTransition(i)
<1>1. /\ JobExists(j) /\ InEscrow(j) /\ now > jobs[j].deadline
      /\ jobs' = [jobs EXCEPT ![j].status = "Expired", ![j].budget = 0]
    BY DEF ClaimExpired
<1> QED BY <1>1, ClosedStep DEF JobTransition, Settled, JobStatus

LEMMA ExtendDeadlineStep ==
    ASSUME LifecycleInv, NEW caller \in Accounts, NEW j \in JobIds, NEW newDeadline \in Nat,
           ExtendDeadline(caller, j, newDeadline)
    PROVE  \A i \in JobIds : JobTransition(i)
<1>1. jobs \in [JobIds -> Job]
    BY DEF LifecycleInv, PartiesInv, TypeOK
<1>2. /\ JobExists(j) /\ jobs[j].status = "Funded" /\ newDeadline > jobs[j].deadline
      /\ jobs' = [jobs EXCEPT ![j].deadline = newDeadline]
    BY DEF ExtendDeadline
<1>3. Extended(j)
    BY <1>1, <1>2 DEF Extended, SameParties, Job
<1>4. \A i \in JobIds : i # j => jobs'[i] = jobs[i]
    BY <1>1, <1>2
<1> QED BY <1>2, <1>3, <1>4 DEF JobTransition

LEMMA ReopenStep ==
    ASSUME LifecycleInv, NEW caller \in Accounts, NEW j \in JobIds,
           NEW newProvider \in Accounts \cup {NoAddress}, NEW newDeadline \in Nat,
           Reopen(caller, j, newProvider, newDeadline)
    PROVE  \A i \in JobIds : JobTransition(i)
<1>1. jobs \in [JobIds -> Job]
    BY DEF LifecycleInv, PartiesInv, TypeOK
<1>2. /\ JobExists(j) /\ jobs[j].status = "Rejected"
      /\ newProvider \in Accounts \ {jobs[j].client}
      /\ jobs' = [jobs EXCEPT ![j].status = "Open", ![j].provider = newProvider,
                              ![j].deadline = newDeadline, ![j].evaluator = NoAddress,
                              ![j].budget = 0, ![j].deliverable = NoHash,
                              ![j].cycle = @ + 1]
    BY DEF Reopen
<1>3. Reopened(j)
    BY <1>1, <1>2 DEF Reopened, Job
<1>4. \A i \in JobIds : i # j => jobs'[i] = jobs[i]
    BY <1>1, <1>2
<1> QED BY <1>2, <1>3, <1>4 DEF JobTransition

\* Calls that touch no job: the environment, refunds and governance.
LEMMA OtherStep ==
    ASSUME \/ Tick \/ RegistryStep \/ TimelockCall \/ WhitelistCall
           \/ \E caller \in Accounts, token \in Tokens : ClaimRefund(caller, token)
           \/ UNCHANGED vars
    PROVE  UNCHANGED <<jobs, nextJobId>>
BY DEF Tick, RegistryStep, ClaimRefund, WhitelistCall, AllowToken, DisallowToken,
       TimelockCall, ProposeFeeRate, ExecuteFeeRate, ProposeEvaluationFee,
       ExecuteEvaluationFee, ProposeTreasury, ExecuteTreasury,
       ProposeReputationBridge, ExecuteReputationBridge, CancelProposal,
       Propose, Execute, vars, jobVars

\* The calls that act on one job, with typed arguments.
JobCall ==
    \E caller \in Accounts, j \in JobIds :
        \/ \E amount \in Nat : SetBudget(caller, j, amount) \/ Fund(caller, j, amount)
        \/ \E deliverable \in Deliverables \cup {NoHash} : Submit(caller, j, deliverable)
        \/ SettleComplete(caller, j)
        \/ Reject(caller, j)
        \/ ClaimExpired(caller, j)
        \/ \E newDeadline \in Nat : ExtendDeadline(caller, j, newDeadline)
        \/ \E newProvider \in Accounts \cup {NoAddress}, newDeadline \in Nat :
              Reopen(caller, j, newProvider, newDeadline)

CreateCall ==
    \E caller \in Accounts, provider \in Accounts \cup {NoAddress}, token \in Tokens,
       evaluator \in Evaluators \cup {NoAddress}, deadline \in Nat :
          CreateJob(caller, provider, evaluator, token, deadline)

LEMMA CallCases ==
    ASSUME JobManagerCall
    PROVE  \/ CreateCall
           \/ JobCall
           \/ \E caller \in Accounts, token \in Tokens : ClaimRefund(caller, token)
<1>1. /\ Budgets \subseteq Nat /\ Deadlines \subseteq Nat
      /\ Clients \subseteq Accounts /\ Providers \subseteq Accounts
    BY AmountAssumption, TimeAssumption, BoundAssumption
<1> QED BY <1>1 DEF JobManagerCall, CreateCall, JobCall, Complete, CompleteAttested

LEMMA StepOfJob ==
    ASSUME LifecycleInv, [Next]_vars, NEW i \in JobIds
    PROVE  JobTransition(i)
<1>1. CASE CreateCall
    BY <1>1, CreateJobStep DEF CreateCall
<1>2. CASE JobCall
    BY <1>2, SetBudgetStep, FundStep, SubmitStep, SettleCompleteStep, RejectStep,
       ClaimExpiredStep, ExtendDeadlineStep, ReopenStep DEF JobCall
<1>3. CASE \/ Tick \/ RegistryStep \/ TimelockCall \/ WhitelistCall
           \/ \E caller \in Accounts, token \in Tokens : ClaimRefund(caller, token)
           \/ UNCHANGED vars
    BY <1>3, OtherStep DEF JobTransition
<1> QED BY <1>1, <1>2, <1>3, CallCases DEF Next

LEMMA NextIdGrows ==
    ASSUME LifecycleInv, [Next]_vars
    PROVE  nextJobId' \in {nextJobId, nextJobId + 1}
<1>1. CASE CreateCall
    BY <1>1 DEF CreateCall, CreateJob
<1>2. CASE JobCall
    <2>1. ASSUME NEW caller, NEW j, NEW amount, NEW deliverable, NEW newProvider,
                 NEW newDeadline,
                 \/ SetBudget(caller, j, amount)
                 \/ Fund(caller, j, amount)
                 \/ Submit(caller, j, deliverable)
                 \/ SettleComplete(caller, j)
                 \/ Reject(caller, j)
                 \/ ClaimExpired(caller, j)
                 \/ ExtendDeadline(caller, j, newDeadline)
                 \/ Reopen(caller, j, newProvider, newDeadline)
          PROVE  nextJobId' = nextJobId
        <3>1. CASE SetBudget(caller, j, amount)
            BY <3>1 DEF SetBudget
        <3>2. CASE Fund(caller, j, amount)
            BY <3>2 DEF Fund
        <3>3. CASE Submit(caller, j, deliverable)
            BY <3>3 DEF Submit
        <3>4. CASE SettleComplete(caller, j)
            BY <3>4 DEF SettleComplete
        <3>5. CASE Reject(caller, j)
            BY <3>5 DEF Reject
        <3>6. CASE ClaimExpired(caller, j)
            BY <3>6 DEF ClaimExpired
        <3>7. CASE ExtendDeadline(caller, j, newDeadline)
            BY <3>7 DEF ExtendDeadline
        <3>8. CASE Reopen(caller, j, newProvider, newDeadline)
            BY <3>8 DEF Reopen
        <3> QED BY <2>1, <3>1, <3>2, <3>3, <3>4, <3>5, <3>6, <3>7, <3>8
    <2> QED BY <1>2, <2>1 DEF JobCall
<1>3. CASE \/ Tick \/ RegistryStep \/ TimelockCall \/ WhitelistCall
           \/ \E caller \in Accounts, token \in Tokens : ClaimRefund(caller, token)
           \/ UNCHANGED vars
    BY <1>3, OtherStep
<1> QED BY <1>1, <1>2, <1>3, CallCases DEF Next

-----------------------------------------------------------------------------
(* The inductive invariant: types, known parties, fresh identifiers *)

LEMMA LifecycleInit == Init => LifecycleInv
<1> SUFFICES ASSUME Init PROVE LifecycleInv
    OBVIOUS
<1>1. TypeOK
    BY InitType
<1>2. \A j \in JobIds : ~JobExists(j)
    BY DEF Init, NoJob, JobExists
<1> QED BY <1>1, <1>2
        DEF LifecycleInv, PartiesInv, TokenKnown, EvaluatorIndependence, FreshIds

LEMMA LifecycleStep ==
    ASSUME LifecycleInv, [Next]_vars
    PROVE  LifecycleInv'
<1>1. TypeOK'
    <2>1. CASE Next
        BY <2>1, NextType DEF LifecycleInv
    <2>2. CASE UNCHANGED vars
        BY <2>2 DEF LifecycleInv, PartiesInv, TypeOK, vars, envVars, jobVars, govVars
    <2> QED BY <2>1, <2>2
<1>2. ASSUME NEW j \in JobIds, JobExists(j)'
      PROVE  jobs'[j].token \in Tokens
    BY <1>2, StepOfJob
       DEF LifecycleInv, PartiesInv, TokenKnown, JobExists, JobTransition, Created,
           Budgeted, FundedNow, SubmittedNow, Settled, Extended, Reopened, SameParties
<1>3. ASSUME NEW j \in JobIds, JobExists(j)'
      PROVE  /\ jobs'[j].provider # NoAddress
             /\ jobs'[j].provider # jobs'[j].client
             /\ jobs'[j].evaluator \notin {jobs'[j].client, jobs'[j].provider}
             /\ jobs'[j].status \notin {"Open", "Rejected"} => jobs'[j].evaluator # NoAddress
    <2>1. JobTransition(j)
        BY StepOfJob
    <2>2. JobExists(j) =>
            /\ jobs[j].client \in Accounts
            /\ jobs[j].provider # NoAddress
            /\ jobs[j].provider # jobs[j].client
            /\ jobs[j].evaluator \notin {jobs[j].client, jobs[j].provider}
            /\ jobs[j].status \notin {"Open", "Rejected"} => jobs[j].evaluator # NoAddress
        BY PartiesKnown DEF LifecycleInv, PartiesInv, EvaluatorIndependence
    <2>3. CASE jobs'[j] = jobs[j]
        BY <1>3, <2>2, <2>3 DEF JobExists
    <2>4. CASE Created(j)
        BY <2>4, AddressAssumption DEF Created
    <2>5. CASE JobExists(j) /\ (Budgeted(j) \/ SubmittedNow(j) \/ Extended(j) \/ Settled(j))
        BY <2>2, <2>5 DEF Budgeted, SubmittedNow, Settled, Extended, SameParties, InEscrow
    <2>6. CASE JobExists(j) /\ FundedNow(j)
        BY <2>2, <2>6, AddressAssumption DEF FundedNow
    <2>7. CASE JobExists(j) /\ Reopened(j)
        BY <2>2, <2>7, AddressAssumption DEF Reopened
    <2> QED BY <2>1, <2>3, <2>4, <2>5, <2>6, <2>7 DEF JobTransition
<1>4. ASSUME NEW j \in JobIds, j >= nextJobId' PROVE ~JobExists(j)'
    <2>1. j \in Int /\ nextJobId \in Int /\ nextJobId' \in {nextJobId, nextJobId + 1}
        BY NextIdGrows, BoundAssumption DEF LifecycleInv, PartiesInv, TypeOK, JobIds
    <2>2. j >= nextJobId
        BY <1>4, <2>1
    <2>3. ~JobExists(j) /\ ~Created(j)
        BY <1>4, <2>1, <2>2 DEF LifecycleInv, FreshIds, Created
    <2>4. jobs'[j] = jobs[j]
        BY <2>3, StepOfJob DEF JobTransition
    <2> QED BY <2>3, <2>4 DEF JobExists
<1>5. TokenKnown' /\ EvaluatorIndependence' /\ FreshIds'
    BY <1>2, <1>3, <1>4 DEF TokenKnown, EvaluatorIndependence, FreshIds
<1> QED BY <1>1, <1>5 DEF LifecycleInv, PartiesInv

\* Every reachable state is well typed, has its parties apart and hands out
\* fresh identifiers.
THEOREM LifecycleInvariant == Spec => []LifecycleInv
BY LifecycleInit, LifecycleStep, PTL DEF Spec

\* Type correctness: in particular no fee rate above the cap is ever in force
\* and no balance, refund or budget becomes negative.
THEOREM TypeCorrect == Spec => []TypeOK
<1>1. LifecycleInv => TypeOK
    BY DEF LifecycleInv, PartiesInv
<1> QED BY <1>1, LifecycleInvariant, PTL

\* The client, the provider and the evaluator of a job are three addresses,
\* whoever was chosen, drawn or brought in by reopen().
THEOREM IndependenceHolds == Spec => []EvaluatorIndependence
<1>1. LifecycleInv => EvaluatorIndependence
    BY DEF LifecycleInv, PartiesInv
<1> QED BY <1>1, LifecycleInvariant, PTL

\* A slot without a client is an unwritten one, field by field.
EmptySlots == \A j \in JobIds : ~JobExists(j) => jobs[j] = NoJob

\* No step writes a slot that is not a job afterwards.
LEMMA EmptySlotsStep ==
    ASSUME LifecycleInv, EmptySlots, [Next]_vars
    PROVE  EmptySlots'
<1>1. ASSUME NEW j \in JobIds, ~JobExists(j)' PROVE jobs'[j] = NoJob
    <2>1. JobTransition(j)
        BY StepOfJob
    <2>2. ~Created(j)
        BY <1>1, AddressAssumption DEF Created, JobExists
    <2>3. JobExists(j) => jobs'[j] = jobs[j]
        BY <1>1, <2>1, <2>2 DEF JobTransition, Budgeted, FundedNow, SubmittedNow, Settled,
                                Extended, Reopened, SameParties, JobExists
    <2>4. jobs'[j] = jobs[j]
        BY <2>1, <2>2, <2>3 DEF JobTransition
    <2> QED BY <1>1, <2>4 DEF EmptySlots, JobExists
<1> QED BY <1>1 DEF EmptySlots, JobExists

-----------------------------------------------------------------------------
(* Deliverables *)

LEMMA DeliverableStep ==
    ASSUME LifecycleInv, DeliverableOfThisAttempt, [Next]_vars
    PROVE  DeliverableOfThisAttempt'
<1>1. ASSUME NEW j \in JobIds
      PROVE  /\ jobs'[j].status \in {"Open", "Funded"} => jobs'[j].deliverable = NoHash
             /\ jobs'[j].status \in {"Submitted", "Completed"} =>
                    jobs'[j].deliverable # NoHash
    <2>1. JobTransition(j)
        BY StepOfJob
    <2> QED BY <2>1
            DEF DeliverableOfThisAttempt, JobTransition, Created, Budgeted, FundedNow,
                SubmittedNow, Settled, Extended, Reopened, InEscrow
<1> QED BY <1>1 DEF DeliverableOfThisAttempt

\* A verdict is always given on a deliverable of the current attempt.
THEOREM DeliverableHolds == Spec => []DeliverableOfThisAttempt
<1>1. Init => DeliverableOfThisAttempt
    BY DEF Init, NoJob, DeliverableOfThisAttempt
<1> QED BY <1>1, DeliverableStep, LifecycleInvariant, PTL DEF Spec

-----------------------------------------------------------------------------
(* The evaluation window and the terms of a funded job *)

\* What submit() establishes and nothing before the settlement takes away.
WindowOpen ==
    \A j \in JobIds : jobs[j].status = "Submitted" =>
        jobs[j].deadline >= jobs[j].submittedAt + MIN_EVALUATION_WINDOW

LEMMA WindowStep ==
    ASSUME LifecycleInv, WindowOpen, [Next]_vars
    PROVE  WindowOpen'
<1>1. ASSUME NEW j \in JobIds, jobs'[j].status = "Submitted"
      PROVE  jobs'[j].deadline >= jobs'[j].submittedAt + MIN_EVALUATION_WINDOW
    <2>1. JobTransition(j)
        BY StepOfJob
    <2>2. jobs'[j] = jobs[j] \/ SubmittedNow(j)
        BY <1>1, <2>1 DEF JobTransition, Created, Budgeted, FundedNow, Settled, Extended,
                          Reopened
    <2> QED BY <1>1, <2>2 DEF SubmittedNow, WindowOpen
<1> QED BY <1>1 DEF WindowOpen

THEOREM WindowHolds == Spec => []WindowOpen
<1>1. Init => WindowOpen
    BY DEF Init, NoJob, WindowOpen
<1> QED BY <1>1, WindowStep, LifecycleInvariant, PTL DEF Spec

\* A submitted job expires only after the whole evaluation window: the deadline
\* griefing that submit() guards against is impossible.
THEOREM WindowHonoured == Spec => EvaluationWindowHonoured
<1>1. ASSUME LifecycleInv, WindowOpen, [Next]_vars
      PROVE  [\A j \in JobIds :
                jobs[j].status = "Submitted" /\ jobs'[j].status = "Expired" =>
                    now > jobs[j].submittedAt + MIN_EVALUATION_WINDOW]_vars
    <2> SUFFICES ASSUME NEW j \in JobIds, jobs[j].status = "Submitted",
                        jobs'[j].status = "Expired"
                 PROVE  now > jobs[j].submittedAt + MIN_EVALUATION_WINDOW
        OBVIOUS
    <2>1. JobTransition(j)
        BY <1>1, StepOfJob
    <2>2. now > jobs[j].deadline
        BY <2>1 DEF JobTransition, Created, Budgeted, FundedNow, SubmittedNow, Settled,
                    Extended, Reopened
    <2>3. jobs[j].deadline >= jobs[j].submittedAt + MIN_EVALUATION_WINDOW
        BY <1>1 DEF WindowOpen
    <2>4. jobs[j] \in Job /\ now \in Nat
        BY <1>1 DEF LifecycleInv, PartiesInv, TypeOK
    <2> QED BY <2>2, <2>3, <2>4, TimeAssumption DEF Job
<1> QED BY <1>1, LifecycleInvariant, WindowHolds, PTL DEF Spec, EvaluationWindowHonoured

\* From funding to settlement parties, token and budget do not change and the
\* deadline never moves closer.
THEOREM TermsFrozen == Spec => FundedTermsFrozen
<1>1. ASSUME LifecycleInv, [Next]_vars
      PROVE  [\A j \in JobIds : InEscrow(j) /\ InEscrow(j)' =>
                /\ \A field \in {"client", "provider", "evaluator", "token", "budget"} :
                     jobs'[j][field] = jobs[j][field]
                /\ jobs'[j].deadline >= jobs[j].deadline]_vars
    <2> SUFFICES ASSUME NEW j \in JobIds, InEscrow(j), InEscrow(j)'
                 PROVE  /\ \A field \in {"client", "provider", "evaluator", "token",
                                         "budget"} : jobs'[j][field] = jobs[j][field]
                        /\ jobs'[j].deadline >= jobs[j].deadline
        OBVIOUS
    <2>1. JobTransition(j)
        BY <1>1, StepOfJob
    <2>2. jobs'[j] = jobs[j] \/ SubmittedNow(j) \/ Extended(j)
        BY <2>1 DEF JobTransition, Created, Budgeted, FundedNow, Settled, Reopened, InEscrow
    <2>3. jobs[j].deadline \in Nat
        BY <1>1 DEF LifecycleInv, PartiesInv, TypeOK, Job
    <2> QED BY <2>2, <2>3 DEF SubmittedNow, Extended, SameParties
<1> QED BY <1>1, LifecycleInvariant, PTL DEF Spec, FundedTermsFrozen

-----------------------------------------------------------------------------
(* AgentJobManager implements JobChain.  A step of the contract writes at     *)
(* most one job (each lemma below names it) and moves what getJob() shows of  *)
(* it along one move of JobChain.                                             *)

chainBar == [j \in JobIds |-> VisibleJob(j)]

RefinementInv == LifecycleInv /\ EmptySlots

LEMMA RefinementInvInit == Init => RefinementInv
<1>1. Init => LifecycleInv
    BY LifecycleInit
<1>2. Init => EmptySlots
    BY DEF Init, EmptySlots
<1> QED BY <1>1, <1>2 DEF RefinementInv

LEMMA RefinementInvStep == RefinementInv /\ [Next]_vars => RefinementInv'
<1> SUFFICES ASSUME RefinementInv, [Next]_vars PROVE RefinementInv'
    OBVIOUS
<1> QED BY LifecycleStep, EmptySlotsStep DEF RefinementInv

LEMMA InitMaps == Init => Promise!ChainInit
BY DEF Init, Promise!ChainInit, Promise!Absent, VisibleJob, JobExists, NoJob

-----------------------------------------------------------------------------
(* One job written, and what is visible of it *)

\* The fields of a job record that getJob()'s abstract view keeps.
Seen(job) == [status |-> job.status, evaluator |-> job.evaluator,
              deliverable |-> job.deliverable, attempt |-> job.cycle]

\* Writing an existing job and keeping its client changes what is visible of
\* that job only.
LEMMA OneJobWritten ==
    ASSUME jobs \in [JobIds -> Job], NEW j \in JobIds, NEW new, JobExists(j),
           new.client = jobs[j].client,
           jobs' = [jobs EXCEPT ![j] = new]
    PROVE  chainBar' = [chainBar EXCEPT ![j] = Seen(new)]
<1>1. jobs'[j] = new /\ \A i \in JobIds \ {j} : jobs'[i] = jobs[i]
    OBVIOUS
<1>2. VisibleJob(j)' = Seen(new)
    BY <1>1 DEF VisibleJob, JobExists, Seen
<1>3. \A i \in JobIds \ {j} : VisibleJob(i)' = VisibleJob(i)
    BY <1>1 DEF VisibleJob, JobExists
<1> QED BY <1>2, <1>3 DEF chainBar

\* What of jobs[j] is visible when the job exists.
LEMMA VisibleFields ==
    ASSUME NEW j \in JobIds, JobExists(j)
    PROVE  /\ chainBar[j] = Seen(jobs[j])
           /\ chainBar[j].status = jobs[j].status
           /\ chainBar[j].evaluator = jobs[j].evaluator
           /\ chainBar[j].deliverable = jobs[j].deliverable
           /\ chainBar[j].attempt = jobs[j].cycle
BY DEF chainBar, VisibleJob, Seen

LEMMA JobsTyped == ASSUME RefinementInv PROVE jobs \in [JobIds -> Job]
BY DEF RefinementInv, LifecycleInv, PartiesInv, TypeOK

-----------------------------------------------------------------------------
(* Every call of the contract is a move of JobChain or none *)

LEMMA CreateJobMaps ==
    ASSUME RefinementInv, NEW caller \in Accounts,
           NEW provider \in Accounts \cup {NoAddress},
           NEW evaluator \in Evaluators \cup {NoAddress}, NEW token \in Tokens,
           NEW deadline \in Nat,
           CreateJob(caller, provider, evaluator, token, deadline)
    PROVE  \E j \in JobIds : Promise!ChainCreate(j, evaluator)
<1>1. PICK n \in JobIds : n = nextJobId
    BY BoundAssumption
       DEF RefinementInv, LifecycleInv, PartiesInv, TypeOK, CreateJob, JobIds
<1>2. jobs \in [JobIds -> Job] /\ ~JobExists(n)
    BY <1>1 DEF RefinementInv, LifecycleInv, PartiesInv, TypeOK, FreshIds
<1> DEFINE new == [NoJob EXCEPT !.client = caller, !.provider = provider,
                                !.evaluator = evaluator, !.token = token,
                                !.deadline = deadline]
<1>3. /\ new.client = caller /\ new.status = "Open" /\ new.evaluator = evaluator
      /\ new.deliverable = NoHash /\ new.cycle = 0
    BY DEF NoJob
<1>4. jobs'[n] = new /\ \A i \in JobIds \ {n} : jobs'[i] = jobs[i]
    BY <1>1, <1>2 DEF CreateJob
<1> HIDE DEF new
<1>5. chainBar[n] = Promise!Absent
    <2>1. jobs[n] = NoJob
        BY <1>2 DEF RefinementInv, EmptySlots
    <2> QED BY <1>2, <2>1 DEF chainBar, VisibleJob, Promise!Absent, NoJob
<1>6. VisibleJob(n)' = [status |-> "Open", evaluator |-> evaluator,
                        deliverable |-> NoHash, attempt |-> 0]
    BY <1>3, <1>4, AddressAssumption DEF VisibleJob, JobExists
<1>7. \A i \in JobIds \ {n} : VisibleJob(i)' = VisibleJob(i)
    BY <1>4 DEF VisibleJob, JobExists
<1>8. chainBar' = [chainBar EXCEPT ![n] = [status |-> "Open", evaluator |-> evaluator,
                                           deliverable |-> NoHash, attempt |-> 0]]
    BY <1>6, <1>7 DEF chainBar
<1>9. chainBar[n].attempt = 0
    BY <1>5 DEF Promise!Absent
<1> QED BY <1>5, <1>8, <1>9 DEF Promise!ChainCreate, Promise!Shows, chainBar

LEMMA FundMaps ==
    ASSUME RefinementInv, NEW caller \in Accounts, NEW j \in JobIds, NEW amount \in Nat,
           Fund(caller, j, amount)
    PROVE  \E evaluator \in Accounts : Promise!ChainFund(j, evaluator)
<1>1. jobs \in [JobIds -> Job]
    BY JobsTyped
<1>2. PICK evaluator \in Accounts :
        /\ jobs[j].evaluator # NoAddress => evaluator = jobs[j].evaluator
        /\ jobs' = [jobs EXCEPT ![j].evaluator = evaluator, ![j].status = "Funded"]
    BY DEF Fund
<1>3. JobExists(j) /\ jobs[j].status = "Open"
    BY DEF Fund
<1> DEFINE new == [jobs[j] EXCEPT !.evaluator = evaluator, !.status = "Funded"]
<1>4. jobs' = [jobs EXCEPT ![j] = new]
    BY <1>1, <1>2
<1>5. /\ new \in Job /\ new.client = jobs[j].client /\ new.status = "Funded"
      /\ new.evaluator = evaluator /\ new.deliverable = jobs[j].deliverable
      /\ new.cycle = jobs[j].cycle
    BY <1>1 DEF Job, JobStatus
<1> HIDE DEF new
<1>6. chainBar' = [chainBar EXCEPT ![j] = Seen(new)]
    BY <1>1, <1>3, <1>4, <1>5, OneJobWritten
<1>7. Seen(new) = [status |-> "Funded", evaluator |-> evaluator,
                   deliverable |-> chainBar[j].deliverable,
                   attempt |-> chainBar[j].attempt]
    BY <1>3, <1>5, VisibleFields DEF Seen
<1>8. evaluator # NoAddress
    BY AddressAssumption
<1> QED BY <1>2, <1>3, <1>6, <1>7, <1>8, VisibleFields DEF Promise!ChainFund, Promise!Shows, chainBar

LEMMA SubmitMaps ==
    ASSUME RefinementInv, NEW caller \in Accounts, NEW j \in JobIds,
           NEW deliverable \in Deliverables \cup {NoHash},
           Submit(caller, j, deliverable)
    PROVE  \E hash \in Deliverables : Promise!ChainSubmit(j, hash)
<1>1. jobs \in [JobIds -> Job] /\ now \in Nat
    BY JobsTyped DEF RefinementInv, LifecycleInv, PartiesInv, TypeOK
<1>2. JobExists(j) /\ jobs[j].status = "Funded" /\ deliverable \in Deliverables
    BY DEF Submit
<1> DEFINE extended == IF now + MIN_EVALUATION_WINDOW > jobs[j].deadline
                       THEN now + MIN_EVALUATION_WINDOW ELSE jobs[j].deadline
           new == [jobs[j] EXCEPT !.status = "Submitted", !.submittedAt = now,
                                  !.deliverable = deliverable, !.deadline = extended]
<1>3. jobs' = [jobs EXCEPT ![j] = new]
    BY <1>1 DEF Submit
<1>4. extended \in Nat
    BY <1>1, TimeAssumption DEF Job
<1> HIDE DEF extended
<1>5. /\ new \in Job /\ new.client = jobs[j].client /\ new.status = "Submitted"
      /\ new.evaluator = jobs[j].evaluator /\ new.deliverable = deliverable
      /\ new.cycle = jobs[j].cycle
    BY <1>1, <1>4 DEF Job, JobStatus
<1> HIDE DEF new
<1>6. chainBar' = [chainBar EXCEPT ![j] = Seen(new)]
    BY <1>1, <1>2, <1>3, <1>5, OneJobWritten
<1>7. Seen(new) = [status |-> "Submitted", evaluator |-> chainBar[j].evaluator,
                   deliverable |-> deliverable, attempt |-> chainBar[j].attempt]
    BY <1>2, <1>5, VisibleFields DEF Seen
<1> QED BY <1>2, <1>6, <1>7, VisibleFields DEF Promise!ChainSubmit, Promise!Shows, chainBar

\* complete, reject and claimExpired write the status and clear the budget.
LEMMA ClosingMaps ==
    ASSUME RefinementInv, NEW j \in JobIds, NEW status \in JobStatus, JobExists(j),
           jobs' = [jobs EXCEPT ![j].status = status, ![j].budget = 0]
    PROVE  Promise!Turns(j, status)
<1>1. jobs \in [JobIds -> Job]
    BY JobsTyped
<1> DEFINE new == [jobs[j] EXCEPT !.status = status, !.budget = 0]
<1>2. jobs' = [jobs EXCEPT ![j] = new]
    BY <1>1
<1>3. /\ new \in Job /\ new.client = jobs[j].client /\ new.status = status
      /\ new.evaluator = jobs[j].evaluator /\ new.deliverable = jobs[j].deliverable
      /\ new.cycle = jobs[j].cycle
    BY <1>1 DEF Job
<1> HIDE DEF new
<1>4. chainBar' = [chainBar EXCEPT ![j] = Seen(new)]
    BY <1>1, <1>2, <1>3, OneJobWritten
<1>5. Seen(new) = [status |-> status, evaluator |-> chainBar[j].evaluator,
                   deliverable |-> chainBar[j].deliverable,
                   attempt |-> chainBar[j].attempt]
    BY <1>3, VisibleFields DEF Seen
<1> QED BY <1>4, <1>5 DEF Promise!Turns, Promise!Shows, chainBar

LEMMA ReopenMaps ==
    ASSUME RefinementInv, NEW caller \in Accounts, NEW j \in JobIds,
           NEW newProvider \in Accounts \cup {NoAddress}, NEW newDeadline \in Nat,
           Reopen(caller, j, newProvider, newDeadline)
    PROVE  Promise!ChainReopen(j)
<1>1. jobs \in [JobIds -> Job]
    BY JobsTyped
<1>2. /\ JobExists(j) /\ jobs[j].status = "Rejected" /\ jobs[j].cycle < MaxReopens
      /\ newProvider \in Accounts
    BY DEF Reopen
<1> DEFINE new == [jobs[j] EXCEPT !.status = "Open", !.provider = newProvider,
                                  !.deadline = newDeadline, !.evaluator = NoAddress,
                                  !.budget = 0, !.deliverable = NoHash, !.cycle = @ + 1]
<1>3. jobs' = [jobs EXCEPT ![j] = new]
    BY <1>1 DEF Reopen
<1>4. /\ new.client = jobs[j].client /\ new.status = "Open"
      /\ new.evaluator = NoAddress /\ new.deliverable = NoHash
      /\ new.cycle = jobs[j].cycle + 1
    BY <1>1 DEF Job
<1> HIDE DEF new
<1>5. chainBar' = [chainBar EXCEPT ![j] = Seen(new)]
    BY <1>1, <1>2, <1>3, <1>4, OneJobWritten
<1>6. Seen(new) = [status |-> "Open", evaluator |-> NoAddress, deliverable |-> NoHash,
                   attempt |-> chainBar[j].attempt + 1]
    BY <1>2, <1>4, VisibleFields DEF Seen
<1> QED BY <1>2, <1>5, <1>6, VisibleFields DEF Promise!ChainReopen, chainBar

\* setBudget and extendDeadline write fields that getJob()'s abstract view omits.
LEMMA UnseenWrite ==
    ASSUME RefinementInv, NEW j \in JobIds, JobExists(j), NEW new \in Job,
           jobs' = [jobs EXCEPT ![j] = new],
           new.client = jobs[j].client, new.status = jobs[j].status,
           new.evaluator = jobs[j].evaluator,
           new.deliverable = jobs[j].deliverable, new.cycle = jobs[j].cycle
    PROVE  chainBar' = chainBar
<1>1. jobs \in [JobIds -> Job]
    BY JobsTyped
<1>2. chainBar' = [chainBar EXCEPT ![j] = Seen(new)]
    BY <1>1, OneJobWritten
<1>3. Seen(new) = chainBar[j]
    BY VisibleFields DEF Seen
<1> QED BY <1>2, <1>3 DEF chainBar

LEMMA NoJobWritten == ASSUME jobs' = jobs PROVE chainBar' = chainBar
BY DEF chainBar, VisibleJob, JobExists

LEMMA SetBudgetUnseen ==
    ASSUME RefinementInv, NEW caller \in Accounts, NEW j \in JobIds, NEW amount \in Nat,
           SetBudget(caller, j, amount)
    PROVE  chainBar' = chainBar
<1>1. jobs \in [JobIds -> Job] /\ JobExists(j)
    BY JobsTyped DEF SetBudget
<1> DEFINE new == [jobs[j] EXCEPT !.budget = amount]
<1>2. jobs' = [jobs EXCEPT ![j] = new]
    BY DEF SetBudget
<1>3. /\ new \in Job /\ new.client = jobs[j].client /\ new.status = jobs[j].status
      /\ new.evaluator = jobs[j].evaluator
      /\ new.deliverable = jobs[j].deliverable /\ new.cycle = jobs[j].cycle
    BY <1>1 DEF Job
<1> HIDE DEF new
<1> QED BY <1>1, <1>2, <1>3, UnseenWrite

LEMMA ExtendDeadlineUnseen ==
    ASSUME RefinementInv, NEW caller \in Accounts, NEW j \in JobIds,
           NEW newDeadline \in Nat, ExtendDeadline(caller, j, newDeadline)
    PROVE  chainBar' = chainBar
<1>1. jobs \in [JobIds -> Job] /\ JobExists(j)
    BY JobsTyped DEF ExtendDeadline
<1> DEFINE new == [jobs[j] EXCEPT !.deadline = newDeadline]
<1>2. jobs' = [jobs EXCEPT ![j] = new]
    BY DEF ExtendDeadline
<1>3. /\ new \in Job /\ new.client = jobs[j].client /\ new.status = jobs[j].status
      /\ new.evaluator = jobs[j].evaluator
      /\ new.deliverable = jobs[j].deliverable /\ new.cycle = jobs[j].cycle
    BY <1>1 DEF Job
<1> HIDE DEF new
<1> QED BY <1>1, <1>2, <1>3, UnseenWrite

\* The three settlements.
LEMMA SettlementMaps ==
    ASSUME RefinementInv, NEW caller \in Accounts, NEW j \in JobIds,
           SettleComplete(caller, j) \/ Reject(caller, j) \/ ClaimExpired(caller, j)
    PROVE  Promise!ChainComplete(j) \/ Promise!ChainReject(j) \/ Promise!ChainExpire(j)
<1>1. JobExists(j) => chainBar[j].status = jobs[j].status
    BY VisibleFields
<1>2. CASE SettleComplete(caller, j)
    <2>1. /\ JobExists(j) /\ jobs[j].status = "Submitted"
          /\ jobs' = [jobs EXCEPT ![j].status = "Completed", ![j].budget = 0]
        BY <1>2 DEF SettleComplete
    <2>2. Promise!Turns(j, "Completed")
        BY <2>1, ClosingMaps DEF JobStatus
    <2> QED BY <1>1, <2>1, <2>2 DEF Promise!ChainComplete, chainBar
<1>3. CASE Reject(caller, j)
    <2>1. /\ JobExists(j) /\ jobs[j].status \in {"Open", "Funded", "Submitted"}
          /\ jobs' = [jobs EXCEPT ![j].status = "Rejected", ![j].budget = 0]
        BY <1>3 DEF Reject, RejectAuthorized, InEscrow
    <2>2. Promise!Turns(j, "Rejected")
        BY <2>1, ClosingMaps DEF JobStatus
    <2> QED BY <1>1, <2>1, <2>2 DEF Promise!ChainReject, chainBar
<1>4. CASE ClaimExpired(caller, j)
    <2>1. /\ JobExists(j) /\ jobs[j].status \in {"Funded", "Submitted"}
          /\ jobs' = [jobs EXCEPT ![j].status = "Expired", ![j].budget = 0]
        BY <1>4 DEF ClaimExpired, InEscrow
    <2>2. Promise!Turns(j, "Expired")
        BY <2>1, ClosingMaps DEF JobStatus
    <2> QED BY <1>1, <2>1, <2>2 DEF Promise!ChainExpire, chainBar
<1> QED BY <1>2, <1>3, <1>4

LEMMA JobCallMaps ==
    ASSUME RefinementInv, NEW caller \in Accounts, NEW j \in JobIds,
           \/ \E amount \in Nat : SetBudget(caller, j, amount) \/ Fund(caller, j, amount)
           \/ \E deliverable \in Deliverables \cup {NoHash} : Submit(caller, j, deliverable)
           \/ SettleComplete(caller, j)
           \/ Reject(caller, j)
           \/ ClaimExpired(caller, j)
           \/ \E newDeadline \in Nat : ExtendDeadline(caller, j, newDeadline)
           \/ \E newProvider \in Accounts \cup {NoAddress}, newDeadline \in Nat :
                 Reopen(caller, j, newProvider, newDeadline)
    PROVE  Promise!ChainStep(j) \/ chainBar' = chainBar
<1>1. ASSUME NEW amount \in Nat, SetBudget(caller, j, amount) PROVE chainBar' = chainBar
    BY <1>1, SetBudgetUnseen
<1>2. ASSUME NEW amount \in Nat, Fund(caller, j, amount) PROVE Promise!ChainStep(j)
    BY <1>2, FundMaps DEF Promise!ChainStep
<1>3. ASSUME NEW deliverable \in Deliverables \cup {NoHash}, Submit(caller, j, deliverable)
      PROVE  Promise!ChainStep(j)
    BY <1>3, SubmitMaps DEF Promise!ChainStep
<1>4. ASSUME SettleComplete(caller, j) \/ Reject(caller, j) \/ ClaimExpired(caller, j)
      PROVE  Promise!ChainStep(j)
    BY <1>4, SettlementMaps DEF Promise!ChainStep
<1>5. ASSUME NEW newDeadline \in Nat, ExtendDeadline(caller, j, newDeadline)
      PROVE  chainBar' = chainBar
    BY <1>5, ExtendDeadlineUnseen
<1>6. ASSUME NEW newProvider \in Accounts \cup {NoAddress}, NEW newDeadline \in Nat,
             Reopen(caller, j, newProvider, newDeadline)
      PROVE  Promise!ChainStep(j)
    BY <1>6, ReopenMaps DEF Promise!ChainStep
<1> QED BY <1>1, <1>2, <1>3, <1>4, <1>5, <1>6

LEMMA StepMaps ==
    ASSUME RefinementInv, [Next]_vars
    PROVE  Promise!ChainNext \/ chainBar' = chainBar
<1>1. CASE CreateCall
    <2>1. PICK caller \in Accounts, provider \in Accounts \cup {NoAddress},
               token \in Tokens, evaluator \in Evaluators \cup {NoAddress},
               deadline \in Nat : CreateJob(caller, provider, evaluator, token, deadline)
        BY <1>1 DEF CreateCall
    <2>2. PICK j \in JobIds : Promise!ChainCreate(j, evaluator)
        BY <2>1, CreateJobMaps
    <2>3. evaluator \in Accounts \cup {NoAddress}
        BY AddressAssumption
    <2> QED BY <2>2, <2>3 DEF Promise!ChainNext, Promise!ChainStep
<1>2. CASE JobCall
    BY <1>2, JobCallMaps DEF JobCall, Promise!ChainNext
<1>3. CASE \/ Tick \/ RegistryStep \/ TimelockCall \/ WhitelistCall
           \/ \E caller \in Accounts, token \in Tokens : ClaimRefund(caller, token)
           \/ UNCHANGED vars
    BY <1>3, OtherStep, NoJobWritten
<1> QED BY <1>1, <1>2, <1>3, CallCases DEF Next

\* AgentJobManager implements JobChain: whatever calls are made in whatever
\* order, with governance acting in between, what getJob() shows starts absent
\* and moves by the abstract steps only.
THEOREM RefinesJobChain == Spec => ImplementsJobChain
<1>1. RefinementInv /\ [Next]_vars => [Promise!ChainNext]_chainBar
    BY StepMaps
<1> QED BY <1>1, InitMaps, RefinementInvInit, RefinementInvStep, PTL
        DEF Spec, ImplementsJobChain, Promise!ChainSpec, chainBar

=============================================================================
