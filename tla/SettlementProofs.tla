--------------------------- MODULE SettlementProofs ---------------------------
(***************************************************************************)
(* What settlements leave behind: refunds, which only ever shrink by being *)
(* paid to their owner, and the outcomes reported to the bridge, which     *)
(* agree with how each attempt ended.  For every value of the constants.   *)
(***************************************************************************)
EXTENDS AgentJobManagerProofs, FiniteSums

SettlementCall ==
    \E caller \in Accounts, j \in JobIds :
        SettleComplete(caller, j) \/ Reject(caller, j) \/ ClaimExpired(caller, j)

RefundCall == \E caller \in Accounts, token \in Tokens : ClaimRefund(caller, token)

\* Only settlements and claimRefund touch refunds and outcomes.
LEMMA SettlementCases ==
    ASSUME [Next]_vars
    PROVE  \/ SettlementCall
           \/ RefundCall
           \/ UNCHANGED <<pendingRefunds, outcomes>>
<1>1. CASE CreateCall
    BY <1>1 DEF CreateCall, CreateJob
<1>2. CASE JobCall
    <2>1. PICK caller \in Accounts, j \in JobIds :
             \/ \E amount \in Nat : SetBudget(caller, j, amount) \/ Fund(caller, j, amount)
             \/ \E deliverable \in Deliverables \cup {NoHash} :
                   Submit(caller, j, deliverable)
             \/ SettleComplete(caller, j) \/ Reject(caller, j) \/ ClaimExpired(caller, j)
             \/ \E newDeadline \in Nat : ExtendDeadline(caller, j, newDeadline)
             \/ \E newProvider \in Accounts \cup {NoAddress}, newDeadline \in Nat :
                   Reopen(caller, j, newProvider, newDeadline)
        BY <1>2 DEF JobCall
    <2>2. CASE \E amount \in Nat : SetBudget(caller, j, amount)
        BY <2>2 DEF SetBudget
    <2>3. CASE \E amount \in Nat : Fund(caller, j, amount)
        BY <2>3 DEF Fund
    <2>4. CASE \E deliverable \in Deliverables \cup {NoHash} : Submit(caller, j, deliverable)
        BY <2>4 DEF Submit
    <2>5. CASE \E newDeadline \in Nat : ExtendDeadline(caller, j, newDeadline)
        BY <2>5 DEF ExtendDeadline
    <2>6. CASE \E newProvider \in Accounts \cup {NoAddress}, newDeadline \in Nat :
                  Reopen(caller, j, newProvider, newDeadline)
        BY <2>6 DEF Reopen
    <2> QED BY <2>1, <2>2, <2>3, <2>4, <2>5, <2>6 DEF SettlementCall
<1>3. CASE Tick \/ RegistryStep \/ TimelockCall \/ WhitelistCall \/ UNCHANGED vars
    BY <1>3
       DEF Tick, RegistryStep, WhitelistCall, AllowToken, DisallowToken, TimelockCall,
           ProposeFeeRate, ExecuteFeeRate, ProposeEvaluationFee, ExecuteEvaluationFee,
           ProposeTreasury, ExecuteTreasury, ProposeReputationBridge,
           ExecuteReputationBridge, CancelProposal, Propose, Execute, vars, jobVars
<1> QED BY <1>1, <1>2, <1>3, CallCases DEF Next, RefundCall

-----------------------------------------------------------------------------
(* Refunds *)

\* A credit adds to one refund and leaves the others.
LEMMA CreditGrows ==
    ASSUME TypeOK, NEW client \in Accounts, NEW token \in Tokens, NEW amount \in Nat,
           CreditRefund(client, token, amount), NEW a \in Accounts, NEW t \in Tokens
    PROVE  pendingRefunds'[a][t] >= pendingRefunds[a][t]
BY DEF TypeOK, CreditRefund

LEMMA SettlementGrowsRefunds ==
    ASSUME LifecycleInv, SettlementCall, NEW a \in Accounts, NEW t \in Tokens
    PROVE  pendingRefunds'[a][t] >= pendingRefunds[a][t]
<1>1. TypeOK
    BY DEF LifecycleInv, PartiesInv
<1>2. PICK caller \in Accounts, j \in JobIds :
          SettleComplete(caller, j) \/ Reject(caller, j) \/ ClaimExpired(caller, j)
    BY DEF SettlementCall
<1>3. JobExists(j)
    BY <1>2 DEF SettleComplete, Reject, ClaimExpired
<1>4. jobs[j].client \in Accounts /\ jobs[j].token \in Tokens /\ jobs[j].budget \in Nat
    BY <1>3, PartiesKnown DEF LifecycleInv
<1>5. CASE SettleComplete(caller, j)
    BY <1>1, <1>5 DEF SettleComplete, TypeOK
<1>6. CASE Reject(caller, j)
    <2> DEFINE fee == IF InEscrow(j) THEN ComputeFee(jobs[j].budget) ELSE 0
    <2>1. CreditRefund(jobs[j].client, jobs[j].token, jobs[j].budget - fee)
        BY <1>6 DEF Reject
    <2>2. fee \in 0 .. jobs[j].budget
        BY <1>1, <1>4, FeeBounded
    <2> HIDE DEF fee
    <2>3. jobs[j].budget - fee \in Nat
        BY <1>4, <2>2
    <2> QED BY <1>1, <1>4, <2>1, <2>3, CreditGrows
<1>7. CASE ClaimExpired(caller, j)
    <2>1. CreditRefund(jobs[j].client, jobs[j].token, jobs[j].budget)
        BY <1>7 DEF ClaimExpired
    <2> QED BY <1>1, <1>4, <2>1, CreditGrows
<1> QED BY <1>2, <1>5, <1>6, <1>7

LEMMA ClaimRefundPays ==
    ASSUME TypeOK, NEW caller \in Accounts, NEW token \in Tokens,
           ClaimRefund(caller, token), NEW a \in Accounts, NEW t \in Tokens,
           pendingRefunds'[a][t] # pendingRefunds[a][t]
    PROVE  /\ pendingRefunds'[a][t] = 0
           /\ balanceOf'[t][a] = balanceOf[t][a] + pendingRefunds[a][t]
<1> DEFINE amount == pendingRefunds[caller][token]
<1>1. /\ pendingRefunds \in [Accounts -> [Tokens -> Nat]]
      /\ balanceOf \in [Tokens -> [Holders -> Nat]]
      /\ caller \in Holders /\ Escrow \in Holders /\ caller # Escrow
    BY AddressAssumption DEF TypeOK, Holders
<1>2. /\ pendingRefunds' = [pendingRefunds EXCEPT ![caller][token] = 0]
      /\ balanceOf' = [balanceOf EXCEPT ![token] = Transfer(@, Escrow, caller, amount)]
    BY DEF ClaimRefund
<1>3. a = caller /\ t = token /\ pendingRefunds'[a][t] = 0
    BY <1>1, <1>2
<1>4. balanceOf'[token] = Transfer(balanceOf[token], Escrow, caller, amount)
    BY <1>1, <1>2
<1>5. Transfer(balanceOf[token], Escrow, caller, amount)[caller]
          = balanceOf[token][caller] + amount
    BY <1>1 DEF Transfer
<1> QED BY <1>3, <1>4, <1>5

\* Whatever other calls do, of any job, a pending refund waits in full for its
\* owner until claimRefund pays it.
THEOREM RefundsPaidOut == Spec => RefundsOnlyPaidOut
<1>1. ASSUME LifecycleInv, [Next]_vars
      PROVE  [\A a \in Accounts, t \in Tokens :
                pendingRefunds'[a][t] < pendingRefunds[a][t] =>
                    /\ pendingRefunds'[a][t] = 0
                    /\ balanceOf'[t][a] = balanceOf[t][a] + pendingRefunds[a][t]]_vars
    <2> SUFFICES ASSUME NEW a \in Accounts, NEW t \in Tokens,
                        pendingRefunds'[a][t] < pendingRefunds[a][t]
                 PROVE  /\ pendingRefunds'[a][t] = 0
                        /\ balanceOf'[t][a] = balanceOf[t][a] + pendingRefunds[a][t]
        OBVIOUS
    <2>1. TypeOK /\ TypeOK'
        BY <1>1, LifecycleStep DEF LifecycleInv, PartiesInv
    <2>2. pendingRefunds[a][t] \in Nat /\ pendingRefunds'[a][t] \in Nat
        BY <2>1 DEF TypeOK
    <2>3. ~SettlementCall
        BY <1>1, <2>2, SettlementGrowsRefunds
    <2>4. RefundCall
        BY <1>1, <2>2, <2>3, SettlementCases
    <2> QED BY <2>1, <2>2, <2>4, ClaimRefundPays DEF RefundCall
<1> QED BY <1>1, LifecycleInvariant, PTL DEF Spec, RefundsOnlyPaidOut

-----------------------------------------------------------------------------
(* Outcomes *)

OutcomeOf(j, verdict) ==
    [job |-> j, cycle |-> jobs[j].cycle, provider |-> jobs[j].provider,
     evaluator |-> jobs[j].evaluator, completed |-> verdict]

\* An outcome is reported when a job in escrow gets its verdict, and only then.
Reported(j, verdict) ==
    /\ JobExists(j) /\ InEscrow(j)
    /\ outcomes' = outcomes \cup {OutcomeOf(j, verdict)}
    /\ jobs'[j].status = (IF verdict THEN "Completed" ELSE "Rejected")
    /\ SameParties(j)

LEMMA OutcomeReported ==
    ASSUME LifecycleInv, [Next]_vars, ~UNCHANGED outcomes
    PROVE  \E j \in JobIds, verdict \in BOOLEAN : Reported(j, verdict)
<1>1. SettlementCall
    BY SettlementCases DEF RefundCall, ClaimRefund
<1>2. PICK caller \in Accounts, j \in JobIds :
          SettleComplete(caller, j) \/ Reject(caller, j) \/ ClaimExpired(caller, j)
    BY <1>1 DEF SettlementCall
<1>3. CASE SettleComplete(caller, j)
    <2>1. /\ JobExists(j) /\ InEscrow(j)
          /\ jobs' = [jobs EXCEPT ![j].status = "Completed", ![j].budget = 0]
          /\ outcomes' = outcomes \cup {OutcomeOf(j, TRUE)}
        BY <1>3 DEF SettleComplete, InEscrow, ForwardOutcome, OutcomeOf
    <2>2. jobs'[j].status = "Completed" /\ SameParties(j)
        BY <2>1, ClosedStep DEF JobStatus
    <2> QED BY <2>1, <2>2 DEF Reported
<1>4. CASE Reject(caller, j)
    <2>1. /\ JobExists(j) /\ InEscrow(j)
          /\ jobs' = [jobs EXCEPT ![j].status = "Rejected", ![j].budget = 0]
          /\ outcomes' = outcomes \cup {OutcomeOf(j, FALSE)}
        BY <1>4 DEF Reject, ForwardOutcome, OutcomeOf
    <2>2. jobs'[j].status = "Rejected" /\ SameParties(j)
        BY <2>1, ClosedStep DEF JobStatus
    <2> QED BY <2>1, <2>2 DEF Reported
<1>5. CASE ClaimExpired(caller, j)
    BY <1>5 DEF ClaimExpired
<1> QED BY <1>2, <1>3, <1>4, <1>5

\* An outcome is about an attempt that has begun.
OutcomesOfAttempts ==
    \A o \in outcomes : JobExists(o.job) /\ o.cycle <= jobs[o.job].cycle

OutcomesInv == OutcomesOfAttempts /\ OutcomesMatchVerdicts

\* What a step does to a job that already has outcomes: it never returns to an
\* earlier attempt, and within one attempt a verdict is final.
LEMMA AttemptsAdvance ==
    ASSUME LifecycleInv, [Next]_vars, NEW j \in JobIds, JobExists(j)
    PROVE  /\ JobExists(j)'
           /\ jobs'[j].cycle \in {jobs[j].cycle, jobs[j].cycle + 1}
           /\ jobs'[j].cycle = jobs[j].cycle /\ jobs[j].status \in {"Completed", "Rejected"} =>
                  jobs'[j].status = jobs[j].status
<1>1. JobTransition(j) /\ ~Created(j)
    BY StepOfJob DEF Created
<1>2. jobs[j].cycle \in Nat /\ jobs[j].cycle + 1 # jobs[j].cycle
    BY DEF LifecycleInv, PartiesInv, TypeOK, Job
<1>3. CASE jobs'[j] = jobs[j]
    BY <1>3 DEF JobExists
<1>4. CASE Budgeted(j) \/ SubmittedNow(j) \/ Settled(j) \/ Extended(j)
    BY <1>4 DEF Budgeted, SubmittedNow, Settled, Extended, SameParties, JobExists, InEscrow
<1>5. CASE FundedNow(j)
    BY <1>5 DEF FundedNow, JobExists
<1>6. CASE Reopened(j)
    BY <1>2, <1>6 DEF Reopened, JobExists
<1> QED BY <1>1, <1>3, <1>4, <1>5, <1>6 DEF JobTransition

LEMMA OutcomesStep ==
    ASSUME LifecycleInv, OutcomesInv, [Next]_vars
    PROVE  OutcomesInv'
<1>1. TypeOK /\ TypeOK'
    BY LifecycleStep DEF LifecycleInv, PartiesInv
\* The outcomes reported before the step.
<1>2. ASSUME NEW o \in outcomes
      PROVE  /\ JobExists(o.job)' /\ o.cycle <= jobs'[o.job].cycle
             /\ o.cycle = jobs'[o.job].cycle =>
                    jobs'[o.job].status = IF o.completed THEN "Completed" ELSE "Rejected"
    <2>1. o.job \in JobIds /\ o.cycle \in Nat /\ JobExists(o.job)
        BY <1>1 DEF TypeOK, Outcome, OutcomesInv, OutcomesOfAttempts
    <2>2. jobs[o.job].cycle \in Nat /\ o.cycle <= jobs[o.job].cycle
        BY <1>1, <2>1 DEF TypeOK, Job, OutcomesInv, OutcomesOfAttempts
    <2>3. o.cycle = jobs[o.job].cycle =>
              jobs[o.job].status = IF o.completed THEN "Completed" ELSE "Rejected"
        BY DEF OutcomesInv, OutcomesMatchVerdicts
    <2>4. /\ JobExists(o.job)'
          /\ jobs'[o.job].cycle \in {jobs[o.job].cycle, jobs[o.job].cycle + 1}
          /\ /\ jobs'[o.job].cycle = jobs[o.job].cycle
             /\ jobs[o.job].status \in {"Completed", "Rejected"}
             => jobs'[o.job].status = jobs[o.job].status
        BY <2>1, AttemptsAdvance
    <2> QED BY <2>1, <2>2, <2>3, <2>4
<1>3. CASE UNCHANGED outcomes
    BY <1>2, <1>3 DEF OutcomesInv, OutcomesOfAttempts, OutcomesMatchVerdicts, JobExists
<1>4. CASE ~UNCHANGED outcomes
    <2>1. PICK j \in JobIds, verdict \in BOOLEAN : Reported(j, verdict)
        BY <1>4, OutcomeReported
    <2> DEFINE new == OutcomeOf(j, verdict)
    <2>2. /\ new.job = j /\ new.cycle = jobs[j].cycle /\ new.completed = verdict
        BY DEF OutcomeOf
    <2> HIDE DEF new
    <2>3. outcomes' = outcomes \cup {new}
        BY <2>1 DEF Reported, new
    <2>4. jobs[j].cycle \in Nat /\ jobs'[j].cycle = jobs[j].cycle
        BY <1>1, <2>1 DEF TypeOK, Job, Reported, SameParties
    <2>5. /\ JobExists(j)'
          /\ jobs'[j].status = IF verdict THEN "Completed" ELSE "Rejected"
        BY <2>1, AttemptsAdvance DEF Reported
    <2>6. ASSUME NEW o \in outcomes, o.job = j, o.cycle = jobs[j].cycle PROVE FALSE
        BY <2>1, <2>6 DEF OutcomesInv, OutcomesMatchVerdicts, Reported, InEscrow
    <2>7. OutcomesOfAttempts'
        BY <1>2, <2>2, <2>3, <2>4, <2>5 DEF OutcomesOfAttempts, JobExists
    <2>8. \A o1, o2 \in outcomes' : o1.job = o2.job /\ o1.cycle = o2.cycle => o1 = o2
        BY <2>2, <2>3, <2>6 DEF OutcomesInv, OutcomesMatchVerdicts
    <2>9. \A o \in outcomes' : o.cycle = jobs'[o.job].cycle =>
              jobs'[o.job].status = IF o.completed THEN "Completed" ELSE "Rejected"
        BY <1>2, <2>2, <2>3, <2>5
    <2> QED BY <2>7, <2>8, <2>9 DEF OutcomesInv, OutcomesMatchVerdicts
<1> QED BY <1>3, <1>4

\* Reports are about attempts that have begun, agree with the verdicts and never
\* contradict each other: the inductive form of the next theorem.
THEOREM OutcomesInvariant == Spec => []OutcomesInv
<1>1. Init => OutcomesInv
    BY DEF Init, OutcomesInv, OutcomesOfAttempts, OutcomesMatchVerdicts
<1> QED BY <1>1, OutcomesStep, LifecycleInvariant, PTL DEF Spec

\* The reputation of a provider never rests on two verdicts about one attempt, nor
\* on one that the escrow did not carry out.
THEOREM OutcomesCorrect == Spec => []OutcomesMatchVerdicts
<1>1. OutcomesInv => OutcomesMatchVerdicts
    BY DEF OutcomesInv
<1> QED BY <1>1, OutcomesInvariant, PTL

-----------------------------------------------------------------------------
(* Whom an outcome names *)

\* An outcome names the parties of the attempt it is about, and an approval is about
\* the last attempt: only a rejected job is opened again (reopen).
OutcomesOnRecord ==
    \A o \in outcomes :
        /\ o.cycle = jobs[o.job].cycle => /\ o.provider = jobs[o.job].provider
                                          /\ o.evaluator = jobs[o.job].evaluator
        /\ o.completed => o.cycle = jobs[o.job].cycle

\* After its verdict a job stays as it is, unless it was rejected and is reopened.
LEMMA VerdictStays ==
    ASSUME LifecycleInv, [Next]_vars, NEW j \in JobIds, JobExists(j),
           jobs[j].status \in {"Completed", "Rejected"}
    PROVE  \/ jobs'[j] = jobs[j]
           \/ jobs[j].status = "Rejected" /\ jobs'[j].cycle = jobs[j].cycle + 1
<1>1. JobTransition(j)
    BY StepOfJob
<1> QED BY <1>1 DEF JobTransition, Created, Budgeted, FundedNow, SubmittedNow, Settled,
                    Extended, Reopened, InEscrow

LEMMA OutcomesOnRecordStep ==
    ASSUME LifecycleInv, OutcomesInv, OutcomesOnRecord, [Next]_vars
    PROVE  OutcomesOnRecord'
<1> DEFINE Agrees(o, all) ==
               /\ o.cycle = all[o.job].cycle => /\ o.provider = all[o.job].provider
                                                /\ o.evaluator = all[o.job].evaluator
               /\ o.completed => o.cycle = all[o.job].cycle
\* The outcomes reported before the step.
<1>1. ASSUME NEW o \in outcomes PROVE Agrees(o, jobs')
    <2>1. /\ o.job \in JobIds /\ o.cycle \in Nat /\ JobExists(o.job)
          /\ jobs[o.job].cycle \in Nat /\ o.cycle <= jobs[o.job].cycle
        BY DEF LifecycleInv, PartiesInv, TypeOK, Outcome, Job, OutcomesInv,
               OutcomesOfAttempts
    <2>2. Agrees(o, jobs)
        BY DEF OutcomesOnRecord
    <2>3. jobs'[o.job].cycle \in {jobs[o.job].cycle, jobs[o.job].cycle + 1}
        BY <2>1, AttemptsAdvance
    <2>4. CASE o.cycle = jobs[o.job].cycle
        <3>1. jobs[o.job].status = IF o.completed THEN "Completed" ELSE "Rejected"
            BY <2>4 DEF OutcomesInv, OutcomesMatchVerdicts
        <3>2. \/ jobs'[o.job] = jobs[o.job]
              \/ /\ jobs[o.job].status = "Rejected"
                 /\ jobs'[o.job].cycle = jobs[o.job].cycle + 1
            BY <2>1, <3>1, VerdictStays
        <3> QED BY <2>1, <2>2, <2>4, <3>1, <3>2
    <2>5. CASE o.cycle # jobs[o.job].cycle
        <3>1. ~o.completed
            BY <2>2, <2>5
        <3>2. o.cycle # jobs'[o.job].cycle
            BY <2>1, <2>3, <2>5
        <3> QED BY <3>1, <3>2
    <2> QED BY <2>4, <2>5
<1>2. CASE UNCHANGED outcomes
    BY <1>1, <1>2 DEF OutcomesOnRecord
<1>3. CASE ~UNCHANGED outcomes
    <2>1. PICK j \in JobIds, verdict \in BOOLEAN : Reported(j, verdict)
        BY <1>3, OutcomeReported
    <2>2. Agrees(OutcomeOf(j, verdict), jobs')
        BY <2>1 DEF Reported, SameParties, OutcomeOf
    <2>3. outcomes' = outcomes \cup {OutcomeOf(j, verdict)}
        BY <2>1 DEF Reported
    <2> QED BY <1>1, <2>2, <2>3 DEF OutcomesOnRecord
<1> QED BY <1>2, <1>3

\* The bridge is never told of parties other than those of the attempt, also after
\* the job was reopened under another provider.
THEOREM OutcomesNameParties == Spec => []OutcomesOnRecord
<1>1. Init => OutcomesOnRecord
    BY DEF Init, OutcomesOnRecord
<1> QED BY <1>1, OutcomesOnRecordStep, LifecycleInvariant, OutcomesInvariant, PTL DEF Spec

-----------------------------------------------------------------------------
(* The books of the escrow *)

\* What job holds of token t in the contract.
HeldBy(job, t) ==
    IF job.status \in {"Funded", "Submitted"} /\ job.token = t THEN job.budget ELSE 0

LockedJobs(all, t) ==
    {j \in JobIds : all[j].status \in {"Funded", "Submitted"} /\ all[j].token = t}
LockedIn(all, t) ==
    SumFunctionOnSet([j \in JobIds |-> all[j].budget], LockedJobs(all, t))
OwedIn(refunds, t) == SumFunctionOnSet([a \in Accounts |-> refunds[a][t]], Accounts)

LEMMA BooksInTheseTerms ==
    ASSUME NEW t
    PROVE  /\ Locked(t) = LockedIn(jobs, t) /\ Owed(t) = OwedIn(pendingRefunds, t)
           /\ Locked(t)' = LockedIn(jobs', t) /\ Owed(t)' = OwedIn(pendingRefunds', t)
BY DEF Locked, LockedIn, LockedJobs, Owed, OwedIn, SumFunction, InEscrow

\* One job apart, the sum is the same before and after.
LEMMA LockedSplit ==
    ASSUME NEW all \in [JobIds -> Job], NEW j \in JobIds, NEW t
    PROVE  LockedIn(all, t) =
             HeldBy(all[j], t) + SumFunctionOnSet([i \in JobIds |-> all[i].budget],
                                                  LockedJobs(all, t) \ {j})
<1> DEFINE f == [i \in JobIds |-> all[i].budget]
           S == LockedJobs(all, t)
<1>1. IsFiniteSet(S) /\ S \subseteq JobIds
    <2>1. IsFiniteSet(JobIds)
        BY FS_Interval, BoundAssumption DEF JobIds
    <2> QED BY <2>1, FS_Subset DEF LockedJobs
<1>2. \A i \in JobIds : f[i] = all[i].budget /\ f[i] \in Nat
    BY DEF Job
<1>3. LockedIn(all, t) = SumFunctionOnSet(f, S)
    BY DEF LockedIn
<1>4. j \in S <=> all[j].status \in {"Funded", "Submitted"} /\ all[j].token = t
    BY DEF LockedJobs
<1> HIDE DEF f, S
<1>5. SumFunctionOnSet(f, S \ {j}) \in Nat
    <2>1. IsFiniteSet(S \ {j}) /\ \A i \in S \ {j} : f[i] \in Nat
        BY <1>1, <1>2, FS_Subset
    <2> QED BY <2>1, SumType
<1>6. SumFunctionOnSet(f, S) = HeldBy(all[j], t) + SumFunctionOnSet(f, S \ {j})
    <2>1. CASE j \in S
        <3>1. SumFunctionOnSet(f, S) = f[j] + SumFunctionOnSet(f, S \ {j})
            BY <1>1, <1>2, <2>1, SumSplit
        <3>2. HeldBy(all[j], t) = f[j]
            BY <1>2, <1>4, <2>1 DEF HeldBy
        <3> QED BY <3>1, <3>2
    <2>2. CASE j \notin S
        <3>1. S \ {j} = S
            BY <2>2
        <3>2. HeldBy(all[j], t) = 0
            BY <1>4, <2>2 DEF HeldBy
        <3> QED BY <1>5, <3>1, <3>2
    <2> QED BY <2>1, <2>2
<1> QED BY <1>3, <1>6 DEF f, S

\* What one job gains or loses, the total gains or loses.
LEMMA LockedMove ==
    ASSUME NEW old \in [JobIds -> Job], NEW new \in [JobIds -> Job], NEW j \in JobIds,
           \A i \in JobIds : i # j => new[i] = old[i], NEW t
    PROVE  LockedIn(new, t) + HeldBy(old[j], t) = LockedIn(old, t) + HeldBy(new[j], t)
<1> DEFINE f == [i \in JobIds |-> old[i].budget]
           g == [i \in JobIds |-> new[i].budget]
           S == LockedJobs(old, t) \ {j}
<1>1. LockedJobs(new, t) \ {j} = S
    BY DEF LockedJobs
<1>2. IsFiniteSet(S) /\ S \subseteq JobIds
    <2>1. IsFiniteSet(JobIds)
        BY FS_Interval, BoundAssumption DEF JobIds
    <2> QED BY <2>1, FS_Subset DEF LockedJobs
<1>3. \A i \in S : f[i] = g[i] /\ f[i] \in Nat
    BY <1>2 DEF Job
<1>4. /\ LockedIn(old, t) = HeldBy(old[j], t) + SumFunctionOnSet(f, S)
      /\ LockedIn(new, t) = HeldBy(new[j], t) + SumFunctionOnSet(g, S)
    BY <1>1, LockedSplit
<1>5. HeldBy(old[j], t) \in Nat /\ HeldBy(new[j], t) \in Nat
    BY DEF HeldBy, Job
<1> HIDE DEF f, g, S
<1>6. SumFunctionOnSet(f, S) = SumFunctionOnSet(g, S) /\ SumFunctionOnSet(f, S) \in Nat
    BY <1>2, <1>3, SumSame, SumType
<1> QED BY <1>4, <1>5, <1>6

LEMMA OwedMove ==
    ASSUME NEW old \in [Accounts -> [Tokens -> Nat]],
           NEW new \in [Accounts -> [Tokens -> Nat]], NEW a \in Accounts, NEW t \in Tokens,
           \A b \in Accounts : b # a => new[b] = old[b]
    PROVE  OwedIn(new, t) + old[a][t] = OwedIn(old, t) + new[a][t]
<1> DEFINE f == [b \in Accounts |-> old[b][t]]
           g == [b \in Accounts |-> new[b][t]]
<1>1. IsFiniteSet(Accounts)
    BY AddressAssumption
<1>2. \A b \in Accounts : f[b] \in Nat /\ g[b] \in Nat /\ (b # a => g[b] = f[b])
    OBVIOUS
<1>3. f[a] = old[a][t] /\ g[a] = new[a][t]
    OBVIOUS
<1> HIDE DEF f, g
<1>4. SumFunctionOnSet(g, Accounts) + f[a] = SumFunctionOnSet(f, Accounts) + g[a]
    BY <1>1, <1>2, SumChange
<1> QED BY <1>3, <1>4 DEF OwedIn, f, g

LEMMA BooksAreNumbers ==
    ASSUME NEW all \in [JobIds -> Job], NEW refunds \in [Accounts -> [Tokens -> Nat]],
           NEW t \in Tokens
    PROVE  LockedIn(all, t) \in Nat /\ OwedIn(refunds, t) \in Nat
<1>1. IsFiniteSet(LockedJobs(all, t)) /\ IsFiniteSet(Accounts)
    <2>1. IsFiniteSet(JobIds)
        BY FS_Interval, BoundAssumption DEF JobIds
    <2> QED BY <2>1, FS_Subset, AddressAssumption DEF LockedJobs
<1>2. \A j \in LockedJobs(all, t) : [i \in JobIds |-> all[i].budget][j] \in Nat
    BY DEF LockedJobs, Job
<1>3. \A a \in Accounts : [b \in Accounts |-> refunds[b][t]][a] \in Nat
    OBVIOUS
<1> QED BY <1>1, <1>2, <1>3, SumType DEF LockedIn, OwedIn

\* A step of the books: one job and one account at most change, and on both sides of
\* the account by the same amount.
Balanced(j, a, t) ==
    balanceOf'[t][Escrow] + unbacked'[t] + HeldBy(jobs[j], t) + pendingRefunds[a][t]
        = balanceOf[t][Escrow] + unbacked[t] + HeldBy(jobs'[j], t) + pendingRefunds'[a][t]

Moves(j, a) ==
    /\ \A i \in JobIds : i # j => jobs'[i] = jobs[i]
    /\ \A b \in Accounts : b # a => pendingRefunds'[b] = pendingRefunds[b]
    /\ \A t \in Tokens : Balanced(j, a, t)

LEMMA MovesBalance ==
    ASSUME TypeOK, TypeOK', EscrowAccounting, NEW j \in JobIds, NEW a \in Accounts,
           Moves(j, a)
    PROVE  EscrowAccounting'
<1> SUFFICES ASSUME NEW t \in Tokens
             PROVE  balanceOf'[t][Escrow] + unbacked'[t] = Locked(t)' + Owed(t)'
    BY DEF EscrowAccounting
<1>1. /\ jobs \in [JobIds -> Job] /\ jobs' \in [JobIds -> Job]
      /\ pendingRefunds \in [Accounts -> [Tokens -> Nat]]
      /\ pendingRefunds' \in [Accounts -> [Tokens -> Nat]]
      /\ balanceOf[t][Escrow] \in Nat /\ balanceOf'[t][Escrow] \in Nat
      /\ unbacked[t] \in Nat /\ unbacked'[t] \in Nat
    <2>1. Escrow \in Holders
        BY DEF Holders
    <2>2. /\ jobs \in [JobIds -> Job] /\ pendingRefunds \in [Accounts -> [Tokens -> Nat]]
          /\ balanceOf \in [Tokens -> [Holders -> Nat]] /\ unbacked \in [Tokens -> Nat]
        BY DEF TypeOK
    <2>3. /\ jobs' \in [JobIds -> Job]
          /\ pendingRefunds' \in [Accounts -> [Tokens -> Nat]]
          /\ balanceOf' \in [Tokens -> [Holders -> Nat]] /\ unbacked' \in [Tokens -> Nat]
        BY DEF TypeOK
    <2> QED BY <2>1, <2>2, <2>3
<1>2. /\ LockedIn(jobs', t) + HeldBy(jobs[j], t) = LockedIn(jobs, t) + HeldBy(jobs'[j], t)
      /\ HeldBy(jobs[j], t) \in Nat /\ HeldBy(jobs'[j], t) \in Nat
    <2>1. LockedIn(jobs', t) + HeldBy(jobs[j], t) = LockedIn(jobs, t) + HeldBy(jobs'[j], t)
        BY <1>1, LockedMove DEF Moves
    <2> QED BY <1>1, <2>1 DEF HeldBy, Job
<1>3. /\ OwedIn(pendingRefunds', t) + pendingRefunds[a][t]
             = OwedIn(pendingRefunds, t) + pendingRefunds'[a][t]
      /\ pendingRefunds[a][t] \in Nat /\ pendingRefunds'[a][t] \in Nat
    <2>1. OwedIn(pendingRefunds', t) + pendingRefunds[a][t]
              = OwedIn(pendingRefunds, t) + pendingRefunds'[a][t]
        BY <1>1, OwedMove DEF Moves
    <2> QED BY <1>1, <2>1
<1>4. /\ LockedIn(jobs, t) \in Nat /\ OwedIn(pendingRefunds, t) \in Nat
      /\ LockedIn(jobs', t) \in Nat /\ OwedIn(pendingRefunds', t) \in Nat
    BY <1>1, BooksAreNumbers
<1>5. balanceOf[t][Escrow] + unbacked[t] = LockedIn(jobs, t) + OwedIn(pendingRefunds, t)
    BY BooksInTheseTerms DEF EscrowAccounting
<1>6. balanceOf'[t][Escrow] + unbacked'[t] + HeldBy(jobs[j], t) + pendingRefunds[a][t]
          = balanceOf[t][Escrow] + unbacked[t] + HeldBy(jobs'[j], t) + pendingRefunds'[a][t]
    BY DEF Moves, Balanced
<1>7. balanceOf'[t][Escrow] + unbacked'[t]
          = LockedIn(jobs', t) + OwedIn(pendingRefunds', t)
    <2> DEFINE locked == LockedIn(jobs, t)            locked2 == LockedIn(jobs', t)
               owed == OwedIn(pendingRefunds, t)      owed2 == OwedIn(pendingRefunds', t)
               held == HeldBy(jobs[j], t)             held2 == HeldBy(jobs'[j], t)
               refund == pendingRefunds[a][t]         refund2 == pendingRefunds'[a][t]
               assets == balanceOf[t][Escrow] + unbacked[t]
               assets2 == balanceOf'[t][Escrow] + unbacked'[t]
    <2>1. /\ locked \in Nat /\ locked2 \in Nat /\ owed \in Nat /\ owed2 \in Nat
          /\ held \in Nat /\ held2 \in Nat /\ refund \in Nat /\ refund2 \in Nat
        BY <1>2, <1>3, <1>4
    <2>2. assets \in Nat /\ assets2 \in Nat
        BY <1>1
    <2>3. /\ locked2 + held = locked + held2
          /\ owed2 + refund = owed + refund2
          /\ assets = locked + owed
          /\ assets2 + held + refund = assets + held2 + refund2
        BY <1>2, <1>3, <1>5, <1>6
    <2> HIDE DEF locked, locked2, owed, owed2, held, held2, refund, refund2, assets, assets2
    <2>4. assets2 = locked2 + owed2
        BY <2>1, <2>2, <2>3
    <2> QED BY <2>4 DEF assets2, locked2, owed2
<1> QED BY <1>7, BooksInTheseTerms

\* Calls that move no token and leave what the job holds.
LEMMA NothingMoves ==
    ASSUME TypeOK, TypeOK', NEW j \in JobIds, NEW a \in Accounts,
           \A i \in JobIds : i # j => jobs'[i] = jobs[i],
           \A t \in Tokens : HeldBy(jobs'[j], t) = HeldBy(jobs[j], t),
           UNCHANGED <<pendingRefunds, balanceOf, unbacked>>
    PROVE  Moves(j, a)
<1>1. ASSUME NEW t \in Tokens PROVE Balanced(j, a, t)
    <2>1. balanceOf'[t][Escrow] = balanceOf[t][Escrow] /\ unbacked'[t] = unbacked[t]
          /\ pendingRefunds'[a][t] = pendingRefunds[a][t]
        OBVIOUS
    <2>2. HeldBy(jobs'[j], t) = HeldBy(jobs[j], t)
        OBVIOUS
    <2> QED BY <2>1, <2>2 DEF Balanced
<1> QED BY <1>1 DEF Moves

LEMMA CreateJobMoves ==
    ASSUME LifecycleInv, EmptySlots, TypeOK', NEW caller \in Accounts,
           NEW provider, NEW evaluator, NEW token, NEW deadline,
           CreateJob(caller, provider, evaluator, token, deadline)
    PROVE  \E j \in JobIds, a \in Accounts : Moves(j, a)
<1> DEFINE n == nextJobId
<1>1. TypeOK /\ jobs \in [JobIds -> Job] /\ n \in JobIds /\ jobs[n] = NoJob
    <2>1. TypeOK /\ FreshIds
        BY DEF LifecycleInv, PartiesInv
    <2>2. jobs \in [JobIds -> Job] /\ n \in JobIds
        BY <2>1, BoundAssumption DEF TypeOK, CreateJob, JobIds
    <2>3. ~JobExists(n)
        BY <2>1, <2>2 DEF FreshIds, JobIds
    <2> QED BY <2>1, <2>2, <2>3 DEF EmptySlots
<1>2. jobs' = [jobs EXCEPT ![n] = [NoJob EXCEPT !.client = caller, !.provider = provider,
                                               !.evaluator = evaluator, !.token = token,
                                               !.deadline = deadline]]
      /\ UNCHANGED <<pendingRefunds, balanceOf, unbacked>>
    BY DEF CreateJob
<1>3. jobs'[n].status = "Open" /\ jobs[n].status = "Open"
    BY <1>1, <1>2 DEF NoJob
<1>4. \A i \in JobIds : i # n => jobs'[i] = jobs[i]
    BY <1>1, <1>2
<1>5. \A t \in Tokens : HeldBy(jobs'[n], t) = HeldBy(jobs[n], t)
    BY <1>3 DEF HeldBy
<1> HIDE DEF n
<1> QED BY <1>1, <1>2, <1>4, <1>5, NothingMoves

LEMMA FreeCallMoves ==
    ASSUME LifecycleInv, TypeOK', NEW caller \in Accounts, NEW j \in JobIds,
           NEW amount \in Nat, NEW deliverable, NEW newDeadline, NEW newProvider,
           \/ SetBudget(caller, j, amount)
           \/ Submit(caller, j, deliverable)
           \/ ExtendDeadline(caller, j, newDeadline)
           \/ Reopen(caller, j, newProvider, newDeadline)
    PROVE  Moves(j, caller)
<1>1. TypeOK /\ jobs \in [JobIds -> Job]
    BY DEF LifecycleInv, PartiesInv, TypeOK
<1>2. UNCHANGED <<pendingRefunds, balanceOf, unbacked>>
    BY DEF SetBudget, Submit, ExtendDeadline, Reopen
<1>3. CASE SetBudget(caller, j, amount)
    <2>1. jobs' = [jobs EXCEPT ![j].budget = amount] /\ jobs[j].status = "Open"
        BY <1>3 DEF SetBudget
    <2>2. jobs'[j].status = "Open" /\ \A i \in JobIds : i # j => jobs'[i] = jobs[i]
        BY <1>1, <2>1 DEF Job
    <2>3. \A t \in Tokens : HeldBy(jobs'[j], t) = HeldBy(jobs[j], t)
        BY <2>1, <2>2 DEF HeldBy
    <2> QED BY <1>1, <1>2, <2>2, <2>3, NothingMoves
<1>4. CASE Submit(caller, j, deliverable)
    <2> DEFINE later == IF now + MIN_EVALUATION_WINDOW > jobs[j].deadline
                        THEN now + MIN_EVALUATION_WINDOW ELSE jobs[j].deadline
    <2>1. /\ jobs[j].status = "Funded"
          /\ jobs' = [jobs EXCEPT ![j].status = "Submitted", ![j].submittedAt = now,
                                  ![j].deliverable = deliverable, ![j].deadline = later]
        BY <1>4 DEF Submit
    <2> HIDE DEF later
    <2>2. /\ jobs'[j].status = "Submitted" /\ jobs'[j].budget = jobs[j].budget
          /\ jobs'[j].token = jobs[j].token
          /\ \A i \in JobIds : i # j => jobs'[i] = jobs[i]
        BY <1>1, <2>1 DEF Job
    <2>3. \A t \in Tokens : HeldBy(jobs'[j], t) = HeldBy(jobs[j], t)
        BY <2>1, <2>2 DEF HeldBy
    <2> QED BY <1>1, <1>2, <2>2, <2>3, NothingMoves
<1>5. CASE ExtendDeadline(caller, j, newDeadline)
    <2>1. jobs' = [jobs EXCEPT ![j].deadline = newDeadline]
        BY <1>5 DEF ExtendDeadline
    <2>2. /\ jobs'[j].status = jobs[j].status /\ jobs'[j].budget = jobs[j].budget
          /\ jobs'[j].token = jobs[j].token
          /\ \A i \in JobIds : i # j => jobs'[i] = jobs[i]
        BY <1>1, <2>1 DEF Job
    <2>3. \A t \in Tokens : HeldBy(jobs'[j], t) = HeldBy(jobs[j], t)
        BY <2>2 DEF HeldBy
    <2> QED BY <1>1, <1>2, <2>2, <2>3, NothingMoves
<1>6. CASE Reopen(caller, j, newProvider, newDeadline)
    <2>1. /\ jobs[j].status = "Rejected"
          /\ jobs' = [jobs EXCEPT ![j].status = "Open", ![j].provider = newProvider,
                                  ![j].deadline = newDeadline, ![j].evaluator = NoAddress,
                                  ![j].budget = 0, ![j].deliverable = NoHash,
                                  ![j].cycle = @ + 1]
        BY <1>6 DEF Reopen
    <2>2. jobs'[j].status = "Open" /\ \A i \in JobIds : i # j => jobs'[i] = jobs[i]
        BY <1>1, <2>1 DEF Job
    <2>3. \A t \in Tokens : HeldBy(jobs'[j], t) = HeldBy(jobs[j], t)
        BY <2>1, <2>2 DEF HeldBy
    <2> QED BY <1>1, <1>2, <2>2, <2>3, NothingMoves
<1> QED BY <1>3, <1>4, <1>5, <1>6

\* fund: the budget that enters is the budget the job then holds.
LEMMA FundMoves ==
    ASSUME LifecycleInv, TypeOK', NEW caller \in Accounts, NEW j \in JobIds,
           NEW amount \in Nat, Fund(caller, j, amount)
    PROVE  Moves(j, caller)
<1>1. TypeOK /\ jobs \in [JobIds -> Job] /\ jobs[j] \in Job /\ JobExists(j)
    BY DEF LifecycleInv, PartiesInv, TypeOK, Fund
<1> DEFINE token == jobs[j].token   budget == jobs[j].budget
<1>2. token \in Tokens /\ budget \in Nat
    BY <1>1, PartiesKnown DEF LifecycleInv
<1>3. PICK evaluator \in Accounts :
          jobs' = [jobs EXCEPT ![j].evaluator = evaluator, ![j].status = "Funded"]
    BY DEF Fund
<1>4. /\ jobs[j].status = "Open"
      /\ balanceOf' = [balanceOf EXCEPT ![token] = Transfer(@, caller, Escrow, budget)]
      /\ UNCHANGED <<pendingRefunds, unbacked>>
    BY DEF Fund
<1>5. /\ jobs'[j].status = "Funded" /\ jobs'[j].budget = budget /\ jobs'[j].token = token
      /\ \A i \in JobIds : i # j => jobs'[i] = jobs[i]
    BY <1>1, <1>3 DEF Job
<1> HIDE DEF token, budget
<1>6. /\ balanceOf \in [Tokens -> [Holders -> Nat]] /\ unbacked \in [Tokens -> Nat]
      /\ pendingRefunds \in [Accounts -> [Tokens -> Nat]]
      /\ Escrow \in Holders /\ caller \in Holders /\ caller # Escrow
    BY <1>1, AddressAssumption DEF TypeOK, Holders
<1>7. Transfer(balanceOf[token], caller, Escrow, budget)[Escrow]
          = balanceOf[token][Escrow] + budget
    BY <1>2, <1>6 DEF Transfer
<1>8. ASSUME NEW t \in Tokens PROVE Balanced(j, caller, t)
    <2>1. balanceOf'[t][Escrow] = balanceOf[t][Escrow] + (IF t = token THEN budget ELSE 0)
        BY <1>2, <1>4, <1>6, <1>7
    <2>2. HeldBy(jobs[j], t) = 0 /\ HeldBy(jobs'[j], t) = IF t = token THEN budget ELSE 0
        BY <1>4, <1>5 DEF HeldBy
    <2>3. unbacked'[t] = unbacked[t] /\ pendingRefunds'[caller][t] = pendingRefunds[caller][t]
        BY <1>4
    <2>4. /\ balanceOf[t][Escrow] \in Nat /\ unbacked[t] \in Nat
          /\ pendingRefunds[caller][t] \in Nat
        BY <1>6
    <2> QED BY <1>2, <2>1, <2>2, <2>3, <2>4 DEF Balanced
<1> QED BY <1>4, <1>5, <1>8 DEF Moves

\* A job that is closed holds nothing.
LEMMA ClosedHoldsNothing ==
    ASSUME LifecycleInv, NEW j \in JobIds, NEW status \in {"Completed", "Rejected", "Expired"},
           jobs' = [jobs EXCEPT ![j].status = status, ![j].budget = 0]
    PROVE  /\ \A i \in JobIds : i # j => jobs'[i] = jobs[i]
           /\ \A t : HeldBy(jobs'[j], t) = 0
BY ClosedStep DEF JobStatus, HeldBy

\* complete: provider, treasury and evaluator receive the budget between them.
LEMMA CompleteMoves ==
    ASSUME LifecycleInv, TypeOK', NEW caller \in Accounts, NEW j \in JobIds,
           SettleComplete(caller, j)
    PROVE  Moves(j, caller)
<1> DEFINE job == jobs[j]
           fee == ComputeFee(job.budget)
           paid == Transfer(balanceOf[job.token], Escrow, job.provider, job.budget - fee)
<1>1. TypeOK /\ JobExists(j) /\ InEscrow(j)
    BY DEF LifecycleInv, PartiesInv, SettleComplete, InEscrow
<1>2. /\ job.provider \in Accounts
      /\ job.evaluator \in Accounts
      /\ job.token \in Tokens
      /\ job.budget \in Nat
    BY <1>1, PartiesKnown DEF LifecycleInv
<1>3. fee \in 0 .. job.budget
    BY <1>1, <1>2, FeeBounded
<1>4. /\ balanceOf \in [Tokens -> [Holders -> Nat]] /\ unbacked \in [Tokens -> Nat]
      /\ pendingRefunds \in [Accounts -> [Tokens -> Nat]] /\ Escrow \in Holders
    BY <1>1 DEF TypeOK, Holders
<1>5. balanceOf[job.token] \in [Holders -> Nat] /\ job.budget <= balanceOf[job.token][Escrow]
      /\ balanceOf[job.token][Escrow] \in Nat
    BY <1>2, <1>4 DEF SettleComplete
<1>6. /\ balanceOf' = [balanceOf EXCEPT ![job.token] = DistributeFee(paid, job.evaluator, fee)]
      /\ UNCHANGED <<pendingRefunds, unbacked>>
      /\ jobs' = [jobs EXCEPT ![j].status = "Completed", ![j].budget = 0]
    BY DEF SettleComplete
<1> HIDE DEF fee
<1>7. /\ paid \in [Holders -> Nat]
      /\ paid[Escrow] = balanceOf[job.token][Escrow] - (job.budget - fee)
    <2>1. job.budget - fee \in Nat /\ job.budget - fee <= balanceOf[job.token][Escrow]
        BY <1>2, <1>3, <1>5
    <2> QED BY <2>1, <1>2, <1>5, TransferFromEscrow
<1> HIDE DEF paid
<1>8. DistributeFee(paid, job.evaluator, fee)[Escrow] = paid[Escrow] - fee
    <2>1. fee \in Nat /\ fee <= paid[Escrow]
        BY <1>2, <1>3, <1>5, <1>7
    <2> QED BY <2>1, <1>1, <1>2, <1>7, DistributeFeeFromEscrow
<1>9. /\ \A i \in JobIds : i # j => jobs'[i] = jobs[i]
      /\ \A t : HeldBy(jobs'[j], t) = 0
    BY <1>6, ClosedHoldsNothing
<1>10. ASSUME NEW t \in Tokens PROVE Balanced(j, caller, t)
    <2>1. HeldBy(job, t) = IF t = job.token THEN job.budget ELSE 0
        BY <1>1 DEF HeldBy, InEscrow
    <2> DEFINE new == DistributeFee(paid, job.evaluator, fee)
    <2>2. balanceOf'[t] = IF t = job.token THEN new ELSE balanceOf[t]
        BY <1>2, <1>4, <1>6
    <2>3. new[Escrow] = balanceOf[job.token][Escrow] - job.budget
        BY <1>2, <1>3, <1>5, <1>7, <1>8
    <2> HIDE DEF new
    <2>4. unbacked'[t] = unbacked[t] /\ pendingRefunds'[caller][t] = pendingRefunds[caller][t]
        BY <1>6
    <2>5. /\ balanceOf[t][Escrow] \in Nat /\ unbacked[t] \in Nat
          /\ pendingRefunds[caller][t] \in Nat
        BY <1>4
    <2>6. balanceOf'[t][Escrow] + HeldBy(job, t) = balanceOf[t][Escrow]
          /\ HeldBy(job, t) \in Nat /\ balanceOf'[t][Escrow] \in Nat
        BY <1>2, <1>5, <2>1, <2>2, <2>3, <2>5
    <2>7. HeldBy(jobs'[j], t) = 0
        BY <1>9
    <2> HIDE DEF job
    <2> QED BY <2>4, <2>5, <2>6, <2>7 DEF Balanced, job
<1> QED BY <1>6, <1>9, <1>10 DEF Moves

\* A refund credited to one account and token.
LEMMA CreditMoves ==
    ASSUME TypeOK, NEW client \in Accounts, NEW token \in Tokens, NEW amount \in Nat,
           CreditRefund(client, token, amount)
    PROVE  /\ \A b \in Accounts : b # client => pendingRefunds'[b] = pendingRefunds[b]
           /\ \A t \in Tokens : pendingRefunds'[client][t] =
                pendingRefunds[client][t] + (IF t = token THEN amount ELSE 0)
BY DEF TypeOK, CreditRefund

\* reject: in escrow, fee and refund are the budget; on an Open job the refund is what
\* is booked as unbacked.
LEMMA RejectMoves ==
    ASSUME LifecycleInv, TypeOK', NEW caller \in Accounts, NEW j \in JobIds,
           Reject(caller, j)
    PROVE  Moves(j, jobs[j].client)
<1> DEFINE job == jobs[j]
           fee == IF InEscrow(j) THEN ComputeFee(job.budget) ELSE 0
           client == job.client
<1>1. TypeOK /\ JobExists(j)
    BY DEF LifecycleInv, PartiesInv, Reject
<1>2. /\ client \in Accounts
      /\ InEscrow(j) => job.evaluator \in Accounts
      /\ job.token \in Tokens
      /\ job.budget \in Nat
    BY <1>1, PartiesKnown DEF LifecycleInv
<1>3. fee \in 0 .. job.budget /\ (~InEscrow(j) => fee = 0)
    BY <1>1, <1>2, FeeBounded
<1>4. /\ balanceOf \in [Tokens -> [Holders -> Nat]] /\ unbacked \in [Tokens -> Nat]
      /\ pendingRefunds \in [Accounts -> [Tokens -> Nat]] /\ Escrow \in Holders
    BY <1>1 DEF TypeOK, Holders
<1>5. /\ balanceOf[job.token][Escrow] >= fee
      /\ CreditRefund(job.client, job.token, job.budget - fee)
      /\ jobs' = [jobs EXCEPT ![j].status = "Rejected", ![j].budget = 0]
      /\ InEscrow(j) => /\ balanceOf' = [balanceOf EXCEPT ![job.token] =
                                           DistributeFee(@, job.evaluator, fee)]
                        /\ UNCHANGED unbacked
      /\ ~InEscrow(j) => /\ unbacked' = [unbacked EXCEPT ![job.token] = @ + job.budget]
                         /\ UNCHANGED balanceOf
    BY DEF Reject
<1> HIDE DEF fee
<1>6. job.budget - fee \in Nat
    BY <1>2, <1>3
<1>7. /\ \A b \in Accounts : b # client => pendingRefunds'[b] = pendingRefunds[b]
      /\ \A t \in Tokens : pendingRefunds'[client][t] =
           pendingRefunds[client][t] + (IF t = job.token THEN job.budget - fee ELSE 0)
    BY <1>1, <1>2, <1>5, <1>6, CreditMoves
<1>8. /\ \A i \in JobIds : i # j => jobs'[i] = jobs[i]
      /\ \A t : HeldBy(jobs'[j], t) = 0
    BY <1>5, ClosedHoldsNothing
<1>9. ASSUME InEscrow(j) PROVE
          /\ DistributeFee(balanceOf[job.token], job.evaluator, fee)[Escrow]
                 = balanceOf[job.token][Escrow] - fee
    <2>1. fee \in Nat /\ fee <= balanceOf[job.token][Escrow]
        BY <1>2, <1>3, <1>4, <1>5
    <2>2. balanceOf[job.token] \in [Holders -> Nat] /\ job.evaluator \in Accounts
        BY <1>2, <1>4, <1>9
    <2> QED BY <2>1, <2>2, <1>1, DistributeFeeFromEscrow
<1>10. ASSUME NEW t \in Tokens PROVE Balanced(j, client, t)
    <2>1. /\ balanceOf[t][Escrow] \in Nat /\ unbacked[t] \in Nat
          /\ pendingRefunds[client][t] \in Nat
        BY <1>2, <1>4
    <2>2. HeldBy(jobs'[j], t) = 0
        BY <1>8
    <2>3. HeldBy(job, t) = IF InEscrow(j) /\ t = job.token THEN job.budget ELSE 0
        BY DEF HeldBy, InEscrow
    <2>4. CASE t # job.token
        <3>1. balanceOf'[t] = balanceOf[t] /\ unbacked'[t] = unbacked[t]
            BY <1>2, <1>4, <1>5, <2>4
        <3>2. pendingRefunds'[client][t] = pendingRefunds[client][t]
            BY <1>7, <2>1, <2>4
        <3>3. HeldBy(job, t) = 0
            BY <2>3, <2>4
        <3> QED BY <2>1, <2>2, <3>1, <3>2, <3>3 DEF Balanced
    <2>5. CASE t = job.token /\ InEscrow(j)
        <3>1. balanceOf'[t][Escrow] = balanceOf[t][Escrow] - fee /\ unbacked'[t] = unbacked[t]
            BY <1>2, <1>4, <1>5, <1>9, <2>5
        <3>2. pendingRefunds'[client][t] = pendingRefunds[client][t] + (job.budget - fee)
            BY <1>7, <2>5
        <3>3. HeldBy(job, t) = job.budget
            BY <2>3, <2>5
        <3> HIDE DEF job
        <3> QED BY <1>2, <1>3, <2>1, <2>2, <3>1, <3>2, <3>3 DEF Balanced, job
    <2>6. CASE t = job.token /\ ~InEscrow(j)
        <3>1. /\ balanceOf'[t][Escrow] = balanceOf[t][Escrow]
              /\ unbacked'[t] = unbacked[t] + job.budget
            BY <1>2, <1>4, <1>5, <2>6
        <3>2. pendingRefunds'[client][t] = pendingRefunds[client][t] + job.budget
            BY <1>2, <1>3, <1>7, <2>6
        <3>3. HeldBy(job, t) = 0
            BY <2>3, <2>6
        <3> QED BY <1>2, <2>1, <2>2, <3>1, <3>2, <3>3 DEF Balanced
    <2> QED BY <2>4, <2>5, <2>6
<1> QED BY <1>7, <1>8, <1>10 DEF Moves

\* claimExpired: what the job held becomes the client's refund.
LEMMA ClaimExpiredMoves ==
    ASSUME LifecycleInv, TypeOK', NEW caller \in Accounts, NEW j \in JobIds,
           ClaimExpired(caller, j)
    PROVE  Moves(j, jobs[j].client)
<1> DEFINE job == jobs[j]
           client == job.client
<1>1. TypeOK /\ JobExists(j) /\ InEscrow(j)
    BY DEF LifecycleInv, PartiesInv, ClaimExpired
<1>2. client \in Accounts /\ job.token \in Tokens /\ job.budget \in Nat
    BY <1>1, PartiesKnown DEF LifecycleInv
<1>3. /\ jobs' = [jobs EXCEPT ![j].status = "Expired", ![j].budget = 0]
      /\ CreditRefund(job.client, job.token, job.budget)
      /\ UNCHANGED <<balanceOf, unbacked>>
    BY DEF ClaimExpired
<1>4. /\ \A b \in Accounts : b # client => pendingRefunds'[b] = pendingRefunds[b]
      /\ \A t \in Tokens : pendingRefunds'[client][t] =
           pendingRefunds[client][t] + (IF t = job.token THEN job.budget ELSE 0)
    BY <1>1, <1>2, <1>3, CreditMoves
<1>5. /\ \A i \in JobIds : i # j => jobs'[i] = jobs[i]
      /\ \A t : HeldBy(jobs'[j], t) = 0
    BY <1>3, ClosedHoldsNothing
<1>6. ASSUME NEW t \in Tokens PROVE Balanced(j, client, t)
    <2>1. /\ balanceOf[t][Escrow] \in Nat /\ unbacked[t] \in Nat
          /\ pendingRefunds[client][t] \in Nat
        <3>1. /\ balanceOf \in [Tokens -> [Holders -> Nat]] /\ unbacked \in [Tokens -> Nat]
              /\ pendingRefunds \in [Accounts -> [Tokens -> Nat]] /\ Escrow \in Holders
            BY <1>1 DEF TypeOK, Holders
        <3> QED BY <1>2, <3>1
    <2>2. HeldBy(job, t) = IF t = job.token THEN job.budget ELSE 0
        BY <1>1 DEF HeldBy, InEscrow
    <2>3. HeldBy(jobs'[j], t) = 0
        BY <1>5
    <2>4. balanceOf'[t][Escrow] = balanceOf[t][Escrow] /\ unbacked'[t] = unbacked[t]
        BY <1>3
    <2>5. pendingRefunds'[client][t] =
              pendingRefunds[client][t] + (IF t = job.token THEN job.budget ELSE 0)
        BY <1>4
    <2> QED BY <1>2, <2>1, <2>2, <2>3, <2>4, <2>5 DEF Balanced
<1> QED BY <1>4, <1>5, <1>6 DEF Moves

\* claimRefund: the escrow pays what it owed.
LEMMA ClaimRefundMoves ==
    ASSUME TypeOK, TypeOK', NEW caller \in Accounts, NEW token \in Tokens,
           ClaimRefund(caller, token), NEW j \in JobIds
    PROVE  Moves(j, caller)
<1> DEFINE amount == pendingRefunds[caller][token]
<1>1. /\ balanceOf \in [Tokens -> [Holders -> Nat]] /\ unbacked \in [Tokens -> Nat]
      /\ pendingRefunds \in [Accounts -> [Tokens -> Nat]] /\ Escrow \in Holders
    BY DEF TypeOK, Holders
<1>2. amount \in Nat /\ balanceOf[token] \in [Holders -> Nat]
    BY <1>1
<1>3. /\ pendingRefunds' = [pendingRefunds EXCEPT ![caller][token] = 0]
      /\ balanceOf' = [balanceOf EXCEPT ![token] = Transfer(@, Escrow, caller, amount)]
      /\ amount <= balanceOf[token][Escrow]
      /\ UNCHANGED <<jobs, unbacked>>
    BY <1>1, <1>2 DEF ClaimRefund
<1>4. Transfer(balanceOf[token], Escrow, caller, amount)[Escrow]
          = balanceOf[token][Escrow] - amount
    <2> HIDE DEF amount
    <2> QED BY <1>2, <1>3, TransferFromEscrow
<1>5. ASSUME NEW t \in Tokens PROVE Balanced(j, caller, t)
    <2>1. /\ balanceOf[t][Escrow] \in Nat /\ unbacked[t] \in Nat
          /\ pendingRefunds[caller][t] \in Nat
        BY <1>1
    <2>2. HeldBy(jobs'[j], t) = HeldBy(jobs[j], t) /\ HeldBy(jobs[j], t) \in Nat
        BY <1>3 DEF HeldBy, TypeOK, Job
    <2>3. unbacked'[t] = unbacked[t]
        BY <1>3
    <2>4. CASE t = token
        <3>1. balanceOf'[t][Escrow] = balanceOf[t][Escrow] - pendingRefunds[caller][t]
            BY <1>1, <1>3, <1>4, <2>4
        <3>2. pendingRefunds'[caller][t] = 0
            BY <1>1, <1>3, <2>4
        <3> QED BY <2>1, <2>2, <2>3, <3>1, <3>2 DEF Balanced
    <2>5. CASE t # token
        <3>1. balanceOf'[t][Escrow] = balanceOf[t][Escrow]
            BY <1>1, <1>3, <2>5
        <3>2. pendingRefunds'[caller][t] = pendingRefunds[caller][t]
            BY <1>1, <1>3, <2>5
        <3> QED BY <2>1, <2>2, <2>3, <3>1, <3>2 DEF Balanced
    <2> QED BY <2>4, <2>5
<1>6. /\ \A i \in JobIds : i # j => jobs'[i] = jobs[i]
      /\ \A b \in Accounts : b # caller => pendingRefunds'[b] = pendingRefunds[b]
    BY <1>1, <1>3
<1> QED BY <1>5, <1>6 DEF Moves

\* Types, empty slots and the books: what the accounting needs to be inductive.
EscrowInv == LifecycleInv /\ EmptySlots /\ EscrowAccounting

LEMMA EscrowInit == Init => EscrowInv
<1> SUFFICES ASSUME Init PROVE EscrowInv
    OBVIOUS
<1>1. LifecycleInv /\ TypeOK
    BY LifecycleInit DEF LifecycleInv, PartiesInv
<1>2. EmptySlots
    BY DEF Init, EmptySlots
<1>3. ASSUME NEW t \in Tokens
      PROVE  balanceOf[t][Escrow] + unbacked[t] = Locked(t) + Owed(t)
    <2>1. balanceOf[t][Escrow] = 0 /\ unbacked[t] = 0
        BY DEF Init, Holders
    <2>2. LockedJobs(jobs, t) = {}
        BY DEF Init, NoJob, LockedJobs
    <2>3. LockedIn(jobs, t) = 0
        BY <2>2, SumEmpty DEF LockedIn
    <2>4. OwedIn(pendingRefunds, t) = 0
        <3> DEFINE f == [a \in Accounts |-> pendingRefunds[a][t]]
        <3>1. \A a \in Accounts : f[a] = 0
            BY DEF Init
        <3> HIDE DEF f
        <3>2. SumFunctionOnSet(f, Accounts) = 0
            BY <3>1, SumOfZeros, AddressAssumption
        <3> QED BY <3>2 DEF OwedIn, f
    <2> QED BY <2>1, <2>3, <2>4, BooksInTheseTerms
<1> QED BY <1>1, <1>2, <1>3 DEF EscrowInv, EscrowAccounting

LEMMA EscrowStep ==
    ASSUME EscrowInv, [Next]_vars
    PROVE  EscrowInv'
<1>1. LifecycleInv' /\ EmptySlots' /\ TypeOK /\ TypeOK'
    BY LifecycleStep, EmptySlotsStep DEF EscrowInv, LifecycleInv, PartiesInv
<1>2. CASE CreateCall
    <2>1. \E j \in JobIds, a \in Accounts : Moves(j, a)
        BY <1>1, <1>2, CreateJobMoves DEF CreateCall, EscrowInv
    <2> QED BY <1>1, <2>1, MovesBalance DEF EscrowInv
<1>3. CASE JobCall
    <2>1. PICK caller \in Accounts, j \in JobIds :
             \/ \E amount \in Nat : SetBudget(caller, j, amount) \/ Fund(caller, j, amount)
             \/ \E deliverable \in Deliverables \cup {NoHash} :
                   Submit(caller, j, deliverable)
             \/ SettleComplete(caller, j) \/ Reject(caller, j) \/ ClaimExpired(caller, j)
             \/ \E newDeadline \in Nat : ExtendDeadline(caller, j, newDeadline)
             \/ \E newProvider \in Accounts \cup {NoAddress}, newDeadline \in Nat :
                   Reopen(caller, j, newProvider, newDeadline)
        BY <1>3 DEF JobCall
    <2>2. CASE Reject(caller, j) \/ ClaimExpired(caller, j)
        <3>1. JobExists(j)
            BY <2>2 DEF Reject, ClaimExpired
        <3>2. jobs[j].client \in Accounts
            BY <3>1, PartiesKnown DEF EscrowInv, LifecycleInv
        <3>3. Moves(j, jobs[j].client)
            BY <1>1, <2>2, RejectMoves, ClaimExpiredMoves DEF EscrowInv
        <3> QED BY <1>1, <3>2, <3>3, MovesBalance DEF EscrowInv
    <2>3. CASE \/ \E amount \in Nat : SetBudget(caller, j, amount)
               \/ \E deliverable \in Deliverables \cup {NoHash} :
                     Submit(caller, j, deliverable)
               \/ \E newDeadline \in Nat : ExtendDeadline(caller, j, newDeadline)
               \/ \E newProvider \in Accounts \cup {NoAddress}, newDeadline \in Nat :
                     Reopen(caller, j, newProvider, newDeadline)
        <3>1. 0 \in Nat
            OBVIOUS
        <3>2. Moves(j, caller)
            BY <1>1, <2>3, <3>1, FreeCallMoves DEF EscrowInv
        <3> QED BY <1>1, <3>2, MovesBalance DEF EscrowInv
    <2>4. CASE (\E amount \in Nat : Fund(caller, j, amount)) \/ SettleComplete(caller, j)
        <3>1. Moves(j, caller)
            BY <1>1, <2>4, FundMoves, CompleteMoves DEF EscrowInv
        <3> QED BY <1>1, <3>1, MovesBalance DEF EscrowInv
    <2> QED BY <1>1, <2>1, <2>2, <2>3, <2>4 DEF EscrowInv
<1>4. CASE RefundCall
    <2>1. PICK caller \in Accounts, token \in Tokens : ClaimRefund(caller, token)
        BY <1>4 DEF RefundCall
    <2>2. 1 \in JobIds
        BY BoundAssumption DEF JobIds
    <2>3. Moves(1, caller)
        BY <1>1, <2>1, <2>2, ClaimRefundMoves
    <2> QED BY <1>1, <2>1, <2>2, <2>3, MovesBalance DEF EscrowInv
<1>5. CASE Tick \/ RegistryStep \/ TimelockCall \/ WhitelistCall \/ UNCHANGED vars
    <2>1. UNCHANGED <<jobs, pendingRefunds, balanceOf, unbacked>>
        BY <1>5
           DEF Tick, RegistryStep, WhitelistCall, AllowToken, DisallowToken, TimelockCall,
               ProposeFeeRate, ExecuteFeeRate, ProposeEvaluationFee, ExecuteEvaluationFee,
               ProposeTreasury, ExecuteTreasury, ProposeReputationBridge,
               ExecuteReputationBridge, CancelProposal, Propose, Execute, vars, jobVars
    <2>2. ASSUME NEW t \in Tokens
          PROVE  balanceOf'[t][Escrow] + unbacked'[t] = Locked(t)' + Owed(t)'
        <3>1. Locked(t)' = LockedIn(jobs, t) /\ Owed(t)' = OwedIn(pendingRefunds, t)
            BY <2>1, BooksInTheseTerms
        <3>2. balanceOf[t][Escrow] + unbacked[t]
                  = LockedIn(jobs, t) + OwedIn(pendingRefunds, t)
            BY BooksInTheseTerms DEF EscrowInv, EscrowAccounting
        <3> QED BY <2>1, <3>1, <3>2
    <2> QED BY <1>1, <2>2 DEF EscrowInv, EscrowAccounting
<1> QED BY <1>2, <1>3, <1>4, <1>5, CallCases DEF Next, RefundCall

\* Whatever the calls and their order, the contract holds what it owes, less only the
\* refunds reject() credited for budgets never deposited; no fee rounding loses a unit.
THEOREM EscrowBalanced == Spec => []EscrowAccounting
<1>1. EscrowInv => EscrowAccounting
    BY DEF EscrowInv
<1> QED BY <1>1, EscrowInit, EscrowStep, PTL DEF Spec

=============================================================================
