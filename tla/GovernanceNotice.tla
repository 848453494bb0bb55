--------------------------- MODULE GovernanceNotice ---------------------------
(***************************************************************************)
(* What the two-day timelock of AgentJobManager promises to a client.  A   *)
(* history variable records, when a job is funded, the parameters in force *)
(* and those already announced; nothing else may govern the job until a    *)
(* whole delay has passed since its funding.                               *)
(***************************************************************************)
EXTENDS AgentJobManager

VARIABLE terms   \* history: what the client could know when the job was funded

\* The value in force and the pending proposal, if any.
Known(current, key) ==
    {current} \cup (IF pendingChanges[key].executableAt # 0
                    THEN {pendingChanges[key].value} ELSE {})

KnownTerms ==
    [at |-> now,
     feeRate |-> Known(feeRate, "feeRate"),
     evaluationFee |-> Known(evaluationFee, "evaluationFee"),
     treasury |-> Known(treasury, "treasury"),
     reputationBridge |-> Known(reputationBridge, "reputationBridge")]

NoTerms == [at |-> 0, feeRate |-> {}, evaluationFee |-> {}, treasury |-> {},
            reputationBridge |-> {}]

NoticeInit == Init /\ terms = [j \in JobIds |-> NoTerms]

\* Each step, with the record taken at a funding and dropped at the settlement.
\* The whitelist and mid-block changes of eligibility do not touch the
\* parameters and are left out to keep the state space small.
NoticeNext ==
    /\ Tick \/ JobManagerCall \/ TimelockCall
    /\ terms' = [j \in JobIds |->
                   IF ~InEscrow(j)' THEN NoTerms
                   ELSE IF InEscrow(j) THEN terms[j] ELSE KnownTerms]

NoticeSpec == NoticeInit /\ [][NoticeNext]_<<vars, terms>>

\* For GOVERNANCE_DELAY after its funding a job is governed only by parameters
\* its client could have seen: in force or proposed at that moment.  The fee,
\* its treasury share and the bridge it is reported to cannot surprise anybody
\* (propose and execute functions, re-proposals and cancellations included).
NoSurpriseWithinDelay ==
    \A j \in JobIds : InEscrow(j) /\ now < terms[j].at + GOVERNANCE_DELAY =>
        /\ feeRate \in terms[j].feeRate
        /\ evaluationFee \in terms[j].evaluationFee
        /\ treasury \in terms[j].treasury
        /\ reputationBridge \in terms[j].reputationBridge

\* "Even with full governance compromise, fees cannot exceed 5%": the provider
\* of a completed job receives the budget less at most MAX_FEE_RATE of it.
ProviderPaidWithinFeeCap ==
    [][\A j \in JobIds :
         jobs[j].status = "Submitted" /\ jobs'[j].status = "Completed" =>
            LET provider == jobs[j].provider
                token == jobs[j].token
                paid == balanceOf'[token][provider] - balanceOf[token][provider]
            IN  (jobs[j].budget - paid) * BPS <= jobs[j].budget * MAX_FEE_RATE
      ]_<<vars, terms>>

=============================================================================
