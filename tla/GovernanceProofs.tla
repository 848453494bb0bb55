--------------------------- MODULE GovernanceProofs ---------------------------
(***************************************************************************)
(* The timelock keeps its promise for every value of the constants: until  *)
(* a whole delay after its funding, a job is governed only by parameters   *)
(* its client could have seen.                                             *)
(***************************************************************************)
EXTENDS GovernanceNotice, AgentJobManagerProofs

ParamKeys == {"feeRate", "evaluationFee", "treasury", "reputationBridge"}

\* The four parameters under the keys of their proposals and of the record.
Current == [feeRate |-> feeRate, evaluationFee |-> evaluationFee,
            treasury |-> treasury, reputationBridge |-> reputationBridge]

-----------------------------------------------------------------------------
(* What a step may do to one parameter *)

Stays(key) ==
    /\ Current'[key] = Current[key]
    /\ pendingChanges'[key] \in {pendingChanges[key], NoChange}

Proposed(key) ==
    /\ Current'[key] = Current[key]
    /\ pendingChanges'[key].executableAt = now + GOVERNANCE_DELAY

Executed(key) ==
    /\ now' = now
    /\ pendingChanges[key].executableAt # 0
    /\ now >= pendingChanges[key].executableAt
    /\ Current'[key] = pendingChanges[key].value
    /\ pendingChanges'[key] = NoChange

ParamStep(key) == Stays(key) \/ Proposed(key) \/ Executed(key)

LEMMA ProposeStep ==
    ASSUME TypeOK, NEW key \in ParamKeys, NEW newValue, Propose(key, newValue)
    PROVE  now' = now /\ \A k \in ParamKeys : ParamStep(k)
<1>1. /\ DOMAIN pendingChanges = ParamKeys
      /\ pendingChanges' = [pendingChanges EXCEPT ![key] =
             [value |-> newValue, executableAt |-> now + GOVERNANCE_DELAY]]
      /\ Current' = Current /\ now' = now
    BY DEF TypeOK, ParamKeys, Propose, Current, envVars
<1>2. pendingChanges'[key].executableAt = now + GOVERNANCE_DELAY
    BY <1>1
<1>3. \A k \in ParamKeys : k # key => pendingChanges'[k] = pendingChanges[k]
    BY <1>1
<1> QED BY <1>1, <1>2, <1>3 DEF ParamStep, Stays, Proposed

LEMMA CancelStep ==
    ASSUME TypeOK, NEW key \in ParamKeys, CancelProposal(key)
    PROVE  now' = now /\ \A k \in ParamKeys : ParamStep(k)
<1>1. /\ DOMAIN pendingChanges = ParamKeys
      /\ pendingChanges' = [pendingChanges EXCEPT ![key] = NoChange]
      /\ Current' = Current /\ now' = now
    BY DEF TypeOK, ParamKeys, CancelProposal, Current, envVars
<1>2. \A k \in ParamKeys : pendingChanges'[k] \in {pendingChanges[k], NoChange}
    BY <1>1
<1> QED BY <1>1, <1>2 DEF ParamStep, Stays

LEMMA ExecuteStep ==
    ASSUME TypeOK, NEW key \in ParamKeys, NEW newValue, Execute(key, newValue),
           Current'[key] = newValue,
           \A k \in ParamKeys : k # key => Current'[k] = Current[k]
    PROVE  now' = now /\ \A k \in ParamKeys : ParamStep(k)
<1>1. /\ DOMAIN pendingChanges = ParamKeys
      /\ pendingChanges' = [pendingChanges EXCEPT ![key] = NoChange]
      /\ pendingChanges[key].executableAt # 0
      /\ now >= pendingChanges[key].executableAt
      /\ newValue = pendingChanges[key].value
      /\ now' = now
    BY DEF TypeOK, ParamKeys, Execute, envVars
<1>2. pendingChanges'[key] = NoChange
    BY <1>1
<1>3. \A k \in ParamKeys : k # key => pendingChanges'[k] = pendingChanges[k]
    BY <1>1
<1>4. Executed(key)
    BY <1>1, <1>2 DEF Executed
<1>5. \A k \in ParamKeys : k # key => Stays(k)
    BY <1>3 DEF Stays
<1> QED BY <1>1, <1>4, <1>5 DEF ParamStep

LEMMA TimelockStep ==
    ASSUME TypeOK, TimelockCall
    PROVE  now' = now /\ \A key \in ParamKeys : ParamStep(key)
<1>1. CASE \E rate \in FeeRates : ProposeFeeRate(rate)
    BY <1>1, ProposeStep DEF ProposeFeeRate, ParamKeys
<1>2. CASE \E fee \in EvaluationFees : ProposeEvaluationFee(fee)
    BY <1>2, ProposeStep DEF ProposeEvaluationFee, ParamKeys
<1>3. CASE \E address \in Treasuries : ProposeTreasury(address)
    BY <1>3, ProposeStep DEF ProposeTreasury, ParamKeys
<1>4. CASE \E bridge \in Bridges \cup {NoAddress} : ProposeReputationBridge(bridge)
    BY <1>4, ProposeStep DEF ProposeReputationBridge, ParamKeys
<1>5. CASE \E rate \in FeeRates : ExecuteFeeRate(rate)
    BY <1>5, ExecuteStep DEF ExecuteFeeRate, ParamKeys, Current
<1>6. CASE \E fee \in EvaluationFees : ExecuteEvaluationFee(fee)
    BY <1>6, ExecuteStep DEF ExecuteEvaluationFee, ParamKeys, Current
<1>7. CASE \E address \in Treasuries : ExecuteTreasury(address)
    BY <1>7, ExecuteStep DEF ExecuteTreasury, ParamKeys, Current
<1>8. CASE \E bridge \in Bridges \cup {NoAddress} : ExecuteReputationBridge(bridge)
    BY <1>8, ExecuteStep DEF ExecuteReputationBridge, ParamKeys, Current
<1>9. CASE \E key \in DOMAIN pendingChanges : CancelProposal(key)
    BY <1>9, CancelStep DEF TypeOK, ParamKeys
<1> QED BY <1>1, <1>2, <1>3, <1>4, <1>5, <1>6, <1>7, <1>8, <1>9 DEF TimelockCall

\* The calls of clients, providers and evaluators leave clock and governance alone.
LEMMA CallKeepsParameters ==
    ASSUME JobManagerCall
    PROVE  UNCHANGED <<now, govVars>>
<1>1. CASE CreateCall
    BY <1>1 DEF CreateCall, CreateJob, envVars
<1>2. CASE JobCall
    <2>1. PICK caller \in Accounts, j \in JobIds :
             \/ \E amount \in Nat : SetBudget(caller, j, amount) \/ Fund(caller, j, amount)
             \/ \E deliverable \in Deliverables \cup {NoHash} :
                   Submit(caller, j, deliverable)
             \/ SettleComplete(caller, j) \/ Reject(caller, j) \/ ClaimExpired(caller, j)
             \/ \E newDeadline \in Nat : ExtendDeadline(caller, j, newDeadline)
             \/ \E newProvider \in Accounts \cup {NoAddress}, newDeadline \in Nat :
                   Reopen(caller, j, newProvider, newDeadline)
        BY <1>2 DEF JobCall
    <2>2. CASE \E amount \in Nat : SetBudget(caller, j, amount) \/ Fund(caller, j, amount)
        BY <2>2 DEF SetBudget, Fund, envVars
    <2>3. CASE \E deliverable \in Deliverables \cup {NoHash} : Submit(caller, j, deliverable)
        BY <2>3 DEF Submit, envVars
    <2>4. CASE SettleComplete(caller, j)
        BY <2>4 DEF SettleComplete, envVars
    <2>5. CASE Reject(caller, j)
        BY <2>5 DEF Reject, envVars
    <2>6. CASE ClaimExpired(caller, j)
        BY <2>6 DEF ClaimExpired, envVars
    <2>7. CASE \E newDeadline \in Nat : ExtendDeadline(caller, j, newDeadline)
        BY <2>7 DEF ExtendDeadline, envVars
    <2>8. CASE \E newProvider \in Accounts \cup {NoAddress}, newDeadline \in Nat :
                  Reopen(caller, j, newProvider, newDeadline)
        BY <2>8 DEF Reopen, envVars
    <2> QED BY <2>1, <2>2, <2>3, <2>4, <2>5, <2>6, <2>7, <2>8
<1>3. CASE \E caller \in Accounts, token \in Tokens : ClaimRefund(caller, token)
    BY <1>3 DEF ClaimRefund, envVars
<1> QED BY <1>1, <1>2, <1>3, CallCases

-----------------------------------------------------------------------------
(* The notice *)

\* Parameters and proposals against what was known when job j was funded: the
\* value in force was known, and so was every proposal that can be executed
\* before the delay is over.
Noticed(j) ==
    \A key \in ParamKeys :
        /\ Current[key] \in terms[j][key]
        /\ pendingChanges[key].executableAt # 0 =>
               \/ pendingChanges[key].value \in terms[j][key]
               \/ pendingChanges[key].executableAt >= terms[j].at + GOVERNANCE_DELAY

NoticeInv ==
    \A j \in JobIds : InEscrow(j) =>
        /\ terms[j].at \in Nat /\ terms[j].at <= now
        /\ now < terms[j].at + GOVERNANCE_DELAY => Noticed(j)

LEMMA PendingTypes ==
    ASSUME TypeOK, NEW key \in ParamKeys
    PROVE  pendingChanges[key].executableAt \in Nat
BY DEF TypeOK, ParamKeys, Change, NoChange

\* A job that was already funded: a later proposal comes too late.
LEMMA NoticeKept ==
    ASSUME TypeOK, NEW j \in JobIds, terms[j].at \in Nat, terms[j].at <= now,
           terms'[j] = terms[j], Noticed(j),
           now < terms[j].at + GOVERNANCE_DELAY,
           \A key \in ParamKeys : ParamStep(key)
    PROVE  Noticed(j)'
<1> SUFFICES ASSUME NEW key \in ParamKeys
             PROVE  /\ Current'[key] \in terms[j][key]
                    /\ pendingChanges'[key].executableAt # 0 =>
                          \/ pendingChanges'[key].value \in terms[j][key]
                          \/ pendingChanges'[key].executableAt
                                >= terms[j].at + GOVERNANCE_DELAY
    BY DEF Noticed
<1>1. /\ Current[key] \in terms[j][key]
      /\ pendingChanges[key].executableAt # 0 =>
            \/ pendingChanges[key].value \in terms[j][key]
            \/ pendingChanges[key].executableAt >= terms[j].at + GOVERNANCE_DELAY
    BY DEF Noticed
<1>2. now \in Nat /\ GOVERNANCE_DELAY \in Nat /\ pendingChanges[key].executableAt \in Nat
    BY PendingTypes, TimeAssumption DEF TypeOK
<1>3. NoChange.executableAt = 0
    BY DEF NoChange
<1>4. CASE Stays(key)
    BY <1>1, <1>3, <1>4 DEF Stays
<1>5. CASE Proposed(key)
    <2>1. pendingChanges'[key].executableAt = now + GOVERNANCE_DELAY
        BY <1>5 DEF Proposed
    <2>2. now + GOVERNANCE_DELAY >= terms[j].at + GOVERNANCE_DELAY
        BY <1>2
    <2> QED BY <1>1, <1>5, <2>1, <2>2 DEF Proposed
<1>6. CASE Executed(key)
    <2>1. pendingChanges[key].value \in terms[j][key]
        BY <1>1, <1>2, <1>6 DEF Executed
    <2> QED BY <1>3, <1>6, <2>1 DEF Executed
<1> QED BY <1>4, <1>5, <1>6 DEF ParamStep

\* A job funded by this step: the record holds what is in force and pending.
LEMMA NoticeGiven ==
    ASSUME NEW j \in JobIds, terms'[j] = KnownTerms, UNCHANGED <<now, govVars>>
    PROVE  terms'[j].at = now /\ Noticed(j)'
<1>1. UNCHANGED <<Current, pendingChanges>>
    BY DEF govVars, Current
<1>2. ASSUME NEW key \in ParamKeys
      PROVE  /\ Current[key] \in KnownTerms[key]
             /\ pendingChanges[key].executableAt # 0 =>
                   pendingChanges[key].value \in KnownTerms[key]
    BY <1>2 DEF ParamKeys, KnownTerms, Known, Current
<1> QED BY <1>1, <1>2 DEF Noticed, KnownTerms

LEMMA NoticeStep ==
    ASSUME LifecycleInv, NoticeInv, [NoticeNext]_<<vars, terms>>
    PROVE  NoticeInv'
<1> SUFFICES ASSUME NEW j \in JobIds, InEscrow(j)'
             PROVE  /\ terms'[j].at \in Nat /\ terms'[j].at <= now'
                    /\ now' < terms'[j].at + GOVERNANCE_DELAY => Noticed(j)'
    BY DEF NoticeInv
<1>1. TypeOK /\ now \in Nat /\ now' \in Nat /\ GOVERNANCE_DELAY \in Nat
    <2>1. [Next]_vars
        BY DEF NoticeNext, Next
    <2> QED BY <2>1, LifecycleStep, TimeAssumption DEF LifecycleInv, PartiesInv, TypeOK
<1>2. CASE UNCHANGED <<vars, terms>>
    BY <1>2 DEF NoticeInv, InEscrow, Noticed, Current, vars, envVars, jobVars, govVars
<1>3. CASE NoticeNext /\ InEscrow(j)
    <2>1. terms'[j] = terms[j]
        BY <1>3 DEF NoticeNext
    <2>2. now' >= now /\ \A key \in ParamKeys : ParamStep(key)
        <3>1. CASE Tick
            BY <1>1, <3>1 DEF Tick, govVars, ParamStep, Stays, Current
        <3>2. CASE JobManagerCall
            BY <1>1, <3>2, CallKeepsParameters DEF govVars, ParamStep, Stays, Current
        <3>3. CASE TimelockCall
            BY <1>1, <3>3, TimelockStep
        <3> QED BY <1>3, <3>1, <3>2, <3>3 DEF NoticeNext
    <2>3. /\ terms[j].at \in Nat /\ terms[j].at <= now
          /\ now < terms[j].at + GOVERNANCE_DELAY => Noticed(j)
        BY <1>3 DEF NoticeInv
    <2>4. now' < terms[j].at + GOVERNANCE_DELAY => now < terms[j].at + GOVERNANCE_DELAY
        BY <1>1, <2>2, <2>3
    <2>5. terms[j].at <= now'
        BY <1>1, <2>2, <2>3
    <2> QED BY <1>1, <2>1, <2>2, <2>3, <2>4, <2>5, NoticeKept
<1>4. CASE NoticeNext /\ ~InEscrow(j)
    <2>1. terms'[j] = KnownTerms
        BY <1>4 DEF NoticeNext
    <2>2. jobs' # jobs
        BY <1>4 DEF InEscrow
    <2>3. JobManagerCall
        BY <1>4, <2>2, OtherStep DEF NoticeNext
    <2>4. UNCHANGED <<now, govVars>>
        BY <2>3, CallKeepsParameters
    <2>5. terms'[j].at = now /\ Noticed(j)'
        BY <2>1, <2>4, NoticeGiven
    <2> QED BY <1>1, <2>4, <2>5
<1> QED BY <1>2, <1>3, <1>4

\* No fee, treasury or bridge that was not in force or announced when a job was
\* funded governs it before GOVERNANCE_DELAY has passed.
THEOREM NoSurprise == NoticeSpec => []NoSurpriseWithinDelay
<1>1. NoticeInit => LifecycleInv /\ NoticeInv
    <2>1. NoticeInit => NoticeInv
        BY DEF NoticeInit, Init, NoticeInv, InEscrow, NoJob
    <2> QED BY <2>1, LifecycleInit DEF NoticeInit
<1>2. LifecycleInv /\ NoticeInv /\ [NoticeNext]_<<vars, terms>> => LifecycleInv' /\ NoticeInv'
    <2>1. [NoticeNext]_<<vars, terms>> => [Next]_vars
        BY DEF NoticeNext, Next
    <2> QED BY <2>1, LifecycleStep, NoticeStep
<1>3. NoticeInv => NoSurpriseWithinDelay
    BY DEF NoticeInv, Noticed, NoSurpriseWithinDelay, ParamKeys, Current
<1> QED BY <1>1, <1>2, <1>3, PTL DEF NoticeSpec

=============================================================================
