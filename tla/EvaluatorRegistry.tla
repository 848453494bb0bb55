--------------------------- MODULE EvaluatorRegistry ---------------------------
(***************************************************************************)
(* contracts/core/EvaluatorRegistry.sol: stakes, the dense array of active *)
(* evaluators with its swap-and-pop removal, the warm-up filter, the       *)
(* stake-weighted draw, slashing and the registry's own timelock.          *)
(*                                                                         *)
(* As in AgentJobManager, an external function is one action and a revert  *)
(* is no step.  balanceOf is the ProtocolToken ledger of the stakers and   *)
(* of the registry; burned tokens leave it.  A metadata blob is reduced to *)
(* whether one was stored.  lastBelow is a history variable: the last time *)
(* an account's stake was below the minimum in force.                      *)
(***************************************************************************)
EXTENDS Integers, FiniteSets, Sequences, SequencesExt

CONSTANTS
    Stakers,              \* accounts that may stake
    JobManagers,          \* addresses passed to proposeJobManager
    NoAddress, Registry, NoValue,
    Amounts,              \* amounts passed to stake, unstake and slash
    Minimums,             \* values passed to proposeMinEvaluatorStake
    WarmupPeriods,        \* values passed to setWarmupPeriod
    InitialBalance,       \* tokens each staker starts with
    InitialMinimum, InitialWarmup,
    MIN_WARMUP_PERIOD, MAX_WARMUP_PERIOD, MAX_ACTIVE_EVALUATORS,
    GOVERNANCE_DELAY,
    StartTime,            \* block.timestamp at deployment
    MaxTime               \* bound: the clock stops here

ASSUME RegistryAssumption ==
    /\ IsFiniteSet(Stakers)
    /\ NoAddress \notin Stakers \cup JobManagers
    /\ Registry \notin Stakers
    /\ Amounts \subseteq Nat
    /\ Minimums \subseteq Nat
    /\ WarmupPeriods \subseteq Nat
    /\ InitialBalance \in Nat
    /\ InitialMinimum \in Nat \ {0}
    /\ MIN_WARMUP_PERIOD \in Nat
    /\ MAX_WARMUP_PERIOD \in Nat
    /\ InitialWarmup \in MIN_WARMUP_PERIOD .. MAX_WARMUP_PERIOD
    /\ MAX_ACTIVE_EVALUATORS \in Nat
    /\ GOVERNANCE_DELAY \in Nat \ {0}
    /\ StartTime \in Nat
    /\ StartTime >= MAX_WARMUP_PERIOD  \* block.timestamp - warmupPeriod >= 0

VARIABLES
    now, balanceOf,
    evaluators, activeEvaluators, published,
    minEvaluatorStake, warmupPeriod, jobManager, slashPaused, pendingChanges,
    lastBelow                          \* history

stakeVars == <<balanceOf, evaluators, activeEvaluators>>
ruleVars == <<minEvaluatorStake, warmupPeriod, jobManager, slashPaused, pendingChanges>>
registryVars == <<now, stakeVars, published, ruleVars>>
vars == <<registryVars, lastBelow>>

Evaluator == [stakedAmount: Nat, index: Nat, activeSince: Nat, active: BOOLEAN]

NoEvaluator == [stakedAmount |-> 0, index |-> 0, activeSince |-> 0, active |-> FALSE]

Change(S) == [value: S, executableAt: Nat]
NoChange == [value |-> NoValue, executableAt |-> 0]

\* Every variable keeps its type; the array stays within MAX_ACTIVE_EVALUATORS (stake).
TypeOK ==
    /\ now \in Nat
    /\ balanceOf \in [Stakers \cup {Registry} -> Nat]
    /\ evaluators \in [Stakers -> Evaluator]
    /\ activeEvaluators \in Seq(Stakers)
    /\ Len(activeEvaluators) <= MAX_ACTIVE_EVALUATORS
    /\ published \in SUBSET Stakers
    /\ minEvaluatorStake \in Nat \ {0}
    /\ warmupPeriod \in MIN_WARMUP_PERIOD .. MAX_WARMUP_PERIOD
    /\ jobManager \in JobManagers \cup {NoAddress}
    /\ slashPaused \in BOOLEAN
    /\ DOMAIN pendingChanges = {"jobManager", "minEvaluatorStake"}
    /\ pendingChanges["jobManager"] \in Change(JobManagers) \cup {NoChange}
    /\ pendingChanges["minEvaluatorStake"] \in Change(Nat \ {0}) \cup {NoChange}
    /\ lastBelow \in [Stakers -> Nat]

-----------------------------------------------------------------------------
(* The roster: the array of active evaluators and the indices into it.      *)
(* Indices are 0-based as in the code; a TLA+ sequence starts at 1.         *)

\* Slip: the evaluator moved into the gap keeps its old index.
RemoveFromActiveStaleIndex(roster, index) ==
    LET last == Last(roster.active)
    IN  [roster EXCEPT !.active = Front([@ EXCEPT ![index + 1] = last])]

\* _removeFromActive: swap with the last element and pop.
RemoveFromActive(roster, index) ==
    LET lastIndex == Len(roster.active) - 1
        last == Last(roster.active)
    IN  IF index = lastIndex
        THEN [active |-> Front(roster.active), evaluators |-> roster.evaluators]
        ELSE [active |-> Front([roster.active EXCEPT ![index + 1] = last]),
              evaluators |-> [roster.evaluators EXCEPT ![last].index = index]]

\* The removal with the fields its callers clear afterwards.
Deactivate(roster, a, index) ==
    LET removed == RemoveFromActive(roster, index)
    IN  [active |-> removed.active,
         evaluators |-> [removed.evaluators EXCEPT ![a] =
            [stakedAmount |-> removed.evaluators[a].stakedAmount, index |-> 0,
             activeSince |-> 0, active |-> FALSE]]]

\* Slip: who is left with exactly the minimum loses its seat.
AfterLossInclusive(a, remaining) ==
    LET reduced == [active |-> activeEvaluators,
                    evaluators |-> [evaluators EXCEPT ![a].stakedAmount = remaining]]
    IN  IF evaluators[a].active /\ remaining <= minEvaluatorStake
        THEN Deactivate(reduced, a, evaluators[a].index)
        ELSE reduced

\* The roster after `a` lost part of its stake (unstake and slash).
AfterLoss(a, remaining) ==
    LET reduced == [active |-> activeEvaluators,
                    evaluators |-> [evaluators EXCEPT ![a].stakedAmount = remaining]]
    IN  IF evaluators[a].active /\ remaining < minEvaluatorStake
        THEN Deactivate(reduced, a, evaluators[a].index)
        ELSE reduced

\* Slip: the scan moves on after a removal and skips the evaluator swapped in.
SweepRoundSkippingSwapped(scan, newMinimum) ==
    LET a == scan.roster.active[scan.i + 1]
    IN  IF scan.i >= Len(scan.roster.active) THEN scan
        ELSE IF scan.roster.evaluators[a].stakedAmount < newMinimum
        THEN [roster |-> Deactivate(scan.roster, a, scan.i), i |-> scan.i + 1]
        ELSE [scan EXCEPT !.i = @ + 1]

\* One round of the loop in executeMinEvaluatorStake, at index i: the element there is
\* removed, and the one swapped into its place comes next, or it stays.
SweepRound(scan, newMinimum) ==
    LET a == scan.roster.active[scan.i + 1]
    IN  IF scan.roster.evaluators[a].stakedAmount < newMinimum
        THEN [roster |-> Deactivate(scan.roster, a, scan.i), i |-> scan.i]
        ELSE [roster |-> scan.roster, i |-> scan.i + 1]

\* Each round removes an element or passes it, so the loop ends after as many rounds
\* as there are elements.
Sweep(newMinimum) ==
    LET Scan[round \in 0 .. Len(activeEvaluators)] ==
            IF round = 0
            THEN [roster |-> [active |-> activeEvaluators, evaluators |-> evaluators],
                  i |-> 0]
            ELSE SweepRound(Scan[round - 1], newMinimum)
    IN  Scan[Len(activeEvaluators)].roster

SetRoster(roster) ==
    /\ activeEvaluators' = roster.active
    /\ evaluators' = roster.evaluators

-----------------------------------------------------------------------------
(* Eligibility and the draw *)

IsEligible(a) ==
    evaluators[a].active /\ evaluators[a].activeSince <= now - warmupPeriod

WarmedUp(i) == evaluators[activeEvaluators[i]].activeSince <= now - warmupPeriod

\* What the evaluator at i counts in a draw.
Weight(i) == IF WarmedUp(i) THEN evaluators[activeEvaluators[i]].stakedAmount ELSE 0

\* Stake of the warmed-up evaluators among the first i of the array.
Cumulative(i) == SumFunction([k \in 1 .. i |-> Weight(k)])

TotalStake == Cumulative(Len(activeEvaluators))

\* Slip: the walk stops one stake unit too late.
CandidateOffByOne(randomPoint) ==
    LET i == CHOOSE i \in 1 .. Len(activeEvaluators) :
                 /\ WarmedUp(i) /\ randomPoint <= Cumulative(i)
                 /\ \A k \in 1 .. i - 1 : ~(WarmedUp(k) /\ randomPoint <= Cumulative(k))
    IN  activeEvaluators[i]

\* The walk of assignEvaluator: the first warmed-up evaluator whose cumulative
\* stake exceeds the point.
Candidate(randomPoint) ==
    LET i == CHOOSE i \in 1 .. Len(activeEvaluators) :
                 /\ WarmedUp(i) /\ randomPoint < Cumulative(i)
                 /\ \A k \in 1 .. i - 1 : ~(WarmedUp(k) /\ randomPoint < Cumulative(k))
    IN  activeEvaluators[i]

\* assignEvaluator: what one of the draws may return.  The hash of the block data
\* is any point below the total; with no total or only excluded draws it reverts.
Assigned(provider, client) ==
    {Candidate(point) : point \in 0 .. TotalStake - 1} \ {provider, client}

\* getMetadata shows a stored blob while its owner is active.
ShownMetadata == {a \in published : evaluators[a].active}

-----------------------------------------------------------------------------
Init ==
    /\ now = StartTime
    /\ balanceOf = [h \in Stakers \cup {Registry} |->
                      IF h = Registry THEN 0 ELSE InitialBalance]
    /\ evaluators = [a \in Stakers |-> NoEvaluator]
    /\ activeEvaluators = <<>>
    /\ published = {}
    /\ minEvaluatorStake = InitialMinimum
    /\ warmupPeriod = InitialWarmup
    /\ jobManager = NoAddress
    /\ slashPaused = FALSE
    /\ pendingChanges = [key \in {"jobManager", "minEvaluatorStake"} |-> NoChange]
    /\ lastBelow = [a \in Stakers |-> StartTime]

Tick ==
    /\ now < MaxTime
    /\ now' = now + 1
    /\ UNCHANGED <<stakeVars, published, ruleVars>>

-----------------------------------------------------------------------------
(* Stakers *)

\* Slip: the cap on the array is not checked.
StakeUncapped(a, amount) ==
    LET total == evaluators[a].stakedAmount + amount
        activates == ~evaluators[a].active /\ total >= minEvaluatorStake
    IN  /\ amount # 0
        /\ balanceOf[a] >= amount
        /\ evaluators' = [evaluators EXCEPT ![a] =
              IF activates
              THEN [stakedAmount |-> total, index |-> Len(activeEvaluators),
                    activeSince |-> now, active |-> TRUE]
              ELSE [@ EXCEPT !.stakedAmount = total]]
        /\ activeEvaluators' = IF activates THEN Append(activeEvaluators, a)
                               ELSE activeEvaluators
        /\ balanceOf' = [balanceOf EXCEPT ![a] = @ - amount, ![Registry] = @ + amount]
        /\ UNCHANGED <<now, published, ruleVars>>

\* Slip: topping up restarts the warm-up.
StakeRestartingWarmup(a, amount) ==
    LET total == evaluators[a].stakedAmount + amount
        activates == ~evaluators[a].active /\ total >= minEvaluatorStake
    IN  /\ amount # 0
        /\ balanceOf[a] >= amount
        /\ activates => Len(activeEvaluators) < MAX_ACTIVE_EVALUATORS
        /\ evaluators' = [evaluators EXCEPT ![a] =
              IF activates
              THEN [stakedAmount |-> total, index |-> Len(activeEvaluators),
                    activeSince |-> now, active |-> TRUE]
              ELSE [@ EXCEPT !.stakedAmount = total, !.activeSince = now]]
        /\ activeEvaluators' = IF activates THEN Append(activeEvaluators, a)
                               ELSE activeEvaluators
        /\ balanceOf' = [balanceOf EXCEPT ![a] = @ - amount, ![Registry] = @ + amount]
        /\ UNCHANGED <<now, published, ruleVars>>

Stake(a, amount) ==
    LET total == evaluators[a].stakedAmount + amount
        activates == ~evaluators[a].active /\ total >= minEvaluatorStake
    IN  /\ amount # 0
        /\ balanceOf[a] >= amount
        /\ activates => Len(activeEvaluators) < MAX_ACTIVE_EVALUATORS
        /\ evaluators' = [evaluators EXCEPT ![a] =
              IF activates
              THEN [stakedAmount |-> total, index |-> Len(activeEvaluators),
                    activeSince |-> now, active |-> TRUE]
              ELSE [@ EXCEPT !.stakedAmount = total]]
        /\ activeEvaluators' = IF activates THEN Append(activeEvaluators, a)
                               ELSE activeEvaluators
        /\ balanceOf' = [balanceOf EXCEPT ![a] = @ - amount, ![Registry] = @ + amount]
        /\ UNCHANGED <<now, published, ruleVars>>

Unstake(a, amount) ==
    LET remaining == evaluators[a].stakedAmount - amount
    IN  /\ amount # 0
        /\ amount <= evaluators[a].stakedAmount
        /\ ~(evaluators[a].active /\ remaining > 0 /\ remaining < minEvaluatorStake)
        /\ balanceOf[Registry] >= amount
        /\ SetRoster(AfterLoss(a, remaining))
        /\ balanceOf' = [balanceOf EXCEPT ![a] = @ + amount, ![Registry] = @ - amount]
        /\ UNCHANGED <<now, published, ruleVars>>

SetMetadata(a) ==
    /\ evaluators[a].active
    /\ evaluators[a].activeSince <= now - warmupPeriod
    /\ published' = published \cup {a}
    /\ UNCHANGED <<now, stakeVars, ruleVars>>

-----------------------------------------------------------------------------
(* The job manager *)

\* Slip: the stake is reduced and the tokens are not burned.
SlashWithoutBurn(caller, a, amount) ==
    /\ caller = jobManager
    /\ a # NoAddress
    /\ amount # 0
    /\ ~slashPaused
    /\ amount <= evaluators[a].stakedAmount
    /\ SetRoster(AfterLoss(a, evaluators[a].stakedAmount - amount))
    /\ UNCHANGED <<now, balanceOf, published, ruleVars>>

Slash(caller, a, amount) ==
    /\ caller = jobManager
    /\ a # NoAddress
    /\ amount # 0
    /\ ~slashPaused
    /\ amount <= evaluators[a].stakedAmount
    /\ SetRoster(AfterLoss(a, evaluators[a].stakedAmount - amount))
    /\ balanceOf[Registry] >= amount
    /\ balanceOf' = [balanceOf EXCEPT ![Registry] = @ - amount]
    /\ UNCHANGED <<now, published, ruleVars>>

-----------------------------------------------------------------------------
(* Governance (onlyOwner) *)

SetSlashPaused(paused) ==
    /\ slashPaused' = paused
    /\ UNCHANGED <<now, stakeVars, published, minEvaluatorStake, warmupPeriod,
                   jobManager, pendingChanges>>

SetWarmupPeriod(newPeriod) ==
    /\ newPeriod \in MIN_WARMUP_PERIOD .. MAX_WARMUP_PERIOD
    /\ warmupPeriod' = newPeriod
    /\ UNCHANGED <<now, stakeVars, published, minEvaluatorStake, jobManager,
                   slashPaused, pendingChanges>>

Propose(key, newValue) ==
    /\ pendingChanges' = [pendingChanges EXCEPT ![key] =
           [value |-> newValue, executableAt |-> now + GOVERNANCE_DELAY]]
    /\ UNCHANGED <<now, stakeVars, published, minEvaluatorStake, warmupPeriod,
                   jobManager, slashPaused>>

Execute(key, newValue) ==
    /\ pendingChanges[key].executableAt # 0
    /\ now >= pendingChanges[key].executableAt
    /\ newValue = pendingChanges[key].value
    /\ pendingChanges' = [pendingChanges EXCEPT ![key] = NoChange]
    /\ UNCHANGED <<now, balanceOf, published, warmupPeriod, slashPaused>>

ProposeJobManager(newJobManager) ==
    newJobManager # NoAddress /\ Propose("jobManager", newJobManager)

ExecuteJobManager(newJobManager) ==
    /\ Execute("jobManager", newJobManager)
    /\ jobManager' = newJobManager
    /\ UNCHANGED <<evaluators, activeEvaluators, minEvaluatorStake>>

ProposeMinEvaluatorStake(newMinimum) ==
    newMinimum # 0 /\ Propose("minEvaluatorStake", newMinimum)

ExecuteMinEvaluatorStake(newMinimum) ==
    /\ Execute("minEvaluatorStake", newMinimum)
    /\ minEvaluatorStake' = newMinimum
    /\ SetRoster(Sweep(newMinimum))
    /\ UNCHANGED jobManager

CancelProposal(key) ==
    /\ pendingChanges[key].executableAt # 0
    /\ pendingChanges' = [pendingChanges EXCEPT ![key] = NoChange]
    /\ UNCHANGED <<now, stakeVars, published, minEvaluatorStake, warmupPeriod,
                   jobManager, slashPaused>>

-----------------------------------------------------------------------------
StakerCall ==
    \E a \in Stakers :
        \/ \E amount \in Amounts : Stake(a, amount) \/ Unstake(a, amount)
        \/ SetMetadata(a)

JobManagerCall ==
    \E caller \in JobManagers, a \in Stakers, amount \in Amounts : Slash(caller, a, amount)

OwnerCall ==
    \/ \E paused \in BOOLEAN : SetSlashPaused(paused)
    \/ \E period \in WarmupPeriods : SetWarmupPeriod(period)
    \/ \E manager \in JobManagers \cup {NoAddress} :
          ProposeJobManager(manager) \/ ExecuteJobManager(manager)
    \/ \E minimum \in Minimums :
          ProposeMinEvaluatorStake(minimum) \/ ExecuteMinEvaluatorStake(minimum)
    \/ \E key \in DOMAIN pendingChanges : CancelProposal(key)

\* The history variable follows every step.
RecordBelow ==
    lastBelow' = [a \in Stakers |->
                    IF evaluators'[a].stakedAmount < minEvaluatorStake' THEN now'
                    ELSE lastBelow[a]]

Next == (Tick \/ StakerCall \/ JobManagerCall \/ OwnerCall) /\ RecordBelow

Spec == Init /\ [][Next]_vars

-----------------------------------------------------------------------------
(* Safety *)

\* The array and the records describe the same set: an active evaluator sits at
\* its own index, nobody sits twice, and everybody seated holds the minimum,
\* through any order of removals and sweeps (_removeFromActive and its callers).
RosterConsistent ==
    /\ IsInjective(activeEvaluators)
    /\ \A a \in Stakers : evaluators[a].active <=> a \in Range(activeEvaluators)
    /\ \A a \in Stakers : evaluators[a].active =>
          /\ evaluators[a].index < Len(activeEvaluators)
          /\ activeEvaluators[evaluators[a].index + 1] = a
          /\ evaluators[a].stakedAmount >= minEvaluatorStake

\* The registry holds exactly the tokens it owes to its stakers, so everybody
\* can withdraw at any time (stake, unstake, slash).
StakesBacked ==
    balanceOf[Registry] = SumFunction([a \in Stakers |-> evaluators[a].stakedAmount])

\* An eligible evaluator has held the minimum in force without interruption for
\* the whole warm-up, whatever it staked, withdrew or lost meanwhile and however
\* the minimum moved: temporary stake never qualifies (isEligible).
EligibleWarmedUp ==
    \A a \in Stakers : IsEligible(a) => lastBelow[a] + warmupPeriod <= now

\* The draw is stake-weighted and limited to the eligible: each evaluator is hit
\* by as many points as it has eligible stake (assignEvaluator agrees with
\* isEligible).
DrawIsStakeWeighted ==
    \A a \in Stakers :
        Cardinality({point \in 0 .. TotalStake - 1 : Candidate(point) = a})
            = IF IsEligible(a) THEN evaluators[a].stakedAmount ELSE 0

\* Once active, an evaluator keeps its seniority until it loses its seat: neither
\* its own deposits nor anybody's removal restarts its warm-up.
SeniorityKept ==
    [][\A a \in Stakers :
         evaluators[a].active /\ evaluators'[a].active =>
             evaluators'[a].activeSince = evaluators[a].activeSince]_vars

\* Holds the minimum and has no seat.
Idle(a) == ~evaluators[a].active /\ evaluators[a].stakedAmount >= minEvaluatorStake

\* Only governance idles a staker that meets the minimum, by lowering the minimum under
\* a stake that has no seat: no deposit, withdrawal, slash or sweep leaves one behind.
\* The sweep of executeMinEvaluatorStake takes seats and gives none.
OnlyLoweringIdles ==
    [][\A a \in Stakers : ~Idle(a) /\ Idle(a)' =>
           minEvaluatorStake' < minEvaluatorStake]_vars

=============================================================================
