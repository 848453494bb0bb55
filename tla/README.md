# Agent Settlement Protocol in TLA+

A specification of the Agent Settlement Protocol, on chain and off: the escrow
`AgentJobManager.sol`, the staking registry `EvaluatorRegistry.sol` and
`ReputationBridge.sol`, alone and together; the REST API that sends their
transactions and stores what became of them; and the programs that watch jobs
from outside. The modules are model-checked with TLC on small instances. Every safety
property that TLC finds to hold, of the contracts alone and together, of the API and
of the watching programs, is also proved with TLAPS for every value of the constants.

* [The system](#the-system)
* [Modules](#modules)
* [How the model corresponds to the code](#how-the-model-corresponds-to-the-code)
* [Runs](#runs)
* [Where the code and its documentation disagree](#where-the-code-and-its-documentation-disagree)
* [Proofs](#proofs)
* [What is not modelled](#what-is-not-modelled)
* [Plan](#plan)

## The system

A client pays a provider for a job through an escrow; an evaluator, who holds a
stake, decides whether the work is paid. Most clients use a REST API that holds
their keys.

| Component | State | Operations | Talks to |
|---|---|---|---|
| `AgentJobManager` | jobs, pending refunds, token whitelist, fee rate, fixed evaluation fee, treasury, bridge address, pending timelock changes | `createJob`, `setBudget`, `fund`, `submit`, `complete` (two forms), `reject`, `claimExpired`, `claimRefund`, `extendDeadline`, `reopen`; propose / execute / cancel of four parameters; `allowToken`, `disallowToken` | the ERC-20 token (transfers), `EvaluatorRegistry` (`isEligible`, `assignEvaluator`), an attestation verifier, `ReputationBridge` (in a try/catch with a gas cap) |
| `EvaluatorRegistry` | stake, seat index and seniority per evaluator, the dense array of active evaluators, minimum stake, warm-up, job manager address, slash pause, timelock | `stake`, `unstake`, `slash`, `setMetadata`, `setSlashPaused`, `setWarmupPeriod`, propose / execute / cancel; views `isEligible`, `assignEvaluator`, `getMetadata` | `ProtocolToken` (transfer, burn) |
| `ReputationBridge` | job manager address, registry address | `recordJobOutcome`: two calls to an ERC-8004 registry, each in its own try/catch; `setJobManager`, `setReputationRegistry` | the ERC-8004 registry |
| `Treasury`, `ProtocolToken` | token balances, supply cap, roles | `buybackAndBurn`, `withdraw`; `mint`, `burn` | |
| REST API (`api/src`) | SQLite rows of agents and jobs, a promise queue per agent wallet, one for the ETH of new agents | `POST` of agents, faucets and jobs; `fund`, `submit`, `complete`, `reject` (the first three answer 202 and work in the background with timeouts and retries); `GET` reconciles the stored row with the chain; an older version's JSON files are imported at each start | the contracts over several JSON-RPC nodes that may lag |
| SDK (`sdk/src`) | last status seen per watcher | `JobWatcher`, `AssignmentWatcher`: polling; `A2AAdapter.waitForResult` | the REST API |
| Commands (`agents`) | the evaluator daemon's last block, the forum watcher's last post, each in a file | scan, print, save the position | JSON-RPC; the forum |

What is hard in it:

* **Contracts.** A transaction is atomic, so concurrency is the *order* of
  calls by parties with opposed interests, and time passing between them. A job
  can be rejected, reopened, funded again with another provider, and expire;
  several jobs share one token balance and one refund entry; the parameters that
  govern a funded job can change under it; the evaluator's eligibility changes
  between the steps of a job; the bridge may fail after tokens moved.
* **API.** Background handlers outlive their request, a timeout does not cancel
  a transaction, a retry repeats what may already be mined, nodes show the past,
  a row read before an `await` is written after it, and the process may end
  between any two awaits.
* **Watchers and commands.** Polls overlap and their answers come in any order;
  a command may be stopped between its output and the saving of its position.

What makes each component correct:

* *Escrow*: every token in the contract is accounted for; a funded job is
  settled exactly once and in the end; its parties are three different
  addresses; its terms are those that were funded; a submitted job is not expired
  before it could be evaluated; refunds accumulate and are only ever paid out.
* *Governance*: nothing unannounced governs a funded job before the delay is over.
* *Registry*: array and records describe the same set; stakes are backed by
  tokens; eligibility really means uninterrupted stake for the warm-up; the draw
  is weighted by eligible stake.
* *Together*: escrow starts only under warm stake; ratings agree with verdicts.
* *API*: what is stored is never ahead of the chain, catches up with it, and a
  job with money in it is known; nonces of queued transactions are not shared;
  requests end.
* *Observers*: a result or an event that is reported is true, work that waits
  is announced, and a saved position passes nothing over.

`PROJECT.json` lists the components and, with their source lines, the hazards
the properties are for.

## Modules

| Module | Contents |
|---|---|
| `AgentJobManager` | the contract: one action per external function, its environment, safety, action and liveness properties |
| `GovernanceNotice` | extends it with a history variable: what a client could know when it funded a job |
| `JobChain` | the abstract specification: the moves of a job's status, evaluator and deliverable that an observer may rely on |
| `JobChainRefinement` | the refinement mapping from `AgentJobManager` to `JobChain` |
| `EvaluatorRegistry`, `MCEvaluatorRegistry` | the registry: roster with swap-and-pop, warm-up, draw, slashing, its timelock; the symmetry of the stakers, for TLC |
| `ReputationBridge` | the bridge and the bag of ratings the external registry accepted |
| `SettlementProtocol`, `MCSettlementProtocol` | the three contracts composed; what the other job manager reports, for TLC |
| `ApiServer`, `MCApiServer` | the REST API above `JobChain`: handlers, queues, transactions, rows, restarts; the loads TLC looks at |
| `StoredRows` | `JobChain` with the statuses a stale answer may still show |
| `JobWatcher`, `AssignmentWatcher` | the SDK's two watchers, above `StoredRows` |
| `EvaluatorDaemon`, `ForumWatcher` | the two commands |
| `Observers` | the four observing programs, one of which runs in each behaviour |
| `AgentJobManagerProofs` | lemmas on fees and transfers; every action preserves the types; what one step may do to one job, the inductive invariant, the theorems and the refinement of `JobChain` |
| `FiniteSums` | what the community modules' sum over a finite set computes |
| `SettlementProofs` | refund credits, reported outcomes and the accounting of the escrow |
| `GovernanceProofs` | the notice given by the timelocks |
| `RegistryProofs` | the registry: removals, the sweep, the warm-up and the draw |
| `SettlementProtocolProofs` | the composition implements its parts, and what relates them |
| `ApiServerProofs` | the API: what is stored and the chain, nonces, restarts |
| `ObserversProofs` | the safety of the four observing programs |

`GovernanceNotice`, `JobChainRefinement` and the escrow's proof modules extend
`AgentJobManager`. `SettlementProtocol` instantiates it and `EvaluatorRegistry`
with one clock and puts the registry's answers where the job manager alone
leaves them open. `ApiServer` and the watchers extend `JobChain`, so they rely on
what the contract is shown to implement and on nothing else of it.

An operator whose comment begins with *Slip* is not part of the system. It is a
deliberately wrong variant of the operator that follows it (a dropped guard, a
missing reset, a rounding mistake, a cursor advanced once too often), kept to
show that the properties tell the code from its plausible mistakes:
substituting it for the real operator makes the property named with it in
`PROJECT.json` fail.

## How the model corresponds to the code

### The contracts

*Transactions.* A call on the chain runs alone and reverts as a whole. Each
external function is therefore one action whose guard is the conjunction of its
`revert` conditions and whose effects are all its assignments and transfers, in
order. A reverting call is no step. Reentrancy is excluded by the contract's
`nonReentrant` guard and is not modelled.

*Time.* `now` is `block.timestamp`, `StartTime` that of the deployment, and not zero.
`Tick` advances it; any number of calls may share a value. The constants of the code that are durations are CONSTANTS;
configurations give them small values that keep their order (the grace period is
at most the evaluation window). `TimeAssumption` and `AmountAssumption` are as
much as the proofs need.

*Jobs.* `jobs[j]` is the struct with the fields the contract reads. `createdAt`
and `reason` are written and never read and are left out. `cycle` is a history
field: how often the job has been reopened. As in the code, `submittedAt`
survives a reopening.

*Tokens.* `balanceOf[token]` covers the accounts and the escrow. Tokens conform
to ERC-20: a transfer moves the amount or reverts. Transfers check the balance of
the sender, so a call that the contract cannot pay for is no step. Accounts do
not contain the contract itself.

*The registry seen from the escrow.* In `AgentJobManager`, `eligible` is the set
of addresses for which `isEligible` holds. `RegistryStep` and `Tick` change it
arbitrarily, which is more than stakes and warm-ups can do. `assignEvaluator` may
return any eligible address other than the two parties, or revert.

*The bridge seen from the escrow.* `ForwardOutcome` adds the outcome to
`outcomes` or, the call having failed, does not; the settlement stands in both
cases.

*Governance.* The owner may make any `onlyOwner` call at any time or none. A
proposal stores the value where the code stores its hash: `execute` must present
the same value. `QuietSpec` is `Spec` without the owner's calls, for the runs
about jobs; the theorems are about `Spec`.

*The registry.* Indices are 0-based as in the code, sequences 1-based, hence the
`+ 1` at each access. The loop of `executeMinEvaluatorStake` is the recursive
function `Sweep` of as many rounds (`SweepRound`) as the array has elements,
because a round either removes an element or advances. The pseudo-random point of
`assignEvaluator` is any number below the eligible stake. A metadata blob is a
bit: stored or not. `lastBelow` is a history variable, the last time an account's
stake was below the minimum in force.

*The bridge.* `signals` is the bag of ratings the ERC-8004 registry accepted. Each of
the calls of one outcome may be accepted or not. A rating remembers who reported it
and the attempt it is about, which the code does not, to tell ratings of different
managers and attempts apart.

*Together.* In `SettlementProtocol` a call of the job manager is a step of
`AgentJobManager` with `eligible` replaced by the registry's `IsEligible` of that
moment, joined with `DrawnByRegistry` (a drawn evaluator is one `assignEvaluator`
may return, and it answers its job manager only) and with `BridgeTold` (a new
outcome is a `recordJobOutcome`, which the bridge refuses when it trusts another
manager; a bridge other than the one modelled may be in force, and then this one hears
nothing). The registry and the bridge do not know the job manager at first; the job
manager starts out with its bridge executed, as `scripts/deploy.ts` and
`scripts/executeGovernance.ts` leave it. While the bridge trusts another manager, that
one may report any of `OtherOutcomes`, as often as it likes (`ReportByOther`): job ids of
two managers collide in the ERC-8004 registry, so `SignalsMatchVerdicts` is about the
ratings that come from this one. `Next` has every call of the three contracts
and of their owners, in any order. `slash()` answers the wired job manager only, and
`AgentJobManager` never calls it: `SlashByOther` is the call of another one that the
registry's timelock has put in its place. `QuietSpec`, which TLC explores, leaves out
the owners' calls except the wiring (`Wiring`, `BridgeOwner`), the metadata and what is
accepted twice from the other manager (`ReportOnce`); its other disjuncts are those of
`Next`.

### The API

*Steps.* A step is the code between two awaits. A handler is a record with the
kind of its request and where it waits (`pc`); what the handler keeps across an
await is in the record (`fresh`: the nonce it read is still unused; `hash`,
`evaluator`). A request that is refused (400, 403, 404, 409) is no step.

*Transactions.* `pending[w]` is what wallet `w` has broadcast, in nonce order.
`Mine` executes the oldest on the chain of `JobChain`, or reverts it: deadlines, draws
and balances give the contract more reasons to revert than the abstract chain
shows. A handler sends only what some node would let pass (`estimateGas`). Sending
makes the nonces stale that others read for the same wallet; their own sending
then fails, as a node would refuse it. A timeout, a failed attempt and a restart
leave the transaction where it is (`Detached`).

*Nodes.* `replica` is the slowest node behind the `FallbackProvider`; a read
returns the job as it is or as `replica` shows it. A node may fall behind for any
time but not for ever.

*Failures.* Every RPC call may fail (`RpcFails`), every wait may time out
(`TimesOut`) except the one for a seed, which has no `withTimeout`. `withRetry` covers
fund, submit and complete. `Restart` loses the handlers, the queues and the
readers and keeps the rows and what was broadcast. The shutdown code waits for
HTTP requests, not for the background work, so an ordinary deployment is a
`Restart` too.

*Queues.* `withWalletQueue` and `_seedQueue` are sequences of handlers; the head
has the turn, and `Returns` is the `finally` that releases it.

*Faucets.* The two faucets are one action each with the same shape (`FaucetRequest`,
`SendMint`, `MintConfirmed`): token and amount do not matter to any property. They
use the deployer's key, like the seeds and the verdicts.

*Rows.* A row has the columns that change: status, evaluator, deliverable. `GET`
compares the chain with the row it read before the await and writes over the row
of then. `Imported` is `migrateFromJson`, which runs at each start while
`jobs.json` is there: `INSERT OR IGNORE`, without the two younger columns. The
evaluator of such a row is the column's default `''` (`Unrecorded`) until a `GET`
learns it, and that is not the `address(0)` (`NoAddress`) that `createJob` stores:
`POST complete` refuses the latter and lets the former through, whoever the evaluator
is, so that the call is sent, or fails to be, with all its retries (`VerdictRequest`).

### The observers

*Stale answers.* `reached[j]` collects the statuses a job has had. A poll may be
answered with any of them, in any order: rows lag, may be taken back by a late
write, and answers overtake each other. The watchers are thus checked against
more than `ApiServer` produces.

*JobWatcher.* The timer fires whether or not earlier polls were answered; each
poll in flight is an element of `Polls`. Nothing is checked after the await, so
an answer is applied also after `stop()`. An unhandled `error` event ends the process
(`exited`), as Node does.

*AssignmentWatcher.* One poll at a time. `listed` is what the stored rows say of the
jobs of this evaluator: `RowWritten` writes one, as late as it likes or never, and a
row may miss an evaluator the API has not learnt. The list endpoint answers with the
rows as they are (`ServeList`); only `GET /v1/jobs/:id` looks at the chain.

*Commands.* A run of the daemon is a `scan` record that goes through fetching
chunks, looking jobs up, printing and saving; `ScanEnds` is a crash or an RPC failure
at any of these, and while the file is written it may be torn. The forum watcher's
`NaN` stands for a `--from` argument that is no number: all comparisons with it
are false.

### Bounds

`MaxTime` (the clock stops), `MaxJobs`, `MaxReopens` (per job), and `Clients` and
`Providers` (the accounts tried in these roles) bound the contracts. `MaxPending`
bounds the transactions waiting to be mined, `Loads` the requests the API is
given, `Polls` the polls in flight, `MaxBlock` and `MaxPost` what the commands can
find. The inputs a run tries are sets in its configuration: `Budgets`, `Deadlines`,
`FeeRates`, `EvaluationFees`, `Amounts`, `Minimums`, `WarmupPeriods`. Every other
call is tried for every account. Deadlock checking is off in all runs because the
clock and the counters stop at their bounds, and because a process with nothing to
do waits.

## Runs

### Runs that pass

**Lifecycle** (66,600 states, `JobChainRefinement`). One job that may be reopened
once; two clients, two providers and two potential evaluators with overlapping
roles (`e` can be all three, `p` provider or evaluator); deadlines short and long
around an evaluation window of three; a bridge that may fail. The clock passes
the longest deadline and window.

* `EvaluatorIndependence`: the three parties are different addresses.
* `DeliverableOfThisAttempt`: a deliverable exists exactly from submission on.
* `OutcomesMatchVerdicts`: the bridge hears of an attempt at most one verdict, and the right one.
* `EvaluationWindowHonoured`: a submitted job expires only after the whole window.
* `FundedTermsFrozen`: parties, token and budget do not change in escrow and the deadline does not come closer.
* `ImplementsJobChain`: seen through `getJob()`, every behaviour is one of `JobChain`.

**Escrow** (246,000 states). Two jobs of one client in one token, the first
possibly reopened. Budgets of 20 and 30 with a fee of 1/20 and an evaluator
share of 16/20 make both divisions inexact, so rounding matters; two jobs are
the least for which refunds accumulate and one deposit can pay another's debt.

* `EscrowAccounting`: balance plus unbacked credit equals budgets in escrow plus
  pending refunds, exactly. `unbacked` counts the refunds credited by cancelling
  Open jobs; it is the one hole and has its own run, *Solvency*.
* `RefundsOnlyPaidOut`: a refund entry shrinks only by being paid in full to its owner.

**Liveness** (9,500 states), under `FairSpec`. Weak fairness of `Tick` (blocks
keep coming) and of `ClaimExpired` and `ClaimRefund` (a client whose money is due
calls again). Providers, evaluators and the owner need never act, and the owner
may delist the token.

* `FundsReleased`: a funded job does not stay in escrow for ever.
* `RefundsPaid`: while nothing unbacked was credited, every refund is paid.

Weak fairness is enough: once the deadline (and the grace period, which is inside
the window) has passed, `ClaimExpired` stays enabled until somebody settles. The
clock bound of six lies beyond every deadline a run can reach that matters: the
longest chain is a submission at 3 with a window of 2.

**Governance** (542,000 states). One job around which the owner proposes,
re-proposes, cancels and executes fee rate, fixed fee, treasury and bridge in any
order, with a delay of two ticks and a clock of three: a job funded at 2 after proposals
at 1 or 2, and any execution at 3, before its delay is over.

* `TypeOK`: in particular no payment overdraws, although the fixed fee may exceed the budget.
* `NoSurpriseWithinDelay`: until a whole delay after its funding, a job is
  governed only by values in force or pending when it was funded. A proposal
  made later cannot be executed in time, and re-proposing restarts the delay.

**Registry** (253,000 states up to symmetry). Three stakers compete for two
seats, so the cap bites and swap-and-pop moves a real neighbour; minimum and
warm-up change during the run and the job manager may slash.

* `TypeOK`: in particular the seats never exceed the cap.
* `RosterConsistent`: array and records agree, indices included, and everybody seated holds the minimum.
* `StakesBacked`: the registry holds exactly what it owes.
* `EligibleWarmedUp`: an eligible evaluator held the minimum in force for the whole warm-up.
* `DrawIsStakeWeighted`: each evaluator is hit by as many points as it has eligible stake.
* `SeniorityKept`: while seated, nobody's warm-up restarts.
* `OnlyLoweringIdles`: a staker that meets the minimum is left without a seat by nothing
  but a lowered minimum, not by a loss down to exactly the minimum or by a sweep.

The stakers are interchangeable in `Init`, `Next` and every property, so the
symmetry is sound; the two temporal properties are action properties.

**Protocol** (487,000 states). The three contracts, one job that may be reopened
once, two stakers of whom one is also the provider, a bridge that is pointed at
another manager and at no registry, the wiring with its delay. The other manager
reports a rejection of the same provider in a job of the same number
(`MCOtherOutcomes`); the theorem is about any set of reports. Warm-up, delay and
window are one tick, so that everything fits below a clock of four. The owners only
wire the contracts (`QuietSpec`); what their other calls may do is proved.

* `TypeOK`: the three contracts' types.
* `FundedUnderWarmStake`: whoever evaluates a job when its money enters escrow is
  independent and has held the minimum for the whole warm-up up to that moment,
  whatever it withdrew and staked again between `createJob` and `fund`.
* `SignalsMatchVerdicts`: nobody is rated twice for one attempt, a provider badly
  only when rejected, an evaluator only for an approval, through partial failures,
  reopenings, changes of both addresses and reports of the other manager.

**Api** (191,000 states), under `FairSpec`. One job and five loads: a provider with
its own key, lagging nodes and a polling client; one request at a time next to a
polling client, any evaluator, and a restart; two requests at a time with two
different deliverables; two requests at a time over the job of an older version, whose
evaluator may be anybody and is not recorded, new agents and faucets; the same old job
with a polling client and a restart. Two
attempts instead of three, because a third repeats the second, and two pending
transactions, enough for one left over by a timeout before the next of the same
or another wallet. Rows of different jobs meet in the wallets only, and there a
second handler stands for a second job.

* `TypeOK`: in particular nobody retries more often than `maxAttempts`.
* `StoredBehindChain`: a stored status is one the job has reached, a stored verdict
  and evaluator are the chain's.
* `DeliverableOnChain`: a stored deliverable has the hash the contract holds, also
  when two submissions race.
* `FundedHasRow`: a job with money in it is known to the API.
* `QueuedNonceKept`: two turns of one queue never use one nonce.
* `RequestsEnd`: every accepted request ends, if every seed sent is mined in the end.
* `RestartKeepsRows`: importing the old file again takes no row back.
* `StoredCatchesUp`: if somebody polls the job, its stored status agrees with the chain
  in the end and for good, and so does its evaluator while money is in escrow.

Fairness: weak for each handler (the event loop runs every handler on; timers
fire) and for the slow node to catch up; strong for a polling client's `GET` to be
sent and to be answered from the chain. Strong fairness is needed because a `GET` is
disabled again and again by others in flight and an answer may fail; `setInterval` in
the client and the retry of the next poll are what justifies it. Nothing is assumed
of the miners: a transaction may stay pending for ever, which is why `RequestsEnd`
has its premise.

**Sdk** (394,000 states), under `FairSpec`. In each behaviour one of the four
programs runs. Two polls in flight, enough for one answer to overtake another; a
chain of five blocks read in chunks of two with a look-back of one, so that a
chunk's edge, the last short chunk and an event mined during the scan all occur; a
topic of four posts.

* `TypeOK`: the four programs' types.
* `ResultTrue`: `waitForResult` says completed, rejected or expired only when that is so.
* `HeardIsTrue`: an assignment or a submission is announced only for the evaluator's own work.
* `NothingPassedOver`, `NoPostMissed`: a saved position passes no event or post that
  was neither shown nor looked at.
* `ClientHears`: the end of a watched job is announced, unless the process exited or the wait timed out.
* `EvaluatorHears`: a submission that waits for this evaluator is announced, if the
  rows catch up (`RowsCatchUp`).

Fairness, for the program that runs: the timer fires and answers are applied (weak), and
requests do not fail for ever (strong). For `waitForResult`, of infinitely many answers
infinitely many are up to date, because its own `GET /v1/jobs/:id` reads the chain.
An `AssignmentWatcher` has no such help: its list is answered from the rows, and nothing
it does makes the API write one. That the rows catch up is therefore a premise of
`EvaluatorHears`, and what `StoredCatchesUp` shows for jobs that somebody else asks for by
their number, such as the client that waits for its result. Nothing makes the job move.

### Runs that find a violation

*Solvency*, *LateVerdict*, *FeeCap* and *Collateral* state what a comment, a test
or a document says and show that the code does otherwise; see the next section.
*Collateral* is over the full `Spec` of the composition.

## Where the code and its documentation disagree

1. **A refund for money never deposited** (*Solvency*). `setBudget` stores the
   budget of an Open job; `reject` of an Open job credits `job.budget` to
   `pendingRefunds`. The comment in `reject` says "For Open state rejections (Client
   cancel): budget == 0". After `createJob`, `setBudget`, `reject` the contract owes
   a refund that nobody deposited, and `claimRefund` takes it from other deposits.
   `EscrowAccounting`, proved, shows that this is the only such path.
2. **Verdicts after the deadline** (*LateVerdict*). `reject` refuses once the
   deadline has passed, with an error documented "Once expired, only
   claimExpired() is valid"; `complete` has no such check.
3. **The fee cap** (*FeeCap*). `MAX_FEE_RATE` promises that "even with full governance
   compromise, fees cannot exceed 5%"; `proposeEvaluationFee` accepts any amount and
   `_computeFee` caps it by the whole budget only.
4. **Collateral that can leave** (*Collateral*). The README says that the registry
   "requires evaluators to lock protocol tokens as collateral"; `unstake` does not
   ask whether the caller holds a funded job, and `AgentJobManager` never calls `slash`.

Smaller ones, seen while modelling and without a run.

*Contracts.* `IAgentJobManager.sol:37` says that transitions are strictly forward,
and `reopen` goes back. The README's "full refund" on rejection is net of the fee.
`submittedAt` is documented "0 until then" and survives `reopen`. `disallowToken` is
documented as checked in `createJob` only, and `reopen` checks it too. The field
`active` is documented as "True if stakedAmount >= minEvaluatorStake", and lowering the
minimum activates nobody (`EvaluatorRegistry.sol:58`, `:714`). Until the registry's
timelocked wiring is executed `fund` reverts for every job without a chosen
evaluator. Job ids of two managers collide in the ERC-8004 registry.

*API.*
* `index.ts:354` says that fund, submit and complete are serialised per wallet; only
  fund uses the queue. The nonce check of the nodes and the retries repair the
  collision, at the price of an attempt.
* `index.ts:340` relies on ethers to manage the deployer's nonce; seeds are
  serialised, faucets and verdicts of the same key are not.
* The wait for a seed has no timeout: a seed that is never mined stops the creation of
  agents until the next restart, and their rows are saved while nobody gets their keys.
* `index.ts:1073` says that background handlers "are not cut off mid-transaction";
  `server.close` waits for connections, and the work after a 202 belongs to none.
* `createJob` mined and `setBudget` failed leaves a job that the API never learns of.
* A submit whose confirmation times out loses the deliverable's text for good: `GET`
  restores the status only.
* The import of `jobs.json` drops the evaluator and the deliverable of old rows; the
  evaluator comes back with the next `GET`, the deliverable does not. Until then
  `POST complete` passes its check for any such job (`index.ts:771`), and where the
  evaluator is not the deployer every attempt fails after the 202.
* The comment on `GET /v1/evaluator/:address/jobs` says that external evaluators poll it
  for their work. It reconciles nothing: an evaluator drawn at a funding whose
  receipt was lost is never listed, and a lost submission stays unlisted, until
  somebody asks for that job by its number.
* A stored row can be taken back for a while by a late write or a `GET` answered by a
  lagging node; the next `GET` repairs it, and until then verdict requests are refused.
* No endpoint calls `claimExpired`, `claimRefund` or `reopen`, and the agents' keys
  are the API's: what a rejection or an expiry owes an agent has no way to be claimed
  through it.

*SDK and commands.*
* `A2AAdapter.ts:239` calls polling errors transient, but `waitForResult` adds no
  `error` listener, so Node ends the process at the first one.
* `JobWatcher` may emit late and repeated events after `stop()`.
* `AssignmentWatcher` emits `assigned` only for a job first listed as funded: one
  listed open earlier, or submitted by the first poll, is never announced as assigned.
* `evaluator-daemon`: a job whose look-up fails is passed over for ever; a state file torn
  by a crash stops every later run; a first run that fails leaves no position, so that
  the next one may begin later.
* `forum-watcher`: `--from=abc` saves the position without fetching anything, although
  the comment there means to "avoid losing position"; a post answered with an error
  is skipped for ever.

## Proofs

Eight modules prove, for every finite set of accounts and stakers, every set of
tokens, evaluators, addresses, hashes, request handlers and readers, any number of
jobs, reopenings, attempts, restarts, polls, blocks and posts, and every value of the
parameters that satisfies the named assumptions
of the modules:

| Theorem | Says |
|---|---|
| `LifecycleInvariant` | `Spec => []LifecycleInv`, the inductive invariant of the escrow |
| `TypeCorrect` (`AgentJobManagerProofs`) | `Spec => []TypeOK` |
| `IndependenceHolds` | `Spec => []EvaluatorIndependence` |
| `DeliverableHolds` (`AgentJobManagerProofs`) | `Spec => []DeliverableOfThisAttempt` |
| `WindowHolds`, `WindowHonoured` | `Spec => EvaluationWindowHonoured` |
| `TermsFrozen` | `Spec => FundedTermsFrozen` |
| `RefundsPaidOut` | `Spec => RefundsOnlyPaidOut` |
| `OutcomesCorrect`, `OutcomesNameParties` | `Spec => []OutcomesMatchVerdicts`, and whom an outcome names |
| `EscrowBalanced` | `Spec => []EscrowAccounting` |
| `NoSurprise` (`GovernanceProofs`) | `NoticeSpec => []NoSurpriseWithinDelay` |
| `RefinesJobChain` | `Spec => ImplementsJobChain` |
| `InvHolds`, `TypeCorrect` (`RegistryProofs`) | `Spec => []RegistryInv`, the inductive invariant of the registry, and `[]TypeOK` |
| `RosterHolds` | `Spec => []RosterConsistent` |
| `StakesHeld` | `Spec => []StakesBacked` |
| `EligibleHolds` | `Spec => []EligibleWarmedUp` |
| `SeniorityHolds` | `Spec => SeniorityKept` |
| `DrawHolds` | `Spec => []DrawIsStakeWeighted` |
| `IdleHolds` | `Spec => OnlyLoweringIdles` |
| `ImplementsRegistry`, `ImplementsJobManager` | `Spec` of `SettlementProtocol` implies the specifications of its parts |
| `RegistryFactsHold`, `JobFactsHold`, `RulesKept`, `RefinesJobChain` (`SettlementProtocolProofs`) | what was proved about each contract holds of the composition |
| `TypeCorrect` (`SettlementProtocolProofs`) | `Spec => []TypeOK` of `SettlementProtocol` |
| `FundedUnderStake` | `Spec => FundedUnderWarmStake` |
| `SignalsCorrect` | `Spec => []SignalsMatchVerdicts` |
| `InvHolds`, `TypeCorrect` (`ApiServerProofs`) | `Spec => []ApiInv`, the inductive invariant of the API, and `[]TypeOK` |
| `StoredIsBehind` | `Spec => []StoredBehindChain` |
| `DeliverableHolds` (`ApiServerProofs`) | `Spec => []DeliverableOnChain` |
| `FundedIsKnown` | `Spec => []FundedHasRow` |
| `RestartLosesNothing` | `Spec => RestartKeepsRows` |
| `NonceHolds` | `Spec => QueuedNonceKept` |
| `TypeCorrect` (`ObserversProofs`) | `Spec => []TypeOK` of `Observers` |
| `ResultIsTrue` | `Spec => []ResultTrue` |
| `HeardEventsAreTrue` | `Spec => []HeardIsTrue` |
| `DaemonPassesNothingOver` | `Spec => []NothingPassedOver` |
| `ForumMissesNoPost` | `Spec => []NoPostMissed` |

*Types and the life cycle.* `TypeOK` is not inductive. A settlement pays the
provider and the evaluator of a job, so it keeps the balances typed only if they
are accounts and the token is a known one; and it reports an outcome whose parties
must be accounts. `PartiesInv` therefore joins `TypeOK` with `TokenKnown` (every
existing job has a known token) and `EvaluatorIndependence`. `createJob` must in
turn write to an empty slot, which is `FreshIds`; together they are `LifecycleInv`.

`AgentJobManagerProofs` first bounds the arithmetic: a share of an amount is at
most the amount (`ShareBounded`), a fee at most the budget (`FeeBounded`), a
transfer keeps a holding a function into the naturals (`TransferType`) and a fee
distribution takes exactly the fee out of the escrow (`DistributeFeeFromEscrow`).
Then it has one lemma per action. These need `MAX_FEE_RATE <= BPS` and
`EVALUATOR_SHARE_BPS <= BPS` and nothing else about the parameters.

Its second half says once what a step may do to a single job,
`JobTransition` (created, budgeted, funded, submitted, settled, extended,
reopened, or untouched), and proves in `StepOfJob` that every step does one of
these to every job. Each property follows from `JobTransition`. For the
evaluation window the invariant is `WindowOpen`: while a job is Submitted its
deadline is at least the submission plus the window, because `submit` extends
it and nothing shortens it.

*Refunds and outcomes.* A settlement only adds to a refund
(`SettlementGrowsRefunds`, where the fee must not exceed the budget), and
`claimRefund` clears one by paying it in full (`ClaimRefundPays`, where the client
must not be the escrow itself). `OutcomesMatchVerdicts` is not inductive: nothing
in it stops an outcome from belonging to an attempt still to come, which would then
clash with the verdict of that attempt. `OutcomesOfAttempts` adds that no outcome
runs ahead of its job's attempt counter; a verdict leaves the job in a status from
which only `reopen` moves on, and that starts a new attempt (`AttemptsAdvance`).

*The accounting.* `EscrowAccounting` is about two sums, of the budgets in escrow and of
the pending refunds. `FiniteSums` proves what is needed of the community modules'
`SumFunctionOnSet`: that a sum splits at any element and changes by what one
summand changes, in whatever order the fold takes the elements. The fold is a
recursive function, so its existence comes first, by the smallest counterexample
among the parts of a finite set. `SettlementProofs` then says of each action
which amount it `Moves` into or out of the four terms, and `MovesBalance` shows
that such a move keeps the equation. The inductive invariant is `EscrowInv`:
`LifecycleInv` (the fee is at most the budget, the parties are accounts and not the
escrow), `EmptySlots` (a slot never written holds nothing, so `createJob` does not
change the sum) and the equation.

*Governance.* `GovernanceProofs` says what a step may do to one parameter
(`ParamStep`: it stays, is proposed, or takes the value of a proposal whose delay
is over) and keeps `NoticeInv`: while the delay after the funding of a job runs,
the value in force and every proposal that could be executed within that delay
were visible when the job was funded. A later proposal becomes executable only after
the delay, which is why the second half survives new proposals.

*Refinement.* The last part of `AgentJobManagerProofs` maps the initial states and each
`JobTransition` to a move of `JobChain` or to a stutter. It needs `LifecycleInv` and
`EmptySlots`: the slot that `createJob` fills must look absent to `getJob()`.

*Registry.* `RegistryInv` joins `TypeOK`, `RosterConsistent` and `StakesBacked`, each
of which needs the first two to survive a removal, with `WarmupRecorded`: nobody
active was below the minimum in force after it became active, and no record lies in
the future. `EligibleWarmedUp` follows from the last.
* A removal by swap-and-pop keeps array, indices and flags in agreement and moves only
  the last element (`RemovalMoves`, `DeactivateKeeps`); that the mover knows its new
  index is the part a missing assignment would break.
* The sweep is a loop, and `ScanInv` is its invariant after each round: the roster
  is consistent; stakes and seniority are as they were; a seat is lost only by an
  evaluator below the new minimum; those before the index hold it; the rounds left are
  enough for the elements left.
  `RoundKeeps` proves it for one round and `SweepKeeps` for all, by the smallest round
  that would break it.
* `SeatsKept` says what any step may do to a seat, and gives `SeniorityKept`.
* For the draw, `CandidateLocated` and `PointLocated` show that the cumulative weights
  cut the points below the total into adjoining stretches, and that `Candidate` returns
  the evaluator in whose stretch a point lies. A stretch is as long as the eligible
  stake, and by `RosterConsistent` nobody has two (`DrawWeighs`).
* `OnlyLoweringIdles` needs no stronger invariant but stronger lemmas about one call: a
  deposit that reaches the minimum takes a seat or, all being taken, reverts
  (`StakeIdlesNobody`), and a loss or a sweep unseats only who falls below the minimum
  (`LossIdlesNobody`, `SweepSeats`).

*The contracts together.* `SettlementProtocol` is not proved from its actions one by
one again. Every step of it is shown to be a step of the registry or to leave the
registry alone (`RegistryStepMaps`), and likewise for the job manager (`JobsStepMaps`),
so the composition implements both specifications, and what was proved about them holds
of it. Calls of the job manager are stutters of the registry only because recording
`lastBelow` once more changes nothing, which is `BelowRecorded`; calls of the registry
are the `RegistryStep` of the job manager, whose `eligible` is now the registry's
answer. What remains is what relates the contracts:
* `FundedUnderWarmStake` joins what a step may do to a job (`JobTransition`: whoever is
  recorded at funding was eligible then) with what eligibility means
  (`EligibleWarmedUp`), in the one state that both contracts are in.
* `SignalsMatchVerdicts` is not inductive. `SignalsInv` says that each signal of this job
  manager was accepted once and is about an outcome that it reported. What another
  manager reports is a signal of another name, however often it comes. A new outcome is the first of its
  attempt (`OutcomesMatchVerdicts`) and a signal names its attempt, so what is accepted for it is
  new. The rest follows from the outcome the signal is about, whose parties are those
  on record as long as the attempt lasts, and for an approval always: that is
  `OutcomesOnRecord`, proved of the job manager alone.

*API.* `StoredBehindChain` cannot be inductive, because what a handler will store is
decided by what it learnt earlier, and what it learns by a transaction sent before
that. `Behind` orders the states of a job by what the chain may still make of it: the
status advances, a terminal status, an evaluator and a deliverable stay. The conjuncts of
`ApiInv` follow the way of that knowledge:
* `ChainInv`: the slow node is behind the chain; what does not exist or was not
  submitted has no deliverable.
* `TxInv`: a handler that waits does so for one transaction, of its own wallet, with its
  own job, hash and evaluator. Two submissions of different results are told apart here.
* `LearnedInv`: what a handler knows after the receipt (`Learned`) is behind the chain.
* `RowsInv`: so is every row, the imported ones with no recorded evaluator (`Nobody`)
  included. `GET` and the handlers may therefore overwrite each other
  in any order.
* `KnownInv`: requests, transactions and readers about a job past its creation are
  about one with a row, which `FundedHasRow` comes from.
* `SlotInv`: a handler whose turn has come is the head of its queue, and nobody is
  queued twice, which `QueuedNonceKept` comes from.

The chain only moves on (`MovesOn`, `ChainGrows`), so whatever was behind it stays
behind. `HandlerMove` says once what a step of one handler may do to handlers, rows,
transactions and queues; every action of a handler is shown to be such a move, and
`MoveKeeps` proves the invariant for moves. `Mine` tells a handler the `Outcome` of its
transaction, which is where knowledge enters.

*Observers.* None of the four safety properties is inductive.
* `ResultTrue` needs `SettledOnce` (a job of the API is never reopened, so of the
  statuses it has had only the present one can be terminal) and `AnswersTrue` (an
  answer in flight is one of them).
* `HeardIsTrue` needs the same of the rows and of lists in flight (`ListTrue`).
* `NothingPassedOver` needs `ScanCovers`: every event between the first block of the
  range and its end is printed, dismissed, in hand, or still ahead of the scan, and
  nothing in hand is newer than the latest block.
* `NoPostMissed` needs the same of a reading that will save (`ReadingCovers`).

*Only model-checked*: liveness, which under fairness is out of the prover's reach, so
`FundsReleased`, `RefundsPaid`, `RequestsEnd`, `StoredCatchesUp`, `ClientHears` and
`EvaluatorHears`. Every other property of the runs that pass is proved. The statements the runs
refute are false, so there is nothing to prove about them. Recursion over data, such
as the total of a sum or the loop of the sweep, is not proved by an induction theorem but by
the smallest counterexample, case by case; what a recursive definition computes for
every input in general stays out of reach.

## What is not modelled

* `Treasury` (two owner-only functions that move or burn its own balance in one
  call), the minting, roles and supply cap of `ProtocolToken` (OpenZeppelin code
  that no other contract depends on), the inside of an attestation verifier and of
  the ERC-8004 registry (outside the repository).
* Ownership transfer: there is one owner. Gas limits appear only as the possible
  failure of the bridge call. Integer widths do not matter: the contracts are compiled
  with checked arithmetic, so an overflow is a revert.
* Of the API: lists and balances (reads that write nothing), the statistics cache, rate
  limits, the encryption of keys, the agents table (written once per agent), the
  dashboard and the OpenAPI document (static output).
* The Python SDK and `AgentClient` (stateless wrappers of the REST calls), the
  wording of alerts, the classification of forum posts.
* The operator scripts: one-shot command lines that send calls modelled above; the
  state they leave is `Init` and `Wiring` of `SettlementProtocol`.
* `typechain-types`: bindings generated from the contracts, ABIs and type declarations
  without behaviour. They are about 28,500 of the repository's 33,300 lines of
  TypeScript and JavaScript, and the contracts themselves are Solidity. The share of
  TypeScript and JavaScript lines that the modules translate is therefore bounded by
  the API, the SDK and the commands, and cannot come near a third.

## Plan

1. `AgentJobManager`, `GovernanceNotice` and their proofs. *Done*, the accounting of
   the escrow included.
2. `EvaluatorRegistry` and its proofs. *Done*, the sweep and the draw included.
3. `JobChain` and the refinement. *Done.*
4. `ReputationBridge`, `SettlementProtocol` and their proofs. *Done*, by showing that the
   composition implements its parts.
5. `ApiServer` and its proofs. *Done* for safety; its liveness stays with TLC.
6. `Observers` and its proofs. *Done.*
