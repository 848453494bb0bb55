------------------------------- MODULE ApiServer --------------------------------
(***************************************************************************)
(* The REST API (api/src/index.ts): its request handlers, the stored job   *)
(* rows (storage.ts) and the transactions it sends for the wallets it      *)
(* manages, above the chain of JobChain.  A step is the code between two   *)
(* awaits.  One agent owns every job; its provider and the deployer's      *)
(* wallet sign the other calls.  The deployer plays the evaluator in the   *)
(* MVP, and the same key sends new agents their first ETH and serves the   *)
(* faucets.                                                                *)
(***************************************************************************)
EXTENDS JobChain, FiniteSets, Sequences

CONSTANTS
    Handlers,          \* requests served at the same time
    NoHandler,
    Unrecorded,        \* '', the default of the column evaluatorAddress
    Readers,           \* GET requests served at the same time
    Client, Provider,  \* wallets of the agent and of the provider
    Deployer,          \* the evaluator address whose key the API holds
    Loads,             \* bound: the situations looked at, see load
    MaxAttempts,       \* withRetry's maxAttempts
    MaxPending         \* bound: transactions waiting to be mined

ASSUME ApiAssumption ==
    /\ JobIds \subseteq Nat \ {0}
    /\ Deployer \in Addresses
    /\ NoHandler \notin Handlers
    /\ Unrecorded \notin Addresses \cup {NoAddress}
    /\ Loads \subseteq [handlers: SUBSET Handlers, readers: SUBSET Readers,
                        hashes: SUBSET Hashes, evaluators: SUBSET (Addresses \cup {NoAddress}),
                        managed: BOOLEAN, lags: BOOLEAN, restarts: Nat,
                        newcomers: BOOLEAN, legacy: BOOLEAN]
    /\ MaxAttempts \in Nat \ {0} /\ MaxPending \in Nat \ {0}

VARIABLES
    replica,     \* the jobs as the slowest RPC node still shows them
    rows,        \* the jobs table of the SQLite database
    handlers,    \* what each handler is doing
    pending,     \* per wallet, the transactions sent and not mined yet, by nonce
    approved,    \* the agent's USDC allowance covers every budget
    queue,       \* _walletQueues for the agent's wallet, _seedQueue for the deployer's
    readers,     \* GET /v1/jobs/:id requests waiting for getJob()
    load,        \* how many requests, with which contents, whether the provider calls
                 \* through this API, nodes lag, how often the process restarts, whether
                 \* agents are created and an older version's jobs.json is found
    restarts,
    legacy       \* the rows of data/jobs.json while that file is there

beyond == <<chain, replica, readers, load, restarts, legacy>>    \* no handler writes these
vars == <<beyond, rows, handlers, pending, approved, queue>>

Wallets == {Client, Provider, Deployer}
NoRow == [status |-> "NoRow", evaluator |-> NoAddress, deliverable |-> NoHash]
Row == [status: Phases \ {"None"}, evaluator: Addresses \cup {NoAddress, Unrecorded},
        deliverable: Hashes \cup {NoHash}]

\* What the column holds while the API has learnt of no evaluator.
Nobody == {NoAddress, Unrecorded}

Kinds == {"create", "fund", "submit", "complete", "reject", "agent", "faucet"}
Waits == {"approving", "sent", "budgetSent"}     \* withTimeout
Steps == {"seedSent", "preflight", "queued", "nonce", "allowance", "send", "visible", "setBudget",
          "confirmed", "evaluator", "reverted"} \cup Waits
Idle == [kind |-> "none", job |-> 0, pc |-> "idle", attempt |-> 0, fresh |-> FALSE,
         hash |-> NoHash, evaluator |-> NoAddress]

WalletOf(kind) == CASE kind \in {"create", "fund"} -> Client
                    [] kind = "submit" -> Provider
                    [] OTHER -> Deployer

\* Jobs that an older version of the API created and that wait for their verdict, and
\* its flat file.
LegacyJobs == {[status |-> "Submitted", evaluator |-> evaluator, deliverable |-> hash,
                attempt |-> 0] : evaluator \in Addresses, hash \in Hashes}
LegacyFile == [j \in JobIds |-> [status |-> chain[j].status, evaluator |-> chain[j].evaluator,
                                 deliverable |-> chain[j].deliverable]]
NoRows == [j \in JobIds |-> NoRow]

\* Slip: INSERT OR REPLACE.
ImportedReplacing(file, table) == [j \in JobIds |->
    IF file[j] = NoRow THEN table[j]
    ELSE [file[j] EXCEPT !.evaluator = Unrecorded, !.deliverable = NoHash]]

\* migrateFromJson: INSERT OR IGNORE, without the two younger columns, which take
\* their defaults.
Imported(file, table) == [j \in JobIds |->
    IF file[j] = NoRow \/ table[j] # NoRow THEN table[j]
    ELSE [file[j] EXCEPT !.evaluator = Unrecorded, !.deliverable = NoHash]]

\* What an RPC read of job j may answer: FallbackProvider takes the first node.
Views(j) == {chain[j], replica[j]}

\* What a handler keeps across its awaits, and what a wallet has broadcast.
Handler == [kind: Kinds \cup {"none"}, job: JobIds \cup {0}, pc: Steps \cup {"idle"},
            attempt: 0 .. MaxAttempts, fresh: BOOLEAN, hash: Hashes \cup {NoHash},
            evaluator: Addresses \cup {NoAddress}]
Tx == [kind: (Kinds \ {"agent"}) \cup {"approve", "setBudget", "seed"}, job: JobIds \cup {0},
       by: Handlers \cup {NoHandler}, hash: Hashes \cup {NoHash},
       evaluator: Addresses \cup {NoAddress}]

\* Every variable keeps its type; nobody retries more often than maxAttempts (withRetry).
TypeOK ==
    /\ ChainTypeOK /\ replica \in [JobIds -> JobOnChain]
    /\ rows \in [JobIds -> Row \cup {NoRow}]
    /\ handlers \in [Handlers -> Handler]
    /\ \A h \in Handlers :
          \/ handlers[h] = Idle
          \/ handlers[h].kind # "none" /\ handlers[h].pc # "idle" /\ handlers[h].attempt # 0
    /\ pending \in [Wallets -> Seq(Tx)]
    /\ approved \in BOOLEAN /\ load \in Loads
    /\ queue \in [{Client, Deployer} -> Seq(Handlers)]
    /\ readers \in [Readers -> {NoRow} \cup [job: JobIds, row: Row]]
    /\ restarts \in 0 .. load.restarts
    /\ legacy \in [JobIds -> Row \cup {NoRow}]

Init ==
    /\ load \in Loads
    /\ IF load.legacy
       THEN /\ chain \in [JobIds -> LegacyJobs]
            /\ legacy \in {LegacyFile, NoRows}      \* renamed, or the rename failed
            /\ rows = Imported(LegacyFile, NoRows)
       ELSE /\ ChainInit
            /\ legacy = NoRows
            /\ rows = NoRows
    /\ replica = chain
    /\ handlers = [h \in Handlers |-> Idle]
    /\ pending = [w \in Wallets |-> <<>>]
    /\ approved = FALSE
    /\ queue = [w \in {Client, Deployer} |-> <<>>]
    /\ readers = [r \in Readers |-> NoRow]
    /\ restarts = 0

-----------------------------------------------------------------------------
(* Handlers: attempts, retries and the wallet queue *)

At(h, pc) == handlers[h].pc = pc
Serves(h, kind) == handlers[h].kind = kind
Goes(h, pc) == handlers' = [handlers EXCEPT ![h].pc = pc]

\* An idle handler takes a request that passed its checks.
Accepts(h, request) ==
    /\ handlers[h] = Idle
    /\ handlers' = [handlers EXCEPT ![h] = request]
    /\ UNCHANGED <<beyond, rows, pending, approved, queue>>

Request(kind, j, pc) == [Idle EXCEPT !.kind = kind, !.job = j, !.pc = pc, !.attempt = 1]

\* Slip: the slot of the queue is released by nobody.
ReturnsKeepingSlot(h) ==
    /\ handlers' = [handlers EXCEPT ![h] = Idle]
    /\ UNCHANGED queue

\* The handler returns; one with a slot in a queue, the first one then, releases it
\* (finally).
Returns(h) ==
    /\ handlers' = [handlers EXCEPT ![h] = Idle]
    /\ queue' = [w \in DOMAIN queue |->
          IF queue[w] # <<>> /\ Head(queue[w]) = h THEN Tail(queue[w]) ELSE queue[w]]

\* Transactions of h go on without anybody waiting for them.
Unwatched(tx) == [tx EXCEPT !.by = NoHandler]
Detached(h) == [w \in Wallets |-> [i \in DOMAIN pending[w] |->
    IF pending[w][i].by = h THEN Unwatched(pending[w][i]) ELSE pending[w][i]]]

\* Slip: one attempt more than maxAttempts.
AttemptFailsOnceMore(h) ==
    /\ pending' = Detached(h)
    /\ IF /\ handlers[h].kind \in {"fund", "submit", "complete"} /\ ~At(h, "preflight")
          /\ handlers[h].attempt <= MaxAttempts
       THEN /\ handlers' = [handlers EXCEPT ![h].pc = "nonce", ![h].attempt = @ + 1,
                                            ![h].fresh = FALSE]
            /\ UNCHANGED queue
       ELSE Returns(h)
    /\ UNCHANGED <<beyond, rows, approved>>

\* fund, submit and complete run under withRetry; create and reject answer 500; a
\* seed or a mint that fails is logged, and the new agent answered all the same.
AttemptFails(h) ==
    /\ pending' = Detached(h)
    /\ IF /\ handlers[h].kind \in {"fund", "submit", "complete"} /\ ~At(h, "preflight")
          /\ handlers[h].attempt < MaxAttempts
       THEN /\ handlers' = [handlers EXCEPT ![h].pc = "nonce", ![h].attempt = @ + 1,
                                            ![h].fresh = FALSE]
            /\ UNCHANGED queue
       ELSE Returns(h)
    /\ UNCHANGED <<beyond, rows, approved>>

\* Any RPC call may fail: a node is unreachable, the nonce was used meanwhile,
\* estimateGas foresees a revert, the receipt shows one.
RpcFails(h) ==
    /\ handlers[h].pc \in {"preflight", "nonce", "allowance", "send", "visible", "setBudget", "reverted"}
    /\ AttemptFails(h)

\* withTimeout: the race is lost, the transaction is not withdrawn.
TimesOut(h) ==
    /\ handlers[h].pc \in Waits
    /\ AttemptFails(h)

\* getTransactionCount(address, 'pending'); fund looks at the allowance next.
ReadNonce(h) ==
    /\ At(h, "nonce")
    /\ handlers' = [handlers EXCEPT ![h].fresh = TRUE,
          ![h].pc = IF Serves(h, "fund") THEN "allowance" ELSE "send"]
    /\ UNCHANGED <<beyond, rows, pending, approved, queue>>

\* A transaction of h is broadcast.  Its nonce is still unused, and whoever else
\* read the same nonce for this wallet will be refused.
Sends(h, tx, pc) ==
    LET w == WalletOf(handlers[h].kind)
    IN  /\ handlers[h].fresh
        /\ Len(pending[Client]) + Len(pending[Provider]) + Len(pending[Deployer]) < MaxPending
        /\ pending' = [pending EXCEPT ![w] = Append(@, [kind |-> tx, by |-> h,
              job |-> handlers[h].job, hash |-> handlers[h].hash,
              evaluator |-> handlers[h].evaluator])]
        /\ handlers' = [g \in Handlers |->
              IF g = h THEN [handlers[g] EXCEPT !.pc = pc]
              ELSE IF handlers[g].kind # "none" /\ WalletOf(handlers[g].kind) = w
                   THEN [handlers[g] EXCEPT !.fresh = FALSE]
                   ELSE handlers[g]]
        /\ UNCHANGED <<beyond, rows, approved, queue>>

-----------------------------------------------------------------------------
(* POST /v1/jobs *)

\* Bound: creations in flight never outnumber the free identifiers.
CreateRequest(h, evaluator) ==
    /\ Cardinality({g \in Handlers : Serves(g, "create") /\ handlers[g].job = 0})
         + Len(SelectSeq(pending[Client], LAMBDA tx : tx.kind = "create" /\ tx.by = NoHandler))
       < Cardinality({j \in JobIds : chain[j] = Absent})
    /\ Accepts(h, [Request("create", 0, "nonce") EXCEPT !.evaluator = evaluator])

SendCreate(h) ==
    /\ At(h, "send") /\ Serves(h, "create")
    /\ Sends(h, "create", "sent")

\* waitForJobOnChain: some node shows the job.
SeeJob(h) ==
    /\ At(h, "visible")
    /\ \E view \in Views(handlers[h].job) : view # Absent
    /\ Goes(h, "setBudget")
    /\ UNCHANGED <<beyond, rows, pending, approved, queue>>

SendSetBudget(h) ==
    /\ At(h, "setBudget")
    /\ Sends(h, "setBudget", "budgetSent")

\* Only now is the job known to the API: what failed before leaves it on chain alone.
SaveJob(h) ==
    /\ At(h, "confirmed") /\ Serves(h, "create")
    /\ rows' = [rows EXCEPT ![handlers[h].job] =
          [status |-> "Open", evaluator |-> handlers[h].evaluator, deliverable |-> NoHash]]
    /\ Returns(h)
    /\ UNCHANGED <<beyond, pending, approved>>

-----------------------------------------------------------------------------
(* POST /v1/jobs/:id/fund *)

\* Slip: the job is funded without asking whether it is stored.
FundRequestUnknownJob(h, j) ==
    /\ rows[j].status \in {"Open", "NoRow"}
    /\ Accepts(h, Request("fund", j, "preflight"))

FundRequest(h, j) ==
    /\ rows[j].status = "Open"
    /\ Accepts(h, Request("fund", j, "preflight"))

\* The balance was read (await), 202 is answered, the work waits for the wallet.
Enqueue(h) ==
    /\ At(h, "preflight")
    /\ queue' = [queue EXCEPT ![Client] = Append(@, h)]
    /\ Goes(h, "queued")
    /\ UNCHANGED <<beyond, rows, pending, approved>>

\* Slip: the handler does not wait for the previous slot.
DequeueAnyTime(h) ==
    /\ At(h, "queued")
    /\ Goes(h, "nonce")
    /\ UNCHANGED <<beyond, rows, pending, approved, queue>>

\* withWalletQueue, _seedQueue.then: every earlier slot is resolved.
Dequeue(h) ==
    /\ At(h, "queued")
    /\ LET slots == queue[WalletOf(handlers[h].kind)]
       IN  slots # <<>> /\ Head(slots) = h
    /\ Goes(h, "nonce")
    /\ UNCHANGED <<beyond, rows, pending, approved, queue>>

\* The allowance is unlimited once given; a lagging node may not show it yet.
SendApprove(h) ==
    /\ At(h, "allowance")
    /\ Sends(h, "approve", "approving")

SkipApprove(h) ==
    /\ At(h, "allowance")
    /\ approved
    /\ Goes(h, "send")
    /\ UNCHANGED <<beyond, rows, pending, approved, queue>>

SendFund(h) ==
    /\ At(h, "send") /\ Serves(h, "fund")
    /\ approved
    /\ \E view \in Views(handlers[h].job) : view.status = "Open"
    /\ Sends(h, "fund", "sent")

StoreFunded(h) ==
    /\ At(h, "confirmed") /\ Serves(h, "fund")
    /\ rows' = [rows EXCEPT ![handlers[h].job].status = "Funded"]
    /\ Goes(h, "evaluator")
    /\ UNCHANGED <<beyond, pending, approved, queue>>

\* A second await: the drawn evaluator is read from any node, a failure is ignored.
StoreEvaluator(h) ==
    LET j == handlers[h].job
    IN  /\ At(h, "evaluator")
        /\ \/ \E view \in Views(j) :
                /\ view.evaluator # NoAddress
                /\ rows' = [rows EXCEPT ![j].evaluator = view.evaluator]
           \/ UNCHANGED rows
        /\ Returns(h)
        /\ UNCHANGED <<beyond, pending, approved>>

-----------------------------------------------------------------------------
(* POST /v1/jobs/:id/submit, /complete and /reject: no queue *)

SubmitRequest(h, j, hash) ==
    /\ load.managed
    /\ rows[j].status = "Funded"
    /\ Accepts(h, [Request("submit", j, "nonce") EXCEPT !.hash = hash])

\* complete refuses a job whose stored evaluator is another address, address(0)
\* included, and lets an unrecorded one pass; reject leaves that to the contract.
VerdictRequest(h, j, kind) ==
    /\ rows[j].status = "Submitted"
    /\ kind = "complete" => rows[j].evaluator \in {Unrecorded, Deployer}
    /\ Accepts(h, Request(kind, j, "nonce"))

\* estimateGas on a node that may lag: the call would not revert there.
WouldPass(kind, view) ==
    CASE kind = "submit" -> view.status = "Funded"
      [] kind = "complete" -> view.status = "Submitted" /\ view.evaluator = Deployer
      [] kind = "reject" -> view.status \in {"Funded", "Submitted"} /\ view.evaluator = Deployer

SendCall(h) ==
    /\ At(h, "send") /\ handlers[h].kind \in {"submit", "complete", "reject"}
    /\ \E view \in Views(handlers[h].job) : WouldPass(handlers[h].kind, view)
    /\ Sends(h, handlers[h].kind, "sent")

\* Slip: the deliverable is kept from the request, before the receipt is checked.
StoreSubmittedEarly(h) ==
    LET j == handlers[h].job
    IN  /\ handlers[h].pc \in {"confirmed", "reverted"} /\ Serves(h, "submit")
        /\ rows' = [rows EXCEPT ![j].status = IF At(h, "confirmed") THEN "Submitted" ELSE @,
                                ![j].deliverable = handlers[h].hash]
        /\ Returns(h)
        /\ UNCHANGED <<beyond, pending, approved>>

StoreSubmitted(h) ==
    LET j == handlers[h].job
    IN  /\ At(h, "confirmed") /\ Serves(h, "submit")
        /\ rows' = [rows EXCEPT ![j].status = "Submitted", ![j].deliverable = handlers[h].hash]
        /\ Returns(h)
        /\ UNCHANGED <<beyond, pending, approved>>

\* Slip: the verdict is stored when the transaction is sent.
StoreVerdictEarly(h) ==
    /\ handlers[h].pc \in {"sent", "confirmed"} /\ handlers[h].kind \in {"complete", "reject"}
    /\ rows' = [rows EXCEPT ![handlers[h].job].status =
          IF Serves(h, "complete") THEN "Completed" ELSE "Rejected"]
    /\ Returns(h)
    /\ pending' = Detached(h)
    /\ UNCHANGED <<beyond, approved>>

StoreVerdict(h) ==
    /\ At(h, "confirmed") /\ handlers[h].kind \in {"complete", "reject"}
    /\ rows' = [rows EXCEPT ![handlers[h].job].status =
          IF Serves(h, "complete") THEN "Completed" ELSE "Rejected"]
    /\ Returns(h)
    /\ UNCHANGED <<beyond, pending, approved>>

-----------------------------------------------------------------------------
(* GET /v1/jobs/:id reconciles the row *)

GetRequest(r, j) ==
    /\ r \in load.readers /\ readers[r] = NoRow
    /\ rows[j] # NoRow /\ rows[j].status \notin Terminal
    /\ readers' = [readers EXCEPT ![r] = [job |-> j, row |-> rows[j]]]
    /\ UNCHANGED <<chain, replica, rows, handlers, pending, approved, queue, load, restarts, legacy>>

\* Slip: the row is answered as it is stored.
GetAnswersWithoutWriting(r, j) ==
    /\ readers[r] # NoRow /\ readers[r].job = j
    /\ readers' = [readers EXCEPT ![r] = NoRow]
    /\ UNCHANGED <<chain, replica, rows, handlers, pending, approved, queue, load, restarts, legacy>>

\* getJob() answered.  What it says is compared with the row read before the
\* await and written over the row of now.
GetAnswers(r, j) ==
    /\ readers[r] # NoRow /\ readers[r].job = j
    /\ \E view \in Views(j) :
         LET read == readers[r].row
             synced == read.evaluator \in Nobody /\ view.evaluator # NoAddress
         IN  /\ view # Absent
             /\ rows' = [rows EXCEPT
                   ![j].evaluator = IF synced THEN view.evaluator ELSE @,
                   ![j].status = IF view.status # read.status THEN view.status ELSE @]
    /\ readers' = [readers EXCEPT ![r] = NoRow]
    /\ UNCHANGED <<chain, replica, handlers, pending, approved, queue, load, restarts, legacy>>

\* The read failed: the stored row is the answer.
GetFails(r) ==
    /\ readers[r] # NoRow
    /\ readers' = [readers EXCEPT ![r] = NoRow]
    /\ UNCHANGED <<chain, replica, rows, handlers, pending, approved, queue, load, restarts, legacy>>

-----------------------------------------------------------------------------
(* POST /v1/agents and /v1/faucet/usdc, /v1/faucet/vrt *)

\* The agent is saved; the answer waits for its turn to be sent ETH.
AgentRequest(h) ==
    /\ load.newcomers
    /\ handlers[h] = Idle
    /\ handlers' = [handlers EXCEPT ![h] = Request("agent", 0, "queued")]
    /\ queue' = [queue EXCEPT ![Deployer] = Append(@, h)]
    /\ UNCHANGED <<beyond, rows, pending, approved>>

\* sendTransaction, with a nonce read just before; tx.wait(1) has no timeout.
SendSeed(h) ==
    /\ At(h, "send") /\ Serves(h, "agent")
    /\ Sends(h, "seed", "seedSent")

AnswerAgent(h) ==
    /\ At(h, "confirmed") /\ Serves(h, "agent")
    /\ Returns(h)
    /\ UNCHANGED <<beyond, rows, pending, approved>>

\* No queue, although the wallet is the one of the seeds and the verdicts.
FaucetRequest(h) == load.newcomers /\ Accepts(h, Request("faucet", 0, "nonce"))

SendMint(h) ==
    /\ At(h, "send") /\ Serves(h, "faucet")
    /\ Sends(h, "faucet", "sent")

MintConfirmed(h) ==
    /\ At(h, "confirmed") /\ Serves(h, "faucet")
    /\ Returns(h)
    /\ UNCHANGED <<beyond, rows, pending, approved>>

-----------------------------------------------------------------------------
(* The chain, the outside world and restarts *)

\* The slow node shows what it likes of the past, unless no node lags.
NodesSee == IF load.lags THEN UNCHANGED replica ELSE replica' = chain'

Told(tx, pc, j, evaluator) ==
    handlers' = IF tx.by = NoHandler THEN handlers
                ELSE [handlers EXCEPT ![tx.by].pc = pc, ![tx.by].job = j,
                                      ![tx.by].evaluator = evaluator]

\* createJob numbers jobs in order.
IsNextJob(j) == chain[j] = Absent /\ \A i \in JobIds : i < j => chain[i] # Absent

Executes(tx) ==
    \/ /\ tx.kind = "create"
       /\ \E j \in JobIds : /\ IsNextJob(j)
                            /\ ChainCreate(j, tx.evaluator)
                            /\ Told(tx, "visible", j, tx.evaluator)
       /\ UNCHANGED approved
    \/ /\ tx.kind = "approve"
       /\ approved' = TRUE
       /\ Told(tx, "send", tx.job, tx.evaluator)
       /\ UNCHANGED chain
    \/ /\ tx.kind \in {"setBudget", "seed", "faucet"}
       /\ Told(tx, "confirmed", tx.job, tx.evaluator)
       /\ UNCHANGED <<chain, approved>>
    \/ /\ \/ /\ tx.kind = "fund" /\ approved
             /\ \E evaluator \in Addresses : ChainFund(tx.job, evaluator)
          \/ tx.kind = "submit" /\ ChainSubmit(tx.job, tx.hash)
          \/ /\ tx.kind = "complete" /\ chain[tx.job].evaluator = Deployer
             /\ ChainComplete(tx.job)
          \/ /\ tx.kind = "reject" /\ chain[tx.job].evaluator = Deployer
             /\ chain[tx.job].status \in {"Funded", "Submitted"}
             /\ ChainReject(tx.job)
       /\ Told(tx, "confirmed", tx.job, tx.evaluator)
       /\ UNCHANGED approved

\* The oldest transaction of a wallet is mined: it takes effect, or it reverts (a
\* late call, no eligible evaluator, a deadline: more reasons than the chain shows).
Mine(w) ==
    /\ pending[w] # <<>>
    /\ pending' = [pending EXCEPT ![w] = Tail(@)]
    /\ LET tx == Head(pending[w])
       IN  \/ Executes(tx)
           \/ Told(tx, "reverted", tx.job, tx.evaluator) /\ UNCHANGED <<chain, approved>>
    /\ NodesSee
    /\ UNCHANGED <<rows, queue, readers, load, restarts, legacy>>

\* The slow node catches up with job j.
Propagate(j) ==
    /\ replica[j] # chain[j]
    /\ replica' = [replica EXCEPT ![j] = chain[j]]
    /\ UNCHANGED <<chain, rows, handlers, pending, approved, queue, readers, load, restarts, legacy>>

\* A provider with its own key, and evaluators other than the deployer.
OutsideCall(j) ==
    /\ \/ ~load.managed /\ \E hash \in load.hashes : ChainSubmit(j, hash)
       \/ /\ chain[j].evaluator # Deployer
          /\ \/ ChainComplete(j)
             \/ chain[j].status # "Open" /\ ChainReject(j)
    /\ NodesSee
    /\ UNCHANGED <<rows, handlers, pending, approved, queue, readers, load, restarts, legacy>>

\* The process ends and starts again: the database and what was broadcast remain,
\* no handler is resumed.  A jobs.json still there is imported again; its renaming
\* may fail again.
Restart ==
    /\ restarts < load.restarts
    /\ restarts' = restarts + 1
    /\ handlers' = [h \in Handlers |-> Idle]
    /\ queue' = [w \in DOMAIN queue |-> <<>>]
    /\ rows' = Imported(legacy, rows)
    /\ legacy' \in {legacy, NoRows}
    /\ readers' = [r \in Readers |-> NoRow]
    /\ pending' = [w \in Wallets |-> [i \in DOMAIN pending[w] |-> Unwatched(pending[w][i])]]
    /\ UNCHANGED <<chain, replica, approved, load>>

-----------------------------------------------------------------------------
AnyRequest == \E h \in load.handlers :
    \/ AgentRequest(h) \/ FaucetRequest(h)
    \/ \E evaluator \in load.evaluators : CreateRequest(h, evaluator)
    \/ \E j \in JobIds :
         \/ FundRequest(h, j)
         \/ \E hash \in load.hashes : SubmitRequest(h, j, hash)
         \/ \E kind \in {"complete", "reject"} : VerdictRequest(h, j, kind)

HandlerStep(h) ==
    \/ RpcFails(h) \/ TimesOut(h) \/ ReadNonce(h)
    \/ SendCreate(h) \/ SeeJob(h) \/ SendSetBudget(h) \/ SaveJob(h)
    \/ Enqueue(h) \/ Dequeue(h) \/ SendApprove(h) \/ SkipApprove(h) \/ SendFund(h)
    \/ StoreFunded(h) \/ StoreEvaluator(h)
    \/ SendCall(h) \/ StoreSubmitted(h) \/ StoreVerdict(h)
    \/ SendSeed(h) \/ AnswerAgent(h) \/ SendMint(h) \/ MintConfirmed(h)

ReaderStep(r) ==
    \/ \E j \in JobIds : GetRequest(r, j) \/ GetAnswers(r, j)
    \/ GetFails(r)

ChainMoves ==
    \/ \E w \in Wallets : Mine(w)
    \/ \E j \in JobIds : Propagate(j) \/ OutsideCall(j)

Next ==
    \/ AnyRequest
    \/ \E h \in Handlers : HandlerStep(h)
    \/ \E r \in Readers : ReaderStep(r)
    \/ ChainMoves
    \/ Restart

\* The event loop runs every handler on; the slow node is not stuck for ever; a
\* client that polls a job gets an answer from the chain again and again.
Fairness ==
    /\ \A h \in Handlers : WF_handlers(HandlerStep(h))
    /\ \A j \in JobIds :
         /\ WF_replica(Propagate(j))
         /\ SF_readers(\E r \in Readers : GetRequest(r, j))
         /\ SF_readers(\E r \in Readers : GetAnswers(r, j))

Spec == Init /\ [][Next]_vars
FairSpec == Spec /\ Fairness

-----------------------------------------------------------------------------
(* Correctness *)

Rank(status) == CASE status \in {"NoRow", "None"} -> 0 [] status = "Open" -> 1 [] status = "Funded" -> 2
                  [] status = "Submitted" -> 3 [] OTHER -> 4

\* The row of a job never runs ahead of the chain: its status is one the job has
\* reached, a verdict in it is the verdict on chain and an evaluator in it the
\* evaluator on chain, however late answers, retries, timeouts and restarts fall
\* (GET promises that "the on-chain state will be ahead of local storage").
StoredBehindChain == \A j \in JobIds :
    rows[j] # NoRow =>
        /\ Rank(rows[j].status) <= Rank(chain[j].status)
        /\ rows[j].status \in Terminal => rows[j].status = chain[j].status
        /\ rows[j].evaluator \in Nobody \cup {chain[j].evaluator}

\* A stored deliverable is the one whose hash the contract holds, also when two
\* submissions of different content race.
DeliverableOnChain == \A j \in JobIds :
    rows[j].deliverable \in {NoHash, chain[j].deliverable}

\* Money is in escrow only for jobs the API knows and can show to its client; what
\* a failed creation leaves behind on chain is never funded.
FundedHasRow == \A j \in JobIds :
    chain[j].status \notin {"None", "Open"} => rows[j] # NoRow

\* A nonce read in a turn of a queue, to fund a job or to seed an agent, is never
\* used by another turn of that queue before its transaction is sent (SECURITY-006).
QueuedNonceKept == [][\A h \in Handlers, kind \in {"fund", "agent"} :
    (Serves(h, kind) /\ handlers[h].fresh /\ Serves(h, kind)' /\ ~handlers'[h].fresh
       /\ handlers'[h].attempt = handlers[h].attempt)
    => \A g \in Handlers \ {h} :
         ~(Serves(g, kind) /\ handlers'[g].pc \in {"approving", "sent", "seedSent"}
             /\ handlers'[g].pc # handlers[g].pc)]_vars

\* Every request comes to an end, whatever fails, times out or is exhausted on the way:
\* no funding waits for ever behind another one of its wallet, and a new agent gets the
\* answer that alone holds its key.  This needs every seed that was sent to be mined in
\* the end: that wait, unlike the others, has no timeout.
RequestsEnd ==
    (\A h \in Handlers : []<>~At(h, "seedSent")) =>
        \A h \in Handlers : ~At(h, "idle") ~> At(h, "idle")

\* A restart takes no row back: importing the old file again, when its renaming has
\* failed, leaves what the handlers and the reconciliation stored since.
RestartKeepsRows == [][restarts' # restarts =>
    \A j \in JobIds : rows[j] # NoRow => rows'[j] = rows[j]]_vars

\* When somebody polls a job, what is stored of it catches up with the chain for good,
\* whatever was lost by timeouts and restarts or written over by late answers: its
\* status, and its evaluator while it is not settled.
StoredCatchesUp == load.readers # {} => \A j \in JobIds :
    <>[](rows[j] = NoRow \/ /\ rows[j].status = chain[j].status
                            /\ chain[j].status \in {"Funded", "Submitted"} =>
                                  rows[j].evaluator = chain[j].evaluator)

=============================================================================
