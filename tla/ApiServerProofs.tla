---------------------------- MODULE ApiServerProofs ----------------------------
(***************************************************************************)
(* The REST API for every number of handlers, readers, jobs, transactions, *)
(* retries and restarts: what is stored never runs ahead of the chain, no  *)
(* money is in escrow for a job that the API does not know, a restart      *)
(* takes no row back, and the turns of a queue keep their nonces.          *)
(*                                                                         *)
(* HandlerMove says what a step of one handler may do to the handlers, the *)
(* rows, the transactions and the queues.  Every action of a handler is    *)
(* shown to be such a move, and the invariant is proved for moves.         *)
(***************************************************************************)
EXTENDS ApiServer, SequenceTheorems, TLAPS

\* `new` is what `old` may have become: the status advanced, a verdict, an evaluator
\* and a deliverable stayed.
Behind(old, new) ==
    /\ Rank(old.status) <= Rank(new.status)
    /\ old.status \in Terminal => new.status = old.status
    /\ old.evaluator \in Nobody \cup {new.evaluator}
    /\ old.deliverable \in {NoHash, new.deliverable}

\* Requests that name a stored job, and those that wait in a queue.
JobKinds == {"fund", "submit", "complete", "reject"}
Queued == {"fund", "agent"}

\* Where a handler waits for a transaction it sent.
Sent == {"approving", "budgetSent", "seedSent", "sent"}

-----------------------------------------------------------------------------
(* The inductive invariant *)

\* Both views of a job, and the slow one is not ahead.
ChainInv == \A j \in JobIds :
    /\ chain[j].status = "None" => chain[j] = Absent
    /\ chain[j].status \in {"Open", "Funded"} => chain[j].deliverable = NoHash
    /\ replica[j].status = "None" => replica[j] = Absent
    /\ Behind(replica[j], chain[j])

RowsInv == \A j \in JobIds : rows[j] = NoRow \/ Behind(rows[j], chain[j])

\* Whatever is about a job past its creation is about one with a row.
KnownInv ==
    /\ \A j \in JobIds : chain[j].status \notin {"None", "Open"} => rows[j] # NoRow
    /\ \A j \in JobIds : legacy[j] # NoRow => rows[j] # NoRow
    /\ \A r \in Readers : readers[r] # NoRow => rows[readers[r].job] # NoRow
    /\ \A h \in Handlers : handlers[h].kind \in JobKinds =>
          handlers[h].job \in JobIds /\ rows[handlers[h].job] # NoRow
    /\ \A w \in Wallets : \A i \in 1 .. Len(pending[w]) :
          pending[w][i].kind \in JobKinds =>
             pending[w][i].job \in JobIds /\ rows[pending[w][i].job] # NoRow

\* What handler hd knows of its job once its transaction is mined.
Learned(hd) ==
    [status |-> CASE hd.kind = "create" -> "Open"
                  [] hd.kind = "fund" -> "Funded"
                  [] hd.kind = "submit" -> "Submitted"
                  [] hd.kind = "complete" -> "Completed"
                  [] OTHER -> "Rejected",
     evaluator |-> IF hd.kind = "create" THEN hd.evaluator ELSE NoAddress,
     deliverable |-> IF hd.kind = "submit" THEN hd.hash ELSE NoHash]

Knows(hd) ==
    \/ hd.kind = "create" /\ hd.job # 0
    \/ hd.kind \in JobKinds /\ hd.pc \in {"confirmed", "evaluator"}

LearnedInv == \A h \in Handlers :
    Knows(handlers[h]) => /\ handlers[h].job \in JobIds
                          /\ Behind(Learned(handlers[h]), chain[handlers[h].job])

\* Which requests come to which places.
PlaceOfKind(hd) ==
    /\ hd.pc \in {"preflight", "allowance", "evaluator"} => hd.kind = "fund"
    /\ hd.pc \in {"visible", "setBudget"} => hd.kind = "create"

PlacesInv == \A h \in Handlers : PlaceOfKind(handlers[h])

\* Handler hd waits for transaction tx.
Awaits(hd, tx) ==
    /\ hd.job = tx.job /\ hd.hash = tx.hash /\ hd.evaluator = tx.evaluator
    /\ \/ hd.pc = "approving" /\ tx.kind = "approve" /\ hd.kind = "fund"
       \/ hd.pc = "budgetSent" /\ tx.kind = "setBudget" /\ hd.kind = "create"
       \/ hd.pc = "seedSent" /\ tx.kind = "seed" /\ hd.kind = "agent"
       \/ hd.pc = "sent" /\ tx.kind = hd.kind

\* A transaction somebody waits for is the only one that handler waits for.
TxInv == \A w \in Wallets :
    /\ \A i \in 1 .. Len(pending[w]) : pending[w][i].by # NoHandler =>
          /\ w = WalletOf(handlers[pending[w][i].by].kind)
          /\ Awaits(handlers[pending[w][i].by], pending[w][i])
    /\ \A i, k \in 1 .. Len(pending[w]) :
          pending[w][i].by = pending[w][k].by /\ i # k => pending[w][i].by = NoHandler

\* A handler whose turn has come is the first of its queue until it returns.
HasTurn(hd) == hd.kind \in Queued /\ hd.pc \notin {"preflight", "queued"}

SlotInv ==
    /\ \A h \in Handlers : HasTurn(handlers[h]) =>
          LET q == queue[WalletOf(handlers[h].kind)] IN q # <<>> /\ Head(q) = h
    /\ \A h \in Handlers :
          handlers[h].fresh => handlers[h].pc \notin {"preflight", "queued"}
    /\ \A w \in {Client, Deployer} :
          /\ \A i \in 1 .. Len(queue[w]) :
                /\ handlers[queue[w][i]].kind \in Queued
                /\ WalletOf(handlers[queue[w][i]].kind) = w
                /\ handlers[queue[w][i]].pc # "preflight"
          /\ \A i, k \in 1 .. Len(queue[w]) : queue[w][i] = queue[w][k] => i = k

ApiInv ==
    /\ TypeOK /\ ChainInv /\ RowsInv /\ KnownInv /\ LearnedInv /\ PlacesInv
    /\ TxInv /\ SlotInv

-----------------------------------------------------------------------------
(* What a job may have become *)

LEMMA RankOrders == \A status : Rank(status) \in 0 .. 4
BY DEF Rank

LEMMA BehindSelf ==
    ASSUME NEW job
    PROVE  Behind(job, job)
BY RankOrders DEF Behind

LEMMA BehindTransitive ==
    ASSUME NEW a, NEW b, NEW c, Behind(a, b), Behind(b, c)
    PROVE  Behind(a, c)
<1>1. Rank(a.status) <= Rank(c.status)
    <2>1. Rank(a.status) <= Rank(b.status) /\ Rank(b.status) <= Rank(c.status)
        BY DEF Behind
    <2>2. Rank(a.status) \in Int /\ Rank(b.status) \in Int /\ Rank(c.status) \in Int
        BY RankOrders
    <2> QED BY <2>1, <2>2
<1> QED BY <1>1 DEF Behind

\* A job that was never created is behind everything.
LEMMA AbsentBehind ==
    ASSUME NEW job
    PROVE  Behind(Absent, job)
<1>1. Rank("None") = 0 /\ Rank(job.status) \in 0 .. 4 /\ "None" \notin Terminal
    BY RankOrders DEF Rank, Terminal
<1> QED BY <1>1 DEF Behind, Absent, Nobody

\* Which calls move a job on.
LEMMA MovesOn ==
    ASSUME NEW a \in JobOnChain, NEW b \in JobOnChain,
           \/ a = Absent
           \/ /\ a.status = "Open" /\ b.status = "Funded"
              /\ a.evaluator \in {NoAddress, b.evaluator} /\ b.deliverable = a.deliverable
           \/ /\ a.status = "Funded" /\ a.deliverable = NoHash /\ b.status = "Submitted"
              /\ a.evaluator = b.evaluator
           \/ /\ a.status \in {"Open", "Funded", "Submitted"} /\ b.status \in Terminal
              /\ a.evaluator = b.evaluator /\ a.deliverable = b.deliverable
    PROVE  Behind(a, b)
<1>1. CASE a = Absent
    BY <1>1, AbsentBehind
<1>2. CASE a # Absent
    <2>1. /\ Rank("Open") = 1 /\ Rank("Funded") = 2 /\ Rank("Submitted") = 3
          /\ \A t \in Terminal : Rank(t) = 4
        BY DEF Rank, Terminal
    <2>2. Rank(a.status) <= Rank(b.status)
        BY <1>2, <2>1
    <2>3. a.status \notin Terminal
        BY <1>2 DEF Terminal
    <2> QED BY <1>2, <2>2, <2>3 DEF Behind, Nobody
<1> QED BY <1>1, <1>2

-----------------------------------------------------------------------------
(* Transactions and queues *)

LEMMA UnwatchedForm ==
    ASSUME NEW t \in Tx
    PROVE  /\ Unwatched(t) \in Tx /\ Unwatched(t).kind = t.kind /\ Unwatched(t).job = t.job
           /\ Unwatched(t).hash = t.hash /\ Unwatched(t).evaluator = t.evaluator
           /\ Unwatched(t).by = NoHandler
BY DEF Tx, Unwatched

\* The transactions of one wallet go on, those of the handlers `lost` for nobody.
Freed(lost, w) ==
    /\ pending'[w] \in Seq(Tx) /\ Len(pending'[w]) = Len(pending[w])
    /\ \A i \in 1 .. Len(pending[w]) :
          pending'[w][i] = IF pending[w][i].by \in lost THEN Unwatched(pending[w][i])
                           ELSE pending[w][i]

\* Freeing changes nothing but who waits.
LEMMA FreedKeeps ==
    ASSUME TypeOK, NEW lost, NEW w \in Wallets, Freed(lost, w), NEW i \in 1 .. Len(pending[w])
    PROVE  /\ pending'[w][i].kind = pending[w][i].kind
           /\ pending'[w][i].job = pending[w][i].job
           /\ pending'[w][i].hash = pending[w][i].hash
           /\ pending'[w][i].evaluator = pending[w][i].evaluator
           /\ pending'[w][i].by =
                 IF pending[w][i].by \in lost THEN NoHandler ELSE pending[w][i].by
<1>1. pending[w][i] \in Tx
    BY ElementOfSeq DEF TypeOK
<1> QED BY <1>1, UnwatchedForm DEF Freed

LEMMA Frees ==
    ASSUME NEW lost, TypeOK, NEW w \in Wallets,
           pending'[w] = [i \in DOMAIN pending[w] |->
              IF pending[w][i].by \in lost THEN Unwatched(pending[w][i]) ELSE pending[w][i]]
    PROVE  Freed(lost, w)
<1>1. Len(pending[w]) \in Nat /\ DOMAIN pending[w] = 1 .. Len(pending[w])
    BY LenProperties DEF TypeOK
<1>2. \A i \in 1 .. Len(pending[w]) : pending[w][i] \in Tx
    BY ElementOfSeq DEF TypeOK
<1>3. pending'[w] \in [1 .. Len(pending[w]) -> Tx]
    BY <1>1, <1>2, UnwatchedForm
<1>4. pending'[w] \in Seq(Tx)
    BY <1>1, <1>3, SeqDef
<1>5. Len(pending'[w]) = Len(pending[w])
    BY <1>1, <1>3, <1>4, LenProperties
<1> QED BY <1>1, <1>4, <1>5 DEF Freed

LEMMA DetachedForm ==
    ASSUME TypeOK, NEW h \in Handlers, pending' = Detached(h)
    PROVE  pending' \in [Wallets -> Seq(Tx)] /\ \A w \in Wallets : Freed({h}, w)
<1>1. ASSUME NEW w \in Wallets
      PROVE  Freed({h}, w)
    <2>1. pending'[w] = [i \in DOMAIN pending[w] |->
            IF pending[w][i].by \in {h} THEN Unwatched(pending[w][i]) ELSE pending[w][i]]
        BY DEF Detached
    <2> QED BY <2>1, Frees
<1>2. pending' = [w \in Wallets |-> pending'[w]]
    BY Zenon DEF Detached
<1>3. \A w \in Wallets : pending'[w] \in Seq(Tx)
    BY <1>1 DEF Freed
<1> QED BY <1>1, <1>2, <1>3, Zenon

-----------------------------------------------------------------------------
(* What a step of one handler may do *)

SameCall(h) ==
    /\ handlers'[h].kind = handlers[h].kind
    /\ handlers'[h].job = handlers[h].job
    /\ handlers'[h].hash = handlers[h].hash
    /\ handlers'[h].evaluator = handlers[h].evaluator

\* Another handler of the same wallet uses the nonce.
Outrun(h) ==
    /\ handlers[h].kind # "none"
    /\ SameCall(h)
    /\ handlers'[h].pc = handlers[h].pc
    /\ handlers'[h].attempt = handlers[h].attempt
    /\ handlers'[h].fresh = FALSE

Rests(h) == handlers'[h] = handlers[h] \/ Outrun(h)

Starts(h) ==
    /\ handlers[h] = Idle
    /\ handlers'[h].kind # "none" /\ handlers'[h].attempt # 0 /\ ~handlers'[h].fresh
    /\ handlers'[h].pc \in {"nonce", "preflight", "queued"}
    /\ handlers'[h].kind = "create" => handlers'[h].job = 0
    /\ handlers'[h].kind \in JobKinds =>
          handlers'[h].job \in JobIds /\ rows[handlers'[h].job] # NoRow

Proceeds(h) ==
    /\ handlers[h].kind # "none"
    /\ SameCall(h)
    /\ handlers'[h].attempt # 0
    /\ handlers'[h].pc \notin {"idle", "preflight", "visible"}
    /\ handlers'[h].pc \in {"confirmed", "evaluator"} => handlers[h].pc \in {"confirmed", "evaluator"}
    /\ handlers'[h].pc = "queued" => ~handlers'[h].fresh
    /\ handlers'[h].pc \in Sent => handlers[h].pc \notin {"preflight", "queued"}

Ends(h) == handlers'[h] = Idle

\* A row is left alone or gets what the chain has shown.
Stores ==
    /\ rows' \in [JobIds -> Row \cup {NoRow}]
    /\ \A j \in JobIds :
          rows'[j] = rows[j] \/ (rows'[j] # NoRow /\ Behind(rows'[j], chain[j]))

Transmits(h, tx) ==
    LET w == WalletOf(handlers[h].kind)
    IN  /\ handlers[h].pc \notin Sent
        /\ Proceeds(h)
        /\ tx \in Tx /\ tx.by = h
        /\ Awaits(handlers'[h], tx)
        /\ pending' = [pending EXCEPT ![w] = Append(@, tx)]

TxMove(h) ==
    \/ handlers[h].pc \notin Sent /\ pending' = pending
    \/ pending' = Detached(h)
    \/ \E tx : Transmits(h, tx)

\* A handler may go on in its turn, or at the head of its queue.
StaysInLine(h) ==
    /\ queue' = queue
    /\ \/ Starts(h) /\ (handlers'[h].kind \notin Queued \/ handlers'[h].pc = "preflight")
       \/ Proceeds(h)
    /\ HasTurn(handlers'[h]) =>
          \/ HasTurn(handlers[h])
          \/ LET q == queue[WalletOf(handlers[h].kind)] IN q # <<>> /\ Head(q) = h

Joins(h, w) ==
    /\ Starts(h) \/ (Proceeds(h) /\ handlers[h].pc = "preflight")
    /\ w \in {Client, Deployer}
    /\ handlers'[h].kind \in Queued /\ WalletOf(handlers'[h].kind) = w
    /\ handlers'[h].pc = "queued"
    /\ queue' = [queue EXCEPT ![w] = Append(@, h)]

Leaves(h) ==
    /\ Ends(h) /\ handlers[h].pc # "queued"
    /\ queue' = [w \in DOMAIN queue |->
          IF queue[w] # <<>> /\ Head(queue[w]) = h THEN Tail(queue[w]) ELSE queue[w]]

QueueMove(h) ==
    \/ StaysInLine(h)
    \/ \E w \in {Client, Deployer} : Joins(h, w)
    \/ Leaves(h)

HandlerMove(h) ==
    /\ UNCHANGED <<beyond, approved>>
    /\ handlers' \in [Handlers -> Handler]
    /\ \A g \in Handlers \ {h} : Rests(g)
    /\ Starts(h) \/ Proceeds(h) \/ Ends(h)
    /\ PlaceOfKind(handlers'[h])
    /\ Stores
    /\ TxMove(h)
    /\ QueueMove(h)

-----------------------------------------------------------------------------
(* Moves keep the invariant *)

LEMMA WalletsOfKinds ==
    /\ \A kind : WalletOf(kind) \in Wallets
    /\ \A kind \in Queued : WalletOf(kind) \in {Client, Deployer}
    /\ {Client, Deployer} \subseteq Wallets
BY DEF WalletOf, Wallets, Queued

LEMMA IdleTyped == Idle \in Handler /\ ~Idle.fresh /\ Idle.kind = "none" /\ Idle.pc = "idle"
BY ApiAssumption DEF Idle, Handler

LEMMA MoveTypes ==
    ASSUME ApiInv, NEW h \in Handlers, HandlerMove(h)
    PROVE  TypeOK'
<1>1. TypeOK
    BY DEF ApiInv
<1>2. /\ (ChainTypeOK /\ replica \in [JobIds -> JobOnChain])'
      /\ (approved \in BOOLEAN /\ load \in Loads)'
      /\ (readers \in [Readers -> {NoRow} \cup [job: JobIds, row: Row]])'
      /\ (restarts \in 0 .. load.restarts)'
      /\ (legacy \in [JobIds -> Row \cup {NoRow}])'
    BY <1>1 DEF HandlerMove, TypeOK, ChainTypeOK, beyond
<1>3. rows' \in [JobIds -> Row \cup {NoRow}] /\ handlers' \in [Handlers -> Handler]
    BY DEF HandlerMove, Stores
<1>4. ASSUME NEW g \in Handlers
      PROVE  \/ handlers'[g] = Idle
             \/ /\ handlers'[g].kind # "none" /\ handlers'[g].pc # "idle"
                /\ handlers'[g].attempt # 0
    <2>1. CASE g = h
        <3>1. Starts(h) \/ Proceeds(h) \/ Ends(h)
            BY DEF HandlerMove
        <3> QED BY <2>1, <3>1, Zenon DEF Starts, Proceeds, Ends, SameCall
    <2>2. CASE g # h
        <3>1. Rests(g)
            BY <2>2 DEF HandlerMove
        <3>2. \/ handlers[g] = Idle
              \/ /\ handlers[g].kind # "none" /\ handlers[g].pc # "idle"
                 /\ handlers[g].attempt # 0
            BY <1>1 DEF TypeOK
        <3>3. Idle.kind = "none"
            BY IdleTyped
        <3> QED BY <3>1, <3>2, <3>3, Zenon DEF Rests, Outrun, SameCall
    <2> QED BY <2>1, <2>2
<1>5. pending' \in [Wallets -> Seq(Tx)]
    <2>1. pending \in [Wallets -> Seq(Tx)] /\ TxMove(h)
        BY <1>1 DEF TypeOK, HandlerMove
    <2>2. CASE pending' = pending
        BY <2>1, <2>2
    <2>3. CASE pending' = Detached(h)
        BY <1>1, <2>3, DetachedForm
    <2>4. ASSUME NEW tx, Transmits(h, tx)
          PROVE  pending' \in [Wallets -> Seq(Tx)]
        <3> DEFINE w == WalletOf(handlers[h].kind)
        <3>1. w \in Wallets /\ pending[w] \in Seq(Tx) /\ tx \in Tx
            BY <2>1, <2>4, WalletsOfKinds DEF Transmits
        <3>2. Append(pending[w], tx) \in Seq(Tx)
            BY <3>1, AppendProperties
        <3>3. pending' = [pending EXCEPT ![w] = Append(@, tx)]
            BY <2>4 DEF Transmits
        <3> HIDE DEF w
        <3> QED BY <2>1, <3>1, <3>2, <3>3
    <2> QED BY <2>1, <2>2, <2>3, <2>4 DEF TxMove
<1>6. queue' \in [{Client, Deployer} -> Seq(Handlers)]
    <2>1. queue \in [{Client, Deployer} -> Seq(Handlers)] /\ QueueMove(h)
        BY <1>1 DEF TypeOK, HandlerMove
    <2>2. CASE queue' = queue
        BY <2>1, <2>2
    <2>3. ASSUME NEW w \in {Client, Deployer}, Joins(h, w)
          PROVE  queue' \in [{Client, Deployer} -> Seq(Handlers)]
        BY <2>1, <2>3 DEF Joins
    <2>4. CASE Leaves(h)
        BY <2>1, <2>4 DEF Leaves
    <2> QED BY <2>1, <2>2, <2>3, <2>4 DEF QueueMove, StaysInLine
<1> QED BY <1>2, <1>3, <1>4, <1>5, <1>6 DEF TypeOK

\* A transaction after the move was there before, and h does not wait for it, or h has
\* just sent it.
WasThere(h, w, i) ==
    /\ i \in 1 .. Len(pending[w])
    /\ pending'[w][i].kind = pending[w][i].kind
    /\ pending'[w][i].job = pending[w][i].job
    /\ pending'[w][i].hash = pending[w][i].hash
    /\ pending'[w][i].evaluator = pending[w][i].evaluator
    /\ pending'[w][i].by \in {pending[w][i].by, NoHandler} \ {h}

JustSent(h, w, i) ==
    /\ i = Len(pending[w]) + 1
    /\ w = WalletOf(handlers[h].kind)
    /\ Transmits(h, pending'[w][i])

LEMMA TxEntries ==
    ASSUME ApiInv, NEW h \in Handlers, HandlerMove(h),
           NEW w \in Wallets, NEW i \in 1 .. Len(pending'[w])
    PROVE  WasThere(h, w, i) \/ JustSent(h, w, i)
<1>1. TypeOK /\ TxInv /\ TxMove(h) /\ h # NoHandler
    BY ApiAssumption DEF ApiInv, HandlerMove
<1>2. pending[w] \in Seq(Tx) /\ Len(pending[w]) \in Nat
    BY <1>1, LenProperties DEF TypeOK
<1>3. ASSUME handlers[h].pc \notin Sent, NEW k \in 1 .. Len(pending[w])
      PROVE  pending[w][k].by # h
    BY <1>1, <1>3 DEF TxInv, Awaits, Sent
<1>4. CASE handlers[h].pc \notin Sent /\ pending' = pending
    BY <1>3, <1>4 DEF WasThere
<1>5. CASE pending' = Detached(h)
    <2>1. Freed({h}, w) /\ Len(pending'[w]) = Len(pending[w])
        BY <1>1, <1>5, DetachedForm DEF Freed
    <2>2. i \in 1 .. Len(pending[w])
        BY <2>1
    <2> QED BY <1>1, <2>1, <2>2, FreedKeeps DEF WasThere
<1>6. ASSUME NEW tx, Transmits(h, tx)
      PROVE  WasThere(h, w, i) \/ JustSent(h, w, i)
    <2> DEFINE v == WalletOf(handlers[h].kind)
    <2>1. pending \in [Wallets -> Seq(Tx)] /\ v \in Wallets /\ tx \in Tx
        BY <1>1, <1>6, WalletsOfKinds DEF TypeOK, Transmits
    <2>2. pending' = [pending EXCEPT ![v] = Append(@, tx)]
        BY <1>6 DEF Transmits
    <2>3. CASE w = v
        <3>1. pending'[w] = Append(pending[w], tx)
            BY <2>1, <2>2, <2>3
        <3>2. /\ Len(pending'[w]) = Len(pending[w]) + 1
              /\ \A k \in 1 .. Len(pending[w]) : pending'[w][k] = pending[w][k]
              /\ pending'[w][Len(pending[w]) + 1] = tx
            BY <1>2, <2>1, <3>1, AppendProperties
        <3>3. CASE i \in 1 .. Len(pending[w])
            <4>1. pending[w][i].by # h
                BY <1>3, <1>6, <3>3 DEF Transmits
            <4> QED BY <3>2, <3>3, <4>1 DEF WasThere
        <3>4. CASE i = Len(pending[w]) + 1
            BY <1>6, <2>3, <3>2, <3>4 DEF JustSent
        <3> QED BY <1>2, <3>2, <3>3, <3>4
    <2>4. CASE w # v
        <3> HIDE DEF v
        <3>1. pending'[w] = pending[w]
            BY <2>1, <2>2, <2>4
        <3>2. pending[w][i].by # h
            BY <1>3, <1>6, <3>1 DEF Transmits
        <3> QED BY <3>1, <3>2 DEF WasThere
    <2> QED BY <2>3, <2>4
<1> QED BY <1>1, <1>4, <1>5, <1>6 DEF TxMove

LEMMA MoveTransactions ==
    ASSUME ApiInv, NEW h \in Handlers, HandlerMove(h)
    PROVE  TxInv'
<1>1. TypeOK /\ TxInv /\ h # NoHandler
    BY ApiAssumption DEF ApiInv
<1>2. ASSUME NEW w \in Wallets, NEW i \in 1 .. Len(pending'[w]),
             pending'[w][i].by # NoHandler
      PROVE  /\ w = WalletOf(handlers'[pending'[w][i].by].kind)
             /\ Awaits(handlers'[pending'[w][i].by], pending'[w][i])
    <2> DEFINE g == pending'[w][i].by
    <2>1. CASE WasThere(h, w, i)
        <3>1. i \in 1 .. Len(pending[w]) /\ pending[w][i].by = g /\ g # h
            BY <1>2, <2>1 DEF WasThere
        <3>2. pending[w][i] \in Tx
            BY <1>1, <3>1, ElementOfSeq DEF TypeOK
        <3>3. g \in Handlers \ {h}
            BY <1>2, <3>1, <3>2 DEF Tx
        <3>4. w = WalletOf(handlers[g].kind) /\ Awaits(handlers[g], pending[w][i])
            BY <1>1, <1>2, <3>1 DEF TxInv
        <3>5. SameCall(g) /\ handlers'[g].pc = handlers[g].pc
            BY <3>3 DEF HandlerMove, Rests, Outrun, SameCall
        <3> HIDE DEF g
        <3>6. Awaits(handlers'[g], pending'[w][i])
            BY <2>1, <3>4, <3>5 DEF Awaits, WasThere, SameCall
        <3> QED BY <3>4, <3>5, <3>6 DEF g, SameCall
    <2>2. CASE JustSent(h, w, i)
        BY <2>2 DEF JustSent, Transmits, Proceeds, SameCall
    <2> QED BY <2>1, <2>2, TxEntries
<1>3. ASSUME NEW w \in Wallets, NEW i \in 1 .. Len(pending'[w]), NEW k \in 1 .. Len(pending'[w]),
             pending'[w][i].by = pending'[w][k].by, i # k, pending'[w][i].by # NoHandler
      PROVE  FALSE
    <2>1. WasThere(h, w, i) \/ JustSent(h, w, i)
        BY TxEntries
    <2>2. WasThere(h, w, k) \/ JustSent(h, w, k)
        BY TxEntries
    <2>3. JustSent(h, w, i) => pending'[w][i].by = h
        BY DEF JustSent, Transmits
    <2>4. JustSent(h, w, k) => pending'[w][k].by = h
        BY DEF JustSent, Transmits
    <2>5. CASE WasThere(h, w, i) /\ WasThere(h, w, k)
        BY <1>1, <1>3, <2>5 DEF WasThere, TxInv
    <2>6. CASE JustSent(h, w, i) /\ JustSent(h, w, k)
        BY <1>3, <2>6 DEF JustSent
    <2> QED BY <1>3, <2>1, <2>2, <2>3, <2>4, <2>5, <2>6 DEF WasThere
<1> QED BY <1>2, <1>3, Zenon DEF TxInv

LEMMA MoveKnowledge ==
    ASSUME ApiInv, NEW h \in Handlers, HandlerMove(h)
    PROVE  ChainInv' /\ RowsInv' /\ KnownInv' /\ LearnedInv' /\ PlacesInv'
<1>1. /\ TypeOK /\ ChainInv /\ RowsInv /\ KnownInv /\ LearnedInv /\ PlacesInv
      /\ chain' = chain /\ replica' = replica /\ legacy' = legacy /\ readers' = readers
      /\ Stores
    BY DEF ApiInv, HandlerMove, beyond
<1>2. ChainInv'
    BY <1>1, Zenon DEF ChainInv
<1>3. RowsInv'
    BY <1>1, Zenon DEF RowsInv, Stores
<1>4. \A j \in JobIds : rows[j] # NoRow => rows'[j] # NoRow
    BY <1>1, Zenon DEF Stores
<1>5. ASSUME NEW g \in Handlers
      PROVE  /\ handlers'[g].kind \in JobKinds =>
                   handlers'[g].job \in JobIds /\ rows[handlers'[g].job] # NoRow
             /\ PlaceOfKind(handlers'[g])
             /\ Knows(handlers'[g]) =>
                   /\ handlers'[g].job \in JobIds
                   /\ Behind(Learned(handlers'[g]), chain[handlers'[g].job])
    <2>1. /\ handlers[g].kind \in JobKinds =>
                handlers[g].job \in JobIds /\ rows[handlers[g].job] # NoRow
          /\ PlaceOfKind(handlers[g])
          /\ Knows(handlers[g]) => /\ handlers[g].job \in JobIds
                                   /\ Behind(Learned(handlers[g]), chain[handlers[g].job])
        BY <1>1 DEF KnownInv, PlacesInv, LearnedInv
    <2>2. CASE SameCall(g)
               /\ (handlers'[g].pc \in {"confirmed", "evaluator"} =>
                     handlers[g].pc \in {"confirmed", "evaluator"})
        <3>1. Learned(handlers'[g]) = Learned(handlers[g])
            BY <2>2 DEF Learned, SameCall
        <3>2. Knows(handlers'[g]) => Knows(handlers[g])
            BY <2>2 DEF Knows, SameCall
        <3>3. PlaceOfKind(handlers'[g])
            BY <2>1, <2>2 DEF PlaceOfKind, HandlerMove, Rests, Outrun, SameCall
        <3> QED BY <2>1, <2>2, <3>1, <3>2, <3>3 DEF SameCall
    <2>3. CASE g = h /\ Starts(h)
        BY <2>3 DEF Starts, HandlerMove, Knows
    <2>4. CASE g = h /\ Ends(h)
        BY <2>4 DEF Ends, HandlerMove, Knows, Idle, JobKinds
    <2> QED BY <2>1, <2>2, <2>3, <2>4
            DEF HandlerMove, Rests, Outrun, Proceeds, SameCall
<1>6. KnownInv'
    <2>1. ASSUME NEW w \in Wallets, NEW i \in 1 .. Len(pending'[w]),
                 pending'[w][i].kind \in JobKinds
          PROVE  pending'[w][i].job \in JobIds /\ rows[pending'[w][i].job] # NoRow
        <3>1. CASE WasThere(h, w, i)
            BY <1>1, <2>1, <3>1 DEF KnownInv, WasThere
        <3>2. CASE JustSent(h, w, i)
            <4>1. Awaits(handlers'[h], pending'[w][i])
                BY <3>2 DEF JustSent, Transmits
            <4>2. handlers'[h].job = pending'[w][i].job /\ handlers'[h].kind \in JobKinds
                BY <2>1, <4>1 DEF Awaits, JobKinds
            <4> QED BY <1>5, <4>2
        <3> QED BY <3>1, <3>2, TxEntries
    <2>2. \A j \in JobIds : chain[j].status \notin {"None", "Open"} => rows'[j] # NoRow
        BY <1>1, <1>4 DEF KnownInv
    <2>3. \A j \in JobIds : legacy[j] # NoRow => rows'[j] # NoRow
        BY <1>1, <1>4 DEF KnownInv
    <2>4. \A r \in Readers : readers[r] # NoRow => rows'[readers[r].job] # NoRow
        BY <1>1, <1>4 DEF KnownInv, TypeOK
    <2> QED BY <1>1, <1>4, <1>5, <2>1, <2>2, <2>3, <2>4, Zenon DEF KnownInv
<1>7. LearnedInv' /\ PlacesInv'
    BY <1>1, <1>5, Zenon DEF LearnedInv, PlacesInv
<1> QED BY <1>2, <1>3, <1>6, <1>7

LEMMA HeadIsFirst ==
    ASSUME NEW S, NEW s \in Seq(S)
    PROVE  /\ s # <<>> <=> Len(s) > 0
           /\ s # <<>> => /\ Head(s) = s[1] /\ 1 \in 1 .. Len(s) /\ Tail(s) \in Seq(S)
                          /\ Len(Tail(s)) = Len(s) - 1
                          /\ \A i \in 1 .. Len(s) - 1 : Tail(s)[i] = s[i + 1]
<1>1. Len(s) \in Nat /\ (s = <<>> <=> Len(s) = 0)
    BY EmptySeq, LenProperties
<1>2. CASE s # <<>>
    <2>1. Tail(s) \in Seq(S) /\ Len(Tail(s)) = Len(s) - 1 /\ Head(s) = s[1]
        BY <1>1, <1>2, HeadTailProperties
    <2>2. \A i \in 1 .. Len(Tail(s)) : Tail(s)[i] = s[i + 1]
        BY <1>1, <1>2
    <2> QED BY <1>1, <1>2, <2>1, <2>2
<1> QED BY <1>1, <1>2

LEMMA MoveSlots ==
    ASSUME ApiInv, NEW h \in Handlers, HandlerMove(h)
    PROVE  SlotInv'
<1> DEFINE Lines == {Client, Deployer}
<1>1. /\ TypeOK /\ SlotInv /\ QueueMove(h)
      /\ \A w \in Lines : queue[w] \in Seq(Handlers) /\ Len(queue[w]) \in Nat
      /\ DOMAIN queue = Lines
    BY LenProperties DEF ApiInv, HandlerMove, TypeOK
<1>2. ASSUME NEW g \in Handlers, g # h
      PROVE  /\ SameCall(g) /\ handlers'[g].pc = handlers[g].pc
             /\ handlers'[g].fresh => handlers[g].fresh
             /\ HasTurn(handlers'[g]) => HasTurn(handlers[g])
    <2>1. Rests(g)
        BY <1>2 DEF HandlerMove
    <2>2. /\ SameCall(g) /\ handlers'[g].pc = handlers[g].pc
          /\ handlers'[g].fresh => handlers[g].fresh
        BY <2>1 DEF Rests, Outrun, SameCall
    <2> QED BY <2>2 DEF HasTurn, SameCall
<1>3. ASSUME NEW g \in Handlers, handlers'[g].fresh
      PROVE  handlers'[g].pc \notin {"preflight", "queued"}
    <2>1. CASE g # h
        BY <1>1, <1>2, <1>3, <2>1 DEF SlotInv
    <2>2. CASE g = h
        BY <1>3, <2>2, IdleTyped DEF HandlerMove, Starts, Proceeds, Ends
    <2> QED BY <2>1, <2>2
<1>4. \A w \in Lines : \A i \in 1 .. Len(queue[w]) : queue[w][i] \in Handlers
    BY <1>1, ElementOfSeq
<1>5. \A g \in Handlers : HasTurn(handlers[g]) =>
          /\ WalletOf(handlers[g].kind) \in Lines
          /\ queue[WalletOf(handlers[g].kind)] # <<>>
          /\ Head(queue[WalletOf(handlers[g].kind)]) = g
    BY <1>1, WalletsOfKinds DEF SlotInv, HasTurn
<1> HIDE DEF Lines
<1>6. CASE StaysInLine(h)
    <2>1. queue' = queue /\ (Starts(h) \/ Proceeds(h))
        BY <1>6 DEF StaysInLine
    <2>2. ASSUME NEW g \in Handlers, HasTurn(handlers'[g])
          PROVE  /\ queue[WalletOf(handlers'[g].kind)] # <<>>
                 /\ Head(queue[WalletOf(handlers'[g].kind)]) = g
        <3>1. CASE g # h
            BY <1>2, <1>5, <2>2, <3>1 DEF SameCall
        <3>2. CASE g = h
            <4>1. ~Starts(h)
                BY <1>6, <2>2, <3>2 DEF StaysInLine, Proceeds, HasTurn, Starts, Idle, SameCall
            <4>2. SameCall(h)
                BY <2>1, <4>1 DEF Proceeds
            <4> QED BY <1>5, <1>6, <2>2, <3>2, <4>2 DEF StaysInLine, SameCall
        <3> QED BY <3>1, <3>2
    <2>3. ASSUME NEW w \in Lines, NEW i \in 1 .. Len(queue[w])
          PROVE  /\ handlers'[queue[w][i]].kind \in Queued
                 /\ WalletOf(handlers'[queue[w][i]].kind) = w
                 /\ handlers'[queue[w][i]].pc # "preflight"
        <3>1. /\ queue[w][i] \in Handlers
              /\ handlers[queue[w][i]].kind \in Queued
              /\ WalletOf(handlers[queue[w][i]].kind) = w
              /\ handlers[queue[w][i]].pc # "preflight"
            BY <1>1, <1>4 DEF SlotInv, Lines
        <3>2. CASE queue[w][i] # h
            BY <1>2, <3>1, <3>2 DEF SameCall
        <3>3. CASE queue[w][i] = h
            <4>1. ~Starts(h)
                BY <3>1, <3>3 DEF Starts, Idle, Queued
            <4> QED BY <2>1, <3>1, <3>3, <4>1 DEF Proceeds, SameCall
        <3> QED BY <3>2, <3>3
    <2>4. \A w \in Lines : \A i, k \in 1 .. Len(queue[w]) : queue[w][i] = queue[w][k] => i = k
        BY <1>1 DEF SlotInv, Lines
    <2> QED BY <1>3, <2>1, <2>2, <2>3, <2>4, ZenonT(40) DEF SlotInv, Lines
<1>7. ASSUME NEW w \in Lines, Joins(h, w)
      PROVE  SlotInv'
    <2>1. /\ queue' = [queue EXCEPT ![w] = Append(@, h)]
          /\ handlers'[h].pc = "queued" /\ handlers'[h].kind \in Queued
          /\ WalletOf(handlers'[h].kind) = w
        BY <1>7 DEF Joins
    <2>2. ASSUME NEW v \in Lines, NEW i \in 1 .. Len(queue[v])
          PROVE  queue[v][i] # h
        <3>1. handlers[queue[v][i]].kind \in Queued /\ handlers[queue[v][i]].pc # "preflight"
            BY <1>1 DEF SlotInv, Lines
        <3> QED BY <1>7, <3>1 DEF Joins, Starts, Idle, Queued
    <2>3. ASSUME NEW v \in Lines
          PROVE  /\ Len(queue'[v]) = IF v = w THEN Len(queue[v]) + 1 ELSE Len(queue[v])
                 /\ \A i \in 1 .. Len(queue[v]) : queue'[v][i] = queue[v][i]
                 /\ v = w => queue'[v][Len(queue[v]) + 1] = h
                 /\ queue'[v] \in Seq(Handlers)
        <3>1. queue'[v] = IF v = w THEN Append(queue[v], h) ELSE queue[v]
            BY <1>1, <2>1
        <3> QED BY <1>1, <3>1, AppendProperties
    <2>4. ASSUME NEW g \in Handlers, HasTurn(handlers'[g])
          PROVE  /\ queue'[WalletOf(handlers'[g].kind)] # <<>>
                 /\ Head(queue'[WalletOf(handlers'[g].kind)]) = g
        <3>1. g # h
            BY <2>1, <2>4 DEF HasTurn
        <3>2. HasTurn(handlers[g]) /\ handlers'[g].kind = handlers[g].kind
            BY <1>2, <2>4, <3>1 DEF SameCall
        <3> DEFINE v == WalletOf(handlers[g].kind)
        <3>3. v \in Lines /\ queue[v] # <<>> /\ Head(queue[v]) = g
            BY <1>5, <3>2
        <3> HIDE DEF v
        <3>4. queue[v][1] = g /\ 1 \in 1 .. Len(queue[v])
            BY <1>1, <3>3, HeadIsFirst
        <3>5. queue'[v][1] = g /\ Len(queue'[v]) > 0
            BY <1>1, <2>3, <3>3, <3>4
        <3>6. queue'[v] # <<>> /\ Head(queue'[v]) = g
            BY <2>3, <3>3, <3>5, HeadIsFirst
        <3> QED BY <3>2, <3>6 DEF v
    <2>5. ASSUME NEW v \in Lines, NEW i \in 1 .. Len(queue'[v])
          PROVE  /\ handlers'[queue'[v][i]].kind \in Queued
                 /\ WalletOf(handlers'[queue'[v][i]].kind) = v
                 /\ handlers'[queue'[v][i]].pc # "preflight"
        <3>1. CASE i \in 1 .. Len(queue[v])
            <4>1. queue[v][i] \in Handlers \ {h} /\ queue'[v][i] = queue[v][i]
                BY <1>4, <2>2, <2>3, <3>1
            <4>2. /\ handlers[queue[v][i]].kind \in Queued
                  /\ WalletOf(handlers[queue[v][i]].kind) = v
                  /\ handlers[queue[v][i]].pc # "preflight"
                BY <1>1, <3>1 DEF SlotInv, Lines
            <4> QED BY <1>2, <4>1, <4>2 DEF SameCall
        <3>2. CASE i = Len(queue[v]) + 1 /\ v = w
            BY <2>1, <2>3, <3>2
        <3> QED BY <1>1, <2>3, <3>1, <3>2
    <2>6. ASSUME NEW v \in Lines, NEW i \in 1 .. Len(queue'[v]), NEW k \in 1 .. Len(queue'[v]),
                 queue'[v][i] = queue'[v][k]
          PROVE  i = k
        <3>1. \/ i \in 1 .. Len(queue[v]) /\ queue'[v][i] = queue[v][i] /\ queue'[v][i] # h
              \/ i = Len(queue[v]) + 1 /\ queue'[v][i] = h
            BY <1>1, <2>2, <2>3
        <3>2. \/ k \in 1 .. Len(queue[v]) /\ queue'[v][k] = queue[v][k] /\ queue'[v][k] # h
              \/ k = Len(queue[v]) + 1 /\ queue'[v][k] = h
            BY <1>1, <2>2, <2>3
        <3>3. CASE i \in 1 .. Len(queue[v]) /\ k \in 1 .. Len(queue[v])
            BY <1>1, <2>3, <2>6, <3>3 DEF SlotInv, Lines
        <3> QED BY <2>6, <3>1, <3>2, <3>3
    <2> QED BY <1>3, <2>4, <2>5, <2>6, Zenon DEF SlotInv, Lines
<1>8. CASE Leaves(h)
    <2>1. /\ handlers'[h] = Idle /\ handlers[h].pc # "queued"
          /\ queue' = [w \in Lines |->
               IF queue[w] # <<>> /\ Head(queue[w]) = h THEN Tail(queue[w]) ELSE queue[w]]
        BY <1>1, <1>8 DEF Leaves, Ends
    <2>2. ASSUME NEW w \in Lines, NEW i \in 1 .. Len(queue[w]), queue[w][i] = h
          PROVE  i = 1 /\ queue[w] # <<>> /\ Head(queue[w]) = h
        <3>1. HasTurn(handlers[h]) /\ WalletOf(handlers[h].kind) = w
            BY <1>1, <2>1, <2>2 DEF SlotInv, HasTurn, Lines
        <3>2. queue[w] # <<>> /\ Head(queue[w]) = h
            BY <1>5, <3>1
        <3>3. queue[w][1] = h /\ 1 \in 1 .. Len(queue[w])
            BY <1>1, <3>2, HeadIsFirst
        <3> QED BY <1>1, <2>2, <3>2, <3>3 DEF SlotInv, Lines
    <2>3. ASSUME NEW w \in Lines
          PROVE  \/ /\ queue'[w] = queue[w]
                    /\ \A i \in 1 .. Len(queue[w]) : queue[w][i] # h
                 \/ /\ queue[w] # <<>> /\ Head(queue[w]) = h
                    /\ Len(queue'[w]) = Len(queue[w]) - 1
                    /\ \A i \in 1 .. Len(queue[w]) - 1 :
                          queue'[w][i] = queue[w][i + 1] /\ queue[w][i + 1] # h
        <3>1. CASE queue[w] # <<>> /\ Head(queue[w]) = h
            <4>1. queue'[w] = Tail(queue[w])
                BY <2>1, <3>1
            <4>2. /\ Len(queue'[w]) = Len(queue[w]) - 1
                  /\ \A i \in 1 .. Len(queue[w]) - 1 : queue'[w][i] = queue[w][i + 1]
                BY <1>1, <3>1, <4>1, HeadIsFirst
            <4>3. \A i \in 1 .. Len(queue[w]) - 1 :
                    i + 1 \in 1 .. Len(queue[w]) /\ i + 1 # 1
                BY <1>1
            <4> QED BY <2>2, <3>1, <4>2, <4>3
        <3>2. CASE ~(queue[w] # <<>> /\ Head(queue[w]) = h)
            <4>1. queue'[w] = queue[w]
                BY <2>1, <3>2
            <4> QED BY <2>2, <3>2, <4>1
        <3> QED BY <3>1, <3>2
    <2>4. ASSUME NEW g \in Handlers, HasTurn(handlers'[g])
          PROVE  /\ queue'[WalletOf(handlers'[g].kind)] # <<>>
                 /\ Head(queue'[WalletOf(handlers'[g].kind)]) = g
        <3>1. g # h
            BY <2>1, <2>4 DEF HasTurn, Idle, Queued
        <3>2. HasTurn(handlers[g]) /\ handlers'[g].kind = handlers[g].kind
            BY <1>2, <2>4, <3>1 DEF SameCall
        <3>3. /\ WalletOf(handlers[g].kind) \in Lines
              /\ queue[WalletOf(handlers[g].kind)] # <<>>
              /\ Head(queue[WalletOf(handlers[g].kind)]) = g
            BY <1>5, <3>2
        <3>4. queue'[WalletOf(handlers[g].kind)] = queue[WalletOf(handlers[g].kind)]
            BY <2>3, <3>1, <3>3
        <3> QED BY <3>2, <3>3, <3>4
    <2>5. ASSUME NEW w \in Lines, NEW i \in 1 .. Len(queue'[w])
          PROVE  /\ handlers'[queue'[w][i]].kind \in Queued
                 /\ WalletOf(handlers'[queue'[w][i]].kind) = w
                 /\ handlers'[queue'[w][i]].pc # "preflight"
        <3>1. \E k \in 1 .. Len(queue[w]) : queue'[w][i] = queue[w][k] /\ queue[w][k] # h
            <4>1. CASE queue'[w] = queue[w] /\ \A m \in 1 .. Len(queue[w]) : queue[w][m] # h
                BY <4>1
            <4>2. CASE /\ Len(queue'[w]) = Len(queue[w]) - 1
                       /\ \A m \in 1 .. Len(queue[w]) - 1 :
                             queue'[w][m] = queue[w][m + 1] /\ queue[w][m + 1] # h
                <5>1. Len(queue[w]) \in Nat /\ i \in 1 .. Len(queue[w]) - 1
                    BY <1>1, <4>2
                <5>2. i + 1 \in 1 .. Len(queue[w])
                    BY <5>1
                <5> QED BY <4>2, <5>1, <5>2
            <4> QED BY <2>3, <4>1, <4>2
        <3> PICK k \in 1 .. Len(queue[w]) : queue'[w][i] = queue[w][k] /\ queue[w][k] # h
            BY <3>1
        <3>2. /\ queue[w][k] \in Handlers
              /\ handlers[queue[w][k]].kind \in Queued
              /\ WalletOf(handlers[queue[w][k]].kind) = w
              /\ handlers[queue[w][k]].pc # "preflight"
            BY <1>1, <1>4 DEF SlotInv, Lines
        <3> QED BY <1>2, <3>2 DEF SameCall
    <2>6. ASSUME NEW w \in Lines, NEW i \in 1 .. Len(queue'[w]), NEW k \in 1 .. Len(queue'[w]),
                 queue'[w][i] = queue'[w][k]
          PROVE  i = k
        <3>1. \A m, n \in 1 .. Len(queue[w]) : queue[w][m] = queue[w][n] => m = n
            BY <1>1 DEF SlotInv, Lines
        <3>2. CASE queue'[w] = queue[w]
            BY <2>6, <3>1, <3>2
        <3>3. CASE /\ Len(queue'[w]) = Len(queue[w]) - 1
                   /\ \A m \in 1 .. Len(queue[w]) - 1 : queue'[w][m] = queue[w][m + 1]
            <4>1. /\ Len(queue[w]) \in Nat
                  /\ i \in 1 .. Len(queue[w]) - 1 /\ k \in 1 .. Len(queue[w]) - 1
                BY <1>1, <3>3
            <4>2. i + 1 \in 1 .. Len(queue[w]) /\ k + 1 \in 1 .. Len(queue[w])
                BY <4>1
            <4>3. queue[w][i + 1] = queue[w][k + 1]
                BY <2>6, <3>3, <4>1
            <4> QED BY <3>1, <4>1, <4>2, <4>3
        <3> QED BY <2>3, <3>2, <3>3
    <2> QED BY <1>3, <2>4, <2>5, <2>6, Zenon DEF SlotInv, Lines
<1> QED BY <1>1, <1>6, <1>7, <1>8 DEF QueueMove, Lines

LEMMA MoveKeeps ==
    ASSUME ApiInv, NEW h \in Handlers, HandlerMove(h)
    PROVE  ApiInv'
BY MoveTypes, MoveKnowledge, MoveTransactions, MoveSlots DEF ApiInv

-----------------------------------------------------------------------------
(* The actions of a handler are such moves *)

LEMMA StoresNothing ==
    ASSUME TypeOK, rows' = rows
    PROVE  Stores
BY DEF TypeOK, Stores

\* A handler that is not idle has a request.
LEMMA Busy ==
    ASSUME TypeOK, NEW h \in Handlers, handlers[h].pc # "idle"
    PROVE  handlers[h].kind # "none" /\ handlers[h].attempt # 0 /\ handlers[h] \in Handler
BY IdleTyped DEF TypeOK

LEMMA AcceptMoves ==
    ASSUME ApiInv, NEW h \in Handlers, NEW request \in Handler, Accepts(h, request),
           request.kind # "none", request.attempt # 0, ~request.fresh,
           request.pc \in {"nonce", "preflight"},
           request.pc = "preflight" <=> request.kind \in Queued,
           request.kind # "agent",
           request.kind = "create" => request.job = 0,
           request.kind \in JobKinds => request.job \in JobIds /\ rows[request.job] # NoRow
    PROVE  HandlerMove(h)
<1>1. TypeOK /\ handlers \in [Handlers -> Handler]
    BY DEF ApiInv, TypeOK
<1>2. /\ handlers[h] = Idle /\ handlers[h].pc = "idle"
      /\ handlers' = [handlers EXCEPT ![h] = request]
      /\ UNCHANGED <<beyond, approved>> /\ rows' = rows /\ pending' = pending /\ queue' = queue
    BY IdleTyped DEF Accepts
<1>3. handlers'[h] = request /\ handlers' \in [Handlers -> Handler]
      /\ \A g \in Handlers \ {h} : handlers'[g] = handlers[g]
    BY <1>1, <1>2
<1>4. Starts(h)
    BY <1>2, <1>3 DEF Starts
<1>5. PlaceOfKind(handlers'[h])
    BY <1>3 DEF PlaceOfKind, Queued
<1>6. TxMove(h)
    BY <1>2 DEF TxMove, Sent
<1>7. QueueMove(h)
    BY <1>2, <1>3, <1>4 DEF QueueMove, StaysInLine, HasTurn
<1> QED BY <1>1, <1>2, <1>3, <1>4, <1>5, <1>6, <1>7, StoresNothing DEF HandlerMove, Rests

LEMMA GoesForm ==
    ASSUME TypeOK, NEW h \in Handlers, NEW pc \in Steps, Goes(h, pc)
    PROVE  /\ handlers' \in [Handlers -> Handler]
           /\ \A g \in Handlers \ {h} : Rests(g)
           /\ SameCall(h) /\ handlers'[h].pc = pc
           /\ handlers'[h].attempt = handlers[h].attempt
           /\ handlers'[h].fresh = handlers[h].fresh
<1>1. handlers \in [Handlers -> Handler] /\ handlers' = [handlers EXCEPT ![h].pc = pc]
    BY DEF TypeOK, Goes
<1>2. \A g \in Handlers \ {h} : handlers'[g] = handlers[g]
    BY <1>1
<1>3. /\ handlers' \in [Handlers -> Handler]
      /\ handlers'[h].kind = handlers[h].kind /\ handlers'[h].job = handlers[h].job
      /\ handlers'[h].hash = handlers[h].hash /\ handlers'[h].evaluator = handlers[h].evaluator
      /\ handlers'[h].attempt = handlers[h].attempt /\ handlers'[h].fresh = handlers[h].fresh
      /\ handlers'[h].pc = pc
    BY <1>1 DEF Handler
<1> QED BY <1>2, <1>3 DEF Rests, SameCall

\* A handler goes on without waiting for anything.
LEMMA GoesMoves ==
    ASSUME ApiInv, NEW h \in Handlers, NEW pc \in Steps, Goes(h, pc),
           UNCHANGED <<beyond, approved, pending>>, Stores,
           handlers[h].pc \notin Sent \cup {"idle"},
           pc \notin Sent \cup {"preflight", "visible", "queued"},
           pc \in {"confirmed", "evaluator"} => handlers[h].pc \in {"confirmed", "evaluator"},
           pc \in {"allowance", "evaluator"} => handlers[h].kind = "fund",
           pc = "setBudget" => handlers[h].kind = "create",
           queue' = queue,
           \/ handlers[h].pc \notin {"preflight", "queued"}
           \/ LET q == queue[WalletOf(handlers[h].kind)] IN q # <<>> /\ Head(q) = h
    PROVE  HandlerMove(h)
<1>1. TypeOK
    BY DEF ApiInv
<1>2. /\ handlers' \in [Handlers -> Handler]
      /\ \A g \in Handlers \ {h} : Rests(g)
      /\ SameCall(h) /\ handlers'[h].pc = pc
      /\ handlers'[h].attempt = handlers[h].attempt
    BY <1>1, GoesForm
<1>3. handlers[h].kind # "none" /\ handlers[h].attempt # 0
    BY <1>1, Busy
<1>4. pc # "idle"
    BY DEF Steps, Waits
<1>5. Proceeds(h)
    BY <1>2, <1>3, <1>4 DEF Proceeds
<1>6. PlaceOfKind(handlers'[h])
    BY <1>2 DEF PlaceOfKind, SameCall
<1>7. TxMove(h)
    BY DEF TxMove
<1>8. QueueMove(h)
    BY <1>2, <1>5 DEF QueueMove, StaysInLine, HasTurn, SameCall
<1> QED BY <1>2, <1>5, <1>6, <1>7, <1>8 DEF HandlerMove

LEMMA ReturnMoves ==
    ASSUME ApiInv, NEW h \in Handlers, Returns(h), UNCHANGED <<beyond, approved>>,
           Stores, TxMove(h), handlers[h].pc # "queued"
    PROVE  HandlerMove(h)
<1>1. handlers \in [Handlers -> Handler] /\ handlers' = [handlers EXCEPT ![h] = Idle]
    BY DEF ApiInv, TypeOK, Returns
<1>2. /\ handlers' \in [Handlers -> Handler] /\ handlers'[h] = Idle
      /\ \A g \in Handlers \ {h} : handlers'[g] = handlers[g]
    BY <1>1, IdleTyped
<1>3. PlaceOfKind(handlers'[h])
    BY <1>2, IdleTyped DEF PlaceOfKind
<1>4. QueueMove(h)
    BY <1>2 DEF QueueMove, Leaves, Ends, Returns
<1> QED BY <1>2, <1>3, <1>4 DEF HandlerMove, Rests, Ends

LEMMA FailMoves ==
    ASSUME ApiInv, NEW h \in Handlers, AttemptFails(h),
           handlers[h].pc \notin {"idle", "queued"}
    PROVE  HandlerMove(h)
<1>1. TypeOK /\ Stores /\ TxMove(h) /\ UNCHANGED <<beyond, approved>>
    BY StoresNothing DEF ApiInv, AttemptFails, TxMove
<1>2. CASE Returns(h)
    BY <1>1, <1>2, ReturnMoves
<1>3. CASE /\ handlers[h].pc # "preflight"
           /\ handlers[h].attempt < MaxAttempts
           /\ handlers' = [handlers EXCEPT ![h].pc = "nonce", ![h].attempt = @ + 1,
                                           ![h].fresh = FALSE]
           /\ queue' = queue
    <2>1. handlers \in [Handlers -> Handler] /\ MaxAttempts \in Nat
        BY <1>1, ApiAssumption DEF TypeOK
    <2>2. /\ SameCall(h) /\ handlers'[h].pc = "nonce" /\ ~handlers'[h].fresh
          /\ handlers'[h].attempt = handlers[h].attempt + 1
          /\ handlers[h].attempt \in Nat
          /\ \A g \in Handlers \ {h} : handlers'[g] = handlers[g]
          /\ handlers' \in [Handlers -> Handler]
        BY <1>3, <2>1 DEF Handler, SameCall, Steps
    <2>3. handlers[h].kind # "none"
        BY <1>1, Busy
    <2>4. Proceeds(h)
        BY <2>2, <2>3 DEF Proceeds, Sent
    <2>5. PlaceOfKind(handlers'[h])
        BY <2>2 DEF PlaceOfKind
    <2>6. QueueMove(h)
        BY <1>3, <2>2, <2>4 DEF QueueMove, StaysInLine, HasTurn, SameCall
    <2> QED BY <1>1, <2>2, <2>4, <2>5, <2>6 DEF HandlerMove, Rests
<1> QED BY <1>2, <1>3 DEF AttemptFails, At

LEMMA SendMoves ==
    ASSUME ApiInv, NEW h \in Handlers, NEW kind, NEW pc, Sends(h, kind, pc),
           handlers[h].pc \notin Sent \cup {"idle", "preflight", "queued"},
           \/ pc = "approving" /\ kind = "approve" /\ handlers[h].kind = "fund"
           \/ pc = "budgetSent" /\ kind = "setBudget" /\ handlers[h].kind = "create"
           \/ pc = "seedSent" /\ kind = "seed" /\ handlers[h].kind = "agent"
           \/ pc = "sent" /\ kind = handlers[h].kind /\ handlers[h].kind # "agent"
    PROVE  HandlerMove(h)
<1> DEFINE w == WalletOf(handlers[h].kind)
           tx == [kind |-> kind, by |-> h, job |-> handlers[h].job, hash |-> handlers[h].hash,
                  evaluator |-> handlers[h].evaluator]
<1>1. TypeOK /\ Stores /\ UNCHANGED <<beyond, approved>> /\ queue' = queue
    BY StoresNothing DEF ApiInv, Sends
<1>2. handlers[h].kind # "none" /\ handlers[h].attempt # 0 /\ handlers[h] \in Handler
      /\ handlers \in [Handlers -> Handler]
    BY <1>1, Busy DEF TypeOK
<1>3. /\ pending' = [pending EXCEPT ![w] = Append(@, tx)]
      /\ handlers' = [g \in Handlers |->
            IF g = h THEN [handlers[g] EXCEPT !.pc = pc]
            ELSE IF handlers[g].kind # "none" /\ WalletOf(handlers[g].kind) = w
                 THEN [handlers[g] EXCEPT !.fresh = FALSE]
                 ELSE handlers[g]]
    BY Zenon DEF Sends
<1>4. pc \in Sent /\ pc \in Steps
    BY DEF Sent, Steps, Waits
<1>5. handlers'[h] \in Handler /\ SameCall(h) /\ handlers'[h].pc = pc
      /\ handlers'[h].attempt = handlers[h].attempt
    BY <1>2, <1>3, <1>4 DEF Handler, SameCall
<1>6. ASSUME NEW g \in Handlers \ {h}
      PROVE  handlers'[g] \in Handler /\ Rests(g)
    <2>1. CASE handlers[g].kind # "none" /\ WalletOf(handlers[g].kind) = w
        <3>1. handlers'[g] = [handlers[g] EXCEPT !.fresh = FALSE] /\ handlers[g] \in Handler
            BY <1>2, <1>3, <2>1
        <3> QED BY <2>1, <3>1 DEF Handler, Rests, Outrun, SameCall
    <2>2. CASE ~(handlers[g].kind # "none" /\ WalletOf(handlers[g].kind) = w)
        BY <1>2, <1>3, <2>2 DEF Rests
    <2> QED BY <2>1, <2>2
<1>7. handlers' \in [Handlers -> Handler]
    <2>1. handlers' = [g \in Handlers |-> handlers'[g]]
        BY <1>3, Zenon
    <2> QED BY <1>5, <1>6, <2>1, Zenon
<1>8. Proceeds(h)
    BY <1>2, <1>4, <1>5 DEF Proceeds, Sent
<1>9. PlaceOfKind(handlers'[h])
    BY <1>4, <1>5 DEF PlaceOfKind, Sent
<1>10. Transmits(h, tx)
    <2>1. tx \in Tx /\ tx.by = h
        <3>1. kind \in (Kinds \ {"agent"}) \cup {"approve", "setBudget", "seed"}
            BY <1>2 DEF Handler, Kinds
        <3>2. /\ handlers[h].job \in JobIds \cup {0} /\ handlers[h].hash \in Hashes \cup {NoHash}
              /\ handlers[h].evaluator \in Addresses \cup {NoAddress}
            BY <1>2 DEF Handler
        <3> QED BY <3>1, <3>2 DEF Tx
    <2>2. Awaits(handlers'[h], tx)
        BY <1>5 DEF Awaits, SameCall
    <2>3. handlers[h].pc \notin Sent /\ pending' = [pending EXCEPT ![w] = Append(@, tx)]
        BY <1>3
    <2> HIDE DEF tx
    <2> QED BY <1>8, <2>1, <2>2, <2>3 DEF Transmits
<1>11. QueueMove(h)
    BY <1>1, <1>5, <1>8 DEF QueueMove, StaysInLine, HasTurn, SameCall
<1> HIDE DEF tx
<1> QED BY <1>1, <1>6, <1>7, <1>8, <1>9, <1>10, <1>11, Zenon DEF HandlerMove, TxMove

LEMMA RequestForm ==
    ASSUME NEW kind \in Kinds, NEW j \in JobIds \cup {0}, NEW pc \in Steps
    PROVE  /\ Request(kind, j, pc) \in Handler
           /\ Request(kind, j, pc).kind = kind /\ Request(kind, j, pc).job = j
           /\ Request(kind, j, pc).pc = pc /\ Request(kind, j, pc).attempt = 1
           /\ ~Request(kind, j, pc).fresh
<1> DEFINE a == [Idle EXCEPT !.kind = kind]
           b == [a EXCEPT !.job = j]
           c == [b EXCEPT !.pc = pc]
           d == [c EXCEPT !.attempt = 1]
<1>1. Request(kind, j, pc) = d
    BY Zenon DEF Request
<1>2. a \in Handler /\ a.kind = kind /\ ~a.fresh
    BY IdleTyped DEF Handler
<1> HIDE DEF a
<1>3. b \in Handler /\ b.kind = kind /\ b.job = j /\ ~b.fresh
    BY <1>2 DEF Handler
<1> HIDE DEF b
<1>4. c \in Handler /\ c.kind = kind /\ c.job = j /\ c.pc = pc /\ ~c.fresh
    BY <1>3 DEF Handler
<1> HIDE DEF c
<1>5. /\ d \in Handler /\ d.kind = kind /\ d.job = j /\ d.pc = pc /\ d.attempt = 1
      /\ ~d.fresh
    BY <1>4, ApiAssumption DEF Handler
<1> HIDE DEF d
<1> QED BY <1>1, <1>5

LEMMA LoadForm ==
    ASSUME TypeOK
    PROVE  /\ load.handlers \subseteq Handlers /\ load.readers \subseteq Readers
           /\ load.hashes \subseteq Hashes /\ load.evaluators \subseteq Addresses \cup {NoAddress}
           /\ load.restarts \in Nat
BY ApiAssumption DEF TypeOK

LEMMA RequestMoves ==
    ASSUME ApiInv, NEW h \in Handlers,
           \/ AgentRequest(h) \/ FaucetRequest(h)
           \/ \E evaluator \in load.evaluators : CreateRequest(h, evaluator)
           \/ \E j \in JobIds :
                \/ FundRequest(h, j)
                \/ \E hash \in load.hashes : SubmitRequest(h, j, hash)
                \/ \E kind \in {"complete", "reject"} : VerdictRequest(h, j, kind)
    PROVE  HandlerMove(h)
<1>1. TypeOK /\ {"nonce", "preflight", "queued"} \subseteq Steps
    BY DEF ApiInv, Steps
<1>2. CASE AgentRequest(h)
    <2> DEFINE request == Request("agent", 0, "queued")
    <2>1. /\ request \in Handler /\ request.kind = "agent" /\ request.job = 0
          /\ request.pc = "queued" /\ request.attempt = 1 /\ ~request.fresh
        BY <1>1, RequestForm DEF Kinds
    <2>2. /\ handlers[h] = Idle /\ handlers' = [handlers EXCEPT ![h] = request]
          /\ queue' = [queue EXCEPT ![Deployer] = Append(@, h)]
          /\ UNCHANGED <<beyond, approved>> /\ rows' = rows /\ pending' = pending
        BY <1>2 DEF AgentRequest
    <2> HIDE DEF request
    <2>3. handlers'[h] = request /\ handlers' \in [Handlers -> Handler]
          /\ \A g \in Handlers \ {h} : handlers'[g] = handlers[g]
        BY <1>1, <2>1, <2>2 DEF TypeOK
    <2>4. Starts(h) /\ PlaceOfKind(handlers'[h])
        BY <2>1, <2>2, <2>3 DEF Starts, PlaceOfKind, JobKinds
    <2>5. TxMove(h)
        BY <2>2, IdleTyped DEF TxMove, Sent
    <2>6. Joins(h, Deployer)
        BY <2>1, <2>2, <2>3, <2>4 DEF Joins, Queued, WalletOf
    <2>7. QueueMove(h)
        BY <2>6 DEF QueueMove
    <2> QED BY <1>1, <2>2, <2>3, <2>4, <2>5, <2>7, StoresNothing DEF HandlerMove, Rests
<1>3. CASE FaucetRequest(h)
    <2> DEFINE request == Request("faucet", 0, "nonce")
    <2>1. /\ request \in Handler /\ request.kind = "faucet" /\ request.job = 0
          /\ request.pc = "nonce" /\ request.attempt = 1 /\ ~request.fresh
        BY <1>1, RequestForm DEF Kinds
    <2>2. Accepts(h, request)
        BY <1>3 DEF FaucetRequest
    <2> HIDE DEF request
    <2> QED BY <2>1, <2>2, AcceptMoves DEF Queued, JobKinds
<1>4. ASSUME NEW evaluator \in load.evaluators, CreateRequest(h, evaluator)
      PROVE  HandlerMove(h)
    <2> DEFINE plain == Request("create", 0, "nonce")
               request == [plain EXCEPT !.evaluator = evaluator]
    <2>1. /\ plain \in Handler /\ plain.kind = "create" /\ plain.job = 0
          /\ plain.pc = "nonce" /\ plain.attempt = 1 /\ ~plain.fresh
        BY <1>1, RequestForm DEF Kinds
    <2>2. Accepts(h, request)
        BY <1>4 DEF CreateRequest
    <2>3. evaluator \in Addresses \cup {NoAddress}
        BY <1>1, LoadForm
    <2> HIDE DEF plain
    <2>4. /\ request \in Handler /\ request.kind = "create" /\ request.job = 0
          /\ request.pc = "nonce" /\ request.attempt = 1 /\ ~request.fresh
        BY <2>1, <2>3 DEF Handler
    <2> HIDE DEF request
    <2> QED BY <2>2, <2>4, AcceptMoves DEF Queued, JobKinds
<1>5. ASSUME NEW j \in JobIds, FundRequest(h, j)
      PROVE  HandlerMove(h)
    <2> DEFINE request == Request("fund", j, "preflight")
    <2>1. /\ request \in Handler /\ request.kind = "fund" /\ request.job = j
          /\ request.pc = "preflight" /\ request.attempt = 1 /\ ~request.fresh
        BY <1>1, RequestForm DEF Kinds
    <2>2. Accepts(h, request) /\ rows[j] # NoRow
        BY <1>5 DEF FundRequest, NoRow
    <2> HIDE DEF request
    <2> QED BY <2>1, <2>2, AcceptMoves DEF Queued, JobKinds
<1>6. ASSUME NEW j \in JobIds, NEW hash \in load.hashes, SubmitRequest(h, j, hash)
      PROVE  HandlerMove(h)
    <2> DEFINE plain == Request("submit", j, "nonce")
               request == [plain EXCEPT !.hash = hash]
    <2>1. /\ plain \in Handler /\ plain.kind = "submit" /\ plain.job = j
          /\ plain.pc = "nonce" /\ plain.attempt = 1 /\ ~plain.fresh
        BY <1>1, RequestForm DEF Kinds
    <2>2. Accepts(h, request) /\ rows[j] # NoRow
        BY <1>6 DEF SubmitRequest, NoRow
    <2>3. hash \in Hashes
        BY <1>1, LoadForm
    <2> HIDE DEF plain
    <2>4. /\ request \in Handler /\ request.kind = "submit" /\ request.job = j
          /\ request.pc = "nonce" /\ request.attempt = 1 /\ ~request.fresh
        BY <2>1, <2>3 DEF Handler
    <2> HIDE DEF request
    <2> QED BY <2>2, <2>4, AcceptMoves DEF Queued, JobKinds
<1>7. ASSUME NEW j \in JobIds, NEW kind \in {"complete", "reject"}, VerdictRequest(h, j, kind)
      PROVE  HandlerMove(h)
    <2> DEFINE request == Request(kind, j, "nonce")
    <2>1. /\ request \in Handler /\ request.kind = kind /\ request.job = j
          /\ request.pc = "nonce" /\ request.attempt = 1 /\ ~request.fresh
        BY <1>1, RequestForm DEF Kinds
    <2>2. Accepts(h, request) /\ rows[j] # NoRow
        BY <1>7 DEF VerdictRequest, NoRow
    <2> HIDE DEF request
    <2> QED BY <2>1, <2>2, AcceptMoves DEF Queued, JobKinds
<1> QED BY <1>2, <1>3, <1>4, <1>5, <1>6, <1>7

\* Whoever asks some node sees what the chain has at least reached.
LEMMA ViewsBehind ==
    ASSUME ChainInv, NEW j \in JobIds, NEW view \in Views(j)
    PROVE  Behind(view, chain[j])
BY BehindSelf DEF ChainInv, Views

\* A status, an evaluator or a deliverable that the chain shows may be stored.
LEMMA RowAdvances ==
    ASSUME NEW row \in Row, NEW shown, NEW job, Behind(row, job), Behind(shown, job),
           NEW new \in Row,
           new.status \in {row.status, shown.status},
           new.evaluator \in {row.evaluator, shown.evaluator},
           new.deliverable \in {row.deliverable, shown.deliverable}
    PROVE  new # NoRow /\ Behind(new, job)
BY DEF Behind, Row, NoRow, Phases

LEMMA RowStored ==
    ASSUME ApiInv, NEW j \in JobIds, NEW new \in Row, rows' = [rows EXCEPT ![j] = new],
           Behind(new, chain[j])
    PROVE  Stores
<1>1. rows \in [JobIds -> Row \cup {NoRow}]
    BY DEF ApiInv, TypeOK
<1>2. new # NoRow
    BY DEF Row, NoRow, Phases
<1> QED BY <1>1, <1>2 DEF Stores

\* Every step of a handler is a move.
LEMMA StepMoves ==
    ASSUME ApiInv, NEW h \in Handlers, HandlerStep(h)
    PROVE  HandlerMove(h)
<1> DEFINE j == handlers[h].job
<1>1. /\ TypeOK /\ ChainInv /\ RowsInv /\ PlaceOfKind(handlers[h])
      /\ handlers[h].kind \in JobKinds => j \in JobIds /\ rows[j] # NoRow
      /\ Knows(handlers[h]) => j \in JobIds /\ Behind(Learned(handlers[h]), chain[j])
      /\ handlers[h] \in Handler
    BY DEF ApiInv, PlacesInv, KnownInv, LearnedInv, TypeOK
<1>2. CASE RpcFails(h)
    BY <1>2, FailMoves DEF RpcFails
<1>3. CASE TimesOut(h)
    BY <1>3, FailMoves DEF TimesOut, Waits
<1>4. CASE ReadNonce(h)
    <2> DEFINE pc == IF handlers[h].kind = "fund" THEN "allowance" ELSE "send"
    <2>1. /\ handlers[h].pc = "nonce"
          /\ handlers' = [handlers EXCEPT ![h].fresh = TRUE, ![h].pc = pc]
          /\ UNCHANGED <<beyond, approved>> /\ rows' = rows /\ pending' = pending /\ queue' = queue
        BY <1>4 DEF ReadNonce, At, Serves
    <2>2. handlers \in [Handlers -> Handler] /\ pc \in Steps
        BY <1>1 DEF TypeOK, Steps
    <2>3. pc \in {"allowance", "send"} /\ (pc = "allowance" => handlers[h].kind = "fund")
        OBVIOUS
    <2> HIDE DEF pc
    <2>4. /\ handlers' \in [Handlers -> Handler] /\ SameCall(h) /\ handlers'[h].pc = pc
          /\ handlers'[h].attempt = handlers[h].attempt
          /\ \A g \in Handlers \ {h} : handlers'[g] = handlers[g]
        BY <2>1, <2>2 DEF Handler, SameCall
    <2>5. Proceeds(h) /\ PlaceOfKind(handlers'[h])
        BY <1>1, <2>1, <2>3, <2>4, Busy DEF Proceeds, PlaceOfKind, Sent
    <2>6. TxMove(h)
        BY <2>1 DEF TxMove, Sent
    <2>7. QueueMove(h)
        BY <2>1, <2>4, <2>5 DEF QueueMove, StaysInLine, HasTurn, SameCall
    <2> QED BY <1>1, <2>1, <2>4, <2>5, <2>6, <2>7, StoresNothing DEF HandlerMove, Rests
<1>5. CASE SendCreate(h)
    BY <1>5, SendMoves DEF SendCreate, At, Serves, Sent
<1>6. CASE SeeJob(h)
    <2>1. Goes(h, "setBudget") /\ handlers[h].pc = "visible" /\ handlers[h].kind = "create"
          /\ UNCHANGED <<beyond, approved, pending>> /\ Stores /\ queue' = queue
        BY <1>1, <1>6, StoresNothing DEF SeeJob, At, PlaceOfKind
    <2> QED BY <2>1, GoesMoves DEF Sent, Steps
<1>7. CASE SendSetBudget(h)
    BY <1>1, <1>7, SendMoves DEF SendSetBudget, At, Sent, PlaceOfKind
<1>8. CASE SaveJob(h)
    <2> DEFINE new == [status |-> "Open", evaluator |-> handlers[h].evaluator,
                       deliverable |-> NoHash]
    <2>1. handlers[h].pc = "confirmed" /\ handlers[h].kind = "create" /\ Returns(h)
          /\ UNCHANGED <<beyond, approved, pending>> /\ rows' = [rows EXCEPT ![j] = new]
        BY <1>8 DEF SaveJob, At, Serves
    <2>2. Stores
        <3>1. CASE j = 0
            <4>1. j \notin JobIds
                BY <3>1, ApiAssumption
            <4>2. rows' = rows
                BY <1>1, <2>1, <4>1 DEF TypeOK
            <4> QED BY <1>1, <4>2, StoresNothing
        <3>2. CASE j # 0
            <4>1. j \in JobIds /\ Behind(Learned(handlers[h]), chain[j])
                BY <1>1, <2>1, <3>2 DEF Knows
            <4>2. Learned(handlers[h]) = new
                BY <2>1 DEF Learned
            <4>3. new \in Row
                BY <1>1 DEF Row, Phases, Handler
            <4> HIDE DEF new
            <4> QED BY <2>1, <4>1, <4>2, <4>3, RowStored
        <3> QED BY <3>1, <3>2
    <2>3. TxMove(h) /\ handlers[h].pc # "queued"
        BY <2>1 DEF TxMove, Sent
    <2> QED BY <2>1, <2>2, <2>3, ReturnMoves
<1>9. CASE Enqueue(h)
    <2>1. handlers[h].pc = "preflight" /\ Goes(h, "queued")
          /\ UNCHANGED <<beyond, approved, pending>> /\ rows' = rows
          /\ queue' = [queue EXCEPT ![Client] = Append(@, h)]
        BY <1>9 DEF Enqueue, At
    <2>2. /\ handlers' \in [Handlers -> Handler]
          /\ \A g \in Handlers \ {h} : Rests(g)
          /\ SameCall(h) /\ handlers'[h].pc = "queued"
          /\ handlers'[h].attempt = handlers[h].attempt
          /\ handlers'[h].fresh = handlers[h].fresh
        BY <1>1, <2>1, GoesForm DEF Steps
    <2>3. handlers[h].kind = "fund" /\ ~handlers[h].fresh
        BY <1>1, <2>1 DEF PlaceOfKind, ApiInv, SlotInv
    <2>4. Proceeds(h) /\ PlaceOfKind(handlers'[h])
        BY <1>1, <2>1, <2>2, <2>3, Busy DEF Proceeds, PlaceOfKind, Sent
    <2>5. Joins(h, Client)
        BY <2>1, <2>2, <2>3, <2>4 DEF Joins, WalletOf, Queued, SameCall
    <2>6. TxMove(h) /\ QueueMove(h)
        BY <2>1, <2>5 DEF TxMove, QueueMove, Sent
    <2> QED BY <1>1, <2>1, <2>2, <2>4, <2>6, StoresNothing DEF HandlerMove
<1>10. CASE Dequeue(h)
    <2>1. Goes(h, "nonce") /\ handlers[h].pc = "queued"
          /\ UNCHANGED <<beyond, approved, pending>> /\ Stores /\ queue' = queue
          /\ LET q == queue[WalletOf(handlers[h].kind)] IN q # <<>> /\ Head(q) = h
        BY <1>1, <1>10, StoresNothing DEF Dequeue, At
    <2> QED BY <2>1, GoesMoves DEF Sent, Steps
<1>11. CASE SendApprove(h)
    BY <1>1, <1>11, SendMoves DEF SendApprove, At, Sent, PlaceOfKind
<1>12. CASE SkipApprove(h)
    <2>1. Goes(h, "send") /\ handlers[h].pc = "allowance"
          /\ UNCHANGED <<beyond, approved, pending>> /\ Stores /\ queue' = queue
        BY <1>1, <1>12, StoresNothing DEF SkipApprove, At
    <2> QED BY <2>1, GoesMoves DEF Sent, Steps
<1>13. CASE SendFund(h)
    BY <1>13, SendMoves DEF SendFund, At, Serves, Sent
<1>14. CASE StoreFunded(h)
    <2>1. handlers[h].pc = "confirmed" /\ handlers[h].kind = "fund" /\ Goes(h, "evaluator")
          /\ UNCHANGED <<beyond, approved, pending>> /\ queue' = queue
          /\ rows' = [rows EXCEPT ![j].status = "Funded"]
        BY <1>14 DEF StoreFunded, At, Serves
    <2>2. j \in JobIds /\ rows[j] \in Row /\ Behind(Learned(handlers[h]), chain[j])
        BY <1>1, <2>1 DEF Knows, JobKinds, TypeOK
    <2>3. Learned(handlers[h]).status = "Funded"
        BY <2>1 DEF Learned
    <2>4. Stores
        <3> DEFINE new == [rows[j] EXCEPT !.status = "Funded"]
        <3>1. /\ new \in Row /\ new.status = "Funded"
              /\ new.evaluator = rows[j].evaluator /\ new.deliverable = rows[j].deliverable
            BY <2>2 DEF Row, Phases
        <3>2. Behind(rows[j], chain[j])
            BY <1>1, <2>1, <2>2 DEF RowsInv, JobKinds
        <3>3. rows' = [rows EXCEPT ![j] = new]
            BY <2>1
        <3> HIDE DEF new
        <3>4. Behind(new, chain[j])
            BY <2>2, <2>3, <3>1, <3>2, RowAdvances
        <3> QED BY <2>2, <3>1, <3>3, <3>4, RowStored
    <2> QED BY <2>1, <2>4, GoesMoves DEF Sent, Steps
<1>15. CASE StoreEvaluator(h)
    <2>1. handlers[h].pc = "evaluator" /\ handlers[h].kind = "fund" /\ Returns(h)
          /\ UNCHANGED <<beyond, approved, pending>>
        BY <1>1, <1>15 DEF StoreEvaluator, At, PlaceOfKind
    <2>2. j \in JobIds /\ rows[j] \in Row /\ Behind(rows[j], chain[j])
        BY <1>1, <2>1 DEF JobKinds, TypeOK, RowsInv
    <2>3. ASSUME NEW view \in Views(j), view.evaluator # NoAddress,
                 rows' = [rows EXCEPT ![j].evaluator = view.evaluator]
          PROVE  Stores
        <3> DEFINE new == [rows[j] EXCEPT !.evaluator = view.evaluator]
        <3>1. view \in JobOnChain
            BY <1>1, <2>2 DEF TypeOK, ChainTypeOK, Views
        <3>2. view.evaluator \in Addresses \cup {NoAddress}
            BY <3>1 DEF JobOnChain
        <3>3. /\ new \in Row /\ new.evaluator = view.evaluator
              /\ new.status = rows[j].status /\ new.deliverable = rows[j].deliverable
            BY <2>2, <3>2 DEF Row
        <3>4. rows' = [rows EXCEPT ![j] = new]
            BY <2>3
        <3>5. Behind(view, chain[j])
            BY <1>1, <2>2, ViewsBehind
        <3> HIDE DEF new
        <3>6. Behind(new, chain[j])
            BY <2>2, <3>3, <3>5, RowAdvances
        <3> QED BY <2>2, <3>3, <3>4, <3>6, RowStored
    <2>4. Stores
        BY <1>1, <1>15, <2>3, StoresNothing DEF StoreEvaluator
    <2>5. TxMove(h) /\ handlers[h].pc # "queued"
        BY <2>1 DEF TxMove, Sent
    <2> QED BY <2>1, <2>4, <2>5, ReturnMoves
<1>16. CASE SendCall(h)
    BY <1>16, SendMoves DEF SendCall, At, Sent
<1>17. CASE StoreSubmitted(h)
    <2>1. handlers[h].pc = "confirmed" /\ handlers[h].kind = "submit" /\ Returns(h)
          /\ UNCHANGED <<beyond, approved, pending>>
          /\ rows' = [rows EXCEPT ![j].status = "Submitted", ![j].deliverable = handlers[h].hash]
        BY <1>17 DEF StoreSubmitted, At, Serves
    <2>2. j \in JobIds /\ rows[j] \in Row /\ Behind(Learned(handlers[h]), chain[j])
        BY <1>1, <2>1 DEF Knows, JobKinds, TypeOK
    <2>3. Learned(handlers[h]).status = "Submitted" /\ Learned(handlers[h]).deliverable = handlers[h].hash
        BY <2>1 DEF Learned
    <2>4. Stores
        <3> DEFINE new == [rows[j] EXCEPT !.status = "Submitted", !.deliverable = handlers[h].hash]
        <3>1. /\ new \in Row /\ new.status = "Submitted"
              /\ new.evaluator = rows[j].evaluator /\ new.deliverable = handlers[h].hash
            BY <1>1, <2>2 DEF Row, Phases, Handler
        <3>2. Behind(rows[j], chain[j])
            BY <1>1, <2>1, <2>2 DEF RowsInv, JobKinds
        <3>3. rows' = [rows EXCEPT ![j] = new]
            BY <2>1
        <3> HIDE DEF new
        <3>4. Behind(new, chain[j])
            BY <2>2, <2>3, <3>1, <3>2, RowAdvances
        <3> QED BY <2>2, <3>1, <3>3, <3>4, RowStored
    <2>5. TxMove(h) /\ handlers[h].pc # "queued"
        BY <2>1 DEF TxMove, Sent
    <2> QED BY <2>1, <2>4, <2>5, ReturnMoves
<1>18. CASE StoreVerdict(h)
    <2> DEFINE verdict == IF handlers[h].kind = "complete" THEN "Completed" ELSE "Rejected"
    <2>1. handlers[h].pc = "confirmed" /\ handlers[h].kind \in {"complete", "reject"} /\ Returns(h)
          /\ UNCHANGED <<beyond, approved, pending>>
          /\ rows' = [rows EXCEPT ![j].status = verdict]
        BY <1>18 DEF StoreVerdict, At, Serves
    <2>2. j \in JobIds /\ rows[j] \in Row /\ Behind(Learned(handlers[h]), chain[j])
        BY <1>1, <2>1 DEF Knows, JobKinds, TypeOK
    <2>3. Learned(handlers[h]).status = verdict /\ verdict \in Phases \ {"None"}
        BY <2>1 DEF Learned, Phases
    <2> HIDE DEF verdict
    <2>4. Stores
        <3> DEFINE new == [rows[j] EXCEPT !.status = verdict]
        <3>1. /\ new \in Row /\ new.status = verdict
              /\ new.evaluator = rows[j].evaluator /\ new.deliverable = rows[j].deliverable
            BY <2>2, <2>3 DEF Row
        <3>2. Behind(rows[j], chain[j])
            BY <1>1, <2>1, <2>2 DEF RowsInv, JobKinds
        <3>3. rows' = [rows EXCEPT ![j] = new]
            BY <2>1
        <3> HIDE DEF new
        <3>4. Behind(new, chain[j])
            BY <2>2, <2>3, <3>1, <3>2, RowAdvances
        <3> QED BY <2>2, <3>1, <3>3, <3>4, RowStored
    <2>5. TxMove(h) /\ handlers[h].pc # "queued"
        BY <2>1 DEF TxMove, Sent
    <2> QED BY <2>1, <2>4, <2>5, ReturnMoves
<1>19. CASE SendSeed(h)
    BY <1>19, SendMoves DEF SendSeed, At, Serves, Sent
<1>20. CASE AnswerAgent(h) \/ MintConfirmed(h)
    <2>1. handlers[h].pc = "confirmed" /\ Returns(h) /\ UNCHANGED <<beyond, approved, pending>>
          /\ rows' = rows
        BY <1>20 DEF AnswerAgent, MintConfirmed, At
    <2>2. TxMove(h) /\ handlers[h].pc # "queued"
        BY <2>1 DEF TxMove, Sent
    <2> QED BY <1>1, <2>1, <2>2, StoresNothing, ReturnMoves
<1>21. CASE SendMint(h)
    BY <1>21, SendMoves DEF SendMint, At, Serves, Sent
<1> QED BY <1>2, <1>3, <1>4, <1>5, <1>6, <1>7, <1>8, <1>9, <1>10, <1>11, <1>12, <1>13,
           <1>14, <1>15, <1>16, <1>17, <1>18, <1>19, <1>20, <1>21 DEF HandlerStep

-----------------------------------------------------------------------------
(* The chain moves on *)

\* What a call on chain does to one job.
Grew(j) ==
    /\ Behind(chain[j], chain'[j])
    /\ chain'[j].status # "None"
    /\ chain'[j].status \in {"Open", "Funded"} => chain'[j].deliverable = NoHash

\* What a step of the chain does to all of them.
ChainGrows ==
    /\ chain' \in [JobIds -> JobOnChain]
    /\ \A j \in JobIds : chain'[j] = chain[j] \/ Grew(j)
    /\ \A j \in JobIds : chain'[j].status \notin {"None", "Open"} => rows[j] # NoRow

LEMMA ShowsForm ==
    ASSUME TypeOK, NEW j \in JobIds, NEW status \in Phases,
           NEW evaluator \in Addresses \cup {NoAddress}, NEW hash \in Hashes \cup {NoHash},
           Shows(j, status, evaluator, hash)
    PROVE  /\ chain' \in [JobIds -> JobOnChain] /\ chain[j] \in JobOnChain
           /\ \A i \in JobIds \ {j} : chain'[i] = chain[i]
           /\ chain'[j].status = status /\ chain'[j].evaluator = evaluator
           /\ chain'[j].deliverable = hash
<1>1. chain \in [JobIds -> JobOnChain]
    BY DEF TypeOK, ChainTypeOK
<1> DEFINE new == [status |-> status, evaluator |-> evaluator, deliverable |-> hash,
                   attempt |-> chain[j].attempt]
<1>2. new \in JobOnChain /\ chain[j] \in JobOnChain
    BY <1>1 DEF JobOnChain
<1>3. chain' = [chain EXCEPT ![j] = new]
    BY DEF Shows
<1>4. new.status = status /\ new.evaluator = evaluator /\ new.deliverable = hash
    OBVIOUS
<1> HIDE DEF new
<1> QED BY <1>1, <1>2, <1>3, <1>4

LEMMA ShownGrows ==
    ASSUME ApiInv, NEW j \in JobIds, chain' \in [JobIds -> JobOnChain],
           \A i \in JobIds \ {j} : chain'[i] = chain[i], Grew(j),
           chain'[j].status \notin {"None", "Open"} => rows[j] # NoRow
    PROVE  ChainGrows
BY DEF ChainGrows, ApiInv, KnownInv

LEMMA JobForm ==
    ASSUME ApiInv, NEW j \in JobIds
    PROVE  /\ TypeOK /\ chain[j] \in JobOnChain
           /\ chain[j].evaluator \in Addresses \cup {NoAddress}
           /\ chain[j].deliverable \in Hashes \cup {NoHash}
           /\ chain[j].status \in {"Open", "Funded"} => chain[j].deliverable = NoHash
           /\ chain[j].status \notin {"None", "Open"} => rows[j] # NoRow
BY DEF ApiInv, KnownInv, ChainInv, TypeOK, ChainTypeOK, JobOnChain

LEMMA CreateGrows ==
    ASSUME ApiInv, NEW j \in JobIds, NEW evaluator \in Addresses \cup {NoAddress},
           ChainCreate(j, evaluator)
    PROVE  /\ ChainGrows /\ chain'[j].status = "Open" /\ chain'[j].evaluator = evaluator
           /\ chain'[j].deliverable = NoHash
<1>1. chain[j] = Absent /\ Shows(j, "Open", evaluator, NoHash)
    BY DEF ChainCreate
<1>2. /\ chain' \in [JobIds -> JobOnChain]
      /\ \A i \in JobIds \ {j} : chain'[i] = chain[i]
      /\ chain'[j].status = "Open" /\ chain'[j].evaluator = evaluator
      /\ chain'[j].deliverable = NoHash
    BY <1>1, JobForm, ShowsForm DEF Phases
<1>3. Grew(j)
    BY <1>1, <1>2, AbsentBehind DEF Grew
<1> QED BY <1>2, <1>3, ShownGrows

LEMMA FundGrows ==
    ASSUME ApiInv, NEW j \in JobIds, NEW evaluator \in Addresses, ChainFund(j, evaluator),
           rows[j] # NoRow
    PROVE  ChainGrows /\ chain'[j].status = "Funded"
<1>1. /\ chain[j].status = "Open" /\ chain[j].evaluator \in {NoAddress, evaluator}
      /\ Shows(j, "Funded", evaluator, chain[j].deliverable)
    BY DEF ChainFund
<1>2. /\ chain' \in [JobIds -> JobOnChain]
      /\ \A i \in JobIds \ {j} : chain'[i] = chain[i]
      /\ chain'[j].status = "Funded" /\ chain'[j].evaluator = evaluator
      /\ chain'[j].deliverable = chain[j].deliverable
    BY <1>1, JobForm, ShowsForm DEF Phases
<1>3. Grew(j)
    BY <1>1, <1>2, JobForm, MovesOn DEF Grew
<1> QED BY <1>2, <1>3, ShownGrows

LEMMA SubmitGrows ==
    ASSUME ApiInv, NEW j \in JobIds, NEW hash \in Hashes \cup {NoHash}, ChainSubmit(j, hash)
    PROVE  ChainGrows /\ chain'[j].status = "Submitted" /\ chain'[j].deliverable = hash
<1>1. chain[j].status = "Funded" /\ Shows(j, "Submitted", chain[j].evaluator, hash)
    BY DEF ChainSubmit
<1>2. /\ chain' \in [JobIds -> JobOnChain]
      /\ \A i \in JobIds \ {j} : chain'[i] = chain[i]
      /\ chain'[j].status = "Submitted" /\ chain'[j].evaluator = chain[j].evaluator
      /\ chain'[j].deliverable = hash
    BY <1>1, JobForm, ShowsForm DEF Phases
<1>3. Grew(j)
    BY <1>1, <1>2, JobForm, MovesOn DEF Grew
<1> QED BY <1>1, <1>2, <1>3, JobForm, ShownGrows

LEMMA VerdictGrows ==
    ASSUME ApiInv, NEW j \in JobIds, NEW verdict \in {"Completed", "Rejected"},
           Turns(j, verdict), chain[j].status \in {"Funded", "Submitted"}
    PROVE  ChainGrows /\ chain'[j].status = verdict
<1>1. Shows(j, verdict, chain[j].evaluator, chain[j].deliverable)
    BY DEF Turns
<1>2. verdict \in Phases /\ verdict \in Terminal
    BY DEF Phases, Terminal
<1>3. /\ chain' \in [JobIds -> JobOnChain]
      /\ \A i \in JobIds \ {j} : chain'[i] = chain[i]
      /\ chain'[j].status = verdict /\ chain'[j].evaluator = chain[j].evaluator
      /\ chain'[j].deliverable = chain[j].deliverable
    BY <1>1, <1>2, JobForm, ShowsForm
<1>4. Behind(chain[j], chain'[j])
    BY <1>2, <1>3, JobForm, MovesOn
<1>5. Grew(j)
    BY <1>3, <1>4 DEF Grew
<1> QED BY <1>3, <1>5, JobForm, ShownGrows

LEMMA WorldKeeps ==
    ASSUME ApiInv, ChainGrows, NodesSee
    PROVE  /\ ChainTypeOK' /\ replica' \in [JobIds -> JobOnChain]
           /\ ChainInv'
           /\ \A j \in JobIds : Behind(chain[j], chain'[j])
<1>1. TypeOK /\ ChainInv
    BY DEF ApiInv
<1>2. ASSUME NEW j \in JobIds
      PROVE  Behind(chain[j], chain'[j])
    BY BehindSelf DEF ChainGrows, Grew
<1>3. ASSUME NEW j \in JobIds
      PROVE  /\ chain'[j].status = "None" => chain'[j] = Absent
             /\ chain'[j].status \in {"Open", "Funded"} => chain'[j].deliverable = NoHash
    BY <1>1 DEF ChainInv, ChainGrows, Grew
<1>4. ASSUME NEW j \in JobIds
      PROVE  (replica'[j].status = "None" => replica'[j] = Absent) /\ Behind(replica'[j], chain'[j])
    <2>1. CASE replica' = replica
        BY <1>1, <1>2, <2>1, BehindTransitive DEF ChainInv
    <2>2. CASE replica' = chain'
        BY <1>3, <2>2, BehindSelf
    <2> QED BY <2>1, <2>2 DEF NodesSee
<1> QED BY <1>1, <1>2, <1>3, <1>4 DEF ChainInv, ChainTypeOK, ChainGrows, NodesSee, TypeOK

-----------------------------------------------------------------------------
(* A transaction is mined *)

\* The waiting handler goes to `pc` with job j, and nobody else moves.
Answered(tx, pc, j) ==
    /\ handlers' \in [Handlers -> Handler]
    /\ \A g \in Handlers : g # tx.by => handlers'[g] = handlers[g]
    /\ tx.by # NoHandler =>
          /\ handlers'[tx.by].kind = handlers[tx.by].kind
          /\ handlers'[tx.by].hash = handlers[tx.by].hash
          /\ handlers'[tx.by].attempt = handlers[tx.by].attempt
          /\ handlers'[tx.by].fresh = handlers[tx.by].fresh
          /\ handlers'[tx.by].evaluator = tx.evaluator
          /\ handlers'[tx.by].pc = pc
          /\ handlers'[tx.by].job = j

LEMMA ToldForm ==
    ASSUME TypeOK, NEW tx \in Tx, NEW pc \in Steps, NEW j \in JobIds \cup {0},
           Told(tx, pc, j, tx.evaluator)
    PROVE  Answered(tx, pc, j)
<1>1. handlers \in [Handlers -> Handler] /\ tx.by \in Handlers \cup {NoHandler}
      /\ tx.evaluator \in Addresses \cup {NoAddress} /\ NoHandler \notin Handlers
    BY ApiAssumption DEF TypeOK, Tx
<1>2. CASE tx.by = NoHandler
    BY <1>1, <1>2 DEF Told, Answered
<1>3. CASE tx.by # NoHandler
    <2> DEFINE g == tx.by
               e == tx.evaluator
    <2>1. handlers' = [handlers EXCEPT ![g].pc = pc, ![g].job = j, ![g].evaluator = e]
        BY <1>3 DEF Told
    <2>2. g \in Handlers /\ e \in Addresses \cup {NoAddress}
        BY <1>1, <1>3
    <2> HIDE DEF g, e
    <2>3. /\ handlers' \in [Handlers -> Handler]
          /\ \A f \in Handlers : f # g => handlers'[f] = handlers[f]
          /\ handlers'[g].kind = handlers[g].kind /\ handlers'[g].hash = handlers[g].hash
          /\ handlers'[g].attempt = handlers[g].attempt /\ handlers'[g].fresh = handlers[g].fresh
          /\ handlers'[g].evaluator = e /\ handlers'[g].pc = pc /\ handlers'[g].job = j
        <3>1. handlers[g] \in Handler
            BY <1>1, <2>2
        <3>2. [handlers[g] EXCEPT !.pc = pc, !.job = j, !.evaluator = e] \in Handler
            BY <2>2, <3>1 DEF Handler
        <3>3. handlers' = [handlers EXCEPT ![g] =
                              [handlers[g] EXCEPT !.pc = pc, !.job = j, !.evaluator = e]]
            BY <1>1, <2>1, <2>2, <3>1 DEF Handler
        <3>4. /\ handlers' \in [Handlers -> Handler]
              /\ \A f \in Handlers : f # g => handlers'[f] = handlers[f]
              /\ handlers'[g] = [handlers[g] EXCEPT !.pc = pc, !.job = j, !.evaluator = e]
            BY <1>1, <2>2, <3>2, <3>3
        <3> QED BY <3>1, <3>4 DEF Handler
    <2> QED BY <2>3, Zenon DEF Answered, g, e
<1> QED BY <1>2, <1>3

\* What mining tx comes to.
Outcome(tx, pc, j) ==
    /\ pc \in {"visible", "send", "confirmed", "reverted"}
    /\ pc = "visible" => tx.kind = "create"
    /\ tx.kind = "approve" => pc # "confirmed"
    /\ j = tx.job \/ (pc = "visible" /\ j \in JobIds)
    /\ Answered(tx, pc, j)
    /\ pc = "visible" \/ (pc = "confirmed" /\ tx.kind \in JobKinds) =>
          j \in JobIds /\ Behind(Learned(tx), chain'[j])
    /\ ChainGrows
    /\ approved' \in BOOLEAN

LEMMA SameChainGrows ==
    ASSUME ApiInv, chain' = chain
    PROVE  ChainGrows
BY DEF ChainGrows, ApiInv, KnownInv, TypeOK, ChainTypeOK

LEMMA Verdict ==
    ASSUME NEW hd, NEW job, hd.kind \in JobKinds, job.status = Learned(hd).status,
           hd.kind = "submit" => job.deliverable = hd.hash
    PROVE  Behind(Learned(hd), job)
<1>1. /\ Learned(hd).evaluator = NoAddress
      /\ Learned(hd).deliverable \in {NoHash, job.deliverable}
    BY DEF Learned, JobKinds
<1>2. Rank(Learned(hd).status) <= Rank(job.status)
    BY RankOrders
<1> QED BY <1>1, <1>2, Zenon DEF Behind, Nobody

LEMMA MineOutcome ==
    ASSUME ApiInv, NEW tx \in Tx,
           tx.kind \in JobKinds => tx.job \in JobIds /\ rows[tx.job] # NoRow,
           \/ Executes(tx)
           \/ Told(tx, "reverted", tx.job, tx.evaluator) /\ UNCHANGED <<chain, approved>>
    PROVE  \E pc, j : Outcome(tx, pc, j)
<1>1. /\ TypeOK /\ {"visible", "send", "confirmed", "reverted"} \subseteq Steps
      /\ tx.job \in JobIds \cup {0} /\ tx.evaluator \in Addresses \cup {NoAddress}
      /\ tx.hash \in Hashes \cup {NoHash} /\ approved \in BOOLEAN
    BY DEF ApiInv, TypeOK, Steps, Tx
<1>2. CASE Told(tx, "reverted", tx.job, tx.evaluator) /\ UNCHANGED <<chain, approved>>
    <2>1. Answered(tx, "reverted", tx.job) /\ ChainGrows
        BY <1>1, <1>2, ToldForm, SameChainGrows
    <2>2. Outcome(tx, "reverted", tx.job)
        BY <1>1, <1>2, <2>1 DEF Outcome
    <2> QED BY <2>2
<1>3. ASSUME NEW j \in JobIds, tx.kind = "create", ChainCreate(j, tx.evaluator),
             Told(tx, "visible", j, tx.evaluator), approved' = approved
      PROVE  \E pc, i : Outcome(tx, pc, i)
    <2>1. Answered(tx, "visible", j)
        BY <1>1, <1>3, ToldForm
    <2>2. ChainGrows /\ chain'[j].status = "Open" /\ chain'[j].evaluator = tx.evaluator
          /\ chain'[j].deliverable = NoHash
        BY <1>1, <1>3, CreateGrows
    <2>3. /\ Learned(tx).status = "Open" /\ Learned(tx).evaluator = tx.evaluator
          /\ Learned(tx).deliverable = NoHash
        BY <1>3 DEF Learned
    <2>4. Rank("Open") <= Rank("Open") /\ "Open" \notin Terminal
        BY RankOrders DEF Terminal
    <2>5. Behind(Learned(tx), chain'[j])
        BY <2>2, <2>3, <2>4 DEF Behind
    <2>6. Outcome(tx, "visible", j)
        BY <1>1, <1>3, <2>1, <2>2, <2>5 DEF Outcome
    <2> QED BY <2>6
<1>4. CASE tx.kind = "approve" /\ approved' = TRUE /\ chain' = chain
           /\ Told(tx, "send", tx.job, tx.evaluator)
    <2>1. Answered(tx, "send", tx.job) /\ ChainGrows
        BY <1>1, <1>4, ToldForm, SameChainGrows
    <2>2. Outcome(tx, "send", tx.job)
        BY <1>1, <1>4, <2>1 DEF Outcome
    <2> QED BY <2>2
<1>5. CASE tx.kind \in {"setBudget", "seed", "faucet"} /\ UNCHANGED <<chain, approved>>
           /\ Told(tx, "confirmed", tx.job, tx.evaluator)
    <2>1. Answered(tx, "confirmed", tx.job) /\ ChainGrows
        BY <1>1, <1>5, ToldForm, SameChainGrows
    <2>2. Outcome(tx, "confirmed", tx.job)
        BY <1>1, <1>5, <2>1 DEF Outcome, JobKinds
    <2> QED BY <2>2
<1>6. ASSUME tx.kind \in JobKinds, ChainGrows, chain'[tx.job].status = Learned(tx).status,
             tx.kind = "submit" => chain'[tx.job].deliverable = tx.hash,
             Told(tx, "confirmed", tx.job, tx.evaluator), approved' = approved
      PROVE  \E pc, j : Outcome(tx, pc, j)
    <2>1. Answered(tx, "confirmed", tx.job)
        BY <1>1, <1>6, ToldForm
    <2>2. Behind(Learned(tx), chain'[tx.job]) /\ tx.job \in JobIds
        BY <1>6, Verdict
    <2>3. Outcome(tx, "confirmed", tx.job)
        BY <1>1, <1>6, <2>1, <2>2 DEF Outcome, JobKinds
    <2> QED BY <2>3
<1>7. ASSUME Told(tx, "confirmed", tx.job, tx.evaluator), approved' = approved,
             \/ tx.kind = "fund" /\ \E evaluator \in Addresses : ChainFund(tx.job, evaluator)
             \/ tx.kind = "submit" /\ ChainSubmit(tx.job, tx.hash)
             \/ tx.kind = "complete" /\ ChainComplete(tx.job)
             \/ /\ tx.kind = "reject" /\ chain[tx.job].status \in {"Funded", "Submitted"}
                /\ ChainReject(tx.job)
      PROVE  \E pc, j : Outcome(tx, pc, j)
    <2>1. tx.kind \in JobKinds /\ tx.job \in JobIds /\ rows[tx.job] # NoRow
        BY <1>7 DEF JobKinds
    <2>2. ASSUME tx.kind = "fund", NEW evaluator \in Addresses, ChainFund(tx.job, evaluator)
          PROVE  ChainGrows /\ chain'[tx.job].status = Learned(tx).status
        BY <2>1, <2>2, FundGrows DEF Learned
    <2>3. ASSUME tx.kind = "submit", ChainSubmit(tx.job, tx.hash)
          PROVE  ChainGrows /\ chain'[tx.job].status = Learned(tx).status
                 /\ chain'[tx.job].deliverable = tx.hash
        BY <1>1, <2>1, <2>3, SubmitGrows DEF Learned
    <2>4. ASSUME tx.kind = "complete", ChainComplete(tx.job)
          PROVE  ChainGrows /\ chain'[tx.job].status = Learned(tx).status
        BY <2>1, <2>4, VerdictGrows DEF Learned, ChainComplete
    <2>5. ASSUME tx.kind = "reject", chain[tx.job].status \in {"Funded", "Submitted"},
                 ChainReject(tx.job)
          PROVE  ChainGrows /\ chain'[tx.job].status = Learned(tx).status
        BY <2>1, <2>5, VerdictGrows DEF Learned, ChainReject
    <2> QED BY <1>6, <1>7, <2>1, <2>2, <2>3, <2>4, <2>5
<1> QED BY <1>2, <1>3, <1>4, <1>5, <1>7 DEF Executes

LEMMA OutcomeKeeps ==
    ASSUME ApiInv, NEW w \in Wallets, pending[w] # <<>>,
           pending' = [pending EXCEPT ![w] = Tail(@)], NodesSee,
           UNCHANGED <<rows, queue, readers, load, restarts, legacy>>,
           NEW pc, NEW j, Outcome(Head(pending[w]), pc, j)
    PROVE  ApiInv'
<1> DEFINE tx == Head(pending[w])
<1>1. /\ TypeOK /\ ChainInv /\ RowsInv /\ KnownInv /\ LearnedInv /\ PlacesInv /\ TxInv /\ SlotInv
      /\ NoHandler \notin Handlers
    BY ApiAssumption DEF ApiInv
<1>2. /\ pending \in [Wallets -> Seq(Tx)] /\ pending[w] \in Seq(Tx)
      /\ \A v \in Wallets : Len(pending[v]) \in Nat
    BY <1>1, LenProperties DEF TypeOK
<1>3. /\ tx = pending[w][1] /\ 1 \in 1 .. Len(pending[w]) /\ tx \in Tx
      /\ Tail(pending[w]) \in Seq(Tx) /\ Len(Tail(pending[w])) = Len(pending[w]) - 1
      /\ \A i \in 1 .. Len(pending[w]) - 1 : Tail(pending[w])[i] = pending[w][i + 1]
    BY <1>2, HeadIsFirst, ElementOfSeq
<1>4. pending' \in [Wallets -> Seq(Tx)]
    BY <1>2, <1>3
<1>5. Outcome(tx, pc, j)
    OBVIOUS
<1> HIDE DEF tx
\* What is left of the transactions is not what was mined.
<1>6. ASSUME NEW v \in Wallets, NEW i \in 1 .. Len(pending'[v])
      PROVE  \E k \in 1 .. Len(pending[v]) :
                /\ pending'[v][i] = pending[v][k]
                /\ k = IF v = w THEN i + 1 ELSE i
                /\ pending[v][k].by # NoHandler => pending[v][k].by # tx.by
    <2>1. CASE v = w
        <3>1. pending'[v] = Tail(pending[w])
            BY <1>2, <2>1
        <3>2. i \in 1 .. Len(pending[w]) - 1
            BY <1>3, <3>1
        <3>3. i + 1 \in 1 .. Len(pending[w]) /\ i + 1 # 1
            BY <1>2, <3>2
        <3>4. pending'[v][i] = pending[w][i + 1]
            BY <1>3, <3>1, <3>2
        <3>5. pending[w][i + 1].by # NoHandler => pending[w][i + 1].by # tx.by
            BY <1>1, <1>3, <3>3 DEF TxInv
        <3> QED BY <2>1, <3>3, <3>4, <3>5
    <2>2. CASE v # w
        <3>1. pending'[v] = pending[v]
            BY <1>2, <2>2
        <3>2. pending[v][i].by # NoHandler => v = WalletOf(handlers[pending[v][i].by].kind)
            BY <1>1, <3>1 DEF TxInv
        <3>3. tx.by # NoHandler => w = WalletOf(handlers[tx.by].kind)
            BY <1>1, <1>3 DEF TxInv
        <3>4. pending[v][i].by # NoHandler => pending[v][i].by # tx.by
            BY <2>2, <3>2, <3>3
        <3> QED BY <2>2, <3>1, <3>4
    <2> QED BY <2>1, <2>2
\* What its handler was doing.
<1>7. tx.by # NoHandler => tx.by \in Handlers /\ Awaits(handlers[tx.by], tx)
    BY <1>1, <1>3 DEF TxInv, Tx
<1>8. ASSUME NEW g \in Handlers
      PROVE  \/ handlers'[g] = handlers[g]
             \/ /\ g = tx.by /\ Awaits(handlers[g], tx)
                /\ handlers'[g].kind = handlers[g].kind /\ handlers'[g].hash = handlers[g].hash
                /\ handlers'[g].attempt = handlers[g].attempt
                /\ handlers'[g].fresh = handlers[g].fresh
                /\ handlers'[g].evaluator = handlers[g].evaluator
                /\ handlers'[g].pc = pc /\ handlers'[g].job = j
    <2>1. CASE g # tx.by
        BY <1>5, <2>1 DEF Outcome, Answered
    <2>2. CASE g = tx.by
        <3>1. Awaits(handlers[g], tx) /\ tx.by # NoHandler
            BY <1>1, <1>7, <2>2
        <3>2. tx.evaluator = handlers[g].evaluator
            BY <3>1 DEF Awaits
        <3> QED BY <1>5, <2>2, <3>1, <3>2 DEF Outcome, Answered
    <2> QED BY <2>1, <2>2
<1>9. pc \in {"visible", "send", "confirmed", "reverted"}
    BY <1>5 DEF Outcome
<1>10. /\ ChainTypeOK' /\ replica' \in [JobIds -> JobOnChain] /\ ChainInv'
       /\ \A i \in JobIds : Behind(chain[i], chain'[i])
       /\ \A i \in JobIds : chain'[i].status \notin {"None", "Open"} => rows[i] # NoRow
    BY <1>5, WorldKeeps DEF Outcome, ChainGrows
<1>11. TypeOK'
    <2>1. ASSUME NEW g \in Handlers
          PROVE  \/ handlers'[g] = Idle
                 \/ /\ handlers'[g].kind # "none" /\ handlers'[g].pc # "idle"
                    /\ handlers'[g].attempt # 0
        <3>1. \/ handlers[g] = Idle
              \/ handlers[g].kind # "none" /\ handlers[g].pc # "idle" /\ handlers[g].attempt # 0
            BY <1>1 DEF TypeOK
        <3>2. Awaits(handlers[g], tx) => handlers[g] # Idle
            BY DEF Awaits, Idle
        <3> QED BY <1>8, <1>9, <3>1, <3>2
    <2>2. handlers' \in [Handlers -> Handler] /\ approved' \in BOOLEAN
        BY <1>5 DEF Outcome, Answered
    <2> QED BY <1>1, <1>4, <1>10, <2>1, <2>2 DEF TypeOK
<1>12. RowsInv'
    <2> SUFFICES ASSUME NEW i \in JobIds
                 PROVE  rows[i] = NoRow \/ Behind(rows[i], chain'[i])
        BY DEF RowsInv
    <2>1. rows[i] = NoRow \/ Behind(rows[i], chain[i])
        BY <1>1 DEF RowsInv
    <2> QED BY <1>10, <2>1, BehindTransitive
<1>13. KnownInv'
    <2>1. ASSUME NEW g \in Handlers, handlers'[g].kind \in JobKinds
          PROVE  handlers'[g].job \in JobIds /\ rows[handlers'[g].job] # NoRow
        <3>1. handlers'[g].kind = handlers[g].kind /\ handlers'[g].job = handlers[g].job
            <4>1. CASE handlers'[g] = handlers[g]
                BY <4>1
            <4>2. CASE handlers'[g] # handlers[g]
                <5>1. /\ Awaits(handlers[g], tx) /\ handlers'[g].kind = handlers[g].kind
                      /\ handlers'[g].job = j
                    BY <1>8, <4>2
                <5>2. tx.kind # "create" /\ tx.job = handlers[g].job
                    BY <2>1, <5>1 DEF Awaits, JobKinds
                <5>3. j = tx.job
                    BY <1>5, <5>2 DEF Outcome
                <5> QED BY <5>1, <5>2, <5>3
            <4> QED BY <4>1, <4>2
        <3> QED BY <1>1, <2>1, <3>1 DEF KnownInv
    <2>2. ASSUME NEW v \in Wallets, NEW i \in 1 .. Len(pending'[v]),
                 pending'[v][i].kind \in JobKinds
          PROVE  pending'[v][i].job \in JobIds /\ rows[pending'[v][i].job] # NoRow
        <3>1. PICK k \in 1 .. Len(pending[v]) : pending'[v][i] = pending[v][k]
            BY <1>6
        <3> QED BY <1>1, <2>2, <3>1 DEF KnownInv
    <2> QED BY <1>1, <1>10, <2>1, <2>2, Zenon DEF KnownInv
<1>14. LearnedInv'
    <2> SUFFICES ASSUME NEW g \in Handlers, Knows(handlers'[g])
                 PROVE  /\ handlers'[g].job \in JobIds
                        /\ Behind(Learned(handlers'[g]), chain'[handlers'[g].job])
        BY DEF LearnedInv
    <2>1. CASE /\ Knows(handlers[g]) /\ Learned(handlers'[g]) = Learned(handlers[g])
               /\ handlers'[g].job = handlers[g].job
        <3>1. /\ handlers[g].job \in JobIds
              /\ Behind(Learned(handlers[g]), chain[handlers[g].job])
            BY <1>1, <2>1 DEF LearnedInv
        <3>2. Behind(Learned(handlers[g]), chain'[handlers[g].job])
            BY <1>10, <3>1, BehindTransitive
        <3> QED BY <2>1, <3>1, <3>2
    <2>2. CASE handlers'[g] = handlers[g]
        BY <2>1, <2>2
    <2>3. CASE handlers'[g] # handlers[g]
        <3>1. /\ Awaits(handlers[g], tx) /\ handlers'[g].kind = handlers[g].kind
              /\ handlers'[g].hash = handlers[g].hash
              /\ handlers'[g].evaluator = handlers[g].evaluator
              /\ handlers'[g].pc = pc /\ handlers'[g].job = j
            BY <1>8, <2>3
        <3>2. tx.job = handlers[g].job /\ tx.hash = handlers[g].hash
              /\ tx.evaluator = handlers[g].evaluator
            BY <3>1 DEF Awaits
        <3>3. Learned(handlers'[g]) = Learned(handlers[g])
            BY <3>1 DEF Learned
        <3>4. CASE pc = "visible" \/ (pc = "confirmed" /\ tx.kind \in JobKinds)
            <4>1. tx.kind = handlers[g].kind
                BY <1>5, <3>1, <3>4 DEF Outcome, Awaits, JobKinds
            <4>2. Learned(tx) = Learned(handlers'[g])
                BY <3>1, <3>2, <4>1 DEF Learned
            <4>3. j \in JobIds /\ Behind(Learned(tx), chain'[j])
                BY <1>5, <3>4 DEF Outcome
            <4> QED BY <3>1, <4>2, <4>3
        <3>5. CASE ~(pc = "visible" \/ (pc = "confirmed" /\ tx.kind \in JobKinds))
            <4>1. j = handlers[g].job
                BY <1>5, <3>2, <3>5 DEF Outcome
            <4>2. handlers'[g].kind = "create" /\ handlers'[g].job # 0
                <5>1. tx.kind = "approve" => pc # "confirmed"
                    BY <1>5 DEF Outcome
                <5>2. ~(handlers'[g].kind \in JobKinds /\ pc = "confirmed")
                    BY <3>1, <3>5, <5>1 DEF Awaits, JobKinds
                <5> QED BY <1>9, <3>1, <5>2 DEF Knows
            <4>3. Knows(handlers[g])
                BY <3>1, <4>1, <4>2 DEF Knows
            <4> QED BY <2>1, <3>1, <3>3, <4>1, <4>3
        <3> QED BY <3>4, <3>5
    <2> QED BY <2>2, <2>3
<1>15. PlacesInv'
    <2> SUFFICES ASSUME NEW g \in Handlers PROVE PlaceOfKind(handlers'[g])
        BY DEF PlacesInv
    <2>1. CASE handlers'[g] = handlers[g]
        BY <1>1, <2>1 DEF PlacesInv
    <2>2. CASE handlers'[g] # handlers[g]
        <3>1. Awaits(handlers[g], tx) /\ handlers'[g].kind = handlers[g].kind
              /\ handlers'[g].pc = pc
            BY <1>8, <2>2
        <3>2. pc = "visible" => handlers[g].kind = "create"
            BY <1>5, <3>1 DEF Outcome, Awaits
        <3> QED BY <1>9, <3>1, <3>2 DEF PlaceOfKind
    <2> QED BY <2>1, <2>2
<1>16. TxInv'
    <2>1. ASSUME NEW v \in Wallets, NEW i \in 1 .. Len(pending'[v]),
                 pending'[v][i].by # NoHandler
          PROVE  /\ v = WalletOf(handlers'[pending'[v][i].by].kind)
                 /\ Awaits(handlers'[pending'[v][i].by], pending'[v][i])
        <3> DEFINE g == pending'[v][i].by
        <3>1. PICK k \in 1 .. Len(pending[v]) :
                 pending'[v][i] = pending[v][k] /\ g # tx.by
            BY <1>6, <2>1, SMTT(30)
        <3>2. g \in Handlers
            <4>1. pending[v][k] \in Tx
                BY <1>2, ElementOfSeq
            <4> QED BY <2>1, <3>1, <4>1 DEF Tx
        <3>3. v = WalletOf(handlers[g].kind) /\ Awaits(handlers[g], pending[v][k])
            BY <1>1, <2>1, <3>1 DEF TxInv
        <3>4. handlers'[g] = handlers[g]
            BY <1>8, <3>1, <3>2
        <3> QED BY <3>1, <3>3, <3>4
    <2>2. ASSUME NEW v \in Wallets, NEW i \in 1 .. Len(pending'[v]), NEW k \in 1 .. Len(pending'[v]),
                 pending'[v][i].by = pending'[v][k].by, i # k
          PROVE  pending'[v][i].by = NoHandler
        <3>1. PICK a \in 1 .. Len(pending[v]) :
                 pending'[v][i] = pending[v][a] /\ a = IF v = w THEN i + 1 ELSE i
            BY <1>6
        <3>2. PICK b \in 1 .. Len(pending[v]) :
                 pending'[v][k] = pending[v][b] /\ b = IF v = w THEN k + 1 ELSE k
            BY <1>6
        <3>3. a # b
            BY <2>2, <3>1, <3>2
        <3> QED BY <1>1, <2>2, <3>1, <3>2, <3>3 DEF TxInv
    <2> QED BY <2>1, <2>2, Zenon DEF TxInv
<1>17. SlotInv'
    <2>1. ASSUME NEW g \in Handlers
          PROVE  /\ handlers'[g].kind = handlers[g].kind
                 /\ handlers'[g].fresh = handlers[g].fresh
                 /\ HasTurn(handlers'[g]) => HasTurn(handlers[g])
                 /\ \/ handlers'[g].pc = handlers[g].pc
                    \/ handlers'[g].pc \notin {"preflight", "queued"}
        BY <1>8, <1>9 DEF HasTurn, Awaits
    <2>2. \A v \in {Client, Deployer} : \A i \in 1 .. Len(queue[v]) : queue[v][i] \in Handlers
        BY <1>1, ElementOfSeq DEF TypeOK
    <2>3. ASSUME NEW v \in {Client, Deployer}, NEW i \in 1 .. Len(queue[v])
          PROVE  /\ handlers'[queue[v][i]].kind \in Queued
                 /\ WalletOf(handlers'[queue[v][i]].kind) = v
                 /\ handlers'[queue[v][i]].pc # "preflight"
        BY <1>1, <2>1, <2>2 DEF SlotInv
    <2>4. ASSUME NEW g \in Handlers
          PROVE  /\ HasTurn(handlers'[g]) =>
                       /\ queue[WalletOf(handlers'[g].kind)] # <<>>
                       /\ Head(queue[WalletOf(handlers'[g].kind)]) = g
                 /\ handlers'[g].fresh => handlers'[g].pc \notin {"preflight", "queued"}
        BY <1>1, <2>1 DEF SlotInv
    <2> QED BY <1>1, <2>3, <2>4, Zenon DEF SlotInv
<1> QED BY <1>10, <1>11, <1>12, <1>13, <1>14, <1>15, <1>16, <1>17 DEF ApiInv

-----------------------------------------------------------------------------
(* Readers, the outside world and restarts *)

\* Whoever leaves handlers, transactions and queues alone.
LEMMA QuietKeeps ==
    ASSUME ApiInv, UNCHANGED <<handlers, pending, queue>>
    PROVE  TxInv' /\ SlotInv' /\ PlacesInv'
<1>1. TxInv'
    BY DEF ApiInv, TxInv
<1>2. SlotInv'
    BY DEF ApiInv, SlotInv
<1>3. PlacesInv'
    BY DEF ApiInv, PlacesInv
<1> QED BY <1>1, <1>2, <1>3

\* A step that touches neither the chain nor what knows it takes no row back.
LEMMA StoredKeeps ==
    ASSUME ApiInv, Stores, UNCHANGED <<chain, replica, handlers, pending, legacy>>,
           \A r \in Readers : readers'[r] # NoRow => rows[readers'[r].job] # NoRow,
           readers' \in [Readers -> {NoRow} \cup [job: JobIds, row: Row]]
    PROVE  ChainInv' /\ RowsInv' /\ KnownInv' /\ LearnedInv'
<1>1. ChainInv /\ RowsInv /\ KnownInv /\ LearnedInv
    BY DEF ApiInv
<1>2. ChainInv' /\ LearnedInv'
    BY <1>1 DEF ChainInv, LearnedInv
<1>3. RowsInv'
    BY <1>1, Zenon DEF RowsInv, Stores
<1>4. \A j \in JobIds : rows[j] # NoRow => rows'[j] # NoRow
    BY <1>1, Zenon DEF Stores
<1>5. KnownInv'
    <2>1. \A r \in Readers : readers'[r] # NoRow => rows'[readers'[r].job] # NoRow
        BY <1>4
    <2> QED BY <1>1, <1>4, <2>1, Zenon DEF KnownInv
<1> QED BY <1>2, <1>3, <1>5

LEMMA ReaderKeeps ==
    ASSUME ApiInv, NEW r \in Readers, ReaderStep(r)
    PROVE  ApiInv' /\ restarts' = restarts
<1>1. TypeOK /\ ChainInv /\ RowsInv /\ KnownInv
      /\ readers \in [Readers -> {NoRow} \cup [job: JobIds, row: Row]]
      /\ \A q \in Readers : readers[q] # NoRow =>
            readers[q].job \in JobIds /\ rows[readers[q].job] # NoRow
    BY DEF ApiInv, TypeOK, KnownInv
<1>2. ASSUME NEW j \in JobIds, GetRequest(r, j)
      PROVE  ApiInv' /\ restarts' = restarts
    <2> DEFINE new == [job |-> j, row |-> rows[j]]
    <2>1. /\ readers' = [readers EXCEPT ![r] = new] /\ rows[j] # NoRow
          /\ UNCHANGED <<chain, replica, rows, handlers, pending, approved, queue, load, restarts, legacy>>
        BY <1>2 DEF GetRequest
    <2>2. new \in [job: JobIds, row: Row] /\ new.job = j
        BY <1>1, <2>1 DEF TypeOK
    <2> HIDE DEF new
    <2>3. readers' \in [Readers -> {NoRow} \cup [job: JobIds, row: Row]]
        BY <1>1, <2>1, <2>2
    <2>4. \A q \in Readers : readers'[q] # NoRow => rows[readers'[q].job] # NoRow
        BY <1>1, <2>1, <2>2
    <2>5. TypeOK'
        BY <1>1, <2>1, <2>3 DEF TypeOK, ChainTypeOK
    <2> QED BY <1>1, <2>1, <2>3, <2>4, <2>5, StoresNothing, StoredKeeps, QuietKeeps DEF ApiInv
<1>3. ASSUME NEW j \in JobIds, GetAnswers(r, j)
      PROVE  ApiInv' /\ restarts' = restarts
    <2>1. PICK view \in Views(j) :
             LET read == readers[r].row
                 synced == read.evaluator \in Nobody /\ view.evaluator # NoAddress
             IN  /\ view # Absent
                 /\ rows' = [rows EXCEPT
                       ![j].evaluator = IF synced THEN view.evaluator ELSE @,
                       ![j].status = IF view.status # read.status THEN view.status ELSE @]
        BY <1>3 DEF GetAnswers
    <2>2. /\ readers[r] # NoRow /\ readers[r].job = j /\ readers' = [readers EXCEPT ![r] = NoRow]
          /\ UNCHANGED <<chain, replica, handlers, pending, approved, queue, load, restarts, legacy>>
        BY <1>3 DEF GetAnswers
    <2>3. rows[j] # NoRow /\ rows[j] \in Row /\ rows \in [JobIds -> Row \cup {NoRow}]
          /\ Behind(rows[j], chain[j])
        BY <1>1, <2>2 DEF TypeOK, RowsInv
    <2>4. /\ view \in JobOnChain /\ view.status \in Phases \ {"None"}
          /\ view.evaluator \in Addresses \cup {NoAddress}
          /\ Behind(view, chain[j])
        <3>1. view \in JobOnChain
            BY <1>1 DEF TypeOK, ChainTypeOK, Views
        <3>2. view.status # "None"
            BY <1>1, <2>1 DEF ChainInv, Views
        <3> QED BY <1>1, <3>1, <3>2, ViewsBehind DEF JobOnChain
    <2>5. PICK evaluator \in {rows[j].evaluator, view.evaluator}, status \in {rows[j].status, view.status} :
             rows' = [rows EXCEPT ![j].evaluator = evaluator, ![j].status = status]
        BY <2>1
    <2>6. Stores
        <3> DEFINE new == [rows[j] EXCEPT !.evaluator = evaluator, !.status = status]
        <3>1. /\ new \in Row /\ new.status = status /\ new.evaluator = evaluator
              /\ new.deliverable = rows[j].deliverable
            BY <2>3, <2>4, <2>5 DEF Row
        <3>2. rows' = [rows EXCEPT ![j] = new]
            BY <2>3, <2>5
        <3> HIDE DEF new
        <3>3. Behind(new, chain[j])
            BY <2>3, <2>4, <2>5, <3>1, RowAdvances
        <3> QED BY <3>1, <3>2, <3>3, RowStored
    <2>7. readers' \in [Readers -> {NoRow} \cup [job: JobIds, row: Row]]
          /\ \A q \in Readers : readers'[q] # NoRow => rows[readers'[q].job] # NoRow
        BY <1>1, <2>2
    <2>8. TypeOK'
        BY <1>1, <2>2, <2>6, <2>7 DEF TypeOK, ChainTypeOK, Stores
    <2> QED BY <2>2, <2>6, <2>7, <2>8, StoredKeeps, QuietKeeps DEF ApiInv
<1>4. CASE GetFails(r)
    <2>1. /\ readers' = [readers EXCEPT ![r] = NoRow]
          /\ UNCHANGED <<chain, replica, rows, handlers, pending, approved, queue, load, restarts, legacy>>
        BY <1>4 DEF GetFails
    <2>2. readers' \in [Readers -> {NoRow} \cup [job: JobIds, row: Row]]
          /\ \A q \in Readers : readers'[q] # NoRow => rows[readers'[q].job] # NoRow
        BY <1>1, <2>1
    <2>3. TypeOK'
        BY <1>1, <2>1, <2>2 DEF TypeOK, ChainTypeOK
    <2> QED BY <1>1, <2>1, <2>2, <2>3, StoresNothing, StoredKeeps, QuietKeeps DEF ApiInv
<1> QED BY <1>2, <1>3, <1>4 DEF ReaderStep

LEMMA MineComes ==
    ASSUME ApiInv, NEW w \in Wallets, Mine(w)
    PROVE  \E pc, j : Outcome(Head(pending[w]), pc, j)
<1> DEFINE tx == Head(pending[w])
<1>1. /\ pending[w] # <<>>
      /\ \/ Executes(tx)
         \/ Told(tx, "reverted", tx.job, tx.evaluator) /\ UNCHANGED <<chain, approved>>
    BY DEF Mine
<1>2. pending[w] \in Seq(Tx)
    BY DEF ApiInv, TypeOK
<1>3. 1 \in 1 .. Len(pending[w]) /\ tx = pending[w][1] /\ tx \in Tx
    BY <1>1, <1>2, HeadIsFirst, ElementOfSeq
<1>4. tx.kind \in JobKinds => tx.job \in JobIds /\ rows[tx.job] # NoRow
    BY <1>3 DEF ApiInv, KnownInv
<1> HIDE DEF tx
<1>5. \E pc, j : Outcome(tx, pc, j)
    BY <1>1, <1>3, <1>4, MineOutcome
<1> QED BY <1>5 DEF tx

LEMMA ChainMovesKeep ==
    ASSUME ApiInv, ChainMoves
    PROVE  ApiInv' /\ restarts' = restarts
<1>1. /\ TypeOK /\ ChainInv /\ RowsInv /\ KnownInv /\ LearnedInv
    BY DEF ApiInv
<1>2. ASSUME NEW w \in Wallets, Mine(w)
      PROVE  ApiInv' /\ restarts' = restarts
    <2>1. /\ pending[w] # <<>> /\ pending' = [pending EXCEPT ![w] = Tail(@)] /\ NodesSee
          /\ UNCHANGED <<rows, queue, readers, load, restarts, legacy>>
        BY <1>2 DEF Mine
    <2>2. \E pc, j : Outcome(Head(pending[w]), pc, j)
        BY <1>2, MineComes
    <2> QED BY <2>1, <2>2, OutcomeKeeps
<1>3. ASSUME NEW j \in JobIds, Propagate(j)
      PROVE  ApiInv' /\ restarts' = restarts
    <2>1. /\ replica' = [replica EXCEPT ![j] = chain[j]]
          /\ UNCHANGED <<chain, rows, handlers, pending, approved, queue, readers, load, restarts, legacy>>
        BY <1>3 DEF Propagate
    <2>2. TypeOK'
        BY <1>1, <2>1 DEF TypeOK, ChainTypeOK
    <2>3. ChainInv'
        <3> SUFFICES ASSUME NEW i \in JobIds
                     PROVE  /\ chain[i].status = "None" => chain[i] = Absent
                            /\ chain[i].status \in {"Open", "Funded"} => chain[i].deliverable = NoHash
                            /\ replica'[i].status = "None" => replica'[i] = Absent
                            /\ Behind(replica'[i], chain[i])
            BY <2>1 DEF ChainInv
        <3>1. replica'[i] \in {replica[i], chain[i]}
            BY <1>1, <2>1 DEF TypeOK
        <3> QED BY <1>1, <3>1, BehindSelf DEF ChainInv
    <2>4. RowsInv' /\ KnownInv' /\ LearnedInv'
        BY <1>1, <2>1 DEF RowsInv, KnownInv, LearnedInv
    <2> QED BY <2>1, <2>2, <2>3, <2>4, QuietKeeps DEF ApiInv
<1>4. ASSUME NEW j \in JobIds, OutsideCall(j)
      PROVE  ApiInv' /\ restarts' = restarts
    <2>1. /\ NodesSee
          /\ UNCHANGED <<rows, handlers, pending, approved, queue, readers, load, restarts, legacy>>
        BY <1>4 DEF OutsideCall
    <2>2. ChainGrows
        <3>1. ASSUME NEW hash \in load.hashes, ChainSubmit(j, hash)
              PROVE  ChainGrows
            <4>1. hash \in Hashes
                BY <1>1, LoadForm
            <4> QED BY <3>1, <4>1, SubmitGrows
        <3>2. ASSUME ChainComplete(j)
              PROVE  ChainGrows
            BY <3>2, VerdictGrows DEF ChainComplete
        <3>3. ASSUME ChainReject(j), chain[j].status # "Open"
              PROVE  ChainGrows
            BY <3>3, VerdictGrows DEF ChainReject
        <3> QED BY <1>4, <3>1, <3>2, <3>3 DEF OutsideCall
    <2>3. /\ ChainTypeOK' /\ replica' \in [JobIds -> JobOnChain] /\ ChainInv'
          /\ \A i \in JobIds : Behind(chain[i], chain'[i])
          /\ \A i \in JobIds : chain'[i].status \notin {"None", "Open"} => rows[i] # NoRow
        BY <2>1, <2>2, WorldKeeps DEF ChainGrows
    <2>4. TypeOK'
        BY <1>1, <2>1, <2>3 DEF TypeOK
    <2>5. RowsInv' /\ LearnedInv'
        BY <1>1, <2>1, <2>3, BehindTransitive DEF RowsInv, LearnedInv
    <2>6. KnownInv'
        BY <1>1, <2>1, <2>3 DEF KnownInv
    <2> QED BY <2>1, <2>3, <2>4, <2>5, <2>6, QuietKeeps DEF ApiInv
<1> QED BY <1>2, <1>3, <1>4 DEF ChainMoves

\* A row is imported only for a job that has none.
LEMMA ImportForm ==
    ASSUME NEW file, NEW table, NEW j \in JobIds, table[j] # NoRow
    PROVE  Imported(file, table)[j] = table[j]
BY DEF Imported

LEMMA RestartKeeps ==
    ASSUME ApiInv, Restart
    PROVE  ApiInv'
<1>1. /\ TypeOK /\ ChainInv /\ RowsInv /\ KnownInv /\ ApiAssumption
    BY ApiAssumption DEF ApiInv
<1>2. /\ restarts < load.restarts /\ restarts' = restarts + 1
      /\ handlers' = [h \in Handlers |-> Idle] /\ queue' = [w \in DOMAIN queue |-> <<>>]
      /\ rows' = Imported(legacy, rows) /\ legacy' \in {legacy, NoRows}
      /\ readers' = [r \in Readers |-> NoRow]
      /\ UNCHANGED <<chain, replica, approved, load>>
    BY DEF Restart
<1>3. rows' = rows
    <2>1. \A j \in JobIds : legacy[j] = NoRow \/ rows[j] # NoRow
        BY <1>1 DEF KnownInv
    <2>2. rows \in [JobIds -> Row \cup {NoRow}]
        BY <1>1 DEF TypeOK
    <2> QED BY <1>2, <2>1, <2>2 DEF Imported
<1>4. ASSUME NEW w \in Wallets
      PROVE  /\ pending'[w] \in Seq(Tx) /\ Len(pending'[w]) = Len(pending[w])
             /\ \A i \in 1 .. Len(pending[w]) :
                   /\ pending'[w][i].kind = pending[w][i].kind
                   /\ pending'[w][i].job = pending[w][i].job
                   /\ pending'[w][i].by = NoHandler
    <2> DEFINE lost == Handlers \cup {NoHandler}
    <2>1. \A i \in DOMAIN pending[w] : pending[w][i].by \in lost
        <3>1. pending[w] \in Seq(Tx)
            BY <1>1 DEF TypeOK
        <3>2. \A i \in DOMAIN pending[w] : pending[w][i] \in Tx
            BY <3>1, LenProperties, ElementOfSeq
        <3> QED BY <3>2 DEF Tx
    <2>2. pending'[w] = [i \in DOMAIN pending[w] |-> Unwatched(pending[w][i])]
        BY DEF Restart
    <2>3. pending'[w] = [i \in DOMAIN pending[w] |->
              IF pending[w][i].by \in lost THEN Unwatched(pending[w][i]) ELSE pending[w][i]]
        BY <2>1, <2>2
    <2>4. DOMAIN pending[w] = 1 .. Len(pending[w])
        BY <1>1, LenProperties DEF TypeOK
    <2> HIDE DEF lost
    <2>5. Freed(lost, w)
        BY <1>1, <2>3, Frees
    <2> QED BY <1>1, <2>1, <2>4, <2>5, FreedKeeps DEF Freed
<1>5. pending' \in [Wallets -> Seq(Tx)]
    <2>1. pending' = [w \in Wallets |-> pending'[w]]
        BY Zenon DEF Restart
    <2> QED BY <1>4, <2>1, Zenon
<1>6. NoRows \in [JobIds -> Row \cup {NoRow}]
    BY DEF NoRows
<1>7. TypeOK'
    <2>1. handlers' \in [Handlers -> Handler] /\ \A h \in Handlers : handlers'[h] = Idle
        BY <1>2, IdleTyped
    <2>2. queue' \in [{Client, Deployer} -> Seq(Handlers)]
        BY <1>1, <1>2 DEF TypeOK
    <2>3. restarts' \in 0 .. load'.restarts
        BY <1>1, <1>2, LoadForm DEF TypeOK
    <2> QED BY <1>1, <1>2, <1>3, <1>5, <1>6, <2>1, <2>2, <2>3 DEF TypeOK, ChainTypeOK
<1>8. ChainInv' /\ RowsInv'
    BY <1>1, <1>2, <1>3 DEF ChainInv, RowsInv
<1>9. KnownInv'
    <2>1. ASSUME NEW w \in Wallets, NEW i \in 1 .. Len(pending'[w]),
                 pending'[w][i].kind \in JobKinds
          PROVE  pending'[w][i].job \in JobIds /\ rows[pending'[w][i].job] # NoRow
        BY <1>1, <1>4, <2>1 DEF KnownInv
    <2>2. \A j \in JobIds : legacy'[j] # NoRow => rows[j] # NoRow
        BY <1>1, <1>2 DEF KnownInv, NoRows
    <2>3. \A h \in Handlers : handlers'[h].kind \notin JobKinds
        BY <1>2, IdleTyped DEF JobKinds
    <2>4. \A r \in Readers : readers'[r] = NoRow
        BY <1>2
    <2>5. \A j \in JobIds : chain'[j].status \notin {"None", "Open"} => rows[j] # NoRow
        BY <1>1, <1>2 DEF KnownInv
    <2> QED BY <1>3, <2>1, <2>2, <2>3, <2>4, <2>5, Zenon DEF KnownInv
<1>10. LearnedInv' /\ PlacesInv'
    BY <1>2, IdleTyped DEF LearnedInv, PlacesInv, Knows, PlaceOfKind, JobKinds
<1>11. TxInv'
    BY <1>4 DEF TxInv
<1>12. SlotInv'
    <2>1. \A h \in Handlers : ~HasTurn(handlers'[h]) /\ ~handlers'[h].fresh
        BY <1>2, IdleTyped DEF HasTurn, Queued
    <2>2. \A w \in {Client, Deployer} : queue'[w] = <<>> /\ Len(queue'[w]) = 0
        BY <1>1, <1>2 DEF TypeOK
    <2>3. \A w \in {Client, Deployer} : 1 .. Len(queue'[w]) = {}
        BY <2>2
    <2> QED BY <2>1, <2>3 DEF SlotInv
<1> QED BY <1>7, <1>8, <1>9, <1>10, <1>11, <1>12 DEF ApiInv

-----------------------------------------------------------------------------
(* The theorems *)

LEMMA InitHolds ==
    ASSUME Init
    PROVE  ApiInv
<1>1. /\ load \in Loads /\ replica = chain /\ handlers = [h \in Handlers |-> Idle]
      /\ pending = [w \in Wallets |-> <<>>] /\ approved = FALSE
      /\ queue = [w \in {Client, Deployer} |-> <<>>]
      /\ readers = [r \in Readers |-> NoRow] /\ restarts = 0
    BY DEF Init
<1>2. /\ Absent \in JobOnChain /\ NoRows \in [JobIds -> Row \cup {NoRow}]
      /\ \A j \in JobIds : NoRows[j] = NoRow
    BY DEF Absent, JobOnChain, Phases, NoRows
<1>3. /\ chain \in [JobIds -> JobOnChain] /\ rows \in [JobIds -> Row \cup {NoRow}]
      /\ legacy \in [JobIds -> Row \cup {NoRow}]
      /\ \A j \in JobIds :
            /\ chain[j].status = "None" => chain[j] = Absent
            /\ chain[j].status \in {"Open", "Funded"} => chain[j].deliverable = NoHash
            /\ chain[j].status \notin {"None", "Open"} => rows[j] # NoRow
            /\ legacy[j] # NoRow => rows[j] # NoRow
            /\ rows[j] = NoRow \/ Behind(rows[j], chain[j])
    <2>1. CASE load.legacy
        <3>1. /\ chain \in [JobIds -> LegacyJobs] /\ legacy \in {LegacyFile, NoRows}
              /\ rows = Imported(LegacyFile, NoRows)
            BY <2>1 DEF Init
        <3>2. ASSUME NEW j \in JobIds
              PROVE  /\ chain[j] \in JobOnChain /\ chain[j].status = "Submitted"
                     /\ chain[j].evaluator \in Addresses \cup {NoAddress}
                     /\ chain[j].deliverable \in Hashes \cup {NoHash}
            BY <3>1, ApiAssumption DEF LegacyJobs, JobOnChain, Phases
        <3>3. LegacyFile \in [JobIds -> Row] /\ \A j \in JobIds : LegacyFile[j].status = "Submitted"
            BY <3>2 DEF LegacyFile, Row, Phases
        <3>4. NoRow \notin Row
            BY DEF NoRow, Row, Phases
        <3>5. ASSUME NEW j \in JobIds
              PROVE  /\ rows[j] \in Row /\ rows[j].status = "Submitted"
                     /\ rows[j].evaluator = Unrecorded /\ rows[j].deliverable = NoHash
            <4> DEFINE old == LegacyFile[j]
            <4>1. old \in Row /\ old.status = "Submitted" /\ old # NoRow
                BY <3>3, <3>4
            <4>2. rows[j] = [old EXCEPT !.evaluator = Unrecorded, !.deliverable = NoHash]
                BY <1>2, <3>1, <4>1 DEF Imported
            <4> HIDE DEF old
            <4> QED BY <4>1, <4>2 DEF Row
        <3>6. \A j \in JobIds : Behind(rows[j], chain[j])
            <4>1. Rank("Submitted") <= Rank("Submitted") /\ "Submitted" \notin Terminal
                BY RankOrders DEF Terminal
            <4> QED BY <3>2, <3>5, <4>1 DEF Behind, Nobody
        <3>7. rows \in [JobIds -> Row]
            BY <3>1, <3>5 DEF Imported
        <3> QED BY <1>2, <3>1, <3>2, <3>3, <3>4, <3>6, <3>7
    <2>2. CASE ~load.legacy
        <3>1. chain = [j \in JobIds |-> Absent] /\ legacy = NoRows /\ rows = NoRows
            BY <2>2 DEF Init, ChainInit
        <3>2. \A j \in JobIds : chain[j] = Absent /\ Absent.status = "None"
            BY <3>1 DEF Absent
        <3> QED BY <1>2, <3>1, <3>2
    <2> QED BY <2>1, <2>2
<1>4. \A h \in Handlers : handlers[h] = Idle
    BY <1>1
<1>5. TypeOK
    <2>1. load.restarts \in Nat
        BY <1>1, ApiAssumption
    <2>2. handlers \in [Handlers -> Handler]
        BY <1>1, IdleTyped
    <2>3. pending \in [Wallets -> Seq(Tx)] /\ queue \in [{Client, Deployer} -> Seq(Handlers)]
        BY <1>1
    <2>4. readers \in [Readers -> {NoRow} \cup [job: JobIds, row: Row]]
        BY <1>1
    <2>5. restarts \in 0 .. load.restarts
        BY <1>1, <2>1
    <2>6. replica \in [JobIds -> JobOnChain] /\ approved \in BOOLEAN /\ load \in Loads
        BY <1>1, <1>3
    <2> QED BY <1>3, <1>4, <2>2, <2>3, <2>4, <2>5, <2>6 DEF TypeOK, ChainTypeOK
<1>6. ChainInv /\ RowsInv
    BY <1>1, <1>3, BehindSelf DEF ChainInv, RowsInv
<1>7. \A w \in Wallets : 1 .. Len(pending[w]) = {}
    BY <1>1
<1>8. KnownInv
    BY <1>1, <1>3, <1>4, <1>7, IdleTyped DEF KnownInv, JobKinds
<1>9. LearnedInv /\ PlacesInv
    BY <1>4, IdleTyped DEF LearnedInv, PlacesInv, Knows, PlaceOfKind, JobKinds
<1>10. TxInv
    BY <1>7 DEF TxInv
<1>11. SlotInv
    <2>1. \A w \in {Client, Deployer} : 1 .. Len(queue[w]) = {}
        BY <1>1
    <2> QED BY <1>4, <2>1, IdleTyped DEF SlotInv, HasTurn, Queued
<1> QED BY <1>5, <1>6, <1>8, <1>9, <1>10, <1>11 DEF ApiInv

\* A step is a move of a handler, or leaves the handlers to what is said here.
LEMMA StepKinds ==
    ASSUME ApiInv, Next
    PROVE  \/ \E h \in Handlers : HandlerMove(h)
           \/ \E r \in Readers : ReaderStep(r)
           \/ ChainMoves
           \/ Restart
<1>1. CASE AnyRequest
    <2>1. load.handlers \subseteq Handlers
        BY LoadForm DEF ApiInv
    <2> QED BY <1>1, <2>1, RequestMoves DEF AnyRequest
<1> QED BY <1>1, StepMoves DEF Next

LEMMA StepHolds ==
    ASSUME ApiInv, [Next]_vars
    PROVE  ApiInv'
<1>1. CASE Next
    BY <1>1, StepKinds, MoveKeeps, ReaderKeeps, ChainMovesKeep, RestartKeeps
<1>2. CASE UNCHANGED vars
    BY <1>2 DEF vars, beyond, ApiInv, TypeOK, ChainTypeOK, ChainInv, RowsInv, KnownInv, LearnedInv,
                PlacesInv, TxInv, SlotInv
<1> QED BY <1>1, <1>2

\* The inductive invariant of the API holds in every reachable state.
THEOREM InvHolds == Spec => []ApiInv
<1>1. Init => ApiInv
    BY InitHolds
<1>2. ApiInv /\ [Next]_vars => ApiInv'
    BY StepHolds
<1> QED BY <1>1, <1>2, PTL DEF Spec

\* Every variable of the API keeps its type.
THEOREM TypeCorrect == Spec => []TypeOK
<1>1. ApiInv => TypeOK
    BY DEF ApiInv
<1> QED BY <1>1, InvHolds, PTL

\* The row of a job never runs ahead of the chain, however late answers, retries,
\* timeouts and restarts fall.
THEOREM StoredIsBehind == Spec => []StoredBehindChain
<1>1. ApiInv => StoredBehindChain
    BY DEF ApiInv, RowsInv, Behind, StoredBehindChain
<1> QED BY <1>1, InvHolds, PTL

\* A stored deliverable is the one whose hash the contract holds.
THEOREM DeliverableHolds == Spec => []DeliverableOnChain
<1>1. ApiInv => DeliverableOnChain
    <2>1. NoRow.deliverable = NoHash
        BY DEF NoRow
    <2> QED BY <2>1 DEF ApiInv, RowsInv, Behind, DeliverableOnChain
<1> QED BY <1>1, InvHolds, PTL

\* Money is in escrow only for jobs the API knows.
THEOREM FundedIsKnown == Spec => []FundedHasRow
<1>1. ApiInv => FundedHasRow
    BY DEF ApiInv, KnownInv, FundedHasRow
<1> QED BY <1>1, InvHolds, PTL

\* A restart takes no row back.
THEOREM RestartLosesNothing == Spec => RestartKeepsRows
<1>1. ASSUME ApiInv, [Next]_vars, restarts' # restarts, NEW j \in JobIds, rows[j] # NoRow
      PROVE  rows'[j] = rows[j]
    <2>1. Next
        BY <1>1 DEF vars, beyond
    <2>2. \A h \in Handlers : ~HandlerMove(h)
        BY <1>1 DEF HandlerMove, beyond
    <2>3. Restart
        BY <1>1, <2>1, <2>2, StepKinds, ReaderKeeps, ChainMovesKeep
    <2>4. rows' = Imported(legacy, rows)
        BY <2>3 DEF Restart
    <2> QED BY <1>1, <2>4, ImportForm
<1>2. ApiInv /\ [Next]_vars =>
        (restarts' # restarts => \A j \in JobIds : rows[j] # NoRow => rows'[j] = rows[j])
    BY <1>1
<1> QED BY <1>2, InvHolds, PTL DEF Spec, RestartKeepsRows

\* A handler sends only in its turn.
LEMMA SendsInTurn ==
    ASSUME ApiInv, Next, NEW g \in Handlers,
           handlers'[g].pc \in {"approving", "sent", "seedSent"},
           handlers'[g].pc # handlers[g].pc
    PROVE  handlers[g].pc \notin {"preflight", "queued"}
<1>1. ASSUME NEW h \in Handlers, HandlerMove(h)
      PROVE  handlers[g].pc \notin {"preflight", "queued"}
    <2>1. g = h
        BY <1>1 DEF HandlerMove, Rests, Outrun
    <2>2. ~Starts(h) /\ ~Ends(h)
        BY <2>1, IdleTyped DEF Starts, Ends
    <2> QED BY <1>1, <2>1, <2>2 DEF HandlerMove, Proceeds, Sent
<1>2. ASSUME NEW r \in Readers, ReaderStep(r)
      PROVE  FALSE
    BY <1>2 DEF ReaderStep, GetRequest, GetAnswers, GetFails
<1>3. CASE ChainMoves
    <2>1. ASSUME NEW w \in Wallets, Mine(w)
          PROVE  FALSE
        <3> DEFINE tx == Head(pending[w])
        <3>1. PICK pc, j : Outcome(tx, pc, j)
            BY <2>1, MineComes
        <3> HIDE DEF tx
        <3>2. handlers'[g].pc \in {handlers[g].pc, pc}
            <4>1. CASE g = tx.by
                BY <3>1, <4>1, ApiAssumption DEF Outcome, Answered
            <4>2. CASE g # tx.by
                BY <3>1, <4>2 DEF Outcome, Answered
            <4> QED BY <4>1, <4>2
        <3> QED BY <3>1, <3>2 DEF Outcome
    <2>2. ASSUME NEW j \in JobIds, Propagate(j) \/ OutsideCall(j)
          PROVE  FALSE
        BY <2>2 DEF Propagate, OutsideCall
    <2> QED BY <1>3, <2>1, <2>2 DEF ChainMoves
<1>4. CASE Restart
    <2>1. handlers'[g] = Idle
        BY <1>4 DEF Restart
    <2> QED BY <2>1, IdleTyped
<1> QED BY <1>1, <1>2, <1>3, <1>4, StepKinds

\* A nonce read in a turn of a queue is never used by another turn of that queue
\* before its transaction is sent.
THEOREM NonceHolds == Spec => QueuedNonceKept
<1>1. ASSUME ApiInv, [Next]_vars, NEW h \in Handlers, NEW kind \in {"fund", "agent"},
             Serves(h, kind), handlers[h].fresh, NEW g \in Handlers \ {h}, Serves(g, kind),
             handlers'[g].pc \in {"approving", "sent", "seedSent"},
             handlers'[g].pc # handlers[g].pc
      PROVE  FALSE
    <2>1. Next
        BY <1>1 DEF vars
    <2>2. handlers[g].kind = kind /\ handlers[h].kind = kind /\ kind \in Queued
        BY <1>1 DEF Serves, Queued
    <2>3. HasTurn(handlers[g])
        BY <1>1, <2>1, <2>2, SendsInTurn DEF HasTurn
    <2>4. SlotInv
        BY <1>1 DEF ApiInv
    <2>5. HasTurn(handlers[h])
        BY <1>1, <2>2, <2>4 DEF HasTurn, SlotInv
    <2>6. Head(queue[WalletOf(kind)]) = g /\ Head(queue[WalletOf(kind)]) = h
        BY <2>2, <2>3, <2>4, <2>5 DEF SlotInv
    <2> QED BY <2>6
<1>2. ApiInv /\ [Next]_vars =>
        \A h \in Handlers, kind \in {"fund", "agent"} :
            (Serves(h, kind) /\ handlers[h].fresh /\ Serves(h, kind)' /\ ~handlers'[h].fresh
               /\ handlers'[h].attempt = handlers[h].attempt)
            => \A g \in Handlers \ {h} :
                 ~(Serves(g, kind) /\ handlers'[g].pc \in {"approving", "sent", "seedSent"}
                     /\ handlers'[g].pc # handlers[g].pc)
    BY <1>1
<1> QED BY <1>2, InvHolds, PTL DEF Spec, QueuedNonceKept

=============================================================================
