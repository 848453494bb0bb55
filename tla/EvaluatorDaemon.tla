----------------------------- MODULE EvaluatorDaemon -----------------------------
(***************************************************************************)
(* agents/evaluator-daemon.ts: a command run now and then.  It scans the   *)
(* JobSubmitted events from the block it remembers to the latest one in    *)
(* chunks, looks every job up, prints those that wait for a watched        *)
(* evaluator and remembers the latest block.                               *)
(***************************************************************************)
EXTENDS JobChain

CONSTANTS
    WATCHED_EVALUATORS,
    DEPLOY_BLOCK, CHUNK_SIZE,
    LOOKBACK,        \* BLOCKS_PER_DAY * DEFAULT_LOOKBACK_DAYS
    MaxBlock         \* bound

ASSUME DaemonAssumption ==
    /\ WATCHED_EVALUATORS \subseteq Addresses
    /\ CHUNK_SIZE \in Nat \ {0} /\ LOOKBACK \in Nat
    /\ MaxBlock \in Nat /\ DEPLOY_BLOCK \in 0 .. MaxBlock

VARIABLES
    block,           \* the latest block
    submissions,     \* JobSubmitted events
    stateFile,       \* lastScannedBlock, NoState, or Torn after a crash while writing
    scan,            \* the run in progress
    firstBlock,      \* where the last run without a state file began, or NoState
    printed,         \* events whose job was printed
    dismissed        \* events whose job was looked up and needed nothing, or could not be read

daemonVars == <<stateFile, scan, firstBlock, printed, dismissed>>

NoState == MaxBlock + 1
Torn == MaxBlock + 2
Resting == [pc |-> "idle", all |-> FALSE, next |-> 0, to |-> 0, events |-> {}, alerts |-> {}]
Submission == [job: JobIds, block: 0 .. MaxBlock]

DaemonTypeOK ==
    /\ block \in 0 .. MaxBlock
    /\ submissions \subseteq Submission
    /\ stateFile \in 0 .. MaxBlock + 2 /\ firstBlock \in 0 .. MaxBlock + 1
    /\ scan \in [pc: {"idle", "fetch", "inspect", "print", "save"}, all: BOOLEAN,
                 next: 0 .. MaxBlock + CHUNK_SIZE, to: 0 .. MaxBlock,
                 events: SUBSET Submission, alerts: SUBSET Submission]
    /\ printed \subseteq Submission /\ dismissed \subseteq Submission

DaemonInit ==
    /\ block = DEPLOY_BLOCK
    /\ submissions = {}
    /\ stateFile = NoState /\ firstBlock = NoState
    /\ scan = Resting
    /\ printed = {} /\ dismissed = {}

\* A block is mined; a submission in it leaves an event.
BlockMined ==
    /\ block < MaxBlock
    /\ block' = block + 1
    /\ \/ UNCHANGED <<chain, submissions>>
       \/ \E j \in JobIds :
            /\ ChainStep(j)
            /\ submissions' = IF chain'[j].status = "Submitted"
                              THEN submissions \cup {[job |-> j, block |-> block']}
                              ELSE submissions
    /\ UNCHANGED daemonVars

\* loadState: a torn file cannot be parsed and the command ends there.
LastScanned == IF stateFile = NoState
               THEN IF DEPLOY_BLOCK + LOOKBACK > block THEN DEPLOY_BLOCK ELSE block - LOOKBACK
               ELSE stateFile

StartScan(all) ==
    LET from == IF all THEN DEPLOY_BLOCK ELSE LastScanned
    IN  /\ scan = Resting
        /\ stateFile # Torn
        /\ scan' = [Resting EXCEPT !.pc = "fetch", !.all = all, !.next = from, !.to = block]
        /\ firstBlock' = IF stateFile = NoState /\ ~all THEN from ELSE firstBlock
        /\ UNCHANGED <<block, chain, submissions, stateFile, printed, dismissed>>

ChunkEnd == IF scan.next + CHUNK_SIZE - 1 > scan.to THEN scan.to
            ELSE scan.next + CHUNK_SIZE - 1

\* Slip: the next chunk starts one block too late.
FetchChunkSkipping ==
    /\ scan.pc = "fetch" /\ scan.next <= scan.to
    /\ scan' = [scan EXCEPT !.next = scan.next + CHUNK_SIZE + 1,
          !.events = @ \cup {e \in submissions : e.block \in scan.next .. ChunkEnd}]
    /\ UNCHANGED <<block, chain, submissions, stateFile, firstBlock, printed, dismissed>>

FetchChunk ==
    /\ scan.pc = "fetch" /\ scan.next <= scan.to
    /\ scan' = [scan EXCEPT !.next = scan.next + CHUNK_SIZE,
          !.events = @ \cup {e \in submissions : e.block \in scan.next .. ChunkEnd}]
    /\ UNCHANGED <<block, chain, submissions, stateFile, firstBlock, printed, dismissed>>

FetchedAll ==
    /\ scan.pc = "fetch" /\ scan.next > scan.to
    /\ scan' = [scan EXCEPT !.pc = "inspect"]
    /\ UNCHANGED <<block, chain, submissions, stateFile, firstBlock, printed, dismissed>>

NeedsVerdict(j) == chain[j].status = "Submitted" /\ chain[j].evaluator \in WATCHED_EVALUATORS

\* The job as it is now, not as it was when the event was emitted.
Inspect(e) ==
    /\ scan.pc = "inspect" /\ e \in scan.events
    /\ \/ /\ NeedsVerdict(e.job)
          /\ scan' = [scan EXCEPT !.events = @ \ {e}, !.alerts = @ \cup {e}]
          /\ UNCHANGED dismissed
       \/ \* it needs nothing, or getJob() failed and the event is passed over
          /\ scan' = [scan EXCEPT !.events = @ \ {e}]
          /\ dismissed' = dismissed \cup {e}
    /\ UNCHANGED <<block, chain, submissions, stateFile, firstBlock, printed>>

InspectedAll ==
    /\ scan.pc = "inspect" /\ scan.events = {}
    /\ scan' = [scan EXCEPT !.pc = "print"]
    /\ UNCHANGED <<block, chain, submissions, stateFile, firstBlock, printed, dismissed>>

PrintAlerts ==
    /\ scan.pc = "print"
    /\ printed' = printed \cup scan.alerts
    /\ scan' = IF scan.all THEN Resting ELSE [scan EXCEPT !.pc = "save"]
    /\ UNCHANGED <<block, chain, submissions, stateFile, firstBlock, dismissed>>

SaveState ==
    /\ scan.pc = "save"
    /\ stateFile' = scan.to
    /\ scan' = Resting
    /\ UNCHANGED <<block, chain, submissions, firstBlock, printed, dismissed>>

\* An RPC call fails or the command is stopped: nothing is saved, unless the file was
\* being written.
ScanEnds ==
    /\ scan # Resting
    /\ stateFile' \in IF scan.pc = "save" THEN {stateFile, Torn} ELSE {stateFile}
    /\ scan' = Resting
    /\ UNCHANGED <<block, chain, submissions, firstBlock, printed, dismissed>>

DaemonStep ==
    \/ BlockMined
    \/ \E all \in BOOLEAN : StartScan(all)
    \/ FetchChunk \/ FetchedAll
    \/ \E e \in submissions : Inspect(e)
    \/ InspectedAll \/ PrintAlerts \/ SaveState \/ ScanEnds

-----------------------------------------------------------------------------
\* The remembered block never passes a submission that was neither printed nor looked
\* up: whatever falls on a chunk's edge, is mined during the scan or was found by a run
\* that stopped half way is found by the next one.  (What a first run that stopped had
\* in its window may be before the window of the next.)
NothingPassedOver ==
    stateFile \in 0 .. MaxBlock =>
        \A e \in submissions :
            e.block \in firstBlock .. stateFile => e \in printed \cup dismissed

=============================================================================
