----------------------------- MODULE ObserversProofs -----------------------------
(***************************************************************************)
(* What the programs that watch jobs report is true, and what the two      *)
(* commands pass over is what they may pass over, for every number of jobs, *)
(* polls, posts, blocks and every chunk size.                              *)
(***************************************************************************)
EXTENDS Observers, TLAPS

-----------------------------------------------------------------------------
(* Types *)

\* A move keeps what getJob() returns in its type, and the job exists afterwards.
LEMMA ChainStepTyped ==
    ASSUME ChainTypeOK, NEW j \in JobIds, ChainStep(j)
    PROVE  ChainTypeOK' /\ chain'[j].status \in Phases
<1>1. chain[j].attempt \in Nat /\ chain[j].attempt + 1 \in Nat
    BY DEF ChainTypeOK, JobOnChain
<1>2. PICK new \in JobOnChain : chain' = [chain EXCEPT ![j] = new]
    BY <1>1, SMTT(30) DEF ChainTypeOK, JobOnChain, ChainStep, ChainCreate, ChainFund, ChainSubmit,
       ChainComplete, ChainReject, ChainExpire, ChainReopen, Shows, Turns, Phases
<1> QED BY <1>2 DEF ChainTypeOK, JobOnChain

\* So does a move together with what may be told about the job.
LEMMA JobMovesTyped ==
    ASSUME ChainTypeOK, ReachedTypeOK, NEW j \in JobIds, JobMoves(j)
    PROVE  ChainTypeOK' /\ ReachedTypeOK'
<1>1. ChainTypeOK' /\ chain'[j].status \in Phases
    BY ChainStepTyped DEF JobMoves
<1> QED BY <1>1 DEF JobMoves, ReachedTypeOK

\* JobWatcher and waitForResult keep their variables in their types.
LEMMA WatcherStepTyped ==
    ASSUME WatcherTypeOK, ReachedTypeOK, WatcherStep
    PROVE  WatcherTypeOK'
<1> USE DEF WatcherTypeOK, Phases, Terminal, Outcomes
<1>1. ASSUME NEW p \in Polls, Poll(p) PROVE WatcherTypeOK'
    BY <1>1 DEF Poll
<1>2. ASSUME NEW p \in Polls, NEW status \in Phases, Serve(p, status) PROVE WatcherTypeOK'
    BY <1>2 DEF Serve
<1>3. ASSUME NEW p \in Polls, ServeNothing(p) PROVE WatcherTypeOK'
    BY <1>3 DEF ServeNothing
<1>4. ASSUME NEW p \in Polls, Answer(p) PROVE WatcherTypeOK'
    BY <1>4 DEF Answer, Resolve, OutcomeOf
<1>5. ASSUME NEW p \in Polls, PollError(p) PROVE WatcherTypeOK'
    BY <1>5 DEF PollError
<1>6. CASE GiveUp
    BY <1>6 DEF GiveUp, Resolve
<1> QED BY <1>1, <1>2, <1>3, <1>4, <1>5, <1>6 DEF WatcherStep

\* AssignmentWatcher keeps its variables in their types.
LEMMA AssignmentStepTyped ==
    ASSUME AssignmentTypeOK, ReachedTypeOK, AssignmentStep
    PROVE  AssignmentTypeOK'
<1> USE DEF AssignmentTypeOK, frozenFlags
<1>1. CASE PollAssignments
    BY <1>1 DEF PollAssignments
<1>2. CASE ListFails
    BY <1>2 DEF ListFails
<1>3. CASE ApplyList
    <2>1. \A j \in JobIds :
             Emits(j) \subseteq {"assigned", "submitted", "completed", "rejected", "expired"} \X JobIds
        BY DEF Emits, EventOf
    <2> QED BY <1>3, <2>1 DEF ApplyList, NoList, Listed
<1>4. CASE ListError
    BY <1>4 DEF ListError
<1>5. CASE StopAssignments
    BY <1>5 DEF StopAssignments
<1>6. CASE ServeList
    BY <1>6 DEF ServeList
<1>7. ASSUME NEW j \in JobIds, RowWritten(j) PROVE AssignmentTypeOK'
    <2>1. Listings(j) \subseteq Listed
        BY <1>7 DEF Listings, Listed, ReachedTypeOK
    <2> QED BY <1>7, <2>1 DEF RowWritten
<1> QED BY <1>1, <1>2, <1>3, <1>4, <1>5, <1>6, <1>7 DEF AssignmentStep

\* The records of a scan, as DaemonTypeOK has them.
Scan == [pc: {"idle", "fetch", "inspect", "print", "save"}, all: BOOLEAN,
         next: 0 .. MaxBlock + CHUNK_SIZE, to: 0 .. MaxBlock,
         events: SUBSET Submission, alerts: SUBSET Submission]

\* The evaluator daemon keeps its variables in their types.
LEMMA DaemonStepTyped ==
    ASSUME ChainTypeOK, DaemonTypeOK, DaemonStep
    PROVE  ChainTypeOK' /\ DaemonTypeOK'
<1> USE DaemonAssumption DEF DaemonTypeOK, Resting, NoState, Torn, Submission
<1>1. CASE BlockMined
    <2>1. block' \in 0 .. MaxBlock /\ ChainTypeOK' /\ submissions' \subseteq Submission
        BY <1>1, ChainStepTyped DEF BlockMined, ChainTypeOK
    <2> QED BY <1>1, <2>1 DEF BlockMined, daemonVars
<1>2. ASSUME NEW all \in BOOLEAN, StartScan(all) PROVE ChainTypeOK' /\ DaemonTypeOK'
    <2>1. LastScanned \in 0 .. MaxBlock
        BY <1>2 DEF StartScan, LastScanned
    <2> DEFINE from == IF all THEN DEPLOY_BLOCK ELSE LastScanned
    <2>2. from \in 0 .. MaxBlock /\ from \in 0 .. MaxBlock + CHUNK_SIZE /\ from \in 0 .. MaxBlock + 1
        BY <2>1
    <2>3. scan' = [pc |-> "fetch", all |-> all, next |-> from, to |-> block,
                   events |-> {}, alerts |-> {}]
        BY <1>2 DEF StartScan
    <2>4. firstBlock' \in 0 .. MaxBlock + 1
        BY <1>2, <2>2 DEF StartScan
    <2> HIDE DEF from
    <2>5. scan' \in Scan
        BY <2>2, <2>3 DEF Scan
    <2> QED BY <1>2, <2>4, <2>5 DEF StartScan, ChainTypeOK, Scan
<1>3. CASE FetchChunk
    <2> DEFINE found == {e \in submissions : e.block \in scan.next .. ChunkEnd}
    <2>1. scan \in Scan /\ scan.next + CHUNK_SIZE \in 0 .. MaxBlock + CHUNK_SIZE
        BY <1>3 DEF FetchChunk, Scan
    <2>2. scan.events \cup found \subseteq Submission
        BY <2>1 DEF Scan
    <2>3. scan' = [scan EXCEPT !.next = scan.next + CHUNK_SIZE, !.events = @ \cup found]
        BY <1>3 DEF FetchChunk
    <2> HIDE DEF found
    <2>4. scan' \in Scan
        BY <2>1, <2>2, <2>3 DEF Scan
    <2> QED BY <1>3, <2>4 DEF FetchChunk, ChainTypeOK, Scan
<1>4. CASE FetchedAll
    BY <1>4 DEF FetchedAll, ChainTypeOK
<1>5. ASSUME NEW e \in submissions, Inspect(e) PROVE ChainTypeOK' /\ DaemonTypeOK'
    <2>1. scan \in Scan /\ e \in Submission
        BY <1>5 DEF Scan
    <2>2. /\ scan.events \ {e} \in SUBSET Submission
          /\ scan.alerts \cup {e} \in SUBSET Submission
        BY <2>1 DEF Scan
    <2>3. CASE scan' = [scan EXCEPT !.events = @ \ {e}]
        <3>1. scan' \in Scan
            BY <2>1, <2>2, <2>3 DEF Scan
        <3> QED BY <1>5, <2>1, <3>1 DEF Inspect, ChainTypeOK, Scan
    <2>4. CASE scan' = [scan EXCEPT !.events = @ \ {e}, !.alerts = @ \cup {e}]
        <3>1. scan' \in Scan
            BY <2>1, <2>2, <2>4 DEF Scan
        <3> QED BY <1>5, <2>1, <3>1 DEF Inspect, ChainTypeOK, Scan
    <2> QED BY <1>5, <2>3, <2>4 DEF Inspect
<1>6. CASE InspectedAll
    BY <1>6 DEF InspectedAll, ChainTypeOK
<1>7. CASE PrintAlerts
    BY <1>7 DEF PrintAlerts, ChainTypeOK
<1>8. CASE SaveState
    BY <1>8 DEF SaveState, ChainTypeOK
<1>9. CASE ScanEnds
    BY <1>9 DEF ScanEnds, ChainTypeOK
<1> QED BY <1>1, <1>2, <1>3, <1>4, <1>5, <1>6, <1>7, <1>8, <1>9 DEF DaemonStep

\* The forum watcher keeps its variables in their types.
LEMMA ForumStepTyped ==
    ASSUME ForumTypeOK, ForumStep
    PROVE  ForumTypeOK'
<1> USE ForumAssumption DEF ForumTypeOK, NotReading, NaN
<1>1. CASE SomebodyPosts
    BY <1>1 DEF SomebodyPosts
<1>2. CASE StartFromState
    BY <1>2 DEF StartFromState, StartReading
<1>3. CASE StartFromNaN
    BY <1>3 DEF StartFromNaN
<1>4. ASSUME NEW from \in 0 .. MaxPost, StartFrom(from) PROVE ForumTypeOK'
    BY <1>4 DEF StartFrom, StartReading
<1>5. CASE FetchPost
    <2>1. reading.next \in 0 .. MaxPost /\ reading.next + 1 \in 0 .. MaxPost + 1
        BY <1>5 DEF FetchPost
    <2>2. CASE /\ reading' = [reading EXCEPT !.next = @ + 1, !.found = @ \cup {reading.next}]
               /\ UNCHANGED notServed
        BY <1>5, <2>1, <2>2 DEF FetchPost
    <2>3. CASE /\ reading' = [reading EXCEPT !.next = @ + 1]
               /\ notServed' = notServed \cup {reading.next}
        BY <1>5, <2>1, <2>3 DEF FetchPost
    <2> QED BY <1>5, <2>2, <2>3 DEF FetchPost
<1>6. CASE Finish
    <2>1. NotReading \in [on : BOOLEAN, next : 0 .. MaxPost + 1, highest : FirstPost .. MaxPost,
                          saves : BOOLEAN, found : SUBSET (0 .. MaxPost)]
        OBVIOUS
    <2>2. /\ shown \cup reading.found \subseteq 0 .. MaxPost
          /\ reading.highest \in FirstPost .. MaxPost
        OBVIOUS
    <2> QED BY <1>6, <2>1, <2>2 DEF Finish
<1>7. CASE ReadingFails
    BY <1>7 DEF ReadingFails
<1> QED BY <1>1, <1>2, <1>3, <1>4, <1>5, <1>6, <1>7 DEF ForumStep

\* The types hold in the beginning.
LEMMA InitTyped == Init => TypeOK
<1> SUFFICES ASSUME Init PROVE TypeOK
    OBVIOUS
<1>1. ChainTypeOK /\ ReachedTypeOK
    BY DEF Init, ChainInit, ChainTypeOK, JobOnChain, Absent, Phases, ReachedInit, ReachedTypeOK
<1>2. WatcherTypeOK
    BY DEF Init, WatcherInit, WatcherTypeOK, Phases
<1>3. AssignmentTypeOK
    BY DEF Init, AssignmentInit, AssignmentTypeOK, NoList, Listed
<1>4. DaemonTypeOK
    <2>1. /\ DEPLOY_BLOCK \in 0 .. MaxBlock
          /\ MaxBlock + 1 \in 0 .. MaxBlock + 2 /\ MaxBlock + 1 \in 0 .. MaxBlock + 1
          /\ 0 \in 0 .. MaxBlock + CHUNK_SIZE /\ 0 \in 0 .. MaxBlock
        BY DaemonAssumption
    <2>2. Resting \in Scan
        BY <2>1 DEF Resting, Scan
    <2> QED BY <2>1, <2>2 DEF Init, DaemonInit, DaemonTypeOK, NoState, Scan
<1>5. ForumTypeOK
    <2>1. /\ FirstPost \in FirstPost .. MaxPost
          /\ NotReading \in [on : BOOLEAN, next : 0 .. MaxPost + 1, highest : FirstPost .. MaxPost,
                             saves : BOOLEAN, found : SUBSET (0 .. MaxPost)]
        BY ForumAssumption DEF NotReading
    <2> QED BY <2>1 DEF Init, ForumInit, ForumTypeOK
<1> QED BY <1>1, <1>2, <1>3, <1>4, <1>5 DEF Init, TypeOK

\* The types are kept, whichever program runs.
LEMMA NextTyped == TypeOK /\ [Next]_vars => TypeOK'
<1> SUFFICES ASSUME TypeOK, [Next]_vars PROVE TypeOK'
    OBVIOUS
<1> USE DEF TypeOK
<1>1. CASE WaitForResult /\ UNCHANGED deployed
    BY <1>1, WatcherStepTyped, JobMovesTyped
    DEF WaitForResult, ApiJobMoves, watcherVars, assignmentVars, ledgerVars, daemonVars,
        forumVars, ChainTypeOK, ReachedTypeOK, WatcherTypeOK, AssignmentTypeOK,
        DaemonTypeOK, ForumTypeOK
<1>2. CASE WatchAssignments /\ UNCHANGED deployed
    BY <1>2, AssignmentStepTyped, JobMovesTyped
    DEF WatchAssignments, ApiJobMoves, watcherVars, assignmentVars, ledgerVars, daemonVars,
        forumVars, ChainTypeOK, ReachedTypeOK, WatcherTypeOK, AssignmentTypeOK,
        DaemonTypeOK, ForumTypeOK
<1>3. CASE RunDaemon /\ UNCHANGED deployed
    BY <1>3, DaemonStepTyped
    DEF RunDaemon, watcherVars, assignmentVars, forumVars, ReachedTypeOK, WatcherTypeOK,
        AssignmentTypeOK, ForumTypeOK
<1>4. CASE WatchForum /\ UNCHANGED deployed
    BY <1>4, ForumStepTyped
    DEF WatchForum, watcherVars, assignmentVars, ledgerVars, daemonVars, ChainTypeOK,
        ReachedTypeOK, WatcherTypeOK, AssignmentTypeOK, DaemonTypeOK
<1>5. CASE UNCHANGED vars
    BY <1>5 DEF vars, watcherVars, assignmentVars, ledgerVars, daemonVars, forumVars,
        ChainTypeOK, ReachedTypeOK, WatcherTypeOK, AssignmentTypeOK, DaemonTypeOK, ForumTypeOK
<1> QED BY <1>1, <1>2, <1>3, <1>4, <1>5 DEF Next

\* The variables of the watchers and of the two commands keep their types.
THEOREM TypeCorrect == Spec => []TypeOK
<1> QED BY InitTyped, NextTyped, PTL DEF Spec

-----------------------------------------------------------------------------
(* The inductive invariants of the four programs *)

\* A job the API created is in its first attempt, so it settles once: of what may
\* still be told about it only its present status can be a terminal one.
SettledOnce == deployed # "evaluator-daemon" => \A j \in JobIds :
    /\ chain[j].attempt = 0
    /\ reached[j] \cap Terminal \subseteq {chain[j].status}
    /\ "None" \notin reached[j]

\* Answers under way are about the past of the watched job.
AnswersTrue ==
    /\ deployed # "waitForResult" => outcome = "none"
    /\ deployed = "waitForResult" =>
          \A p \in Polls : polls[p] \in Phases => polls[p] \in reached[Watched]

ListTrue ==
    /\ deployed # "AssignmentWatcher" => heard = {}
    /\ deployed = "AssignmentWatcher" => \A j \in JobIds :
          \A status \in {listed[j], list[j]} \ {"unlisted"} :
             status \in reached[j] /\ chain[j].evaluator = Me

\* A scan under way holds or has handled every event of its range that is not still
\* ahead of it, and nothing in hand is newer than the latest block.
ScanCovers ==
    /\ \A e \in submissions : e.block <= block
    /\ scan.to <= block
    /\ stateFile \in 0 .. MaxBlock => stateFile <= block
    /\ scan.pc \in {"print", "save"} => scan.events = {}
    /\ scan.pc = "save" => scan.alerts \subseteq printed /\ ~scan.all
    /\ scan.pc # "idle" /\ ~scan.all =>
          \A e \in submissions : e.block \in firstBlock .. scan.to =>
              \/ e \in printed \cup dismissed \cup scan.alerts \cup scan.events
              \/ scan.pc = "fetch" /\ scan.next <= e.block

\* The same for a reading that will move the position.
ReadingCovers == reading.on /\ reading.saves /\ ~malformed =>
    \A n \in FirstPost + 1 .. reading.next - 1 : n \in shown \cup notServed \cup reading.found

ObserversInv ==
    /\ TypeOK /\ SettledOnce
    /\ AnswersTrue /\ ResultTrue
    /\ ListTrue /\ HeardIsTrue
    /\ ScanCovers /\ NothingPassedOver
    /\ ReadingCovers /\ NoPostMissed

\* The invariants hold in the beginning.
LEMMA ObserversInvInit == Init => ObserversInv
<1> SUFFICES ASSUME Init PROVE ObserversInv
    OBVIOUS
<1>1. TypeOK
    BY InitTyped
<1>2. SettledOnce
    BY DEF Init, SettledOnce, ChainInit, Absent, ReachedInit
<1>3. AnswersTrue /\ ResultTrue
    BY DEF Init, WatcherInit, AnswersTrue, ResultTrue, Outcomes, Phases
<1>4. ListTrue /\ HeardIsTrue
    BY DEF Init, AssignmentInit, NoList, ListTrue, HeardIsTrue
<1>5. ScanCovers /\ NothingPassedOver
    BY DaemonAssumption DEF Init, DaemonInit, Resting, NoState, ScanCovers, NothingPassedOver
<1>6. ReadingCovers /\ NoPostMissed
    BY ForumAssumption DEF Init, ForumInit, NotReading, ReadingCovers, NoPostMissed
<1> QED BY <1>1, <1>2, <1>3, <1>4, <1>5, <1>6 DEF ObserversInv

\* A move of a job the API created: it was not settled, its history grows and its
\* evaluator, once chosen, stays.
LEMMA ApiMoveForward ==
    ASSUME TypeOK, NEW j \in JobIds, JobMoves(j), chain[j].attempt = 0, chain'[j].attempt = 0
    PROVE  /\ chain[j].status \notin Terminal
           /\ chain'[j].status # "None"
           /\ chain[j].evaluator = Me => chain'[j].evaluator = Me
           /\ \A i \in JobIds \ {j} : chain'[i] = chain[i]
           /\ reached' = [reached EXCEPT ![j] = @ \cup {chain'[j].status}]
<1> USE DEF TypeOK, ChainTypeOK
<1>1. chain \in [JobIds -> JobOnChain] /\ ChainStep(j)
    BY DEF JobMoves
<1>2. Me # NoAddress
    BY EvaluatorAssumption, ChainAssumption
<1>3. ASSUME NEW evaluator \in Addresses \cup {NoAddress}, ChainCreate(j, evaluator)
      PROVE  /\ chain[j].status \notin Terminal
             /\ chain'[j].status # "None"
             /\ chain[j].evaluator = Me => chain'[j].evaluator = Me
             /\ \A i \in JobIds \ {j} : chain'[i] = chain[i]
    BY <1>1, <1>2, <1>3 DEF ChainCreate, Absent, Shows, Terminal
<1>4. ASSUME NEW evaluator \in Addresses, ChainFund(j, evaluator)
      PROVE  /\ chain[j].status \notin Terminal
             /\ chain'[j].status # "None"
             /\ chain[j].evaluator = Me => chain'[j].evaluator = Me
             /\ \A i \in JobIds \ {j} : chain'[i] = chain[i]
    BY <1>1, <1>2, <1>4 DEF ChainFund, Shows, Terminal
<1>5. ASSUME NEW hash \in Hashes, ChainSubmit(j, hash)
      PROVE  /\ chain[j].status \notin Terminal
             /\ chain'[j].status # "None"
             /\ chain[j].evaluator = Me => chain'[j].evaluator = Me
             /\ \A i \in JobIds \ {j} : chain'[i] = chain[i]
    BY <1>1, <1>5 DEF ChainSubmit, Shows, Terminal
<1>6. ASSUME ChainComplete(j) \/ ChainReject(j) \/ ChainExpire(j)
      PROVE  /\ chain[j].status \notin Terminal
             /\ chain'[j].status # "None"
             /\ chain[j].evaluator = Me => chain'[j].evaluator = Me
             /\ \A i \in JobIds \ {j} : chain'[i] = chain[i]
    BY <1>1, <1>6 DEF ChainComplete, ChainReject, ChainExpire, Turns, Shows, Terminal
<1>7. ~ChainReopen(j)
    BY <1>1 DEF ChainReopen
<1> QED BY <1>1, <1>3, <1>4, <1>5, <1>6, <1>7 DEF ChainStep, JobMoves

\* A job that is settled stays as it is, and what may be told about a job only grows.
LEMMA ApiJobMovesKeep ==
    ASSUME ObserversInv, ApiJobMoves, UNCHANGED deployed, deployed # "evaluator-daemon"
    PROVE  /\ SettledOnce'
           /\ \A j \in JobIds : chain[j].status \in Terminal => chain'[j] = chain[j]
           /\ \A j \in JobIds : reached[j] \subseteq reached'[j]
           /\ \A j \in JobIds : chain[j].evaluator = Me => chain'[j].evaluator = Me
<1>1. PICK j \in JobIds : JobMoves(j) /\ chain'[j].attempt = 0
    BY DEF ApiJobMoves
<1>2. TypeOK /\ chain[j].attempt = 0 /\ SettledOnce
    BY DEF ObserversInv, SettledOnce
<1>3. /\ chain[j].status \notin Terminal
      /\ chain'[j].status # "None"
      /\ chain[j].evaluator = Me => chain'[j].evaluator = Me
      /\ \A i \in JobIds \ {j} : chain'[i] = chain[i]
      /\ reached' = [reached EXCEPT ![j] = @ \cup {chain'[j].status}]
    BY <1>1, <1>2, ApiMoveForward
<1>4. reached \in [JobIds -> SUBSET Phases]
    BY <1>2 DEF TypeOK, ReachedTypeOK
<1>5. SettledOnce'
    <2> SUFFICES ASSUME NEW i \in JobIds
                 PROVE  /\ chain'[i].attempt = 0
                        /\ reached'[i] \cap Terminal \subseteq {chain'[i].status}
                        /\ "None" \notin reached'[i]
        BY DEF SettledOnce
    <2>1. CASE i = j
        BY <1>1, <1>2, <1>3, <1>4, <2>1 DEF SettledOnce
    <2>2. CASE i # j
        BY <1>2, <1>3, <1>4, <2>2 DEF SettledOnce
    <2> QED BY <2>1, <2>2
<1> QED BY <1>3, <1>4, <1>5

\* The order of the answers does not matter to waitForResult.
LEMMA WaitForResultKeeps ==
    ASSUME ObserversInv, WaitForResult, UNCHANGED deployed
    PROVE  SettledOnce' /\ AnswersTrue' /\ ResultTrue'
<1>1. /\ SettledOnce /\ AnswersTrue /\ ResultTrue /\ deployed = "waitForResult"
      /\ polls \in [Polls -> {"idle", "sent", "failed"} \cup Phases]
    BY DEF ObserversInv, WaitForResult, TypeOK, WatcherTypeOK
<1>2. CASE ApiJobMoves /\ UNCHANGED watcherVars
    BY <1>1, <1>2, ApiJobMovesKeep, WatcherAssumption
    DEF AnswersTrue, ResultTrue, watcherVars, OutcomeOf
<1>3. CASE WatcherStep /\ UNCHANGED <<chain, reached>>
    <2>1. SettledOnce'
        BY <1>1, <1>3 DEF SettledOnce
    <2>2. ASSUME NEW p \in Polls, Poll(p) \/ ServeNothing(p) \/ PollError(p)
          PROVE  AnswersTrue' /\ ResultTrue'
        BY <1>1, <1>3, <2>2 DEF Poll, ServeNothing, PollError, AnswersTrue, ResultTrue, Phases, OutcomeOf
    <2>3. ASSUME NEW p \in Polls, NEW status \in Phases, Serve(p, status)
          PROVE  AnswersTrue' /\ ResultTrue'
        BY <1>1, <1>3, <2>3 DEF Serve, AnswersTrue, ResultTrue, OutcomeOf
    <2>4. ASSUME NEW p \in Polls, Answer(p)
          PROVE  AnswersTrue' /\ ResultTrue'
        <3>1. polls[p] \in Phases /\ polls[p] \in reached[Watched]
            BY <1>1, <2>4 DEF Answer, AnswersTrue
        <3>2. polls[p] \in Terminal => chain[Watched].status = polls[p]
            BY <1>1, <3>1, WatcherAssumption DEF SettledOnce
        <3>3. AnswersTrue'
            BY <1>1, <1>3, <2>4 DEF Answer, AnswersTrue, Phases
        <3>4. ResultTrue'
            <4>1. \/ outcome' = outcome
                  \/ polls[p] \in Terminal /\ outcome' = OutcomeOf(polls[p])
                BY <2>4 DEF Answer, Resolve
            <4>2. CASE outcome' = outcome
                BY <1>1, <1>3, <4>2 DEF ResultTrue
            <4>3. CASE polls[p] \in Terminal /\ outcome' = OutcomeOf(polls[p])
                BY <1>3, <3>2, <4>3 DEF ResultTrue
            <4> QED BY <4>1, <4>2, <4>3
        <3> QED BY <3>3, <3>4
    <2>5. CASE GiveUp
        <3>1. outcome' = "timeout" /\ polls' = polls
            BY <2>5 DEF GiveUp, Resolve
        <3>2. AnswersTrue'
            BY <1>1, <1>3, <3>1 DEF AnswersTrue
        <3>3. ResultTrue'
            BY <3>1 DEF ResultTrue
        <3> QED BY <2>1, <3>2, <3>3
    <2> QED BY <1>3, <2>1, <2>2, <2>3, <2>4, <2>5 DEF WatcherStep
<1> QED BY <1>2, <1>3 DEF WaitForResult

\* Nothing false is announced to the evaluator.
LEMMA WatchAssignmentsKeeps ==
    ASSUME ObserversInv, WatchAssignments, UNCHANGED deployed
    PROVE  SettledOnce' /\ ListTrue' /\ HeardIsTrue'
<1>1. /\ SettledOnce /\ ListTrue /\ HeardIsTrue /\ deployed = "AssignmentWatcher"
      /\ AssignmentTypeOK
    BY DEF ObserversInv, WatchAssignments, TypeOK
<1>2. CASE ApiJobMoves /\ UNCHANGED assignmentVars
    <2>1. listed' = listed /\ list' = list /\ heard' = heard
        BY <1>2 DEF assignmentVars
    <2>2. SettledOnce' /\ HeardIsTrue'
        BY <1>1, <1>2, <2>1, ApiJobMovesKeep DEF HeardIsTrue
    <2>3. ListTrue'
        BY <1>1, <1>2, <2>1, ApiJobMovesKeep DEF ListTrue
    <2> QED BY <2>2, <2>3
<1>3. CASE AssignmentStep /\ UNCHANGED <<chain, reached>>
    <2>1. SettledOnce'
        BY <1>1, <1>3 DEF SettledOnce
    <2>2. CASE PollAssignments \/ ListFails \/ ListError \/ StopAssignments
        <3>1. listed' = listed /\ list' = list /\ heard' = heard
            BY <2>2 DEF PollAssignments, ListFails, ListError, StopAssignments
        <3> QED BY <1>1, <1>3, <2>1, <3>1 DEF ListTrue, HeardIsTrue
    <2>3. CASE ServeList
        BY <1>1, <1>3, <2>1, <2>3 DEF ServeList, ListTrue, HeardIsTrue
    <2>4. ASSUME NEW j \in JobIds, RowWritten(j)
          PROVE  ListTrue' /\ HeardIsTrue'
        <3>1. /\ list' = list /\ heard' = heard
              /\ \A i \in JobIds :
                    \/ listed'[i] = listed[i]
                    \/ i = j /\ listed'[i] \in Listings(j)
            BY <1>1, <2>4 DEF RowWritten, AssignmentTypeOK
        <3> QED BY <1>1, <1>3, <3>1 DEF Listings, ListTrue, HeardIsTrue
    <2>5. CASE ApplyList
        <3>1. ListTrue'
            BY <1>1, <1>3, <2>5 DEF ApplyList, NoList, ListTrue
        <3>2. ASSUME NEW j \in JobIds, NEW k \in JobIds, <<"assigned", j>> \in Emits(k)
              PROVE  "Funded" \in reached[j] /\ chain[j].evaluator = Me
            <4>1. k = j /\ list[j] \notin {"unlisted", "Open"} /\ EventOf(list[j]) = "assigned"
                BY <3>2 DEF Emits
            <4>2. list[j] \in reached[j] /\ chain[j].evaluator = Me
                BY <1>1, <4>1 DEF ListTrue
            <4>3. list[j] \in Listed /\ list[j] # "None"
                BY <1>1, <4>2 DEF AssignmentTypeOK, SettledOnce
            <4>4. list[j] = "Funded"
                BY <4>1, <4>3 DEF EventOf, Listed, Phases
            <4> QED BY <4>2, <4>4
        <3>3. ASSUME NEW j \in JobIds, NEW k \in JobIds, <<"submitted", j>> \in Emits(k)
              PROVE  "Submitted" \in reached[j] /\ chain[j].evaluator = Me
            <4>1. k = j /\ list[j] # "unlisted" /\ EventOf(list[j]) = "submitted"
                BY <3>3 DEF Emits
            <4>2. list[j] \in reached[j] /\ chain[j].evaluator = Me
                BY <1>1, <4>1 DEF ListTrue
            <4>3. list[j] = "Submitted"
                BY <4>1 DEF EventOf
            <4> QED BY <4>2, <4>3
        <3>4. ASSUME NEW j \in JobIds, NEW event, <<event, j>> \in heard'
              PROVE  <<event, j>> \in heard \/ \E k \in JobIds : <<event, j>> \in Emits(k)
            <4>1. heard' = heard \cup UNION {Emits(k) : k \in JobIds}
                BY <2>5 DEF ApplyList
            <4> QED BY <3>4, <4>1
        <3>5. ASSUME NEW j \in JobIds, <<"assigned", j>> \in heard'
              PROVE  "Funded" \in reached[j] /\ chain[j].evaluator = Me
            BY <1>1, <3>2, <3>4, <3>5 DEF HeardIsTrue
        <3>6. ASSUME NEW j \in JobIds, <<"submitted", j>> \in heard'
              PROVE  "Submitted" \in reached[j] /\ chain[j].evaluator = Me
            BY <1>1, <3>3, <3>4, <3>6 DEF HeardIsTrue
        <3>7. HeardIsTrue'
            BY <1>3, <3>5, <3>6 DEF HeardIsTrue
        <3> QED BY <2>1, <3>1, <3>7
    <2> QED BY <1>3, <2>1, <2>2, <2>3, <2>4, <2>5 DEF AssignmentStep
<1> QED BY <1>2, <1>3 DEF WatchAssignments

\* A block mined during a scan is after its range.
LEMMA BlockMinedKeeps ==
    ASSUME TypeOK, ScanCovers, NothingPassedOver, BlockMined
    PROVE  ScanCovers' /\ NothingPassedOver'
<1>1. /\ block' = block + 1 /\ block \in 0 .. MaxBlock
      /\ UNCHANGED <<stateFile, scan, firstBlock, printed, dismissed>>
      /\ submissions \subseteq submissions'
      /\ \A e \in submissions' \ submissions : e.block = block'
    BY DEF BlockMined, daemonVars, TypeOK, DaemonTypeOK
<1>2. scan.to \in 0 .. MaxBlock /\ MaxBlock \in Nat /\ submissions \subseteq Submission
    BY DaemonAssumption DEF TypeOK, DaemonTypeOK
<1>3. \A e \in submissions : e.block \in 0 .. MaxBlock
    BY <1>2 DEF Submission
<1>4. \A e \in submissions' : e \notin submissions => ~(e.block <= block)
    BY <1>1
<1>5. \A e \in submissions' : e.block <= block'
    BY <1>1, <1>2, <1>3 DEF ScanCovers
<1>6. \A e \in submissions' : e.block \in firstBlock .. scan.to => e \in submissions
    BY <1>1, <1>2 DEF ScanCovers
<1>7. ScanCovers'
    BY <1>1, <1>2, <1>5, <1>6 DEF ScanCovers
<1>8. NothingPassedOver'
    BY <1>1, <1>2 DEF ScanCovers, NothingPassedOver
<1> QED BY <1>7, <1>8

\* No step of the daemon, a stop half way included, loses an event of its range.
LEMMA DaemonKeeps ==
    ASSUME TypeOK, ScanCovers, NothingPassedOver, DaemonStep
    PROVE  ScanCovers' /\ NothingPassedOver'
<1>0. /\ scan \in Scan /\ block \in 0 .. MaxBlock /\ submissions \subseteq Submission
      /\ stateFile \in 0 .. MaxBlock + 2 /\ firstBlock \in 0 .. MaxBlock + 1
      /\ MaxBlock \in Nat /\ CHUNK_SIZE \in Nat \ {0}
    BY DaemonAssumption DEF TypeOK, DaemonTypeOK, Scan
<1>a. \A e \in submissions : e.block \in 0 .. MaxBlock
    BY <1>0 DEF Submission
<1>1. CASE BlockMined
    BY <1>1, BlockMinedKeeps
<1>2. ASSUME NEW all \in BOOLEAN, StartScan(all)
      PROVE  ScanCovers' /\ NothingPassedOver'
    <2>1. /\ scan' = [pc |-> "fetch", all |-> all, to |-> block, events |-> {}, alerts |-> {},
                      next |-> IF all THEN DEPLOY_BLOCK ELSE LastScanned]
          /\ UNCHANGED <<block, submissions, stateFile, printed, dismissed>>
          /\ firstBlock' = IF stateFile = NoState /\ ~all THEN LastScanned ELSE firstBlock
          /\ stateFile # Torn
        BY <1>2 DEF StartScan, Resting
    <2>2. NothingPassedOver'
        BY <1>0, <2>1 DEF NothingPassedOver, NoState
    <2>3. ASSUME ~all, NEW e \in submissions, e.block \in firstBlock' .. block
          PROVE  e \in printed \cup dismissed \/ scan'.next <= e.block
        <3>1. CASE stateFile = NoState
            BY <1>0, <1>a, <2>1, <2>3, <3>1 DEF LastScanned
        <3>2. CASE stateFile # NoState
            <4>1. scan'.next = stateFile /\ stateFile \in 0 .. MaxBlock /\ firstBlock' = firstBlock
                BY <1>0, <2>1, <2>3, <3>2 DEF LastScanned, NoState, Torn
            <4>2. e.block <= stateFile => e \in printed \cup dismissed
                BY <1>0, <1>a, <2>3, <4>1 DEF NothingPassedOver
            <4> QED BY <1>0, <1>a, <4>1, <4>2
        <3> QED BY <3>1, <3>2
    <2>4. ScanCovers'
        BY <1>0, <2>1, <2>3 DEF ScanCovers
    <2> QED BY <2>2, <2>4
<1>3. CASE FetchChunk
    <2>1. /\ scan' = [scan EXCEPT !.next = scan.next + CHUNK_SIZE,
                !.events = @ \cup {e \in submissions : e.block \in scan.next .. ChunkEnd}]
          /\ scan.pc = "fetch"
          /\ UNCHANGED <<block, submissions, stateFile, firstBlock, printed, dismissed>>
        BY <1>3 DEF FetchChunk
    <2>2. /\ scan.next \in Nat /\ scan.to \in Nat
          /\ scan'.pc = "fetch" /\ scan'.all = scan.all /\ scan'.to = scan.to
          /\ scan'.alerts = scan.alerts
          /\ scan'.next = scan.next + CHUNK_SIZE
          /\ scan'.events = scan.events \cup
                {e \in submissions : e.block \in scan.next .. ChunkEnd}
        BY <1>0, <2>1 DEF Scan
    <2>3. ASSUME NEW e \in submissions, e.block \in firstBlock .. scan.to, scan.next <= e.block
          PROVE  e \in scan'.events \/ scan'.next <= e.block
        BY <1>0, <1>a, <2>2, <2>3 DEF ChunkEnd
    <2>4. ScanCovers'
        BY <1>0, <2>1, <2>2, <2>3 DEF ScanCovers
    <2> QED BY <2>1, <2>4 DEF NothingPassedOver
<1>4. CASE FetchedAll
    <2>1. /\ scan' = [scan EXCEPT !.pc = "inspect"]
          /\ scan.pc = "fetch" /\ scan.next > scan.to
          /\ UNCHANGED <<block, submissions, stateFile, firstBlock, printed, dismissed>>
        BY <1>4 DEF FetchedAll
    <2>2. /\ scan.next \in Nat /\ scan.to \in Nat
          /\ scan'.pc = "inspect" /\ scan'.all = scan.all /\ scan'.to = scan.to
          /\ scan'.alerts = scan.alerts /\ scan'.events = scan.events
        BY <1>0, <2>1 DEF Scan
    <2>3. ASSUME NEW e \in submissions, e.block \in firstBlock .. scan.to
          PROVE  ~(scan.next <= e.block)
        BY <1>0, <1>a, <2>1, <2>2, <2>3
    <2>4. ScanCovers'
        BY <1>0, <2>1, <2>2, <2>3 DEF ScanCovers
    <2> QED BY <2>1, <2>4 DEF NothingPassedOver
<1>5. ASSUME NEW e \in submissions, Inspect(e)
      PROVE  ScanCovers' /\ NothingPassedOver'
    <2>1. /\ scan.pc = "inspect"
          /\ UNCHANGED <<block, submissions, stateFile, firstBlock, printed>>
          /\ dismissed \subseteq dismissed'
        BY <1>5 DEF Inspect
    <2>2. /\ scan'.pc = "inspect" /\ scan'.all = scan.all /\ scan'.to = scan.to
          /\ scan'.events = scan.events \ {e}
          /\ scan.alerts \subseteq scan'.alerts
          /\ e \in scan'.alerts \cup dismissed'
        <3>1. \/ scan' = [scan EXCEPT !.events = @ \ {e}, !.alerts = @ \cup {e}]
              \/ scan' = [scan EXCEPT !.events = @ \ {e}] /\ e \in dismissed'
            BY <1>5 DEF Inspect
        <3>2. DOMAIN scan = {"pc", "all", "next", "to", "events", "alerts"}
            BY <1>0 DEF Scan
        <3>3. CASE scan' = [scan EXCEPT !.events = @ \ {e}, !.alerts = @ \cup {e}]
            BY <2>1, <3>2, <3>3
        <3>4. CASE scan' = [scan EXCEPT !.events = @ \ {e}] /\ e \in dismissed'
            BY <2>1, <3>2, <3>4
        <3> QED BY <3>1, <3>3, <3>4
    <2>3. ScanCovers'
        BY <2>1, <2>2 DEF ScanCovers
    <2>4. NothingPassedOver'
        BY <2>1 DEF NothingPassedOver
    <2> QED BY <2>3, <2>4
<1>6. CASE InspectedAll
    <2>1. /\ scan' = [scan EXCEPT !.pc = "print"]
          /\ scan.pc = "inspect" /\ scan.events = {}
          /\ UNCHANGED <<block, submissions, stateFile, firstBlock, printed, dismissed>>
        BY <1>6 DEF InspectedAll
    <2>2. /\ scan'.pc = "print" /\ scan'.all = scan.all /\ scan'.to = scan.to
          /\ scan'.alerts = scan.alerts /\ scan'.events = {}
        BY <1>0, <2>1 DEF Scan
    <2>3. ScanCovers'
        BY <2>1, <2>2 DEF ScanCovers
    <2> QED BY <2>1, <2>3 DEF NothingPassedOver
<1>7. CASE PrintAlerts
    <2>1. /\ scan.pc = "print"
          /\ UNCHANGED <<block, submissions, stateFile, firstBlock, dismissed>>
          /\ printed' = printed \cup scan.alerts
        BY <1>7 DEF PrintAlerts
    <2>2. NothingPassedOver'
        BY <2>1 DEF NothingPassedOver
    <2>3. CASE scan.all
        <3>1. scan'.pc = "idle" /\ scan'.to = 0
            BY <1>7, <2>3 DEF PrintAlerts, Resting
        <3> QED BY <1>0, <2>1, <2>2, <3>1 DEF ScanCovers
    <2>4. CASE ~scan.all
        <3>1. /\ scan'.pc = "save" /\ scan'.all = scan.all /\ scan'.to = scan.to
              /\ scan'.alerts = scan.alerts /\ scan'.events = scan.events
            BY <1>0, <1>7, <2>4 DEF PrintAlerts, Scan
        <3> QED BY <2>1, <2>2, <2>4, <3>1 DEF ScanCovers
    <2> QED BY <2>3, <2>4
<1>8. CASE SaveState
    <2>1. /\ scan.pc = "save"
          /\ UNCHANGED <<block, submissions, firstBlock, printed, dismissed>>
          /\ stateFile' = scan.to
          /\ scan'.pc = "idle" /\ scan'.to = 0
        BY <1>8 DEF SaveState, Resting
    <2>2. ASSUME NEW e \in submissions, e.block \in firstBlock .. scan.to
          PROVE  e \in printed \cup dismissed
        BY <2>1, <2>2 DEF ScanCovers
    <2>3. NothingPassedOver'
        BY <2>1, <2>2 DEF NothingPassedOver
    <2>4. ScanCovers'
        BY <1>0, <2>1 DEF ScanCovers
    <2> QED BY <2>3, <2>4
<1>9. CASE ScanEnds
    <2>1. /\ UNCHANGED <<block, submissions, firstBlock, printed, dismissed>>
          /\ stateFile' \in {stateFile, Torn}
          /\ scan'.pc = "idle" /\ scan'.to = 0
        BY <1>9 DEF ScanEnds, Resting
    <2>2. stateFile' \in 0 .. MaxBlock => stateFile' = stateFile
        BY <1>0, <2>1 DEF Torn
    <2>3. NothingPassedOver'
        BY <2>1, <2>2 DEF NothingPassedOver
    <2>4. ScanCovers'
        BY <1>0, <2>1, <2>2 DEF ScanCovers
    <2> QED BY <2>3, <2>4
<1> QED BY <1>1, <1>2, <1>3, <1>4, <1>5, <1>6, <1>7, <1>8, <1>9 DEF DaemonStep

\* No step of the forum watcher loses a post.
LEMMA ForumKeeps ==
    ASSUME TypeOK, ReadingCovers, NoPostMissed, ForumStep
    PROVE  ReadingCovers' /\ NoPostMissed'
<1>1. /\ reading \in [on: BOOLEAN, next: 0 .. MaxPost + 1, highest: FirstPost .. MaxPost,
                      saves: BOOLEAN, found: SUBSET (0 .. MaxPost)]
      /\ lastSeenPostNumber \in FirstPost .. MaxPost
      /\ FirstPost \in Nat /\ MaxPost \in Nat
    BY ForumAssumption DEF TypeOK, ForumTypeOK
<1>2. CASE SomebodyPosts
    BY <1>2 DEF SomebodyPosts, ReadingCovers, NoPostMissed
<1>3. CASE StartFromState
    <2>1. /\ reading'.next = lastSeenPostNumber + 1
          /\ UNCHANGED <<lastSeenPostNumber, shown, notServed, malformed>>
        BY <1>3 DEF StartFromState, StartReading
    <2> QED BY <1>1, <2>1 DEF ReadingCovers, NoPostMissed
<1>4. CASE StartFromNaN
    BY <1>4 DEF StartFromNaN, ReadingCovers, NoPostMissed
<1>5. ASSUME NEW from \in 0 .. MaxPost, StartFrom(from)
      PROVE  ReadingCovers' /\ NoPostMissed'
    <2>1. /\ reading'.next = from + 1
          /\ reading'.saves => from = 0
          /\ UNCHANGED <<lastSeenPostNumber, shown, notServed, malformed>>
        BY <1>5 DEF StartFrom, StartReading
    <2>2. reading'.saves => FirstPost + 1 .. reading'.next - 1 = {}
        BY <1>1, <2>1
    <2>3. ReadingCovers'
        BY <2>2 DEF ReadingCovers
    <2>4. NoPostMissed'
        BY <2>1 DEF NoPostMissed
    <2> QED BY <2>3, <2>4
<1>6. CASE FetchPost
    <2>1. /\ UNCHANGED <<lastSeenPostNumber, shown, malformed>>
          /\ notServed \subseteq notServed'
          /\ reading'.next = reading.next + 1 /\ reading'.on = reading.on
          /\ reading'.saves = reading.saves
          /\ reading.found \subseteq reading'.found
          /\ reading.next \in reading'.found \cup notServed'
        BY <1>1, <1>6 DEF FetchPost
    <2>2. ReadingCovers'
        BY <1>1, <2>1 DEF ReadingCovers
    <2>3. NoPostMissed'
        BY <2>1 DEF NoPostMissed
    <2> QED BY <2>2, <2>3
<1>7. CASE Finish
    <2>1. /\ reading.on /\ reading.next > reading.highest
          /\ shown' = shown \cup reading.found
          /\ lastSeenPostNumber' = IF reading.saves THEN reading.highest
                                   ELSE lastSeenPostNumber
          /\ ~reading'.on
          /\ UNCHANGED <<notServed, malformed>>
        BY <1>7 DEF Finish, NotReading
    <2> QED BY <1>1, <2>1 DEF ReadingCovers, NoPostMissed
<1>8. CASE ReadingFails
    BY <1>8 DEF ReadingFails, NotReading, ReadingCovers, NoPostMissed
<1> QED BY <1>2, <1>3, <1>4, <1>5, <1>6, <1>7, <1>8 DEF ForumStep

-----------------------------------------------------------------------------
(* Each program disturbs its own part of the invariant. *)

\* Every step keeps the invariants.
LEMMA ObserversInvStep == ObserversInv /\ [Next]_vars => ObserversInv'
<1> SUFFICES ASSUME ObserversInv, [Next]_vars PROVE ObserversInv'
    OBVIOUS
<1>1. TypeOK'
    BY NextTyped DEF ObserversInv
<1>2. CASE WaitForResult /\ UNCHANGED deployed
    <2>1. SettledOnce' /\ AnswersTrue' /\ ResultTrue'
        BY <1>2, WaitForResultKeeps
    <2>2. /\ deployed = "waitForResult"
          /\ UNCHANGED <<deployed, assignmentVars, ledgerVars, forumVars>>
        BY <1>2 DEF WaitForResult
    <2>3. ListTrue' /\ HeardIsTrue'
        BY <2>2 DEF assignmentVars, ObserversInv, ListTrue, HeardIsTrue
    <2>4. ScanCovers' /\ NothingPassedOver'
        BY <2>2 DEF ledgerVars, daemonVars, ObserversInv, ScanCovers, NothingPassedOver
    <2>5. ReadingCovers' /\ NoPostMissed'
        BY <2>2 DEF forumVars, ObserversInv, ReadingCovers, NoPostMissed
    <2> QED BY <1>1, <2>1, <2>3, <2>4, <2>5 DEF ObserversInv
<1>3. CASE WatchAssignments /\ UNCHANGED deployed
    <2>1. SettledOnce' /\ ListTrue' /\ HeardIsTrue'
        BY <1>3, WatchAssignmentsKeeps
    <2>2. /\ deployed = "AssignmentWatcher"
          /\ UNCHANGED <<deployed, watcherVars, ledgerVars, forumVars>>
        BY <1>3 DEF WatchAssignments
    <2>3. outcome = "none" /\ outcome' = "none"
        BY <2>2 DEF watcherVars, ObserversInv, AnswersTrue
    <2>4. AnswersTrue' /\ ResultTrue'
        BY <2>2, <2>3 DEF AnswersTrue, ResultTrue, Outcomes
    <2>5. ScanCovers' /\ NothingPassedOver'
        BY <2>2 DEF ledgerVars, daemonVars, ObserversInv, ScanCovers, NothingPassedOver
    <2>6. ReadingCovers' /\ NoPostMissed'
        BY <2>2 DEF forumVars, ObserversInv, ReadingCovers, NoPostMissed
    <2> QED BY <1>1, <2>1, <2>4, <2>5, <2>6 DEF ObserversInv
<1>4. CASE RunDaemon /\ UNCHANGED deployed
    <2>1. ScanCovers' /\ NothingPassedOver'
        BY <1>4, DaemonKeeps DEF RunDaemon, ObserversInv
    <2>2. /\ deployed = "evaluator-daemon"
          /\ UNCHANGED <<deployed, watcherVars, assignmentVars, forumVars>>
        BY <1>4 DEF RunDaemon
    <2>3. outcome' = "none" /\ heard' = {} /\ SettledOnce'
        BY <2>2 DEF watcherVars, assignmentVars, ObserversInv, AnswersTrue, ListTrue, SettledOnce
    <2>4. AnswersTrue' /\ ResultTrue' /\ ListTrue' /\ HeardIsTrue'
        BY <2>2, <2>3 DEF AnswersTrue, ResultTrue, Outcomes, ListTrue, HeardIsTrue
    <2>5. ReadingCovers' /\ NoPostMissed'
        BY <2>2 DEF forumVars, ObserversInv, ReadingCovers, NoPostMissed
    <2> QED BY <1>1, <2>1, <2>3, <2>4, <2>5 DEF ObserversInv
<1>5. CASE WatchForum /\ UNCHANGED deployed
    <2>1. ReadingCovers' /\ NoPostMissed'
        BY <1>5, ForumKeeps DEF WatchForum, ObserversInv
    <2>2. /\ deployed = "forum-watcher"
          /\ UNCHANGED <<deployed, chain, reached, watcherVars, assignmentVars, ledgerVars>>
        BY <1>5 DEF WatchForum
    <2>3. SettledOnce' /\ AnswersTrue' /\ ResultTrue'
        BY <2>2 DEF watcherVars, ObserversInv, SettledOnce, AnswersTrue, ResultTrue
    <2>4. ListTrue' /\ HeardIsTrue'
        BY <2>2 DEF assignmentVars, ObserversInv, ListTrue, HeardIsTrue
    <2>5. ScanCovers' /\ NothingPassedOver'
        BY <2>2 DEF ledgerVars, daemonVars, ObserversInv, ScanCovers, NothingPassedOver
    <2> QED BY <1>1, <2>1, <2>3, <2>4, <2>5 DEF ObserversInv
<1>6. CASE UNCHANGED vars
    <2>1. UNCHANGED <<chain, reached, deployed>> /\ UNCHANGED watcherVars
          /\ UNCHANGED assignmentVars /\ UNCHANGED ledgerVars /\ UNCHANGED forumVars
        BY <1>6 DEF vars
    <2>2. SettledOnce' /\ AnswersTrue' /\ ResultTrue'
        BY <2>1 DEF watcherVars, ObserversInv, SettledOnce, AnswersTrue, ResultTrue
    <2>3. ListTrue' /\ HeardIsTrue'
        BY <2>1 DEF assignmentVars, ObserversInv, ListTrue, HeardIsTrue
    <2>4. ScanCovers' /\ NothingPassedOver'
        BY <2>1 DEF ledgerVars, daemonVars, ObserversInv, ScanCovers, NothingPassedOver
    <2>5. ReadingCovers' /\ NoPostMissed'
        BY <2>1 DEF forumVars, ObserversInv, ReadingCovers, NoPostMissed
    <2> QED BY <1>1, <2>2, <2>3, <2>4, <2>5 DEF ObserversInv
<1> QED BY <1>2, <1>3, <1>4, <1>5, <1>6 DEF Next

\* The inductive invariants hold in every behaviour.
THEOREM ObserversInvHolds == Spec => []ObserversInv
<1> QED BY ObserversInvInit, ObserversInvStep, PTL DEF Spec

\* However the answers of waitForResult's polls are reordered, what it resolves with,
\* other than the timeout, is what became of the job.
THEOREM ResultIsTrue == Spec => []ResultTrue
<1>1. ObserversInv => ResultTrue
    BY DEF ObserversInv
<1> QED BY <1>1, ObserversInvHolds, PTL

\* AssignmentWatcher announces an assignment or a submission only for a job that was
\* funded, or submitted, with this evaluator.
THEOREM HeardEventsAreTrue == Spec => []HeardIsTrue
<1>1. ObserversInv => HeardIsTrue
    BY DEF ObserversInv
<1> QED BY <1>1, ObserversInvHolds, PTL

\* The daemon's position passes no submission that it did not handle, for every chunk
\* size and wherever its runs stop.
THEOREM DaemonPassesNothingOver == Spec => []NothingPassedOver
<1>1. ObserversInv => NothingPassedOver
    BY DEF ObserversInv
<1> QED BY <1>1, ObserversInvHolds, PTL

\* The forum watcher's position passes no post that it did not fetch, as long as nobody
\* gave it a --from that is no number.
THEOREM ForumMissesNoPost == Spec => []NoPostMissed
<1>1. ObserversInv => NoPostMissed
    BY DEF ObserversInv
<1> QED BY <1>1, ObserversInvHolds, PTL

=============================================================================
