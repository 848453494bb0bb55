-------------------------------- MODULE Observers --------------------------------
(***************************************************************************)
(* The programs that watch jobs from outside: a client that waits for its  *)
(* result (JobWatcher), an evaluator that waits for work (AssignmentWatcher) *)
(* and the operator's two commands (EvaluatorDaemon, ForumWatcher).  They  *)
(* read the chain or the API and none writes what another reads, so a      *)
(* behaviour runs one of them; the others are idle.                        *)
(***************************************************************************)
EXTENDS JobWatcher, AssignmentWatcher, EvaluatorDaemon, ForumWatcher

VARIABLE deployed    \* the program that runs

Programs == {"waitForResult", "AssignmentWatcher", "evaluator-daemon", "forum-watcher"}

ledgerVars == <<block, submissions, daemonVars>>
vars == <<chain, reached, watcherVars, assignmentVars, ledgerVars, forumVars, deployed>>

TypeOK ==
    /\ deployed \in Programs
    /\ ChainTypeOK /\ ReachedTypeOK
    /\ WatcherTypeOK /\ AssignmentTypeOK /\ DaemonTypeOK /\ ForumTypeOK

Init ==
    /\ deployed \in Programs
    /\ ChainInit /\ ReachedInit
    /\ WatcherInit /\ AssignmentInit /\ DaemonInit /\ ForumInit

\* A job the API created is never reopened: no endpoint does it and the client's key
\* is the API's.
ApiJobMoves == \E j \in JobIds : JobMoves(j) /\ chain'[j].attempt = 0

WaitForResult ==
    /\ deployed = "waitForResult"
    /\ \/ WatcherStep /\ UNCHANGED <<chain, reached>>
       \/ ApiJobMoves /\ UNCHANGED watcherVars
    /\ UNCHANGED <<assignmentVars, ledgerVars, forumVars>>

WatchAssignments ==
    /\ deployed = "AssignmentWatcher"
    /\ \/ AssignmentStep /\ UNCHANGED <<chain, reached>>
       \/ ApiJobMoves /\ UNCHANGED assignmentVars
    /\ UNCHANGED <<watcherVars, ledgerVars, forumVars>>

RunDaemon ==
    /\ deployed = "evaluator-daemon"
    /\ DaemonStep
    /\ UNCHANGED <<reached, watcherVars, assignmentVars, forumVars>>

WatchForum ==
    /\ deployed = "forum-watcher"
    /\ ForumStep
    /\ UNCHANGED <<chain, reached, watcherVars, assignmentVars, ledgerVars>>

Next ==
    /\ WaitForResult \/ WatchAssignments \/ RunDaemon \/ WatchForum
    /\ UNCHANGED deployed

Spec == Init /\ [][Next]_vars
FairSpec ==
    /\ Spec
    /\ deployed = "waitForResult" => WatcherFairness
    /\ deployed = "AssignmentWatcher" => AssignmentFairness

-----------------------------------------------------------------------------
\* While waitForResult runs, what happened to its job is announced in the end.
ClientHears == deployed = "waitForResult" => SettledAnnounced

\* While an evaluator's watcher runs, the work that waits for it is announced, provided
\* that the rows catch up: its own requests do not make them.
EvaluatorHears == deployed = "AssignmentWatcher" /\ RowsCatchUp => SubmissionHeard

=============================================================================
