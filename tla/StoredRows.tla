------------------------------- MODULE StoredRows -------------------------------
(***************************************************************************)
(* What the API may answer about a job while its row is behind the chain:  *)
(* any status the job has had (ApiServer, StoredBehindChain; late writes   *)
(* may even take a row back for a while).                                  *)
(***************************************************************************)
EXTENDS JobChain

VARIABLE reached     \* statuses each job has had since it was created

ReachedTypeOK == reached \in [JobIds -> SUBSET Phases]

ReachedInit == reached = [j \in JobIds |-> {}]

\* A move of the chain; what was true before may still be answered after it.
JobMoves(j) ==
    /\ ChainStep(j)
    /\ reached' = [reached EXCEPT ![j] = @ \cup {chain'[j].status}]

=============================================================================
