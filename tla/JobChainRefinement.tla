--------------------------- MODULE JobChainRefinement ---------------------------
(***************************************************************************)
(* AgentJobManager implements JobChain.  setBudget, extendDeadline, the    *)
(* refunds and governance are stuttering steps of the abstract chain.      *)
(***************************************************************************)
EXTENDS AgentJobManager

\* getJob(): an unwritten slot has no client, whatever its status field says.
VisibleJob(j) ==
    [status |-> IF JobExists(j) THEN jobs[j].status ELSE "None",
     evaluator |-> jobs[j].evaluator,
     deliverable |-> jobs[j].deliverable,
     attempt |-> jobs[j].cycle]

Promise == INSTANCE JobChain WITH
    chain <- [j \in JobIds |-> VisibleJob(j)],
    Addresses <- Accounts,
    Hashes <- Deliverables

\* Every call of the contract moves at most one job, along a move of JobChain:
\* a status never jumps, evaluator and deliverable change only at funding,
\* submission and reopening, and a settled job stays settled unless reopened.
ImplementsJobChain == Promise!ChainSpec

=============================================================================
