-------------------------------- MODULE JobChain --------------------------------
(***************************************************************************)
(* What AgentJobManager promises to everybody who watches jobs from the    *)
(* outside, and what the off-chain modules are written against: the legal  *)
(* moves of a job's status (enum JobStatus), its evaluator and its         *)
(* deliverable hash, without money, time or authority.  AgentJobManager    *)
(* implements it (JobChainRefinement).                                     *)
(***************************************************************************)
EXTENDS Naturals

CONSTANTS
    JobIds,          \* identifiers createJob may hand out
    Addresses,       \* addresses that may evaluate
    NoAddress,       \* address(0)
    Hashes,          \* non-zero deliverable hashes
    NoHash,          \* bytes32(0)
    MaxReopens       \* bound: times one job is reopened

ASSUME ChainAssumption ==
    /\ NoAddress \notin Addresses
    /\ NoHash \notin Hashes
    /\ MaxReopens \in Nat

VARIABLE chain       \* what getJob() returns for each identifier

Phases == {"None", "Open", "Funded", "Submitted", "Completed", "Rejected", "Expired"}
Terminal == {"Completed", "Rejected", "Expired"}

JobOnChain == [status: Phases, evaluator: Addresses \cup {NoAddress},
               deliverable: Hashes \cup {NoHash}, attempt: Nat]

\* getJob() reverts for such an identifier.
Absent == [status |-> "None", evaluator |-> NoAddress, deliverable |-> NoHash,
           attempt |-> 0]

ChainTypeOK == chain \in [JobIds -> JobOnChain]

ChainInit == chain = [j \in JobIds |-> Absent]

\* Job j is shown with these fields from now on, in the attempt it was in.
Shows(j, status, evaluator, deliverable) ==
    chain' = [chain EXCEPT ![j] = [status |-> status, evaluator |-> evaluator,
                                   deliverable |-> deliverable,
                                   attempt |-> chain[j].attempt]]

\* The status moves and nothing else does.
Turns(j, status) == Shows(j, status, chain[j].evaluator, chain[j].deliverable)

\* An evaluator chosen now, or NoAddress to have one drawn at funding.
ChainCreate(j, evaluator) ==
    /\ chain[j] = Absent
    /\ Shows(j, "Open", evaluator, NoHash)

ChainFund(j, evaluator) ==
    /\ chain[j].status = "Open"
    /\ chain[j].evaluator \in {NoAddress, evaluator}
    /\ evaluator # NoAddress
    /\ Shows(j, "Funded", evaluator, chain[j].deliverable)

ChainSubmit(j, hash) ==
    /\ chain[j].status = "Funded"
    /\ Shows(j, "Submitted", chain[j].evaluator, hash)

ChainComplete(j) ==
    /\ chain[j].status = "Submitted"
    /\ Turns(j, "Completed")

ChainReject(j) ==
    /\ chain[j].status \in {"Open", "Funded", "Submitted"}
    /\ Turns(j, "Rejected")

ChainExpire(j) ==
    /\ chain[j].status \in {"Funded", "Submitted"}
    /\ Turns(j, "Expired")

\* A new attempt remembers neither the evaluator nor the deliverable.
ChainReopen(j) ==
    /\ chain[j].status = "Rejected"
    /\ chain[j].attempt < MaxReopens
    /\ chain' = [chain EXCEPT ![j] = [status |-> "Open", evaluator |-> NoAddress,
                                      deliverable |-> NoHash,
                                      attempt |-> chain[j].attempt + 1]]

ChainStep(j) ==
    \/ \E evaluator \in Addresses \cup {NoAddress} : ChainCreate(j, evaluator)
    \/ \E evaluator \in Addresses : ChainFund(j, evaluator)
    \/ \E hash \in Hashes : ChainSubmit(j, hash)
    \/ ChainComplete(j)
    \/ ChainReject(j)
    \/ ChainExpire(j)
    \/ ChainReopen(j)

ChainNext == \E j \in JobIds : ChainStep(j)

ChainSpec == ChainInit /\ [][ChainNext]_chain

=============================================================================
