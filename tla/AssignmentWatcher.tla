---------------------------- MODULE AssignmentWatcher ----------------------------
(***************************************************************************)
(* sdk/src/AssignmentWatcher.ts: an evaluator polls the list of the jobs   *)
(* assigned to it.  The next poll is scheduled when the last one has been  *)
(* applied.  The API answers from its rows alone: unlike GET /v1/jobs/:id, *)
(* the list does not look at the chain.                                    *)
(***************************************************************************)
EXTENDS StoredRows

CONSTANT Me          \* the evaluator's address

ASSUME EvaluatorAssumption == Me \in Addresses

VARIABLES
    knownJobs,       \* last status seen of each job, "unlisted" when never seen
    timer,           \* the handle is not null: stop() was not called
    poll,            \* "idle", "sent", "failed" or "answered"
    listed,          \* under which status the stored row of each job is listed
    list,            \* the list answered
    heard,           \* events emitted so far
    assignmentListening, assignmentExited

assignmentVars == <<knownJobs, timer, poll, listed, list, heard, assignmentListening,
                    assignmentExited>>
frozenFlags == <<assignmentListening, assignmentExited>>

Listed == Phases \cup {"unlisted"}
NoList == [j \in JobIds |-> "unlisted"]

AssignmentTypeOK ==
    /\ knownJobs \in [JobIds -> Listed]
    /\ timer \in BOOLEAN
    /\ poll \in {"idle", "sent", "failed", "answered"}
    /\ listed \in [JobIds -> Listed] /\ list \in [JobIds -> Listed]
    /\ heard \subseteq {"assigned", "submitted", "completed", "rejected", "expired"} \X JobIds
    /\ assignmentListening \in BOOLEAN /\ assignmentExited \in BOOLEAN

AssignmentInit ==
    /\ knownJobs = [j \in JobIds |-> "unlisted"]
    /\ timer = TRUE
    /\ poll = "idle" /\ listed = NoList /\ list = NoList
    /\ heard = {}
    /\ assignmentListening \in BOOLEAN
    /\ assignmentExited = FALSE

PollAssignments ==
    /\ ~assignmentExited /\ timer
    /\ poll = "idle"
    /\ poll' = "sent"
    /\ UNCHANGED <<knownJobs, timer, listed, list, heard, frozenFlags>>

\* The row of job j is written, by a request's handler or for somebody who asked for
\* this job: it shows a status the job has had, and is listed once it names Me.
Listings(j) == {"unlisted"} \cup IF chain[j].evaluator = Me THEN reached[j] ELSE {}

RowWritten(j) ==
    /\ \E status \in Listings(j) : listed' = [listed EXCEPT ![j] = status]
    /\ UNCHANGED <<knownJobs, timer, poll, list, heard, frozenFlags>>

\* SELECT ... WHERE evaluatorAddress = Me.
ServeList ==
    /\ poll = "sent"
    /\ poll' = "answered" /\ list' = listed
    /\ UNCHANGED <<knownJobs, timer, listed, heard, frozenFlags>>

ListFails ==
    /\ poll = "sent"
    /\ poll' = "failed"
    /\ UNCHANGED <<knownJobs, timer, listed, list, heard, frozenFlags>>

EventOf(status) == CASE status = "Submitted" -> "submitted"
                     [] status = "Completed" -> "completed"
                     [] status = "Rejected" -> "rejected"
                     [] status = "Expired" -> "expired"
                     [] OTHER -> "assigned"

\* Slip: whatever is listed for the first time is an assignment.
EmitsOnFirstSight(j) ==
    IF list[j] \in {"unlisted", knownJobs[j]} THEN {}
    ELSE IF knownJobs[j] = "unlisted" THEN {<<"assigned", j>>}
    ELSE {<<EventOf(list[j]), j>>}

\* A funded job is an assignment only when it was never listed before.
Emits(j) ==
    IF \/ list[j] \in {"unlisted", knownJobs[j], "Open"}
       \/ list[j] = "Funded" /\ knownJobs[j] # "unlisted"
    THEN {} ELSE {<<EventOf(list[j]), j>>}

ApplyList ==
    /\ ~assignmentExited
    /\ poll = "answered"
    /\ heard' = heard \cup UNION {Emits(j) : j \in JobIds}
    /\ knownJobs' = [j \in JobIds |-> IF list[j] = "unlisted" THEN knownJobs[j] ELSE list[j]]
    /\ poll' = "idle" /\ list' = NoList
    /\ UNCHANGED <<timer, listed, frozenFlags>>

\* finally schedules the next poll, but an unheard 'error' ends the process first.
ListError ==
    /\ ~assignmentExited
    /\ poll = "failed"
    /\ poll' = "idle"
    /\ assignmentExited' = ~assignmentListening
    /\ UNCHANGED <<knownJobs, timer, listed, list, heard, assignmentListening>>

\* A poll in flight is still applied afterwards.
StopAssignments ==
    /\ timer
    /\ timer' = FALSE
    /\ UNCHANGED <<knownJobs, poll, listed, list, heard, frozenFlags>>

AssignmentStep ==
    \/ PollAssignments \/ ServeList \/ ListFails \/ ApplyList \/ ListError \/ StopAssignments
    \/ \E j \in JobIds : RowWritten(j)

\* The timer fires, answers are applied, and not every request fails.  Nothing makes
\* the API write a row.
AssignmentFairness ==
    /\ WF_assignmentVars(PollAssignments) /\ SF_assignmentVars(ServeList)
    /\ WF_assignmentVars(ApplyList) /\ WF_assignmentVars(ListError)

-----------------------------------------------------------------------------
\* What the evaluator hears is true: an assignment or a submission is announced only
\* for a job whose money is or was in escrow with this evaluator.
HeardIsTrue == \A j \in JobIds :
    /\ <<"assigned", j>> \in heard => "Funded" \in reached[j] /\ chain[j].evaluator = Me
    /\ <<"submitted", j>> \in heard => "Submitted" \in reached[j] /\ chain[j].evaluator = Me

\* The rows of the jobs that have money in escrow catch up with the chain for good, as
\* ApiServer shows (StoredCatchesUp) for jobs that somebody asks for by their number.
Current(j) == IF chain[j].evaluator = Me THEN chain[j].status ELSE "unlisted"

RowsCatchUp == \A j \in JobIds :
    <>[](chain[j].status \in {"Funded", "Submitted"} => listed[j] = Current(j))

\* Work that waits for this evaluator's verdict is announced, also when it is listed
\* for the first time in that state, unless it is settled meanwhile.
SubmissionHeard == \A j \in JobIds :
    chain[j].status = "Submitted" /\ chain[j].evaluator = Me ~>
        \/ <<"submitted", j>> \in heard
        \/ chain[j].status # "Submitted"
        \/ ~timer \/ assignmentExited

=============================================================================
