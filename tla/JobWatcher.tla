------------------------------- MODULE JobWatcher -------------------------------
(***************************************************************************)
(* sdk/src/JobWatcher.ts, and A2AAdapter.waitForResult which listens to it: *)
(* a client polls GET /v1/jobs/:id on a timer that does not wait for the    *)
(* answers: several polls may be in flight and their answers come in any    *)
(* order.                                                                   *)
(***************************************************************************)
EXTENDS StoredRows

CONSTANTS
    Watched,     \* the job
    Polls        \* bound: polls in flight at the same time

ASSUME WatcherAssumption == Watched \in JobIds

VARIABLES
    polls,       \* per poll: "idle", "sent", "failed" or the status answered
    lastKnownStatus,
    stopped,
    outcome,     \* what waitForResult resolved with, or "none"
    announced,   \* terminal events emitted so far
    listening,   \* is there an 'error' listener (waitForResult adds none)
    exited       \* the process ended on an unhandled rejection

watcherVars == <<polls, lastKnownStatus, stopped, outcome, announced, listening, exited>>

Outcomes == {"completed", "rejected", "expired", "timeout"}
OutcomeOf(status) == CASE status = "Completed" -> "completed"
                       [] status = "Rejected" -> "rejected"
                       [] status = "Expired" -> "expired"

WatcherTypeOK ==
    /\ polls \in [Polls -> {"idle", "sent", "failed"} \cup Phases]
    /\ lastKnownStatus \in Phases
    /\ stopped \in BOOLEAN /\ listening \in BOOLEAN /\ exited \in BOOLEAN
    /\ outcome \in Outcomes \cup {"none"}
    /\ announced \subseteq Terminal

WatcherInit ==
    /\ polls = [p \in Polls |-> "idle"]
    /\ lastKnownStatus = "None"
    /\ stopped = FALSE
    /\ outcome = "none"
    /\ announced = {}
    /\ listening \in BOOLEAN
    /\ exited = FALSE

\* The timer fires, after stop() no more.
Poll(p) ==
    /\ ~exited /\ ~stopped
    /\ polls[p] = "idle"
    /\ polls' = [polls EXCEPT ![p] = "sent"]
    /\ UNCHANGED <<lastKnownStatus, stopped, outcome, announced, listening, exited>>

\* The API reads the job; the answer is on its way.
Serve(p, status) ==
    /\ polls[p] = "sent"
    /\ status \in reached[Watched]
    /\ polls' = [polls EXCEPT ![p] = status]
    /\ UNCHANGED <<lastKnownStatus, stopped, outcome, announced, listening, exited>>

ServeNothing(p) ==
    /\ polls[p] = "sent"
    /\ polls' = [polls EXCEPT ![p] = "failed"]
    /\ UNCHANGED <<lastKnownStatus, stopped, outcome, announced, listening, exited>>

\* A promise resolves once.
Resolve(result) == outcome' = IF outcome = "none" THEN result ELSE outcome

\* Slip: the status is compared, the terminal events are forgotten.
AnswerOnlyUpdates(p) ==
    /\ ~exited
    /\ polls[p] \in Phases
    /\ polls' = [polls EXCEPT ![p] = "idle"]
    /\ lastKnownStatus' = polls[p]
    /\ stopped' = (stopped \/ polls[p] \in Terminal)
    /\ UNCHANGED <<outcome, announced, listening, exited>>

\* An answer is applied in the order of arrival, even after stop(): nothing is
\* checked after the await.
Answer(p) ==
    LET status == polls[p]
        settled == status # lastKnownStatus /\ status \in Terminal
    IN  /\ ~exited
        /\ status \in Phases
        /\ polls' = [polls EXCEPT ![p] = "idle"]
        /\ lastKnownStatus' = status
        /\ stopped' = (stopped \/ status \in Terminal)
        /\ IF settled THEN /\ announced' = announced \cup {status}
                           /\ Resolve(OutcomeOf(status))
                      ELSE UNCHANGED <<announced, outcome>>
        /\ UNCHANGED <<listening, exited>>

\* emit('error') throws when nobody listens, poll() rejects and Node exits.
PollError(p) ==
    /\ ~exited
    /\ polls[p] = "failed"
    /\ polls' = [polls EXCEPT ![p] = "idle"]
    /\ exited' = ~listening
    /\ UNCHANGED <<lastKnownStatus, stopped, outcome, announced, listening>>

\* Slip: the timeout is reported as the expiry of the job.
GiveUpExpired ==
    /\ ~exited
    /\ outcome = "none"
    /\ stopped' = TRUE
    /\ Resolve("expired")
    /\ UNCHANGED <<polls, lastKnownStatus, announced, listening, exited>>

\* waitForResult gives up: the job goes on by itself.
GiveUp ==
    /\ ~exited
    /\ outcome = "none"
    /\ stopped' = TRUE
    /\ Resolve("timeout")
    /\ UNCHANGED <<polls, lastKnownStatus, announced, listening, exited>>

WatcherStep ==
    \/ \E p \in Polls :
         \/ Poll(p) \/ ServeNothing(p) \/ Answer(p) \/ PollError(p)
         \/ \E status \in Phases : Serve(p, status)
    \/ GiveUp

\* The interval fires, requests end (they have a timeout), answers are applied; of the
\* answers infinitely many show the job as it is.  The timeout may be far away.
WatcherFairness ==
    \A p \in Polls : /\ WF_watcherVars(Poll(p))
                     /\ WF_watcherVars(ServeNothing(p))
                     /\ WF_watcherVars(Answer(p)) /\ WF_watcherVars(PollError(p))
                     /\ SF_watcherVars(Serve(p, chain[Watched].status))

-----------------------------------------------------------------------------
\* Whatever order the answers come in, an A2A result tells what became of the job:
\* completed means paid, failed means rejected.
ResultTrue ==
    outcome \in Outcomes \ {"timeout"} => /\ chain[Watched].status \in Terminal
                                          /\ outcome = OutcomeOf(chain[Watched].status)

\* A settled job is announced to the listeners of a watcher that nobody stopped: a
\* late answer may repeat an old status but never hides the terminal event.
SettledAnnounced ==
    chain[Watched].status \in Terminal ~>
        (chain[Watched].status \in announced \/ exited \/ outcome = "timeout")

=============================================================================
