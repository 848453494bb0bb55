------------------------------ MODULE ForumWatcher ------------------------------
(***************************************************************************)
(* agents/forum-watcher.ts: a command run now and then that reads the      *)
(* posts after the last one it remembers, up to the last one of the topic  *)
(* when it started, one request per post.                                  *)
(***************************************************************************)
EXTENDS Naturals

CONSTANTS
    FirstPost,       \* 284, where a missing state file starts
    MaxPost          \* bound

ASSUME ForumAssumption ==
    FirstPost \in Nat /\ MaxPost \in Nat /\ FirstPost <= MaxPost

VARIABLES
    highestPost,     \* highest_post_number of the topic
    lastSeenPostNumber,
    reading,         \* the command in progress
    shown,           \* posts that were printed (or were its own)
    notServed,       \* posts whose request was answered with an error
    malformed        \* a --from argument that is no number was given

forumVars == <<highestPost, lastSeenPostNumber, reading, shown, notServed, malformed>>

NaN == MaxPost + 1
NotReading == [on |-> FALSE, next |-> 0, highest |-> FirstPost, saves |-> FALSE, found |-> {}]

ForumTypeOK ==
    /\ highestPost \in FirstPost .. MaxPost
    /\ lastSeenPostNumber \in FirstPost .. MaxPost
    /\ reading \in [on: BOOLEAN, next: 0 .. MaxPost + 1, highest: FirstPost .. MaxPost,
                    saves: BOOLEAN, found: SUBSET (0 .. MaxPost)]
    /\ shown \subseteq 0 .. MaxPost /\ notServed \subseteq 0 .. MaxPost
    /\ malformed \in BOOLEAN

ForumInit ==
    /\ highestPost = FirstPost
    /\ lastSeenPostNumber = FirstPost
    /\ reading = NotReading
    /\ shown = {} /\ notServed = {}
    /\ malformed = FALSE

SomebodyPosts ==
    /\ highestPost < MaxPost
    /\ highestPost' = highestPost + 1
    /\ UNCHANGED <<lastSeenPostNumber, reading, shown, notServed, malformed>>

\* The meta request is answered; nothing new ends the command.  The position is
\* kept when --from is given, but 0 and NaN count as not given in that test.
StartReading(from, saves) ==
    /\ reading = NotReading
    /\ highestPost >= from + 1
    /\ reading' = [on |-> TRUE, next |-> from + 1, highest |-> highestPost,
                   saves |-> saves, found |-> {}]
    /\ UNCHANGED <<highestPost, lastSeenPostNumber, shown, notServed, malformed>>

StartFromState == StartReading(lastSeenPostNumber, TRUE)
StartFrom(from) == StartReading(from, from = 0)

\* Every comparison with NaN is false: no early return and no loop either.
StartFromNaN ==
    /\ reading = NotReading
    /\ reading' = [on |-> TRUE, next |-> NaN, highest |-> highestPost,
                   saves |-> TRUE, found |-> {}]
    /\ malformed' = TRUE
    /\ UNCHANGED <<highestPost, lastSeenPostNumber, shown, notServed>>

\* One request; an error answer is passed over.
FetchPost ==
    /\ reading.on /\ reading.next <= reading.highest
    /\ \/ /\ reading' = [reading EXCEPT !.next = @ + 1, !.found = @ \cup {reading.next}]
          /\ UNCHANGED notServed
       \/ /\ reading' = [reading EXCEPT !.next = @ + 1]
          /\ notServed' = notServed \cup {reading.next}
    /\ UNCHANGED <<highestPost, lastSeenPostNumber, shown, malformed>>

\* Slip: the position is taken from the topic as it is at the end.
FinishAtCurrent ==
    /\ reading.on /\ reading.next > reading.highest
    /\ shown' = shown \cup reading.found
    /\ lastSeenPostNumber' = IF reading.saves THEN highestPost ELSE lastSeenPostNumber
    /\ reading' = NotReading
    /\ UNCHANGED <<highestPost, notServed, malformed>>

\* The posts are printed, the position moves to where the topic ended at the start.
Finish ==
    /\ reading.on /\ reading.next > reading.highest
    /\ shown' = shown \cup reading.found
    /\ lastSeenPostNumber' = IF reading.saves THEN reading.highest ELSE lastSeenPostNumber
    /\ reading' = NotReading
    /\ UNCHANGED <<highestPost, notServed, malformed>>

\* A request throws, the analysis fails or the command is stopped: nothing is saved.
ReadingFails ==
    /\ reading.on
    /\ reading' = NotReading
    /\ UNCHANGED <<highestPost, lastSeenPostNumber, shown, notServed, malformed>>

ForumStep ==
    \/ SomebodyPosts
    \/ StartFromState \/ StartFromNaN
    \/ \E from \in 0 .. MaxPost : StartFrom(from)
    \/ FetchPost \/ Finish \/ ReadingFails

-----------------------------------------------------------------------------
\* The position never passes a post that was neither shown nor refused by the forum,
\* whatever is posted while a command reads and wherever it is stopped; a malformed
\* --from does lose them ("avoid losing position").
NoPostMissed == ~malformed =>
    \A n \in FirstPost + 1 .. lastSeenPostNumber : n \in shown \cup notServed

=============================================================================
