-------------------------- MODULE RetentionAbstract --------------------------
(***************************************************************************)
(* What history-limit retention promises for one group of runs, with no   *)
(* workers, queues, annotations or listings: runs complete, and a         *)
(* completed run may disappear only when its status has a limit L and at  *)
(* least L runs of that status completed after it was created.  Each      *)
(* disappearance is one deletion.  HistoryLimiter implements this         *)
(* specification (HistoryLimiter!RetentionRefined and the theorem         *)
(* RetentionRefinement of HistoryLimiterProofs).                          *)
(***************************************************************************)
EXTENDS Naturals, FiniteSets

CONSTANTS
    Runs,          \* the runs of the group
    CreatedAt,     \* creation timestamp of every run
    SuccessLimit,  \* the successfulHistoryLimit, or Unset
    FailedLimit,   \* the failedHistoryLimit, or Unset
    Unset          \* no limit configured

VARIABLES
    status,   \* condition of each run
    live      \* the runs that still exist

Statuses == {"Succeeded", "Failed"}

\* The limit that governs runs of status s.
Limit(s) == IF s = "Succeeded" THEN SuccessLimit ELSE FailedLimit

\* Runs of status s, deleted or not.
CompletedOf(s) == {q \in Runs : status[q] = s}

\* The runs that completed with r's status and were created after r.
NewerThan(r) == {q \in CompletedOf(status[r]) : CreatedAt[q] > CreatedAt[r]}

\* r is beyond the L newest runs of its status.
Evictable(r) ==
    /\ status[r] \in Statuses
    /\ Limit(status[r]) # Unset
    /\ Cardinality(NewerThan(r)) >= Limit(status[r])

Init ==
    /\ status = [r \in Runs |-> "Running"]
    /\ live = Runs

\* A running run reaches a terminal condition.
Complete(r, s) ==
    /\ r \in live
    /\ status[r] = "Running"
    /\ status' = [status EXCEPT ![r] = s]
    /\ UNCHANGED live

\* One evictable run is deleted.
Evict(r) ==
    /\ r \in live
    /\ Evictable(r)
    /\ live' = live \ {r}
    /\ UNCHANGED status

Next ==
    \/ \E r \in Runs, s \in Statuses : Complete(r, s)
    \/ \E r \in live : Evict(r)

Spec == Init /\ [][Next]_<<status, live>>

=============================================================================
