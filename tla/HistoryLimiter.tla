--------------------------- MODULE HistoryLimiter ---------------------------
(***************************************************************************)
(* History-limit eviction of completed runs (src/pkg/telemetry/metrics.go, *)
(* HistoryLimiter.ProcessEvent, markAsProcessed and doResourceCleanup).    *)
(*                                                                         *)
(* The runs of ONE logical group (one pipeline or task in one namespace,   *)
(* the label selector of metrics.go:553) live in a shared resource store.  *)
(* Several workers reconcile them concurrently: the controller runs with   *)
(* high availability disabled, so every replica gets every event, and the *)
(* threads of one replica work on different keys at once.  A worker's     *)
(* ProcessEvent is split at each call into the store (Get/Patch, List,     *)
(* each Delete), since other workers interleave between those calls.      *)
(***************************************************************************)
EXTENDS Naturals, FiniteSets, Sequences

CONSTANTS
    Runs,          \* the runs of the group
    Workers,       \* reconciler workers (replica threads)
    CreatedAt,     \* creation timestamp of every run, in seconds
    SuccessLimit,  \* resolved successfulHistoryLimit, or Unset
    FailedLimit,   \* resolved failedHistoryLimit, or Unset
    Unset,         \* a nil *int32 returned by the config store
    NoRun,         \* "no key" for an idle worker
    MaxErrors      \* bound on the store errors injected in a behaviour

\* Terminal conditions a run can reach (IsSuccessful / IsFailed).
Statuses == {"Succeeded", "Failed"}

ASSUME RunsAssumption == IsFiniteSet(Runs) /\ NoRun \notin Runs
ASSUME CreatedAtAssumption == CreatedAt \in [Runs -> Nat]
ASSUME LimitAssumption ==
    /\ SuccessLimit \in Nat \cup {Unset}
    /\ FailedLimit \in Nat \cup {Unset}
    /\ Unset \notin Nat
ASSUME MaxErrorsAssumption == MaxErrors \in Nat

VARIABLES
    status,     \* condition of each run in the store
    live,       \* the runs the store still holds
    processed,  \* runs carrying the history-limit-processed annotation
    cache,      \* the processed annotations each worker's informer has seen
    queue,      \* keys waiting in each worker's workqueue
    pc,         \* where each worker is in ProcessEvent
    event,      \* the key a worker is reconciling
    cls,        \* the status filter of the worker's cleanup pass
    todo,       \* completedResources[i .. resourcesToDelete-1] still to delete
    errors      \* store errors injected so far

vars == <<status, live, processed, cache, queue, pc, event, cls, todo, errors>>

Phases == {"idle", "mark", "cleanup", "delete"}

\* getHistoryLimitFn: the limit for the status filter of the pass.
Limit(s) == IF s = "Succeeded" THEN SuccessLimit ELSE FailedLimit

\* A sort with the comparator reversed (newest first).
SortedNewestFirst(S) ==
    LET n == Cardinality(S)
    IN  {f \in [1..n -> S] :
            /\ \A i, j \in 1..n : i # j => f[i] # f[j]
            /\ \A i, j \in 1..n : i < j => CreatedAt[f[i]] >= CreatedAt[f[j]]}

\* The orders sort.Slice may leave a set of runs in: a permutation that is
\* ascending by creation time.  sort.Slice is not stable and the comparator
\* has no tie-break, so runs created in the same second may come in any order.
SortedByCreation(S) ==
    LET n == Cardinality(S)
    IN  {f \in [1..n -> S] :
            /\ \A i, j \in 1..n : i # j => f[i] # f[j]
            /\ \A i, j \in 1..n : i < j => CreatedAt[f[i]] <= CreatedAt[f[j]]}

\* A count one more than the excess.
ResourcesToDeleteLong(n, l) == n - l + 1

\* A count one short of the excess.
ResourcesToDeleteShort(n, l) == n - l - 1

\* resourcesToDelete := len(completedResources) - historyLimit.
ResourcesToDelete(n, l) == n - l

CanFail == errors < MaxErrors

\* A filter that keeps every completed run, whatever its status.
FilterAnyCompleted(S, s) == {q \in S : status[q] \in Statuses}

\* The listed runs kept by the pass: IsCompleted and the status filter.
FilterCompleted(S, s) == {q \in S : status[q] = s}

TypeOK ==
    /\ status \in [Runs -> {"Running"} \cup Statuses]
    /\ live \subseteq Runs
    /\ processed \subseteq Runs
    /\ cache \in [Workers -> SUBSET processed]
    /\ queue \in [Workers -> SUBSET Runs]
    /\ pc \in [Workers -> Phases]
    /\ event \in [Workers -> Runs \cup {NoRun}]
    /\ cls \in [Workers -> Statuses]
    /\ todo \in [Workers -> Seq(Runs)]
    /\ errors \in 0..MaxErrors

Init ==
    /\ status = [r \in Runs |-> "Running"]
    /\ live = Runs
    /\ processed = {}
    /\ cache = [w \in Workers |-> {}]
    /\ queue = [w \in Workers |-> {}]
    /\ pc = [w \in Workers |-> "idle"]
    /\ event = [w \in Workers |-> NoRun]
    /\ cls = [w \in Workers |-> "Succeeded"]
    /\ todo = [w \in Workers |-> <<>>]
    /\ errors = 0

-----------------------------------------------------------------------------
(* Environment: a run reaches a terminal condition; every replica's       *)
(* informer sees the update and enqueues the key.                         *)
Complete(r, s) ==
    /\ r \in live
    /\ status[r] = "Running"
    /\ status' = [status EXCEPT ![r] = s]
    /\ queue' = [w \in Workers |-> queue[w] \cup {r}]
    /\ UNCHANGED <<live, processed, cache, pc, event, cls, todo, errors>>

(* A worker's informer catches up with the processed annotations written  *)
(* by markAsProcessed and delivers their update events to its queue.      *)
InformerSync(w) ==
    /\ cache[w] # processed
    /\ cache' = [cache EXCEPT ![w] = processed]
    /\ queue' = [queue EXCEPT ![w] = @ \cup (processed \ cache[w])]
    /\ UNCHANGED <<status, live, processed, pc, event, cls, todo, errors>>

\* ProcessEvent returns: the reconciler forgets the key on success and
\* requeues it (rate limited) when an error was returned.
Finish(w, failed) ==
    /\ pc' = [pc EXCEPT ![w] = "idle"]
    /\ event' = [event EXCEPT ![w] = NoRun]
    /\ todo' = [todo EXCEPT ![w] = <<>>]
    /\ queue' = IF failed THEN [queue EXCEPT ![w] = @ \cup {event[w]}]
                          ELSE queue

(* A worker dequeues key r and enters ProcessEvent with the lister copy:  *)
(* a deleted run is not found and dropped; the isProcessed and            *)
(* IsCompleted early returns end the reconcile.  isProcessed reads the    *)
(* annotation of the informer copy, which may lag behind the store.       *)
Reconcile(w, r) ==
    /\ pc[w] = "idle"
    /\ r \in queue[w]
    /\ IF r \in live /\ r \notin cache[w] /\ status[r] \in Statuses
       THEN /\ pc' = [pc EXCEPT ![w] = "mark"]
            /\ event' = [event EXCEPT ![w] = r]
       ELSE UNCHANGED <<pc, event>>
    /\ queue' = [queue EXCEPT ![w] = @ \ {r}]
    /\ UNCHANGED <<status, live, processed, cache, cls, todo, errors>>

(* markAsProcessed: Get the latest copy (not found: give up), then patch  *)
(* the marker; a failed patch is only logged.  ProcessEvent then starts   *)
(* the cleanup pass for the run's terminal status.                        *)
Mark(w) ==
    LET r == event[w] IN
    /\ pc[w] = "mark"
    /\ \/ /\ r \in live
          /\ processed' = processed \cup {r}
          /\ UNCHANGED errors
       \/ /\ r \in live
          /\ CanFail
          /\ errors' = errors + 1
          /\ UNCHANGED processed
       \/ /\ r \notin live
          /\ UNCHANGED <<processed, errors>>
    /\ cls' = [cls EXCEPT ![w] = status[r]]
    /\ pc' = [pc EXCEPT ![w] = "cleanup"]
    /\ UNCHANGED <<status, live, cache, queue, event, todo>>

(* doResourceCleanup up to the delete loop: resolve the limit (nil: skip), *)
(* List the group (error: return it), keep the completed runs of the      *)
(* pass's status, return when within the limit, else sort them by        *)
(* creation time and take the len - limit oldest.                         *)
Cleanup(w) ==
    LET s         == cls[w]
        completed == FilterCompleted(live, s)
        excess    == ResourcesToDelete(Cardinality(completed), Limit(s))
    IN
    /\ pc[w] = "cleanup"
    /\ \/ /\ Limit(s) = Unset
          /\ Finish(w, FALSE)
          /\ UNCHANGED errors
       \/ /\ Limit(s) # Unset
          /\ CanFail
          /\ errors' = errors + 1
          /\ Finish(w, TRUE)
       \/ /\ Limit(s) # Unset
          /\ Cardinality(completed) <= Limit(s)
          /\ Finish(w, FALSE)
          /\ UNCHANGED errors
       \/ /\ Limit(s) # Unset
          /\ Cardinality(completed) > Limit(s)
          /\ \E order \in SortedByCreation(completed) :
                todo' = [todo EXCEPT ![w] = SubSeq(order, 1, excess)]
          /\ pc' = [pc EXCEPT ![w] = "delete"]
          /\ UNCHANGED <<queue, event, errors>>
    /\ UNCHANGED <<status, live, processed, cache, cls>>

(* One iteration of the delete loop: NotFound is skipped, any other error *)
(* aborts the pass and is returned; the loop ends after the last entry.   *)
Delete(w) ==
    LET x == Head(todo[w]) IN
    /\ pc[w] = "delete"
    /\ \/ /\ todo[w] = <<>>
          /\ Finish(w, FALSE)
          /\ UNCHANGED <<live, errors>>
       \/ /\ todo[w] # <<>>
          /\ x \notin live
          /\ todo' = [todo EXCEPT ![w] = Tail(@)]
          /\ UNCHANGED <<live, errors, pc, event, queue>>
       \/ /\ todo[w] # <<>>
          /\ x \in live
          /\ live' = live \ {x}
          /\ todo' = [todo EXCEPT ![w] = Tail(@)]
          /\ UNCHANGED <<errors, pc, event, queue>>
       \/ /\ todo[w] # <<>>
          /\ x \in live
          /\ CanFail
          /\ errors' = errors + 1
          /\ Finish(w, TRUE)
          /\ UNCHANGED live
    /\ UNCHANGED <<status, processed, cache, cls>>

\* Nothing left to do: every queue is drained and every worker idle.
Quiescent ==
    /\ \A w \in Workers : pc[w] = "idle" /\ queue[w] = {} /\ cache[w] = processed
    /\ UNCHANGED vars

Next ==
    \/ \E r \in Runs, s \in Statuses : Complete(r, s)
    \/ \E w \in Workers :
         \/ InformerSync(w)
         \/ \E r \in Runs : Reconcile(w, r)
         \/ Mark(w)
         \/ Cleanup(w)
         \/ Delete(w)
    \/ Quiescent

\* Informers keep watching, worker threads keep taking keys from their
\* queues and a started ProcessEvent runs to its end; runs complete on
\* their own schedule.
Fairness ==
    \A w \in Workers :
        /\ WF_vars(InformerSync(w))
        /\ WF_vars(\E r \in Runs : Reconcile(w, r))
        /\ WF_vars(Mark(w))
        /\ WF_vars(Cleanup(w))
        /\ WF_vars(Delete(w))

Spec == Init /\ [][Next]_vars

FairSpec == Spec /\ Fairness

-----------------------------------------------------------------------------
(* Properties *)

CompletedOf(s) == {q \in Runs : status[q] = s}
LiveOf(s) == {q \in live : status[q] = s}
NewerThan(r) == {q \in CompletedOf(status[r]) : CreatedAt[q] > CreatedAt[r]}

(* Eviction never deletes more than the excess over the limit: for each   *)
(* status with a limit L, the store keeps at least min(L, N) of the N     *)
(* runs that completed with it, however the workers' list-then-delete     *)
(* passes interleave (doResourceCleanup, metrics.go:583-613).             *)
RetainsLimit ==
    \A s \in Statuses :
        Limit(s) # Unset =>
            Cardinality(LiveOf(s)) >=
                IF Limit(s) < Cardinality(CompletedOf(s))
                THEN Limit(s) ELSE Cardinality(CompletedOf(s))

(* Only the oldest go: every run deleted by the limiter is a completed    *)
(* run with at least L strictly newer runs of its own status, so the L    *)
(* newest are never deleted, even from a stale listing (metrics.go        *)
(* 596-613).                                                              *)
NeverDeletesNewest ==
    \A r \in Runs \ live :
        /\ status[r] \in Statuses
        /\ Limit(status[r]) # Unset
        /\ Cardinality(NewerThan(r)) >= Limit(status[r])

(* Once runs stop completing, the store eventually holds no more than L   *)
(* completed runs of each limited status: an excess is always cleaned up  *)
(* by some ProcessEvent, including after a failed pass is retried         *)
(* (ProcessEvent, metrics.go:320-405).                                    *)
WithinLimit ==
    \A s \in Statuses :
        Limit(s) # Unset => Cardinality(LiveOf(s)) <= Limit(s)

EventuallyWithinLimit == <>[]WithinLimit

\* The retention promise, with the store's conditions and contents as its state.
Retention == INSTANCE RetentionAbstract

(* The limiter implements the retention promise: seen through the store   *)
(* alone, every step of every worker is either a run completing, the      *)
(* deletion of one run that has at least L newer runs of its status, or   *)
(* no change, so ProcessEvent's stale listings and interleaved delete     *)
(* loops never produce a deletion the abstract specification forbids     *)
(* (doResourceCleanup, metrics.go:596-680).                               *)
RetentionRefined == Retention!Spec

=============================================================================
