--------------------------- MODULE DeletionTracker --------------------------
(***************************************************************************)
(* The deletion deduplicator of src/pkg/config/config_unmarshal_test.go   *)
(* (package metrics: DeletionTracker, RecordDeletion, cleanup) and its    *)
(* two callers in src/pkg/metrics/setup.go (Recorder.RecordResourceDeleted *)
(* and Recorder.RecordUniqueResourceProcessed).                           *)
(*                                                                         *)
(* RecordDeletion and cleanup both run under dt.mu, so each is one step.  *)
(* Time is kept as ages in ticks: an entry's age saturates one past the   *)
(* retention, the point after which cleanup removes it.                  *)
(***************************************************************************)
EXTENDS Naturals, Sequences

CONSTANTS
    Names,        \* resource names seen by the recorder
    ResourceType, \* their kind ("pipelinerun" or "taskrun")
    Namespace,    \* their namespace
    Window,       \* the duplicate window, time.Minute, in ticks
    Retention,    \* cleanup's cutoff, 10 * time.Minute, in ticks
    SweepPeriod,  \* the cleanup ticker's period, 5 * time.Minute, in ticks
    MaxCount,     \* bound on the counts taken for one key
    Absent        \* no entry in deletedItems

ASSUME NamesAssumption ==
    Names \subseteq STRING /\ ResourceType \in STRING /\ Namespace \in STRING
ASSUME TimingAssumption ==
    /\ Window \in Nat \ {0}
    /\ Retention \in Nat
    /\ SweepPeriod \in Nat \ {0}
    /\ MaxCount \in Nat
    /\ Absent \notin Nat

\* The name RecordUniqueResourceProcessed passes for resource n.
ProcessedName(n) == "processed-" \o n

\* deletionKey with the name left out of the format.
deletionKeyNoName(resourceType, namespace, name) == resourceType \o "/" \o namespace

\* deletionKey(resourceType, namespace, name): fmt.Sprintf("%s/%s/%s").
deletionKey(resourceType, namespace, name) ==
    resourceType \o "/" \o namespace \o "/" \o name

\* The key of a name passed to RecordDeletion by either caller.
KeyOf(n) == deletionKey(ResourceType, Namespace, n)

(* No two reports share a tracker key: distinct names give distinct     *)
(* deletion keys, and no "processed-" key of RecordUniqueResourceProcessed *)
(* is the deletion key of a resource.                                     *)
DistinctKeys ==
    /\ \A n, m \in Names : n # m => KeyOf(n) # KeyOf(m)
    /\ \A n, m \in Names : KeyOf(ProcessedName(m)) # KeyOf(n)

Keys == {KeyOf(n) : n \in Names \cup {ProcessedName(m) : m \in Names}}

Ages == 0..(Retention + 1)

VARIABLES
    entries,          \* deletedItems: the age of each key's entry, or Absent
    since,            \* ticks since RecordDeletion last returned true, up to Window
    counted,          \* how often RecordDeletion returned true for each key
    sweepIn,          \* ticks until the cleanup ticker fires
    deleted,          \* resources whose deletion was reported
    deletionCounted   \* resources whose deletion was counted

vars == <<entries, since, counted, sweepIn, deleted, deletionCounted>>

TypeOK ==
    /\ entries \in [Keys -> Ages \cup {Absent}]
    /\ since \in [Keys -> 0..Window]
    /\ counted \in [Keys -> 0..MaxCount]
    /\ sweepIn \in 0..SweepPeriod
    /\ deleted \subseteq Names
    /\ deletionCounted \subseteq Names

Init ==
    /\ entries = [k \in Keys |-> Absent]
    /\ since = [k \in Keys |-> Window]
    /\ counted = [k \in Keys |-> 0]
    /\ sweepIn = SweepPeriod
    /\ deleted = {}
    /\ deletionCounted = {}

-----------------------------------------------------------------------------
\* The entry of k is no duplicate: absent, or time.Since >= time.Minute.
Fresh(k) == entries[k] = Absent \/ entries[k] >= Window

(* RecordDeletion(k): a fresh key gets entry time.Now() and true, a        *)
(* duplicate gets false and keeps its entry.  counted and since are the    *)
(* history of true results.                                                *)
RecordDeletion(k) ==
    /\ counted[k] < MaxCount
    /\ IF Fresh(k)
       THEN /\ entries' = [entries EXCEPT ![k] = 0]
            /\ since' = [since EXCEPT ![k] = 0]
            /\ counted' = [counted EXCEPT ![k] = @ + 1]
       ELSE UNCHANGED <<entries, since, counted>>

\* RecordResourceDeleted: counts the deletion when RecordDeletion says so.
RecordResourceDeleted(n) ==
    /\ RecordDeletion(KeyOf(n))
    /\ deleted' = deleted \cup {n}
    /\ deletionCounted' = IF Fresh(KeyOf(n))
                          THEN deletionCounted \cup {n} ELSE deletionCounted
    /\ UNCHANGED sweepIn

\* RecordUniqueResourceProcessed: the same tracker, keyed "processed-"+name.
RecordUniqueResourceProcessed(n) ==
    /\ RecordDeletion(KeyOf(ProcessedName(n)))
    /\ UNCHANGED <<sweepIn, deleted, deletionCounted>>

\* cleanup with the cutoff comparison reversed: drops entries newer than it.
CleanupReversed ==
    /\ sweepIn = 0
    /\ entries' = [k \in Keys |->
                     IF entries[k] # Absent /\ entries[k] <= Retention
                     THEN Absent ELSE entries[k]]
    /\ sweepIn' = SweepPeriod
    /\ UNCHANGED <<since, counted, deleted, deletionCounted>>

(* The ticker fires and cleanup deletes every entry with                  *)
(* deletedTime.Before(now - 10 minutes).                                  *)
Cleanup ==
    /\ sweepIn = 0
    /\ entries' = [k \in Keys |->
                     IF entries[k] # Absent /\ entries[k] > Retention
                     THEN Absent ELSE entries[k]]
    /\ sweepIn' = SweepPeriod
    /\ UNCHANGED <<since, counted, deleted, deletionCounted>>

\* One tick of the clock.  The ticker's channel holds one pending tick, so
\* time goes on while cleanup is due.
Tick ==
    /\ entries' = [k \in Keys |->
                     IF entries[k] = Absent \/ entries[k] = Retention + 1
                     THEN entries[k] ELSE entries[k] + 1]
    /\ since' = [k \in Keys |-> IF since[k] < Window THEN since[k] + 1 ELSE Window]
    /\ sweepIn' = IF sweepIn > 0 THEN sweepIn - 1 ELSE 0
    /\ UNCHANGED <<counted, deleted, deletionCounted>>

Next ==
    \/ Tick
    \/ Cleanup
    \/ \E n \in Names : RecordResourceDeleted(n) \/ RecordUniqueResourceProcessed(n)

Spec == Init /\ [][Next]_vars

-----------------------------------------------------------------------------
(* Properties *)

(* Spec 4.5 and 8: RecordDeletion returns true for a key again only once  *)
(* the window has passed since it last returned true, however cleanup's   *)
(* sweeps fall (RecordDeletion and cleanup, config_unmarshal_test.go      *)
(* 237-249, 269-273).                                                     *)
CountsOnlyAfterWindow ==
    \A k \in Keys : counted'[k] # counted[k] => since[k] = Window

OncePerWindow == [][CountsOnlyAfterWindow]_vars

(* Spec 4.5: the deduplicator keeps one physical deletion from being      *)
(* counted twice, and no more: the first report of a resource's deletion  *)
(* is counted (RecordResourceDeleted, setup.go:487-490, sharing the       *)
(* tracker with RecordUniqueResourceProcessed, setup.go:454-455).         *)
DeletionsCounted == deleted \subseteq deletionCounted

=============================================================================
