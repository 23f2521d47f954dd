----------------------- MODULE DeletionTrackerProofs -----------------------
(***************************************************************************)
(* Proofs about DeletionTracker for every window, retention, sweep period *)
(* and set of names: the types, and that cleanup never lets a key count   *)
(* twice within the window as long as the retention is at least the      *)
(* window (10 minutes against 1 in the code).                             *)
(***************************************************************************)
EXTENDS DeletionTracker, TLAPS

USE NamesAssumption, TimingAssumption

(* While a key's last true result is younger than the window, its entry  *)
(* is present and exactly that old: cleanup has not removed it, and only *)
(* a true result rewrites it.                                             *)
WindowInv == \A k \in Keys : since[k] < Window => entries[k] = since[k]

Inv == TypeOK /\ WindowInv

LEMMA KeysOfCallers ==
    ASSUME NEW n \in Names
    PROVE  KeyOf(n) \in Keys /\ KeyOf(ProcessedName(n)) \in Keys
BY DEF Keys

LEMMA InitInv == Init => Inv
BY DEF Init, Inv, TypeOK, WindowInv, Ages

LEMMA RecordInv ==
    ASSUME Inv, NEW k \in Keys, RecordDeletion(k)
    PROVE  /\ entries' \in [Keys -> Ages \cup {Absent}]
           /\ since' \in [Keys -> 0..Window]
           /\ counted' \in [Keys -> 0..MaxCount]
           /\ \A j \in Keys : since'[j] < Window => entries'[j] = since'[j]
<1>1. CASE Fresh(k)
  BY <1>1 DEF RecordDeletion, Inv, TypeOK, WindowInv, Ages
<1>2. CASE ~Fresh(k)
  BY <1>2 DEF RecordDeletion, Inv, TypeOK, WindowInv
<1>. QED BY <1>1, <1>2

LEMMA NextInv ==
    ASSUME Window <= Retention + 1
    PROVE  Inv /\ [Next]_vars => Inv'
<1> SUFFICES ASSUME Inv, [Next]_vars PROVE Inv'
  OBVIOUS
<1>1. CASE Tick
  <2>1. TypeOK'
    <3>1. entries' \in [Keys -> Ages \cup {Absent}]
      <4>1. ASSUME NEW k \in Keys
            PROVE  (IF entries[k] = Absent \/ entries[k] = Retention + 1
                    THEN entries[k] ELSE entries[k] + 1) \in Ages \cup {Absent}
        BY DEF Inv, TypeOK, Ages
      <4>. QED BY <1>1, <4>1 DEF Tick
    <3>2. since' \in [Keys -> 0..Window]
      BY <1>1 DEF Tick, Inv, TypeOK
    <3>3. sweepIn' \in 0..SweepPeriod
      BY <1>1 DEF Tick, Inv, TypeOK
    <3>. QED BY <1>1, <3>1, <3>2, <3>3 DEF Tick, Inv, TypeOK
  <2>2. ASSUME NEW k \in Keys, since'[k] < Window PROVE entries'[k] = since'[k]
    <3>1. since[k] < Window /\ since'[k] = since[k] + 1
      BY <1>1, <2>2 DEF Tick, Inv, TypeOK
    <3>2. entries[k] = since[k] /\ since[k] \in Nat
      BY <3>1 DEF Inv, WindowInv, TypeOK
    <3>3. entries[k] # Absent /\ entries[k] # Retention + 1
      BY <3>1, <3>2
    <3>. QED BY <1>1, <3>1, <3>2, <3>3 DEF Tick
  <2>. QED BY <2>1, <2>2 DEF Inv, WindowInv
<1>2. CASE Cleanup
  <2>1. TypeOK'
    <3>1. entries' \in [Keys -> Ages \cup {Absent}]
      BY <1>2 DEF Cleanup, Inv, TypeOK
    <3>2. sweepIn' \in 0..SweepPeriod
      BY <1>2 DEF Cleanup
    <3>3. UNCHANGED <<since, counted, deleted, deletionCounted>>
      BY <1>2 DEF Cleanup
    <3>. QED BY <3>1, <3>2, <3>3 DEF Inv, TypeOK
  <2>2. ASSUME NEW k \in Keys, since'[k] < Window PROVE entries'[k] = since'[k]
    <3>1. since'[k] = since[k] /\ entries[k] = since[k] /\ since[k] \in Nat
      BY <1>2, <2>2 DEF Cleanup, Inv, WindowInv, TypeOK
    <3>2. ~(entries[k] > Retention)
      BY <2>2, <3>1
    <3>. QED BY <1>2, <3>1, <3>2 DEF Cleanup
  <2>. QED BY <2>1, <2>2 DEF Inv, WindowInv
<1>3. ASSUME NEW n \in Names, RecordResourceDeleted(n) PROVE Inv'
  <2>1. KeyOf(n) \in Keys
    BY KeysOfCallers
  <2>. QED BY <1>3, <2>1, RecordInv DEF RecordResourceDeleted, Inv, TypeOK, WindowInv
<1>4. ASSUME NEW n \in Names, RecordUniqueResourceProcessed(n) PROVE Inv'
  <2>1. KeyOf(ProcessedName(n)) \in Keys
    BY KeysOfCallers
  <2>. QED BY <1>4, <2>1, RecordInv DEF RecordUniqueResourceProcessed, Inv, TypeOK, WindowInv
<1>5. CASE UNCHANGED vars
  BY <1>5 DEF vars, Inv, TypeOK, WindowInv
<1>. QED BY <1>1, <1>2, <1>3, <1>4, <1>5 DEF Next

(* Every step counts a key only when its last count is a window old. *)
LEMMA StepCountsOnlyAfterWindow ==
    Inv /\ [Next]_vars => [CountsOnlyAfterWindow]_vars
<1> SUFFICES ASSUME Inv, [Next]_vars PROVE [CountsOnlyAfterWindow]_vars
  OBVIOUS
<1>1. ASSUME NEW k \in Keys, RecordDeletion(k) PROVE CountsOnlyAfterWindow
  <2>1. CASE Fresh(k)
    BY <1>1, <2>1 DEF RecordDeletion, Fresh, CountsOnlyAfterWindow, Inv, TypeOK, WindowInv
  <2>2. CASE ~Fresh(k)
    BY <1>1, <2>2 DEF RecordDeletion, CountsOnlyAfterWindow
  <2>. QED BY <2>1, <2>2
<1>2. ASSUME NEW n \in Names, RecordResourceDeleted(n) PROVE CountsOnlyAfterWindow
  BY <1>2, <1>1, KeysOfCallers DEF RecordResourceDeleted
<1>3. ASSUME NEW n \in Names, RecordUniqueResourceProcessed(n) PROVE CountsOnlyAfterWindow
  BY <1>3, <1>1, KeysOfCallers DEF RecordUniqueResourceProcessed
<1>4. CASE Tick \/ Cleanup \/ UNCHANGED vars
  BY <1>4 DEF Tick, Cleanup, vars, CountsOnlyAfterWindow
<1>. QED BY <1>2, <1>3, <1>4 DEF Next

(* RecordDeletion returns true for a key at most once per window, for     *)
(* every interleaving of recorder calls, clock ticks and cleanup sweeps,  *)
(* provided the sweep's cutoff is not shorter than the window.            *)
THEOREM OncePerWindowHolds ==
    ASSUME Window <= Retention + 1
    PROVE  Spec => OncePerWindow
<1>1. Init => Inv
  BY InitInv
<1>2. Inv /\ [Next]_vars => Inv'
  BY NextInv
<1>3. Inv /\ [Next]_vars => [CountsOnlyAfterWindow]_vars
  BY StepCountsOnlyAfterWindow
<1>. QED BY <1>1, <1>2, <1>3, PTL DEF Spec, OncePerWindow

(* The tracker keeps its types. *)
THEOREM TrackerTypeCorrect ==
    ASSUME Window <= Retention + 1
    PROVE  Spec => []TypeOK
<1>1. Init => Inv
  BY InitInv
<1>2. Inv /\ [Next]_vars => Inv'
  BY NextInv
<1>. QED BY <1>1, <1>2, PTL DEF Spec, Inv
-----------------------------------------------------------------------------
(* DeletionsCounted, for names whose tracker keys are distinct.            *)

(* A resource whose deletion was never reported has no entry: only its    *)
(* own RecordResourceDeleted writes its key, and sweeps and ticks keep an *)
(* absent entry absent.                                                   *)
UntouchedInv == \A n \in Names \ deleted : entries[KeyOf(n)] = Absent

CountInv ==
    /\ DOMAIN entries = Keys
    /\ deleted \subseteq Names
    /\ DeletionsCounted
    /\ UntouchedInv

LEMMA InitCountInv == Init => CountInv
<1>1. ASSUME NEW n \in Names PROVE KeyOf(n) \in Keys
  BY KeysOfCallers
<1>. QED BY <1>1 DEF Init, CountInv, DeletionsCounted, UntouchedInv

(* A report of n's deletion counts it when it is n's first: the key has  *)
(* no entry, so RecordDeletion finds it fresh.                            *)
LEMMA DeletedStep ==
    ASSUME DistinctKeys, CountInv, NEW n \in Names, RecordResourceDeleted(n)
    PROVE  CountInv'
<1> DEFINE k == KeyOf(n)
<1>1. k \in Keys
  BY KeysOfCallers
<1>2. n \notin deleted => Fresh(k)
  BY DEF CountInv, UntouchedInv, Fresh
<1>3. deleted' = deleted \cup {n} /\ deletionCounted \subseteq deletionCounted'
      /\ (n \notin deleted => n \in deletionCounted')
  BY <1>2 DEF RecordResourceDeleted
<1>4. DOMAIN entries' = Keys
  BY <1>1 DEF RecordResourceDeleted, RecordDeletion, CountInv
<1>5. ASSUME NEW m \in Names \ deleted', m # n PROVE entries'[KeyOf(m)] = entries[KeyOf(m)]
  <2>1. KeyOf(m) # k /\ KeyOf(m) \in Keys
    BY <1>5, KeysOfCallers DEF DistinctKeys
  <2>. QED BY <2>1, <1>1 DEF RecordResourceDeleted, RecordDeletion, CountInv
<1>. QED BY <1>3, <1>4, <1>5 DEF CountInv, DeletionsCounted, UntouchedInv

(* A processing record never writes a resource's deletion key. *)
LEMMA ProcessedStep ==
    ASSUME DistinctKeys, CountInv, NEW x \in Names, RecordUniqueResourceProcessed(x)
    PROVE  CountInv'
<1> DEFINE k == KeyOf(ProcessedName(x))
<1>1. k \in Keys
  BY KeysOfCallers
<1>2. DOMAIN entries' = Keys
  BY <1>1 DEF RecordUniqueResourceProcessed, RecordDeletion, CountInv
<1>3. ASSUME NEW m \in Names PROVE entries'[KeyOf(m)] = entries[KeyOf(m)]
  <2>1. KeyOf(m) # k /\ KeyOf(m) \in Keys
    BY KeysOfCallers DEF DistinctKeys
  <2>. QED BY <2>1, <1>1 DEF RecordUniqueResourceProcessed, RecordDeletion, CountInv
<1>. QED BY <1>2, <1>3 DEF RecordUniqueResourceProcessed, CountInv, DeletionsCounted, UntouchedInv

LEMMA NextCountInv == ASSUME DistinctKeys PROVE CountInv /\ [Next]_vars => CountInv'
<1> SUFFICES ASSUME CountInv, [Next]_vars PROVE CountInv'
  OBVIOUS
<1>1. ASSUME NEW n \in Names PROVE KeyOf(n) \in Keys
  BY KeysOfCallers
<1>2. CASE Tick
  BY <1>1, <1>2 DEF Tick, CountInv, DeletionsCounted, UntouchedInv
<1>3. CASE Cleanup
  BY <1>1, <1>3 DEF Cleanup, CountInv, DeletionsCounted, UntouchedInv
<1>4. CASE \E n \in Names : RecordResourceDeleted(n)
  BY <1>4, DeletedStep
<1>5. CASE \E n \in Names : RecordUniqueResourceProcessed(n)
  BY <1>5, ProcessedStep
<1>6. CASE UNCHANGED vars
  BY <1>6 DEF vars, CountInv, DeletionsCounted, UntouchedInv
<1>. QED BY <1>2, <1>3, <1>4, <1>5, <1>6 DEF Next

(* Every reported deletion is counted once its first report is made       *)
(* (RecordResourceDeleted, setup.go:485-526, gated by RecordDeletion),    *)
(* for every timing of ticks and cleanup sweeps and every interleaving    *)
(* with RecordUniqueResourceProcessed, when no two reports share a key.   *)
(* The dt_collision run shows the property failing when a resource is     *)
(* named "processed-" followed by another's name.                         *)
THEOREM DeletionsCountedHolds ==
    ASSUME DistinctKeys
    PROVE  Spec => []DeletionsCounted
<1>1. Init => CountInv
  BY InitCountInv
<1>2. CountInv /\ [Next]_vars => CountInv'
  BY NextCountInv
<1>3. CountInv => DeletionsCounted
  BY DEF CountInv
<1>. QED BY <1>1, <1>2, <1>3, PTL DEF Spec
=============================================================================
