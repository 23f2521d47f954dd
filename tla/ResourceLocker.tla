--------------------------- MODULE ResourceLocker ---------------------------
(***************************************************************************)
(* The annotation lock of src/pkg/telemetry/metrics.go (ResourceLocker,   *)
(* TryLock, ReleaseLock, isLockValid, isOwnedByMe, parseLocationValue).   *)
(*                                                                         *)
(* One resource carries the tekton-pruner.io/processing-lock annotation,  *)
(* "instanceID:unixSeconds".  Workers, each a ResourceLocker with its own *)
(* instanceID, call TryLock and ReleaseLock with their informer copy of   *)
(* the resource.  TryLock decides on that copy, writes with a merge patch *)
(* that applies whatever the store holds, and re-reads.                   *)
(*                                                                         *)
(* Time is kept as ages: a lock value records how many ticks ago it was   *)
(* written, saturating at LockTimeout, which is all that isLockValid      *)
(* (time.Since(lockTime) < LockTimeout) can tell apart.                   *)
(***************************************************************************)
EXTENDS Naturals, FiniteSets

CONSTANTS
    Workers,      \* ResourceLocker instances, one instanceID each
    Garbled,      \* instanceIDs that parseLocationValue does not split back
    LockTimeout,  \* LockTimeout, in clock ticks
    MaxErrors,    \* bound on failed Patch/Get calls
    MaxCrashes,   \* bound on workers that stop for good
    NoLock        \* the annotation is absent

ASSUME GarbledAssumption == Garbled \subseteq Workers
ASSUME LockTimeoutAssumption == LockTimeout \in Nat \ {0}
ASSUME BoundsAssumption == MaxErrors \in Nat /\ MaxCrashes \in Nat

Ages == 0..LockTimeout

\* A lock annotation value: its writer and how long ago it was written.
LockValues == [owner : Workers, age : Ages]

VARIABLES
    lock,    \* the annotation in the store
    copy,    \* the annotation on each worker's copy of the resource
    pc,      \* "idle", "verify" (patched, re-read pending), "holding",
             \* or "crashed"
    since,   \* ticks since the worker's TryLock returned true
    errors,  \* store errors injected so far
    crashes  \* workers crashed so far

vars == <<lock, copy, pc, since, errors, crashes>>

TypeOK ==
    /\ lock \in LockValues \cup {NoLock}
    /\ copy \in [Workers -> LockValues \cup {NoLock}]
    /\ pc \in [Workers -> {"idle", "verify", "holding", "crashed"}]
    /\ since \in [Workers -> Ages]
    /\ errors \in 0..MaxErrors
    /\ crashes \in 0..MaxCrashes

Init ==
    /\ lock = NoLock
    /\ copy = [w \in Workers |-> NoLock]
    /\ pc = [w \in Workers |-> "idle"]
    /\ since = [w \in Workers |-> 0]
    /\ errors = 0
    /\ crashes = 0

-----------------------------------------------------------------------------
(* parseLocationValue splits at the first ':' found by a rune index and   *)
(* slices bytes with it: an instanceID holding ':' or a multi-byte rune   *)
(* yields an owner that is not the instanceID and a timestamp part that   *)
(* Sscanf rejects or reads as an ancient time.                            *)

\* isLockValid with the timeout check removed.
LockValidForever(l) == l # NoLock /\ l.owner \notin Garbled

\* isLockValid: the value parses and time.Since(lockTime) < LockTimeout.
isLockValid(l) == l # NoLock /\ l.owner \notin Garbled /\ l.age < LockTimeout

\* isOwnedByMe: the parsed owner is w's instanceID.
isOwnedByMe(l, w) == l # NoLock /\ l.owner = w /\ w \notin Garbled

CanFail == errors < MaxErrors

Older(l) == IF l = NoLock \/ l.age = LockTimeout THEN l
            ELSE [l EXCEPT !.age = @ + 1]

\* The clock advances one tick; once every age saturates, ticks change
\* nothing the lock can tell apart.
Tick ==
    /\ lock' = Older(lock)
    /\ copy' = [w \in Workers |-> Older(copy[w])]
    /\ since' = [w \in Workers |->
                    IF since[w] < LockTimeout THEN since[w] + 1 ELSE since[w]]
    /\ UNCHANGED <<pc, errors, crashes>>

\* The worker's informer delivers the current annotation.
Sync(w) ==
    /\ pc[w] # "crashed"
    /\ copy[w] # lock
    /\ copy' = [copy EXCEPT ![w] = lock]
    /\ UNCHANGED <<lock, pc, since, errors, crashes>>

(* TryLock up to the Patch: refuse when the copy shows a valid lock of     *)
(* another instance; else merge-patch "id:now" into the store.  The value *)
(* is also written into the copy's annotation map (line 130), which is    *)
(* the object passed in, unless that map was nil.                         *)
TryLock(w) ==
    /\ pc[w] = "idle"
    /\ ~(isLockValid(copy[w]) /\ ~isOwnedByMe(copy[w], w))
    /\ \/ /\ lock' = [owner |-> w, age |-> 0]
          /\ \E c \in {copy[w], [owner |-> w, age |-> 0]} :
                copy' = [copy EXCEPT ![w] = c]
          /\ pc' = [pc EXCEPT ![w] = "verify"]
          /\ UNCHANGED errors
       \/ /\ CanFail
          /\ errors' = errors + 1
          /\ UNCHANGED <<lock, copy, pc>>
    /\ UNCHANGED <<since, crashes>>

(* TryLock's re-read: true when the store holds the value it wrote (the   *)
(* latest write of this instance, since each has one TryLock at a time), *)
(* false when another write replaced it or the Get failed.               *)
Verify(w) ==
    /\ pc[w] = "verify"
    /\ \/ /\ lock # NoLock /\ lock.owner = w
          /\ pc' = [pc EXCEPT ![w] = "holding"]
          /\ since' = [since EXCEPT ![w] = 0]
          /\ UNCHANGED errors
       \/ /\ ~(lock # NoLock /\ lock.owner = w)
          /\ pc' = [pc EXCEPT ![w] = "idle"]
          /\ UNCHANGED <<since, errors>>
       \/ /\ CanFail
          /\ errors' = errors + 1
          /\ pc' = [pc EXCEPT ![w] = "idle"]
          /\ UNCHANGED since
    /\ UNCHANGED <<lock, copy, crashes>>

(* ReleaseLock: when the copy shows a lock owned by this instance, patch  *)
(* the annotation to null, removing whatever value the store holds; a     *)
(* failed patch leaves the lock to expire.                                *)
ReleaseLock(w) ==
    /\ pc[w] = "holding"
    /\ \/ /\ isOwnedByMe(copy[w], w)
          /\ lock' = NoLock
          /\ UNCHANGED errors
       \/ /\ isOwnedByMe(copy[w], w)
          /\ CanFail
          /\ errors' = errors + 1
          /\ UNCHANGED lock
       \/ /\ ~isOwnedByMe(copy[w], w)
          /\ UNCHANGED <<lock, errors>>
    /\ pc' = [pc EXCEPT ![w] = "idle"]
    /\ UNCHANGED <<copy, since, crashes>>

\* A replica stops for good, possibly holding the lock.
Crash(w) ==
    /\ pc[w] # "crashed"
    /\ crashes < MaxCrashes
    /\ pc' = [pc EXCEPT ![w] = "crashed"]
    /\ crashes' = crashes + 1
    /\ UNCHANGED <<lock, copy, since, errors>>

Next ==
    \/ Tick
    \/ \E w \in Workers :
         Sync(w) \/ TryLock(w) \/ Verify(w) \/ ReleaseLock(w) \/ Crash(w)

(* Replicas keep reconciling, so a live worker retries TryLock on every   *)
(* resync and finishes the call it started; informers keep delivering;    *)
(* wall-clock time passes.                                                *)
Fairness ==
    /\ WF_vars(Tick)
    /\ \A w \in Workers :
         /\ WF_vars(Sync(w))
         /\ WF_vars(TryLock(w))
         /\ WF_vars(Verify(w))
         /\ WF_vars(ReleaseLock(w))

Spec == Init /\ [][Next]_vars

FairSpec == Spec /\ Fairness

-----------------------------------------------------------------------------
(* Properties *)

(* Spec 8: two TryLock calls never both report success before a          *)
(* ReleaseLock or the timeout (TryLock, metrics.go:117-156).              *)
MutualExclusion ==
    \A v, w \in Workers :
        v # w /\ pc[v] = "holding" /\ pc[w] = "holding" =>
            since[v] >= LockTimeout \/ since[w] >= LockTimeout

(* Spec 4.4: ReleaseLock clears the annotation only when the caller owns  *)
(* it: a step that removes the lock removes a value written by the       *)
(* releasing instance (ReleaseLock, metrics.go:171-176).                 *)
ReleaseOnlyOwn ==
    [][lock # NoLock /\ lock' = NoLock =>
         \E w \in Workers : pc[w] = "holding" /\ lock.owner = w]_vars

\* The store still holds the lock of a replica that has stopped.
HeldByCrashed(w) == pc[w] = "crashed" /\ lock # NoLock /\ lock.owner = w

(* Spec 4.4: LockTimeout bounds the staleness a crashed holder leaves:    *)
(* a lock whose owner stopped is eventually replaced or removed by a live *)
(* replica, once isLockValid finds it expired (metrics.go:117-135,        *)
(* 183-196).                                                              *)
CrashedLockReplaced ==
    \A w \in Workers : HeldByCrashed(w) ~> ~HeldByCrashed(w)

=============================================================================
