------------------------ MODULE HistoryLimiterProofs ------------------------
(***************************************************************************)
(* Proofs about the HistoryLimiter model, for every value of its          *)
(* constants: type correctness; when creation times are distinct, that a  *)
(* run the limiter deletes always has at least L newer runs of its       *)
(* status (NeverDeletesNewest), that the store keeps min(L, N) runs of    *)
(* each status (RetainsLimit), and that the limiter implements the        *)
(* abstract retention specification RetentionAbstract.                    *)
(***************************************************************************)
EXTENDS HistoryLimiter, FiniteSetTheorems, SequenceTheorems, TLAPS

USE RunsAssumption, CreatedAtAssumption, LimitAssumption, MaxErrorsAssumption

(* A worker that is inside ProcessEvent works on a run that had reached a *)
(* terminal condition when it was dequeued (the IsCompleted early return  *)
(* of metrics.go:332), and a terminal condition never changes.            *)
WorkerInv ==
    \A w \in Workers :
        pc[w] # "idle" => event[w] \in Runs /\ status[event[w]] \in Statuses

TypeInv == TypeOK /\ WorkerInv

-----------------------------------------------------------------------------
(* Facts about the store's sets. *)

LEMMA LiveFinite ==
    ASSUME TypeOK, NEW S \in SUBSET live
    PROVE  IsFiniteSet(S) /\ Cardinality(S) \in Nat
BY FS_Subset, FS_CardinalityType DEF TypeOK

(* The prefix of a sort order taken by resourcesToDelete is a sequence of *)
(* runs of the expected length.                                           *)
LEMMA PrefixOfOrder ==
    ASSUME NEW S, NEW n \in Nat, NEW f \in [1..n -> S], NEW k \in 0..n
    PROVE  /\ SubSeq(f, 1, k) \in Seq(S)
           /\ Len(SubSeq(f, 1, k)) = k
           /\ \A i \in 1..k : SubSeq(f, 1, k)[i] = f[i]
<1>1. \A i \in 1..k : f[i] \in S
  OBVIOUS
<1>. QED BY <1>1, SubSeqProperties

-----------------------------------------------------------------------------
(* Type correctness. *)

LEMMA InitTypeInv == Init => TypeInv
BY DEF Init, TypeInv, TypeOK, WorkerInv, Phases, Statuses

LEMMA NextTypeInv == TypeInv /\ [Next]_vars => TypeInv'
<1> SUFFICES ASSUME TypeOK, WorkerInv, [Next]_vars PROVE TypeInv'
  BY DEF TypeInv
<1>1. ASSUME NEW r \in Runs, NEW s \in Statuses, Complete(r, s)
      PROVE  TypeInv'
  BY <1>1 DEF Complete, TypeInv, TypeOK, WorkerInv, Statuses
<1>2. ASSUME NEW w \in Workers, InformerSync(w) PROVE TypeInv'
  BY <1>2 DEF InformerSync, TypeInv, TypeOK, WorkerInv
<1>3. ASSUME NEW w \in Workers, NEW r \in Runs, Reconcile(w, r)
      PROVE  TypeInv'
  <2>1. CASE r \in live /\ r \notin cache[w] /\ status[r] \in Statuses
    BY <1>3, <2>1 DEF Reconcile, TypeInv, TypeOK, WorkerInv, Phases
  <2>2. CASE ~(r \in live /\ r \notin cache[w] /\ status[r] \in Statuses)
    BY <1>3, <2>2 DEF Reconcile, TypeInv, TypeOK, WorkerInv, Phases
  <2>. QED BY <2>1, <2>2
<1>4. ASSUME NEW w \in Workers, Mark(w) PROVE TypeInv'
  BY <1>4 DEF Mark, CanFail, TypeInv, TypeOK, WorkerInv, Phases
<1>5. ASSUME NEW w \in Workers, Cleanup(w) PROVE TypeInv'
  <2> DEFINE s == cls[w]
             completed == FilterCompleted(live, s)
             n == Cardinality(completed)
  <2>1. n \in Nat
    BY LiveFinite DEF FilterCompleted
  <2>2. pc[w] = "cleanup"
    BY <1>5 DEF Cleanup
  <2>3. event[w] \in Runs
    BY <2>2 DEF WorkerInv
  <2>4. CASE pc'[w] = "delete"
    <3>1. /\ Limit(s) # Unset /\ n > Limit(s)
          /\ \E order \in SortedByCreation(completed) :
                todo' = [todo EXCEPT ![w] = SubSeq(order, 1, ResourcesToDelete(n, Limit(s)))]
          /\ pc' = [pc EXCEPT ![w] = "delete"]
          /\ UNCHANGED <<queue, event, errors>>
          /\ UNCHANGED <<status, live, processed, cache, cls>>
      BY <1>5, <2>4 DEF Cleanup, Finish, TypeOK
    <3>2. PICK order \in SortedByCreation(completed) :
              todo' = [todo EXCEPT ![w] = SubSeq(order, 1, ResourcesToDelete(n, Limit(s)))]
      BY <3>1
    <3>3. order \in [1..n -> Runs]
      BY DEF SortedByCreation, FilterCompleted, TypeOK
    <3>4. Limit(s) \in Nat
      BY <3>1 DEF Limit
    <3>5. ResourcesToDelete(n, Limit(s)) \in 0..n
      BY <2>1, <3>1, <3>4 DEF ResourcesToDelete
    <3>6. SubSeq(order, 1, ResourcesToDelete(n, Limit(s))) \in Seq(Runs)
      BY <2>1, <3>3, <3>5, PrefixOfOrder
    <3>. QED BY <2>2, <3>1, <3>2, <3>6 DEF TypeInv, TypeOK, WorkerInv, Phases
  <2>5. CASE pc'[w] # "delete"
    <3>1. /\ pc' = [pc EXCEPT ![w] = "idle"]
          /\ event' = [event EXCEPT ![w] = NoRun]
          /\ todo' = [todo EXCEPT ![w] = <<>>]
          /\ queue' \in {queue, [queue EXCEPT ![w] = @ \cup {event[w]}]}
          /\ errors' \in {errors, errors + 1}
          /\ errors' <= MaxErrors
          /\ UNCHANGED <<status, live, processed, cache, cls>>
      BY <1>5, <2>5 DEF Cleanup, Finish, CanFail, TypeOK
    <3>. QED BY <3>1, <2>3 DEF TypeInv, TypeOK, WorkerInv, Phases
  <2>. QED BY <2>4, <2>5
<1>6. ASSUME NEW w \in Workers, Delete(w) PROVE TypeInv'
  <2>1. pc[w] = "delete" /\ event[w] \in Runs
    BY <1>6 DEF Delete, WorkerInv
  <2>2. CASE todo[w] = <<>>
    <3>1. /\ Finish(w, FALSE)
          /\ UNCHANGED <<status, live, processed, cache, cls, errors>>
      BY <1>6, <2>2 DEF Delete
    <3>. QED BY <3>1 DEF Finish, TypeInv, TypeOK, WorkerInv, Phases
  <2>3. CASE todo[w] # <<>>
    <3>1. Tail(todo[w]) \in Seq(Runs)
      BY <2>3, HeadTailProperties DEF TypeOK
    <3>2. \/ /\ todo' = [todo EXCEPT ![w] = Tail(todo[w])]
             /\ live' \subseteq live
             /\ UNCHANGED <<status, processed, cache, cls, errors, pc, event, queue>>
          \/ /\ Finish(w, TRUE)
             /\ CanFail /\ errors' = errors + 1
             /\ UNCHANGED <<status, live, processed, cache, cls>>
      BY <1>6, <2>3 DEF Delete
    <3>3. CASE todo' = [todo EXCEPT ![w] = Tail(todo[w])] /\ live' \subseteq live
                /\ UNCHANGED <<status, processed, cache, cls, errors, pc, event, queue>>
      BY <3>1, <3>3 DEF TypeInv, TypeOK, WorkerInv
    <3>4. CASE Finish(w, TRUE) /\ CanFail /\ errors' = errors + 1
                /\ UNCHANGED <<status, live, processed, cache, cls>>
      BY <2>1, <3>4 DEF Finish, CanFail, TypeInv, TypeOK, WorkerInv, Phases
    <3>. QED BY <3>2, <3>3, <3>4
  <2>. QED BY <2>2, <2>3
<1>7. CASE Quiescent \/ UNCHANGED vars
  BY <1>7 DEF Quiescent, vars, TypeInv, TypeOK, WorkerInv
<1>. QED BY <1>1, <1>2, <1>3, <1>4, <1>5, <1>6, <1>7 DEF Next

(* The model keeps its types: the store, the informer caches, the queues  *)
(* and every worker's ProcessEvent state stay within their declared sets. *)
THEOREM TypeCorrect == Spec => []TypeOK
<1>1. Init => TypeInv
  BY InitTypeInv
<1>2. TypeInv /\ [Next]_vars => TypeInv'
  BY NextTypeInv
<1>3. TypeInv => TypeOK
  BY DEF TypeInv
<1>. QED BY <1>1, <1>2, <1>3, PTL DEF Spec

-----------------------------------------------------------------------------
(* NeverDeletesNewest.  It rests on distinct creation times: with ties   *)
(* the sort of metrics.go:597-599 may order tied runs differently in two  *)
(* workers (run hl_ties).                                                 *)

DistinctCreation ==
    \A p, q \in Runs : p # q => CreatedAt[p] # CreatedAt[q]

\* A run the limiter may delete: completed, limited, with L newer runs.
Deletable(r) ==
    /\ status[r] \in Statuses
    /\ Limit(status[r]) # Unset
    /\ Cardinality(NewerThan(r)) >= Limit(status[r])

(* Every run still to be deleted by a worker's delete loop is deletable:  *)
(* a stale todo entry stays deletable because completions only add newer  *)
(* runs and a terminal status never changes.                              *)
PendingInv ==
    \A w \in Workers :
        pc[w] = "delete" => \A i \in 1..Len(todo[w]) : Deletable(todo[w][i])

NewestInv == TypeInv /\ NeverDeletesNewest /\ PendingInv

LEMMA NewerFinite ==
    ASSUME NEW r \in Runs
    PROVE  IsFiniteSet(NewerThan(r)) /\ Cardinality(NewerThan(r)) \in Nat
BY FS_Subset, FS_CardinalityType DEF NewerThan, CompletedOf

(* A completion keeps every completed run deletable. *)
LEMMA DeletableStable ==
    ASSUME TypeOK, NEW r \in Runs, status[r] = "Running", NEW s \in Statuses,
           status' = [status EXCEPT ![r] = s],
           NEW x \in Runs, Deletable(x)
    PROVE  Deletable(x)'
<1>1. x # r /\ status'[x] = status[x]
  BY DEF Deletable, TypeOK, Statuses
<1>2. NewerThan(x) \subseteq NewerThan(x)'
  BY <1>1 DEF NewerThan, CompletedOf, TypeOK, Deletable, Statuses
<1>3. NewerThan(x)' \subseteq Runs
  BY DEF NewerThan, CompletedOf
<1>4. Cardinality(NewerThan(x)) <= Cardinality(NewerThan(x)')
  BY <1>2, <1>3, FS_Subset
<1>5. Cardinality(NewerThan(x)) \in Nat
  BY NewerFinite
<1>7. Cardinality(NewerThan(x)') \in Nat
  BY <1>3, FS_Subset, FS_CardinalityType
<1>6. Limit(status[x]) \in Nat
  BY LimitAssumption DEF Deletable, Limit, Statuses
<1>. QED BY <1>1, <1>4, <1>5, <1>6, <1>7 DEF Deletable

(* The heart of the argument: in an order that sort.Slice may produce     *)
(* from distinct creation times, each of the first len - L runs is older  *)
(* than the L runs at the end of the order.                               *)
LEMMA OldestAreDeletable ==
    ASSUME TypeOK, DistinctCreation, NEW s \in Statuses,
           Limit(s) \in Nat,
           Cardinality(FilterCompleted(live, s)) > Limit(s),
           NEW order \in SortedByCreation(FilterCompleted(live, s)),
           NEW i \in 1..ResourcesToDelete(Cardinality(FilterCompleted(live, s)), Limit(s))
    PROVE  Deletable(order[i])
<1> DEFINE completed == FilterCompleted(live, s)
           n == Cardinality(completed)
           L == Limit(s)
           x == order[i]
           J == (n - L + 1)..n
           g == [j \in J |-> order[j]]
<1>1. n \in Nat
  BY LiveFinite DEF FilterCompleted
<1>2. /\ order \in [1..n -> completed]
      /\ \A j, k \in 1..n : j # k => order[j] # order[k]
      /\ \A j, k \in 1..n : j < k => CreatedAt[order[j]] <= CreatedAt[order[k]]
  BY DEF SortedByCreation
<1>3. i \in 1..n /\ i < n - L + 1
  BY <1>1 DEF ResourcesToDelete
<1>4. x \in Runs /\ status[x] = s
  BY <1>2, <1>3 DEF FilterCompleted, TypeOK
<1>5. \A j \in J : order[j] \in NewerThan(x)
  <2> TAKE j \in J
  <2>1. j \in 1..n /\ i < j
    BY <1>1, <1>3
  <2>2. order[j] # x
    BY <1>2, <1>3, <2>1
  <2>5. order[j] \in Runs /\ status[order[j]] = s
    BY <1>2, <2>1 DEF FilterCompleted, TypeOK
  <2>3. CreatedAt[order[j]] # CreatedAt[x]
    BY <1>4, <2>2, <2>5 DEF DistinctCreation
  <2>4. CreatedAt[order[j]] > CreatedAt[x]
    BY <1>2, <1>3, <1>4, <2>1, <2>3, <2>5
  <2>. QED BY <1>4, <2>4, <2>5 DEF NewerThan, CompletedOf
<1>6. g \in Injection(J, NewerThan(x))
  BY <1>1, <1>2, <1>5 DEF Injection, IsInjective
<1>7. Cardinality(J) = L
  BY <1>1, FS_Interval
<1>8. Cardinality(J) <= Cardinality(NewerThan(x))
  BY <1>4, <1>6, NewerFinite, FS_Injection
<1>. QED BY <1>4, <1>7, <1>8 DEF Deletable

(* Steps that leave the conditions alone leave deletability alone. *)
LEMMA DeletableUnchanged ==
    ASSUME status' = status, NEW x
    PROVE  Deletable(x)' <=> Deletable(x)
BY DEF Deletable, NewerThan, CompletedOf

LEMMA InitNewestInv == Init => NewestInv
BY InitTypeInv DEF Init, NewestInv, NeverDeletesNewest, PendingInv

LEMMA NextNewestInv ==
    ASSUME DistinctCreation
    PROVE  NewestInv /\ [Next]_vars => NewestInv'
<1> SUFFICES ASSUME TypeOK, WorkerInv, NeverDeletesNewest, PendingInv, [Next]_vars
             PROVE  NeverDeletesNewest' /\ PendingInv'
  BY NextTypeInv DEF NewestInv, TypeInv
<1>0. /\ NeverDeletesNewest <=> \A y \in Runs \ live : Deletable(y)
      /\ NeverDeletesNewest' <=> \A y \in Runs \ live' : Deletable(y)'
  BY DEF NeverDeletesNewest, Deletable
<1>1. ASSUME NEW r \in Runs, NEW s \in Statuses, Complete(r, s)
      PROVE  NeverDeletesNewest' /\ PendingInv'
  <2>1. /\ status[r] = "Running" /\ status' = [status EXCEPT ![r] = s]
        /\ UNCHANGED <<live, pc, todo>>
    BY <1>1 DEF Complete
  <2>2. \A y \in Runs : Deletable(y) => Deletable(y)'
    BY <2>1, DeletableStable
  <2>3. \A w \in Workers : pc[w] = "delete" => \A i \in 1..Len(todo[w]) : todo[w][i] \in Runs
    BY ElementOfSeq DEF TypeOK
  <2>. QED BY <1>0, <2>1, <2>2, <2>3 DEF PendingInv
<1>2. ASSUME NEW w \in Workers,
             Mark(w) \/ \E r \in Runs : Reconcile(w, r)
      PROVE  NeverDeletesNewest' /\ PendingInv'
  <2>1. /\ UNCHANGED <<status, live, todo>>
        /\ pc'[w] # "delete"
        /\ \A v \in Workers \ {w} : pc'[v] = pc[v]
    BY <1>2 DEF Mark, Reconcile, TypeOK
  <2>2. \A y : Deletable(y)' <=> Deletable(y)
    BY <2>1, DeletableUnchanged
  <2>. QED BY <1>0, <2>1, <2>2 DEF PendingInv
<1>6. ASSUME NEW w \in Workers, InformerSync(w)
      PROVE  NeverDeletesNewest' /\ PendingInv'
  <2>1. UNCHANGED <<status, live, todo, pc>>
    BY <1>6 DEF InformerSync
  <2>2. \A y : Deletable(y)' <=> Deletable(y)
    BY <2>1, DeletableUnchanged
  <2>. QED BY <1>0, <2>1, <2>2 DEF PendingInv
<1>3. ASSUME NEW w \in Workers, Cleanup(w)
      PROVE  NeverDeletesNewest' /\ PendingInv'
  <2> DEFINE s == cls[w]
             completed == FilterCompleted(live, s)
             n == Cardinality(completed)
  <2>1. /\ UNCHANGED <<status, live>>
        /\ \A v \in Workers \ {w} : pc'[v] = pc[v] /\ todo'[v] = todo[v]
    BY <1>3 DEF Cleanup, Finish, TypeOK
  <2>2. \A y : Deletable(y)' <=> Deletable(y)
    BY <2>1, DeletableUnchanged
  <2>3. pc'[w] = "delete" => \A i \in 1..Len(todo'[w]) : Deletable(todo'[w][i])
    <3> SUFFICES ASSUME pc'[w] = "delete"
                 PROVE  \A i \in 1..Len(todo'[w]) : Deletable(todo'[w][i])
      OBVIOUS
    <3>1. /\ Limit(s) # Unset /\ n > Limit(s)
          /\ \E order \in SortedByCreation(completed) :
                todo' = [todo EXCEPT ![w] = SubSeq(order, 1, ResourcesToDelete(n, Limit(s)))]
      BY <1>3 DEF Cleanup, Finish, TypeOK
    <3>2. PICK order \in SortedByCreation(completed) :
              todo'[w] = SubSeq(order, 1, ResourcesToDelete(n, Limit(s)))
      BY <3>1 DEF TypeOK
    <3>3. /\ n \in Nat
          /\ Limit(s) \in Nat
          /\ order \in [1..n -> Runs]
      BY <3>1, LiveFinite DEF FilterCompleted, SortedByCreation, TypeOK, Limit
    <3>4. ResourcesToDelete(n, Limit(s)) \in 0..n
      BY <3>1, <3>3 DEF ResourcesToDelete
    <3>5. /\ Len(todo'[w]) = ResourcesToDelete(n, Limit(s))
          /\ \A i \in 1..ResourcesToDelete(n, Limit(s)) : todo'[w][i] = order[i]
      BY <3>2, <3>3, <3>4, PrefixOfOrder
    <3>6. \A i \in 1..ResourcesToDelete(n, Limit(s)) : Deletable(order[i])
      BY <3>1, <3>3, OldestAreDeletable DEF TypeOK
    <3>. QED BY <2>2, <3>5, <3>6
  <2>. QED BY <1>0, <2>1, <2>2, <2>3 DEF PendingInv
<1>4. ASSUME NEW w \in Workers, Delete(w)
      PROVE  NeverDeletesNewest' /\ PendingInv'
  <2>1. /\ pc[w] = "delete"
        /\ UNCHANGED status
        /\ \A v \in Workers \ {w} : pc'[v] = pc[v] /\ todo'[v] = todo[v]
        /\ live' \subseteq live
        /\ live \ live' # {} => todo[w] # <<>> /\ live \ live' = {Head(todo[w])}
        /\ pc'[w] = "delete" => todo[w] # <<>> /\ todo'[w] = Tail(todo[w])
    BY <1>4 DEF Delete, Finish, TypeOK
  <2>2. \A y : Deletable(y)' <=> Deletable(y)
    BY <2>1, DeletableUnchanged
  <2>3. todo[w] # <<>> => Deletable(Head(todo[w]))
    BY <2>1, EmptySeq DEF PendingInv, TypeOK
  <2>4. ASSUME NEW y \in Runs \ live' PROVE Deletable(y)'
    <3>1. CASE y \in live
      <4>1. todo[w] # <<>> /\ y = Head(todo[w])
        BY <2>1, <3>1
      <4>. QED BY <2>2, <2>3, <4>1
    <3>2. CASE y \notin live
      BY <1>0, <2>2, <3>2
    <3>. QED BY <3>1, <3>2
  <2>5. pc'[w] = "delete" => \A i \in 1..Len(todo'[w]) : Deletable(todo'[w][i])
    <3> SUFFICES ASSUME pc'[w] = "delete", NEW i \in 1..Len(todo'[w])
                 PROVE  Deletable(todo'[w][i])
      OBVIOUS
    <3>1. todo[w] # <<>> /\ todo'[w] = Tail(todo[w]) /\ todo[w] \in Seq(Runs)
      BY <2>1 DEF TypeOK
    <3>2. i + 1 \in 1..Len(todo[w]) /\ todo'[w][i] = todo[w][i + 1]
      BY <3>1, HeadTailProperties
    <3>3. Deletable(todo[w][i + 1])
      BY <2>1, <3>2 DEF PendingInv
    <3>. QED BY <2>2, <3>2, <3>3
  <2>. QED BY <1>0, <2>1, <2>2, <2>4, <2>5 DEF PendingInv
<1>5. CASE Quiescent \/ UNCHANGED vars
  <2>1. UNCHANGED vars
    BY <1>5 DEF Quiescent
  <2>2. \A y : Deletable(y)' <=> Deletable(y)
    BY <2>1, DeletableUnchanged DEF vars
  <2>. QED BY <1>0, <2>1, <2>2 DEF PendingInv, vars
<1>. QED BY <1>1, <1>2, <1>3, <1>4, <1>5, <1>6 DEF Next

(* The L newest runs of each status are never deleted: every run missing  *)
(* from the store completed with a limited status and has at least L      *)
(* strictly newer runs of that status, however the workers' stale         *)
(* list-then-delete passes interleave, provided no two runs of the group  *)
(* share a creation timestamp.                                            *)
THEOREM NeverDeletesNewestHolds ==
    ASSUME DistinctCreation
    PROVE  Spec => []NeverDeletesNewest
<1>1. Init => NewestInv
  BY InitNewestInv
<1>2. NewestInv /\ [Next]_vars => NewestInv'
  BY NextNewestInv
<1>3. NewestInv => NeverDeletesNewest
  BY DEF NewestInv
<1>. QED BY <1>1, <1>2, <1>3, PTL DEF Spec


-----------------------------------------------------------------------------
(* RetainsLimit.  A deleted run had L newer runs when it was deleted, but *)
(* some of those may have been deleted since.  The strengthening KeptInv  *)
(* says that every deleted run still has L newer runs of its status in    *)
(* the store: the newest deleted run of a status has all its newer runs   *)
(* live, and every older deleted run inherits them.                       *)

\* The live runs of r's status created after r.
NewerLive(r) == {q \in live : status[q] = status[r] /\ CreatedAt[q] > CreatedAt[r]}

KeptInv ==
    \A r \in Runs \ live : Cardinality(NewerLive(r)) >= Limit(status[r])

RetainInv == NewestInv /\ KeptInv

LEMMA NewerLiveFinite ==
    ASSUME TypeOK, NEW r
    PROVE  IsFiniteSet(NewerLive(r)) /\ Cardinality(NewerLive(r)) \in Nat
BY LiveFinite DEF NewerLive


LEMMA CardMonotone ==
    ASSUME NEW T, IsFiniteSet(T), NEW S \in SUBSET T
    PROVE  Cardinality(S) <= Cardinality(T) /\ Cardinality(S) \in Nat
BY FS_Subset, FS_CardinalityType

(* A deletable live run already has L newer live runs: either all its     *)
(* newer runs are live, or one of them, z, is deleted and z's newer live  *)
(* runs are newer than it too.                                            *)
LEMMA DeletableKept ==
    ASSUME TypeOK, KeptInv, NEW x \in live, Deletable(x)
    PROVE  Cardinality(NewerLive(x)) >= Limit(status[x])
<1>1. Limit(status[x]) \in Nat /\ x \in Runs
  BY LimitAssumption DEF Deletable, Limit, TypeOK
<1>2. IsFiniteSet(NewerLive(x)) /\ Cardinality(NewerLive(x)) \in Nat
  BY NewerLiveFinite
<1>3. CASE NewerThan(x) \subseteq live
  <2>1. NewerThan(x) \subseteq NewerLive(x)
    BY <1>3 DEF NewerThan, CompletedOf, NewerLive
  <2>2. Cardinality(NewerThan(x)) <= Cardinality(NewerLive(x))
    BY <1>2, <2>1, CardMonotone
  <2>3. Cardinality(NewerThan(x)) \in Nat
    BY <1>1, NewerFinite
  <2>. QED BY <1>1, <1>2, <2>2, <2>3 DEF Deletable
<1>4. CASE ~(NewerThan(x) \subseteq live)
  <2>1. PICK z \in NewerThan(x) : z \notin live
    BY <1>4
  <2>2. z \in Runs /\ status[z] = status[x] /\ CreatedAt[z] > CreatedAt[x]
    BY <2>1 DEF NewerThan, CompletedOf
  <2>3. Cardinality(NewerLive(z)) >= Limit(status[x])
    BY <2>1, <2>2 DEF KeptInv
  <2>4. NewerLive(z) \subseteq NewerLive(x)
    <3> SUFFICES ASSUME NEW q \in NewerLive(z) PROVE q \in NewerLive(x)
      BY DEF NewerLive
    <3>1. q \in live /\ q \in Runs /\ status[q] = status[x] /\ CreatedAt[q] > CreatedAt[z]
      BY <2>2 DEF NewerLive, TypeOK
    <3>2. CreatedAt[q] \in Nat /\ CreatedAt[z] \in Nat /\ CreatedAt[x] \in Nat
      BY <1>1, <2>2, <3>1, CreatedAtAssumption
    <3>. QED BY <2>2, <3>1, <3>2 DEF NewerLive
  <2>5. Cardinality(NewerLive(z)) <= Cardinality(NewerLive(x))
       /\ Cardinality(NewerLive(z)) \in Nat
    BY <1>2, <2>4, CardMonotone
  <2>. QED BY <1>1, <1>2, <2>3, <2>5
<1>. QED BY <1>3, <1>4

(* Removing one deletable run keeps KeptInv: the removed run keeps its   *)
(* newer live runs, and an older deleted run that counted it now counts  *)
(* the removed run's newer live runs instead.                             *)
LEMMA DeleteKept ==
    ASSUME TypeOK, KeptInv, NEW x \in live, Deletable(x),
           live' = live \ {x}, status' = status
    PROVE  KeptInv'
<1> SUFFICES ASSUME NEW r \in Runs \ live'
             PROVE  Cardinality(NewerLive(r)') >= Limit(status[r])
  BY DEF KeptInv
<1>0. live' \subseteq Runs /\ IsFiniteSet(live')
  BY FS_Subset DEF TypeOK
<1>1. /\ IsFiniteSet(NewerLive(r)') /\ Cardinality(NewerLive(r)') \in Nat
      /\ NewerLive(r)' = NewerLive(r) \ {x}
  BY <1>0, FS_Subset, FS_CardinalityType DEF NewerLive
<1>2. x \in Runs /\ CreatedAt[x] \in Nat
  BY CreatedAtAssumption DEF TypeOK
<1>3. CASE r = x
  <2>1. NewerLive(r)' = NewerLive(x)
    BY <1>1, <1>2, <1>3 DEF NewerLive
  <2>. QED BY <1>3, <2>1, DeletableKept
<1>4. CASE r # x /\ x \notin NewerLive(r)
  <2>1. r \notin live /\ NewerLive(r)' = NewerLive(r)
    BY <1>1, <1>4
  <2>. QED BY <2>1 DEF KeptInv
<1>5. CASE r # x /\ x \in NewerLive(r)
  <2>1. r \notin live /\ status[x] = status[r] /\ CreatedAt[x] > CreatedAt[r]
    BY <1>5 DEF NewerLive
  <2>2. NewerLive(x) \subseteq NewerLive(r)'
    <3> SUFFICES ASSUME NEW q \in NewerLive(x) PROVE q \in NewerLive(r)'
      OBVIOUS
    <3>1. q \in live /\ q \in Runs /\ status[q] = status[r] /\ CreatedAt[q] > CreatedAt[x]
      BY <2>1 DEF NewerLive, TypeOK
    <3>2. CreatedAt[q] \in Nat /\ CreatedAt[r] \in Nat
      BY <3>1, CreatedAtAssumption
    <3>3. q # x /\ CreatedAt[q] > CreatedAt[r]
      BY <1>2, <2>1, <3>1, <3>2
    <3>. QED BY <1>1, <3>1, <3>3 DEF NewerLive
  <2>3. Cardinality(NewerLive(x)) >= Limit(status[x])
    BY DeletableKept
  <2>4. Cardinality(NewerLive(x)) <= Cardinality(NewerLive(r)')
       /\ Cardinality(NewerLive(x)) \in Nat
    BY <1>1, <2>2, CardMonotone
  <2>5. Limit(status[x]) \in Nat
    BY LimitAssumption DEF Deletable, Limit
  <2>. QED BY <1>1, <2>1, <2>3, <2>4, <2>5
<1>. QED BY <1>3, <1>4, <1>5

(* A completion only adds runs of its status to the store's completed    *)
(* runs, so no deleted run loses a newer live run.                        *)
LEMMA CompleteKept ==
    ASSUME TypeOK, NeverDeletesNewest, KeptInv,
           NEW r0 \in Runs, NEW s \in Statuses, Complete(r0, s)
    PROVE  KeptInv'
<1> SUFFICES ASSUME NEW r \in Runs \ live'
             PROVE  Cardinality(NewerLive(r)') >= Limit(status'[r])
  BY DEF KeptInv
<1>1. /\ live' = live /\ r0 \in live /\ status[r0] = "Running"
      /\ status' = [status EXCEPT ![r0] = s]
  BY DEF Complete
<1>2. r # r0 /\ status[r] \in Statuses /\ status'[r] = status[r]
  BY <1>1 DEF NeverDeletesNewest, TypeOK
<1>3. NewerLive(r) \subseteq NewerLive(r)'
  BY <1>1, <1>2 DEF NewerLive, TypeOK, Statuses
<1>4. IsFiniteSet(NewerLive(r)') /\ Cardinality(NewerLive(r)') \in Nat
  BY <1>1, LiveFinite DEF NewerLive
<1>5. Cardinality(NewerLive(r)) <= Cardinality(NewerLive(r)')
     /\ Cardinality(NewerLive(r)) \in Nat
  BY <1>3, <1>4, CardMonotone
<1>6. Cardinality(NewerLive(r)) >= Limit(status[r]) /\ Limit(status[r]) \in Nat
  BY <1>1, <1>2 DEF KeptInv, NeverDeletesNewest, Limit
<1>. QED BY <1>2, <1>4, <1>5, <1>6

LEMMA NextKept ==
    ASSUME DistinctCreation
    PROVE  RetainInv /\ [Next]_vars => KeptInv'
<1> SUFFICES ASSUME TypeOK, NeverDeletesNewest, PendingInv, KeptInv, [Next]_vars
             PROVE  KeptInv'
  BY DEF RetainInv, NewestInv, TypeInv
<1>0. ASSUME UNCHANGED <<status, live>> PROVE KeptInv'
  BY <1>0 DEF KeptInv, NewerLive
<1>1. ASSUME NEW r \in Runs, NEW s \in Statuses, Complete(r, s) PROVE KeptInv'
  BY <1>1, CompleteKept
<1>2. ASSUME NEW w \in Workers, Delete(w) PROVE KeptInv'
  <2>1. /\ pc[w] = "delete"
        /\ UNCHANGED status
        /\ \/ live' = live
           \/ /\ todo[w] # <<>>
              /\ Head(todo[w]) \in live
              /\ live' = live \ {Head(todo[w])}
    BY <1>2 DEF Delete, Finish
  <2>2. CASE live' = live
    BY <1>0, <2>1, <2>2
  <2>3. CASE live' # live
    <3> DEFINE x == Head(todo[w])
    <3>1. todo[w] # <<>> /\ x \in live /\ live' = live \ {x}
      BY <2>1, <2>3
    <3>2. Deletable(x)
      BY <2>1, <3>1, EmptySeq DEF PendingInv, TypeOK
    <3>. QED BY <2>1, <3>1, <3>2, DeleteKept
  <2>. QED BY <2>2, <2>3
<1>3. ASSUME NEW w \in Workers,
             \/ InformerSync(w)
             \/ \E r \in Runs : Reconcile(w, r)
             \/ Mark(w)
             \/ Cleanup(w)
      PROVE  KeptInv'
  BY <1>0, <1>3 DEF InformerSync, Reconcile, Mark, Cleanup, Finish
<1>4. CASE Quiescent \/ UNCHANGED vars
  BY <1>0, <1>4 DEF Quiescent, vars
<1>. QED BY <1>1, <1>2, <1>3, <1>4 DEF Next

(* KeptInv gives RetainsLimit: if some run of status s is gone, the L    *)
(* newer live runs it still has are live runs of s; otherwise every run  *)
(* that completed with s is live.                                         *)
LEMMA KeptRetains == TypeOK /\ KeptInv => RetainsLimit
<1> SUFFICES ASSUME TypeOK, KeptInv, NEW s \in Statuses, Limit(s) # Unset
             PROVE  Cardinality(LiveOf(s)) >=
                      IF Limit(s) < Cardinality(CompletedOf(s))
                      THEN Limit(s) ELSE Cardinality(CompletedOf(s))
  BY DEF RetainsLimit
<1>1. Limit(s) \in Nat
  BY LimitAssumption DEF Limit
<1>2. /\ IsFiniteSet(CompletedOf(s)) /\ Cardinality(CompletedOf(s)) \in Nat
      /\ IsFiniteSet(LiveOf(s)) /\ Cardinality(LiveOf(s)) \in Nat
  BY LiveFinite, FS_Subset, FS_CardinalityType DEF CompletedOf, LiveOf, TypeOK
<1>3. CASE \E r \in CompletedOf(s) : r \notin live
  <2>1. PICK r \in CompletedOf(s) : r \notin live
    BY <1>3
  <2>2. r \in Runs /\ status[r] = s
    BY <2>1 DEF CompletedOf
  <2>3. Cardinality(NewerLive(r)) >= Limit(s)
    BY <2>1, <2>2 DEF KeptInv
  <2>4. NewerLive(r) \subseteq LiveOf(s)
    BY <2>2 DEF NewerLive, LiveOf
  <2>5. Cardinality(NewerLive(r)) <= Cardinality(LiveOf(s))
       /\ Cardinality(NewerLive(r)) \in Nat
    BY <1>2, <2>4, CardMonotone
  <2>. QED BY <1>1, <1>2, <2>3, <2>5
<1>4. CASE \A r \in CompletedOf(s) : r \in live
  <2>1. LiveOf(s) = CompletedOf(s)
    BY <1>4 DEF LiveOf, CompletedOf, TypeOK
  <2>. QED BY <1>1, <1>2, <2>1
<1>. QED BY <1>3, <1>4

(* Eviction keeps the limit: for each status with a limit L, the store    *)
(* always holds at least min(L, N) of the N runs that completed with it,  *)
(* however many workers run their list-then-delete passes on stale        *)
(* listings at once (doResourceCleanup, metrics.go:583-680), provided no  *)
(* two runs of the group share a creation timestamp.                      *)
THEOREM RetainsLimitHolds ==
    ASSUME DistinctCreation
    PROVE  Spec => []RetainsLimit
<1>1. Init => RetainInv
  BY InitNewestInv DEF Init, RetainInv, KeptInv
<1>2. RetainInv /\ [Next]_vars => RetainInv'
  BY NextNewestInv, NextKept DEF RetainInv
<1>3. RetainInv => RetainsLimit
  BY KeptRetains DEF RetainInv, NewestInv, TypeInv
<1>. QED BY <1>1, <1>2, <1>3, PTL DEF Spec

-----------------------------------------------------------------------------
(* Refinement: HistoryLimiter implements RetentionAbstract under the      *)
(* identity mapping of status and live.  NewestInv supplies the fact that *)
(* the run a delete loop removes is deletable when it is removed.         *)

\* A run the limiter may delete is a run the abstract specification may evict.
LEMMA DeletableIsEvictable ==
    ASSUME NEW r
    PROVE  Deletable(r) <=> Retention!Evictable(r)
BY DEF Deletable, Retention!Evictable, NewerThan, Retention!NewerThan,
       CompletedOf, Retention!CompletedOf, Limit, Retention!Limit,
       Statuses, Retention!Statuses, Retention!Cardinality, Cardinality

LEMMA InitRefines == Init => Retention!Init
BY DEF Init, Retention!Init

LEMMA NextRefines ==
    ASSUME DistinctCreation
    PROVE  NewestInv /\ [Next]_vars => [Retention!Next]_<<status, live>>
<1> SUFFICES ASSUME TypeOK, PendingInv, [Next]_vars
             PROVE  [Retention!Next]_<<status, live>>
  BY DEF NewestInv, TypeInv
<1>1. ASSUME NEW r \in Runs, NEW s \in Statuses, Complete(r, s)
      PROVE  [Retention!Next]_<<status, live>>
  <2>1. Retention!Complete(r, s)
    BY <1>1 DEF Complete, Retention!Complete
  <2>. QED BY <2>1 DEF Retention!Next, Statuses, Retention!Statuses
<1>2. ASSUME NEW w \in Workers, Delete(w)
      PROVE  [Retention!Next]_<<status, live>>
  <2>1. /\ pc[w] = "delete"
        /\ UNCHANGED status
        /\ \/ live' = live
           \/ /\ todo[w] # <<>>
              /\ Head(todo[w]) \in live
              /\ live' = live \ {Head(todo[w])}
    BY <1>2 DEF Delete, Finish
  <2>2. CASE live' = live
    BY <2>1, <2>2
  <2>3. CASE live' # live
    <3> DEFINE x == Head(todo[w])
    <3>1. todo[w] # <<>> /\ x \in live /\ live' = live \ {x}
      BY <2>1, <2>3
    <3>2. Deletable(x)
      BY <2>1, <3>1, EmptySeq DEF PendingInv, TypeOK
    <3>3. Retention!Evict(x)
      BY <2>1, <3>1, <3>2, DeletableIsEvictable DEF Retention!Evict
    <3>. QED BY <3>1, <3>3 DEF Retention!Next
  <2>. QED BY <2>2, <2>3
<1>3. ASSUME NEW w \in Workers,
             \/ InformerSync(w)
             \/ \E r \in Runs : Reconcile(w, r)
             \/ Mark(w)
             \/ Cleanup(w)
      PROVE  UNCHANGED <<status, live>>
  BY <1>3 DEF InformerSync, Reconcile, Mark, Cleanup, Finish
<1>4. CASE Quiescent \/ UNCHANGED vars
  BY <1>4 DEF Quiescent, vars
<1>. QED BY <1>1, <1>2, <1>3, <1>4 DEF Next

(* HistoryLimiter implements the retention promise: every behaviour of    *)
(* any number of concurrent workers, seen through the runs' conditions   *)
(* and the store's contents, is a behaviour of RetentionAbstract, in      *)
(* which a run is only ever deleted while it has at least L newer runs of *)
(* its status (doResourceCleanup, metrics.go:596-680), provided no two    *)
(* runs of the group share a creation timestamp.                          *)
THEOREM RetentionRefinement ==
    ASSUME DistinctCreation
    PROVE  Spec => RetentionRefined
<1>1. Init => NewestInv /\ Retention!Init
  BY InitNewestInv, InitRefines
<1>2. NewestInv /\ [Next]_vars => NewestInv'
  BY NextNewestInv
<1>3. NewestInv /\ [Next]_vars => [Retention!Next]_<<status, live>>
  BY NextRefines
<1>. QED BY <1>1, <1>2, <1>3, PTL DEF Spec, RetentionRefined, Retention!Spec

=============================================================================
