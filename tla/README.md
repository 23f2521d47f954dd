# Formal models of tektoncd-pruner

This directory holds TLA+ models of the garbage collector for completed
Tekton PipelineRuns and TaskRuns. It has TLC configurations that model-check
them on small instances, and TLAPS proofs of their main invariants for every
value of the constants. Every model is translated from the Go source under
`src/`. `PROJECT.json` maps each definition to the lines it models.

Note on file names: several source files are concatenations of more than one
Go file, separated by a marker line. The line numbers cited here and in
`PROJECT.json` are line numbers in the concatenated file as it is on disk.

## 1. Inventory

### 1.1 Components

| Component | Source | State it keeps | Operations |
|---|---|---|---|
| **HistoryLimiter** (retention engine) | `pkg/telemetry/metrics.go` 223-711 | No state of its own. It acts on the resource store: which runs exist, their condition, and the `history-limit-processed` annotation. | `ProcessEvent`, `markAsProcessed`, `isProcessed`, `doResourceCleanup` (list, filter, sort, delete the excess) |
| **ResourceLocker** | `pkg/telemetry/metrics.go` 71-222 | The `tekton-pruner.io/processing-lock` annotation on the resource, with the value `instanceID:unixSeconds`. | `TryLock` (check, patch, re-read), `ReleaseLock`, `isLockValid`, `isOwnedByMe`, `parseLocationValue` |
| **prunerConfigStore** (config resolver) | `src/unnamed/part_006` 477-826 | `globalConfig` (a `PrunerConfig` with a per-namespace map) and `namespacedConfig`, guarded by an RWMutex. | `LoadGlobalConfig`, `DeleteNamespacedSpec`, `getResourceFieldData`, `getFromPrunerConfigResourceLevel`, `getEnforcedConfigLevel`, `GetEnforcedConfigLevelFromNamespaceSpec`, the six `Get{Pipeline,Task}{TTL,Success,Failed}…` accessors |
| **Config validation webhook** | `cmd/webhook/main.go` 80-270 | None. It is a pure check. | the handler `validateConfigMap`, `validateConfigMapAdmission`, `validatePrunerConfigMap`, `validatePrunerConfigFields`, `validateNamespaceSpec`, `validateResourceSpec` |
| **DeletionTracker** (deduplicator) | `pkg/config/config_unmarshal_test.go` 189-293 | `deletedItems: key -> time` under a mutex, and a ticker. | `RecordDeletion`, `cleanup` (the sweep every 5 minutes), `Stop` |
| **Recorder** (metrics consumer of the tracker) | `pkg/metrics/setup.go` 355-577 | OTel counters. | `RecordResourceDeleted` and `RecordUniqueResourceProcessed`, which are gated by `RecordDeletion`, and plain counters |
| Observability / telemetry set-up | `unnamed/part_004`, `part_005`, `part_006` 1-476, `pkg/metrics/setup.go` 1-354, `pkg/telemetry/metrics.go` 1-70, `part_007` | Exporters, meters and spans. | These are pure I/O and recording. They are not modelled (see §6). |
| Process bootstrap | `cmd/controller/main.go`, `part_008`, `cmd/webhook/main.go` 1-79 | Flags. | Not modelled. The relevant fact is that `-disable-ha` defaults to true, so every replica reconciles every key with no leader election. |
| Build/deploy scripts, docs, YAML | `hack/`, `config/`, `test/`, `.github/`, docs, `part_000-003`, `part_009-010` | None. | Not modelled. |

### 1.2 Interactions

* The knative reconcilers (their code is not in `src/`) call
  `HistoryLimiter.ProcessEvent(resource)` for every add or update event of a
  run. Each replica has its own workqueue and informer. There is no leader
  election (`disable-ha` is true by default), so **every replica processes
  every event**. Within one replica, the threads of the workqueue process
  different keys concurrently.
* `ProcessEvent` reads the annotation on the informer copy (`isProcessed`).
  It then does `Get` and `Patch` to set the marker, and then
  `doResourceCleanup`. The cleanup calls back into the config store
  (`GetSuccessHistoryLimitCount` / `GetFailedHistoryLimitCount` /
  `GetEnforcedConfigLevel`, through the `HistoryLimiterResourceFuncs`
  interface), then `List`, then `Delete` once per excess run.
* The marker patch (metrics.go 440-461) writes back **every** annotation that
  its `Get` returned. `ResourceLocker` keeps its lock in another annotation of
  the same map, so the two components share state.
* `Recorder.RecordResourceDeleted` and `RecordUniqueResourceProcessed` call
  `DeletionTracker.RecordDeletion` to decide whether to count an event.
* The webhook validates the ConfigMap before it is stored.
  `LoadGlobalConfig` parses it again when the informer delivers a change.

### 1.3 What is hard

* Several replicas and threads interleave list-then-delete on the same group
  of runs. The list each one uses is a snapshot that others are deleting from.
* `sort.Slice` is not stable, and the code has no tie-break. Creation
  timestamps have one-second resolution, so they tie.
* The processed marker is set before the cleanup runs. An error returned
  from the cleanup makes the reconciler retry, but the retry finds the marker
  and does nothing.
* The informer copy of a resource lags behind the store. `isProcessed` and
  `TryLock` both decide on that copy.
* The lock is check-then-write with an unconditional merge patch and a
  re-read. Two lockers can both see their own value.
* The lock expires by timeout. A crashed holder leaves a lock that is
  respected until `LockTimeout` has elapsed.
* Store errors: list, patch and delete can fail. `NotFound` on delete is
  tolerated, and every other error aborts the pass.
* Configuration is resolved along fallthrough chains that depend on the
  enforced level. A reload can land between two workers.

### 1.4 What makes each component correct

* HistoryLimiter:
  * it never deletes below the limit, that is, at least `min(L, #completed)`
    runs of each status remain;
  * it deletes only runs that have at least `L` newer runs of their status;
  * it deletes only completed runs of the filtered status;
  * the store eventually holds at most `L` completed runs of each status.
* ResourceLocker: two workers do not both hold a valid lock. A lock that a
  crashed holder left behind eventually stops blocking others.
* Config store: the value resolved for a field comes from the most specific
  layer the enforced level allows. A malformed document leaves the previous
  configuration in place.
* DeletionTracker: `RecordDeletion` returns true for a key at most once per
  one-minute window. The sweep never causes a second count within the window.

## 2. Plan

Modules, in order. The most important behaviour comes first.

1. `HistoryLimiter.tla`: concurrent `ProcessEvent` / `doResourceCleanup` by
   several workers on one logical group of runs. Store errors are injected,
   and informer copies may be stale. `MC_HistoryLimiter.tla` holds the run
   configurations. `HistoryLimiterProofs.tla` holds the proofs: the type
   invariant, then `NeverDeletesNewest` through an inductive invariant over
   the pending deletions. **(done in the first sitting: see §3, §4)**
2. `ResourceLocker.tla`: `TryLock` / `ReleaseLock` by workers with stale
   copies. It models a clock, `LockTimeout`, and holder crashes. The runs are
   the lock-exclusion question (expected to be violated) and a liveness
   property for expired locks. **(first sitting)**
3. `DeletionTracker.tla`: `RecordDeletion` and the sweep under a discrete
   clock, with the window property proved by TLAPS. **(first sitting)**
4. `ConfigStore.tla`: `getResourceFieldData`, `getEnforcedConfigLevel` and
   `LoadGlobalConfig` (an atomic swap, with rejection of bad input), written
   as recursion-free operators over small policy documents. It is checked
   against the precedence chain that the documentation states.
   `ConfigValidation` holds the webhook's validator.
5. Abstract specification `RetentionAbstract.tla`: "the store only ever loses
   runs that are beyond the newest L of their status". `HistoryLimiter` is
   shown to refine it (`INSTANCE`), by TLC and by TLAPS. **(second sitting)**
6. Proofs of the model-checked safety invariants: `RetainsLimit`,
   `AdmittedLimitsNonNegative`, `RootShadowedByNamespace`. **(second sitting)**
7. Not done: a `PrunerSystem` composing HistoryLimiter, ResourceLocker and
   config reloads. Nothing in `src/` calls the locker or `LoadGlobalConfig`,
   so the interleavings such a module would assume have no code to come
   from (§6).
8. TTL path (`TTLEvaluator`): its handler is not in `src/`. It is modelled
   from the documentation only if the composition needs it.

Theorems planned:

* the type invariant of every module;
* `NeverDeletesNewest` for HistoryLimiter;
* the window property of DeletionTracker;
* the resolution facts of ConfigStore (for example, that a set field at the
  most specific layer the level allows wins);
* the refinement of RetentionAbstract.

Liveness stays with TLC.

## 3. Modules and how they map to the code

Each module names, in its comments, the source lines it models.
`PROJECT.json` ("map") gives the exact line range of every definition.

### 3.1 `HistoryLimiter.tla` (metrics.go 296-699)

* **State.** The variables are:
  * `status` and `live`: the runs of one group in the API server, as
    condition and existence.
  * `processed`: runs carrying the history-limit-processed annotation.
  * `cache[w]`: the part of `processed` that worker `w`'s informer has seen.
  * `queue[w]`: the keys waiting in `w`'s workqueue.
  * `pc`, `event`, `cls` and `todo`: where `w` is inside `ProcessEvent`,
    and the rest of its delete list.
  * `errors`: a budget of injected store errors.
* **Workers.** A worker stands for one replica's reconciler thread. HA is
  off by default, so each replica receives every event.
* **Actions.** The code's steps map to actions as follows:
  * `Reconcile` is the `isProcessed` and `IsCompleted` early returns
    (321-340).
  * `Mark` is `markAsProcessed`: `Get`, NotFound, then `Patch`, whose errors
    are only logged.
  * `Cleanup` is `doResourceCleanup` up to the loop: limit nil, `List`
    error, within limit, or sort and take `len - limit`.
  * `Delete` is one loop iteration: NotFound continues, any other error
    aborts and is returned.
  * `Finish` is the return of `ProcessEvent`. An error requeues the key.
* **Sorting.** `sort.Slice` is unstable with no tie-break, so the sort is
  modelled as every permutation ascending in creation time
  (`SortedByCreation`).
* **Environment.** `Complete` (a run terminates and every replica enqueues
  it) and `InformerSync` (informer lag) are not code of this repository.
* **Abstraction.** The limit is a constant per status. Its lookup is modelled
  in ConfigStore.

### 3.2 `ResourceLocker.tla` (metrics.go 108-222)

* **State.**
  * `lock`: the annotation in the store.
  * `copy[w]`: the annotation on `w`'s informer copy.
  * `pc[w]`: `idle`, `verify`, `holding` or `crashed`.
  * `since[w]`: how long `w` has held the lock.
  * Error and crash budgets.
* **Time.** A lock value is `[owner, age]`. The age saturates at
  `LockTimeout`, which is all that `isLockValid` can distinguish.
* **Actions.**
  * `TryLock` is the check on the copy (117-126) followed by the
    unconditional merge patch (135). Line 130 writes into the caller's map,
    so the copy may or may not show the new value afterwards.
  * `Verify` is the re-read (145-161).
  * `ReleaseLock` is lines 165-180.
  * `Crash` stops a replica for good.
  * `Tick` and `Sync` are the clock and the informer.
* **Parsing.** `parseLocationValue` failures are the constant `Garbled`.

### 3.3 `DeletionTracker.tla` (config_unmarshal_test.go 209-275, setup.go 452-526)

* **State.**
  * `entries[k]`: the age of `deletedItems[k]`, or `Absent`.
  * `sweepIn`: the ticker.
  * `since` and `counted`: history variables recording when and how often
    `RecordDeletion` returned true.
  * `deleted` and `deletionCounted`: which deletions were reported and which
    were counted.
* **Actions.** `RecordDeletion` and `cleanup` each hold `dt.mu` for their
  whole body, so each is one step. `RecordResourceDeleted` and
  `RecordUniqueResourceProcessed` are the two callers.
* **Keys.** Keys are built by string concatenation as the code does
  (`deletionKey`, and `"processed-"` + name).

### 3.4 `ConfigStore.tla` (part_006 489-826)

* **Documents.** A policy document is a record with:
  * root fields and level;
  * `namespaces`: a function from namespace to a spec with fields, level,
    `pipelineRuns` and `taskRuns` selector lists.
* **Resolvers.** These are recursion-free operators with the code's names.
  The methods take the receiver `ps`, so a property can evaluate them on a
  modified document:
  * `getFromPrunerConfigResourceLevel`: the first selector whose name matches
    wins, even with a nil field.
  * `getResourceFieldData`: the fallthrough switch.
  * `GetEnforcedConfigLevelFromNamespaceSpec`: reads
    `ps.globalConfig.Namespaces` whatever map it is passed.
  * `getEnforcedConfigLevel`.
  * `GetField`: the six accessors.
* **Actions.**
  * `LoadGlobalConfig`: a malformed document keeps the old configuration,
    and no data loads the zero configuration.
  * `DeleteNamespacedSpec` (608-612): removes one namespace from
    `namespacedConfig`.
* **namespacedConfig.** It is always empty, since `UpdateNamespacedSpec` is
  commented out.
* **Locking.** Every accessor takes the exclusive lock, so reads are atomic
  with respect to reloads.
* **Document shape.** `IsDocument` states the shape the YAML decoder gives
  a `PrunerConfig` (536-547): a root level, root fields, and a map to
  `NamespaceSpecs`, whose selector lists are sequences of `SelectorSpecs`
  (the `Selector` inside each `ResourceSpec`, 505-533).

### 3.5 `ConfigValidation.tla` (webhook main.go 80-270)

* **State.** `configMaps`: what the API server stores for the pruner's
  ConfigMap and for one other.
* **Action.** A write is one call of the HTTP handler `validateConfigMap`
  (80-116), which calls `validateConfigMapAdmission`:
  * a request whose AdmissionReview or ConfigMap does not decode
    (the constant `Undecodable`) is denied;
  * another ConfigMap is always allowed;
  * the pruner's must pass `validatePrunerConfigMap`.
* **Stored writes.** `failurePolicy: Fail` (config/500-webhook-configuration.yaml)
  means only allowed writes are stored.
* **Abstraction.** The decision does not depend on selector names or error
  wording, so they are dropped.

### 3.6 `RetentionAbstract.tla`

The promise of history-limit retention with no workers, queues or listings.
`status` and `live` are the only variables. `Complete(r, s)` ends a run.
`Evict(r)` deletes one live run that is `Evictable`: its status has a limit
L, and at least L runs of that status were created after it. This module
models no code and has no map entry. `HistoryLimiter` maps onto it with the
identity on `status` and `live` (`Retention == INSTANCE RetentionAbstract`):
`Complete` is `Complete`, each `Delete` is one `Evict`, and every other
action is a stutter.

## 4. Runs

| Run | Checks | Result | What it shows |
|---|---|---|---|
| hl_safety | `RetainsLimit`, `NeverDeletesNewest`, `RetentionRefined` | pass | Concurrent list-then-delete passes with errors and stale informers never cut below the limit or delete one of the newest L, and every behaviour is one of `RetentionAbstract` |
| hl_live | `EventuallyWithinLimit` | pass | Without errors, the excess is eventually deleted |
| hl_ties | `RetainsLimit` | violation | Same-second creation times: two workers order differently, and both delete |
| hl_retry | `EventuallyWithinLimit` | violation | A failed pass after the marker is never redone |
| rl_live | `CrashedLockReplaced` | pass | A crashed holder's lock is eventually taken over |
| rl_exclusion | `MutualExclusion` | violation | Two TryLocks both succeed within the timeout |
| dt_window | `OncePerWindow`, `DeletionsCounted` | pass | One true per key per window, whatever the sweeps; with distinct keys every reported deletion is counted once |
| dt_collision | `DeletionsCounted` | violation | `processed-x` collides with the processing record of `x` |
| cs_resolution | `FieldsResolveIndependently`, `RootShadowedByNamespace` | pass | Fields are independent, and a namespace entry shadows the global root at every level |
| cs_nslevel | `NamespaceLevelIgnoresSelectors` | violation | The namespace level still reads selectors |
| cv_admission | `AdmittedLimitsNonNegative` | pass | No admitted write stores a negative value |
| cv_levels | `AdmittedLevelsValid` | violation | A misspelt namespace-level `enforcedConfigLevel` is admitted |

Each violation is recorded as a finding in `PROJECT.json`, with the line
that causes it. `ReleaseOnlyOwn` in ResourceLocker is also violated: `ReleaseLock` on a stale copy removes another replica's lock. It has no run of its own because its cause is the one rl_exclusion already shows.

Every property of a passing run has a mutant in `PROJECT.json`: a plausible
bug in the mapped code that TLC then catches.

### 4.1 Bounds, and why they suffice

* **HistoryLimiter.** Three runs and two workers, with limit 1:
  * Three runs give an excess of two, so each of two workers can delete one
    run from its own stale list.
  * One error is enough to abort a pass in every place an error is possible.
  * Worker symmetry is sound because workers are interchangeable.
* **ResourceLocker.** Two workers, `LockTimeout = 2`, one error and one
  crash. This is enough for a lock to expire while its holder is stopped.
* **DeletionTracker.**
  * `Window = 2`, `Retention = 3` and `SweepPeriod = 2` let a sweep fall
    before, inside and after a window.
  * `MaxCount = 2` lets a key count twice.
  * The collision run uses the names `x` and `processed-x`.
* **ConfigStore.** About 84,000 documents:
  * two fields;
  * values nil, 1 and 2 (selectors nil or 1);
  * every level string;
  * namespace `ns1` with at most one selector, named `p1` or `p2`.

  Lookups ask for `ns1` and for the unmentioned `ns2`. Every document is an
  initial state (the start-up load). Reloads bring a malformed document,
  empty data, and Example A of the spec with two selectors of the same name.
* **ConfigValidation.** One numeric field (nil, 1 or -1), and the levels
  nil, `resource` and the misspelt `Namespace`. That gives 1,548 documents
  written to the pruner ConfigMap in any order.

### 4.2 Fairness

* **HistoryLimiter.** `FairSpec` assumes weak fairness of each worker's
  steps and of informer delivery. Workqueues keep processing their keys, and
  informers keep delivering events.
* **ResourceLocker.** `FairSpec` assumes weak fairness of each worker's
  steps, of informer delivery and of the clock. A replica retries TryLock on
  every resync. A crashed worker has no fairness.
* **Lock acquisition.** It has no liveness property, because TLC finds a
  fair livelock: replicas that overwrite each other forever.

## 5. Proofs (TLAPS)

| Module | Theorem | Statement |
|---|---|---|
| HistoryLimiterProofs | `TypeCorrect` | `Spec => []TypeOK` |
| HistoryLimiterProofs | `NeverDeletesNewestHolds` | `DistinctCreation => (Spec => []NeverDeletesNewest)` |
| HistoryLimiterProofs | `RetainsLimitHolds` | `DistinctCreation => (Spec => []RetainsLimit)` |
| HistoryLimiterProofs | `RetentionRefinement` | `DistinctCreation => (Spec => Retention!Spec)` |
| ConfigValidationProofs | `AdmittedLimitsNonNegativeHolds` | `Spec => []AdmittedLimitsNonNegative` |
| ConfigStoreProofs | `RootShadowedByNamespaceHolds` | `Spec => []RootShadowedByNamespace` |
| DeletionTrackerProofs | `OncePerWindowHolds` | `Window <= Retention + 1 => (Spec => OncePerWindow)` |
| DeletionTrackerProofs | `TrackerTypeCorrect` | `Window <= Retention + 1 => (Spec => []TypeOK)` |
| DeletionTrackerProofs | `DeletionsCountedHolds` | `DistinctKeys => (Spec => []DeletionsCounted)` |
| ConfigStoreProofs | `FieldsResolveIndependentlyHolds` | `Spec => []FieldsResolveIndependently` |

They hold for every value of the constants that satisfies the modules'
assumptions.

### 5.1 `NeverDeletesNewest`

`NeverDeletesNewest` is not inductive: a worker may hold a delete list built
from an old listing. The inductive invariant is `NewestInv`, made of:

* the type invariant;
* `NeverDeletesNewest`;
* `PendingInv`: every entry still on a deleting worker's list is
  `Deletable`, that is, completed with at least L newer completed runs.

Three lemmas carry the proof:

* `OldestAreDeletable`: the first `len - L` of an ascending order each have
  L newer runs. The proof is an injection into `NewerThan` plus
  `FS_Injection`.
* `DeletableStable`: completions only add newer runs, and deletions never
  touch the count, because `NewerThan` is over completed runs whether they
  are live or not.
* The Delete step pops the head of a list all of whose entries are
  `Deletable`.

The assumption `DistinctCreation` is needed: the hl_ties run shows the
property failing without it.

### 5.1a `RetainsLimit` and the refinement

`RetainsLimit` is not inductive either: deleting a run lowers the count of
live newer runs that an older, already deleted run relied on. The
strengthening `KeptInv` says that every deleted run still has at least L
newer *live* runs of its status. It holds because the Delete step only
removes a `Deletable` run (by `PendingInv`), and with distinct creation
times the L newest runs of a status are never `Deletable`, so the runs a
deleted run counts on are never removed (`DeleteKept`, `CompleteKept`).
`RetainsLimit` follows from `KeptInv` (`KeptRetains`).

The refinement proof maps `Init` to `Retention!Init`, and each step of
`Next` to a step or a stutter of `Retention!Next`. The one fact it needs is
`DeletableIsEvictable`: the runs a worker may delete (by `PendingInv`) are
exactly the ones the abstract spec may evict.

### 5.1b `AdmittedLimitsNonNegative` and `RootShadowedByNamespace`

* `AdmissionInv` is the type invariant plus the property. An allowed write
  to the pruner ConfigMap passed `validatePrunerConfigFields`, which checks
  the root, every namespace and every selector of both lists
  (`ValidatedLayers`). `ContentsAssumption` states that the selector lists
  are sequences, as the decoder makes them.
* `RootShadowedByNamespace` follows from the type invariant alone. The
  store only ever holds a parsed document (`DocumentsAssumption`: the
  webhook admits only valid or empty root levels). `namespacedConfig` is
  always empty. The fallthrough chain stops at the namespace root when it
  is set (`ChainShadowed`). Either the namespace's level decides the
  enforced level, or the root level is one of the three valid ones
  (`ShadowedLookup`).

### 5.2 `OncePerWindow`

The strengthening `WindowInv` says that while a key is inside its window,
its entry exists and has the age `since`. `cleanup` only removes entries
older than `Retention`, and `Window <= Retention + 1` keeps it from removing
one inside a window.

### 5.2a `DeletionsCounted`

`DeletionsCounted` says every deletion `RecordResourceDeleted` reported is
counted by its first call. It is not inductive: a later processing record
could reuse a deleted name's key. The strengthening `CountInv` adds the
domain of `entries`, `deleted \subseteq Names`, and `UntouchedInv`: a name
not yet deleted has no entry under its deletion key. `DeletedStep` and
`ProcessedStep` show that each caller keeps `UntouchedInv` for every other
name. The hypothesis `DistinctKeys` says that distinct names have distinct
deletion keys and that no processing key equals a deletion key. It is a
hypothesis and not an `ASSUME`, because the dt_collision run shows the
property failing for `x` and `processed-x`, where it does not hold.

### 5.2b `FieldsResolveIndependently`

The property follows from the type invariant, and the argument is about
documents:

* `WithoutFieldKeeps`: clearing field g keeps, for every other field f, the
  root level, the root f, and (`DocsKeep`) every namespace spec's level and
  f, and every selector list's length, names, levels and f.
* `FirstIndexExists`: a selector list that has a name has a first index
  with it. This is the least element of the matching indices, by
  `NatLessThanWellFounded` and `WFMin`. `SameFirstSelector` then shows that
  two lists with the same names have the first match at the same index, so
  the loops of `getFromPrunerConfigResourceLevel` and
  `GetEnforcedConfigLevelFromNamespaceSpec` stop at the same selector
  (`SelectorLookupKeeps`).
* `LookupsKeep` and `IndependentLookupDoc` put these together: the
  enforced level and the whole fallthrough chain for f are the same on both
  documents.

### 5.3 What stays with TLC

* **Liveness.** `EventuallyWithinLimit` and `CrashedLockReplaced` are
  checked by TLC only. TLAPS here does not handle ENABLED and fairness
  reasoning.
* **Violated properties.** TLC refutes them, and they have no theorem.
  Every invariant of a passing run now has a theorem.

## 6. Not modelled, and why

* **ResourceLocker and HistoryLimiter together.** No code in the repository
  calls ResourceLocker, so the two are not composed. The hazard that
  `markAsProcessed` writes back a stale lock annotation is listed in
  `PROJECT.json`.
* **Reloads during a pass.** The caller that hands ConfigMap updates to
  `LoadGlobalConfig` is not in `src/`. HistoryLimiter therefore takes a
  fixed limit. ConfigStore shows only that each lookup is atomic with
  respect to a reload.
* **The webhook's namespace.** The webhook recognises the pruner ConfigMap
  only in the hard-coded namespace `tekton-pipelines` (main.go:129). The
  model fixes which ConfigMap is the pruner's; the deployment namespace is
  not code of the repository.
* **The metrics exporter.** `Initialize` is called once from `main`, on one
  thread, and nothing calls `Shutdown`. It has no concurrent state to model.
* **Two config versions.** The webhook decodes into a newer `config` package
  than the store in part_006 (package helper).
  * The newer store that reads the webhook's documents is not in the
    repository.
  * Mapping the webhook's level string onto the store's shows the effect of
    the finding on cv_levels: an unknown level resolves every field to nil.
* **Clock skew** between replicas in `isLockValid`.
* **The TTL handler and the knative reconcilers.** They are not in `src/`.
* **Telemetry, exporters, bootstrap and scripts.** These are I/O and set-up
  only.
