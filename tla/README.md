# werk1112: models, checks and proofs

werk1112 is a local-first inference router: one Rust process that accepts
OpenAI-, Anthropic-, Ollama- and Werk-protocol requests, chooses a backend,
keeps model runtimes (worker processes or in-process weights) resident, and
stores model states so that a conversation can go on after a restart. These
TLA+ modules model the parts of it whose correctness depends on the order of
steps: threads that share a registry, processes that must not survive their
owner, directories that must survive a crash.

Paths are relative to `src/src/` unless they start with `docs/`.

## 1. Inventory

### Components with shared state

| Component | Source | State | Operations | What makes it hard |
|---|---|---|---|---|
| Runtime cache | `backend/runtime_cache.rs`, `api/preload.rs` | deque of (key, slot); per slot a mutex around the runtime and a pin count; the thread-local preload scope | `get_or_try_init`, `remove_if`, `snapshot`, `preload`, `capture`, `PreloadHandle::drop` | registry lock released before loading; decisions on `Arc::strong_count`; loaders fail and panic; rollback of preloads |
| Worker lifecycle | `backend/llama_process_lifecycle.rs`, `backend/llama_server.rs`, `backend/model_file_cache.rs` | the registry of children and cleanups (`stopping` flag), a mutex per child, the cache guard's `cancelled` and preparation gate, the runtime's reservation | `spawn`, `terminate`, drops, `is_running`, preparation, cleanup, `shutdown_children` | the signal handler races every owner step; kill and wait under a mutex; group ids outlive their leader |
| State store | `runtime_control/store.rs` | directories of a namespace, quota journals, pins, the catalog's file lock and the usage lease | `commit`, `load`, `set_pinned`, `prune`, `cache_prune`, reconciliation before each mutation | kills and power loss between rename, sync and removals; several processes; partial removals |
| Runtime control | `runtime_control/local.rs`, `backend.rs` | volatile states, leases, the cleanup latch, the mutation gate | prefill, decode, handoff, list, state actions, prune, memory relief | awaits and blocking tasks between steps; `list_states` outside the gate; releases that cannot be confirmed |
| Runtime routing | `runtime_control/routing.rs` | routes of states to backend instances, live-state counts, pending reservations | reserve, commit, release, record and release instance | counts that several paths change, one bounded capacity |
| Handoff registry | `runtime_control/handoff.rs` | single-use handoffs, reserved capacity, expiry | reserve, commit_reserved, inspect, take, take_with_replacement, take_expired | consumption racing expiry and replacement |
| Memory manager | `runtime_control/memory.rs`, `gpu_memory.rs`, `experts.rs` | accounts per device, reservations, pressure actions | reserve_load, reserve_promotion, plan and begin pressure actions | freed memory promised twice, retry after relief |
| Media jobs | `inference_service/jobs.rs`, `service.rs`, `output.rs` | job files, cancellation flags, output directories | submit, transition, cancel, recover_interrupted, retention | cancellation racing completion, retention racing a writer, restart |
| Deployments | `deployments.rs`, `api/deployments.rs`, `inference_service/resources.rs` | the ledger of host and device reservations | reserve, drop, budget check | inventory sampled before the ledger is locked |
| API state | `api/state.rs`, `api/chat.rs`, `api/generation.rs` | LRU of chat sessions with creation gates, request semaphores | get or create, insert, evict | gates and sessions outlive their entries |
| Streaming | `api/anthropic/stream.rs`, `openai.rs` | the open content block of a response | translate one chunk | order of events |
| File store, API keys, model store | `file_store.rs`, `api_keys.rs`, `model_store*.rs` | files replaced atomically, download directories | create, delete, import, convert | crash between steps |

Components without shared mutable state (planning, tool-call parsing, security
derivations, providers, terminal, media companion client, the mathematics of
the backends) are listed in `PROJECT.json` with the reason they are not modelled.

### How they interact

- An API handler asks a backend for an answer. The backend looks its runtime up
  in its **runtime cache** and, on a miss, the loader starts a process through
  the **worker lifecycle**, with the memory reservation that **deployment
  admission** gave it. The last `Arc` of the runtime, dropped by a request, an
  eviction or a snapshot, drops the process.
- The signal handler of the lifecycle stops every child of every cache; after it
  the process exits, so nothing relies on drops for the end of Werk.
- **Runtime control** calls the llama.cpp adapter to create and restore state,
  **routing** to find the instance a state lives in, the **memory manager** before
  it loads, the **handoff registry** for single-use transfers, and the **state
  store** for what must survive. The store is also opened by other Werk processes
  and, while none runs, by `werk cache`.
- **Media jobs** run on the inference service and write below the output root
  that retention trims.

### What makes each one correct

- Runtime cache: an active instance is never evicted or duplicated; loading is
  single-flight; resident memory is bounded by capacity plus pins; a preload that
  fails takes back exactly what it added; a failure consumes no capacity.
- Worker lifecycle: no worker outlives Werk; resources of a worker (file leases,
  mappings, reserved GPUs) are given back only when it is reaped and its process
  group has been killed; no GPU has two workers; shutdown terminates.
- State store: a committed state is lost only to a prune, its expiry or a newcomer
  as durable as itself; the quota holds at every crash point once journals are
  carried out; recovery is always possible; pins are respected by late evictions.
- Runtime control: a released state is confirmed released or the latch is set;
  handoffs are used once; every prune accounts for what it removed. Routing: the
  live count of an instance equals its routes; instances and reservations stay in
  capacity. Memory: what is promised is never more than what is free.
- Media jobs: a terminal job stays terminal, the result of a cancelled job is
  discarded where its removal succeeds.
- Chat sessions: at most one live session per key while its entry is cached.

## 2. Plan

| # | Module | Models | Composes / implements | State |
|---|---|---|---|---|
| 1 | `RuntimeCache`, `RuntimeCacheProofs` | runtime cache with its users and preloads | | done, proved |
| 2 | `ProcessLifecycle`, `ProcessLifecycleProofs` | worker ownership and shutdown | | done, proved |
| 3 | `StateCatalog`, `StateStore`, `FoldLaws`, `StateStoreProofs` | catalog as promised, directories as kept | `StateStore` implements `StateCatalog` | done; safety and refinement proved |
| 4 | `RuntimeRouting`, `RuntimeRoutingProofs` | route tables, state routes, reservations, instance counts | | done, proved |
| 5 | `MemoryManager`, `FoldLaws`, `MemoryManagerProofs` | accounts, pressure, plans and claimed actions | | done, proved |
| 6 | `RuntimeControl`, `RuntimeControlProofs` | prefill, decode, handoffs, volatile states, leases, latch, persistence, relief, actions, prune, `list_states` | uses 3 as the set of ids on disk, 5 as a verdict on loads | done, proved |
| 7 | `MediaJobs`, `MediaJobsProofs` | job store, workers, cancellation, retention, restart | | done; safety proved, liveness model-checked |
| 8 | `ChatSessions` | session LRU with gates | | left |

Each module takes its sets and limits as CONSTANTS with named assumptions, has one
action per step that another actor can interleave with, and contains no recursive
operator, so that it can be proved about as it is checked. Left besides item 8:
the slots of the llama.cpp state adapter below the control plane, and the downloads of
the model store.

## 3. The modules and the code

### RuntimeCache

| Model | Code |
|---|---|
| `slotOf`, `older` | `entries`: the deque, as the slot of each key and an order relation between keys |
| `val`, `pins`, `poisoned` | `CacheSlot`: the mutex' content, `pins`, and poisoning |
| `slot[t]`, `inst[t]`, `evicted[t]` | the `Arc` clones on a thread's stack; `Arc::strong_count(x) > 1` is the existence of such a holder (`SlotShared`, `ValueShared`) |
| `running` | runtimes that work; one that nobody references is dropped, hence killed, in the same step (`RunningAmong`) |
| `scoped`, `captured`, `handles` | the thread-local `PRELOAD` scope, its captures, the committed `PreloadHandle`s |
| `LookupHit`, `LookupAdmit`, `LookupEvict`, `LookupRefuse` | the critical section of `get_or_try_init`, by outcome; each includes the purge of empty slots |
| `DropEvicted` | `drop(evicted)` between the critical section and the slot lock |
| `AcquireValid`, `AcquireLoad`, `AcquirePoisoned`, `LoadSucceeds/Fails/Panics` | the part under the slot's lock |
| `Finish`, `Fail`, `Discard`, `RemoveDead`, `WorkerDies` | what users do: end, fail, `remove_if` after a failure (`text_analysis*.rs`), removal of dead workers (`omlx.rs`) |
| `SnapshotSlots`, `SnapshotValues`, `SnapshotDropped` | `snapshot` with its two phases and the life of its result |
| `BeginPreload`, `CommitPreload`, `FailPreload`, `Unpin`, `ReleaseCapture`, `StopStartup`, `DropHandle` | `preload` and the drops of `CapturedSlot` and `PreloadHandle` |

Identities of slots and instances are pairs of a key and a generation that is
free at the time of allocation, as an allocator reuses addresses. `Generations`
bounds how many exist at once; 3 suffices for two threads, the boot thread and
the registry on one key. The seven users of the cache differ in the parameters
of `Policy`: capacity, whether idle entries may be evicted (`retained` caches
refuse instead), and what a failed request removes.

### ProcessLifecycle

One runtime per element of `Runtimes`: its owner thread (`pc`), a concurrent
`is_running` (`probe`), its process (`leader`), the rest of its process group
(`ranks`), those of it that were
sent SIGKILL and are not gone yet (`dying`), the child's mutex when it is held across steps (`lock`), the managed
cleanup (`token`) with the cache guard's state (`cancelled`, `preparing`, `keep`,
`retained`) and the reservation of GPUs (`reserved`, `released`).
`shutdown_children` is `stage` with the lists it took (`toKill`, `toWait`,
`toClean`). Group ids may be reused by the system once the leader is reaped and
the group is empty (`recycled`). `KillGroup` only sends the signal: the leader is
`killed` until the system ends it (`LeaderDies`), its descendants are `dying` until
`RanksDie`, and `Reap`, the `wait` of the code, waits for the leader alone. `Admit` is
`Reservations::acquire`: a deployment gets its `Gpus` if no other has one of them.
Drops follow the declaration order of
`LlamaServerProcess`: its `Drop`, the child, the reservation, the cleanup.

### StateStore and StateCatalog

`dir` is the namespace as processes see it, one entry per state id: absent, valid
with its pin and quota journal, or torn (unreadable). `disk` is what has been
synchronized and is followed only when power may be lost. An operation holds the
catalog lock from `StartCall`, `StartPrune` or `Discard` to `Unlock`, and `at`
says where it is; all mutations except `cache_prune` pass through reconciliation
(`ScanPending` to `Swept`). `Interrupt` ends an operation between any two steps or
in the middle of a directory removal (`Halves`: journal gone first, payload gone
first); `PowerLoss` keeps any mixture of synchronized and unsynchronized entries.
Least-recently-used order is abstracted to any order, which includes it.

`StateCatalog` has two variables: the catalog, and the states that gave way to the
last newcomer and still use space. Its steps are atomic: a newcomer replaces its
victims (`Commit`), states go (`Remove`), or a newcomer that itself goes before its
victims did gives the catalog back to them (`Return`). The mapping takes the valid
entries that no journal condemns as the catalog, those condemned as parting.

### RuntimeRouting

| Model | Code (`runtime_control/routing.rs`) |
|---|---|
| `models`, `compat` | the two bounded route tables, least recently used first |
| `owner`, `live`, `pending` | `instances` with `live_states`, and `pending_state_routes` |
| `op[w]` | a thread's operation: the model, adapter, instance, reservation (`res`) and state it has in hand between two critical sections |
| `process[a]` | the identity an adapter's descriptor reports now; `Restart` changes it at any moment |
| `held` | states the control plane owns, each with its instance and the adapter that made it |
| `ResolveHit/Miss`, `FinishSelection`, `RecordCompatibility` | `resolve_model_route` around the selection without the lock, `compatibility` |
| `ResolvePlan`, `BindPlan`, `FinishPlan`, `RestorePrepared` | `prepare_persisted_state`, `restore_prepared_state` |
| `ReadDescriptor`, `ReserveExisting`, `ReserveNew` | `reserve_state_route` |
| `CommitInPlace`, `CommitElsewhere`, `DropReservation`, `ReleaseRejected` | `StateRouteReservation::commit` and its drop, `commit_state_route` |
| `StartRelease`, `BackendReleases`, `FinishRelease` | `release`, `release_state_route` |

Operations that create a state are at most `Permits` at once: one under the control
plane's gate. Releases and metadata requests are not gated.

### MemoryManager

Each operation of `runtime_control/memory.rs` is one step, as each holds the
manager's mutex; what is between them is the life of a `MemoryReservation` (`loads`),
of a plan (`plan`) and of a `PressureActionPermit` (`claim`). The arithmetic is the
code's: basis points rounded down, saturating subtraction, the hysteresis, shared
accounts with unified memory. Times appear as the order of use (`recent`) and as the
set of tiers whose cooldown runs. `promise` is a history variable: the load a plan
makes room for and the memory it will find if telemetry follows the backend.

### RuntimeControl

One operation holds the gate (`op`, with its place and its locals); `list_states`
(`listed`) and the clock run beside it. A backend state (`status`) is `raw` in the
hands of an operation that created it, `leased` while an owner exists, `free` again
when its release was confirmed and `lost` when it was not. `Owners` is computed: the
names, the handoffs, a listing's clones and the operation's locals; `DropLeases` is
the drop of `BackendStateLeaseInner` for every lease a step let go of last.

| Model | Code (`runtime_control/local.rs`, `handoff.rs`) |
|---|---|
| `StartPrefill` to `UseReused`, `FindStored`, `RetainPrefillState`, `InsertVolatile`, `IssueHandoff` | `prefill_inner` and what it calls, by mode and outcome |
| `StartDecode`, `TakeHandoff`, `DecodeRecord`, `DropRecord` | `decode_inner`, `inspect`, `take_with_replacement` |
| `SnapshotState`, `CommitToDisk`, `ConfirmPersisted`, `FallBack` | persisting a live state, with the export it may need |
| `ReserveMemory`, `RelieveEvict`, `RelieveDemote`, `ReserveAgain`, `CommitBackendMemory`, `CleanupRejected` | `reserve_backend_memory`, `relieve_memory_pressure`, `commit_backend_memory`, `cleanup_rejected_backend_state` |
| `StartAction` to `PromoteFromDisk` | `state_action_inner`: evict, demote, promote, move |
| `StartPrune`, `PruneOne`, `PruneDisk` | `prune_states_inner` |
| `StartListing`, `EndListing` | `list_states_inner` |
| `Unhealthy`, `Fail`, `Finish` | `ensure_backend_cleanup_healthy`, an error of any call, the drops of an operation's locals |

The state store is the set of ids it holds, which a commit's quota may shrink; that
this is what directories and journals amount to is the refinement of `StateStore`.
The memory manager grants or denies; what it charges for each state is `account`.

### MediaJobs

`status` is the persisted record of a job, `pc` the place of its worker task or of a
direct request, `output` its result directory: absent, being written (`open`),
complete (`full`) or a directory that lacks something (`bare`): a removal or a write
failed half-way, or `metadata.json` was written after a sweep removed the rest. Every
removal and write can fail; `Discarding` is a removal whose error the code ignores,
`Swept` what a sweep leaves, wherever it fails. `Plan` begins an execution with a retention sweep, `WriteMetadata` and
`SweepAfter` end it with another, which lists first and removes afterwards
(`victims`); a listed entry that vanished or is being written can make it fail, as can
the second write of `metadata.json` after it. `StoreFails` is an access to
the job store that fails, with what the worker does then. `Crash` ends all tasks,
`Restart` is the start of the server with `recover_interrupted`.

## 4. The runs

| Run | Instance | Shows |
|---|---|---|
| `runtime_cache` | 3 keys, 2 threads, capacities 1 and 2, retained 1, one preload, 3 generations; 131 k states | `TypeOK`, `ActiveInstanceStaysShared`, `OneInstancePerKey`, `ResidentBounded`, `RefusedOnlyWhenTaken` |
| `runtime_cache_faults` | 2 keys, 2 threads, a monitor, 2 preloads, panics or discards; 915 k states | `SingleFlight`, `OrdinaryWithinCapacity`, `PinsAccounted`, `PreloadedStaysResident` |
| `process_lifecycle` | 2 runtimes that may be deployments on one GPU, fairness; 741 k states | `TypeOK`, `NothingOutlivesWerk`, `CleanupAfterWorker`, `NothingRetainedAfterCleanup`, `OneWorkerPerGpu`, `ShutdownCompletes` |
| `state_store` | 3 large states and a small one, quota of one large and one small, one runtime and the offline command; faults: I/O errors and kills, or power loss, or an interrupted offline command; 151 k states | `TypeOK`, `OwedSurvives`, `CondemnedUnpinned`, `Recoverable`, `ImplementsCatalog` |
| `runtime_routing` | 2 models, 2 adapters, 3 identities, 2 states, 2 workers, one permit, 2 instance places; 880 k states | `TypeOK`, `RouteCountExact`, `StatesReachTheirAdapter`, `ReservationHonoured`, `OneRoutePerModel` |
| `memory_manager` | 2 allocations, 2 tiers, discrete and unified, 3 telemetry samples, one orphan; 217 k states | `TypeOK`, `AccountsExact`, `GrantsStayBelowHard`, `ClaimsStayValid`, `ReliefAdmits` |
| `runtime_control` | 2 names, 3 backend states, 3 tokens for 2 handoffs; 252 k states | `TypeOK`, `LeasesLive`, `NothingLeaks`, `ReservationsHeld`, `NoWorkAfterFailedCleanup`, `NamedStatesAreKept` |
| `media_jobs` | one job, 2 direct requests, one crash, 2 faults of the store, failing removals and writes, fairness; 595 k states | `TypeOK`, `CancelledResultsDiscarded`, `TerminalStays`, `JobsEnd` |
| `runtime_cache_discard`, `runtime_cache_panic`, `process_groups`, `state_store_offline` | as small as the history needs | the findings of section 6 |

Why these bounds are enough: two threads and the boot thread are one more than
any pairwise race in the cache; with three keys and capacity 2 both the eviction
of an idle entry and the refusal while all are taken occur, with capacity 1 and
two keys every lookup competes. Two runtimes let shutdown be at a different stage
for each, and compete for the GPU. In the store two large states never fit together while a small one fits
beside either, so a commit may need no, one or two victims; a second commit can
meet the journal of the first. One runtime process is enough because the catalog
lock lets one operation run at a time, and what a process leaves behind is the
directory, which any later operation, of whichever process, reads; the offline
command is a second kind of process, excluded while a runtime holds the usage lease.
In routing two places and three identities let a restart, two claimants of one identity
and a full table meet; the second worker is the release or metadata request beside the
gated operation. In the memory manager one more load is exactly the hard threshold of
either tier, so each rounding decides; the samples are nobody else in memory, others up
to the threshold on one tier, and on both. Three backend states are a named one, one in
a handoff or an export, and the one being created, so every pair of owners occurs; the
third token is the one a full registry has no room for. One job suffices as jobs share
nothing but the outputs, which the two direct requests sweep as other jobs would: one
lists, another removes.

Permutations of keys, threads and equal-sized states are symmetries; the runs with a
liveness property do not use symmetry. Deadlock is checked except where every job may
have ended (`media_jobs`); the states in which Werk has stopped or exited stutter
explicitly.

The state-store faults are chosen once per behaviour, at `Init`, because each
combination makes a different promise (section 7).

**Fairness** (`process_lifecycle` and `media_jobs`). In the lifecycle, weak fairness of
each owner's own steps and of each step of `shutdown_children`. The steps are those of OS threads that can
run; what must end besides is a preparation, which polls `cancelled` and otherwise
does a finite amount of work, and a leader that was sent SIGKILL (`LeaderDies`), which
the system ends. No fairness is assumed of the ends of descendants, as nothing waits for
them, nor of a worker's own exit, of users (nobody has to drop a runtime) or of signals. For the
jobs, weak fairness of each worker's steps (a spawned task is polled and a backend call
returns or fails) and of the restart of a server that died; none of cancellations,
crashes or direct requests. `JobsEnd` excepts jobs an access to the store failed for:
their records stay as they are until the next start, which only a crash brings here.

## 5. What is proved

`RuntimeCacheProofs`, for all sets of keys, threads, monitors and generations and
every set of policies:

- `TypeCorrect`: `TypeOK`.
- `LoadsAreSingleFlight`: `SingleFlight`.
- `PinsAreAccounted`: `PinsAccounted`.
- `PreloadedRuntimesStay`: `PreloadedStaysResident`.
- `EntriesWithinCapacity`: `OrdinaryWithinCapacity`.
- `ActiveInstancesAreShared`, `OneInstanceForEachKey`, `ResidentIsBounded`:
  `ActiveInstanceStaysShared`, `OneInstancePerKey` and `ResidentBounded`, of policies
  under which failed requests discard nothing (with discards the second is false,
  section 6).
- `RefusalsAreJustified`: `RefusedOnlyWhenTaken`, of policies under which no loader
  panics (where one does it is false, section 6 again).

None of these is inductive alone. `IInv` adds who may hold what at each place of a
thread (`PlacesOK`), that only the boot thread acts before serving (`StagesOK`),
that every holder of a slot holds the registered one (`SlotsOK`), that an instance
sits in one slot made for its key (`InstancesOK`), that a slot being loaded is empty
and has one loader (`LoadersOK`), and what captures refer to (`CapturesOK`). The key
step is that the purge and the eviction only unregister slots without a holder:
then a newly published slot cannot make any holder's slot stale
(`RepublishKeepsSlots`), and with that two loads of one key contend for the same mutex.

The bounds and the refusals need three further invariants, each inductive with `IInv`.
`CapacityOK`: the registry is finite and the entries that capacity counts are within it; a
preload that is rolled back turns its entry into a counted one, which is harmless because
until then at most one entry, still empty, is not preloaded (`StartupOK`). `ResidenceOK`: a
working instance sits in a slot, one that is used or sampled sits where its key is
registered, and the threads between an eviction and its drop are finitely many, so that
counting slots and those threads counts runtimes. `RefusalOK`: the deque's order is a
strict linear order of the registered keys (`OrderOK`), so that entries that may go have
an oldest (`OldestExists`) and a lookup refuses only when there is none; and a slot is
poisoned only by a panic (`PoisonOK`).

`ProcessLifecycleProofs`, for any number of runtimes: `TypeCorrect`,
`NoWorkerOutlivesWerk`, `CleanupsFollowWorkers`, `CleanupsAreFinal`,
`GpusAreExclusive`, one for each invariant of the run. What they say of a worker is
what `terminate` ensures: its leader is reaped, and every descendant that was left has
been sent SIGKILL (`Stopped`). `IInv` relates the
place of the owner and the probe to the state of the processes (`OwnersOK`), the
progress of `shutdown_children` to every runtime that still has an owner
(`ShutdownOK`: whoever is not on its list any more has been killed or reaped, and
nobody joins once `stopping` is set), and the cleanup's token to what a preparation
may still retain (`CleanupsOK`). `LedgerOK` says that reserved GPUs are disjoint; a
worker whose reservation was given back has been stopped, so two that run would both
hold theirs.

`StateStoreProofs`, for every set of states, sizes and quota and any number of
processes: `TypeCorrect` under every combination of faults, and, for every
combination without power loss and for power loss alone, `PinsOutliveJournals`
(`CondemnedUnpinned`) and `CommittedStatesSurvive` (`OwedSurvives`). `IInv` speaks of
the *versions* of an entry, what a crash may leave of it: the one in the namespace
and, where power may be lost, the synchronized one. It says how far the two differ
at each place of an operation (`SyncedOK`), that calls are carried out only where
neither holds a journal (`ReconciledOK`), that no journal in any version names a
state pinned in any version (`JournalsOK`), that a published state is no victim
of its own commit (`PublishedOK`) and that nothing owed is about to be removed
(`OwedOK`). A crash then leaves of every state one of its versions or a part of it
(`CrashKeeps`), which has no more pins and names no more victims.

`RecoveryFindsRoom` (`Recoverable`) and `CatalogImplemented` (`ImplementsCatalog`, the
refinement) hold for the same combinations where, besides, an interrupted offline prune is
considered alone; combined with kills it is the fourth finding. Their invariant `RInv`
says of the namespace, and of what is synchronized of it, that it is `Within` bounds: at
most one newcomer awaits its evictions, and the others alone, or all but what its journal
names, keep the quota. Whatever part of such a namespace is lost, the rest is within
bounds again (`ReducedIsWithin`), because a newcomer that is lost leaves the states that
it came to; the exception, a newcomer that loses its journal only, needs a removal of it
that is cut short, and only the offline command removes one (`OwnersOK`). `RoomOK` carries
the plan of a commit from staging to the rename, `EvictionsOK` says that a journal is
cleared only when nothing is left of what it names. For the refinement each step of the
store is one of four things: nothing the catalog sees, a loss without the newcomer
(`Remove`), the loss of the newcomer (`Return`), or its appearance where power loss would
find it (`Commit`): the rename, or, where power may be lost, the sync after it or the
power loss itself.

`RuntimeRoutingProofs`, for every set of models, adapters, workers and states and all
bounds, whatever the number of permits: `TypeCorrect`, `CountsExact`
(`RouteCountExact`), `StatesRouted` (`StatesReachTheirAdapter`), `RoutesAreUnique`
(`OneRoutePerModel`) and `ReservationsHonoured` (`ReservationHonoured`, which speaks of
one permit). `IInv` adds what an operation has in hand at each place (`ShapeOK`: a
reservation exactly between reserving and commit), that a reserved instance stays routed to the operation's adapter
(`LinkOK`), and that no two operations create the same state or release one another
works on (`Exclusive`); without them a drop or a commit elsewhere could not be matched
with the count it takes back. A step then adds or removes one element of the sets that
are counted.

`TablesOK` says that the models of a table are distinct and the table is bounded: removing
a route, dropping the least recent one and appending a model that has none keep both
(`RemoveKeeps`, `WithoutKeeps`, `AppendKeeps`, `PushKeeps`). `PermitOK` says that with one
permit one worker at most is creating a state, and that routed instances and reserved
places together stay within the bound, so that a commit that has to move to another
instance finds the place it gave up.

`MemoryManagerProofs`, for every budget, size and telemetry: `MemoryTypes` (`TypeOK`),
`AccountsAddUp` (`AccountsExact`), `GrantsBelowHard` (`GrantsStayBelowHard`),
`ReliefSuffices` (`ReliefAdmits`) and `ClaimsValid` (`ClaimsStayValid`). The inductive
invariant `MInv` adds to `IInv` (no id is a load under way and an allocation at once, so
that no commit of a load replaces a claimed allocation):

- `TInv`: types, and that a demotion is planned or claimed only from the GPU to the host;
- `AInv`: the accounts as sums over finite sets of loads, allocations and claims, from
  which follows that nothing given back is ever cut off at zero by `saturating_sub`;
- `GInv`: what was granted, as the linear comparison `10000 * granted < 8500 * budget`,
  which `BelowHard` derives from the code's utilization in basis points, rounded down;
- `Seen`: what telemetry reports never exceeds the device's total;
- `PInv`: `10000 * (used + load) <= 8499 * budget + 10000 * relief`, where the relief
  is that of the plan and of the claims under way, and every action of the plan frees
  the tier of the load. The planner's greedy choice keeps it at each selected action.

`FoldLaws` has the laws these proofs need: of `MapThenFoldSet` over any finite set its
unfolding, what every step keeps, independence of the order, agreement, and the laws of
sums. The operators folded are parameters of the module, so that each instance states
the laws for its own; induction over a finite set is the search for a smallest
counterexample among its subsets, which are well-founded by inclusion.

`MediaJobsProofs`, for any number of jobs, direct requests, crashes and faults:
`TypeCorrect`, `CancelledDiscarded` (`CancelledResultsDiscarded`) and `TerminalForGood`
(`TerminalStays`). `IInv` (`JobInv`) relates the history variables to the place of the
worker: a worker that failed has a complete result only if its execution got past it, and
one that looked and went on has not seen a job cancelled in time. A sweep, wherever it
fails, completes no result (`SweptDirectories`). `CancelledResultsDiscarded` speaks of the
jobs to which no error left their result; section 6 lists what is left out.

`RuntimeControlProofs`, for every set of names, tokens and backend states and both
limits: `TypeCorrect`, `LeasesStayLive` (`LeasesLive`), `NothingIsLeaked`
(`NothingLeaks`), `FailedCleanupStops` (`NoWorkAfterFailedCleanup`),
`ReservationsAreHeld` (`ReservationsHeld`) and `NamesAreKept` (`NamedStatesAreKept`).
`LeasesLive` alone is not inductive: a step that drops a lease says what it frees by
who else owns it. `IInv` therefore states the whole correspondence (`Ledger`): a
backend state is leased exactly while some name, handoff, listing, batch or operation
owns it, raw exactly while it is in the operation's hands, and charged exactly while it
is leased and no export. The rest is what makes the releases of one owner harmless to
the others: what an operation of each kind holds at each place (`OpShape`), that the
name it works under stays until it acts (`WorkShape`), that no backend state has two
names and nothing being pruned has one (`NameShape`), that an export is nobody else's
(`ExportShape`), that a reservation is the operation's (`TokenShape`), and where a
failed cleanup has been looked for before a state is created (`TaintShape`). The limit
on handoffs needs in addition that the places in use are finitely many (`Bound`): every
step frees places, takes one below the limit, or moves one. `NamesAreKept` needs
`OnDisk`: from the commit of a demotion to the release of the state, its copy stays on
disk, which no other operation can undo because the gate is held.

The theorems use only the assumptions stated in the modules: that special values
(`NoKey`, `Boot`, ...) are not members of the sets they complement, that
generations, `MaxPreloads`, `MaxHandoffs`, sizes and budgets are natural numbers, and the
shape of a policy.

Every invariant and action property of the passing runs is stated by a theorem. Only
model-checked are the liveness properties `JobsEnd` and `ShutdownCompletes`, as liveness is
out of the prover's reach. The counterexamples of section 6 show why the hypotheses on
discards, on panics and on the interrupted offline prune are there, and section 7 why the
one on power loss is.

## 6. Where the code and its comments disagree

1. `runtime_cache_discard`: a failed text-analysis request empties the registry
   (`text_analysis_candle.rs:194`) while others use its instances; the next request
   loads the same weights again, which the cache's own eviction never does
   ("Never evict either or duplicate active weights", `runtime_cache.rs:217-218`).
2. `runtime_cache_panic`: a loader's panic poisons the slot; purge and eviction need
   `try_lock` and pass it by, so the empty slot takes capacity for good, against
   "must not consume the capacity forever" (`runtime_cache.rs:196-197`).
3. `process_groups`: `kill_group` signals a group whose leader was reaped before; the
   id need not be "the group created in spawn" (`llama_process_lifecycle.rs:156`).
4. `state_store_offline`: an interrupted `cache_prune` can remove a journal and
   leave its overage; with one more crash the namespace exceeds the scan budget that
   "a crash may leave exactly one newly published state" (`store.rs:1406-1407`)
   justifies, and every later operation fails.

Met while modelling, described here without a run of their own:

- **Results that stay.** "A later result is discarded" (`docs/api.md:1008-1011`) holds
  for a job cancelled before its worker looks, as `CancelledResultsDiscarded` says,
  where nothing fails. The complete result stays under a cancelled job when the
  cancellation falls between the look and `Completed` (`inference_service/jobs.rs:266-285`);
  when the removal after the look fails, whose error is ignored (`jobs.rs:271-273`);
  when the execution fails after its result is complete, in the sweep after
  `metadata.json` or in the second write of it (`service.rs:451-456`): the sweep ends
  with the first entry it cannot remove, which another sweep may have removed or a run
  may be writing; when the record cannot be read at the look; and when the process ends
  before it. Retention then takes the result in its turn.
- **Sweeps meet writers.** Retention takes any directory below the output root, also one
  a run still writes into (`output.rs:97-151`), whole or, if the removal fails, in part. The run fails when it collects its
  files, or, if the sweep comes after that, recreates the directory with nothing but
  `metadata.json` and reports success.
- **Recovery gives up early.** `recover_interrupted` stops at the first record it cannot
  write (`jobs.rs:179-195`); the jobs after it stay open until another start. It would
  also fail the running jobs of a second server on the same home.
- **The persisted flag.** A live state is exported and committed, then the export's
  cleanup latches the plane: the copy is on disk, the flag is not set, and a later
  evict reports success and leaves the copy. The other way round, the quota removes the
  copy of a state whose flag is set, and a prefill in mode `disk` succeeds by reusing it
  with nothing on disk. An invalid persisted entry is skipped by `find_volatile_reuse`,
  its copy restored, and `insert_volatile` then answers with a conflict.
- **Relief and listing.** A listing that clones a state pressure relief has picked makes
  the load fail with an internal error (`local.rs:1375-1392`) though memory was to be had.
- **Orphans of unknown size.** `docs/reference/werk-protocol-v1.md:328-329` says that they
  "add zero rather than an estimate"; `record_orphaned_release` adds the whole budget of
  the tier (`memory.rs:856-861`), as its own comment says.

## 7. Assumptions and limits

- **Cache.** Dropping the last reference to a runtime ends its worker in the same
  step; how that end proceeds is `ProcessLifecycle`. A `remove_if` predicate is one of the uses in the code. A monitor whose snapshot is
  dropped may take another. Preloads run before serving (`cli.rs`), on one thread.
- **Lifecycle.** The owner with the most state, llama-server, is modelled; vLLM, oMLX
  and the Python workers use a subset of the same steps. SIGKILL reaches every
  process of a group and the system ends them in its own time; `terminate` waits for the
  leader only, and no property says that a descendant is gone
  (`docs/concepts/runtime-persistence-and-memory.md:629-630` promises no more). When a
  reservation is given back, descendants that were sent SIGKILL may still hold memory;
  `acquire` compares the measured free memory, so a worker that does not fit beside them
  is refused. Where a group id is reused is followed only where the next thing done to
  it may be a signal. The GPUs of a deployment do not change; host budgets and free
  memory are a refusal at any time. What a worker did with resources elsewhere is out of
  scope. The port reservation at startup is not modelled.
- **Store.** One principal: namespaces share nothing but the lock and the limits
  that are per namespace. I/O failures are those of removals and of writing the
  staging entry. Quarantine is removal from the namespace. The limit on the
  number of directory entries read (+64) is not modelled.
  A file system may reorder directory updates that are not synchronized.
- **Faults of the store that are not combined.** With kills and power loss in one
  behaviour `OwedSurvives` fails on such a file system: recovery carries out the
  journal of a newcomer that a killed process published and did not synchronize, and
  power loss may then keep the removals and lose the newcomer. With I/O failures and
  power loss the refinement fails: removals of a failed prune and a later publish,
  both unsynchronized, may come apart. Both histories need two faults within the
  window before the next sync; they are noted as hazards and not claimed as errors.
- **Routing.** `Permits` is 1 in the run because the control plane's gate admits one
  mutating operation; with more, a commit that must move to another instance may find
  the places taken and reject its state, which the theorems about counts cover. Process
  identities are not reused. A route holds no more of a request than its model.
- **Memory.** Two tiers; telemetry is any of the samples at any moment. Counters and
  snapshots are left out; `reserve_promotion` is reached from tests only.
- **Runtime control.** One principal; pins, recency, tiers (a prune selects
  any states, among the live ones and again among those on disk), capability checks, dry runs,
  status and expert actions are left out, as is what other processes do to the store.
  Failures of `commit` on a memory permit cannot happen (`ClaimsStayValid`).
- **Jobs.** One server on its home. A sweep, and the second write of
  `metadata.json` after it, are one step, whatever of them fails; what is old or too large is any set of entries.
- **Not modelled yet**: chat sessions, and the operations that
  `PROJECT.json` names in the notes of partly modelled components. **Not to be
  modelled**: computation, parsing, presentation, remote providers and generated or
  vendored code.
