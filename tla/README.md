# A formal model of the local AI broker

TLA+ modules, TLC configurations and TLAPS proofs about `msk-mind/local-ai-broker`.
Paths below are relative to the repository root.

## The system

The broker (Go, `broker/`) takes tasks from MCP and HTTP clients, runs them on an
execution backend (Slurm, or local processes) and hands the released results back.
Large tasks are split into chunks under a root job. Repository inspection
(`workers/rag-compression`, Python) uses GPU model services that the broker keeps
on Slurm: two warm P40 tiers and V100/A100 tiers that scale from zero. The
processes share no memory; they meet in files of one state directory (job store,
GPU registry, control spool, run directories, audit log).

| Component | State it keeps | Operations | Interacts with | What is hard | What makes it correct |
|---|---|---|---|---|---|
| GPU service registry (`gpuservice/registry.go`, `RegistryPublisher` in `workers/gpu-service/main.py`) | lease records and demands in one JSON file | Reserve, Publish, Renew, AttachJob, UpdateControl, Delete, demand operations; publish, renew, mark_unhealthy | every broker process, every launcher | two implementations, many writers, leases that lapse while their holder is stalled | retired and lapsed leases stay out of routing; replica limits |
| GPU reconciler (`gpuservice/reconciler.go`, `cmd/common/gpu_services.go`) | snapshots within a pass; nothing across passes | Reconcile, Shutdown | registry, Slurm, control spool | a pass is dozens of separate calls from old snapshots; crash between any two; several broker processes | bindings and outcomes of demands, no forgotten job, right failure category, capacity restored |
| GPU launcher (`workers/gpu-service/main.py`) | its runtime process, the registration token | start, publish, heartbeat, fail, SIGTERM | registry, Slurm | races with the reconciler that retires its record | never serves a record it may not |
| Slurm GPU jobs (`backends/slurm/gpu_service.go`) | job states | submit, status, cancel | reconciler | status errors, refused cancellations, late states | classification of failures |
| Control spool (`gpuservice/control_spool.go`) | request, report and response files | Submit, Import, Sync, Await | request workers, reconciler | no directory lock, responses consumed by deletion, restarts | one answer per request, terminal answers fixed |
| Adaptive synthesis (`gpu_client.py`, `inspection_pipeline.py`, `service_control.py`) | attempts of one inspection | choose next tier, request a service, validate it | control spool | failure categories decide the tier, second tries | tier order; never both A100 tiers; evidence kept when all fail |
| Inspection daemon (`inspect_repo_worker.py`) and local backend (`backends/local/backend.go`) | request spool, `daemon.pid`, run directories | claim, run, write result, release the slot; submit, status, cancel, runtime watchdog | job lifecycle, inspection | files are the only protocol; the daemon dies, a claim is left over, a cancellation reaches the wrong run | no run lost, success means a readable result, every run ends |
| Identity of a repository state (`repository_fingerprint`, `inspection_index.py`) | fingerprint manifest, process cache | fingerprint from `git status` or from remembered file times | Git, chunk cache | long histories of edits, stagings, commits, checkouts | two trees never share an identity |
| Chunk cache (`build_syntax_chunks`, `inspection_index.py`) | working manifest, snapshot, metadata, bundles, listing | restore, reuse, rebuild, write | fingerprint, inspection | four files replaced one after the other; entries of older states trusted | an inspection works on the tree it fingerprinted |
| Semantic index (`RetrievalServiceAdapter` in `gpu-service/main.py`, `gpu_client.py`) | records in memory, status, rows and alias files, vector shard; the client's sync manifest | plan, upload in batches, clone, replace, status, search | embedding runtime, inspections | concurrent requests without a lock; restart between two writes | a ready index is complete, scores belong to their chunks |
| Query caches (`inspection_hotpath.py`, `run_inspection`) | stage and alias files, chunk snapshots, process caches | prefetch, probe, retrieve, rerank, synthesise, write | all of the above | several processes and modes on one key; outages remembered | evidence of the right state, answers with their evidence |
| Job lifecycle (`service/service.go`, `service_job_refresh.go`, `service_runtime.go`) | job records | Get, Cancel, refresh, ingest, release | store, backend | no locks: read, ask the backend, write | terminal states, results released once and only when complete |
| Submission (`service/service_submission.go`) | job records, aliases | SubmitJob, SubmitParallelJobs | store, backend, policy | submit before store, concurrent equal requests | reuse of in-flight and completed work |
| Root orchestration (`service/service_root_orchestration.go`, `service_access.go`) | chunk metadata on child jobs | release, retry, deferred reducer | store, backend, audit | check then act on slots and budgets | active batches and retry budgets bounded, one reducer |
| Job store (`store/file.go`, `memory.go`) | jobs file, cache-index file, in-memory copy | Create, Update, List, cache lookup | every broker process | crash between two files, mtime cache | index agrees with jobs |
| Backends (`backends/slurm/backend.go`, `backends/local/backend.go`) | run directories, processes | SubmitRun, GetRun, CancelRun | schedulers | state mapping, restarts | a run's state never goes back |
| Audit log (`audit/audit.go`) | append-only file | Log, query | service | concurrent appends | budgets are computed from it |
| Policy, auth, schemas, cache keys, transports, text workers, installer | none of their own | pure decisions and conversions | | | not modelled, see below |

## Modules

`GpuRegistry` is the registry file as a component of its own: every operation of
the Go `FileRegistry` and of the Python `RegistryPublisher` is one atomic action
(each is one read-modify-write under `flock`), and `RegistryNext` lets any client
call any of them at any time. Its specification `RegistrySpec` is the contract the
rest is measured against. `records[id]` is the record with that id (`"absent"` if
the file has none), `demands[d]` the demand; ids are numbered in order of creation,
so comparing ids compares `CreatedAt`. `clock` is the wall clock all hosts share;
instants are small numbers. Tokens, endpoints, models and diagnostics are left out:
every caller is one the code authenticates.

`GpuCapacity` is what the registry promises of a tier that scales from zero, without records, leases or
a clock: a semaphore whose numbered permits are taken within a limit and, once back, never out again.
`GpuRegistry` implements it (`CapacityIsKept`): the permits that are out are the live leases of the tier.

`GpuControlPlane` extends it with who calls what when: `mgr[m]` is the reconciler of
broker process `m` with its program counter `pc` and the local variables of a pass
(`now`, the listed records `snap`, the listed demands `todo`, the record or demand in
hand); `launcher[id]` is the launcher process; `jobs[id]` and `cancelling` are Slurm.
Each action is the code between two calls that other processes can see. A call whose
outcome depends on a record that may be gone has both branches: the error aborts the
pass, as `return err` does, and the process loop starts another one. Crash drops the
locals and nothing else. Shutdown works on a snapshot of the whole registry.

| Action | Code |
|---|---|
| ImportDemand, ImportReport | `ControlSpool.Import` before the list is taken |
| ListRecords, ReadClock | `registry.List`, `m.now()` in `Reconcile` |
| Inspect, ClearHealthError | `reconcileRecord`, live records |
| Retire, FailBoundDemands, CancelJob | `retireService` |
| InspectUnhealthy, FailBoundDemands, CancelJob, RecordCancellation, DeleteRecord | `reconcileUnhealthy` |
| ListExcess, RetireExcess | `enforceReplicaLimits` |
| ListPendingDemands, DecideDemand, WriteDemand, EndDemands | `reconcileDemands` |
| ReserveForDemand, ReserveMinimum, SubmitService, AttachService | `launch`, from `reconcileDemands` and `maintainMinimums` |
| Prune | `PruneExpiredDemands`, end of the pass |
| StartShutdown .. EndShutdown | `Shutdown` |
| RuntimeUp, Heartbeat, RuntimeExits, LauncherFails | `run` of the launcher |
| JobStarts, JobCancelled, JobExits, JobKilled | Slurm |

Abstractions of note: records are processed in any order where the code sorts them by
tier and creation; the scheduler state kept for display is dropped; a probe of a
serving launcher may fail (`"probe"`), a probe of any other always does; the category
a requester gives with its demand is `"none"`; running out of model ids behaves like a
refused submission; the re-read of a demand after it was written `ready` is left out.

For a component `M`, `MProofs` holds its theorems and their proofs, and `MCM` gives its constants
values for TLC.

`ControlSpool` models the directory through which request workers and the reconciler
talk, file by file. `requestFiles` and `responses` are the request and response files there
are, `requester[r]` the worker that waits for request `r`, `broker[b]` the program
counter and locals of a pass, `asked` a history of the demands each request was given
(no action reads it). The registry is that of `GpuRegistry`.

| Action | Code |
|---|---|
| Ask, Poll, TimeOut, RemoveRequest, RemoveResponse, Killed | `request_service` in `workers/rag-compression/service_control.py`, which polls and cleans up after itself |
| StartImport, ImportRequest, Respond, Unspool, EndImport | `ControlSpool.Import` |
| HandleRecord, EndRecords, HandleDemand, LauncherActs | what one reconciler pass and the launchers can do to records and demands, in any order |
| StartSync, ListFiles, InspectResponse, Sweep, Rewrite | `ControlSpool.Sync` |
| EndPass | `PruneExpiredDemands` |
| Crash | the broker process dies between any two of these |

Merged or left out: the read of a request and `RequestDemand`; the clock reading and
`ListDemands` at the head of `Sync`; the pass's own retirement of a record (folded into
marking it unhealthy); failure categories, signatures and malformed files; the Go
`Submit`/`Await` pair, which does what `request_service` does. Failure reports are the
`ImportReport` of `GpuControlPlane`.

`RootDispatch` models the jobs of one root. A request is fanned out into shards, shards
are submitted in chunks as batch slots open, and the reducer is submitted once every chunk
is out. Nothing schedules this: each call that looks at a job of the root runs
`releaseDispatchingRootChildren` on its way, and calls share only the job store. `job[<<k, n>>]`
is the stored record of the n-th job of shard `k` (or of the reducer), `runs` what the backend
accepted, `me[c]` the program counter and local variables of the call session `c` has under
way, among them the listing `snap` it works from. Steps are cut where the code reads or writes
the store or asks the backend. `overlap` is a history: whether two calls were ever under way at
once. Properties of calls that follow one another are stated under `~overlap`.

| Action | Code |
|---|---|
| Status; ListJobs, GetRun, UpdateRefreshed, ListAgain | `GetRootJobStatus`; `loadRootJobsForDispatch`, `refreshRootJobsForDispatch` |
| SubmitChunk, RecordRun | `submitStoredChunk`, `applyStoredSubmission` |
| SubmitReducer, RecordReducer, NothingToSubmit, SubmitFails | end of `releaseDispatchingRootChildren`, `submitStoredReducer` |
| Release, Return | `ReleaseDeferredRootChunks` |
| FanOut, StoreChild, CollectRuns, CheckChildren, DeferReducer, SubmitDirect, CreateJob | `SubmitParallelJobs` |
| Retry, Resubmit, CreateJob, EndRetry, SubmitDirect | `RetryFailedRootShards` |
| Cancel, CancelRun, RecordCancelled | `CancelJob` |
| RunEnds, Crash | the backend; the broker process of a session dies |

Abstractions: queued and running are one state, `"active"`; `"failed"` stands for failed,
preempted and timed out; a cancelled run is over at once; the refresh of the job a call is
about is the one the release does; an alias for a cached or running job has no root and is no
job here. Administrators (no budget) and a fan-out without a reducer are left out.

`WarmRuns` models local inspection runs: `requests` and `claims` are the two names a request
has in the spool, `pidFile` is `daemon.pid`, `daemon[d]` a daemon process with its program
counter, `dir[r]` the files of a run directory, `watchdog[r]` the broker's timer, `job[r]` the
stored job, `me[c]` a call under way. A step ends where a file is read or changed.

| Action | Code |
|---|---|
| ListClaims, Recover, ListRequests, Claim | `recover_warm_requests`, `iter_warm_request_paths`, `process_claimed_warm_request` |
| Begin, Announce, RuntimeLimit, Raise, ReleaseSlot, WriteResult, Complete, Cleanup, Unclaim | `process_warm_request` and `run_staged_job` |
| Submit, Ensure, WritePidFile, Enqueue, WritePid, WriteMarker, CreateJob | `SubmitWarmInspectRepoRun`, `ensureInspectRepoWarmDaemon`, the job record |
| Lookup, Refresh, Ingest | `GetRun`, `refreshJobState`, `maybeIngestJobOutputs` |
| CancelRun, RecordCancelled; WatchdogExpires, WatchdogWrites | cancellation; `startWarmRuntimeWatchdog` |
| DaemonDies, BrokerDies | a process dies of itself |

`GitFingerprint` is a function of a repository that a user changes. `tree`, `stat`, `dstat`,
`index`, `istat`, `log` and `head` are what Git and the file system know; `manifest` and
`process` are what the code remembers. `UserMove` edits, creates, deletes, restores, touches,
stages, commits or checks out; `Fingerprint` is `repository_fingerprint` with its fast paths.
`ChunkIndex` extends it with the builds that use it: `work`, `payload`, `meta`, `listing` and
`bundles` are the files of the cache directory, `build[b]` a build under way, and `seen`,
`built` and `torn` are histories no action reads.

| Action | Code |
|---|---|
| TakeFingerprint | `repository_fingerprint`, at the head of an inspection |
| TakeSnapshot | `load_cached_chunk_snapshot` and what accepts it |
| ReadFiles | discovery, `build_syntax_chunks` up to the first write |
| WriteManifest, WritePayload, WriteMetadata, DropPayload | the writes that end it, in the order of the code |
| Finish, Kill | the result; the process is killed |

`SemanticIndex` has both sides of semantic retrieval: `client[c]` is an inspection with the
request it has under way and, while the service handles that request, the locals of its
handler. `status`, `rows`, `alias` and `shard` are files, `index`, `found`, `vectors` and
`shardMem` the memory of the service, `manifest` is the sync manifest of the inspections.

| Action | Code |
|---|---|
| Begin, CheckStatus, CheckFinalized, WriteManifest | `_semantic_sync_plan`, `ensure_semantic_index`, `_write_semantic_sync_manifest` |
| Open, Embed, Store, Merge | `index_upsert`, with `_embed` and `_write_vector_cache_batch` |
| WriteAlias, CopyStatus; WriteStatus, WriteRows | `_clone_cache`; `_write_cache` |
| SearchRecord, SearchFiles, SearchRebuilt | `search`, from memory, from the files, from the vectors |
| EmbedFails, Kill, Restart | the runtime refuses a call; the inspection, or the service, dies |

`InspectionQuery` is one question asked again and again by processes that share the cache
directory. `stage`, `alias` and `snapshot` are its files, `states` and `repos` the process
caches, `job[p]` the job of a process with its program counter, `up` the retrieval service.

| Action | Code |
|---|---|
| Submit | the job with the fingerprint the broker gives as the content hash of its input |
| Prefetch, Probe | `inspection_hotpath.py`: the cached state, the index, the stage |
| Retrieve, RetrieveNothing | retrieval and reranking in `run_inspection` |
| WriteStage, WriteAlias | `_write_query_stage_cache`, early and final |
| Decide, Synthesise, FailToSynthesise | terminal results, `synthesize_with_escalation` |
| Exit, Kill, Edit, ServiceGoes, ServiceComes | the world around |

The abstractions of each module stand in its header. They meet at three places. The chunks an
index fingerprint stands for in `InspectionQuery` are those `ChunkIndex` yields; that the
service answers or fails there is what `SemanticIndex` looks into; and a job of
`InspectionQuery` is a run of `WarmRuns`, in a daemon or a process of its own.

Operators whose comment begins with "Mutant" are faulty variants of the definition
that follows them. They are used to make sure that each property can be broken.

## Runs

All runs finish; every one of their properties holds. What the code violates is under
*Disagreements*, with the constants that show it.

| Run | What it asks |
|---|---|
| `gpu_scale` | One broker that may die or shut down anywhere and a scale-from-zero tier, with probes, submissions, runtimes and jobs that fail and cancellations that are refused: outcomes are final, an OOM is reported as OOM, no job is forgotten, lapsed leases stay lapsed; every step is a step of `RegistrySpec`, and the leases of the tier are the permits of a semaphore (refinements) |
| `gpu_live` | Liveness of a warm tier with failing status queries, a reported service and a crash: demands settled, retired records removed, orphaned jobs ended, the tier back at its minimum and at its maximum |
| `spool_answers` | One request, two demands, a crash, registry errors, retired services, requesters that are killed: no request lost, answers that are true, no file left for ever |
| `root_alone` | One session that fans out two chunks into one slot, polls, forces a release, retries, and may die in any call; runs that fail; a backend that refuses calls: no run lost, the reducer's dependencies, and that everything goes out in the end |
| `root_race` | One session fans out and cancels while another polls, with refused cancellations: the reducer waits for the last chunk and nothing goes back to the queue |
| `warm_queue` | Two runs in the spool of a daemon that dies, or ends because an inspection raised, and is replaced: no run lost, leftover claims served, every run ends |
| `warm_calls` | Submission, lookups, a cancellation, the runtime watchdog, the worker and a broker crash over one run: success means a readable result, and a written result reaches the job |
| `semantic_solo` | One inspection after another over three states of a repository, with one fault: scores belong to their chunks, retrieval recovers |
| `semantic_pair` | Two inspections at once upload, replace and search two indexes: a ready index is complete, an answer compared every chunk |
| `chunk_edits` | Edits, new files, touches and stagings between inspections that may be killed, a repository small enough for the fast path: two trees never share a fingerprint, an inspection works on the tree it fingerprinted |
| `chunk_history` | A daemon and a larger repository whose files are edited, created, deleted, touched, staged, committed and checked out: what git calls dirty is served as it is, a repeated inspection returns the same chunks |
| `query_cache` | Two processes answer one question in two modes about two states, one of them empty, while services come and go and a process is killed: evidence of the right state, answers with their evidence, evidence kept |

### Bounds

*GPU.* One tier with one replica, one demand, two service ids; leases, demands, startup and
heartbeat timeouts of one tick and a clock that stops at two. A lease can lapse, a heartbeat be
missed and a demand expire in the middle of a pass, and a second service be reserved while the first
lingers. In `gpu_live` the startup timeout is two, so that the younger replica is still starting when
the older comes back, and one of the two, a crash or a report, may happen (`MaxCrashes`). The run
also passes with refused cancellations (`Faults = {"status", "report", "cancel"}`, 336,185 states, too
long for a run of the project): retired records go in the end although `scancel` was refused.
`DemandIsSettled` and `UnhealthyIsRemoved` also hold for a scale-from-zero tier with startup failures and
jobs that run out of memory (`Tiers <- OneScale`, `WarmTiers <- NoTiers`, `StartupTimeout = 1`,
`Faults = {"runtime", "oom"}`, 129,999 states), where a demand waits for Slurm to say why its service
failed; a warm tier has no such wait. `gpu_scale`, without status errors, passes with leases of two and a
clock of three.

*Spool.* Leases of one tick, demands of two, a retention of two and a clock of three: a response
can be written, outlive its demand and be swept within a run. A request joins a demand when it is
imported a second time after a crash.

*Root.* Two shards in two chunks and one slot, two jobs per shard (`MaxAttempts`), two accepted
runs per job (`MaxRuns`), `MaxCommands` releases, retries and cancellations, `MaxCrashes` crashes.
The second chunk has to wait for the first, a chunk can be submitted twice, and a retry can
overtake a deferred chunk.

*Warm runs.* One crash, of a daemon or (in `warm_calls`) of the broker. `warm_queue` has two daemons,
one after the other, and two runs, so that one waits behind the one that brings the daemon down;
`warm_calls` has one daemon, one limited run and two calls.

*Semantic.* States of two documents sent in batches of one, so that a replace has a base, a
reused document, a new one and a second batch. Three states for one client: an edit and a state
with the same documents, which is cloned. FAISS absent: then the rows file has to match the ids;
with `Faiss = TRUE` the safety properties of both runs hold as well.

*Chunks.* Two files, two contents, three builds and four or five moves of the user: a file can be
edited, staged, committed and reverted between two builds, and a third build see what the second
made of it.

*Queries.* Two processes, two jobs, one change of the repository, one fault. With one process, four
jobs and two faults the model has 2.5 million states and passes too.

`CHECK_DEADLOCK FALSE` in every run: each stops when its bounds are used up (clock, jobs, moves,
attempts), and in the root runs a call whose next job or run would exceed its bound cannot go on.

### What the properties leave out

*GPU.* `BoundServiceExists` holds in the configuration of `gpu_scale` and `ReplicaLimit` for warm
tiers without status errors; both are stated in the module and in no run. With status errors
`ReplicaLimit` fails: a health error left by a failed query makes a live warm record unroutable, a
demand goes on to launch another, and if the lease of the first lapses before `Reserve` counts it
and its launcher then renews it, the tier is above its maximum. `LimitIsRestored` shows that the
next passes repair it. For scale-from-zero tiers the limit holds whatever happens (proved).

`NoForgottenJob` says nothing once a broker has died (`crashes = 0`), and without that it does not hold:
if the broker dies between `sbatch` and `AttachJob` and the launcher publishes late, a later pass
retires the record as one without a job to cancel, and the next deletes it. The job then ends only
because its launcher is refused the next renewal, which is `OrphanEnds`.

`OomIsClassified` is about the passes that give a service up (a job that ended, a launch that never
became ready, a lapsed lease, a failed start) and holds for one broker with any timeouts and with
failing status queries (proved); with two brokers it fails. It excepts the demands that
`reconcileDemands` itself fails (position `decided`), because that path does not ask Slurm and says
`service_failure` of every service it finds unusable. Out of memory is lost there when a pass stalls
between its listing and its clock reading (`reconciler.go:173`): it accepts a service it listed as
starting, finds it published with a heartbeat too old for its clock, and fails the demand; if the
job meanwhile ran out of memory, one A100 is tried instead of four (`docs/operations.md:265`). TLC
shows it, with that exception removed, for `StartupTimeout`, `LeaseDuration` and `DemandTTL` 3,
`HeartbeatTimeout` 1 and `MaxClock` 4: it takes a startup timeout longer than the heartbeat timeout
(600 and 45 seconds by default), which the bounds of `gpu_scale` exclude. A startup timeout longer
than the lease has the same effect (with `StartupTimeout` 3 and `LeaseDuration` 1).

*Spool.* A request that joined the demand of an older one loses its response when that demand
expires: `RequestIsNotLost` excepts it. It speaks of one broker only; with two, the `Sync` whose
listing is older removes a response whose demand it does not know yet. It also needs responses
kept no shorter than a worker waits, which the proof made plain: `orphanResponseRetention` is five
minutes (`control_spool.go:25`), as are the default startup timeout and demand TTL, but
`configs/broker/slurm-p40-a100.example.json:34` sets 600 seconds. The response to a failed registry
call names no demand and can then be swept while the worker would still wait for it; a worker
that polls every two seconds has read it long before (TLC shows the loss with `Retention` 1 and
`DemandTTL` 2). `OneDemandPerRequest`,
`CredentialsMatchList` and `AcceptedLeaseIsLive` hold in this run and are listed in the module only.

*Root.* `RunsAreAccountedFor` and `ReducerSeesLatestAttempts` speak of calls that do not overlap, as do
`ThrottleHolds` and `BudgetsHold`, which hold in `root_alone` but in no run's list: slots and budgets
are computed on a listing and nothing is locked. `ReducerWaitsForChunks` excepts a reducer that a
retry submits on request: while chunks are still deferred it goes out without depending on them,
and the documents do not say what it should do. A fan-out that dies or fails before it stores
the deferred reducer leaves a root without one.

*Warm runs.* `RequestIsNotLost` needs one daemon at a time. A broker that dies between starting a
daemon and writing `daemon.pid` lets the next submission start a second one, which takes the
claims of the first for leftovers and executes them again; the first then finds its claim
gone and ends, and on its way out, as after an inspection, it removes the claim that the second may
have taken by then (`warm_queue` with `Faults = {"inspection", "broker"}`).

*Chunks.* The user works between builds only: nothing in the code compares the tree with the
fingerprint afterwards. `IdentityCoversTree` is checked and proved for edits, new files,
touches and stagings; with a restore, a deletion or, in a daemon, a commit it does not hold (below). `ChunksMatchTree` and `RepeatIsStable` except what
follows a build killed between its first and last write, and `Builders` is one: two builds at once
interleave their four files and violate `ChunksMatchTree`. With two build configurations
(`Configs = {1, 2}`) `DirtyIsFresh` fails: a build trusts the entries of a build of another
configuration. It fails after a kill, too, between two writes or before the first one: the fingerprint
of a dirty tree is remembered, the file is restored, the clean status is answered with the
remembered dirty state (`inspection_index.py:7218`) and clean chunks are stored under its
fingerprint, where the dirty tree finds them when it comes back (`chunk_history` with `Small = FALSE`
and `Faults = {"kill"}`). `SemTypeOK`, `QueryTypeOK` and `StatusIsBacked` are proved and are in no run's list.

*Semantic.* The pair run has no fault and two inspections. With three, an answer can be partial without
any fault; with two and a kill as well. With two and a restart, scores are paired with the wrong chunks.
One inspection at a time keeps them apart for one fault, which is the bound of the solo run and of the
theorem. After two restarts it does not: one between two
batches leaves the last batch to write a status of half an index, a later full upload fills it up, and
if the service dies once more between its status and the FAISS file, the new ids are paired with the old
rows, and `AnswerIsWhole` fails as well (`Faiss = TRUE`, `BatchSize = 2`, states of three documents,
`MaxFaults = 2`). With NumPy TLC finds nothing for two faults and a counterexample to `AnswerIsAligned`
for three; `AnswerIsWhole` with NumPy and `StatusIsBacked` do not depend on the number of faults. With two faults the retrieval of one
fingerprint can fail for ever (a partial index that is final in name becomes the base of others).
Two uploads that share a shard lose vectors, and two clients can keep replacing each other's index.

*Queries.* `EscalationFits`, the order of the synthesis tiers, is proved and is in no run's list.
`EvidenceIsOwn` needs edits between jobs (`EditsAnytime = FALSE`): the hint a broker takes
at submission is kept while the job is queued, and by a retried job. The hint is the content hash of the
job's input (`service_submission.go:231`), which the worker finds in its input manifest. It is not the
parameter `_broker_repository_state_fingerprint`, which tests expect to be empty
(`service_test.go:1427`) and no code sets, so the jobs of a broker do use the process cache of
repositories (`inspection_hotpath.py:2984`), which the comment above that line reserves for requests
without a hint. A node-local cache directory, with which that process
cache is not used, is not modelled.

### Disagreements between code and documentation

Each was found by TLC as a violation of the property named, with the configuration of the run named
and the constants given. None is a run of its own.

* `LiveServiceIsAwaited` (`gpu_scale`, `Faults` with `"status"`): a failed status query writes a
  health error on a record that was *listed* as starting, even if its launcher has published it
  since. The same pass then fails the demand bound to it ("bound GPU service is unavailable"),
  although `reconciler.go:488` says only a terminal result may end the wait.
* `BindingIsStable` (`gpu_live`, `Managers = {m1, m2}`, `MaxReplicas <- MCMaxTwo`): `reconciler.go:30` calls the
  manager the single owner of scheduler mutations, but every broker process starts one
  (`docs/quickstart.md:95`: one `broker-mcp` per session). Two of them launch a service each for one
  demand, and the demand moves from one to the other.
* `CredentialIsNotRecreated` (`spool_answers`): the comment at `control_spool.go:318-320` is about not
  recreating a credential file that its consumer has removed. The race remains when a response does
  change: `Sync` reads it, the requester reaches its deadline and removes both files, and `Sync`
  writes it again with credentials. A later pass sweeps it.
* `ActiveBatchesAreLimited` (`root_race`, `Ops <- TwoPollers`): `docs/parallel-execution.md:81` says
  throttling limits how many batches are active at once. Two calls that look at one root at the same
  time both find the slot free and both submit the chunk; the run id of one of the two is
  overwritten, so nobody can cancel that run any more.
* `ReducerCoversRequest` (`root_alone`, `Shards = {s1, s2, s3}`, `Cached = {s3}`, `ChunkOf <- OneCached`,
  `Ops <- OnePoller`): `docs/parallel-execution.md:5` and `service_test.go:1163` have every child of a
  fan-out belong to the root. A shard found in the cache becomes an alias without root id, and a
  deferred reducer, which takes the children listed under the root, does not get it.
* `CancelSparesDaemon` (`warm_queue` with a cancellation, `MaxCancels = 1`): `backend_test.go:446`
  is named for a cancellation that does not kill the daemon. A run that has given its slot back has no
  marker any more and a `local.pid` that names the daemon; `CancelJob` does not look whether the run is
  over, and `backend.go:372` terminates the daemon, which may be executing another job.
* `ChunksMatchTree` (`chunk_edits`, `Moves = {"edit", "stage", "commit"}`): the working manifest is
  trusted for every file that git does not call dirty *now* (`inspection_index.py:5636`). A file
  that was committed with another content since the manifest was written is served as it was,
  although `docs/rag-compression.md:147` has index identity follow the content and
  `docs/architecture.md:160` calls the chunks content-addressed.
* `IdentityCoversTree` (`chunk_edits`, `Moves` with `"delete"` or `"restore"`): a clean status is answered
  with the remembered state of the same `HEAD`, dirty as it may have been
  (`inspection_index.py:7218`), and the fast path of a small repository misses a deletion. In a daemon
  (`Warm = TRUE`, `Small = FALSE`) a `"commit"` is enough: the identity of `HEAD` is kept in the probe cache
  of the process (`inspection_index.py:1255`, used at 6897; `inspection_hotpath.py:2800`) and nothing
  drops it, so that the clean status after an edit, a staging and a commit is answered with an old state.
  `docs/rag-compression.md:38` says that index identity incorporates staged, unstaged and untracked
  content, so that no cache hit hides a change of the working tree.
* `SnapshotIsOwn` (`chunk_edits`): after a build that was killed between the writes of metadata and the
  removal of an outdated snapshot, the snapshot of another state is restored if it happens to have
  the lists the metadata names (`inspection_index.py:5295`).
* `DegradedNeedsOutage` (`query_cache`): a degraded result is cached with its released payload under the
  alias of the repository state, under the GPU signature too if a GPU call failed, and
  `prepare_prefetched_state` (`inspection_hotpath.py:3053`) releases it for every later request of that
  question, with the service healthy and in every mode. `docs/operations.md:100` speaks of the time
  "when GPU retrieval is unavailable", and `docs/rag-compression.md:147` says that retrieval, rerank,
  evidence and output caches are not part of the answer path (line 200 of the same file describes one).

Smaller ones, seen while modelling: `docs/rag-compression.md:127` has the broker report `timed_out`,
but a job reported so becomes `succeeded` when the worker, which cannot be interrupted between
two phases, still writes its result. An exception of one inspection ends the daemon, and environment
variables a job sets stay set for the jobs after it. A crash between the removal of `cancel.request`
and that of the claim executes a cancelled run. A miss is remembered by the process cache of prefetched
states as long as the process lives. An evidence request rewrites the cached entry without the
answer another request had put there.

## Fairness

`FairSpec` assumes: a reconciler pass that can take its next step takes it
(`runGPUServiceControlPlane` loops for ever and every call returns); a cancellation
retried for ever is accepted in the end (strong fairness, since each pass retries);
launcher processes run; Slurm starts queued jobs, ends cancelled ones and reaps exited
ones; time passes. In `ControlSpool` the same holds of the steps of a pass and of time;
requesters may stop at any point. In `RootDispatch` a call goes on until it returns or its
process dies, runs end, a backend asked again and again answers (strong fairness: each call
asks again), and the client keeps polling. The last is an assumption about the client: the
broker does nothing for a root that nobody looks at. In `WarmRuns` daemons and calls take their
steps, timers fire, and each job is asked about again and again (strong fairness of `Lookup`: a
call may keep the only session busy); that, too, is the client's doing. In `SemanticIndex` a
request that was sent is answered and the inspection goes on; `RetrievalRecovers` has the
repeated inspections in its premise. No request and no fault is assumed to happen.

## Proofs

A theorem holds for every value of the constants that satisfies the named assumptions of the
modules (`ConfigAssumption`, `BoundAssumption`, `FaultAssumption`, `SpoolAssumption`,
`DispatchAssumption`, `WarmAssumption`, `QueryAssumption`, `GitAssumption`, `ChunkAssumption`,
`SemanticAssumption`; TLC evaluates each of them in the runs) and the hypotheses of its own that the table gives. None
needs fairness. Each inductive invariant was checked by TLC as an invariant of the
configurations of the runs before it was proved.

| Property | Theorem | Hypotheses |
|---|---|---|
| `RegistryTypeOK`, `LapsedStaysLapsed`, `ScaleZeroReplicaLimit`, `CapacityIsKept`, of any clients of the registry | `RegistryTypeCorrect`, `LapsedLeasesStayLapsed`, `ScaleZeroLimitHolds`, `RegistryKeepsCapacity` | none |
| `ControlTypeOK`, `RegistrySpec` and what follows from it | `ControlTypeCorrect`, `ControlPlaneImplementsRegistry`, `ControlPlaneLapsedStaysLapsed`, `ControlPlaneScaleZeroLimit`, `ControlPlaneKeepsCapacity` | none: any number of brokers that race and die |
| `NoForgottenJob`, `OutcomeIsFinal`, `OomIsClassified` | `NoJobIsForgotten`, `OutcomesAreFinal`, `OomsAreClassified` | one broker |
| `SpoolTypeOK`, `RegistrySpec` | `SpoolTypeCorrect`, `SpoolImplementsRegistry` | none |
| `AnswerIsTrue` | `AnswersAreTrue` | one broker |
| `RequestIsNotLost` of the spool | `RequestsAreNotLost` | one broker, `Retention >= DemandTTL` |
| `RootTypeOK`, `SubmittedOnceIsEnough`, `ReducerWaitsForChunks` | `RootTypeCorrect`, `NothingIsSubmittedAgain`, `ReducersWait` | none: calls overlap and die in any way |
| `RunsAreAccountedFor`, `ReducerSeesLatestAttempts` | `NoRunIsLost`, `ReducerSeesThem` | none; the properties themselves speak of calls that do not overlap |
| `WarmTypeOK`, `SucceededHasResult` | `WarmTypeCorrect`, `SuccessHasResult` | none |
| `RequestIsNotLost` of warm runs | `RequestsAreNotLost` | one session submits, no broker dies |
| `QueryTypeOK`, `AnswerIsEarned`, `EscalationFits` | `QueryTypeCorrect`, `AnswersAreEarned`, `TiersAreTakenInOrder` | none: edits at any time |
| `EvidenceIsOwn`, `UsefulEvidenceIsKept` | `EvidenceIsTheirOwn`, `EvidenceIsKept` | `~EditsAnytime` |
| `ChunkTypeOK` | `ChunkTypeCorrect` | none |
| `DirtyIsFresh`, `RepeatIsStable` | `DirtyFilesAreFresh`, `RepeatsAreStable` | `OneInspection`: one build at a time, of one configuration, not killed, a repository too large for the fast path; any moves |
| `IdentityCoversTree` | `IdentitiesCoverTrees` | `OnlyForward`: files are edited, created, touched and staged; any builds, kills and configurations |
| `SemTypeOK`, `ReadyIsComplete` | `SemanticTypeCorrect`, `ReadyMeansComplete` | none: any inspections at once and any faults |
| `AnswerIsWhole` | `OneInspectionIsWhole` | one inspection at a time, NumPy; any faults |
| `AnswerIsAligned` | `OneInspectionIsAligned` | one inspection at a time, at most one fault; NumPy or FAISS |
| `StatusIsBacked` | `OneInspectionIsBacked` | one inspection at a time; any faults |
| `ChunksMatchTree` | `ChunksAreOfTheTree` | `OnlyForward` and `OneBuilder`: one build at a time, of one configuration, killed or not |

The hypotheses are those under which the property holds: when one is dropped (a second broker, a
second session that submits, edits at any time, a second build or configuration, a kill, a small repository for
`DirtyIsFresh`, a commit or removal for the two about trees, more inspections or faults for those of
semantic retrieval), TLC finds a counterexample in the
configuration of the run; those that say most are described under *What the properties leave out* and
*Disagreements*. Two are proved under more than they are known to need: `RepeatIsStable`, whose proof builds on
that of `DirtyIsFresh`, and `AnswerIsWhole`, which TLC checks with two inspections and no fault
(`semantic_pair`, and with FAISS too) and, with FAISS, for one inspection and one fault.

### The arguments

*Registry.* `LeaseInv` adds to the types that for each live record of a scale-from-zero tier
`lease = absolute <= clock + LeaseDuration`: `LapsedStaysLapsed` is not inductive without it, since a
renewal could lengthen a stored lease that is shorter than the absolute one. `StepKinds` sorts the
steps into reservations, allowed changes of one record, changes of demands and the passing of
time; only `Reserve` adds a live record, and it checks. The same lemma maps each step to
`Acquire`, `Pass` or `Release` of `GpuCapacity`.

*Control plane.* `ControlInv` says what the locals of a pass hold at each position (`Fits`); without it
an action could write a record that is none, and the refinement would fail. Each action is then a
registry operation or leaves the registry alone, and the registry theorems carry over.
`OneBrokerInv` is about jobs nobody needs to remember: a record whose cancellation is recorded, in the
registry, in the listing of the pass or in its hand, has a job that is over or being cancelled, so that
deleting it forgets nothing. A crash ends that, whence `crashes = 0`. `DemandsInv`: a demand the pass has
listed stays open until the pass has answered it, because nobody else settles demands. `OomInv` is about
the reason a pass gives: a demand is bound to a service of its own tier, a record listed as
unhealthy stays so with the same job, and a pass holds `service_failure` only if Slurm ended the job
otherwise, or there is no job to ask about, or no demand waits for the service (`Excused`). A demand never loses its service as excess of a
scale-from-zero tier, since at the instant of the pass such a tier has at most one live record.

*Spool.* `SpoolInv` fits the answer in hand, the instants and the files together. `AnswerInv` follows whose
demand an answer is about: the one given to that request, never a demand of another (`Belongs`,
`asked`), and while the pass syncs, its listing is the registry (`ListedInv`). `KeptInv` finds a request that is
waited for as a request file or as a response; what may be swept is over.

*Root.* `RootInv` says of each call only what no other call can spoil: a listing is old, but all
it names is still stored, and a due reducer stays due. Hence it survives any overlap. `SequentialInv`
(`~overlap` and no crash) adds what a call knows when it is alone: the runs it listed are the stored
ones and each accepted run is stored or held. `LatestInv` needs only `~overlap`: a crash drops the
locals it is about.

*Warm runs.* `WarmInv` keeps the two names of a request apart and ties a completed heartbeat and a succeeded
job to a result file; both are written after it and results are never removed. `OneDaemonInv` says
that a daemon that lives is the one `daemon.pid` names (or the submitting call is about to name), so
that claims found at start are leftovers, and that a request leaves the spool after its outcome.

*Queries.* `QueryInv` is about every place an answer can be copied to: each holds an answer only with the
evidence it was given, so that a copy in any direction keeps it. `OwnInv` does the same for the label
of evidence, with the repository of a job under way being the one it was submitted for.

*Chunk cache.* `ChunkInv` gives the shape of a build at each position and a bundle to each content the
manifest names. `FreshInv` compares what each cache file holds with the fingerprint it is filed
under, for the files that fingerprint calls dirty; between the first and the last write of a build
some of the files are excused. `RepeatInv` relates the cache after an answer to the next inspection
of the same tree: it will find the same fingerprint, and the snapshot, the manifest or an empty listing.

*Identity.* In `IdentityInv` a fingerprint *describes* a tree if each file is as a staged or unstaged
entry of it says, or as the first commit has it; two trees one fingerprint describes are equal. The
difficult steps are those that ask nothing of git: a clean status answered from memory, the
fast path. What is remembered may be of an older tree, so the invariant says what cannot have
happened since: a file that once differed from the first commit never equals it again (`Past`), and
a file whose remembered time is still the present one has not changed (`AuxInv`). A clean status
means the first tree, which then is the only one memory can be about. A commit, a restore or a
deletion breaks exactly this, and with them the property fails. `FitInv` carries it over
to the chunks: manifest, snapshot and metadata are of a past tree their fingerprint describes, a
file no hint names equals the first commit, hence the kept entry. It says nothing once a build was
killed between its first and last write (`torn`).

*Semantic.* `SemInv` says of every list of ids, in memory, in a file, in a batch that waits or in the
hand of a request, that its documents are of its own fingerprint and none occurs twice; a list as long as
the fingerprint has documents then has all of them (`CountDecides`), which is all `index_status`
compares. The other three arguments are for one inspection at a time. `WholeInv` says that a record which
is ready and whole, and is not being written, has a status file that is whole too, that a record is not ready
before its last batch, and that a clone copies the status of a ready base; what is ready when it is
checked is therefore whole when it is searched, in memory or in the files. `BackedInv` finds the
vectors of a batch in the shard, or in what the request is about to write to it, before its documents
join the record. `AlignedInv` has two phases. Until the service is restarted, what has no record has no files
(`FreshInv`) and each record belongs to the upload under way or is `Settled`: ready, whole, its file of
rows missing or the one of its ids (`OrderlyInv`). A restart leaves a set of fingerprints that are
complete on disk, `safe`, and nothing of the others but an alias into that set; since the former are ready
they are never written again, and whatever chain of aliases a search follows for ids and for rows, it ends
in files that agree (`RecoveredReads`).

### What stays with TLC

* Liveness (`gpu_live`, `FilesAreSwept`, `NothingWaitsForEver`, `LeftoverIsServed`, `RunsEnd`, `ResultArrives`,
  `RetrievalRecovers`): fairness and `ENABLED` are beyond the prover.
* `AnswerIsWhole` with two inspections at once and no fault (`semantic_pair`): the invariant would have to say
  which documents each of two uploads that replace each other's records still has to bring. Without
  the bound on their number the property is false.

## Not modelled

* The file store (`store/file.go`): every module takes a stored job as written at once. That the jobs
  file is written before the cache index, and that a process trusts its copy by modification time,
  is a hazard without a property.
* Reuse of equal requests in flight, cache aliases of single jobs and prewarming in
  `service_submission.go`; release of results by policy; the audit log, which nothing but the retry
  budget reads back.
* Cold local runs and the Slurm batch script: runs of `RootDispatch` that end in any way.
* In the inspection worker: the lexical index (SQLite), input without Git, ranking, scoring and
  packing of evidence (functions of one call), and the other tools of `main.py` (logs, patches,
  documents), which share no state.
* `gpuservice/adaptive.go` and the Go `Submit`/`Await` of the control spool, which only tests call.
* Configuration, health probe, capability snapshot, policy, authentication, schemas, cache keys,
  transports, the other workers, installer and deployment: decisions and conversions of one call, or
  no code that keeps state.

## Plan

Every component that keeps state across processes, but for the job store, has a module, and each
safety property of the runs has a theorem, `AnswerIsWhole` for one inspection only.

1. `AnswerIsWhole` for two inspections without faults; `RepeatIsStable` under weaker hypotheses.
2. Models still missing: the job store with its two files, reuse of submissions in flight, the
   lexical index.
