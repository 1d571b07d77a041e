# A formal model of the image-optimization service

TLA+ modules, TLC configurations and TLAPS proofs about the service in this
repository: an image store whose control plane (`apps/api`) ingests originals
into S3 and Postgres, whose workers (`apps/optimizer`, `apps/generator`) render
derivatives, whose CDN (`infra`) serves them by URLs built in `packages/client`
and `packages/core`, and whose scheduled job (`apps/maintenance`) reclaims storage.

## 1. Inventory

| Component | State it keeps | Operations | Correct when |
| --- | --- | --- | --- |
| Registry (`packages/db`) | asset rows (status, currentVersion, deletedAt), version rows (source key, hash, createdAt, supersededAt), derivative rows | create, findById, softDelete, markRejected, markReady, markFailed, addVersion, findByContentHash, reclamation queries | version history is one gapless chain; status follows the transition table; a removed asset stays removed |
| Bucket (`packages/storage`) | objects under `staging/`, `original/`, `master/`, `derived/` | put, copy, putIfAbsent, head, get, list, delete, deletePrefix, presigned post | an original is written once and exists while a row shows it |
| Optimize queue (`packages/queue`, `infra/cdk`) | messages, receive counts, dead letters | enqueue, receive, acknowledge, redeliver | a lost or repeated message changes no result |
| Upload service (`apps/api/.../upload`) | none of its own: each request carries what it read | ingestStream, createUploadTarget + completeUpload, replaceSourceStream | what is acknowledged is durable; a failure leaves nothing half visible |
| Asset service (`apps/api/.../assets`) | none | delete, reprocess, replace, list, edit | delete hides the row before it touches an object |
| Quota (`apps/api/.../auth/api-key.service.ts`) | usedBytes, usedAssets on tenant and key | reserveQuota, releaseQuota | no allowance is exceeded; tenant and keys agree; a reservation is returned at most once |
| Worker callbacks (`apps/api/.../internal`) | none | optimizeContext, completeOptimize, markFailed, recordDerivative | only the current version becomes ready or failed |
| Optimizer (`apps/optimizer`) | none | process one job, redelivered at least once | `ready` means the warm set of the current version exists |
| Generator (`apps/generator`) | none | render one variant on a cache miss | writes each key once; no error it answers is kept for long |
| Maintenance (`apps/maintenance`) | deletions this run | reap, expire, collect orphans, re-enqueue | deletes nothing a live version needs; the cap bounds a run; a lost job is found |
| Maintenance lock (`apps/maintenance/src/cli.ts`) | a lock file | acquire, break when stale, release | runs do not overlap; a killed run does not stop the next |
| Key grammar (`packages/core`) | none | snap, quantize, cap, canonical key, strict parse | one key per rendering; the parser accepts what is written |
| Edge normalizer (`infra/cloudfront`) | none | the same computation at the CDN's edge | edge and core give one request one key |
| Image pipeline (`packages/core/src/pipeline`) | none | spec to library calls, metadata, master threshold | equal specs render alike |
| CDN (`infra/cdk/lib/cdn-stack.ts`) | cache | look up, fail over, keep, invalidate | an error is never pinned |
| Delivery URLs, client library (`apps/api/.../delivery`, `packages/client`) | none | url, srcset, default width, next/image loader | a candidate is as wide as its descriptor says |
| API keys, guards, tenancy (`apps/api/.../auth`, `tenant-scoped-repository.ts`) | key rows | issue, list, verify, revoke; scoped reads and listings | a tenant sees and writes its own only; a revoked key is refused |
| Rate limiter (`apps/api/src/common`) | counters per source and window | count, compare, evict | a source gets at most its budget per window |

Interaction: requests, workers, generator and maintenance share the registry
rows, the bucket and the queue, and nothing else; what viewers see also depends
on the CDN cache in front of the bucket. They take no locks across calls; every
`await` on S3, Postgres or SQS is a point where another actor may run, the call
may fail, its answer may be lost, or the process may die. What is hard here is
therefore: decisions taken on rows read several awaits earlier; writes spread
over three stores with no common transaction; clean-up that runs on error paths;
reclamation that races with the writers; redelivery. `PROJECT.json` lists these
hazards one by one, at the line where each bites.

## 2. Modules

| Module | What it models |
| --- | --- |
| `AssetStatus` | `packages/db/src/status.ts`: the statuses and the transition table |
| `Registry` | asset and version rows and the writes on them, with the transaction of `addVersionInTransaction` |
| `Bucket` | the S3 prefixes: staging objects, originals, masters and derivatives, each with the bytes it holds or was rendered from |
| `JobQueue` | the optimize queue: at least once, unordered, with its redrive policy |
| `Quota` | the usage counters of the tenant and its keys |
| `Ingest` | the control plane's writers over all of the above: the three upload modes, replace, delete and reprocess as concurrent requests |
| `Optimizer` | the optimize workers, call by call, and the control-plane endpoints they report to |
| `Platform` | `Ingest` and `Optimizer` over the same registry, bucket and queue |
| `AssetLife` | abstract specification: what a reader may see of one asset id over time |
| `Maintenance` | the reclamation run over `Platform`: reap, expire, collect, re-enqueue |
| `TransformGrammar` | `packages/core`: parameters to spec, spec to variant name and key, and back |
| `Fields` | objects with optional fields, as the grammar and the edge build them |
| `ConformanceVectors` | the repository's hand-written oracle for the grammar |
| `EdgeNormalizer` | the CloudFront function, translated from its own text |
| `Pipeline` | `packages/core/src/pipeline`: which library calls a spec makes; metadata; master threshold |
| `ClientUrls` | URLs and srcset candidates of the client library and of the API's answers |
| `Delivery` | viewers, edge, CDN cache, bucket and generator beside upload, optimizer and deletion; uses those above from `TransformGrammar` on |
| `RateLimiter` | counters, windows, cap and eviction |
| `ControlPlane` | every API route behind the rate limiter, the guards and the tenant's scope; API keys; listings |
| `MaintenanceLock` | the lock file of `cli.ts`, one system call per step |
| `Host` | `ControlPlane` and `MaintenanceLock` on one clock |
| `MCIngest`, `MCPlatform`, `MCMaintenance`, `MCDelivery`, `MCHost` | constants of the TLC instances |
| `IngestProofs` | typing and safety invariants, inductive, with proof; the refinement of `AssetLife` |
| `PlatformProofs` | the same for `Platform`, with the workers' own invariant |
| `MaintenanceProofs` | a run's deletion cap and its dry mode; types of the composition; which originals a run leaves alone |
| `GrammarProofs` | the functions alone: edge and core agree on every query; every name the core writes reads back as its spec |
| `DeliveryProofs` | what a URL stands for: no derivative is replaced, all viewers get the same terms; what may be stored and kept; the generator understands every path the edge writes, no rendition has two names, a srcset keeps its promise |
| `TenancyProofs` | keys, tenants and listings at the API |
| `HostProofs` | when reclamation runs can overlap; what the rate limiter lets through |
| `CountingLemmas` | induction over numbers and finite sets, places in a finite set, sums: what the other proofs need to count |

### How `Ingest` corresponds to the code

A request is a record in `req`: a program counter and the locals the handler
keeps across awaits (`asset.id`, `asset.currentVersion` as `base`, `stagingKey`,
`apiKeyId`, `head.bytes`, `result.format`, `hash`, the duplicate found, and the
`currentVersion` the promotion transaction read as `seen`). Each label is one
awaited call of `upload.service.ts` or `assets.service.ts`; the comment of
`PROJECT.json`'s `map` gives the lines. What a request holds may be stale, exactly
as in the code.

* `OnError` says where control goes when the awaited call throws: into
  `reject()` (upload.service.ts:232), into the catch that releases the quota
  (321), out of the handler, or on where the code swallows the error.
* `Fail` is a call that failed without effect; `Took` also covers a call that
  took effect and lost its answer; `Crash` is the death of the process.
* A Postgres transaction is two steps, its opening read and its commit, because
  the default isolation is READ COMMITTED. The insert of the version row fails
  when the primary key is already there.
* `ClientPut` is the client's post to a presigned target, at any time while the
  target accepts posts, also while a completion is reading the staged object.
* `completeUpload` heads the staged object twice in the code (199 and 219); the
  model does so once, since nothing happens between the two but reads.

### How `Optimizer` corresponds to the code

A slot of `Workers` is one Lambda invocation working on one message; its record
in `work` keeps the job, the source key of the context it was given, the
original as read, the warm variants still to look at and the one just written.
The labels follow `process()` and `generateWarmSet()`: `Context` (optimizeContext
and the skips), `Get` (read and decode), `PutMaster`, `Render` and `Record` once
per warm variant, then the endpoint `completeOptimize` as the three statements it
is (`Complete`, `Describe`, `ReadyRead` with `ReadyWrite`), or `FailRead` with
`FailWrite` for a source the decoder refuses.

* `transitionStatus` is two steps, the read that is checked against the table and
  the update by id.
* `Abandon` is a retriable error, a time-out or the death of the worker at any
  call: the message stays in the queue. Calls that may fail without effect are
  covered by it, since nothing survives in the worker.
* `Receive` may hand out any message that was not acknowledged, also one another
  worker holds; `acknowledge` may be lost. A message is the version it names, so
  two messages for one version are one member of `jobs`, sent again.
* `exists` and `putIfAbsent` of one variant are merged in `Render`: what is
  written is decided by the conditional put alone. Two workers may still render
  one variant in turn, at any distance.
* A control-plane handler that goes on after its caller's timeout is the step of
  another slot that holds the same job and whose acknowledgement is lost.
* `Corrupt` and `Large` say which contents the decoder refuses and which need a
  master; `described` is the content the metadata columns were computed from, and
  `recorded` the keys that have a derivative row.

Abstractions of these two: contents are model values with a format, a size and a flag saying
whether validation accepts them; SHA-256 is injective; ids are minted fresh; one
tenant; requests carry an API key (an unauthenticated upload would skip the
quota steps); a null limit is a limit no instance reaches; a prefix deletion is one step; CDN
invalidation, logs and metrics are left out, as are the attribute edits
(`updateMetadata`), which touch neither status nor versions; a presigned target
accepts a bounded number of posts instead of a time to live.

### How `Maintenance` corresponds to the code

`maint` is the one run in progress: the job it is in, the rows or objects it
selected and has not dealt with (`todo`), the item in hand, the live versions it
loaded, the deletions it counted. A run is one pass through `runMaintenance`, in
the order of its jobs. Each query selects once; its rows are then acted on one
awaited call at a time, so requests and workers change what was selected.

* `reapPendingUploads`: `StartRun` selects, `ReapStaged` deletes the staged
  object, `ReapRead` and `ReapWrite` are the two statements of `softDelete`.
* `expireSupersededVersions`: `SelectSuperseded`, then `ExpireSource`,
  `ExpireDerived` and `ExpireRows` for one version at a time.
* `collectOrphans`: `LoadLive`, then `List`, `Collect` for each prefix, then
  `ForgetStrays` removes the derivative rows of what was collected.
* `reenqueueStalledOptimizations`: `SelectStalled`, `Reenqueue`.
* Every deletion asks `canDelete` and is counted; a dry run counts without doing.
* A call whose error is swallowed or caught per item goes on (`Slip`); one that is not, or the
  death of the container, ends the run (`AbortRun`). Both draw on `MaxSlips`.

Time. A row is old enough for a query whenever the query likes (any subset of
the candidate rows), so no property rests on the length of a row window. The safety window of
objects is kept: `settled` are the objects last written before it, renewed by
`Pass`, which lets a window go by while nothing is in progress. A platform step that
writes an object makes it young again. `MaxActive` bounds how many requests, jobs
and runs are in progress at once. `basis` and `lost` are history: the versions
current when the live set was loaded, the originals a run destroyed.

### How `Delivery` corresponds to the code

A viewer's record in `view` is one request on its way: edge function, cache
look-up, S3, generator, answer. One action is one request to storage. The pure
functions (`EdgeNormalizer`, `TransformGrammar`) are evaluated once per request,
into `made`.

* `EdgeFunction` is the signature check of the private prefix and the rewrite;
  `Hit`, `Miss`, `Reply` are the CDN: the cache is keyed by the rewritten path,
  S3's 403 for a missing key fails over to the generator, and `reply.terms` says
  how long an answer may be kept.
* `Generate`, `HeadMaster` and `ListOriginal` (issued together, answered in
  either order), `GetSource`, `RenderAndPut`, `Record` are the generator.
  `GenerationFails` is a slow rendering or a storage call that throws, before or after the put took effect;
  everything inside the `try` becomes a 502 that is kept nowhere.
* `Promote`, `ReadOriginal` with `PutMaster`, `Delete` with `DeletePrefix` and
  `InvalidateAsset` are the upload, the optimizer and the deletion as far as
  delivery can notice them. A delete's prefix step may fail and is passed over.
* `ExpireError` and `Evict` age the cache. `Retry` is a viewer who was shown
  404 or 502 and asks again.

Numbers are exact fractions, names are sequences of tokens, hex digits are
numbers: the grammar's arithmetic, elision and order are kept, its characters are not.
`EdgeNormalizer` shares only the tables with `TransformGrammar`, as
`generate.mjs` shares them; its algorithms are its own.

### How `ControlPlane`, `RateLimiter` and `MaintenanceLock` correspond to the code

A caller's record in `call` is one HTTP request. `Arrive` is everything before
the first await: rate limiter, then the guard's header check. `Verify` is the
key look-up with its hash and permission checks. The handlers follow query by
query: `Lookup` in the tenant's scope, then `WriteAsset` by id alone, `Reread`
where the code reads again; `CommitVersion` for the version transaction; `List`
with its cursor; `RevokeRead` and `RevokeWrite`. `statusOf` is the exception
filter. What replace, upload and completion do with bytes and quota is the
subject of `Ingest`, so those routes are reduced to the row they commit.

`RateLimiter` is the table as the sequence a JavaScript Map is, with the age of
each window for its start. `recent` and `forgiven` in `ControlPlane` are history: who was let
through in the last window, and whose window eviction dropped.

In `MaintenanceLock` every system call of `acquireLock` and `releaseLock` is a
step: the exclusive open, the write of the time (the file is empty in between),
the read, the unlink, the retry. `Kill` ends a process anywhere. `LockTick` ages
lock and holders up to one more than `StaleAfter`; beyond that all ages are
alike. `slips` records that a lock was removed that was neither the remover's
own nor stale.

`Host` puts the API process and the scheduled containers on one clock. They
share nothing else, so each traffic mix starts only the part it is about.

## 3. Runs

Deadlock is not an error in these runs: posts, asset ids, versions, arrivals and
viewers are bounded, so an instance really runs out of things to do.

| Run | Instance | Shows |
| --- | --- | --- |
| `ingest_versions` | 1 asset, 2 requests, 2 versions, one valid and one invalid content, all three malware verdicts under the fail-closed policy, 1 fault | `TypeOK`; `CurrentSourceDurable`; `VersionHistory`; `AckedIsDurable`; `ImplementsAssetLife` |
| `ingest_quota` | 2 assets, 2 requests, 2 keys, quotas of two slots and of one slot per key, 1 fault | `QuotaCeiling`; `TenantIsSumOfKeys`; also fires the duplicate path, which needs two assets |
| `double_complete` | 1 asset, 2 requests, no fault | violation of `StatusFollowsTable` |
| `concurrent_replace` | 1 asset, 2 contents, 2 requests, no fault | violation of `OriginalWrittenOnce` |
| `double_release` | 2 assets, 2 requests, no fault | violation of `UsageNotNegative` |
| `optimize` | 1 asset, 1 request at a time of any kind, 2 workers, 2 versions, 1 warm variant, one content that needs a master and one the decoder refuses; a message is handed out once per sending | `PlatformTypeOK`; `ReadyIsEarned`; `InventoryIsReal`; `ImplementsAssetLife` again, now with the workers' writes |
| `redelivery` | the same with 1 worker and each message handed out up to twice, under fairness | `MessagesSettle` |
| `stale_ready` | as `optimize`, with 1 worker | violation of `ReadyIsOptimized` |
| `maintenance` | 1 asset, 2 versions, 1 request, no worker, a cap of 1 deletion and 1 re-enqueue, 1 fault of the request and 1 slip of the run, real and dry, under fairness | `ReclaimTypeOK`; `CapBoundsLoss`; `CommittedSourceKept`; `DryRunChangesNothing`; `StalledIsRequeued` |
| `expire_shared_source` | as `maintenance`, 2 requests, no faults | violation of `CurrentSourceDurable` |
| `delivery` | three sources of different shapes; a sweep of several hundred requests, each by a viewer alone; two viewers contending for a large source with a failure or a deletion | `DeliveryTypeOK`; `EdgeMatchesCore`; `OracleHolds`; `OneKeyPerRendering`; `GeneratorAcceptsEdgeKeys`; `SrcsetKeepsItsPromise`; `FirstViewerSeesSameTerms`; `StoredNeverRewritten`; `ErrorsRecover` |
| `host` | 2 callers, 3 addresses, 2 tenants, 4 keys; 2 containers, 2 kills; five mixes of traffic | `HostTypeOK`; `WithinBudget`; `OwnTenantOnly`; `RevokedIsRefused`; `PagesMissNothing`; `RevocationTimeStands`; `OneRunAtATime`; `ReclamationResumes` |

Bounds. Two requests are every pair of concurrent operations; one fault covers
every single failure, lost answer or crash at every point of either; two
versions are the first promotion and one replacement, hence one supersession;
`MaxPuts` 1 lets a client post once per target, before or between the reads of a
completion. In `optimize` one request suffices to interleave a replacement, a delete
or a second sending of the same job with two workers; faults of the control plane
are left to the ingest runs (`MaxFaults` 0) and the workers die freely. `reprocess` restarts a
receive count, so that both workers can hold one job although a message is handed
out once per sending.

In `maintenance` one request beside the run is every pair of a request's call and
a run's call; two versions are one supersession; a cap of one is reached at once,
so every job is also seen with the cap exhausted; `MaxActive` 2 lets the request
and the run overlap. No worker: without the jobs being processed, a lost enqueue
is found by reclamation or not at all. In `expire_shared_source` two overlapping
replacements need two requests.

In `delivery` the data functions are the question for most requests, so one
viewer at a time suffices: all conformance vectors, groups of equivalent
requests, ties and ends of every ladder, and every URL the client's components,
the loader and the API's own answers produce. The contended scenarios use a
source tall enough to get a master, since only then do two renderings of one key
start from different bytes; one failure or one deletion falls at any point. The
widest PNG stands for a response too large for a function. In `host` the flood has more addresses
than the table tracks and more requests than the budget; listings of a page of
0, 1 and 2 see assets come and go between pages; two kills are one of each
container or one twice.

The proofs below remove the bounds for the properties listed there.

What the invariants say:

* `CurrentSourceDurable`: an asset a reader can see with a version has that
  version's row, and the object its `sourceKey` names is in the bucket.
* `VersionHistory`: the rows of an asset are exactly 1..currentVersion, and every
  row but the last carries its successor's creation time as `supersededAt`.
* `AckedIsDurable` (action property): a request is answered with success only at
  a moment when the asset the answer names is visible and its source durable.
* `ImplementsAssetLife` (refinement): an id is reserved, then shows versions 1,
  2, 3, ... in order, then is gone for good.
* `QuotaCeiling`, `TenantIsSumOfKeys`: no allowance is exceeded; the tenant is
  charged exactly what its keys are charged.

* `ReadyIsEarned`: a visible asset that is `ready` has a version whose whole
  warm set is in the bucket and whose metadata is recorded. Skipped, repeated,
  interrupted and half-done jobs do not grant it.
* `InventoryIsReal`: a derivative row of a visible asset names an object.
* `MessagesSettle` (liveness): a message that was handed out is at last
  acknowledged or dead-lettered, unless a client sends it afresh.

* `CapBoundsLoss`: whatever a run selected by mistake, it destroys at most
  `maxDeletionsPerRun` originals, over all its jobs together.
* `CommittedSourceKept` (action property): no step of a run removes the original
  of a visible asset's current version, unless that version was committed after
  the run loaded the live set. In this instance replacements do not overlap; when they
  do it fails, see `expire_shared_source`.
* `DryRunChangesNothing` (action property): in no job does a dry run write.
* `StalledIsRequeued` (liveness): a version left `stored` is queued again,
  replaced, finished or removed.

* `EdgeMatchesCore`: edge and core map every request to the same variant, or
  refuse it with the same code for the same parameter. `OracleHolds` compares both with the names written
  down by hand.
* `OneKeyPerRendering`: requests whose library calls are the same have the same
  key, spelt-out defaults aside.
* `GeneratorAcceptsEdgeKeys`: the strict parser accepts every derivative path the edge writes,
  and the rendering is put under that very path.
* `SrcsetKeepsItsPromise`: a candidate is looked up at the width its descriptor
  states and, the smallest rung aside, rendered that wide.
* `FirstViewerSeesSameTerms`: the answers of generator, bucket and cache carry
  the same content type and lifetime. `StoredNeverRewritten`: no put replaces a
  derivative, whoever renders second.
* `ErrorsRecover` (liveness): if the version comes to stay, a viewer who keeps
  asking is served; no error is cached for long enough to prevent it.

* `WithinBudget`: unless eviction dropped its window, a source gets at most its
  budget through per window and twice that in any stretch as long as a window.
* `OwnTenantOnly`, `RevokedIsRefused`: rows are written and shown within their
  tenant; past the guard gets only a key that was valid and unrevoked on arrival.
* `RevocationTimeStands` (action property): a request that arrived after a
  revocation does not move its time.
* `PagesMissNothing`: following the cursors shows every asset that stays exactly
  once, whatever comes and goes.
* `OneRunAtATime`: two runs overlap only after one outlived the staleness limit
  or a lock was broken by a slip. `ReclamationResumes` (liveness): kills never stop the
  schedule for good.

Fairness (`WorkerFairness`): a busy worker takes a step or is timed out (weak:
Lambda bounds every invocation); a message is handed out if a worker is free
again and again (strong: workers poll the queue continuously, but each time one
is free another message may be chosen); the redrive policy is applied (weak: SQS
moves a message on the receive that would exceed the count). Nothing is assumed
of clients or of the control plane, and no step is assumed to succeed.
`ReclaimFairness`: the schedule starts a run again and again (strong, since a run
may be in progress), a run in progress goes on (weak), and a row that stays
stalled is in the end among those the query selects (strong: rows age, and the query takes the
oldest first). `Delivery`: a request under way is answered and a viewer shown an
error asks again (weak), and a cached error's minute ends (weak); nothing is
assumed of uploads, deletions or the optimizer. `Host`: time passes, the
scheduler launches containers, and a container that is not killed makes its next
call (all weak); the number of kills is bounded.

### Where the code and its documentation disagree

* `StatusFollowsTable`. Two overlapping completions of one upload: the first
  promotes and cleans the staged object; the second finds it gone, calls
  `reject()`, and `markRejected` sets `rejected` and `deletedAt` on the stored
  asset without consulting the table (tenant-scoped-repository.ts:198). The audit
  (docs/production-readiness-audit.md:140) expects a primary-key failure and a
  quota release instead. The abstract life of the asset still holds: it goes
  from live to gone.
* `OriginalWrittenOnce`. The key of an original contains the `currentVersion`
  read on arrival (upload.service.ts:297); two overlapping replacements copy
  different bytes to one key, which schema.prisma:115 calls immutable and
  written exactly once.
* `UsageNotNegative`. The duplicate branch releases the reservation
  (upload.service.ts:289) inside the `try` whose `catch` releases it again (323)
  when the reads or the write after it throw.
* `ReadyIsOptimized`. `completeOptimize` checks the version
  (internal.service.ts:120), then writes the metadata (126), then the status
  (127), and `transitionStatus` does not look at the version. A replacement that
  commits in between leaves the new version `ready` with nothing rendered, until
  its own job runs. The comment at 111 says the two writes are atomic, and
  optimizer.ts:149 that `ready` means the warm set exists.
* `CurrentSourceDurable` under maintenance. The two rows that overlapping
  replacements leave share one source key. Expiry deletes the key of the
  superseded row without asking whether the current one has it too
  (maintenance.ts:226), although asset-repository.ts:511-514 says the current
  version's source is never deleted by this path.

Found while modelling, described here without a run of their own:

* The lock file is empty between `open` and `write` (cli.ts:35-38), and an empty
  file reads as infinitely old (61): of two containers starting in the same second
  both can win, which cli.ts:28-29 excludes. Two breakers of one stale lock can
  both win as well (63), and a run whose lock was broken removes its successor's
  (82-88). These are the slips of `OneRunAtATime`.
* Two overlapping revocations both read an unrevoked row, and the second moves
  the time (api-key.service.ts:82-84 promises the original time also for a duplicated
  step; 89-94 keeps it only for revocations one after the other).
* A listing with `limit=0` and rows to list takes the cursor from an empty page
  and answers 500 (tenant-scoped-repository.ts:91, 112); negative and
  non-numeric limits are not checked either (assets.controller.ts:156).
* An illegal transition is no API error to the exception filter, so a
  replacement or completion that races a delete is answered 500
  (exception.filter.ts:49-78, asset-repository.ts:117).
* A master is bounded by its longest edge. A tall source's master can be narrower
  than candidates its srcset offers, so the rendering depends on whether the
  master was there yet, although generator.ts:157-160 calls the bytes of one key identical.
  `StoredNeverRewritten` is what then remains.
* A spelt-out default background, an opaque alpha, and PNG qualities 85 and 95
  give other keys for the same rendering (canonical-key.ts:97-98 asks for one).
* A version segment with leading zeros is accepted, and its rendering is put
  under the segment without them: such a path is rendered anew on every miss.
* A deletion whose steps fail, or a rendering or an optimizer's put that comes
  after it, leaves objects that are served until they expire; the
  collector takes them later. Invalidation names `/i/{id}/*`
  (invalidation.service.ts:31), while the cache is keyed by the rewritten path.
* The reaper selects pending uploads and soft-deletes them later, from whatever
  status they have by then: an upload that completes in between is removed from
  sight and its bytes left to the collector, although asset-repository.ts:430-434
  confines the job to uploads without any.
* Client library: `Picture` does not pass `sizes` on (Picture.tsx:53, 75); a
  `dpr` option multiplies every candidate (srcset.ts:146-147); a quality equal to
  the client's own default is elided even if the server's differs (url.ts:95-97);
  a held upload's 202 is reported as plain success (upload.ts:142-151). The edge
  drops `%23` before a colour, the core does not.

Mutants. For every property of a passing run there is a wrong variant of one
definition, marked `wrong:` in the module, that the property catches: a copy
whose failure is passed over, an insert turned into an upsert, an answer built
without reading the row again, a promotion that clears `deletedAt`, a job that
names the version to come, a quota comparison off by one, a reservation that
keeps the tenant's charge when the key refuses, a completion reported before the
warm set, a put that is not awaited, a status update that clears `deletedAt`, a
queue without a redrive policy, a redrive policy off by one; a deletion cap not
consulted or off by one, a live set without stored assets, a dry run that enqueues, a job
for the first version; a tie that snaps the other way at the edge, an alias that
keeps its name, a gravity kept where nothing is cropped, a height that must be
listed, a srcset cut at the source's own width, a put without cache control or
without its condition, a failure kept for a minute and a refusal for a year;
eviction of the expired only, a budget off by one, a look-up outside the scope,
a key whose revocation is not looked at, a revocation that looks at nothing, a cursor that
includes its row, a shared open of the lock, a lock that never goes stale.

## 4. Proofs

`IngestProofs` proves `Spec => []TypeOK` from `TypeInv`: typing, plus the facts
that a row before its insert is at its initial value, and that a request at a
label has defined the fields that label reads. Those two are what typing needs to
be inductive (for instance `TxCommit` writes `hash` into a row, which is a content
only because a request at `txCommit` has one).

Its second part proves, by one inductive invariant `SafetyInv`:

* `VersionHistoryCorrect`, `CurrentSourceDurableCorrect` as invariants,
* `AckedIsDurableCorrect` as an action property,
* `AssetLifeImplemented`, the refinement,
* `QuotaCeilingCorrect`, from the conditional updates alone.
* `TenantIsSumOfKeysCorrect`, since a reservation and a release move both counters
  of one key by the same amount, and a sum in which one term grows by `n` grows by `n`.

`SafetyInv` strengthens the properties by what requests in flight know:

* `OwnSource`: a version row names an original under its own asset's prefix.
  With it, only a delete of the same asset can remove its source.
* `CopyInv`: a request between its copy and its commit has its original in the
  bucket, unless the asset is gone. This is why the copy must come first.
* `SeenInv`: what the transaction read is not ahead of the row.
* `AnswerInv`: a request past its commit, or past finding a duplicate, names an
  asset that has a version, so a successful read of it means a servable asset.
* a request about to remove objects has already hidden its asset.

`PlatformProofs` composes: `PlatformInv` is `TypeInv`, `SafetyInv`, the two worker
properties and what a worker in flight knows (`WorkInv`): the version it works on
has a row; the variants it has passed exist unless the asset was removed; once it
reports, none is left to look at; before it writes the status, the metadata is
recorded. A derivative row refers to a version row (`RecordedInv`). Two facts carry
the composition. A step of the control plane only adds rows, hides assets, and
removes derived objects of assets it has hidden (`Kept`), so what workers know
stays true; a worker's step changes of the rows only the status of an existing one
(`SameStatus`), which the control plane's invariant does not mention. Proved of
`PlatformSpec`: `PlatformTypeOK`, `ReadyIsEarned`, `InventoryIsReal`,
`CurrentSourceDurable` and the refinement `ImplementsAssetLife`.

`MaintenanceProofs` proves `CapBoundsLoss` and `DryRunChangesNothing` beside
arbitrary requests and workers. `RunInv`: an original destroyed is counted as a
deletion by the end of its item at the latest, hence `lost` is at most
`deletions` plus one while a version's expiry is under way; an item is begun only below the
cap; and a dry run begins none.

Its second part types the composition (`ReclaimTypeOKCorrect`). Typing the
platform alone is easier than what `PlatformProofs` shows, because there a version
row, once written, stays; here expiry removes rows under the feet of requests and
workers, so `PlatformTyped` may not use that an acknowledged version has a row.
`Trimmed` is all a run does to the platform: it hides rows, and removes the row of
the version in hand.

Its third part is `CommittedSourceKeptCorrect`: `ReclaimSpec /\ []OneWriter =>
CommittedSourceKept`. `OneWriter` says that no two requests upload for one asset
at the same time. The code does not ensure it, so it is a hypothesis and not an
assumption; without it the property is false, which `expire_shared_source` shows. The
`maintenance` run has one request and satisfies it; TLC has also explored two
requests under it. `OneWriterInv` is the argument:

* `BaseInv`: an upload that may still commit has the asset's current version as its
  base, and `KeysNameVersions`: a version row's source is the key that carries its own
  number. Both fail as soon as a second upload commits in between.
* `ExpireInv`: what expiry has selected, and what it has in hand, is superseded, and
  stays so, since versions only grow (`RowsGrow`). Hence expiry removes the
  original of an outdated version, which by `KeysNameVersions` is nobody else's.
* `LiveInv` and `OrphanInv`: a version that was current when the run loaded the live
  set is in that set or has lost its row, and nothing listed for collection belongs to
  a live version. Hence the collector removes no original of a version that was
  committed by then.

`DeliveryProofs` proves `StoredNeverRewritten`, from the conditional put, and
`FirstViewerSeesSameTerms`. For the latter, `TermsInv` says that what is stored,
cached or about to be answered under a path has the terms of the spec the
strict parser reads in that path. It rests on a lemma about the grammar: the
parser accepts a name only if writing the parsed spec gives the name back, so the key a rendering
is put under is parsed to the spec it was rendered from. `DeliveryTypeOK` follows
from `TypesInv`: a rendition is put with the source it was read from, an answer
under way either may be kept or says that it may not, and the optimizer holds an
original only where a master is called for.

It also proves `EdgeMatchesCore`. The state invariant is small (`AskedInv`: whoever is
here asked one of the scenarios' requests); the work is `EdgeAgrees` in `GrammarProofs`,
which is about the functions alone and holds for every query the parsers can be handed (`IsQuery`: non-negative decimals or
text that is none, colours of any number of hex digits) under every Accept
header. Its argument, from the bottom:

* The core clamps to a bound including it, the edge excluding it, so the two go on
  with different fractions of one number (`5/100` and `1/20`, say).
  `CeilingsAgree`, `RoundsAgree` and `NearTransfers` say that rounding and comparing do
  not tell them apart.
* "The least of a set", "the first in order" and "a member no other undercuts" pick
  the same rung or level (`SnapsAgree`, `NearestAgree`). For ratios this needs
  `RatiosApart`: no two listed ratios are within 3% of the same number, so the
  tie-break of the one never meets that of the other.
* The core overlays a record of dimensions, the edge one field at a time
  (`BoxesAgree`), and the names are concatenated in another grouping (`NamesAgree`).
* The checks fail for the same parameters in the same order (`NumberChecks`,
  `EnumChecks`, `FirstFailure`), so the first failure is the same.

Numbers are exact in the model. Floating point could break a tie at a rounding boundary
otherwise, but both programs evaluate the same expression there.

`GeneratorAcceptsEdgeKeys` follows from the same agreement and from `NormalParses`:

* `SpecsNormal`: what parsing an accepted query gives is a `NormalSpec` - a width
  on the ladder, a quantized height, levels of the tables, and no inert field.
* `NormalParses`: the name of a normal spec passes every test of the strict parser,
  and the tokens read back give the spec (`specIn`). The tokens' kinds are distinct and
  each field writes at most one, so the last token of a kind is its only one.
* `EdgePathsParse`: hence a path the edge writes under the derived prefix
  parses, to the spec the query means.
* `RefusalsInv`: the generator's 400 is never given to, nor cached for, a
  derivative's path. It is inductive since an answer reaches the cache under the path
  it was given for.

The second conjunct, that the rendering is put under the path asked for, is `SegmentsRoundTrip`: a version
segment without leading zeros is written as it was read.

`OneKeyPerRendering` is the converse: a rendition determines the name.
`RenderingsApart` recovers a normal spec from the calls made for it. The resize call shows
the box and the fit, the position and the flatten colour the gravity and the background, the
encoder's settings the quality (`EncodingsApart`: no two levels of a format
share a row), blur and sharpen are calls of their own. Fields that show in no call
are ruled out by `isFreeOfInertParameters`, and those that spell a default out
by the property's own exception.

`SrcsetKeepsItsPromise` follows the width through: `candidateWidths` yields rungs that fit
the source, or the smallest (`CandidateWidths`); the URL asks for that width and no
density (`QueriesCarryTheWidth`); a rung asked for at density one is the width
of the spec (`RungsServed`, `WidthOfSpec`); and the version the generator reads in
the path is the one the URL was built for (`PromisedVersion`). The hypothesis,
`CandidatesOfSrcsets`, says that a request counted as a candidate is one: of the client's
`buildSrcset`, with any options but `dpr` and any `widths` of the ladder, or of the
API's `srcset`. `MCDelivery` assumes the same of the run's requests, so
TLC checks that they satisfy it. It leaves out three cases the code does not promise anything for:
a `dpr` option multiplies every candidate (section 3); a caller's width off the ladder
snaps; and the API's own answer for a source narrower than the smallest rung states that
source's width (delivery.service.ts:59-63), which srcset.ts:79-85 gives as the reason
for offering the smallest rung instead.

`TenancyProofs` proves `OwnTenantOnly`, `RevokedIsRefused` and
`RevocationTimeStands`. `TenancyInv` says what a request in flight still knows of
the rows it looked up: they exist and are of its scope when it writes them by
id; and the key that admitted it was valid and not among those revoked as it arrived. It is
inductive because rows are added but never change their tenant.

It also proves `PagesMissNothing`. `PagesInv` says of a listing under way which
pages have shown what: an asset that was there at the start and still is has been
shown on no page while its id is below the cursor, and on exactly one from then on
(pages go from the newest to the oldest). A page is the newest so many of a finite
set, and the last one when the set is no larger. Rows are added or hidden and never
restored, so neither disturbs the pages already seen.

`HostProofs` proves `OneRunAtATime`. `LockInv`: as long as nothing slipped, a
holder whose lock is not yet stale finds its own lock in the file, no older than
itself; so there cannot be two.

It also proves `WithinBudget` and `HostTypeOK`. `LimiterInv` relates the limiter's
counters to the history of what was let through: for a source with a live window,
what the window let through is at most its counter and at most the budget, and what came
before it within a window's length is at most one budget more; for a source
without one, all of it is at most one budget. Time shifts the history by one place
and drops the oldest, and a new window starts only after the old one has aged out,
which is where the factor two comes from.

`CountingLemmas` supplies induction without an operator parameter: a set of natural numbers has
a least member, by the well-foundedness of the subset order on intervals, so a
statement fails at a least number or nowhere (`AllNaturals`), and likewise for finite sets
(`AllFiniteSubsets`). Sums are folds; their lemmas (`SumUpdated`, `SumWith`,
`SumShifted`...) rest on the unique function that solves the sum's equation.

The theorems hold for every number of assets, versions, requests, contents, keys,
posts, workers, redeliveries, faults, viewers, callers, containers and kills,
under the constants' assumptions only (`RegistryAssumption`,
`JobQueueAssumption`, `QuotaAssumption`, `IngestAssumption`,
`OptimizerAssumption`, `MaintenanceAssumption`, `VersionsArePositive`,
`ScenariosSetOut`, `IdsAreNumbers`, `PageIsNat`, `FirstKeysHaveIds`, `RequestsSetOut`,
`LimitsAreNat`, `TracksSomeone`, `StaleAfterIsNat`, `MaxKillsIsNat`, `NoFileIsNoLock`).
They give the constants their types: ids are positive numbers, as the listing's order
needs, the keys are finitely many, as a sum over them needs, the requests of
a traffic mix have the fields of a request, and a viewer's query has values the
parameters' syntax allows (`/^\d+(\.\d+)?$/` for numbers, hex digits for a colour).

Model-checked only:

* `MessagesSettle`, `StalledIsRequeued`, `ErrorsRecover`, `ReclamationResumes`:
  liveness is beyond them.
* `OracleHolds`: it speaks of the oracle's finitely many vectors, which the run
  sweeps all; there is nothing to generalise.

The violated properties are of course not theorems.

## 5. Not modelled

* Configuration: parsed once at start; its values are the constants.
* Metrics and logging: no state depends on them.
* Infrastructure: declarative. Queue redrive, CDN behaviours, error lifetimes
  and origin failover are taken from it into `JobQueue` and `Delivery`;
  header policies, certificates and deployment scripts are left out.
* Pixels, blur-up previews, dominant colours, byte sniffing of uploads:
  the work of a native library, whose verdicts are choices of the model.
* S3's own protocol: multipart calls, retries of the SDK, presigning.
* The browser upload client: its calls are the free choice of requests in
  `Ingest`. Styles and placeholders of the components are layout.
* In `ControlPlane`: the status filter of a listing, key names and quota
  fields, the 413 and 202 answers of a proxied upload. In `Delivery`: the warm
  set the optimizer writes ahead of any request. In `Maintenance`: the storage
  report, which only reads.

What could be added: maintenance with workers in the same instance, which today's bounds keep apart (the
theorems about maintenance do cover any number of workers).
