# Formal verification of HusshOne's stateful services

HusshOne is a Next.js application with a fleet of data services around it.
Most of the repository is request/response code over Postgres, user interface,
scrapers and parsers. What has state that several processes, requests or timers
share, must survive crashes, and is not driven through its interleavings by any
test is modelled here:

* the **hotel crawl**: one Cloud SQL table, `zips`, is the work queue of two
  different programs, the Node crawlers of `services/hotel-scraper`
  (`worker.mjs`) and the browser workers of `services/hotel-scraper-windows`
  (`app/worker.py`), which keep each batch in a local SQLite outbox before it
  goes to Cloud SQL; the browser worker's run loop; its historical website
  pass over a second SQLite queue; and the crawler's photo queue
  (`photos-worker.mjs`);
* **Local Discovery** in the Next.js server: the guards of its paid provider
  calls and its search sessions with their event streams;
* **Xtreme Compute Bursts**: the job row, the handler that provisions a cloud
  instance and streams, the recoveries and the Mac's reports;
* the **directories**: the healthcare directory's copy of the NPPES registry
  and the insurance directory's sweep of the states;
* the **preference layer** of a user: the queue of deep scrapes and recomputes in
  Postgres, the scheduled routes that drain it, and the requests that feed it.

TLC checks them on small instances; TLAPS proves the most important safety
properties for every value of the constants.

## Files

| Module | Role |
| --- | --- |
| `ZipTable` | the `zips` rows and every SQL statement on them, as operators |
| `ZipQueue` | the lease protocol: processes, memory, transactions, time |
| `BrowserWorker` | the run loop of `worker.py` over `ZipQueue` |
| `BatchDelivery` | abstract: what the outbox promises for a batch |
| `WebsiteBackfill` | the historical pass of the website enrichment: scan, queue, collectors |
| `PhotoQueue` | the photo workers: claims, budget, requeue |
| `ProviderGuard` | breaker, token bucket, retry, request budget and daily ledger of a paid provider |
| `SearchSession` | discovery searches: registry, fan-out, cache, event streams |
| `SearchFeed` | abstract: what one discovery search promises its listeners |
| `BurstJob` | one burst: its POST, its recoveries, the Mac's reports |
| `ProviderIngest` | the healthcare directory's refresh cycles |
| `StateSweep` | the insurance directory's queue of states, its worker and its manual runs |
| `SocialRefresh` | one user's refresh jobs, media queue, profile and preference layer |
| `ZipQueueProofs`, `BrowserWorkerProofs`, `WebsiteBackfillProofs`, `PhotoQueueProofs`, `BurstJobProofs`, `SocialRefreshProofs` | TLAPS theorems about the module of that name |
| `LocalDiscoveryProofs` | TLAPS theorems about `ProviderGuard`, `SearchSession` and the refinement of `SearchFeed` |
| `ServicesProofs` | TLAPS theorems about `ProviderIngest` and `StateSweep` |
| `MCZipQueue`, `MCBrowserWorker` | instances for TLC (symmetry sets) |
| `MCLocalDiscovery`, `MCServices`, `MCEnrichment` | several modules in one run, one per behaviour |

    BatchDelivery <--implements-- BrowserWorker --EXTENDS--> ZipQueue --EXTENDS--> ZipTable
    SearchFeed    <--implements-- SearchSession
    WebsiteBackfill, PhotoQueue, ProviderGuard, BurstJob, ProviderIngest, StateSweep,
    SocialRefresh: stand alone
    MCLocalDiscovery = ProviderGuard | SearchSession
    MCServices       = ZipQueue | BrowserWorker | BurstJob | ProviderIngest | StateSweep
    MCEnrichment     = WebsiteBackfill | SocialRefresh (three instances)

The last three are not compositions: the parts do not interact in them, and a
variable chosen in the initial state says which part this behaviour is about
(`BrowserWorker`, which extends `ZipQueue`, appears in `MCServices` as an
instance over the queue's variables). Each `.cfg` is one run of section 3. `PROJECT.json`
maps every definition to the lines it translates, lists the hazards and the
findings, and names a mutant of the code for each property that a run checks.

## 1. Inventory

| Component | State | Operations | What makes it correct |
| --- | --- | --- | --- |
| ZIP work queue (`zips`) | `places_status`, `last_error` (a failure text **or** a browser's claim marker), `updated_at`, `last_scraped_at` | claim, requeue, heartbeat, release, done, error, quarantine, retry, load | one owner of a row at a time; a claim whose owner died comes back |
| VM crawler (`worker.mjs`) | the row being enriched | start (requeue once), claim, done, error, stop | a killed crawler's ZIP is not lost; it does not take a live claim |
| Browser worker: leases | `_zip_claims`: marker per ZIP | claim, heartbeat, check before write, release | the check passes for the owner only, however late a thread wakes |
| Browser worker: run loop | held batch, paused/blocked flags, failure counts | scrape, persist, flush, count, park, quarantine; pause, resume, stop | durable work first; a held batch is not forgotten or recorded twice |
| Local outbox (`outbox.py`) | `outbox_batches` with `pending / delivered / quarantined` | enqueue, pending, mark_delivered, mark_quarantined, prune | enqueue is idempotent, terminal states are final, nothing pending is pruned |
| Inventory guard | count and max-id watermark, `_inventory_blocked` | read, merge, compare, checkpoint | a shortfall stops writes and a resume cannot get past it |
| Website enrichment: queue and historical pass | `website_jobs`, `website_backfill_runs` in SQLite; scan and collector tasks | start, pause, scan, checkpoint; enqueue, next_job, defer, save_result, finish, hold | the scan leaves no hotel out, a pass keeps its snapshot, respects the cap and ends; the operator's pause stands |
| Photo queue (`photos-worker.mjs`) | `photos_status`, `photos_fetched_at` per hotel; `photo_spend` per day | requeue, budget check, claim batch, resolve, record, save, mark | one worker per hotel; the overshoot of the budget is bounded; every hotel settles |
| Local Discovery: reliability, spend | breaker, token bucket, daily ledger, per-request budget | canRequest, take, retry, onSuccess, onFailure, canSpend, spend | a trial's failure re-opens, a recovered provider is used, overshoot is bounded, alerts come first |
| Local Discovery: sessions | session objects with their event buffers, the registry, the search cache | register, evict, expire, rebuild, subscribe, start, emit, pump | a client sees every event, in order, once, and the end; one category's failure stays its own |
| Burst jobs | the job row; the instance; `finalizingNow` per server | create, provision, mark, stream, poll, tear down, complete, fail, recover, report | a final status stays final, a settled outcome is what every client is answered, teardown comes before "completed" |
| Healthcare directory (`worker.mjs`, `pipeline.mjs`) | providers, `ingest_runs` | discover, skip, load, upsert, finish | a file that is skipped is in; no provider goes back to an older row |
| Insurance directory (`worker.mjs`, `server.mjs`) | `state_progress` | requeue, claim, run by name, done, error | one collector per state; every state has its turn |
| Social refresh queue (`scan-store.ts`, `api/internal/*`) | `SocialRefreshJob`, `SocialMediaAsset`, `UserPreferenceProfile`, the scan's `preferenceStatus` | enqueue, claim, complete, fail; scrape, index, grow; recompute; analyze; connect, refresh, sweep, poll | one invocation per job; no answer is lost; the profile follows the media; the work ends |
| Run journal, recovery inspection | append-only evidence per run | begin, event, finish, inspect | damage is noticed before a start |
| Hotel merge | hotels by dedup key, place id, CID | resolve, touch, insert | a replay creates no duplicate |
| Schema guard, database access | engine, target, contract | assert | no write on a drifted schema |
| Control API and dashboard | none of its own | start, pause, stop, retry | - |
| Directory fleet | remote processes | start, stop, status | - |
| RIA and social directories | queue tables of their own | as the VM crawler | as the VM crawler |
| NWS market release | release pointer and manifests | publish, load | readers see one complete release |
| RIA, BrokerCheck, insurance APIs; social scrapers; connector; macOS agent; Next.js pages; provisioning | none or read-only | request/response | not modelled |

**Interactions.** The crawlers and browser workers meet only in `zips` (row
locks, `FOR UPDATE SKIP LOCKED`). Browser workers on different machines also
exclude each other with a Postgres advisory lock, held by a connection nobody
looks at again. In one browser worker the loop, the heartbeat task and threads
started with `asyncio.to_thread` share `_zip_claims`; cancelling the loop
does not stop a thread. The outbox is the only state that survives a crash of
the machine's process. Loaders and operators write to `zips` too. Photo workers
meet in `hotels`, which the crawl upserts at the same time. In the Next.js
server every request shares the module-level breaker, bucket, ledger, registry
and cache; handlers interleave at each `await`. A burst's row is written by a
stream, by recoveries on any server instance and by the Mac, none of which
looks at what another has written; only recoveries on one server exclude each
other. The insurance worker and its control API claim from one table. The routes
of the preference layer are called by a Scheduler whether or not the last call
has returned; they, the dashboard's polls and the user's requests meet in the
rows of one user, which each writes by id.

**What is hard.** Lost replies (the transaction committed, the caller saw an
exception), crashes between the Cloud SQL commit and the local
acknowledgement, expiry recovery racing a live owner, threads that outlive a
`stop`, a marker left on a row by another kind of claim, retries that can
never succeed, a budget read before the money is spent, a breaker whose trials
overlap, a stream that attaches to a search that expires under it, a row that
several handlers finalize, a job that is enqueued again while it is worked on, an overwriting upsert whose order is all that keeps
data new. `PROJECT.json` lists each hazard at its line.

## 2. The models and the code

### ZipTable

A row is a record of the four columns that the claims, the ownership check and
the recoveries read. `updated_at` becomes `age`, in ticks, saturated at
`StaleAfter`: the code only asks whether it is more than thirty minutes old.
`last_scraped_at` becomes `refreshDue`. `last_error` is `Null`, the value
`Message` for any failure text, or a `Token`, the marker
`husshone-browser:<uuid>`. Each SQL statement is an operator from rows or
tables to rows or tables.

### ZipQueue

One action is one transaction with what the caller does when it returns.

| State | In the code |
| --- | --- |
| `zips` | the table |
| `vm_up`, `vm_zip`, `vm_failed` | a crawler process, `zipRow` in its loop, whether it is in the `catch` block because `markZipDone` threw |
| `zip_claims` | `ScraperBackgroundWorker._zip_claims` |
| `outbox_claims` | zip code and `claim_token` of the pending outbox batches |
| `holder` | history only: who last put the row in progress |

Actions with a `reply` parameter commit and then either return or raise
(`Replies`): the table has changed and the caller's memory has not. `Fresh(t)`
is `uuid4`: the marker is on no row and known to no machine. Keeping the set
`Token` finite lets a marker come back after everybody has forgotten it; that
adds behaviours and none of them is a fresh uuid colliding with a live one.
Here browser operations come in any order, which covers threads that outlive
the loop; the proofs are about this more liberal system.

### BrowserWorker

`worker[b]` is the run loop's local state: `pc` (where it waits), the held
`_PendingBatch` with the stage of its retries, the outbox entry being flushed,
`_is_paused`, `_inventory_blocked`, `_zip_failures` (saturated at the
threshold 2), and at most one `orphan`, a Cloud SQL call whose loop was
cancelled. `lock` is the advisory lock, `loss` says that the hotel inventory is
below its retained watermark, `recorded` is history. An action is one awaited
call and what the loop does up to its next `await`, e.g. `PersistBatch` is
`_handle_success` up to the enqueue, `CommitResults` is the transaction of
`_save_results`. A call that raises before any effect is `CallFails`; one that
raises after its commit is the `reply = FALSE` case. Interruptions (`pause`,
`stop`, `crash`, a dropped lock connection, an internal error) are switched by
`Interrupts` so that an instance can be kept small.

### BatchDelivery

The promise of the outbox without leases or failures: a batch is persisted
only when nothing older waits, is settled only after Cloud SQL has the
corresponding outcome, and never vanishes. `BrowserWorker` is shown to
implement it with `queue <- outbox_claims`, `recorded <- recorded`.

### WebsiteBackfill

| State | In the code |
| --- | --- |
| `run` | the row of `website_backfill_runs`; `id` 0 when there is none |
| `jobs` | `website_jobs`; a job's id is the hash of pass, hotel and `last_seen` |
| `scan` | `_scan_website_backfill`: `task` is this run's, `orphan` one whose fetch loop was cancelled while it ran in its thread |
| `fetching`, `late` | `_website_fetches`, with the `attempts` each copied; `save_result` calls that outlived their collector |
| `applying` | evidence committed to the hotel, `finish` not called yet |
| `seen`, `incomplete`, `maxId` | the inventory, which other programs write |
| `abandoned` | history only: a stop has left a scan or a `save_result` in its thread |
| `steady` | history only: the hotels that had a blank from the start of the pass on, unless the pass's own job filled it |

A scan is four kinds of step: look at the pass (`ScanBegin`, and `ScanStart`
after the query for the largest id), read a batch behind the cursor it
remembers, enqueue row by row while slots last, store the cursor. Between any
two of them the operator, another scan, the collectors, a crash or another
writer may act. `applied`, `skipped` and a deferred review are one state,
"finished": they differ in statistics only while the worker decides alone
(`WEBSITE_AUTONOMOUS`, the default). A job's `next_attempt` is one bit, `due`.
Which job `next_job` prefers is a free choice, one collector per host is
covered by `Collectors`, and jobs of the normal lane are left out: they only
delay the pass's jobs. The serial branch of `_flush_one_website_job` is dead
while the run loop runs, which sets `_website_pipeline_enabled` first. A
`finish` that a stop abandons in its thread is taken to end before the worker
starts again. The largest hotel id is read in the step that starts the pass: a
hotel inserted in between is later inventory all the same.

### PhotoQueue

| State | In the code |
| --- | --- |
| `photos_status`, `age` | the column, and the time since `photos_fetched_at` in ticks |
| `pc`, `batch`, `current`, `since` | a worker's loop: where it waits, the claimed rows it has not reached, the one it resolves, the age of its claim |
| `media_fetches` | today's row of `photo_spend`, in media fetches |
| `overran` | history: a batch has outlived the thirty minutes after which its claims look crashed |

One action is one database call. `Claim` is both phases of `claimPhotoBatch`;
its preference among rows is a free choice. What a resolution costs is any
number up to `MaxPerHotel`, and 0 stands also for a ledger write that fails,
whose error is swallowed. `photos-worker.mjs` is modelled as systemd starts it,
without `--limit` and `--once`.

### ProviderGuard

An action is the code of `searchPlaces` and `guardedCall` up to the next
`await`: `StartCall` asks the request's budget, the day's ledger, the breaker
and the bucket in that order and sends the request; `FetchOk` is `onSuccess`
and the return; `Bill` is the continuation in `searchPlaces`, one microtask
later, so that other calls may pass the check in between. `breaker`,
`failures` and `cooling` are the `CircuitBreaker`; the code's counter has no
bound and stops mattering at the threshold, where `failures` stays.
`cooling` counts `breakerCooldownMs` down, `tokens` is refilled one a tick.
`NewRequest` gives a request slot to its successor, `NewDay` is UTC midnight,
`Recover` ends an outage for good.

### SearchSession and SearchFeed

| State | In the code |
| --- | --- |
| `session` | the session objects, dropped or not, with `events`, `started`, `done`; `settled` says which adapters have ended |
| `registry` | the module's `Map` of sessions |
| `expired` | objects past `expiresAt` |
| `cache` | the search cache: per category nothing, or how its entry came about |
| `client` | what the closure of an event stream holds: its session object, and the events it has sent |

An object that has left the registry lives on in the closures of its streams
and of its fan-out, which is why sessions are identified by object and not by
id. `Attach` is `subscribe`, `ensureSearchStarted` and the first `pump`: the
fan-out's synchronous part emits while the stream's listener is already there,
and a category the cache can answer is settled before the first `await`.
`GetMissing`/`Rebuild` are the GET that finds no live session, before and after
the location resolves; two streams may both rebuild the same id. `EvictOldest`
may take any session: which one is the oldest depends on other searches.

`SearchFeed` is what the listener of one search is promised: it begins,
settles every category once and then completes, once. `SearchSession` implements
it with each object's phase and statuses read off its event buffer.

### BurstJob

`job` is the row (`handle`: a provider handle is saved; `result`: artifacts
are), `instance` the cloud instance, `post` where the POST handler waits,
`get[g]` a recovery's position with its server and the poll it saw, `report[r]`
a report between its check and its write. `teardownBurst` swallows every error,
so what it could not delete is `"left"`; the property that nothing stays up
asks for the attempt only. Each database call may fail (`Mishap`) where the
code catches it, and an update that throws may have been committed, its reply
lost: `PostMark`, `StreamComplete`, `GetWriteFails` and `ReportLost` have both
outcomes. A POST that fails before its stream opens ends as `"refused"`, all
others as `"gone"`. A stream may be killed (`PostKilled`), its client may go
away. A poll answers what the workload is, or throws, or misreads a deleted
instance as the provider's API does.

### ProviderIngest

The registry is the environment: `Publish` closes a week with the rows that
changed in it and perhaps a new monthly file. `targets` and `loading` are the
worker's position in a cycle, `ingested` the files with an `ok` row in
`ingest_runs`, `providers` the version of each row, and `applied` history.
`UpsertBatch` overwrites whatever a row holds, as `ON CONFLICT DO UPDATE` does;
that no row gets older comes from the order of a cycle only.

### StateSweep

`queue` is the order of `last_run_finished_at` (at first any order: nothing has
finished and SQL breaks the tie), `aged` the states due for a
refresh, `old` the running ones past `staleRunningMinutes`. The worker and the
manual runs are collectors; `RunState` is `POST /run` with a state, which asks
nobody. `Lost` is a process that dies, or a `markStateError` that fails and is
swallowed. `overrun` is history: a run has outlived `staleRunningMinutes`, or an
operator has named a state that was being collected.

### SocialRefresh

| State | In the code |
| --- | --- |
| `job` | the user's rows of `SocialRefreshJob`: one per platform, and one per `publicId` of the recompute (the scan's id, `"latest"`); `kind` and `rung` are what the metadata say (`refresh`, `scanRunId`, `maxPosts`) |
| `sent` | enqueues that a request has decided on, after a look at the queue, and that have not landed |
| `run`, `media` | invocations of social-archive, preference-recompute and media-analyze: the row as it was claimed and what came of it since |
| `archived`, `asset` | platforms with content items; `analysisStatus` of each medium |
| `profile` | the stored profile: fast pass, old or current version; whether its status is completed; its answers; the media it was made from |
| `building` | a dashboard poll between its fast pass and its save |
| `layer`, `fastShown` | `preferenceStatus` of the scan's result, and whether its `preferenceProfile` is a fast pass |
| `overtaken`, `stale`, `lost` | history: the row was written by another since the claim; the profile was saved by another since the read; such a writer has then written |

One action is one function of `scan-store.ts` with what its caller does on the
return. `ScrapeAndIndex`, `KickRecompute` and `FinishArchive` are a scrape that
came back, the recompute it asks for, and the branch that grows, retries or
completes the job; `ReadArchive`, `Synthesize`, `SaveProfile` and
`FinishRecompute` are a recompute. What a scrape brings, what a synthesis
answers and whether an analysis succeeds are free choices. The Scheduler is the
actor that lets an idle invocation claim, so two invocations of a route overlap
at will. A killed invocation leaves its row `processing`, as no code takes such a
row back.

### Abstractions to keep in mind

* The schema guard, the canary, the data-quality audit and the daily Maps cap
  only delay or pause the loop; the model has pauses and failing calls.
* Hotel rows are not modelled. Whether an explicit empty meets historical
  hotels, whether a batch validates and whether it exceeds
  `ZIP_MAX_NEW_HOTELS` are free choices (`Results`).
* The order of claims (distance, age) is a free choice among the rows the
  statement may return.
* Client and database clocks agree. `_claim_next_zip` compares `updated_at`
  with the client's clock, the crawler with the server's.
* Ticks are coarse against statement timeouts: an abandoned call ends before
  time moves on (`TimePasses`).
* A local SQLite call abandoned by a stop is taken to end before the worker
  starts again (it waits for nobody but the ten seconds of a busy database);
  `save_result` and the scan, which may wait longer, are not.
* The outbox's SQLite rows are one set of pending batches, identified by ZIP
  and claim token.
* Photos: a database call takes no time; the fetches between calls do.
* Bursts: BYOC credentials that the environment overrides for a poll in
  another project show as "provisioning" or a throw, which the code treats as
  running; STALE_MS (two hours) is longer than any POST (`maxDuration` is half
  an hour), so `GrowStale` waits for the POST to be over. The row exists from
  `PostCreate` on and its id is known: a create that is committed and throws
  leaves a row that nobody was told of, and a server without the schema, or a
  user without a row, a burst without a job; none of these is modelled and
  `JobSettles` does not speak of them.
* Search sessions: every adapter supports the country, so each category has
  one; parsing, ranking and deduplication are not about the order of events.
* Guards: one provider; the semaphore only delays calls, the entity cache and
  the photo proxy's guard (its own breaker and budget) are left out.
* Ingest: no `--csv` file and no row limit. Sweep: blocked adapters are never
  claimed and left out.
* Preference layer: one user, whose scan has completed and who has given
  consent; a poll of a user who is not enabled (`skipped`), and one whose code
  throws, are left out. `JOBS_PER_RUN` is 1 in both routes. A claim is one step,
  though the metadata are those of the `findMany` before it; which queued job is
  claimed is left open, and so is when a back-off ends.
* The account's handle stands for its platform: the poll does not lower the case
  of the handle and the requests do, which gives one account two rows, and
  `enqueueSocialRefreshJobs` looks for the row before it creates it without a
  unique key, so two first enqueues at once give two as well. The model has one.
* `enqueueSocialRefreshJobs`, `completeSocialRefreshJob` and the other functions
  of `scan-store.ts` swallow every error, writes and reads alike. Of the writes
  the model lets the save of a profile fail; of the reads all those that a
  recompute synthesizes from (`ReadArchive`, `ReadNothing`: the posts, the media
  analyses, the prior profile, the depth), and the poll's read of the profile
  (`PollBuild`), each taken for a user who has nothing (`ReadSwallowed`). A gate
  that cannot read the queue finds nothing pending and lets a request through;
  that is left out, `Connect` being a request without a gate. Skipped media count as failed ones. Keep-best leaves out
  the questions that are never carried forward (sensitive ones, answers past
  the age cap); `Question` holds the others. Evictions never empty an archive.
* Fault counts (`FaultBound`, `RequestBound`, `UpsertBound`, `MishapBound`, `FailureBound`,
  `CrashBound`, `MaxWeek`, `MaxObjects`, `MaxRuns`) bound what the environment
  does in one behaviour.

## 3. Runs

| Run | Instance | Shows |
| --- | --- | --- |
| `BrowserWorkerFaults` | 1 machine, every result, interruption and lost reply | `BWTypeOK`, `LossPauseSticky`, `KeepsDelivery` |
| `BrowserWorkerHandover` | 2 machines, 1 crawler, 4 markers, crashes, lost lock, lost replies | `LeaseExclusive`, `LeaseMeansHolder`, `LiveLeaseKept` |
| `WebsiteBackfillScan` | 1 hotel seen twice, 2 passes, 1 slot; jobs put off, stops, crashes, faults | `ScanCovers`, `AdmissionCap`, `PassComplete`, `SnapshotKept`, `JobsAdvance` |
| `PhotoQueue` | fair; 2 hotels, 2 workers, batches of 2, a budget of 1 fetch, 1 fault, 1 re-opened row | `ClaimsExclusive`, `DayOvershoot`, `PhotosSettle` |
| `LocalDiscovery` | fair; a request of 3 adapters and its successors against 2 tokens and a threshold of 2, or a search of 2 categories with 2 streams and 2 session objects | `DiscoveryTypeOK`; `DailyOvershoot`, `TrialFailureReopens`, `BreakerRecovers`; `StreamFaithful`, `OneOutcomeEach`, `SessionsAreFeeds`, `StreamsComplete` |
| `Services` | fair; the run loop on 1 machine with pauses and crashes; the ZIP queue with 2 browsers that die and a crawler; a burst with 2 recoveries on 2 servers, 2 reports, 1 mishap; 2 providers over 2 weeks; 2 states, the worker and a manual run | `ServicesTypeOK`; `DurableBatchSettled`; `QueueMarkersRecovered`; `CompletedTornDown`, `OrphanExplained`, `NeverReopened`, `OutcomeLasts`, `JobSettles`; `IngestedIsApplied`, `NeverOlder`, `IngestCatchesUp`; `CollectsExclusive`, `SweepTakesTurns` |
| `Enrichment` | fair; a website pass over 2 hotels seen twice, 2 attempts, 1 slot, delays, crashes; or one user with 2 requests: media that arrive and are analyzed, the ladder of 2 rungs and 2 attempts, overlapping recomputes with a poll, a new version, and a killed invocation or a failed call | `PassCompletes`; `JobsExclusive`, `ProfileCoversMedia`, `PivotsNeverDrop`, `WorkSettles` |
| `ZipQueueVmMarker` | violated: `VmClaimPreserved` | finding 1 |
| `ZipQueueVmCrash` | violated: `VmCrashRecovered` | finding 2 |
| `WebsiteBackfillPause` | violated: `UserPauseKept` | finding 3 |
| `BurstOrphan` | violated: `NoOrphan` | finding 4 |
| `SocialFloor` | violated: `FloorReveals` | finding 5 |

`AlertBeforeRefusal`, `FinalizerGuard`, `ZipQueue`'s `TypeOK`, and
`UnmarkedVmClaimPreserved` and `FloorRevealsAnalyzed` of section 4 are proved
(section 5) and no regular run checks them. `KeepsDelivery` is checked on one machine,
with every result and interruption, and proved for any number of them;
`ScanCovers` is checked across two passes and proved for any number of hotels.

**The properties.**

* `LeaseExclusive`: `_lock_owned_zip` never passes for two browser workers on
  one ZIP.
* `LeaseMeansHolder`: if it passes for a worker, no other browser worker has
  claimed the row since; only a crawler may have (finding 1).
* `LiveLeaseKept`: a browser's claim younger than the thirty minutes is ended
  by that browser or by a crawler still on the ZIP. The exception is real:
  `markZipDone` and `markZipError` write by ZIP alone, so a crawler that was
  given up as stale finishes somebody else's row.
* `AbandonedMarkerRecovered` (`QueueMarkersRecovered` in its run): the claim of a dead machine, or one whose reply
  was lost, is taken back, provided loaders stop touching the row.
* `LossPauseSticky`: a run whose guard saw a shortfall does not work again.
* `KeepsDelivery`: the run loop refines `BatchDelivery`.
* `DurableBatchSettled`: from some point on undisturbed, every batch on disk is
  delivered or set aside.
* `ScanCovers`: no hotel that stayed incomplete from the start of the pass on
  is behind the cursor without a job in the pass. What makes it true is that
  the cursor is stored after the jobs and under the pass's id: a scan that
  outlives its pass would otherwise move the cursor of the next one.
* `PassComplete`: when a pass reads as completed, each of them has been
  finished.
* `SnapshotKept`: until then the pass is not replaced and its ceiling stands.
* `AdmissionCap`: at most `MaxPending` jobs of a pass are queued, until a run is
  stopped with a scan or a save in its thread (`abandoned`). After that it does not
  hold: an orphaned scan has counted its slots earlier, and a save that comes late puts
  a job back into the queue.
* `JobsAdvance`: `defer`, `save_result` and `finish` write a job by its id, whatever
  it has become. Until a stop leaves a thread at work no such write takes a job
  back all the same: a finished one stays as it is, fetched evidence is
  not fetched over, no attempt is forgotten. After such a stop the late save may reopen a
  finished job, whose website is then fetched again (`LateSave`).
* `PassCompletes`: from some point on up,
  not paused and without faults, the pass is completed. Checked for
  `Hostless = {}`: with a website that has no host name ("www.inn.com" without
  a scheme) `_fill_website_fetch_pool` passes over the job for ever, and TLC
  finds the pass that never ends.
* `ClaimsExclusive`: as long as no batch has outlived the half hour, no hotel is
  held, and paid for, by two photo workers.
* `DayOvershoot`: the ceiling is read before a batch and spent during it; a day
  exceeds it by one batch of each worker at most.
* `PhotosSettle`: every hotel that waits or whose worker died settles.
* `DailyOvershoot`: the ledger is read before a call and charged after it; it
  exceeds the budget by what all calls together can cost. Stated with the
  calls in flight, so that it is inductive.
* `AlertBeforeRefusal`: if a call costs at most a fifth of the budget, the 80%
  alert comes before the first refusal.
* `TrialFailureReopens`: a breaker that is not closed has its counter at the
  threshold, so one failure re-opens it. It does not say that a trial is
  single: in half_open every caller is admitted until the first outcome, though
  the comment at `reliability.ts:72` speaks of a single trial.
* `BreakerRecovers`: a provider that has recovered is used again for good.
* `StreamFaithful`: a stream has received its session's events without gap,
  duplicate or reordering, however late it attached and whatever became of the
  registry entry; `OneOutcomeEach`: the buffer itself has each occurrence
  once; `SessionsAreFeeds`: each object implements `SearchFeed`;
  `StreamsComplete`: a stream that stays open is told the end.
* `CompletedTornDown`: a completed cloud job's workload has completed and a
  teardown was tried. `OutcomeLasts` is about what a client is answered
  (`Answers`: a failed row gives no result, whatever its column holds): once
  the job has an outcome and no stream, recovery or report is on its way to
  write one (`Settled`), every later request is answered that outcome, until a
  call fails. It needs both second looks: the re-check of a recovery that has
  polled an outcome of its own, and the status check of a report. It does not say
  that the first outcome wins: while writers are under way the last one does,
  and section 4 says where the code's comments promise more. `OrphanExplained`:
  an instance that outlives its job without a teardown is that of a POST that
  failed before its stream opened, with its handle recorded or not, or of a job
  given up as stale; it is the bound of finding 4. `FinalizerGuard`: one recovery at
  a time finalizes on a server, and no way out leaves the job marked.
  `NeverReopened`: a status stays final. `JobSettles`: every job gets one.
* `IngestedIsApplied`: a file that will be skipped has had every row upserted.
  `NeverOlder`: no provider goes back. `CatchesUp` (`IngestCatchesUp`): once
  the registry is quiet the copy is as new as the newest files.
* `CollectsExclusive`: without an overrun no state is collected twice at once.
  `EveryStateHasItsTurn` (`SweepTakesTurns`): however often the others fail.
* `JobsExclusive`: two invocations work on one refresh job only if its row was
  written over since the claim of one of them: re-armed by a request, or settled
  by id by an invocation that had been overtaken itself.
* `ProfileCoversMedia`: once nothing is in flight and no recompute was given up,
  the profile was made from every medium analyzed so far. It excludes killed
  invocations and lost writes (`lost`): a job that is enqueued again while an
  invocation works on it is completed by that invocation, which has read before,
  and the second enqueue is gone until the next one.
* `PivotsNeverDrop`: an answered question stays answered. What makes it true is
  keep-best, over the profile the run has read. A save by a writer who does not
  know the profile does lose answers and is excluded (`lost`): it was saved since
  the read (a poll's fast pass, the other of two overlapping recomputes), or the
  read failed and was taken for no profile, so that keep-best had nothing to
  keep, or the poll built its fast pass over it.
* `WorkSettles`: unless an invocation is killed, no job stays unfinished for ever,
  so that a manual refresh is not refused for good: the ladder that gives a job
  fresh attempts at each rung has a top, and every retry is counted.

**Bounds.** One ZIP is enough for the lease properties because no statement
lets one row's state influence another's except through the choice "pending
before refresh", which is only an order; every conflict is about one row.
Markers: each machine can know at most one marker in memory and
`OutboxBound` on disk, and the row carries one, so 3-5 markers always leave
a fresh one, or stop only branches in which every marker is still in use.
`StaleAfter` is 2 in the queue runs (fresh, ageing, expired) and 1 in the loop
runs. `OutboxBound = 2` in `BrowserWorkerFaults` would let a second batch
in if the loop allowed it: the loop's "durable batches first" is what keeps
it at one, and the mutant `ClaimAhead` breaks it.

`WebsiteBackfillScan`: two passes and one hotel are enough for a scan, a fetch
and a write that outlive their pass and overlap with the next one, with every
action of the module; a hotel seen twice has two jobs in one pass. That a scan is
left with part of a batch needs two hotels: `Enrichment` takes them through one pass that
crashes, with one slot, so that a batch of two is always cut short, and asks that it ends. Two hotels
and two passes together (1.1 million states without delays and sightings; 5.8 million with
two slots) have been checked without an error too, and the theorems of section 5 hold
for any number. At most one orphaned scan, and no more late writes
than collectors, are in flight (`StopWorker`).

`PhotoQueue`: two hotels and two workers are the least with which a batch is
partly done when its other rows come to be requeued; a budget of one fetch is
reached by the first hotel. `LocalDiscovery`: three calls in flight against
two tokens and a threshold of two reach every refusal, a re-opening by an
overlapping call, and an overshoot; the budget of 11 at a cost of 2 makes the
third alert fall after the first refusal. Two streams over one id are the
least that rebuild it twice; two session objects let the id be replaced once
while the first object's stream and fan-out go on. `BurstJob`: two recoveries
on one server and on two, two reports that both pass the check, and one mishap,
which lets a handler's catch follow a committed update. `ProviderIngest`:
two providers in batches of one, so that a file can be half in when a week
closes or the worker dies. `StateSweep`: two states, so that one can fail
for ever while the other waits. `Enrichment`: a recompute that is overtaken or
overtakes needs two invocations of that route and two requests; the part about
media needs one medium that arrives, is analyzed after the recompute read it and
is sent back by a sweep; the ladder needs two rungs and two attempts, since its
danger is attempts that are reset. The three parts of `SocialRefresh` are apart because
their product takes too long; the proofs cover them together.

**Deadlock** is checked in every run: the systems are meant to run for ever.

**Fairness.** `ZipQueue`'s `Fairness`: time passes; browser and crawler loops
poll and succeed from time to time; a crawler is restarted
(`Restart=always` in its systemd unit) and finishes the ZIP it enriches.
`BWFairness`: the loop, the heartbeat task and the `finally` keep running; an
operator starts a stopped worker and resumes a paused one. Nothing forces a
crash, a pause, a lost reply or a scrape outcome, and no property relies on
such an event. `DurableBatchSettled` does not allow `stop`: TLC finds that a
claim abandoned by a stop may stay unanswered across a complete second run, and
its marker is then renewed by that run's heartbeat.
`BackfillFairness`: the fetch loop scans every fifteen seconds and fills free
collectors four times a second, a collector ends by its deadline, the run loop
comes round to fetched evidence, back-off ends. Launching is strongly fair
because a job put off by the daily Maps cap is due again the next day, when the
counter starts anew; which job is launched is left open, so that
no preference of `next_job` is assumed.
`FairPhotoSpec`: systemd restarts a worker, its calls return, time passes; the
periodic requeue is strongly fair because it is a ten-minute timer that the loop
looks at whenever it comes round. `FairGuardSpec`: every fetch is under a
timeout, requests keep coming, the clock runs; after `Recover` no fetch
fails. `FairSessionSpec`: adapters return (their calls are under
timeouts), and nothing is asked of clients. `FairBurstSpec`: handlers run on,
the client keeps asking and the Mac keeps reporting; a stream's
deadline is strongly fair, since the loop reaches its top again and again and
time does not stop; nothing is asked of the workload. `FairIngestSpec` and
`FairSweepSpec`: the workers cycle on under systemd; nothing is asked of manual
runs. `FairSocialSpec`: the Scheduler calls each route again and again, a
function that is not killed runs to its end, what a request has sent arrives;
nothing is asked of users, sweeps or deployments. A climb's short batches are no
exception: they count as attempts. TLC evaluates fairness under a constant selector only as a conjunct of its
own, so the modules with several parts restate each part's fairness with
the selector in front. Liveness runs use no symmetry.

## 4. Findings

Each is a violation run; `PROJECT.json` quotes the line that says otherwise.

1. `VmClaimPreserved`: a crawler's claim keeps `last_error`. A row requeued
   from a browser worker by `requeueStaleInProgress` carries that worker's
   marker into the crawler's claim, and a browser worker's replay or expiry
   recovery then takes it from the crawler. The marker is all it comes from:
   `UnmarkedClaimsAreKept` proves that a crawler's claim on a row without one is
   never taken by a browser worker.
2. `VmCrashRecovered`: `requeueStaleInProgress` runs once, at start, on rows
   older than thirty minutes. A crawler killed and restarted at once never
   looks at its own row again.
3. `UserPauseKept`: a scan looks at the pass, queries Cloud SQL for the largest
   id, then calls `start_backfill`, which resumes a paused pass. An operator
   who starts and pauses, or pauses a completed pass, between the two sees the
   pause undone.
4. `NoOrphan`: if the first phase of a burst's POST fails after the cloud has
   made the instance, its catch fails the row without a teardown. `startBurst` may
   have lost its reply, `markBurstProvisioned` may have failed, or it may have been
   committed and thrown nevertheless: the row then has the handle, but no
   recovery polls a failed row. A job given up as stale, such as one whose stream
   was killed, is failed without a teardown as well. `OrphanExplained` says, and
   `OrphansAreExplained` proves, that these are the only ways.
5. `FloorReveals`: a recompute counts as pending every medium that is not
   analyzed, failed ones included. An account below the show threshold with a
   medium that could not be fetched is "partial" after every recompute and its
   preference layer "running" for ever: the floor that prevents it never comes.
   `FloorHoldsWithoutFailures` proves where the floor does hold: with nothing in
   flight and a current profile, an account is revealed if no medium failed, no
   recompute was given up, no write was lost, and no invocation was killed and no
   call failed before. A failed medium is not the only way out of the floor: a
   recompute that was given up leaves a partial profile behind as well.

More came up that no run states:

* a CAPTCHA leaves the row in progress, renewed by the heartbeat, and not
  pending as the comment at `worker.py:2321` says;
* expired markers are requeued by `_claim_next_zip` only, which does not run
  while an outbox batch waits (`worker.py:946`): the replay of a batch whose
  row carries an expired marker of a dead machine waits for another machine;
* with its lease lost, the loop holds an empty, failed or rejected batch for
  ever, since each write is refused and retried (`worker.py:893`);
* the job ids that a scan repeats after a crash are the same only if the hotel
  was not seen again meanwhile, or else the website is fetched twice, which the
  comment at `worker.py:1668` excludes;
* `puppy-result/route.ts:6-7` says that "a job already in a terminal state is
  left unchanged", but the check (35-44) and the write by id (46-51) are apart:
  of two reports that both pass the check the second overwrites the first. The
  Mac sends such a pair itself: `OnePuppyController.swift` reports "failed" when
  its report of "completed" throws, which a timeout does while that request is
  still at work, and `BurstClient.swift:157` calls the report "Idempotent on the
  server; safe to retry". A client that was told "completed" is then answered
  "failed" without the result (`[id]/route.ts:38-39`). `ReportWritten` has it,
  and `OutcomeLasts` speaks of the time when no report is under way;
* keep-best "makes answeredTotal monotonic so pivots never drop between runs"
  (`preference-recompute/route.ts:198-199`), but not over a read of the prior
  profile that failed: `getUserPreferenceProfile` swallows the error
  (`scan-store.ts:912-929`), the recompute takes null for a user without
  answers, and its save replaces them. A failed read of the posts ends the job
  as "no archive", and no retry follows;
* an invocation of a refresh route that is killed leaves its job `processing`, and
  a medium as well; nothing looks at `lockedAt`. `hasPendingPreferenceWork` is
  then true for good, so a manual refresh is refused and the sweep passes the
  user by until a connect or a scan arms the same job again.

## 5. Proofs

Assumptions: the named `ASSUME` of each module only (markers, messages and NULL
differ; bounds are naturals; thresholds, prices and batch sizes are positive;
sets of actors are finite where they are counted). TLC evaluates them on every
run of the module.

| Module | Theorem | Statement |
| --- | --- | --- |
| `ZipQueueProofs` | `TypeCorrect` | `Spec => []TypeOK` |
| | `MarkersStayPrivate` | `Spec => []LeaseInv` |
| | `LeaseIsExclusive` | `Spec => []LeaseExclusive` |
| | `LeaseNamesHolder` | `Spec => []LeaseMeansHolder` |
| | `LiveLeaseIsKept` | `Spec => LiveLeaseKept` |
| | `UnmarkedClaimsAreKept` | `Spec => UnmarkedVmClaimPreserved` |
| `BrowserWorkerProofs` | `LoopTypeCorrect` | `BWSpec => []BWTypeOK` |
| | `PauseIsSticky` | `BWSpec => []LossPauseSticky` |
| | `LoopIsQueueUser` | `BWSpec => Spec` (of `ZipQueue`) |
| | `LoopKeepsLease` | `BWSpec => []LeaseExclusive /\ []LeaseMeansHolder /\ LiveLeaseKept` |
| | `LoopDelivers` | `BWSpec => KeepsDelivery` |
| `WebsiteBackfillProofs` | `BackfillTypeCorrect` | `BackfillSpec => []BackfillTypeOK` |
| | `ScanLeavesNoneOut` | `BackfillSpec => []ScanCovers` |
| | `CompletedIsComplete` | `BackfillSpec => []PassComplete` |
| | `SnapshotIsKept` | `BackfillSpec => SnapshotKept` |
| | `CapIsKept` | `BackfillSpec => []AdmissionCap` |
| | `JobsOnlyAdvance` | `BackfillSpec => JobsAdvance` |
| `PhotoQueueProofs` | `PhotoTypeCorrect` | `PhotoSpec => []PhotoTypeOK` |
| | `ClaimsAreExclusive` | `PhotoSpec => []ClaimsExclusive` |
| | `OvershootIsBatches` | `PhotoSpec => []DayOvershoot` |
| `LocalDiscoveryProofs` | `GuardTypeCorrect` | `GuardSpec => []GuardTypeOK` |
| | `TrialFailureAlwaysReopens` | `GuardSpec => []TrialFailureReopens` |
| | `AlertsComeFirst` | `GuardSpec => []AlertBeforeRefusal` |
| | `OvershootIsBounded` | `GuardSpec => []DailyOvershoot` |
| | `SessionTypeCorrect` | `SessionSpec => []SessionTypeOK` |
| | `StreamsAreFaithful` | `SessionSpec => []StreamFaithful` |
| | `OutcomesAreSingle` | `SessionSpec => []OneOutcomeEach` |
| | `SessionsImplementFeeds` | `SessionSpec => SessionsAreFeeds` (every object is a `SearchFeed`) |
| | `DiscoveryTypeCorrect` | `Spec => []DiscoveryTypeOK` (of `MCLocalDiscovery`) |
| `BurstJobProofs` | `BurstTypeCorrect` | `BurstSpec => []BurstTypeOK` |
| | `FinalizersExcluded` | `BurstSpec => []FinalizerGuard` |
| | `OutcomesStand` | `BurstSpec => NeverReopened` |
| | `CompletionTearsDown` | `BurstSpec => []CompletedTornDown` |
| | `OutcomesLast` | `BurstSpec => OutcomeLasts` |
| | `OrphansAreExplained` | `BurstSpec => []OrphanExplained` |
| `ServicesProofs` | `IngestTypeCorrect` | `IngestSpec => []IngestTypeOK` |
| | `SkippedFilesAreIn` | `IngestSpec => []IngestedIsApplied` |
| | `NoRowGetsOlder` | `IngestSpec => NeverOlder` |
| | `SweepTypeCorrect` | `SweepSpec => []SweepTypeOK` |
| | `StatesAreExclusive` | `SweepSpec => []CollectsExclusive` |
| | `ServicesTypeCorrect` | `ServicesSpec => []ServicesTypeOK` (of `MCServices`: burst, ingest and sweep) |
| `SocialRefreshProofs` | `SocialTypeCorrect` | `SocialSpec => []SocialTypeOK` |
| | `JobsAreExclusive` | `SocialSpec => []JobsExclusive` |
| | `PivotsAreKept` | `SocialSpec => PivotsNeverDrop` |
| | `ProfileCatchesUp` | `SocialSpec => []ProfileCoversMedia` |
| | `FloorHoldsWithoutFailures` | `SocialSpec => []FloorRevealsAnalyzed` |

**ZipQueue.** `LeaseExclusive` is not inductive: from a state in which two machines know one
marker and the row carries neither, a replay breaks it. `LeaseInv` adds

* `MarkersPrivate`: no two machines know the same marker, in memory or on disk;
* `KnownMarkerHolds`: a row in progress under a marker that machine b knows
  is held by b or by a crawler;
* `HeldInProgress`: only rows in progress have a holder.

Steps fall into two classes. `QuietStep`: nobody learns a marker and no row
becomes in progress; every heartbeat, release, completion, recovery and tick is
one, and the invariant is carried over. `ClaimStep`: machine b claims one row
under a marker that is fresh or its own; its facts are those of `Fresh` and of
the refusal in `_claim_outbox_zip`. `LiveLeaseKept` then needs, per action,
that the row of a live claim changes hands in the listed ways only
(`VmKeepsLease`, `BrowserKeepsLease`, `TableKeepsLease`).
`UnmarkedVmClaimPreserved` rests on `HeldInProgress`: a row that a crawler holds is in
progress, so a browser worker takes it only through a marker.

**PhotoQueue.** A claim excludes others through the row's status, and it is the
row's age that keeps the requeue away, so `ClaimsExclusive` alone is not
inductive. `HeldFresh` says that, without an overrun, a held row is in progress
and not older than its worker's claim, which is younger than the half hour;
`LoopShape` says what a worker holds at each point of its loop. `DayOvershoot` sums
over the workers without a sum: `Owed` is the set of pairs of a worker and a
hotel of its batch still to be paid for, and `SpendBounded` says that the day's fetches
and `MaxPerHotel` for each pair in it are below the bound. A step shrinks `Owed` by what
it spends, leaves it alone, begins a batch while money is left, or clears the day
(`StepDay`).

**ProviderGuard.** What a step does to the ledger is one of four things: nothing
that adds to it, a call that starts with money left, a call in flight that
bills, a new day (`StepLedger`). `DailyOvershoot` follows from these and the
cardinality of the calls in flight; that `Budget - spent < Cost` implies the
80% alert is arithmetic over the alerts that `recordSpend` has fired
(`AlertsFired`). `TrialFailureReopens` is inductive given the types.

**SearchSession.** `SessionInv` says that every session object is sound (no event
twice, flags and buffer agree, outcomes are those of the categories that have settled) and
that every open stream follows an object that is under way and has all of its
events. It is kept because an object changes in three ways only: it is built, it begins, it
grows by one event that is news (`NewSound`, `BegunSound`, `SettledSound`,
`FinishedSound`), and each of them hands the event to the streams attached to it
(`EmitSound`). What a search emits at once is a recursive function of the query;
that it repeats nothing for a query of any length is proved by the well-founded
order of the lengths: a shortest prefix with a repetition has a shorter one.
The refinement follows the same ways: a step moves the feed of one object by `Begin`, by
`Settle` of one category or by `Finish`, or it moves none (`SessionStepFeeds`),
and the three are `SearchFeed`'s steps (`FeedsStep`).

**StateSweep.** Exclusion rests on `HeldRun`: without an overrun a state in a
collector's hands is running, is not old, and is in no other's hands; so it is neither
claimable nor requeued. The rest is that finishing a state moves it to
the end of the queue and the queue remains an order of all states, for any number of
them and from any order at first.

**BurstJob.** None of the properties is inductive. `PostShape` says that until
the POST has saved the provider's handle no recovery works on the job, so no
late `markBurstProvisioned` meets a final status; `OutcomeShape` says that
whoever is about to save "completed" has seen the workload complete and, from
the write on, tried the teardown; `Answered` that a finalizing recovery has an
outcome to save. `TornShape` says, for `OrphanExplained`, who is about to write a final
status: a stream or recovery that has torn the instance down, a recovery that
gives up a stale job, the Mac, whose job has no instance; `FinalStep` that
beside these only the catch of the POST's first phase writes one.
`OutcomesLast` goes from one settled state to the next (`SettledStep`): without
a mishap no step leaves the outcome, since a recovery that has polled goes on to
its teardown only over a row that is not final, and a report is taken only for
such a row. `mishaps` only grows (`MishapsGrow`), so that the step lemma
applies for as long as the property asks.

**ProviderIngest.** `FilesApplied` says of every file what has been upserted of
it, is still to come, or was all of it; `IngestedIsApplied` follows.
`NeverOlder` is about the order of a cycle: `CycleOrder` says where a cycle that found
a monthly and a weekly file stands, and that no row is then newer than the weekly
one; `MonthlyAhead` that the newest monthly file is in or no row is newer than it;
`RowsDated` that a row's version is a week in which it changed.

**WebsiteBackfill.** A scan holds what it read while the pass moves on under it: it
may be a stopped run's, and its pass may be over. `ScanFine` says, for each scan in
flight and per phase, what it has covered of the pass it belongs to; `StillBlank`
that a hotel whose blank only its own job may have filled has a job once the blank
is gone; `Drained` that the jobs of a pass whose scan has ended cover its
snapshot; `AttemptsLeft` that a job still to be fetched may be. `AdmissionCap` counts rows, and a
scan admits what was free when it last looked: `SlotsFit` says that what the
scan may still admit and what is queued fit into the cap. Nothing else may raise
the count: `QueueStands` goes through the steps, with the facts of `InOrder` (one
scan at a time, no late save, each job with its own collector), which hold until a stop
leaves a thread at work: hence the premise `~abandoned` of the property. It is needed.
Without it TLC finds an orphaned scan and its successor that have each counted the same free
slot. `JobsAdvance` needs, beside `InOrder`, that a collector's copy is up to date:
`Copied` says that it has the attempts its job has, so that the save it ends with counts
one more than the job and not one more than some earlier state of it; `Forward` then goes
through the steps.

**BrowserWorker.** `LoopShape` says what the loop holds at each of its steps:
an outbox batch in hand is on disk (`OnDisk`), a held batch that was never made
durable means an empty disk, so the loop never has two; `recheck`, `ack` and
`discard` are reached only when Cloud SQL has the outcome (`Written`), also when
the abandoned thread of a stopped run wrote it. With it every step is a step
of `ZipQueue` or leaves the queue alone (`QueueStep`), so that the theorems
about the lease carry over, and a step of `BatchDelivery` or leaves disk and record alone.

**SocialRefresh.** `KeysOwn` says which jobs an invocation may hold. `JobsExclusive`
is inductive with it: a step that claims nothing writes some rows and marks whoever works
on them as overtaken (`WritesOnly`). `PriorKept` says that an invocation whose
profile was read, and not saved over since, holds every answer of it. `ProfileCoversMedia` speaks
of a quiet moment only; `Followed` says for every other one that an analyzed
medium is in the profile and in what every valid save to come has read, or is
awaited: by an analysis that will ask for a recompute, by a recompute queued,
given up, claimed and still to read, or under way with the medium in hand.
`MediaThere` (no media without an archive) excludes that a recompute with
nothing to read is the one awaited. `FloorRevealsAnalyzed` joins it with `Withheld`:
a profile that was not revealed was made by an invocation that saw a medium open, and so
without that medium; at rest and with all media analyzed there is none that it lacks.

Only model-checked: liveness, which is out of this prover's reach under fairness
(`BreakerRecovers`, `StreamsComplete`, `PhotosSettle`, `DurableBatchSettled`,
`QueueMarkersRecovered`, `JobSettles`, `IngestCatchesUp`, `SweepTakesTurns`,
`PassCompletes`, `WorkSettles`), and `UserPauseKept`, `VmCrashRecovered` and the other
properties of section 4, which do not hold. Every invariant and every safety property that a
passing run checks is a theorem.

## 6. What is left

1. `Outbox`: SQLite statuses, idempotent enqueue, the conflict on a second
   terminal acknowledgement, target check, prune; refined by the set of
   pending batches that `ZipQueue` uses.
2. Hazards outside of what is modelled: the order in which
   an outbox replay and a newer crawl write hotel rows (`worker.py:1384`), the
   hotel count read before an empty ZIP is marked done (`worker.py:2228`), and
   the outbox's first batch that raises on every flush (`outbox.py:406`).
3. The scan of a person in the Next.js application (`scan-store.ts`'s research runs).
4. `InventoryGuard`: watermark merge and checkpoints under restarts.

## 7. Not modelled

The components with status `not_modelled` in `PROJECT.json`, with the reason
there: lookups over read-only data, browser automation and process control
over external services, declarative configuration. The greater part of the
repository's code is user interface (`OneExperience.tsx` and the components
around it), profile synthesis (`preference-profile.ts`, `preference-synthesis.ts`) and scoring of one request at a time, parsers and
scrapers of web pages and resolvers over read-only registries: functions from
an input to an output, without state that outlives a request or is shared
between two, over text and numbers that a finite instance cannot enumerate to any
purpose. Their share of the code is the reason why the mapped lines are a small
part of the whole.
