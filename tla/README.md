# Verification of the governed computation backend

TLA+ models, model-checking runs and machine-checked proofs about the backend
in `backend/app`: how a formal computation is requested, run by a worker,
written to DuckDB under a file lock, certified in append-only governance
streams, corrected by manual adjustments, and served through caches.

Paths below are relative to `backend/app` unless they start with `docs/` or
`tests/`. Contents:

1. [The system](#1-the-system): parts, state, interactions, what is hard
2. [Modules](#2-modules): what models what
3. [Runs](#3-runs): bounds, and what each run shows
4. [Fairness](#4-fairness)
5. [Proofs](#5-proofs)
6. [Where the code and its documents disagree](#6-where-the-code-and-its-documents-disagree)
7. [What is not modelled](#7-what-is-not-modelled)
8. [Plan](#8-plan)

## 1. The system

The layers are `frontend -> api -> services -> (repositories, core_finance,
governance) -> storage`. Several web threads and several worker processes share
one DuckDB file, a directory of JSONL streams, optionally a PostgreSQL database
and a Redis broker. Nothing but lock files, the broker and DuckDB's own rule of
one writing process synchronises them.

### 1.1 Parts, state and operations

| part | state it keeps | operations |
| --- | --- | --- |
| writer and trigger locks, `governance/locks.py` | a lock file per key | `acquire_lock` with a timeout, release, release by death |
| governance repository, `repositories/governance_repo.py` | JSONL streams; two of them also as SQL tables | `append`, `append_many_atomic`, `read_all`, in the modes jsonl, sql-shadow, sql-authority |
| broker, `tasks/broker.py` | a message per run | deliver, retry after an exception (3 times), redeliver what was not acknowledged |
| formal materialize runtime, `tasks/formal_compute_runtime.py` | fact rows of a cell (cache key and report date), `cache_build_run` and `cache_manifest` records | `run_formal_materialize`: queued, running, lock, compute and replace, unlock, publish; failed on any exception |
| its clients: balance analysis, bond analytics, PnL, risk tensor tasks | their fact tables | the `materialize` callback; balance analysis refreshes FX rates inside it |
| refresh triggers, `services/balance_analysis_service.py`, `services/bond_analytics_service.py` and variants for PnL, product category, source preview, QDB and Livermore | `cache_build_run` records | idempotency lookup, in-flight check, giving up stale runs, queued record, send, failure of the send, status |
| product-category PnL, `services/product_category_pnl_service.py`, `tasks/product_category_pnl.py` | adjustment stream, canonical facts, formal read model | create, edit, revoke, restore, list; materialize all dates; year to date of the home page with a fallback |
| PnL by business adjustments, `services/pnl_service.py` | adjustment stream with a maker and a checker | create, edit, approve, revoke, restore |
| runtime cache, `services/runtime_cache.py` | values with expiry, events in flight, a generation | `get_or_set`, `invalidate`, `invalidate_matching`, `clear` |
| response cache, `api/response_cache.py` | values with expiry, builds in flight | `get_or_build`, `invalidate` |
| source preview, `tasks/source_preview_refresh.py`, `repositories/source_preview_repo.py` | preview tables and their backups, job state in PostgreSQL | ingest, back up, rebuild, restore, clean up |
| ingest and snapshots, `services/ingest_service.py`, `repositories/source_manifest_repo.py`, `tasks/snapshot_materialize.py` | source manifest, archive, snapshot tables | scan, filter, archive, append; select a batch, replace rows, carry forward |
| ledger import, `repositories/ledger_import_repo.py` | batches, raw rows, positions | import with duplicate detection |
| agent runs, `services/agent_run_service.py` | run stream, bounded cache of latest records | create, execute one at a time, status |

### 1.2 How they interact

A request takes the **trigger lock** of its report date, reads the
`cache_build_run` stream, appends a queued record and sends a message. The
**broker** hands the message to a worker at any time from then on, and again
when the worker raises or dies. The worker appends queued and running, takes
the **writer lock** of the DuckDB file, replaces rows, releases the lock, and
appends manifest and completed record through the **governance repository**.
Readers ask the stream for the latest completed run of a cell and serve rows
under the lineage it names. **Caches** stand in front of the reads and are
invalidated by the refreshes. **Adjustments** are events in a stream a
materialization reads while requests append to it.

### 1.3 What is hard about it, and what makes it correct

* *Order without a common lock.* The trigger lock, the writer lock and the
  batch lock of the streams are three different locks; facts are written under
  one and certified under another. Right means: no manifest without its facts,
  no completed record without its manifest, no failed run with a manifest, and
  the latest lineage is the one of the latest facts.
* *Failure in the middle.* A worker may die or time out between any two steps;
  a message is delivered again with the same run id; a batch of appends may
  break off; a rollback may fail. Right means: a call that raised left nothing,
  nothing a reader has acted on is taken back, every accepted run gets a
  terminal record.
* *Retries and staleness by the clock.* A run is given up after an hour while
  its worker may still be alive; a client repeats its request with the same
  key. Right means: a key starts one run; two runs of a date are in flight
  together only if one of them was recorded as over before.
* *Read, then write.* Adjustments are composed from a version that may be
  replaced before the append; a producer computes from data that changes
  before its value is stored. Right means: an edit is lost only to a request
  that overlapped it; nobody who asks after an invalidation is answered with
  data from before.
* *Two reductions of one stream.* The list of adjustments and the
  materialization each reduce the event stream. Right means they agree.

`PROJECT.json` lists these hazards one by one with their lines.

## 2. Modules

| module | models | checked by |
| --- | --- | --- |
| `FormalMaterialize` | `run_formal_materialize`, its locks, the broker's redelivery, the reader of lineage | `MCFormalMaterialize`, `FormalMaterializeProofs` |
| `GovernanceLog` | abstract: what the streams promise | refined by `GovernanceStore`, `StoreAndCacheProofs` |
| `GovernanceStore` | `GovernanceRepository` in its three modes | `MCGovernanceStore`, `StoreAndCacheProofs` |
| `RefreshTrigger` | the refresh triggers of balance and bond analytics, PnL, product categories and source previews | `MCRefreshTrigger`, `RefreshTriggerProofs` |
| `RuntimeCache` | `InMemoryTTLCache` | `MCRuntimeCache`, `RuntimeCacheProofs` |
| `ResponseCache` | `TTLResponseCache` | `MCResponseCache`, `StoreAndCacheProofs` |
| `ProductCategoryPnl` | adjustments, their materialization, the year to date | `MCProductCategoryPnl`, `ProductCategoryPnlProofs` |
| `PnlByBusiness` | maker and checker adjustments, the PnL task, precomputed pages, page caches | `MCPnlByBusiness`, `PnlByBusinessProofs` |
| `SourcePreview` | ingest, archive, preview tables with backups and restores, job states | `MCSourcePreview`, `SourcePreviewProofs` |
| `Snapshots` | the formal balance pipeline, its batches, snapshots and carry-forward | `MCSnapshots`, `SnapshotsProofs` |

In every module an action is a stretch of one handler between two points at
which another process can interfere (a lock, a record, a commit, a connection),
named for what it does. Definitions headed *Mutant* are plausible mistakes: each
is put in place of one definition to see that the named property notices. History
variables are marked *history*; no guard reads them. Failures that may happen
are listed in the constant `Faults`, in `RefreshTrigger` in the `Traffic`, so that a run can
name them.

The modules share no state variables; where one component uses another, the
user's module has the other's *effect* as one step, and says so in its head:
`Publish` is one step in `FormalMaterialize`, with the outcomes `GovernanceLog`
allows a call of `append_many_atomic`, because `GovernanceStore` implements it, the
balance facts are one step in `Snapshots` because `FormalMaterialize` has the run around them, a worker of
`RefreshTrigger` is a run of `FormalMaterialize` reduced to its records.

### FormalMaterialize

A *run* is a run id, a *delivery* one attempt of the broker, a *build* a
delivery with the version it read. Places of `pc` follow the handler: `queued`
and `running` appended, blocked on the lock, executing, written, publishing.
`AcquireWriterLock` and `LockTimeout` are the two ends of `acquire_lock`.
`Execute` reads the version of the upstream rows, `WriteFacts` commits them;
`ReleaseWriterLock` precedes `Publish`, which is one step because
`append_many_atomic` is (see `GovernanceStore`), with the other outcomes
`GovernanceLog` allows: nothing (`PublishFails`), a prefix if the worker dies
between the two lines (`InterruptPublish`), and any part of the batch if its
rollback fails or the answer of its commit is lost (`PublishInDoubt`): then the
`except` branch records "failed" although a manifest or a completed record of
the delivery stands, and `doubtful` remembers the build. `MayRecord` is the same
doubt for the single appends. `AppendFailed` is the `except`
branch; `Raise` hands the message back to the broker while deliveries remain.
`NestedLock` names the runs whose materialization takes the writer lock again,
as the FX refresh does. `LatestCompleted` is
`GovernanceRepository.read_latest_completed_run`.

### GovernanceLog and GovernanceStore

`GovernanceLog` is what callers rely on: a call appears as one step, whole or
not at all; a caller's death may leave a prefix; only a rollback that itself
fails leaves an arbitrary part, and no entry of anybody else is touched.
`GovernanceStore` is the code: batch lock, rows inserted one by one into an open
transaction (`tx`), lines one by one, commit, and `_rollback_jsonl_files`
truncating one file at a time. Its state is where each call is (`stage`), the
position of the holder in its batch (`next`), `original_sizes` (`sizes`), the files
and the tables. An entry is a caller and a place of its batch, so "whose line is
this" is a question about the line and not about the moment it was written.

It refines `GovernanceLog` by mapping the log to what readers of a mode see
while the lock is free, and to what they could see when it was taken as long as
it is held (`Logged`, with the history variable `before`): `read_all` takes the
same lock. A call that ended is mapped to how it ended, or to *doubtful* if its
rollback failed, it died in it, or the answer to its commit was lost (`doubt`).
`GovernanceLog` says what is added to a stream as a set of entries and their
order, not as a sequence that is put together, so that the refinement can be
proved as well as checked.

### RefreshTrigger

One report date. A run is identified with the request that created it. The
stream is kept per run (`records`), with the order of the records that carry an
idempotency key beside it (`keyed`), because those two projections are what the
code looks at: the last record of each run and the last record with the key.
The clock ticks at any moment; `LooksStale` is `_is_stale_inflight_record`.
Workers are runs reduced to the records they append. A message is acknowledged
(`Acknowledge`) after the completed record, in a step of its own.

Not every end is on record. A worker fails with a failed record (`WorkerFails`), or
raises without one (`WorkerRaises`: what escapes a task's `try`, its rollback, its
restore or its `except` branch), or dies; the broker delivers again or, after the
last retry or when it was in memory, does not. A request may answer an error
without a record too (`TriggerRaises`). `silent` remembers the runs that ended so,
`reopened` the runs whose worker had written the completed record and then failed,
raised or died instead of acknowledging: those run again, or are recorded as failed.

The services repeat one pattern with differences, which a variable `service`
selects at the start: the *formal* ones (balance and bond analytics) replay a
key before they look for a run in flight; *pnl* and *category* run the task in
the request when the broker cannot be reached (`RunsItself`), *category* with
a record of the failed dispatch; *preview* reads its records collapsed to the
latest of each run, of which only the first carries the key, so a key is lost
once its worker records anything. `Ended` and `WithKey` are those projections
as sets of positions.

### RuntimeCache and ResponseCache

A value is the version of the data its producer read. `floor[k]` is the version
at the last invalidation of a key and `need[c]` the floor when a call began, so
"no stale answer" is `value[c] >= need[c]`. In both, a call is one thread in
`get_or_set` or `get_or_build`; each critical section under the cache's mutex is
one action, the producer runs outside it. The difference between the two is the
point: the runtime cache has a generation that keeps an overtaken producer from
storing, the response cache has none.

### ProductCategoryPnl

Three families of actors: requests, which read the stream, compose the next
event from the latest one (`Compose`), stamp it (`Stamp`) and append it
(`AppendEvent`) with no lock around the three; builds, which under the writer
lock open a transaction, read the stream once per report date (`Load`), commit
all dates, leave the lock and append manifest and completed record one after
the other; and loads of the home page, which rebuild the year to date from the
canonical facts when the read model cannot be read. `Current` is
`_reduce_latest_adjustments`, `Loaded` is `_load_manual_adjustments` with
`apply_manual_adjustments`.

Abstractions: every adjustment is a DELTA on an account of its own, so a fact
row is described by how much each adjustment added to it; the events have two
distinguishable instants; a redelivered message is another build; another
process that has the file open is represented by rebuilding pages.

### PnlByBusiness

*Requests* compose, stamp and append an event as above, then clear the caches
of their process (`ClearCaches`), a step of its own. Approval wants a user other
than the maker, and takes over what the event it read says.
*Runs* follow `tasks/pnl_materialize.py`: asked, running, lock, `CommitFacts`,
then in transactions of their own `PrecomputeReads`, `PrecomputeMarks` (the
totals the page was made from) and `PrecomputeStores`, then `ClearPageCaches` and
the completed record; every step may fail or be the last, and a run may be one
that a request does itself. If the file cannot be opened, the totals are a mark of their
own (`Unavailable`), and pages that cannot be stored are dropped without an error
(`PrecomputeDrops`, remembered in `unstored`). *Pages* are loads of the year to date (through an
`lru_cache` keyed by the date) and of a period, which is answered from a
precomputed page when the totals agree and rebuilt otherwise, from inputs that
are cached too. A page reads facts, precomputed pages and stream one after the
other, under no lock: each read is an action.

Rows of a date are a *batch* `[detail, total]`: two batches with equal totals
are told apart by nothing the precomputed page's mark contains, which is the
case `AnswersPrecomputedOfSameTotalsUnlessUnmarked` is about.

### SourcePreview

A *refresh* records running, scans the source directory, archives the changed
files under a new batch and appends their manifest rows, then takes the writer
lock, copies each preview table to its backup (`DropBackup`, `SnapshotTable`), replaces the
rows of the batch, and records. Rows whose archived file is gone at that moment are not
selected (`Archives`, the fault "archive": a file deleted, or a directory that is not
mounted); what is left of a batch replaces the batch, and when nothing is left the write
empties every table and the run completes. When it fails it restores table by table
(`RestoreTable`) **after** it left the lock; `RestoreCut` is a restore that itself
fails, `Escapes` an exception no handler is left for. A *view* runs over the
same tables and backups with a row in `phase1_materialize_runs` for its state,
and restores under the lock; it may be asked for a batch the manifest does not have
(`Unknown`), which has no rows either. `Interrupt` ends a run between any two steps,
`Redeliver` hands its message out again. Files may change at any moment.
History: `crossed` are runs whose tables or backups another one touched since
they took the lock, `undone` says that a restore was cut off or belonged to a crossed run,
`raced` are files two ingests of which overlapped, `lost` are rows that a write of
their batch left out because their archived file was gone, or that a write that found
nothing deleted.

### Snapshots

The source directory holds files of a family and a date each (`FamilyOf`, `DateOf`;
`FileArrives` replaces one), several of one family and date among them: the manifest
keeps a last version of each file name, a selection takes all files of one batch,
and the snapshot tables know families and dates only (`Cell`). Names are unique in
the directory tree: files of one name in two directories would be versions of one file.
A pipeline run scans, appends one batch, resolves the report dates of that
batch (`ResolveDates`) and works them off, earliest first: `SelectOfDate` picks
manifest rows for the snapshot and skips those whose archived file is gone,
`Commit` replaces the rows of the picked families and dates and carries the
interbank rows forward where the selection has none, `RecordCompleted`, then
`MaterializeBalance` from the snapshots with or without a batch. Scripts have
no report date (`SelectLatest`), refreshes materialize balance facts alone. The
failures `ManifestFails`, `SnapshotFails` and `RecordFails`, and archived files
that are gone, are listed in `Faults`; `BalanceRaises` may always happen, for
the reason `balance_nested_lock` shows.
History: `passed` are files an ingest entered after the run had chosen,
`undated` families and dates a script wrote without a date, `missed` files whose last
version no run is bound to show any more: because the run that was (`Bound`) failed, had
another date or found the archived copy gone, or because a commit that did not write it
replaced its rows (`Replaces`). Such a commit is one of a run that was overtaken, of
rows carried forward, or of *another file* of the family and date, which was replaced
alone and takes the rows of its siblings with it.

## 3. Runs

All runs are exhaustive on their instance. Deadlock is not checked: in
each model the finitely many requests, runs or calls end and the system rightly
stops; that nothing stops *too early* is what the liveness properties are for.

| run | instance | shows |
| --- | --- | --- |
| `formal_materialize` | 2 runs of one cell, one delivered twice, 1 change of the source, every fault, up to 2 publications in doubt, fair | `PublishedIsCommitted`: nothing is certified that was not committed, also where the publication is in doubt; `FailedPublishesNothingUnlessDoubtful`; `LineageMatchesUnlessRaced`: lineage and facts agree as long as no two builds of the cell overlapped; `RunsTerminateUnlessLost`: every recorded run gets a terminal record unless its last delivery was lost |
| `balance_nested_lock` | 1 run that takes its own lock, all 4 deliveries, no faults, fair | violated: `EveryRunCompletes` |
| `governance_store` | a formal build, a lone append and an ingest batch in each of 3 modes, every fault | `BatchAllOrNothing`, `ShownStays`, `PredecessorsShown`, `TablesWithinFiles`, and refinement: `LogSpec` |
| `refresh_trigger` | 3 requests, two of them with one key, all three for the formal services and two at a time for the others; 2 instants, 1 redelivery, 1 silent end, every fault for two requests and some for three, fair | `OneRunPerKey`, `SingleFlightUnlessRevived`, `RequestsAreRecordedUnlessSilent`, `CompletedStaysWhileFreshUnlessReopened`, `AcceptedRunsSettleUnlessSilent` |
| `runtime_cache` | 3 calls on 2 keys, 1 change, 2 generations, producers that raise or are interrupted, fair | `FreshAnswers`, `SingleFlight`, `CallsEndUnlessInterrupted` |
| `response_cache` | 3 cached calls of one key and 1 uncached, 1 change, fair | `SharedOutcome`, `StaleOnlyFromOvertaken`, `CallsEnd` |
| `product_category` | 2 requests, 1 adjustment, 2 report dates, 2 builds, 1 page, 2 instants, every fault | `CurrentIsLastUnlessRaced`, `FormalIsListedUnlessMoved`, `CompletedRefreshReflectsEdits` |
| `product_category_rebuild` | an adjustment in the stream, 1 build, 1 page, no requests or faults | violated: `RebuiltMatchesPersisted` |
| `pnl_by_business` | 3 requests; 2 requests and a page; 1 and two pages; 1, a run and a page; or two runs and a page; 2 months, 3 batches two of which have the same totals, every fault | `MakerNeverApproves`, `CurrentIsLastUnlessRaced`, `CachedYtdCountsUnlessOvertaken`, `CachedYtdShowsFactsUnlessLagging`, `CompletedRunIsPrecomputedUnlessUnstored`, `AnswersPrecomputedOfSameTotalsUnlessUnmarked` |
| `source_preview` | 2 refreshes and a file that changes; a refresh and a view; or a refresh that is delivered again with 2 changes; 2 files of a family on two dates, 2 tables, 2 batches, every fault, archived files that are gone at any write | `RestoredIsAsBefore`, `TablesAgreeUnlessUndone`, `CompletedIsShownUnlessLost`, `ManifestFollowsSourceUnlessRaced`, `JobStateFollowsRecords` |
| `snapshots` | 2 pipelines, or a pipeline, a script with or without a date and a refresh, or 2 pipelines of a date and a script; 2 report dates, 5 files (3 of one date, 2 of them of one family), 2 versions of a file, one or two arrivals, every fault | `OneBatchUnlessUndated`, `WritesLastUnlessPassed`, `EnteredIsShownUnlessMissed`, `UnaskedBalanceIsOfOneBatch` |
| `snapshots_carried` | two pipelines one after the other, no faults | violated: `CarriedOnlyWithoutSource` |

Two runs list `TypeOK`, whose conjuncts there also tie a lock to what its holder
is about to write. The type invariants of the other modules are proved (section
5).

Why the bounds are enough for what the runs are meant to catch:

* Two runs of a cell, one of them delivered twice, reach every order of write and
  publish between a run, its own redelivery and a rival, whose only delivery may
  fall before, between or after those two; a third run only repeats an overlap of
  two. Two publications in doubt are one per run, or both of one. One change of the source makes "older" and "newer" facts
  distinguishable.
* The store needs two callers on a common stream (order, rollback beside
  somebody else's lines) and one batch with two lines in the same file
  (the rollback must go back to the size before the first). The three modes are initial states.
* A third request is needed in `refresh_trigger`: with two, either the key
  answers or the in-flight check does, never both. It is given to the formal
  services, where the key is looked up before the run in flight; the others
  look in the other order or run in the request, which two requests at a time,
  with and without a common key, exhaust, with every fault. `StaleAfter = 0` with two instants is
  the smallest clock that separates fresh from stale.
* The waiter of a response cache that wakes late needs the builder it waited
  for and a later builder of the same key: three calls. Two generations of the
  runtime cache separate "the generation moved" from "it moved back to mine".
* In `product_category` an event may already be in the stream, so two requests
  reach histories of three events. Two dates let an edit move an adjustment.
  Two builds wait for one lock. Requests are interchangeable and so are builds,
  hence the symmetry set; the run has no liveness property.
* In `pnl_by_business` not all actors act at once: `Shift` lists which do. Each of
  its properties relates at most one run and one page, or a request and a
  page, to the rest; the third request makes a lost approval possible, the
  second run a precomputed page of facts that have been replaced.
* A backup of a preview refresh is spoilt by one other run and one file that
  differs; two tables are needed for a restore that is cut off between them.
  Two batches tell the batch of a refresh from the one before. Which archived files are
  found is chosen anew at each write among all subsets of the manifest.
* In `snapshots` two dates are needed to carry forward and to resolve several
  dates from a batch, two versions to tell a replaced file from its
  predecessor, two bond files of the second date to replace one beside the other.
  `SomeStarts` pairs what the runs are with the files they find, with some missing
  where a later arrival makes the batches differ: the third run and the second
  arrival are given where a property needs them.

`MaxVersion`, `MaxDeliveries`, `MaxDoubtful`, `MaxGeneration`, `MaxTime`, `MaxRetries`, `MaxSilent`,
`MaxClock`, `MaxBatch`, `MaxFiles`, `Shift`, `Traffic` and the opening states are
bounds of the instances and guards of the models; of these only
`MaxDeliveries` is a number of the code (one try and three retries, which
`balance_nested_lock` uses in full).

## 4. Fairness

* `FormalMaterialize`: weak fairness of delivery and of the handler of each
  run. Workers run and the broker delivers what is queued; failures are steps
  of the handler too, so fairness does not promise success. A run whose last
  delivery is killed, or cannot write its failure down, is left running, and
  only the staleness rule of the trigger ends it: `RunsTerminateUnlessLost`
  names those.
* `RefreshTrigger`: as long as a request that entered or a worker with a
  message can go on, one of them does. No request has to enter, the clock need
  not tick, nothing has to fail, die or raise, and no particular actor is favoured.
  `AcceptedRunsSettleUnlessSilent` is about runs answered with "queued"; a run whose
  last worker dies with the broker or raises past its records stays in flight until
  a later request gives it up.
* `RuntimeCache`, `ResponseCache`: weak fairness of each call; a thread that
  entered the cache runs. A producer may raise or be interrupted instead of
  returning. Expiry, invalidation and new data are never fair.
* The other modules state no liveness: what they promise is about what is
  there when a step is reached.

## 5. Proofs

All theorems hold for every value of the constants that satisfies the named
assumptions of the module (the lock is not a process, the bounds are natural
numbers, keys and cells are functions of their callers, the opening streams are
ones the requests could have left): any number of runs, calls, requests, dates,
tables, deliveries and versions. What each argument needs beyond the invariant
itself:

**FormalMaterializeProofs.** `TypeCorrect`; `WriterExclusionHolds` (a run inside
its critical section holds the lock: steps outside leave the lock alone, the one
run that leaves held it); `PublishedHolds` from `PublicationInv`, whose extra
conjunct says that a run which has written and not yet published still carries
the build it committed; `FailedPublishesNothingHolds` from `FailureInv`:
what is published is of past deliveries or of the one in progress once it is past
its publication, or in doubt while it fails; failures are of past ones or of the
one just given up, and outside doubt no delivery is in both places. `LineageMatchesUnlessRacedHolds` from `LineageInv`: a cell that
was never raced has at most one builder at a time; the facts stay what it wrote
until it has published, its build is not yet completed, and no record of the
cell follows the published one.

**RefreshTriggerProofs.** `TypeCorrect` includes that a request between lookup
and dispatch holds the trigger lock. `RequestsAreRecordedHolds`: whoever is to be
sent was recorded queued before, a task that raised in its request has failed on
record or silently, one that came to its end there has completed (`OnRecord`,
`KeyedOnRecord`). `SingleFlightUnlessRevivedHolds` from `OneAlive`:
of the runs that were never recorded as over, one at most is not over, because
the request that records a run has, under the lock, found every other over or
written it off. `OneRunPerKeyHolds`: the request that holds the lock has searched
the records of its key (`KeySearched`), so a second run of a key needs an excuse
(`Excused`): of PnL a terminal record of the first, of previews a worker's.
`CompletedStaysWhileFreshHolds`: the completed record is the last act of a message
that is not reopened (`Settled`), and who gives a run up has seen one of its records stale, hence its
first (`Timed`).

**RuntimeCacheProofs.** `TypeCorrect`, `SingleFlightHolds`, `FreshStoreHolds`,
`FreshAnswersHolds`. `FreshStore` is not inductive: one needs that a running
producer's event stands for its key (`InflightInv`), so that an invalidation
that overtakes it moves the generation; that no producer began in a generation
to come (`BeganInv`); that floors and needs never exceed the version of the data
(`HistoryInv`); hence a producer whose generation has not moved holds a value at
least as new as the floor (`ProducedInv`).

**StoreAndCacheProofs**, `GovernanceStore`. `StoreTypeCorrect`;
`BatchAllOrNothingHolds`, `TablesWithinFilesHolds`, `StoreImplementsLog`,
`ShownStaysHolds`, `PredecessorsShownHolds`. None of them is inductive. The
invariant `StoreIInv` says by the stage of a call which places of its batch have a
line and which have a row (`ContentInv`). To keep that through a rollback one needs
that a remembered size is where the lines of the holder begin, the lines of
everybody else being before it (`SizesInv`), and that every file with a line of the
holder is remembered; through a commit, that the transaction has exactly the
holder's rows (`TxInv`) and every file and table the places of a batch in order
(`SortedInv`). `BatchAllOrNothing` is what `ContentInv` says of the ended stages, in
the modes where a batch is read from tables as in those where it is read from files
(`SeenByStage`); this uses `UnmixedAssumption`: no caller mixes streams with and
without a table. `TablesWithinFiles` adds that rows and lines are in one
order (`OrderInv`): those of a commit come last in both. For the refinement,
`BeforeInv`: while the lock is held, readers would be shown what they could see
before and then entries of the holder only. So the last step of a call adds to the
log what is then left of it (`Ending`), and every other step is a stutter
(`NothingLogged`). That the log only grows comes from the refinement (`LogGrows`);
what a reader was shown is a prefix of it (`ShownInv`), hence `ShownStays`, and with
`ContentInv` `PredecessorsShown`.

**StoreAndCacheProofs**, `ResponseCache`. `TypeCorrect`, `SingleBuildHolds`,
`SharedOutcomeHolds`,
`StaleOnlyFromOvertakenHolds`. A build ends once and keeps its value, so a
waiter may read it late (`AwaitedInv`, `SharedOutcome`). A build older than the
floor of its key was at work when the floor rose (`BuiltInv`); every stale value
that is stored, about to be taken over, or returned has such a build behind it
(`StoreInv`, `WaiterInv`, `AnswerInv`), and it stays (`CulpritStays`).

**ProductCategoryPnlProofs.** `CompletedReflectsEdits`, `CompletedHolds`: the
stream only grows, so no build was asked for after its end (`AskedInv`) and what
is read inside the lock reaches at least as far as every request known by then
(`StagedInv`); one transaction is open at a time and belongs to the holder of
the lock (`LockInv`), so no build commits between what another staged and its
commit, and the facts keep reflecting every build that has been or may yet be
recorded as completed (`FactsInv`). `CurrentIsLastUnlessRacedHolds` from `InTurn`:
as long as an adjustment is not raced, each waiting event has the fields of the
last one and takes its instant after it; that a latest event exists at all is
`WFMin` on the naturals. `FormalIsListedUnlessMovedHolds` from `FactsLoaded`: the
facts of every date were loaded from a prefix of the stream, and a prefix after
which no request touched the adjustment loads what the whole stream lists.

**PnlByBusinessProofs.** `MakerNeverApprovesHolds`: every event of an adjustment
names one maker (`OneMaker`), composed events included, so an approver compared
with the maker of the event it read is compared with the maker.
`CurrentIsLastUnlessRacedHolds` as above, with what was submitted in place of the
fields: approval, revocation and restoration repeat the last create or edit.
`AnswersPrecomputedHolds`: a run between marking and storing holds the lock
(`LockHeld`), so a stored page carries the mark of the facts it was made from
(`PagesMarked`), or the mark of none that could be read, and a page found for a
load has the totals the load read (`FoundMarked`). `CompletedRunHolds`: from its commit to its stored page a run's
date keeps its rows, and a page stored later for that date has them too
(`CompletedInv`); the run whose page was dropped is excepted. `CachedYtdShowsHolds`: a load no commit overtook has read the facts
of now (`LoadShows`). `CachedYtdCountsHolds`: as long as no event waits for its
clear, a load no clear overtook has counted the dates it has passed (`Counting`).

**SourcePreviewProofs.** `RestoredHolds`, `TablesAgreeHolds`: a run that nobody
crossed finds in each table it has still to restore, or in its backup, what was
there when it took the lock (`RecoveryOf`); the tables agree but for a restore in
progress (`Pending`). `JobStateHolds`: a refresh at the step that sets its job state
has appended that status to the stream (`JobInv`). `ManifestFollowsHolds`: the rows
of a file are later the newer the content they were hashed from, and what an
ingest is about to append is newer still (`ManifestInv`, `PendingInv`); that a file
with rows has a latest one needs a greatest number of a bounded set, from the
library's well-founded minimum. `CompletedIsShownHolds`: the batches of refreshes
differ (`BatchInv`), a write keeps what a batch of one family shows but for what it
loses (`ReplacedShows`), and whatever an uncrossed run may bring
back shows it as well (`ShownInv`). It assumes that there are finitely many files,
so that a family has a latest date (`LastDate`).

**SnapshotsProofs.** `RunInv` ties the phases of a run together: the dates left
are those held, the picks are rows of the manifest and of the asked batch, and
the batch of a pipeline has the last version of its files unless a file was
passed. What is picked of a family and date is of one batch (`OneLatest`), and has of
each file its last version (`LatestIsLast`). From it `WritesLastUnlessPassedHolds`,
`OneBatchUnlessUndatedHolds` (carried rows come from one earlier date, `OnePrior`),
`UnaskedBalanceIsOfOneBatchHolds`, and `EnteredIsShownUnlessMissedHolds`: a file
somebody is bound to show is handed on from the ingest to the commit (`BoundFiles`).

Every safety invariant of the runs is proved, and so are their action properties and the
refinement of the log. Only model-checked are the liveness properties, and what is
said with `ENABLED`: out of the prover's reach.

## 6. Where the code and its documents disagree

Three runs end in a counterexample, each against a sentence of the repository.

* `balance_nested_lock` (`tasks/fx_mid_materialize.py:444`): the FX refresh of a
  balance materialization waits for the lock file its own run holds.
* `product_category_rebuild` (`tasks/product_category_pnl.py:288`): the fallback
  of the home page applies adjustments to rows that hold them already.
* `snapshots_carried` (`tasks/snapshot_materialize.py:378`): carry-forward looks at
  the selected batch only, so a replaced bond file brings an earlier date's
  interbank rows over those of the date. `docs/calc_rules.md:122` carries forward
  where there is no source manifest of the report date.

The others are visible in the models as the exception a property makes (its
*unless*), and have no run of their own:

* `tasks/formal_compute_runtime.py:153`: manifest and completed record follow
  after the writer lock was released, so overlapping builds of a cell may publish
  in the other order than they wrote; `docs/acceptance_tests.md:201` asks that
  lineage does not contradict the data. `LineageMatchesUnlessRaced`.
* `api/response_cache.py:99`: what an overtaken builder brings back is stored.
  `StaleOnlyFromOvertaken` is proved: it is the only way to a stale answer.
* `services/balance_analysis_service.py:1034`, and the same in bond analytics: a
  replayed key judges its run by the queued record and appends "failed" to a
  completed run. `CompletedStaysWhileFreshUnlessReopened`.
* `services/runtime_cache.py:72`: a producer left by a `BaseException` never sets
  its event, and calls of the key wait for ever. `CallsEndUnlessInterrupted`.
* `repositories/governance_repo.py:115`, against the comment at `:120`: a commit
  that fails in `append` leaves the JSONL line; the same failure in
  `append_many_atomic` is undone, which is why `BatchAllOrNothing` leaves single
  appends out.
* `tasks/product_category_pnl.py:388`, against
  `docs/pnl/adr-product-category-truth-chain.md:77`: an adjustment that an edit
  moves to another report date stays in the formal facts of the old one.
  `FormalIsListedUnlessMoved`.
* `tasks/product_category_pnl.py:147`: a commit that raises has ended the
  transaction, the rollback of the handler raises as well, and no failed record
  is appended. The preview task ends likewise when a job state cannot be recorded
  (`tasks/source_preview_refresh.py:84` and `:199`, the latter after the completed
  record) or its restore escapes. `RequestsAreRecordedUnlessSilent`,
  `AcceptedRunsSettleUnlessSilent`, `CompletedStaysWhileFreshUnlessReopened`.
* `tasks/source_preview_refresh.py:124`: the restore after a failure runs outside
  the writer lock, over whatever another run wrote meanwhile.
  `TablesAgreeUnlessUndone`, `CompletedIsShownUnlessLost`.
* `services/source_preview_refresh_service.py:209`: collapsed records lose the key
  of a request as soon as its worker records anything. `OneRunPerKey`.
* `repositories/source_preview_repo.py:682`: a refresh without a batch selects the
  latest of each family, and deletes the rows of the families' earlier dates. It
  deletes whole batches, so when a batch holds two families and one of them has a
  later batch, the rows of that one in the earlier batch go too, those of its
  latest date included. `CompletedIsShownUnlessLost` is about batches of one family.
* `repositories/source_preview_repo.py:664`: manifest rows whose archived file is gone
  are dropped without a word, and `:854` empties every table when no row is left, which
  an unknown batch does too (`tasks/materialize.py:95`, and
  `tests/test_source_preview_flow.py:1648` expects it); the run completes.
  `CompletedIsShownUnlessLost` excepts the rows this costs, and only those.
* a view marks its row completed before it appends its record, so that a run may
  be completed in one and failed in the other; giving a run up as stale does not
  update its job state; `services/source_preview_refresh_service.py:79` records
  the job state between the queued record and the message.
  `JobStateFollowsRecords` is about what the worker records.
* `services/ingest_service.py:71`: a file is hashed, then copied; a file replaced
  between the two is archived under the hash of its predecessor.
* `repositories/pnl_repo.py:151`, against `tests/test_pnl_api_contract.py:755`: the
  source version of a precomputed page is made of totals, so different rows of
  equal totals have one version. A version that cannot be read
  (`repositories/pnl_repo.py:138`) equals any other that cannot, whatever the
  facts. `AnswersPrecomputedOfSameTotalsUnlessUnmarked` says no more than that.
* `repositories/pnl_repo.py:286`: pages that cannot be stored are dropped, and the
  run is recorded as completed with the old ones.
  `CompletedRunIsPrecomputedUnlessUnstored`.
* `services/pnl_service.py:1537`: the cached inputs of the analysis page stay in
  the web process after a worker has replaced the facts; the same is true of the
  year to date, `CachedYtdShowsFactsUnlessLagging`.
* `tasks/formal_balance_pipeline.py:230`: a pipeline that fails on one date never
  takes up the later dates of its batch, and no later run finds their files
  changed. `EnteredIsShownUnlessMissed`.
* a snapshot script without a date writes the files of the latest batch beside rows
  of an earlier one, and `repositories/bond_analytics_repo.py:288` sums both.
  `OneBatchUnlessUndated`.
* `repositories/snapshot_repo.py:46`: a dated commit deletes all rows of the date.
  The manifest keeps several files of a family and date (`tests/test_snapshot_manifest_selectors.py:22`
  has two), but when one of them is replaced its batch holds that one alone, and
  the rows of the other go without a word. `EnteredIsShownUnlessMissed` excepts such
  files (`Replaces`).
* `tasks/snapshot_materialize.py:205`: selected rows whose archived file is gone are
  skipped, and the run completes without them. `EnteredIsShownUnlessMissed`.

## 7. What is not modelled

* **Numerics** (`core_finance`): decimal arithmetic over rows. Nothing in it
  interleaves; an exhaustive model would enumerate rows.
* **Vendor ingestion, stock analysis, dashboards, attribution**: a computation
  around one transaction or around reads, without state across steps. This is
  the bulk of the repository by lines.
* **API routes, authentication, user scope, frontend, scripts.**
* **Parsing of source files**, the classification of positions, rule traces,
  paging and listings.
* **Ledger import, agent runs, the QDB refresh, the Livermore gate supplement,
  schema migrations**: see the plan.
* **Wall clocks that run backwards**: SQL reads order rows by `created_at`; the
  models stamp in commit order, `ProductCategoryPnl` and `PnlByBusiness` allow
  equal instants.
* **Torn lines**: a JSONL line is indivisible in `GovernanceStore`.
* **Broker backoff and the hour's time limit**: a run may fail or be interrupted
  at any step, which includes them.
* The job state a trigger records between record and message (but that it may
  raise), and the lookup of runs in flight by job state; a message that reaches the
  broker although `send` raised.
* `InMemoryTTLCache.set`, which only tests call; vendor snapshots and the storage
  modes of the archive (of which only the local one skips files that are gone); the rerun mark of a manifest row.
* `audit_pack` is a copy of older sources.

The components' notes and the hazards' notes in `PROJECT.json` say the same part
by part.

## 8. Plan

What is left, in the order of what it protects:

1. Composition of `RefreshTrigger` with `FormalMaterialize`: the trigger's
   worker as the handler, checked as a refinement of the reduced worker.
2. `LedgerImport`: duplicate detection by file hash beside the batch transaction.
3. `AgentRun`: a thread per run, one at a time, with a bounded cache of latest
   records beside the stream.
4. The synchronous triggers of QDB and Livermore as further services of
   `RefreshTrigger`.
