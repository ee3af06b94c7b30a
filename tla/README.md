# Verification of MinxiongHydroCast

MinxiongHydroCast collects rainfall alerts, flood-sensor measurements and rain
gauges for one township, keeps them as verified snapshots, serves them with an
explicit health state, backs the store up, relays alerts, archives radar
evidence of rain events for research, and builds and replays forecast datasets
from it.  This directory holds TLA+ models of the
parts of it that several processes, failures or long sequences of calls act on,
the TLC configurations that check them, and proofs that hold for any number of
processes and any bounds.

Paths below are relative to `src/minxionghydrocast/` unless they name `docs/` or
`deploy/`.

    tlc -workers 2 -config SnapshotStore.cfg SnapshotStore   # model-check a run
    tlapm BackupProofs.tla                                   # check the proofs

1. [The system](#1-the-system)
2. [The modules](#2-the-modules)
3. [The runs](#3-the-runs)
4. [Where code and documentation differ](#4-where-code-and-documentation-differ)
5. [The proofs](#5-the-proofs)
6. [What is not modelled](#6-what-is-not-modelled)
7. [The plan](#7-the-plan)

## 1. The system

### Processes and files

    systemd timer / --interval-seconds                     Prometheus, browser
            |                                                      |
        collector ----HTTP----> WRA, CWA                       operations API
            | publish, publish_failure, prune                      | read
            v                                                      v
       +------------------ snapshot store (directory) ----------------+
       | .collector.lock  latest.json  latest_attempt.json  snapshots/ |
       +----------------------------------------------------------------+
            ^ verify, tar                       | the archive and its sidecar
         backup (timer) ------------------------+--> backups/ ---> restore

       Alertmanager --webhook--> alert receiver --> alerts.jsonl, Discord

       discovery (timer) --> event evidence catalog <-- review, queue (operator)
                  |                 ^        |
                  v                 |        | promotion gate
       events/: plans, collections <+--- dataset build --> formal catalog, report
                  ^                          ^                     ^
                  +---- relocation ----------|---------------------+
                                  tracked manifest (repository)

       rolling backtest (operator) --> forecasts, scores, latest.json --> replay

Nothing but files connects the processes: each is a separate program, started by
a systemd timer or as a service, and each may be killed between any two writes.

### Inventory

| component | state | operations | what makes it hard | what makes it correct |
|---|---|---|---|---|
| **Collection lock** `operations/snapshot_store.py` (`collection_lock`, `_remove_stale_lock`) | the lock file: absent, empty, or a pid; its mtime | take, release, judge a lock stale, unlink it | every system call interleaves with other contenders; owners die with the file in place | one owner at a time; a dead owner's file goes away |
| **Snapshot store** `operations/snapshot_store.py` | snapshot directories with manifest and datasets, staging directories, two pointers | `publish`, `publish_failure`, `prune`, pointer reads, `verify_snapshot` | `prune` and readers run without the lock; kills and full disks at each write | pointers name complete snapshots and never go back; retention removes only what is old and unreferenced; a failed attempt leaves `latest` alone |
| **Backup and restore** `operations/backup.py` | archives, sidecars, the temporary archive; a restored target | `create_backup` with lock retries, `prune_backups`, `verify_backup`, `restore_backup` | the tar walk runs beside `prune`; archive and sidecar are two files | a reported backup restores, to exactly what was verified; young backups stay |
| **Collection, health, readiness** `operations/collector.py`, `health.py`, `api.py` | per attempt: mode, source kinds, health of every dataset; two pointers; the clock | `collect_records` (API, fallback, fixture), `build_payloads`, publication, `refresh_dataset_health`, `status_payload`, `dataset_payload` | data age between collection, publication and reading; the two pointers are read one after the other | "ready" stands on live, fresh, official data; what was published not ready stays so |
| **Flood-sensor feed and HTTP client** `ingestion/wra_flood_sensor_api.py`, `ingestion/http_client.py` | pages read, attempts of three nested retry loops | request, page, join, retry, fallback | two feeds change between requests of one collection | a result is a join that was published; nothing lost while feeds stand still; fallback after request failures only; it ends |
| **Alert receiver** `operations/alert_receiver.py`, `discord_notifications.py` | two append-only logs, Discord's channel, requests in flight | `POST /alerts`, append, send with retries, answer | concurrent handlers of one notification; lost answers; failed appends; kills | audited before shown, delivered before accepted; duplicates only from failures; eventually accepted |
| **Event discovery and catalog** `pipelines/event_discovery*.py`, `models/event_evidence_schemas.py` | catalog (cursor, candidates), and per candidate its plan, collection, frames, evidence | a discovery run of many file writes, ending in the catalog | the history index forgets; a run ends anywhere; files are damaged; evidence sources fail | storms counted once; frames kept; the catalog loads; a run that ends saves |
| **Event review** `pipelines/event_review.py` | the decision in the catalog, the official context files | approve, reject | between runs, over candidates later runs rewrite | final; only on complete, verified candidates |
| **Review queue and promotion gate** `pipelines/event_review_queue.py`, `event_promotion.py`, `models/event_splits.py` | none of their own | order the queue; gate a promotion | ties and unknown values; a catalog that others rewrite | the queue follows its policy; only what verifies is promoted |
| **Rolling backtest and its replay** `pipelines/rolling_backtest.py`, `backtest_store.py`, `research/replay.py` | forecast arrays, records, scores, `latest.json` | issue, defer, score, report, replay | array, then record: two files; interrupted runs; manifests that grow | a report is what its manifest implies; commitments are immutable; repeated runs settle |
| **Dataset build** `pipelines/dataset_build.py`, `models/dataset_schemas.py` | plans, collections, tensors, evaluations, archives, a checkpoint, the formal catalog, the verification report | build, assess, verify | a batch of many files that may fail anywhere, beside discovery and edits of the manifest; it shares files with discovery | a dataset that verifies is the work of one build |
| **Data-root relocation** `operations/data_root_relocation.py` | the documents that name absolute paths or their checksums | plan, preflight, apply, roll back | failed or killed between two documents and run again | a rerun completes; everything agrees at the new root |
| **Gap incidents, shadow readiness** `operations/gap_incidents.py`, `shadow.py` | none of their own | two reports over the attempts of a store | windows and boundaries, twice | no gap is missed or reported twice; the gate passes beside none |
| **Archive coverage** `research/archive_coverage.py`, `archive_inventory.py`, `models/archive_coverage.py` | none of its own | one report over inventories and files | a budget shared by all entries; duplicates, grids | counts add up; a budget only hides |
| **Training** `pipelines/torch_baseline_training.py` | the kept weights | epochs, early stopping | ties, the last epoch | the checkpoint is the best epoch's |
| Features and profiles, reports and export, run summary, scrapers, file/history/grid access, radar processing, baselines, spatial helpers, command line, scripts | none or derived | parsing, arithmetic, rendering | — | — |

`PROJECT.json` lists the same components with their source files, and under
`hazards` each place in the code where one of these things can go wrong and a
test hardly reaches, with the property that is about it.

### How the components interact

* The collector takes the **lock**, runs the **collection**, whose flood-sensor
  step is the **feed**, publishes a success or a failure to the **store**,
  releases the lock and, in its looping form, prunes the store *after that*.
* The **API** reads the store without any lock: first `latest.json`, then
  `latest_attempt.json`, then the manifest and the datasets.
* The **backup** holds the same lock as the collector.  `prune` does not hold
  it, which is why Backup is checked over the whole store and not over an
  abstraction of it.
* **Discovery** and **review** share one `flock`, which the kernel releases when
  its process dies, so they never overlap; what matters there is what an
  interrupted run leaves for the next.
* A **dataset build** reads the evidence catalog at its promotion gate and then
  writes the plan and the collection of a promoted candidate to the paths where
  discovery keeps them, without discovery's lock and without the catalog.
* A **relocation** rewrites what both have written, while the operator has stopped
  them; this is why one run composes all three.
* The **rolling backtest** has one `flock` and one `latest.json` for all configurations;
  forecasts and scores are kept apart by configuration.  The manifest and the cutoff are
  read before the lock is asked for, and a run that finds it held is refused.  Its replay,
  like the **queue**, the **coverage**, the **gap incidents** and the **shadow gate**,
  only reads.
* The **alert receiver** shares nothing with the others.

## 2. The modules

    Mutex  <---refines (until a misjudgement)---  CollectorLock
    AttemptLog  <------refines------  SnapshotStore  <--EXTENDS--  Backup
    Operations  <--EXTENDS--  OperationsMC
    DatasetBuild  <--EXTENDS--  DataRootRelocation  <--EXTENDS--  DataRootRelocationMC
    ReadinessReports, ArchiveCoverage, ReviewQueue, ModelTraining  <--EXTENDS--  AuditsMC
    AlertReceiver      FloodSensorFeed      EventDiscovery      RollingBacktest

The modules named `...Proofs` extend the module they are about; section 5 is about them.

Each module says in its header what it abstracts.  An action is one effect that
another process or a crash can observe; what the code does between two such
effects is one action.  Operators marked *Mutant* are variants with a plausible
mistake: substituted for the original they make a property fail, which shows that
the property depends on that line.  They take no part in any specification.

**CollectorLock** — one action per system call.  `lockFile` is the file at
`lock_path`: who made it, the pid it reads back, whether its mtime is over 60 s.
`Open`/`OpenFails` are `os.open(O_CREAT|O_EXCL)`, `WritePid`/`WriteFails` the
`os.write` and the `os.fsync`, which may fail with the pid written, `Release` the `unlink` in `finally`.  `ReadGone`, `ReadPid`,
`ReadUnreadable` are the read in `_remove_stale_lock`; `StatGone`, `StatFresh`,
`StatAged` the mtime test of an empty payload; `ProbeAlive`, `ProbeDead` are
`os.kill(pid, 0)`; `UnlinkStale` is the unlink *by path*.  `Crash`, `Exit` and
`Age` are the environment.  `misjudged` is a history variable: somebody has
unlinked a live owner's file.  **Mutex** is what a lock promises.

**SnapshotStore** — the store under collectors and readers.  A snapshot is a
number in the order of naming; `manifest[i]` is its directory (`absent`, `none`:
no manifest in it, `torn`, `ok`, `error`) and `i \in data` says that its dataset
files are there.  `publish` is `Stage`, `Rename`, `PointAttempt`, `PointLatest`,
`RecordRun`; `publish_failure` is `FailMkdir`, `FailOpen`, `FailWrite`,
`FailPoint`, `FailRecord`; a write that fails is `PublishFails`, `FailFails`.
`prune` reads both pointers (`ProtectLatest`, `ProtectAttempt`), goes through the
directories in any order (`Skip`, or `Visit` where `manifest.json` exists), reads the
manifest in a step of its own (`Keep`, `Expire`), and removes file by file
(`RmtreeManifest`, `RmtreeData`, `RmtreeDirectory`).  `PruneRaises` ends a looping
collector: over a manifest that does not parse or was removed since `exists()`, or over a
directory that another prune removes at the same time.  Before Python 3.13 `rmtree`
raises for any entry that is gone, so both may give up; `crowded` are the pruners that
were not alone over their directory, `abandoned` the directories given up.  A reader is
`ReadPointer`, `ReadManifest`, `VerifyDatasets`.  `Kill` stops a collector
anywhere, `Expires` lets the next snapshot pass the retention period.
**AttemptLog** is its abstract specification: an append-only log of attempts with
their outcome and a `latest` that moves only to the newest attempt and only when
it succeeded.

**Backup** — extends the store.  `create_backup` takes the lock with bounded
retries, verifies (`VerifyLatest`, `VerifySnapshot`, `NoLatest`, `Unsound`;
`SkipVanished` is a listed directory that is gone by then), adds the pointers, lists the snapshots and adds them one by one (`EnterSnapshot` lists
a directory, `AddFiles` adds what it listed, `Vanished` is a file that is gone),
closes and renames the archive, writes the sidecar, prunes old pairs (archive
first, then sidecar).  `StartRestore`, `Extract`, `FinishRestore` are
`restore_backup` with its count and pointer comparisons (`Matches`).  Every action
of the store goes on beside it.

**Operations** — one collection run: `StartRun`, then for each dataset the answer of
its adapter (`FetchApi` for the CWA gauges and the WRA warnings, `FetchEmpty` for no
warning, `FetchSensors` for the joined sensors, of which some are disabled), the page
(`Scrape`), the fixture (`FetchDemo`) or `CollectFails`; the health of each dataset as
`build_payloads` and `assess_dataset` compute it (`SourceHealth`, `UpstreamHealth`,
`FeatureHealth`), `Publish`/`PointLatest`/`PublishFailure` (`PointLatest` may fail before
or after the pointer is replaced, and the run then publishes a failed attempt), `KillRun`
at any point, the re-assessment at reading (`Refresh`, `Served`), the status request in
its three steps and the dataset request.  It relies on what SnapshotStore shows: one
collection at a time, pointers that can be read.

**FloodSensorFeed** — one collection: the requests with the client's retries, pages
with their repetition check, the two feeds, the join with its obstacles
(`Inconsistent` ones are tried again, `Unusable` ones are final), and what
`_collect_flood_sensors` does with the failure.  `FeedChanges` moves, edits or
adds rows between any two requests.

**AlertReceiver** — a handler per request, a step per append, post and answer.
A log is the set of requests with a readable line, and whether the file ends in an
unfinished one.

**EventDiscovery** — a run reads the catalog and the index (`Begin`), adds its triggers
one by one (`Scan`; `AddTrigger` is one turn of the loop in `apply_trigger_metrics`),
takes its steps per candidate (`WritePlan`, `ValidateFrames`, `Download`,
`WriteCollection`, `CaptureEvidence`) and comes to its end (`WriteCatalog`, or
`WriteCatalogFails` where verification or validation raise).  `Review` is `review_event_candidate`, which
persists the official context (`Contexts`, `Persisted`) before it validates: a review
that is refused then leaves its context file behind.
The environment publishes frames or leaves gaps, forgets frames after `Retained`,
kills runs and damages files.

**RollingBacktest** — a run over the origins of an event, one write per action:
`WriteArray`, `WriteRecord`, `ScoreNew`, `Report`; `CachedForecast`, `ScoreCached`
and `ScorePending` reuse or skip, `Defer` is the budget, `InputRefused` and
`TargetRefused` are the `ValueError`s.  A frame is its content, an array the inputs it
was computed from, so that a cache hit on the wrong file is visible.  A command takes its
cutoff from the clock (`Start`) or from `--as-of`, before or after the present
(`StartWithAsOf`); one that reads its manifest and then comes late (`Invoke`) is refused
while another run holds the lock (`AlreadyRunning`) or runs with what it has read
(`BeginOvertaken`).  The environment
captures frames late or never, lets the manifest grow or be revised, loses and
damages files, and kills runs.  `Shown` is what the replay makes of a report, with the
state of the target frame (`TargetStatus`).

**DatasetBuild** — a build, one action per file or group of files that nothing reads
in between, from `Start` with its `PromotionGate` over `WritePlan`,
`DownloadCollection` or `KeepCollection` (`--skip-download`), `Convert`, `RecordEvent`
and `Combine` to `WriteCatalog`, then `Train`, `Compare` and `Attach` for the assessed
model, and `Verify`.  The content of a computed file names what it was computed from
(`TensorOf`, `Archive`, `Fitted`, `Compared`): that is all a checksum can tell, and
what `CatalogOfOneBuild` is about.  `Refresh` is a discovery run as far as these files
go, `EditManifest` the operator's editor, `BuildEnds` a failure or a kill; `BuildRefused`
are the errors that need neither.  The comparisons of an assessment, none of which reads
another one, are made in any order.

**DataRootRelocation** — extends it by the move: `Preflight` and `Changes` are
`plan_data_root_relocation`, `Backup`, `WriteDocument` and `RollBack` are
`apply_data_root_relocation`, with a failure (`WriteFails`) or a kill
(`RelocationKilled`) at any document and any number of attempts.  `relocation` is the
planned change of each document and the set of those written; they are written by the
rank of their paths and restored in the opposite order (`Precedes`), and the collections,
whose names the model does not have, in any order among themselves.  `clean`,
`interrupted` and `accepted` are history: what the preflight would have said right
after the move, whether an attempt was killed half-way, and whether the operator had
it take damaged files as they were.

**ReadinessReports, ArchiveCoverage, ReviewQueue, ModelTraining** — programs that read
and compute.  Each is a module of operators named as in the code, with one property
that compares it with what it promises, or two programs with each other.  The shadow gate
and the gap incidents select attempts and judge them ready by definitions of their own
(`AttemptsInWindow`, `Successful`, `ReadyAttempts`; `Live`, `Readable`, `Ready`), as they
do in the code, and `GapsAccounted` compares the two.  Of an archived file `ArtifactStates` has the
point at which its check ends, failed system calls included (`probe_error`, `stat_error`,
`read_error`).  **AuditsMC**
enumerates their inputs: a state is an input, a step makes it one element longer.  Of
the training a step is an epoch (`Epoch`, while one is `Due`), and the state is what the
loop keeps.

## 3. The runs

Bounds are per `.cfg`; every one is a named constant.  All runs are exhaustive
within their bounds.  `CHECK_DEADLOCK FALSE` is set where the bounds stop the
system (no more snapshots, frames or faults) or where it really ends (a
collection, a notification that was accepted).

| run | what it shows | bounds |
|---|---|---|
| `lock` | type correctness; at most one owner until a misjudgement; verdicts are only about dead makers unless somebody stalls; dead owners' files go away; refinement of `Mutex` | 3 processes: two may exit or die, one may stall. Three is the least for the race: an owner, a contender with an old verdict, and a successor |
| `lock_race` | *violation* of `MutualExclusion` | 3 processes that exit, none stalls |
| `store` | the inductive invariant, readable pointers, readers that fail only where the pointer moved, retention, at most one incomplete directory for each failure, refinement of `AttemptLog` | 2 collectors, one looping (so that one prunes while the other publishes), 1 reader, 2 snapshots, 2 kills or failed writes. Readers do not influence anything; two snapshots give an old and a new one for each pointer; the proofs cover the rest |
| `backup` | backups that no removal overlapped restore; a restored store is exactly what was verified; at most one archive or sidecar without the other for each failure | 1 looping collector, 2 snapshots, 1 fault, 2 backups, 2 lock attempts |
| `operations` | ready answers stand on live, official data whose enabled records are fresh; no ready status beside a failed attempt; blocked stays blocked; feature ready only from upstreams healthy at publication | 2 feeds (one may be empty and is API-only, one is slow, located, has disabled records and may be scraped), 2 attempts, clock 0..2, age limits 1: data can be fresh, at the limit and over it, before and after publication |
| `flood_sensor_feed` | results joined from one transaction; complete while the feeds stand still; fallback only after request failures; the retries end | 2 sensors, page size 1 (so that a full page and a boundary exist), each retry loop twice, 2 changes of the feeds, settings `auto` and `scraper` |
| `alert_receiver` | audited before shown, delivered before accepted, duplicates and spoiled lines explained by failures, eventual acceptance | 2 notifications, one oversized, 2 posts per request, 2 faults: the second fault can hit the retry of the first |
| `event_discovery` | storms grouped as configured and counted once, the catalog loads, a run ends in a save unless a file was damaged, frames stay unless a run was interrupted, reviews are final | 6 frames; a storm of two frames a merge gap apart (one candidate) and one of three that exceeds the maximum window (two candidates); an index of 2 frames, so that it forgets part of each window; 2 faults |
| `backtest` | every report is what its manifest and `as_of` imply and can be replayed; runs fail only over revised or damaged files; commitments are immutable; repeated runs settle | 3 observations, 2 inputs, 1 lead, 1 new forecast a run: two origins have all their inputs, so one is deferred, and the lead of the last one stays pending; 2 faults, so that one can hit the retry of the other (a command overtaken by others counts as one); contents that rain, are blank, or lie on another grid |
| `dataset` | a dataset that verifies is the work of one build; evidence verifies unless a build has overwritten it; relocations can be repeated and leave everything in agreement | 4 events, one of them a candidate; 2 manifests that differ in an event and in the settings; 2 builds, so that one fails beside the result of the other; 1 fault (failure, kill, edit during a build, forgotten or missing file) |
| `dataset_evidence` | *violation* of `EvidenceDurable` | as `dataset` |
| `audits` | the gap incidents and the shadow gate agree; coverage adds up and a budget only hides; the queue follows its policy; the best epoch is kept | 4 attempts over 6 ticks with gaps at, below and above the limit and periods on both sides of it; 3 references over 2 entries of 3 slots, budgets 1 and 3; 2 candidates; 6 losses of 3 values, patience 0..3 |

`Safety` is, in each module that has one, the type invariant together with the named
invariants that need no excuse: `VerdictSound` (lock), `RestoredAsVerified` (backup),
`ShownIsAudited` and `AcceptedIsDelivered` (alert receiver), `FeatureReadyAtPublication`
(operations), `JoinedFromOneTransaction` and `FallbackOnlyAfterFailure` (feed),
`CatalogLoads`, `MergedAsConfigured` and `StormCounted` (discovery),
`ReportMatchesManifest` and `ReportReplays` (backtest), `CatalogOfOneBuild` (dataset).
In `store` this is `IInv`, the invariant the proofs use, which contains its `TypeOK`; in
discovery and in the dataset it contains the rest of the inductive invariant (section 5)
as well.

Of the `audits` run a state is the input of one of four programs, a step makes it longer,
and an invariant compares the program with its definition; only the training has steps of
its own, the epochs of its loop.  The inputs
are restricted where more would only repeat a case (see the guards of AuditsMC).
`GapsAccounted` is what `docs/incident_response.md` promises of the two reports, that the
incidents mirror "the shadow gate's ready definition and 192-hour window".

How the lock properties fit together: `VerdictSound` says that a verdict
"stale" is always about a file whose maker has died, or somebody stalled for a
minute; `ExclusiveUnlessMisjudged` that two owners need a verdict carried out on a
file it was not about.  Without a death, an exit or a stall there is no verdict,
hence no misjudgement, hence one owner.  With one of them there is the race of
`lock_race`.

### Fairness

* `CollectorLock`: weak fairness of each process's `Step` (a process that has not
  died runs on; the timers restart it) and strong fairness of `Age` (a minute
  passes however often the file is released in between).  `Crash`, `Exit` and
  `WriteFails` are never forced.
* `AlertReceiver`: weak fairness of *some* `Post` (Alertmanager's resend loop) and of
  *some* `Handle` (the server's threads).  Failures are never forced and are bounded,
  so `EventuallyAccepted` reads "once things stop failing".
* `FloodSensorFeed`: weak fairness of `Step`, justified by the timeout on every
  request.
* `RollingBacktest`: weak fairness of `Step` (a run that has not been killed goes on)
  and strong fairness of `Start`: the operator repeats the command, however often a run
  is killed in between.  Faults are bounded and never forced, so `EventuallySettled`
  excepts histories that were spoiled.
* `EventDiscovery`: `FairSpec`, weak fairness of `Discover` because the timer starts it
  again and again, is there for `InvalidOnlyTemporarily`; the run `event_discovery` is
  about safety.
* `SnapshotStore`, `Backup`, `Operations`, `DataRootRelocation`: safety only.  A build or
  a relocation is a command the operator may never repeat.

## 4. Where code and documentation differ

The first two are runs with `expect: violation` and entries under `findings`, which quote
the document.

* **`lock_race`** — a stale verdict is reached about one file and executed by path:
  a holder exits, another process takes the lock, and the contender removes that
  fresh lock.  Two collectors are then inside `collection_lock`.
* **`dataset_evidence`** — "Candidate frames, event plans, collection manifests, and
  synchronized evidence are durable and cataloged"
  (`docs/continuous_event_evidence.md:71`).  A build of a promoted candidate writes
  `events/<id>_plan.json` in its own form (`model_dump_json(indent=2)`, where discovery
  writes canonical bytes), even with `--skip-download`.  From then on the evidence catalog
  fails its verification: the next build is refused by the promotion gate, reviews are
  refused, the queue reports errors.  The next discovery run captures the candidate
  again; if a build has also replaced the collection and the source has forgotten the
  frames, an approved candidate stays incomplete and discovery ends in an error for ever.

The same holds of the following properties, which are stated in their modules and
checked by no run; each fails when it is put into the `.cfg` of its module:

* `Backup!BackupsRestore` — `prune` does not take the lock that `create_backup` relies
  on: it may remove a verified snapshot during the tar walk.  The backup is reported,
  and restoring it is refused.  It is never restored as something it is not
  (`RestoredAsVerified`).
* `AlertReceiver!AcceptedIsReadable` — after a failed partial append the next record
  continues the unfinished line; it is accepted and cannot be read.  The damage is
  bounded by the number of failed writes (`SpoiledRecordsBounded`).
* `EventDiscovery!FramesDurable` — a run interrupted between the collection manifest
  and the catalog makes the next run give up frames it has on disk.
* `EventDiscovery!InvalidOnlyTemporarily`, under `FairSpec` — damage to a reviewed
  candidate after the source has moved on blocks the catalog for good.

Observations made while modelling, which no document contradicts:

* A failed rebuild leaves the previous catalog and its "ok" report beside overwritten
  artifacts until the next verification.  The catalog records the checksum of the tracked
  manifest as it is when the catalog is written (`dataset_build.py:649`), and the assessment
  loads the manifest again; an edit during a build is not noticed.  `CatalogOfOneBuild`
  leaves such builds out (`raced`).
* A relocation refuses a checksum that was wrong before, except that of a collection it
  rewrites itself (`data_root_relocation.py:164`), and with `--refresh-artifact-checksums`
  none (`accepted`).  It is refused as well when the tracked manifest was edited since the
  build.  Its documents are replaced in the order of their paths, which puts both catalogs
  before the collections, and that is why a killed relocation can be repeated
  (`RelocationResumes`; its mutant is another order).  A kill between the catalog and the
  report leaves the report stale for good: a rerun finds the catalog done (`interrupted`).
* The stretch from the start of the window to the first ready attempt is no gap for either
  report (`gap_incidents.py:416` says so), so that the shadow gate can pass after hours
  without a ready snapshot, if the required rates allow.
* The queue ranks an unknown value as -1 (`event_review_queue.py:333`), before a measured
  negative reflectivity; `RankedByPolicy` is about values that are known.
* Training with zero epochs saves its checkpoint and then raises an `IndexError`.

Known limits that are design rather than disagreement, visible in the models: a
directory without a manifest (a kill inside `publish_failure` or `rmtree`) is
skipped by every later `prune` and fails every later backup until it is removed by
hand, so `RetentionUnlessFault` excludes faults, and `LeftoversBounded` says that there is
at most one such directory for each of them; half a backup stays for ever in the same way
(`HalfPairsBounded`); two prunes over one directory may both give it up, before Python 3.13;
a feature may be served ready beside
an upstream that went stale after the publication, so `FeatureReadyAtPublication` is
about the upstreams at publication.

## 5. The proofs

Each proof module extends the modules it is about and holds for every value of those
modules' constants: any processes, notifications, datasets, sensors, events and any bound;
for the audits any thresholds and lengths of what they read.  Each result rests on the one
named assumption of its module (of the audits, that of ReadinessReports), which says that
bounds are natural numbers and that the distinguished values are apart (and, of
DatasetBuild, that there is a manifest and that every one is valid, as its schema makes
sure).

    BackupProofs: SnapshotStore, then Backup over it
    DataRootRelocationProofs: DatasetBuild and DataRootRelocation
    OperationsProofs: Operations, and the audits
    CollectorLockProofs    AlertReceiverProofs
    RollingBacktestProofs  FloodSensorFeedProofs  EventDiscoveryProofs

The invariant that a module calls `IInv` or `Safety` is the inductive one, is an
invariant of its run as well, and its parts are named for what they are about.  The
proof modules have one lemma per action or group of actions; where an action disturbs
several parts, there is one step per part.  `THEOREM`s come last in each file.

| module | theorem | statement |
|---|---|---|
| `BackupProofs` | `InductiveInvariant`, `TypeCorrect` | `Spec => []IInv` of the store |
| | `LatestAlwaysReadable`, `AttemptAlwaysReadable`, `AttemptNeverBehind` | the pointers name complete manifests, `latest` a successful one, and `latest <= attempt` |
| | `PointersNeverRegress` | no step moves a pointer back; with the lock a mutex this follows from the invariant, so no run checks it |
| | `StoreImplementsAttemptLog` | refinement of `AttemptLog` |
| | `RetentionHolds` | a fault-free prune leaves only what is protected or young |
| | `ReadsSucceedUnlessReplaced` | a reader fails only where the pointer has moved |
| | `BackupImplementsStore` | `BackupSpec => Spec`: all of the above holds beside a backup |
| | `BackupIsSafe`, `RestoredIsVerified` | a restored store is what was verified under the lock |
| | `BackupsCanBeRestored` | undisturbed backups restore |
| | `YoungBackupsAreKept` | no step takes a young pair, by the guard of `PruneBackups`; no run checks it |
| `CollectorLockProofs` | `InductiveInvariant`, `VerdictsSound`, `OneOwner` | verdicts are sound; one owner until a misjudgement |
| | `LockImplementsMutex` | refinement of `Mutex` up to there |
| `OperationsProofs` | `InductiveInvariant`, `PublishedAsAssessed` | `Spec => []IInv`, `Spec => []Safety` |
| | `ReadyIsFresh`, `ReadyIsCurrent`, `BlockedForever` | what a ready answer stands on; what was blocked stays so |
| | `ReportsAlwaysAgree`, `GapsAreAccounted` | the gap incidents and the shadow gate agree, on any attempts and in every state of the audits |
| | `QueueIsRanked`, `QueueStaysRanked` | the queue follows its policy, for any catalog and in every state of the audits |
| | `BestEpochIsKept` | a training keeps its best epoch and stops when the patience is exhausted |
| `AlertReceiverProofs` | `AcceptedStandsOnAudit` | audited before shown, delivered before accepted |
| | `OneMessagePerFault`, `OneRecordPerFailedWrite` | the two counts |
| `RollingBacktestProofs` | `InductiveInvariant`, `ReportsAreSafe` | reports are what their manifest implies, and replay |
| | `CommitmentsHold` | commitments are immutable |
| | `RunsFailOnlyIfSpoiled` | kills, lost files and late frames fail no run |
| `FloodSensorFeedProofs` | `InductiveInvariant`, `CollectionIsSafe` | a result is one published join; fallback after failures only |
| | `CollectionIsComplete` | complete while the feeds stand still |
| `EventDiscoveryProofs` | `DiscoveryIsSafe` | the catalog loads, is merged as configured and counts the storm |
| | `UndamagedRunsPublish` | without damage every run that ends can save what it found |
| | `FramesAreKept` | uninterrupted and undamaged, catalogued frames stay |
| | `ReviewsAreFinal` | what was reviewed stays as it was reviewed |
| `DataRootRelocationProofs` | `DatasetIsSafe` | `Spec => []Safety`: an unraced dataset catalog is the work of one build |
| | `EvidenceIsDurable` | the evidence verifies unless a build has overwritten it |
| | `RelocationsResume` | a relocation that could succeed still can, wherever it was stopped |
| | `RelocatesTogether` | when it succeeds, everything agrees at the new root |

### Snapshot store

`LatestReadable` alone is not inductive, and each other part of `IInv` closes a gap:

* a pruner could remove what `latest` names: `PrunerInv` says that in `sweep`, `read` and
  `rmtree` both pointers are *safe* for it, that is protected or younger than its
  cutoff, and that its victim is not;
* the pointers move while it sweeps, so what they move *to* must be safe as well:
  `WriterInv` says that a writer's snapshot is above the horizon, hence above every
  cutoff, and that it is complete before a pointer names it;
* two writers could move pointers against each other: `LockInv` says that being
  between taking and releasing the lock is the same as holding it, so there is one
  writer;
* a new name could be one in use: `NamedInv` says that everything at or above `next`
  is absent;
* `AttemptReadable` and `AttemptCoversLatest` are needed of each other: `PointLatest`
  keeps the order because `WriterInv` says that the attempt is that snapshot already.

These are `StoreInv`.  `ReaderInv` adds that a reader looks at what `latest` names or
the pointer has been replaced, from which `ReadFailsOnlyIfReplaced` follows.
`RetentionInv` is the argument for retention: until something fails, a directory without
a manifest is being written or removed by somebody (`BareInv`), so that no prune skips
one for good, and all that a prune has to remove is still ahead of it, in somebody's
hands, gone, or given up by a prune that was not alone over it (`SweepInv`).

`PointersMoveBy`, `PointersMoveTo` and `AttemptManifestKept` say what a step may do to
the pointers and to the manifest the attempt names; the action property and the
refinement follow from these and `StoreInv`.

The store's lock is a mutex in this model.  Where the code's lock fails
(`lock_race`), the theorems' assumption fails too: they hold for schedules in which
no verdict is misdirected.

### Backup

The store's module knows of `Savers`, processes that take its lock and write nothing to
it.  A backup is one (`BackupAssumption`), and every step of `BackupNext` is a step of the
store, the saver's taking or releasing of the lock, or a stutter: this is
`BackupImplementsStore`, and it carries every theorem about the store over.  On top of
it `MakingInv` says that no directory appears under the lock, so that the temporary
archive holds only snapshots that were verified; `UnprunedInv` that without a removal it
holds all of them as they were; `BackupsInv` that a sidecar counts what was verified,
whatever the archive holds.  Then a restore that passes the count comparison has an
archive with as many of the verified snapshots as there were, hence all of them: a
subset of a finite set with its cardinality is the set.

### Collection lock

`ExclusiveUnlessMisjudged` (the file is its owner's) needs `FileOwned`: a file belongs to
an owner or to a process that died with it.  `VerdictSound` needs that an empty file is
only aged when its maker is dead or may stall (`EmptyAgesAlone`), and that between the
two looks of a process that does not stall no file ages (`StatSawAged`).  The refinement
maps the abstract holder to the owner, of whom there is one by `OneOwner`.

### Collection, health and readiness

`RunInv` and `PointerInv` order the attempts; `StatusInv` says that a status request
has read its two pointers in an order in which the second is not behind the first, from
which `ReadyAfterSuccess` follows; `PublishedInv` says that a published dataset which is
not ready has a reason that no later clock removes: a mode, a persistent state, an
invalid record, or an age, and ages grow (`AgeGrows`).

### Alert receiver

`RequestsSound` ties a handler's location to what it has written.  The bounds are
counting arguments.  `MessagesAccounted` counts, for each notification, its messages on
Discord, the handlers that may still show one, and the post that Alertmanager owes:
together never more than one more than the faults so far, since a step of a handler
moves one from a place to the next, and only a fault adds one.  `RecordsAccounted`
counts missing records and a torn last line against failed writes.

### Rolling backtest

The report is built window by window, from the manifest as read and from what is
stored.  `RunInv` says that the origins ahead of a run have no window yet and that the
one it is at is open; `WindowSound`, of the run's windows and of those of `latest.json`
alike (`LatestInv`), that what a window says was issued and scored is stored, and that
its leads are what its frames and cutoff imply.  `ReportMatchesManifest` follows when the
run has come to the end.  `UnspoiledInv` ties storage to the manifest: until something
is revised or damaged, every record is the forecast of the manifest's inputs with its
array, every score is the outcome of its target, and every manifest that was read is
part of the one there is.  Then nothing a run compares can differ, so it does not fail,
and the replay finds every status again (`ReportReplays`).

### Flood-sensor feed

`ReadInv` says that what has been read was listed since the transaction began, and that
every page in `pages` is full, which makes an earlier page differ from the empty last
one.  `PrefixInv` is the argument for completeness: while no feed has changed, the
measurements read are the first `(page - 1) * PageSize` of the feed, and all of it once
the catalog is read.  The page that ends the feed is the first that is not full
(`NextPart`, `AllRows`), the first obstacle exists if there is any (`FirstOf`, by
well-foundedness of `<`), and a join without obstacles has one pair for each
measurement of the target.

### Event discovery

A run rewrites the files of a candidate long before it saves what it has written, so the
invariant compares three things for each candidate: what the catalog says of it
(`Original`), what the run has made of it, and its files.

* `WorkInv`: the run has only added later triggers to pending candidates (`Extends`), and
  how far it is decides what else may differ (`Planned`, `Written`).
* `TriggerInv`: the triggers ahead of the run come after those it has added and after the
  cursor; every frame of the storm up to the run's cursor is in one of the two, or was out
  of the index before it could be read.  With it a trigger is never added to two
  candidates, and `StormCounted` holds again when the cursor moves.
* `Merged(run.work)`: two candidates never share a trigger, so that files of one are not
  files of another, which is what lets a step be looked at for one candidate alone.
* `DamageInv`: damaged evidence belongs to a candidate that the catalog vouches for, and
  the run unlinks it before it captures any, so that the damaged file is never catalogued.
* `UndamagedInv`: without damage the frames and the evidence on disk are those of the
  catalog, or more; the collection is too for a reviewed candidate, since its window is
  complete and what an interrupted run can have written is then the same
  (`CompleteCollected`).  This is why interruptions do not keep a later run from saving.
* `FramesInv`: without an interruption every collection on disk is the catalogued one, so
  that `_valid_previous_frames` gives no frame up.  An interruption between the collection
  and the catalog breaks exactly this part (section 4).

Five of the run's steps change one candidate and the files of this one.  `Stands` is what
the invariant says of them; one lemma for each step shows that it holds again, from
candidates and files alone, and `CandidateStep` that this is enough.

### Dataset build and data-root relocation

A build and a relocation are batches of writes, so that between two of them the files agree
with no catalog; the invariant says what they are a mixture of.

* `BuildInv`, of a build with which nothing has raced: `GatherInv` says that the artifacts
  of every event it is done with are recorded as they were made from one another, and that
  their tensors are still on disk, which is what `Combine` reads; the event at hand is as
  far as the build is.  `AssessInv` carries the same over `WriteCatalog`: the catalog is
  that of the build, and what training and the comparisons read on disk is what it names.
  With it `Attach` adds an assessment of these very archives.  The steps between need their
  events apart, which is why `IsInjective(build.todo)` is in the type invariant.
* `Origin` and `Target` are the files before and after the running relocation, and every
  file is one of the two (`ReplaceInv`): those in `relocation.written` are as planned, and
  these are the first ones of the order.  Then a failed attempt that rolls back restores
  `Origin`, the last document makes it `Target`, and everything else is said of both:
  `SoundInv` that both catalogs of both are typed, and that the dataset catalogs are the
  work of one build; `Relocated` that `Target` agrees at the new root.  `Relocated` holds
  when the command starts because the preflight has passed (`PlanAgrees`).
* A kill makes the mixture the origin of the next attempt.  That `OneBuild` and
  `EvidenceSound` hold of it is because a relocation rewrites nothing but roots and
  checksums, so that each catalog is of `Origin` or of `Target` and both are sound (`StopSafe`).
* The command gives the catalogs new checksums of the collections it rewrites, which is
  harmless for `CatalogOfOneBuild` only if it accepts no collection that is not the build's.
  `AllRecorded` and `EvidenceSound` show that: the dataset catalog names the plan that the
  build has written, the evidence catalog the one that discovery has, and a preflight that
  finds neither changed has no candidate in the dataset; the other collections have one
  capturer (`StagedDatasetSound`).
* `CleanInv` is the argument for `RelocationResumes`: each artifact of a catalog is as the
  catalog says, or a collection that is still below the old root.  The documents are
  written catalogs first, so an attempt that was killed has rewritten a collection only
  where the catalogs name it already; in another order this is what fails.
* `RootInv` says that before the first kill between two documents all of `Origin` is below
  the old root; with it the verification report of a dataset is rewritten with its catalog.

For each action there is a lemma; `EventStepSafe`, `OtherFilesSafe` and `CatalogStepSafe` do
for the steps of a build what does not depend on the step, `StillReplacing` and `StopSafe`
for those of a relocation.

### Audits

The reports and the queue are functions, and what matters about them holds of every
input, not only of those AuditsMC enumerates: `ReportsAlwaysAgree` and `QueueIsRanked`
are about any attempts, evidence and time, and any catalog without duplicate ids.
`AuditInv` says that the audits' inputs are such ones, and carries them over to its states.

* The ready times of a window are a bounded set of integers, so that a stretch without one
  has a last one before it and a first one after it (`Neighbours`, by the least and the
  greatest member of a bounded set).  These two are the ends of one window of the report and
  one difference of the gate; two incidents that held the same stretch would have the same
  ends.  A period of heavy rain has its own differences, of the ready times within it and its
  ends, and the same argument finds the one that an incident in it would exceed.
* `Precedes` is a strict total order on candidates with different ids, because the last
  criterion is the id.  Then no two have the same rank, and an injection of a finite set into
  as many numbers is a bijection: every place of the queue holds one candidate.  Reversing
  the catalog changes no rank.  The first criterion on which two items differ is the first
  component in which their keys differ (`KeyFollowsPolicy`).
* `RunSound` says that the run holds the best epoch of all so far, the number of epochs
  since, and that at none before the last one the patience was exhausted.

The training's property was first stated about a fold over all its losses; written as the
loop's steps it has an inductive invariant.  Where the code returns at the first condition
that holds (`_classify_incident`, the health of a dataset, the status of a replayed
forecast) the modules say `IF ... ELSE IF`: the arms of a `CASE` may be taken in any order,
and for overlapping conditions nothing could be proved of it.

### Only model-checked

* Liveness: `LockRecovered`, `EventuallyAccepted`, `CollectionEnds` and `EventuallySettled`.
* `LeftoversBounded` and `HalfPairsBounded`, which count what kills and failed writes leave.
* `CoverageAccounted`: the coverage and the budgeted plan are folds over the slots and the
  days of an archive; what a fold computes over sequences of any length takes induction over
  data, which these provers do not offer.

## 6. What is not modelled

* Contents: record values, formats, HTML pages, metrics, wording.  A checksum is
  modelled by what it tells apart; a parsing failure by its outcome.
* Loss of power: a kill keeps what was written.  The code calls `fsync` for the
  other case, and whether that suffices is a question about the file system.
* Reuse of a pid by another program while a lock file survives, which makes the lock
  refuse for ever.
* Frames the source lists late, behind the cursor: discovery never scans them, by
  design.
* History-index artifacts and the scan cache of discovery.
* Two builds, or two relocations, at the same time: nothing prevents them, and nothing
  starts them but the operator.
* More than one configuration of the backtest: they share the lock and `latest.json`, so
  that runs still come one after the other and the replay shows the last report, whichever
  its configuration; forecasts and scores lie in a directory of each.  The limits of the replay on sizes and counts, and the export of its pages.
* Numerical code (radar tensors, optical flow, networks, metrics, coordinates):
  floating point over arrays is out of a model checker's reach.  DatasetBuild keeps of
  it what a result depends on, ModelTraining the choice of the epoch.
* Scrapers, the parsing of sources, schemas, command lines and scripts: input validation
  without state.

## 7. The plan

Built in this order: CollectorLock and SnapshotStore (everything else stands on them), the
proofs of the store, Backup over it, Operations, AlertReceiver, FloodSensorFeed,
EventDiscovery, RollingBacktest, DatasetBuild, DataRootRelocation over it, and the audits;
then the proofs of the lock, the backup, the operations, the alert receiver, the backtest,
the feed, discovery, the dataset with its relocation, and the audits.

What would come next is in two other directions: the coverage of an archive as a program
with one step per reference, whose invariant the provers could follow as they do that of the
training; and an abstract specification of a batch of files that a catalog
vouches for, which discovery, a build and the backtest would each implement.
