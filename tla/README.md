# A verification project for dbtv

dbtv runs dbt projects locally: it captures the sources a selection needs as immutable
Parquet snapshots, publishes the set it will use as a *working dataset*, binds the
snapshots into a local DuckDB file and runs dbt there.  This directory holds TLA+ models of
the parts whose order of steps matters, the configurations that model-check them with TLC,
and proofs checked by TLAPS.  Paths below are relative to `src/dbtv/` in the repository.

* [The system](#the-system)
* [The modules](#the-modules)
* [SnapshotStore in detail](#snapshotstore-in-detail)
* [Refresh and Cancellation in detail](#refresh-and-cancellation-in-detail)
* [LocalBuilds in detail](#localbuilds-in-detail)
* [The planning modules in detail](#the-planning-modules-in-detail)
* [Runs and what they show](#runs-and-what-they-show)
* [Bounds](#bounds)
* [Fairness](#fairness)
* [Proofs](#proofs)
* [Disagreements with the documentation](#disagreements-with-the-documentation)
* [What is abstracted and what is not modelled](#what-is-abstracted-and-what-is-not-modelled)
* [Plan](#plan)

## The system

| Part | State it keeps | Operations | Talks to | What is hard about it |
|---|---|---|---|---|
| Snapshot store, `snapshot/store.py`, `snapshot/keys.py` | directories `snapshots/<source>/<key>` with data, `metadata.json`, `_SUCCESS`, `observation.json`; pending directories in `tmp` | `decide`, `write`, `load`, `validate`, `pin`, `rebuild_index`, (`garbage_collect`, called by no command) | state index, file locks, connectors' batches | files and rows change one after the other; crashes in between; a key is content-addressed, so a capture may meet an older directory of its own key |
| State index, `state.py` | SQLite tables `snapshots`, `datasets`, `dataset_snapshots`, `runs`, `bindings` | one transaction per method | everything | rows survive the files they describe and the other way round; the file itself may be deleted |
| Datasets, `datasets.py` | sidecar JSON under `.dbtv/datasets` | `commit_dataset` | state index | transaction first, sidecar afterwards |
| Source preparation, `sources.py` | none | `prepare_sources`, `source_levels`, `materialize_cohort` | store's `decide`, policy | validation marks rows CORRUPT; cohort children depend on their parent's snapshot |
| Orchestrator, `orchestration.py` | the run's state, transitions, resolved snapshots | `execute`, `_refresh` | all of the above, a thread pool, dbt, DuckDB | parallel captures, cancellation, failure at any step, nothing half published |
| Run budget, `resources.py` | row and byte counters, the monitor's failure | `consume`, `check_disk`, `start`, `stop` | cancellation token | shared counters, a monitor thread racing the workers |
| Cancellation, `core/cancellation.py` | event, callbacks, lock | `register`, `cancel`, `wait` | connectors, dbt process, SIGINT handler | a signal handler on the thread that holds the lock |
| File locks, `core/locks.py` | one `flock` per lock file | acquire with timeout, release | every command | who is excluded from what, and for how long |
| Maintenance commands, `cli/app.py` | none | `clean` (snapshots, runs, databases, caches), `datasets drop`, `status --rebuild-index`, `plan` | store, state index, files | `plan` writes rows without the workspace lock; targets are listed, then removed |
| Validation, `validation.py` | captured results, run records | `replay_run`, `compare_runs`, `validate_incremental` | orchestrator | multiset comparison; several runs in a row with the lock released in between |
| DuckDB backend, `backend/` | schemas, views and tables in the database file and in the catalogs attached to it | `bind`, `verify`, `check_prerequisites` | snapshots, writer lock, dbt | views change one at a time; the database is let go of before dbt opens it; the dbt of a killed run goes on in it |
| Project planning, `project/` | the parse cache of each fingerprint and target | `ProjectPlanner.build`, `upstream_sources`, `dependency_boundaries` | dbt subprocess, `parsing.lock` | two walks over two manifests that may disagree; a cached file and its checksum written one after the other, and removed by `clean` without that lock |
| Connectors, `connectors/` | a session, the active cursor | `open`, `extract`, `cancel`, `close` | Snowflake, Parquet files | a cancel that comes at the wrong moment |
| Snapshot policy, `snapshot/policy.py` | none | `apply_max_rows`, `evaluate_sampling` | source preparation | rules, tags, budgets and cohorts come together in one decision |
| Compatibility, credentials, configuration, events, rendering, diagnostics | none that is read back | pure checks, parsing, output | | |

How they interact: a run takes `workspace-use.lock` without waiting, plans, decides each
source (reuse, refresh or missing), pins the reused ones if asked, captures the others in a
thread pool, and publishes the whole source set in one SQLite transaction; the sidecar
follows, then binding and dbt, then the lock is released.  `clean`, `datasets drop` and
`status --rebuild-index` take the same lock.  `plan` does not; it and the planning phase of
every run share the parse cache under `parsing.lock`.  A replay and each run of
`validate-incremental` is a run of its own, with its own database, and takes and releases
the workspace lock by itself.

What makes each part correct: of the store and the index, that only complete published sets
are ever selected, at most one snapshot per request, with its files retained; of a rebuild,
that it recovers what is described and selects nothing that was never published; of the
orchestrator, that a failure anywhere publishes nothing and that everything opened is
closed; of the budget, that no run passes its limit unnoticed; of cancellation, that it is
never lost and never blocks; of the locks, mutual exclusion and release; of validation, that
a replay reproduces what it replays and that the compared runs used the inputs they name; of
the backend, that dbt only sees the published snapshots; of planning, that everything the
selection reads is in the plan, that a parse state restored is whole, and that a source is reused or
captured only as mode, policy and cohort allow.

## The modules

| Module | What it is |
|---|---|
| `Publication` | abstract specification: what is selected, registered, recorded and published, with no files, commands or crashes |
| `SnapshotStore` | snapshot directories, index rows, dataset registry and sidecars, and every command that changes them, step by step, with crashes, rotten files and a lost index |
| `MCSnapshotStore` | the small instances TLC checks |
| `SnapshotStoreProofs` | the type invariant and the three selection invariants, proved for all constants |
| `StoreRefinementProofs` | `SnapshotStore` implements `Publication`; retention, activation over present files, pins and recovery; proved for all constants |
| `Refresh` | one run's refresh: cohort levels, worker pool, connector sessions, run budget, disk monitor, and who sets and reads the cancellation token |
| `Cancellation` | the token's lock, list and event step by step, with dbt's process and the SIGINT handler on the main thread |
| `Token` | abstract specification: who is owed a call, who has been called, who withdrew, with no lock, list or threads |
| `MCRefresh`, `MCCancellation` | instances of `Refresh` and `Cancellation` |
| `RefreshProofs`, `CancellationProofs` | their safety properties, and that `Cancellation` implements `Token`, proved for all constants |
| `LocalBuilds` | the runs of a workspace from their directory to their exit code, the databases they bind and build in, replay and `validate-incremental`, and the commands that remove runs, databases and datasets |
| `MCLocalBuilds` | its instance |
| `LocalBuildsProofs` | all its properties, proved for all constants |
| `DbtGraph` | the two walks over dbt's two manifests: the sources to prepare and the relations that must exist |
| `ParseCache` | the cached parse states, shared by concurrent plans |
| `SourcePlanning` | `prepare_sources`: reuse, refresh, missing or refused, per source and cohort |
| `MCPlanning` | instances of these three, one behaviour exploring one of them |
| `DbtGraphProofs`, `ParseCacheProofs`, `SourcePlanningProofs` | all their properties, proved for all constants |

`Refresh` is the inside of `SnapshotStore`'s steps from `StartWrite` to `RecordCapture`: there a
capture is a sequence of file operations and threads only interleave; here a capture's
file operations are one step (`Commit`) and the threads are what is looked at.
`Cancellation` is the inside of the token's two operations, of which `Refresh` needs only
that the event is set at once.

`LocalBuilds` is what comes before and after: its step `Prepare` stands for planning, deciding
and refreshing, its step `Commit` for the publication, and what it looks at is binding, dbt, the records of the
run and the commands that look back at them.  `ParseCache`, `DbtGraph` and `SourcePlanning` are the inside
of `Prepare` up to the refresh: dbt parses the project, starting from the cached state; the walks go over the manifests
it writes; `prepare_sources` takes the sources they found.  `SourcePlanning` is also the inside of `SnapshotStore`'s `Decide`, which there chooses freely
among the actions the index and the files permit.

## SnapshotStore in detail

State and its code:

| Variables | Code |
|---|---|
| `disk`, `completed`, `metaPinned` | a snapshot directory as `validate` sees it: absent, sound, rotten (it no longer matches its metadata) or torn (half removed); `completed_at` and `pinned` of `metadata.json` |
| `row`, `active`, `rowPinned` | the `snapshots` table: its `state`, `active` and `pinned` columns |
| `datasets`, `times`, `latest` | the `datasets` and `dataset_snapshots` tables: registered payloads with their `completed_at` values, and the row with `active=1` |
| `sidecars`, `sideTimes` | the files of `.dbtv/datasets` |
| `phase`, `todo`, `queue`, `tail` | what the holder of `workspace-use.lock` is doing and has left to do |
| `stage`, `target`, `keep`, `failing` | per source request how far the run has come, the key it resolved, `--keep-snapshot`, and whether the run is draining after a failure |
| `readAt`, `readKey` | a `plan` process between reading a row, validating it and marking it |
| `published`, `kept`, `selection` | history variables; no action's guard reads them |
| `clock`, `faults` | bounds; `clock` also gives `completed_at` its order |

A snapshot key is a pair of a request and a content, because `snapshot_key` hashes the
request fingerprint and the content fingerprint; a dataset is the set of its members, because
its id hashes them.  Both are therefore the same value whenever the same thing is captured
or published again, which is what makes re-observation, replays and rebuilds interesting.

Actions follow the code's durable steps.  One operator stands for each SQLite transaction
(`RecordSnapshot`, `MarkCorrupt`, `CommitDataset`, ...); a run is `StartRun` (or
`StartReplay`, `StartNamed`), `Decide` per request, `Proceed`, `PinReused`, then per source
`StartWrite`, `Seal`, `Install` or `Match` (and `RepinMatched`), `RecordCapture` or `Abort`,
interleaved as the thread pool interleaves them, then `Publish`, `WriteSidecar`, `EndRun`.
`Cancel` may come at any step before publication, `Crash` at any step of any command.  `clean` removes each target by
`Tear`, `Erase`, `Forget`, since a crash inside `rmtree` leaves half a directory.  A rebuild
is `StartRebuild`, `RecordFile` per directory, `ListDatasets`, `Restore` per dataset in the
code's order, `EndRebuild`.  `plan` contributes `PlanRead`, `PlanValidate`, `PlanMark` at any time; it may read any COMMITTED row,
as `--snapshot-id` lets it name an inactive one.

Operators named "faulty variant" in a comment are never used by the specification; each is a
plausible bug in the definition that follows it, and with it in place TLC refutes the property it
is listed against.

## Refresh and Cancellation in detail

| Variables of `Refresh` | Code |
|---|---|
| `pc`, `remaining`, `known`, `caught`, `outcome` | the main thread in `_refresh` and the statements around it: sources of later levels, collected snapshots, the exception being raised, and what `_execute` reports |
| `task`, `error`, `attempt` | a source's future, where its worker stands in `refresh(source)`, what the future raises, retries |
| `holds`, `idle`, `live` | the connector a worker uses, those in the `LifoQueue`s, those open; a connector is named after the source that opened it |
| `rows`, `bytes`; `stored`, `storedBytes` | the budget's counters; the rows handed on to `write` |
| `cancelled`, `interrupted`, `monitor`, `failure` | the token's event, Ctrl-C, the monitor thread, `RunBudget.failure` |

The main thread: `Prepare`, then per level `SubmitLevel` (or `MaterializeFails`), `Collect` per future in
any order, `JoinPool`; after a failed future `CollectFailure`, `DropQueued`, `JoinPool`; then
`CloseSession`, `SessionsClosed`, `Finalize`, `Report`.  A worker: `Begin`, `TakeSession`,
`OpenSession`, `StartQuery`, `RetryQuery` or `QueryEnds`, `Batch` per batch, `EndExtraction`, `Commit`, any
of which may fail; `AbortQuery` is the driver's error after the token's callback aborted the query.
Which free session a worker takes is left open, as is the order of futures within a level.

In `Cancellation` each `Operation` (an extraction, or dbt on the main thread) walks through
`register` (`AcquireToRegister`, `Ask`, `Add`), its work, and `unregister` (`AcquireToUnregister`,
`Remove`); the handler and the disk monitor each walk through `cancel` (`Enter`, `SetEvent`, `Take`,
`Call`, `Finish`).  `Standing` maps this to `Token`: an operation is owed a call from its look at the event in `register`
(a `cancel` that comes before it is added must wait for the lock), while its callback is in the token's list or in one a canceller
has taken, until it is called or removes itself.  `Scheduled` keeps the main thread where it is while its signal handler runs.

## LocalBuilds in detail

What a relation holds is abstracted to the set of datasets its rows were read from: enough to tell an
old view from a new one, a table built upon leftovers from a fresh one, and an incremental
build from a full one.

| Variables | Code |
|---|---|
| `holder` | who holds `workspace-use.lock` |
| `opts` | what a run was asked for: command, models, `--full-refresh`, whether results are captured, the frozen dataset, the run it replays or continues |
| `phase`, `data`, `failed` | where `execute` is in a run, the dataset it resolved, the models dbt failed or skipped |
| `row`, `runJson`, `exit` | the run's row in `runs`, the state in its `run.json`, how its process ended |
| `toBind`, `view` | the views `bind` has still to create; the dataset each view reads, per database (or catalog, for an attached source) |
| `dbt`, `todo`, `from` | the dbt process, which may survive its run as an orphan, the models it has still to build, and where the rows of each table come from |
| `registered`, `recorded`, `captured` | datasets in the state index; runs with a `dataset.json`; captured results |
| `cleaned`, `report` | runs that lost records to `clean`; the outcome of `validate-incremental` |
| `faults`, `removals` | bounds |

A run is `Create` (its directory precedes the lock), `Enter` or `Refuse`, `RefuseBudget`, `Prepare`, `Commit`,
`BindSource` per source, `Verify`, `StartDbt`, `DbtBuilds` or `DbtFails` per model in dbt's order,
`Complete` or `LoseResults`, `Summarise`, `Finish`, and `Return`, or `ReturnFails` if `resources.json` cannot be written although the
outcome is on record; `Fail` may come inside the `try` block, followed by
`RecordFailure`, `WriteFailure` or `HandlerFails`; `Kill` at any time, which releases the lock and leaves dbt as an orphan
that goes on building (`DbtBuilds`) until `OrphanEnds`.  `Issue`, `Replay`, `Seed`, `Step` and `Reference` create
the runs of the commands that start them, each with the conditions the code checks first; `Compare` is the end of
`validate-incremental`.  `CleanRun`, `CleanDatabase`, `CleanCatalog` and `DropDataset` need the workspace lock to be free and may come
between any two runs.

## The planning modules in detail

**DbtGraph.**  `plan` holds the manifest and the selection per target, and the command.  `pending` and `visited` are the worklist of
`upstream_sources` under each target, `toMap`, `mapped` and `errors` the sources that `ProjectPlanner.build` maps one by one,
`expanding`, `inlined` and `required` the worklist of `dependency_boundaries` and what it finds.  `stage` moves from
`walk` over `map` (or `refused`, by a source that cannot be mapped or by the compatibility analysis) and `expand` to `done`.  The order in which a worklist takes its nodes is left open.

**ParseCache.**  `cached` and `checksum` are the two files per fingerprint and target, `target` the parse state in a plan's
target directory, `at` and `slot` where each plan is and what it resolves, `digest` the checksum it
computed, `parsing` the lock.  A file is the number of the dbt invocation that wrote it; both files are overwritten in
place, so each write is two steps and the file is torn in between.  `End` stands for a return, an error and a kill
alike, since the lock goes with the process.  `Clean` removes single files at any time.

**SourcePlanning.**  `ask` is everything `prepare_sources` is given: the mode, `--snapshot-id` or a frozen dataset, `--max-rows`, the rules and tags of every
source, and the snapshots with their age, rows and state.  `step` is the loop it is in, `todo` the sources left in it,
`request`, `action` and `chosen` the decisions so far, `active` and `corrupt` the index.  `DecideSource` and `RefuseSource`
are the first loop, `Levels` is `source_levels`, `SettleSource`, `SettleKeyed`, `SettleWaiting` and `RefuseSettled` the second, and
`Activate` is another command of the workspace committing a snapshot between any two decisions of a `plan`, which holds no lock.

## Runs and what they show

| Run | Question | Properties |
|---|---|---|
| `store` | all commands on two sources, one fault anywhere | `TypeOK`, which says that at most one dataset is active; at most one selected snapshot per request (`OneActivePerRequest`); only published snapshots are selected, rebuilds included (`SelectedIsPublished`); nothing but `clean --all` removes files that are selected or registered (`RetainedInputs`); no dataset becomes active over removed or half-removed files (`ActivatesPresentFiles`); a rebuild registers every dataset still described whose members were recovered, and selects something for each of its requests (`RebuildRecovers`); the index implements `Publication` (`ImplementsPublication`) |
| `store_plan` | a `plan` beside every command, runs with and without `--keep-snapshot` | a kept snapshot stays pinned in its metadata and its row (`KeptStayPinned`); a selected row is COMMITTED, whatever the planner marks (`ActiveIsCommitted`); `ImplementsPublication` |
| `store_live` | does every command end? | `EveryCommandEnds` |
| `store_repair` | does a refresh repair a corrupt snapshot? | `RefreshRepairs`, violated |
| `store_reorder` | does a rebuild keep the selection? | `RebuildKeepsSelection`, violated |
| `refresh` | three sources, one a cohort child, on two workers, with every failure, retry, Ctrl-C and a tripping disk monitor | `TypeOK`; a session is used by one worker at a time and never lost (`SessionsExclusive`); not more sessions than workers over all levels (`SessionsBounded`); nothing is open or running when the refresh is over (`NothingLeftOpen`); no batch beyond a limit is stored (`WithinBudget`); parents before children (`ParentsFirst`); published means complete (`PublishedComplete`); only the user's interrupt is reported as one (`CauseReported`); the refresh ends (`RefreshEnds`) |
| `refresh_interrupt` | is Ctrl-C reported as cancellation? | `InterruptReported`, violated |
| `cancellation` | two extractions, then dbt, with two cancellers | `TypeOK`; no callback is lost (`NoneForgotten`) or called twice (`CalledOnce`); dbt is stopped unless the handler is stuck (`CancelStopsDbt`); it implements `Token` (`ImplementsToken`) |
| `cancellation_signal` | does Ctrl-C always get through? | `HandlerReturns`, violated |
| `builds` | runs, replays and a `validate-incremental` on one workspace, with a failure or kill and a removal anywhere | `TypeOK`; dbt reads the run's dataset through every view (`DbtReadsInputs`) and builds on tables that are there (`BuildsOnExisting`); a run that rebuilds all it reads captures rows of its dataset only (`FreshResults`); a replay reproduces what it replays (`ReplayReproduces`); row, file and exit code agree, and a command that fails last leaves its outcome in both records (`SucceededHasEvidence`); nobody builds in another's database (`HomesAreSeparate`); a report is about a step built upon the initial state (`ReportIsIncremental`) |
| `builds_validate` | the same without the exception for `clean --runs`, no fault | `ReportIsAlwaysIncremental`, violated |
| `planning` | both walks over pairs of manifests; concurrent plans on the parse cache; decisions on three sources while the index changes | the walk finds the ancestors exactly (`WalkIsExact`); whatever a node reads is mapped, built or required (`ReadsAreProvided`); nothing is required that no node reads (`OnlyReadsAreRequired`); no torn parse state is restored (`RestoredIsWhole`); a run kept off the warehouse captures nothing (`OfflineNeverRefreshes`); decisions are within the policy (`AdmittedByPolicy`); a cohort reuses keys of the snapshot its parent reuses (`CohortFollowsParent`) |

A `plan` that validated a snapshot before a rebuild may mark it CORRUPT after it was restored, which deselects it as
the code means it to; `RebuildRecovers` allows for that, and for nothing else.  It is checked without planners and proved
with any number of them.

## Bounds

* Two requests on two sources and two contents give every overlap of two datasets: equal,
  nested, disjoint, and in conflict on one source.  `store_plan` needs only
  one request, since pins and planners concern one key at a time.
* `MaxClock` (2 or 3) bounds the directories ever installed.  Two are enough for a capture beside
  the one it replaces; three let a restore order matter (`store_reorder`).
* `MaxDatasets` (2 or 3) bounds datasets registered or recorded at once.  It takes the place of the disk
  budget, which is checked at the same point of a run: `Publish` then fails the run, which is a
  behaviour of the code.
* `MaxFaults` (1): one crash, rotten snapshot or lost index.  The steps after it are
  unbounded, so a crash of one command is followed by all the others.  The proofs need no bound.
* The two sources of `store` and `store_reorder` may be exchanged together with their requests, so these
  runs use that symmetry; the liveness run does not.
* `refresh`: three sources on two workers of one connection make a source wait for a worker, a
  worker take another's session, and a child follow its parent in a second level.  Batches of one and two
  rows against limits of two per source and three in all break either limit alone.  One retry
  tells the last attempt from those before it.  A row counts as one byte.
* `cancellation`: two extractions contend for the lock with each other and with both cancellers.
* `store` and the others leave out `KeepOptions` and `Planner`, which `store_plan` adds: pins have no
  influence on selection.
* `builds`: three runs are a `validate-incremental`, or a run with its replay beside another.  Two models, one
  incremental upon the other, on two sources, one of them in a catalog of its own, give prerequisites, tables built
  upon old rows, and views in both homes; two datasets tell old from new and may be exchanged.  `MaxCommands` (2) bounds the
  commands that are neither replay nor validation, `MaxFaults` (1) and `MaxRemovals` (1) what goes wrong
  and what is removed; an orphaned dbt is a fault whose steps are not bounded.  `builds_validate` needs no fault.
* `planning`: five nodes are a chain or a triangle of three models under two sources, with every choice of
  ephemeral models, a seed or a test among them, and a production target that agrees or differs in a parent, a source or a relation; some three
  thousand pairs.  Three plans of one fingerprint on two targets and four parses let a plan find
  what one killed plan left and another cleaned.  Three sources are a cohort of two beside an independent one, a chain, a cycle,
  or a child with two parents; four snapshots are one and an alternative, for parent and child; `Cap` 2 has rows below, at and above it.  The
  three parts share no state, so exploring one at a time loses nothing.

## Fairness

`FairSpec` adds `WF_vars(HolderStep)`: a live process that holds the workspace lock takes its next step.
That is what an operating system gives a Python process; the steps it stands for are file
operations, SQLite statements with a timeout, and worker threads that the pool joins.  A capture is assumed to end one way or the
other, by `Seal` or by `Abort`.  Nothing makes a user start a command, cancel one, or a fault occur, and planners are
under no fairness.  `EveryCommandEnds` is model-checked only.

`Refresh` is fair to its main thread and to each worker, for the same reason: queries have a
statement timeout, retries and batches are finite.  The monitor and the user are under no fairness.
`Cancellation` is fair to threads and to `cancel` once entered, strongly, since a lock they wait for may be
taken and released again and again; to the end of queries; and to the end of a dbt process that
was told to stop, which is killed after two seconds.  dbt need not end by itself.

`LocalBuilds` and the planning modules state no fairness: their properties are safety properties, and
that commands end is shown on `SnapshotStore` and `Refresh`.  Their behaviours end when nobody starts another command, which is why these runs do not check for deadlock.

## Proofs

TLAPS proves, for every value of the constants that the assumptions below allow (any number of
requests, sources, contents, planners, models, runs, faults):

| Theorem | Statement |
|---|---|
| `TypeCorrect` | `Spec => []TypeOK` |
| `UniqueSelection` | `Spec => []OneActivePerRequest` |
| `SelectionCommitted` | `Spec => []ActiveIsCommitted` |
| `SelectionPublished` | `Spec => []SelectedIsPublished` |
| `StoreImplementsPublication` | `Spec => ImplementsPublication` |
| `InputsRetained` | `Spec => RetainedInputs` |
| `FilesBehindActive` | `Spec => ActivatesPresentFiles` |
| `KeptPinned` | `Spec => []KeptStayPinned` |
| `RebuildRecoversAll` | `Spec => RebuildRecovers` |
| `RefreshTyped` | `Spec => []TypeOK` of `Refresh` |
| `BudgetRespected` | `Spec => []WithinBudget` |
| `SessionsNeverShared` | `Spec => []SessionsExclusive` |
| `SessionsNeverExceedWorkers` | `Spec => []SessionsBounded` |
| `NothingStaysOpen` | `Spec => []NothingLeftOpen` |
| `ParentsCapturedFirst` | `Spec => []ParentsFirst` |
| `CompleteOrNothing` | `Spec => []PublishedComplete` |
| `CausesReported` | `Spec => []CauseReported` |
| `NoCallbackForgotten` | `Spec => []NoneForgotten` |
| `CallbacksCalledOnce` | `Spec => []CalledOnce` |
| `TokenKept` | `Spec => ImplementsToken` |
| `TokenTyped` | `Spec => []TypeOK` of `Cancellation` |
| `BuildsTyped` | `Spec => []TypeOK` of `LocalBuilds` |
| `ViewsShowInputs` | `Spec => []DbtReadsInputs` |
| `PrerequisitesExist` | `Spec => []BuildsOnExisting` |
| `ResultsAreFresh` | `Spec => []FreshResults` |
| `ReplaysReproduce` | `Spec => []ReplayReproduces` |
| `RecordsAgree` | `Spec => []SucceededHasEvidence` |
| `HomesStaySeparate` | `Spec => HomesAreSeparate` |
| `ReportsAreIncremental` | `Spec => ReportIsIncremental` |
| `WalksExact`, `AllReadsProvided`, `NothingElseRequired` | `GraphSpec => []WalkIsExact`, `[]ReadsAreProvided`, `[]OnlyReadsAreRequired` |
| `OnlyWholeRestored` | `CacheSpec => []RestoredIsWhole` |
| `StaysOffTheWarehouse`, `PolicyHolds`, `CohortsHold` | `PrepareSpec => []OfflineNeverRefreshes`, `[]AdmittedByPolicy`, `[]CohortFollowsParent` |

*Assumptions.*  `StoreAssumption`: every request has a source; there is at least one request and one
content; the bounds are naturals.  Nothing about finiteness.  `RefreshAssumption`: finitely many
sources, acyclic cohorts with one parent each (`prepare_sources` refuses others), at least one worker,
batches that are not empty (an empty batch counts nothing and changes nothing).
`CancellationAssumption`: the main thread does not extract, the handler is not the monitor.
`LocalBuildsAssumption`: run identifiers are naturals; a model's upstream sources are its own and its parents', and
there is at least one (a model that reads no source at all is outside the model); commands are what the code lets a user ask.  It does not say
that the models are acyclic: the proofs only need that dbt takes a model after its parents.
`DbtGraphAssumption` and `ParseCacheAssumption` type the manifests and keep the special values apart.
`SourcePlanningAssumption` types the questions and says that a rule with a `where` strategy has a filter, as
`SamplingRule` does.

*Typing.*  `TypeOK` is not inductive by itself: `Publish` registers what the run has resolved,
which is a dataset only if no two of its requests read one source.  `Typed` adds that
(`DistinctInputs`), which `StartRun` checks and a replay inherits from its dataset.

*Selection.*  The three selection invariants are inductive only together with
`RestorablePublished`: whatever a rebuild may still restore (rows, sidecars, its queue and the
dataset it keeps for last) has been published, and a run whose sidecar is to be written has
registered its inputs.  Every step either leaves the selection alone (`KeptSelection`), changes
one row (`RowSelection`), activates a dataset (`CommitSelects`) or clears the rows.

*Refinement.*  `RestorableKnown` says that a rebuild's queue holds only registered or recorded
datasets, so that `Restore` is a `Recover` of the abstract specification; each action then maps
to one abstract action or to a stutter.

*Retention.*  `ListedUnused` says that what `clean` has listed is neither selected nor
referenced while it removes it: under the lock only a planner writes rows, and it only
deselects.

*Activation.*  `InputsPresent`: what a run has decided to reuse, installed or matched has a directory until the run is over.
`RecoveredPresent`: once a rebuild has gone through the directories, a COMMITTED row has one.  Both hold because only the
holder of the workspace lock removes directories; `Activatable` reads rows alone, and this is what ties them to
files.

*Pins.*  `InputsPinned` follows a keeping run: past `pinning` the key is pinned in its metadata, when `ready` also in its row if
it has one.  `RecordSnapshot` takes the pin of the metadata and not of the request, so a row made by anyone else has
it too.  `ListedUnkept`: `clean` lists what no row pins, so nothing kept; here the
pin needs the directory, and `FilesInv` gives it.

*Recovery.*  `RestoredSoFar`: of the datasets a rebuild started from, those no longer in its queue are recovered.  A later
`Restore` replaces selections of the same requests by its own and leaves none without one; a planner's mark
leaves the row that excuses it.

*Refresh.*  Each property has a strengthening of its own.  `Counted`: the store was handed no more than
was counted, and what was handed over was judged together with everything counted before.
`Ownership`: only a worker past `OpenSession` holds a session, and the session named after a
source has not been opened while that source is still to open it.  `Joined`: outside collecting and
draining no worker runs.  `Collected`: between levels everything submitted is known, and no error means
nothing is missing.  `OneHeld` and `PoolBounded`: a worker has one session and no more sources run than there are workers.  Sessions grow
only when a running worker finds none of its connection free; at that moment each of them is held by another running source, so
sending it to its holder is an injection into those that run, and the library's facts on injections give the bound.
`Caused`: the token is set only by the user, after the monitor's finding, or
when the main thread already has an error to report.

*Cancellation.*  `ListedOnce` and `ListedOrCalled`: a registered callback is in exactly one list or has been called
once.  `TakerPending`: while the event is set and the list is not empty or about to grow, some
canceller has still to take it.  For the refinement also `CallersCancelled`: whoever takes and calls callbacks has set the event.

*Builds.*  `BuildInv` has four parts, each inductive with the help of those before it.  `Typed`: types, and that a step has
a run as its home.  `Control`: a run past `Enter` and not over holds the lock, a running dbt belongs to
the run in phase `dbt`, and what row, file and exit code say in each phase.  `Sound(r)`: what the holder has
bound so far shows its dataset (`Bound`), what dbt has built so far was built in order (`InOrder`), and if
the run rebuilds all it reads, what it has built comes from its dataset alone (`Rebuilt`), and so do captured
results (`Results`).  An orphan may build in the same database at any time, also while the next run binds;
the argument is that it reads the same views and writes only rows of what these show, or of tables
not yet rebuilt, which the new run's own dbt replaces before it reads them.  `History`: a replay shares dataset and
models with the run it follows, and there is one step (`Follows`); the database of a replay or a seed holds only
what that run built, so its prerequisites are empty (`Alone`); a seed's database still holds its rows when its step
captures, unless the seed was cleaned (`Seeded`, `Stepped`).

*Walks.*  For both worklists, what has been seen and what is pending are together closed under the step, and lie within every
closed set around the start; when nothing is pending, that is the least closed set.  This replaces the
induction on paths that the prover cannot do.

*Parse cache.*  `Exclusive`: past the lock there is one plan.  `NothingTorn`: no checksum is of a torn file,
and the file the holder is about to copy is not torn.  `clean` only removes, which preserves both.

*Source preparation.*  `Sound(i)` holds once the first loop has decided on `i`, `Settled(i)` once the second has; a
source is settled after its parent, so that the parent's decision is final when the child's is taken.

Left to TLC: `EveryCommandEnds`, `RefreshEnds` and `CancelStopsDbt`, since liveness under fairness is out of the prover's reach.  Every
other property of a passing run is a theorem.

## Disagreements with the documentation

* `RefreshRepairs`.  `docs/troubleshooting.md:8`: "Corrupt cache: it is marked `CORRUPT` and
  never selected; refresh or clean it."  If the source has not changed, the refresh produces the key that
  is already on disk; `write` drops the new capture, validates the damaged directory and fails,
  every time.  `clean --snapshots` does not help while a registered dataset references it.
* `RebuildKeepsSelection`.  `docs/architecture.md:55`: "SQLite is authoritative for complete
  dataset activation; post-commit dataset sidecars support recovery."  A rebuild restores the
  dataset that was active last, and the others in the order of their newest `completed_at`.  If
  an older capture was activated again (a replay, `--snapshot-id`) and the latest run did not
  use that source, the rebuild selects the newer capture instead, although the index still
  held the answer when it cleared the rows.

* `InterruptReported`.  `docs/commands.md:42`: "Exit codes are stable: 1 dbt failure, [...] 5
  extraction, [...] and 130 cancellation."  Ctrl-C aborts a running Snowflake query; the driver's
  error is not retryable, and `extract` wraps it in an `ExtractionError` without asking the token, so
  the run exits 5.  The Parquet connector asks first.
* `HandlerReturns`.  `core/cancellation.py:10`: "Thread-safe cooperative cancellation shared by
  extraction and dbt execution."  The SIGINT handler runs `cancel` on the main thread.  If it interrupts `register`
  or `unregister` of dbt's callback there, it waits for the lock that the interrupted code holds, for
  ever.  `CancelStopsDbt` shows that this is the only way a cancelled dbt is left running.

* `ReportIsAlwaysIncremental`.  `docs/local-runtime.md:155`: "Validation builds the initial state, applies the next
  dataset incrementally, and compares against a separate fresh build".  The workspace lock is free between the runs of the command;
  a `clean --runs` that comes between the first two removes the database of the initial build, `bind` makes a
  new one, dbt builds the incremental models from nothing, and the command reports `equal` although nothing was applied
  incrementally.  `ReportIsIncremental` shows that this is the only way.

Found while reading, and not the subject of a run:

* `docs/implementation-plan.md:783` says of `--snapshot-id` "use an exact committed snapshot or fail".  If the named snapshot
  has expired, `decide` answers REFRESH in `auto` mode and the run captures a new one.
* `_relation` (`project/manifest.py`) gives dbt snapshots no relation, so one that is a prerequisite is never found
  and captured results leave snapshots out.
* The project may be edited between the fingerprint of the plan and the dbt run that uses it; nothing compares them again.
* The query of a cohort child is built from its `where` alone: `--max-rows` is enforced by the run budget, which fails the run, and not by a limit in
  the query.

## What is abstracted and what is not modelled

* Pending directories under `tmp` are not state: nothing but `clean` reads them.
* Time to live, receipts and tag ages decide reuse against refresh; `DecideUsable` leaves that choice open.
* What `cache.integrity` detects is "rotten"; damage it is configured not to look for is outside the model.
* `--older-than` and the choice of kinds make `clean` remove any subset of what it may remove.
* The per-source `snapshot-<hash>.lock` only guards against other processes, which `workspace-use.lock` already excludes.
* An `OSError` while writing the sidecar is the same as a crash there, except for the exit code.
* The loop of `rebuild_index` that activates snapshots without a connection scope does nothing in this version: every request has one.
* `garbage_collect` is called by no command.
* Losing the index stands for deleting `state.sqlite`; `initialize` then creates an empty one.
* A connector whose `close` raises would leave the other queued sessions open; both built-in ones do not.
* A query cancelled before its id is known is not aborted and runs on until it ends or times out.
* A second Ctrl-C finds the event set and returns, so one handler call per run is enough.
* In `Refresh` the main thread's own `cancel` after a failed source is `CollectFailure`; `Cancellation` leaves it out.  It runs while only
  extractions are registered and takes the steps of the monitor's call.
* What `check_disk` measures is left open: it may fail whenever it is called.
* In `LocalBuilds` the rows of a relation are the datasets they come from; tables with the same origin are equal when compared, others
  may be.  How `compare_runs` compares rows is data.
* `clean --all` also removes the state index: in `LocalBuilds` the registered datasets go one by one, and the rows of
  `runs`, which nothing reads, stay.  What a lost index means for snapshots is in `SnapshotStore`.
* A command that is refused before its run has a directory leaves nothing, and is not a step.
* Run identifiers are random in the code and numbered in order in the model; nothing compares them.
* `cache_parsing: false` skips every step of `ParseCache` but `Parse`.  The digest of a torn file never equals that of a whole one.
* Fingerprints are a parameter: that equal fingerprints mean equal projects is hashing.
* Ambiguous routes and rules, unreadable profiles and insufficient fidelity refuse a source in `SourcePlanning` at any time
  (`RefuseSource`).  The expired snapshot that a REFRESH decision mentions in its reason is left out.
* Which rule of a profile applies to a source, and what its tags say, is part of the question.

Not modelled, and why:

* Credentials, configuration, errors, data models, units, hashing, redaction: no state of their own, or pure conversions.
* Events, rendering, diagnostics, `logs`, `doctor`, `init`, `shell`: output, or files nothing else reads.
* The bytes of pending directories that other processes write while the quota is computed (`snapshot/store.py:180`): needs
  byte counts per directory; `check_disk`, which looks again later, may fail at any time in `Refresh`.
* The window between polling the dbt process and signalling its group (`project/dbt_invoker.py:118`): the reuse of process numbers
  belongs to the operating system.
* `compatibility.py`, types and query text: pure checks and strings; their verdict is a choice of `StartBoundaries`, and a failure that
  `Prepare` or a capture may have.

## Plan

Done: `Publication` and `SnapshotStore`; `Refresh`; `Cancellation`; `LocalBuilds`; `DbtGraph`, `ParseCache` and `SourcePlanning`; their
runs; and the proofs above.

Left: an abstract specification of the parse cache (one atomic entry per target) that `ParseCache` implements, and one of a
refresh (sources captured one by one, then all or nothing) that `Refresh` implements, in the way of `Publication` and `Token`.
