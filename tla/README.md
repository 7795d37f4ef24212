# A TLA+ model of the algo-trading monorepo

This directory holds TLA+ modules, TLC configurations and TLAPS proofs about the
algo-trading monorepo: how bars reach the database, how a day's models are trained
on the NIBI cluster and brought back, and how the backend and the frontend serve
them. Source paths below are relative to the repository; `PROJECT.json` maps each
definition to the lines it stands for, and lists every component and every hazard.

## 1. The system

Collectors copy five-minute bars into Postgres, where they are aggregated to
15-minute windows; repairs and refetches mend what is missing. Airflow DAGs and
shell scripts export them, send them to the NIBI Slurm cluster over SSH and rsync,
start training jobs there, pull the model bundles back and move symlinks. A FastAPI
backend loads models and replays through those links and serves two frontends.

| Component | State it keeps | Operations | Interacts through |
|---|---|---|---|
| Collectors, 15-minute pipeline, staging export (`services/collector`) | staging, core and window tables, freshness marker | collect, export, truncate, aggregate, write marker | Postgres; a JSON file two DAGs read |
| Repairs, refetches, historical loads (`backfill_*`, `refetch_*`, `monthly_fmp_refresh.py`, `fill_gap.py`, `import_fmp_to_db.py`, ...) | the same tables, checkpoints, summaries, CSV files | load again, upsert, recompute, resume | Postgres, files |
| Input preparation (coverage, `export_parquet`, `sync_*`, `nibi_orchestrator.py`, shell scripts) | the snapshot, its `.tmp`, the remote copies | repair, export, upload, sync code | shared file names, here and on NIBI |
| Nightly DAGs (`nibi_daily_training_dag.py`, `nibi_base_only_training_dag.py`) | Airflow run and XComs, a job record per date | ship base, clean, submit, poll, validate, pull, promote, clean up, reload | SSH/rsync, files, links, HTTP |
| Intraday DAG (`nibi_intraday_warmrefresh_dag.py`) | the same per 15-minute slot | gate, submit, poll, validate or flag, pull, promote | the same |
| Post-market catch-up, midnight fallback | Airflow run; no record | base training; trigger a DAG | the same |
| Scripts by hand (`run_nibi_pipeline.sh`, `promote_new_base.sh`, `promote_model.sh`, `run_nibi_base_only.sh`) | links, bundle directories, a flow file | train, pull, promote; a dashboard watches the last | the same |
| NIBI jobs (`run_simulation_day.py`, sbatch scripts) | `run_root`: `current/`, `.current_tmp`, `step_XX/`, `SIMULATION_DONE` | base training, 26 warm-refresh windows, snapshots, sentinel | one shared directory |
| Daily training on DRAC (`daily_drac_training_dag.py`, `ml/drac`) | an id file there; a registry with a `latest` link here | submit, poll, train, sync, verify | Slurm, rsync, files |
| XGBoost core (`XG_boost_3_multigpu_final.py`) | bundle registry, a set of horizon models per directory | bootstrap, refresh, cycle, predict, replay, simulate | files |
| Backend (`services/backend`) | per worker: cached bundles, replay loader, log buffer and subscribers; reference tables | bootstrap, reload, predict, replay, stream, snapshot | links, HTTP, Postgres |
| Streamlit frontend | one cache for all sessions | replay and snapshot pages | HTTP |
| React frontend, notebooks, reports, deployment | none of the pipeline's | display, experiments | HTTP, files |
| dw-api | a staging table of its own | queries; inserts a posted bar and lists its symbol in `staging.ingestion_progress` | HTTP, Postgres |

**What is hard.** Almost everything is shared and unlocked. All jobs of all DAGs
write to one `run_root`; `max_active_runs=1` keeps two runs of one DAG apart, never
two DAGs. SSH answers get lost after the command took effect. Jobs die between two
renames, tasks between two symlinks, loads between two commits, and operators clear
runs so that old job records meet new `run_root`s. `SIMULATION_DONE` does not say
which job wrote it, `current/` not who trained it, `warm_<date>` only the date, and
a `.parquet` not who is writing it. All promotions go through one temporary link
name. In the backend, caches are cleared while requests fill them, an object is
reloaded in place under its readers, and a list is walked in one thread while
another shortens it.

**What correctness means**, per component:

- bars: a gap has one of three causes (the vendor, an interruption, a truncation under a
  backfill); the marker names only windows that are there for the counted symbols that
  are aggregated; truncation takes nothing that was not exported; a resumed load skips
  only what was loaded;
- inputs: a job reads one whole snapshot and one code, with its cutoff date in it;
- NIBI jobs: the sentinel is written only after every window succeeded, and while
  nobody interferes it vouches for every step; predictions do not outlive their model;
- registry and training: a promotion that dies loses no served model; predictions and
  reports name the model they came from; nothing is learnt from the answer it is
  asked for; predictions come from one set of models;
- DAGs: no job in flight is forgotten, records do not claim results that are not
  there, a run publishes its own job's bundle in one piece, a green run is the live one;
- promotion: `current_base` stays set, always points to a bundle somebody checked, and
  a promotion that ran alone publishes its own;
- backend: a reload sticks, an answer comes from one replay, a log line reaches its
  listeners; frontend: a page catches up with the backend.

None of these holds without a condition; the conditions are what the properties are
about. `PROJECT.json` lists the hazards behind them with their lines.

## 2. Modules

### Trainings and promotions

| Module | Models | Correspondence |
|---|---|---|
| `LinkRegister` | what readers of `current_base` are promised | abstract: a pointer over verified directories |
| `SymlinkSwap` | `_atomic_symlink()` of the DAGs | one action per system call (`Look`, `Unlink`, `MakeTmp`, `Rename`), `Enter` for the check before it, `Kill` between calls |
| `NibiCluster` | Slurm jobs and `run_root` | `Start` the head of the sbatch scripts, `Read`/`Train`/`Publish` one stage of `run_simulation_day.py` up to each point another job can see, `Snapshot`, `WindowError`, `WriteDone`, `Exit`, `ExitFailed`, `Die`; the commands `Sbatch`, `Wipe`, `ShipBase`, `Predict` |
| `ArtifactStore` | `model_artifacts/` | directories with two halves of a bundle, the three links |
| `TrainingDags` | the daily and the base-only DAG from the clean on | one action per task, more for tasks with several visible effects: `clean` is `CheckQueue` and `WipeRunRoot`, `rsync` is `PullModels` and `PullRest`, `promote` one action per link and `Cleanup`; `Raise` for retries, `Clear` for the operator |
| `IntradayDag` | the intraday DAG | the same; `Tail` is what ALL_DONE tasks do after a failed head |
| `NibiPipeline` | daily and intraday DAG together | interleaved over one `NibiCluster` and one `ArtifactStore` |
| `CatchupDag` | the post-market DAG's training | `submit` without a record, `poll`, pull and promotion in one task |
| `TrainingDay` | the three combinations of DAGs that meet: at night, by day, in the evening; the fallback | `NightPart`, `DayPart`, `EveningPart`; `CheckBundle`, `TriggerTraining`, `StartTriggered`; extends `NibiPipeline` and `CatchupDag` |
| `ClusterInputs` | the tasks before the clean, in five flows | coverage, export chunk by chunk, `.tmp` and rename, scp and rsync as a beginning and an end, the reads of each window |
| `HandPromotion` | three promotion scripts | one action per command; `mv` follows a link that leads to a directory; a reload may answer 500 with nothing loaded, which `curl -s` lets pass |
| `BaseFlow` | `run_nibi_base_only.sh`, `auto_login.py`, the dashboard's flow | one action per stage, which writes the flow file; `SnapshotShown`, `TrainShown` are what the dashboard computes |
| `ModelRegistry` | the bundle registry | `copy_bundle()` rename by rename for two names, per command |
| `DracTraining` | the DRAC DAG with its jobs | the id file written and read in steps of their own; `Verify` and `Relink` are the removal and the making of `latest`; a job takes its date when it starts, copies file by file and moves the link too |
| `HorizonTraining` | one training process from within | a pool that fits one horizon per file, candidates, replays, simulations |
| `TrainingSplits` | which rows are learnt and asked | folds, held-out block, replay, simulation |
| `FeatureRows` | which bars a feature is made of | the script's load by dates against the backend's by rows |

### Bars and tables

| Module | Models | Correspondence |
|---|---|---|
| `BarCollection` | the vendor, the collectors, export, truncation | `Insert` one turn of `_insert_batch`; `ExportTo`, `Truncate` a transaction each |
| `MarketData` | windows, gate, marker, coverage, snapshot | extends `BarCollection`; one action per transaction or file of four scripts; `Processed` is `dw.process_15min_window` for the symbols of `staging.ingestion_progress` (`listed`), `ProcessedDay` a loop of its calls |
| `GapRepair` | three repairs of the 15-minute table | what a transaction has not committed is invisible to others |
| `VendorRefetch` | two refetch scripts and the monthly DAG | a month committed symbol by symbol, the checkpoint, resumption |
| `ReferenceTables` | bootstrap, seed DAG, backfill, monthly refresh, two loads | a transaction is a step; `TRUNCATE` waits for the bootstrap's lock |
| `TickerTables` | `import_fmp_to_db.py` and `fill_gap.py` on tables without keys | any number of runs of both, which nothing keeps apart; per ticker: replace, COPY; look at the last row, fetch and read the CSV, write the CSV, append |
| `ArchiveFiles` | the archive's files of bars and the two loaders that read them | files are opened, filled and closed in place; loads file by file |
| `VendorLanding` | the files a landing run leaves beside them, and its report | extends `ArchiveFiles`; what it counts while it writes is what it reports |

### Backend and frontend

| Module | Models | Correspondence |
|---|---|---|
| `ModelServing` | `get_model_bundle()` under `lru_cache` in each worker | a load reads the metadata, then the models, through the moving link; `CacheClear` |
| `ReplayLoader` | `SimulationLoader` | `__init__` file by file on the shared object; readers field by field |
| `TrainingLog` | the live log | `Put` one turn of `_broadcast()`; the generator's replay and live part |
| `FrontendPages` | the replay and the snapshot page | `st.cache_data` entries with an age, one request per key at a time |

Proof modules: `SymlinkSwapProofs`, `NibiClusterProofs`, `TrainingDagsProofs`,
`PromotionProofs`, `ServicesProofs` (backend and training script), `MarketDataProofs`
(with `VendorRefetch` and `GapRepair`), `DracTrainingProofs` (with `ClusterInputs`),
`OperationsProofs` (the other parts of the `operations` run). `SymlinkSwapProofs` has
`HandPromotion` too.
Modules for TLC: `MCOperations`, `MCCluster`, `MCMarketData`, `MCServices`.

**Composition.** `TrainingDags`, `IntradayDag` and `CatchupDag` extend `ArtifactStore`,
which extends `NibiCluster`: every DAG acts on the same `run_root` and the same links.
`MarketData` extends `BarCollection`. Where the code shares nothing between two parts,
their modules share nothing either.

**Abstractions.** A model bundle is who trained it, at which window, and whether its
chain of warm starts begins with a base model (`rooted`); parquet files are sets of
dates or windows, bars are numbers with a quality, and no price is modelled. A derived
column is the row it was taken from. The 26 windows, horizons and cutoffs are
constants. A bundle directory has a `head` (the horizon models) and a `manifest`,
because an rsync of `current/` can be overtaken by a rename on the other side, and the
manifest is what `promote_model` looks for. In the DAG modules a move of one link is
one step; its four system calls are the subject of `SymlinkSwap`. Variables marked
*history* are read by no guard; properties use them to say "nobody else interfered".

**An SSH call** is a step of its own wherever another actor can act before or after it.
Its answer may be lost after it took effect (`SubmitLost`, `WipeRunRoot` followed by
`Raise`), it may fail before (`TaskFails`), and where the code ignores the return code,
as in the two looks at `squeue` (`QueueAnswers`) and in the second call of
`validate_artifacts`, a failed call is an empty answer. **A transaction** is one step
unless its reads and its commit can be told apart by somebody else, as in the
bootstrap and in the FMP backfill.

## 3. Runs

A run asks one group of questions. The four `MC` modules put parts side by side that
share no state: a variable (`which`) set in the initial state chooses the part that
runs, and the other variables stay as they are, so the state space of a run is the sum
of its parts, not their product.

| Run | Parts and bounds | States | Checks |
|---|---|---|---|
| `operations` | `SymlinkSwap`: 3 promoters, 2 directories. `BaseFlow`: 2 dates, 2 jobs, 1 login. `ReferenceTables`: 2 symbols, 5 program starts. `TickerTables`: 2 tickers, 9 bars, up to 2 runs of each script and 3 together, in any overlap. `FrontendPages`: 2 replays, 2 builds, an hour of 2 ticks. `DracTraining`: 2 days, 2 jobs, 1 retry or cleared run. `ArchiveFiles`, `VendorLanding`: 2 shares, 2 days of 2 rows, 2 starts | 3.6 million | `FailureNeedsOverlap`, `SoloPublishesItsOwn`, `RegisterSpec` (refinement); `ShownIsDone`; `TablesHaveCause`, `BootFailsForCause`; `RowsHaveCause`; `PagesCatchUp`; `DracVouches`; `FilesHaveCause` |
| `cluster` | `NibiCluster`: 2 jobs of any kind, 2 windows. `ClusterInputs`: any 2 of 5 flows, 1 kill or restart, 2 code versions. `HandPromotion`: 2 script starts | 5.1 million | `SentinelIsHonest`, `SentinelVouches`, `OwnLineage`, `PredictionsFollowModel`; `InputsAreSound`; `HandPromotionSettles` |
| `nightly` | `TrainingDags`: one of the two DAGs alone (`OneDagRuns`), 2 dates, 2 jobs, 1 retry, clears of both kinds, `nibi_skip_base`, cleanup after 0 days | 1.6 million | `GreenRunIsLive`, `NoForgottenJob`, `CleanupSparesLive` |
| `training` | `TrainingDay`: one date, one slot, 2 jobs; at night both nightly DAGs, by day the daily one and the slot, in the evening the base-only one, catch-up and fallback; 1 retry of slot and catch-up, any number of clears of a failed task | 3.0 million | `RecordIsHonest`, `NoForgottenTraining`, `PromotedIsOwn`, `DayPublishesItsOwn` |
| `market_data` | `MarketData`: 2 scripts at a time, 4 bars, windows of 2, 1 fault, or none and any symbols listed in `ingestion_progress`. `VendorRefetch`: 2 symbols, 2 months of 2 chunks, 2 runs. `GapRepair`: 3 days of 2 windows, a weekend | 4.6 million | `GapHasCause`, `MarkerVouches`, `LagsTrueInOrder`, `ShippedIsCovered`, `TruncateSpares`; `ResumeIsSound`; `StaleHasCause` |
| `services` | `ModelServing`: 2 workers, 2 requests, 1 promotion. `ReplayLoader`: 2 reloads, 1 reader. `TrainingLog`: 2 clients, 2 lines, queue and buffer of 1. `ModelRegistry`: 2 commands, 2 models. `TrainingSplits`: 2 symbols, 6 days. `FeatureRows`: 5 days of 2 bars. `HorizonTraining`: 3 horizons, 3 cutoffs, 2 runs | 0.3 million | `ReloadSticks`; `AnswerIsOneReplay`; `NoLineIsLost`, `QueuedIsSent`; `CurrentSurvives`, `PredictionsTellTruth`; `LearntBeforeAsked`; `TrainedAsServed`; `PredictedByOneSet`, `WarmChainUnbroken` |
| `clean_live_run`, `served_bundle` | both nightly DAGs, 1 date, clears of both kinds, no retries | | violated: `CleanSparesLiveRuns`, `ServedBundleStays` |
| `reused_job`, `skip_base` | the daily DAG, 1 date, 1 retry | | violated: `ReusedJobIsInFlight`, `PromotedDescendsFromBase` |
| `warm_job_served` | `NibiPipeline`: 1 date, 1 slot | | violated: `CompletedWarmJobPasses` |
| `by_hand` | `HandPromotion` | | violated: `NewBaseIsPromoted` |

**Why the bounds are enough.** Two jobs suffice for every collision over `run_root`:
the properties speak of one job and "somebody else". Two windows distinguish the
first, the last and the order of snapshots; one window keeps every transition of a
job for the DAG runs. Three promoters allow one to be overlapped by two others that do
not overlap each other's end. Two dates make the later run meet the earlier one's
directories, links and records. The number of retries in the code (1 or 2 per task)
matters only as "none left" and "some left"; in `training`, where `RetryCap` is 0,
clearing the failed task has the effect of a retry. Clears of a whole run are in `nightly`
and the violation runs only: in `training` they would triple the states, and the theorems,
which leave `Clears` open, have them with every DAG. `MaxStarts` in `ReferenceTables`
lets every program meet every other, and the one that died be started once more.
In `MarketData` two scripts at a time are all pairs of the four; a third starts when
one ends. One fault is enough for each cause that a gap, a stale lag or a short
snapshot can have; one symbol is enough because the scripts handle symbols one after
the other and nothing relates two of them but the thresholds `Required` and
`MinComplete`, whose theorems (section 5) hold for any number. Where `ingestion_progress`
does not list every symbol, the run has no fault (`MCMarketData`); the theorems have both
together. The list stays as it is for the day; what dw-api may add to it meanwhile is
left out. In `TickerTables` three runs are what a cause needs: two that overlap and
one that finds what they left. They are alike, so `InTurn` numbers them as they start;
`MaxTickerRuns` bounds them, and the theorem has any number. `ClusterInputs` runs any
two of its five flows: three that write one file could do what two cannot, and did
in an earlier form of the model (section 5); the theorem holds for all five at once. A queue of one entry is
full and empty within two lines. `FeatureRows` keeps the code's order of spans (rolling
window, backend's history, training's history: 60, 75 and more days there, 2, 3 and 4
here) in a table of one day more.

Every bound is a constant or named in a comment (`RetryCap`, `SlotRetry`, `CatchRetry`,
`Retention`, `FaultCap`, the `Max...` constants, `LastBar`, `Oddities`). `nightly` has a state constraint, `OneDagRuns`: once both DAGs have had runs, two of its
properties promise nothing more, and the third, about forgotten jobs, is checked of both
DAGs in `training` and proved of them.
`services` has one too, `TrainersApart`: once two trainers have met in the registry nothing
more is promised of it, so those states are not followed; it speaks of the registry's
part alone. `market_data` declares the symmetry of scripts and symbols; it checks no
liveness. The jobs run out before the days do: a run whose submission finds no job id
left may still fail, be cleared or have its task raise.

**Deadlock** is checked in `nightly` and in the five violation runs of the DAGs. In the
others the model's day, its lines, its months or its starts are finite, so a behaviour
may stop with everything done (`CHECK_DEADLOCK FALSE`).

**Fairness and liveness.** Only the log stream justifies fairness. `LogFairness` is weak
fairness of the thread that walks the list for a line (a running thread goes on) and
of each client's generator (the event loop resumes it when its queue has a line).
Nothing is assumed of clients, posts or disconnections. Under it `QueuedIsSent` holds:
what has reached a queue is sent or its client goes. The DAGs give no such ground:
sensors poll until a timeout, retries are finite, and after a failure a person decides;
their properties are safety and action properties.

**Refinement.** `RegisterSpec` in `operations` shows that `SymlinkSwap` implements
`LinkRegister`: readers of `current_base` see a register that is never unset and never
leads to an unverified directory, whatever promoters do to each other. It is also
proved.

## 4. What the runs found

Six statements of the repository's own comments and docstrings do not hold; each
has a run and an entry under `findings`:

1. `clean_live_run`: the wipe of `run_root` can hit a running job. The queue is looked
   at in one SSH call and the directory removed in another; the daily `grep` for
   `algo_sim` does not match `sim_base_train` or `sim_warm_windows`; a failed look counts
   as an empty queue.
2. `reused_job`: a job that failed keeps a record with status `submitted`, and every
   later attempt of that date reuses the dead job id.
3. `skip_base`: `clean_nibi_run_root` removes the base model that `sync_base_model` has
   just uploaded; the job trains from scratch on one day, and that model is promoted.
4. `served_bundle`: a second pull for the same date removes the directory
   `current_base` points to.
5. `warm_job_served`: the intraday validation waits for `predictions.csv` files that no
   job writes, so a completed warm job's model is never published.
6. `by_hand`: `promote_new_base.sh` prints that the promotion is complete while
   `mv -f` has moved the new link into the directory the old one leads to.

Many properties of the passing runs are of the form "this goes wrong only for one of
these causes". The causes are part of what the runs say about the code: a gap that no
later run fills, one of them left by a truncation under a backfill, which inserts the oldest
first (`GapHasCause`); a marker that counts symbols no window has, because the aggregation
takes only those of `ingestion_progress`, where the bootstrap puts five sample symbols
(`initial_data.py:65`), dw-api what is posted to it, and `load_parquet_to_db.py:85`, which
names a column that is not there, none (`MarkerVouches`); bars that two runs of `fill_gap.py`
both append (`RowsHaveCause`); a window trained from scratch after one that failed between
two renames (`OwnLineage`); a pipeline that is complete with no model loaded
(`HandPromotionSettles`); a derived column that stays stale over a weekend
(`StaleHasCause`), an old bundle that a load stores behind a reload's back
(`ReloadSticks`), a client passed over because another left (`NoLineIsLost`), a list of
snapshots that is older than its clearing (`PagesCatchUp`), made-up prices beside real
ones (`TablesHaveCause`). Each mutant in `PROJECT.json` is a plausible error in the code
that adds a cause, and TLC finds it.

## 5. Proofs

TLAPS proves the following for every value of the constants that satisfies the
modules' assumptions (`NoDirAssumption`, `HandAssumption`; `ClusterAssumption`: job ids are positive
numbers, at least one window, `Nothing` is neither a job nor a bundle; `DagAssumption`:
dates are positive numbers and name directories, at most two retries; `DayAssumption`: slots
and the catch-up's dates are such numbers too, and no date is a slot;
`ServingAssumption`, `ReplayAssumption`, `LogAssumption`: bounds are numbers, an empty
cache is no bundle; `BarsAssumption`, `MarketAssumption`, `NoFileAssumption`: finitely many
symbols, a day of whole windows; `RefetchAssumption`, `RepairAssumption`: members and
windows are numbers, days and limits positive; `DracAssumption`: at least one day;
`InputsAssumption`: finitely many dates; `RegistryAssumption`, `TrainingAssumption`,
`SplitsAssumption`: at least one horizon, cutoff, day and slot, two folds or more, symbols
that never miss a session are symbols; `FlowAssumption`, `RefAssumption`, `TickerAssumption`,
`PagesAssumption`, `ArchiveAssumption`, `LandingAssumption`: dates, days, rows and chunks are
positive, a cache outlives its shortest entry, the sample is of known symbols;
`FeaturesAssumption`: the windows are of at least a day, and the backend loads more days
than a feature looks back). No
assumption bounds how much there is of anything. TLC evaluates them on its runs.
Of the 40 properties of the passing runs, 39 are stated by a theorem. The three theorems of the
training day also say, as a hypothesis, that both nightly DAGs are switched on.

`SymlinkSwapProofs`. `IndInv` strengthens the types with two facts. `PointersVerified`:
what `current_base`, the temporary name and every active call point to was checked by
some promoter. `AloneUnlessOverlapped`: a promoter that nobody overlapped is the only
one active and knows what the temporary name holds at each of its positions (a link
before `unlink`, nothing before `symlink`, its own target before `rename`). The second
is what fails to be inductive in the properties themselves: "the rename publishes my
target" must be known from the first look on. From it follow `FailureTheorem` and
`SoloTheorem`; from `PointersVerified` follows `Refinement`, step by step: `Rename` is
`Publish`, `Enter` is `Verify`, everything else stutters.

`NibiClusterProofs`. `IndInv` adds to the types: `FreshBeforeStart` (a job that has not
started has written nothing), `Shape` (which stages go with which positions of the
script), `SentinelWriter` (who wrote `SIMULATION_DONE` is past the end of its script),
`OwnerAlone` (while a job owns `run_root` no other job runs), `OwnerProgress` (what
`current/`, `.current_tmp` and the steps hold at each position of the owner, window by
window) and `OwnRooted` (what the owner has written descends from its base training, and `current/` is
there behind it, unless a window failed between the two renames of `copy_bundle()`: `torn`).
`OwnerProgress` carries `SentinelVouches`: the sentinel speaks about all windows at the
end, and only the statement about the windows so far is preserved by each of them.
Each step lemma (`TypeStep`, `FreshStep`, `WriterStep`, `AloneStep`, `ProgressStep`,
`RootedStep`) has one case per action. `HonestTheorem`, `VouchesTheorem`,
`LineageTheorem` and `PredictionsTheorem` are properties of the `cluster` run. The last part
of the module, for the DAGs, says how jobs end: `JobEnds` (a completed job stands behind
its last stage, without an error), `CompletedOwner` (then `current/` holds that stage's
bundle) and `CompletedStays` (nothing touches it while the job remains the last writer).

`TrainingDagsProofs`. `PipelineRefinesCluster` first: the DAGs and their operators do to
`run_root` only what `NibiCluster` allows anyone to do, so its theorems hold of the whole
pipeline. `DagInv` then adds to the types `RunKnowsItsJob` (behind its submission, a run's
job is the one on record for its date), without which the sensor could mark the wrong
record, and `RecordIsHonest`. With it every step is shown to be `NoneDropped` (no job comes
into flight, and none in flight loses its record, without one): a record may be overwritten
when it says "completed", and only because that is honest does no job in flight go with it.
`ForgottenTheorem` follows, and the training day uses the same fact. `RunGoesOn` sums up what most tasks do to a run, so that `QuietStep` covers
them at once; submissions, reuse, the sensor and starts have lemmas of their own.

`PromotionProofs`. `PromotedIsOwn` relates a promotion to a pull that is over, so its
invariant carries the facts across: `JobIsOver` (behind the sensor the run's job is
completed), `PulledDirs` (a directory pulled for a job holds what is in `current/` to this
day, while the job is still the last writer), `WholeAtPromote` (both halves came) and
`OneRecordEach` (no two dates or DAGs share a job, so nobody else pulls in its name).
`GreenTheorem` and `SparesTheorem` speak of the time in which one DAG alone has had runs
(`OnlyDag`); they follow from `MovedSoFar`, which follows the links through the tasks of a
run, and `OnlyDagSteps`: no step takes back that the other DAG has run.

The second half of the module is about `TrainingDay`, where four DAGs meet. `TrainingMoves`
tells whose step a step is, and `TrainingCluster` that `run_root` is used as `NibiCluster`
allows by all of them, so that what is proved of the cluster and, for steps of the nightly runs,
of `TrainingDags` holds here too. `SlotMoves`, `SlotWrites`, `CatchMoves` and `CatchWrites` then
say once what the steps of the other two DAGs do to their run, to the jobs and to the store.
*Forgotten jobs*: `ForgottenOfTheDay` needs `TrainingInd`, which adds to `DagInv` what a slot and
a catch-up know of their job (`SlotKnowsItsJob`, `CatchKnowsItsJob`): a catch-up about to submit
has no job it could lose, and a slot submits only without a record. *Publishing*: `DayInd` adds
to the invariant of the nightly promotion how the DAGs keep out of each other's way. `SlotDirs`:
only its own run has written to a slot's directory, and nothing to those of later slots.
`CatchHolds`: a catch-up and a nightly run share the directory of their date, so a copy can be
marked as pulled for the catch-up's job only by the catch-up, because no record names that job
(with `OneRecordEach`). `ReplaysAreOver`: `current_simulation` reaches a slot only after its last
pull, so that no retry replaces predictions that are live. `WholeCopyIsOwn` then gives
`PublishedOfTheDay` for both kinds of run, and `NightsOfTheDay` carries the two properties of the
nightly runs (`RecordIsHonest`, `PromotedIsOwn`) over to the whole day: a slot or a catch-up may
spoil a nightly run's directory, but never in the name of its job.

`ServicesProofs`. The cache: `LoadsAreNew` says of a load under way in a worker that was
not straddled that it has read nothing older than the last reload; that and `ToldIsPast`
make `ReloadSticks` inductive. The replay loader: `Alone` (with one undisturbed reload
under way, the fields it has filled are of one replay and the others empty), `OneReplay`
(with none, all fields are of one replay) and `CleanAnswers` (what a clean request has
read agrees with the object as it is now) give `AnswerIsOneReplay`; the work lies in
requests that span several steps of the object. The log: `WalkHears` says of each client
that was in the list when a broadcast began, and is not excused, that it has the line,
is gone, or stands in the list at or behind the place of the walk. It is what shifts
when a client leaves, and it holds only because leaving excuses everybody due.

`MarketDataProofs`. `MarketInd0` is the types and `StageOfJob`, which script comes to which
stage. `TruncateSpares` is an action property; `ExportedIsInCore` says what a script about
to truncate has exported or has seen staged since. Marker and snapshot rest on one fact,
`RowsGrow`: no script takes bars out of a window (`RowsAreFromCore`: a row is made of bars
of the core table, which only grows, of a symbol that is listed, and the list stays). With it what was counted once stays counted:
`MarkIsVouched` before the marker is written, `CoveredWhenShipped` before the snapshot is.
For the lags, `LagIsOfEarlierBars` shows that a lag depends on earlier rows only, so
a window aggregated in order disturbs none, and rebuilding a day makes all of them
true.

The loads by the month and the repairs, in the same module. `RefetchInd`: `RunFits` says
what each step of a run leaves of its month (whose turn it is, what is done, what is to
come), `BehindLoaded` that whatever a run has passed, or a run it resumed, is in the
table; they carry `CheckpointVouches` and `SummaryCovers` from a commit to the file
written after it. `RepairInd`: besides `StaleHasCause`, `WrittenStands` says of what a
repair has computed and not yet committed that it will fit the table after the commit,
but for rows that others write meanwhile. The lemmas about `LagOver` say which rows a
lag depends on.

`GapHasCause` holds of a table that is truncated while collectors are at work, so its
invariant cannot speak of staging alone; what is truncated under a backfill is noted
(`swept`), what is truncated under the live collector need not be. `BelowIsDone`: below a row that a collector
still holds, it has held all there was. `GapsAreFilled`: whoever is about to fill a gap
holds no row at or above the next staged row. So the collector that fills it comes to it
before it meets a row that would make it stop. `AtWork` says which symbol a
collector is at.

`DracTrainingProofs`. A green run's claim is about what it saw, jobs and days earlier, so
`DracInd` carries dates along: `Dated` and `Sourced` (what lies under a date was made by
a job of that date, and dates never change), `Progress` (what a running job has left
behind it), `Polls` (a run that is still to read the id file will read its own, or has
been crossed) and `Found`. `Linked` needs `Progress` for the jobs and, for a run between
the removal of `latest` and the new link, that files are replaced and never removed.
`RunStep` and `Moved` sum up what the actions of a run and of a job do to its record.
The jobs' inputs follow: `InputsInd` has `InOrder` (the steps of a flow in the order of
their needs), `PiecesAreOpen` (a snapshot in pieces is open in somebody's hands, or one
was spoiled), `OwnInputs` (what an uncrossed flow has sent, and its job read, is one
thing) and `CutoffKnown` with `CutoffKept` (the cutoff date on its way from the table to
the job).

`SymlinkSwapProofs` ends with the promotions by hand. `LinksSoFar` follows the pipeline's
links command by command, `OriginSoFar` the files of another job from `run_root` to the
bundle, and `ReachedWhenVacant` says where the `mv` of the other two can lead.
The table of the scripts' commands is read once, in `HandPlaces` and the lemmas on it.

`ServicesProofs`, second half: the training script. *Registry*: as long as no two trainers
have met (`Apart`), there is `OneTrainer`, `InPlace` says which of the three names of a
bundle is filled at each step of a promotion, `NothingLost` where the served model is,
`CycleKeeps` and `WritesWhatItRead` which model a prediction was made with. *Horizons*:
`WhereItStands` (the set in use is older than the one being fitted), `FittedSoFar` (what
the pool has fitted until a horizon raises), `UsableIsWhole`, and `ChainSoFar`, which is
`WarmChainUnbroken` up to the cutoff a simulation stands at. *Splits*: `AskedLater` and
`LearntEarlier`, with lemmas on the label of a row, which is of the next date
that has any bar. *Features*: `AnswerFits` says that an answer behind which no gap was
filled is what the rows up to it give, whatever has come since, and
`TrainedAsServed` follows from it by counting. Where the backend's window cuts a
day off, `ServeDays` of its days lie above that day (`DeepIs`); all but the short ones
are whole, so at least `RollDays` of them hold a row at the same position in the day
(`PeersEnough`), and the days both windows share are the ones the feature is made of
(`SlotsAgree`, `WindowsAgree`).

`OperationsProofs`, one invariant for each part. *Pages* (`PagesInd`): `AnswersAge` gives each
cached answer that is older than the loaded replay an age since the reload, so that it
expires in time; `BuildSeen` follows one's own snapshot into the lists. *Reference
tables* (`RefInd`): `SeedIsWarned`, `FillIsWarned` and `StocksStay` make a mixture explicable
before it is there. *Tickers* (`TickerInd`): `TableFits` (a table's holes and what it has
above the archive), `ImportFits`, and `FillFits`, which follows a run from its look to its
append while others write to table and file (`Onwards` is all they may do): what it is to append
is `Whole` but for noted bars, and what of it the table has by then is noted. *Base flow* (`FlowInd`): `MetaIsTrue`,
`PollsItsOwn`, `ModelsAreTrained` and `ReportIsTrue`, the truth of each file the dashboard
reads. *Archive* (`FilesInd`, `LandInd`): `WritesWell`, `LoadsWell` and `LandsWell` say of a file
that is being written, loaded or counted what holds of it up to the row reached.

**What the proofs found in the model.** An invariant that would not go through has
three times shown a module to be wrong where TLC's bounds had not. `ClusterInputs` named too few
causes of a torn snapshot: two flows tear it, both go on, and a third, which nobody
overlaps, finds the size it expects and ships it; with two flows there is no third.
The history variable `spoiled` and `MaySeemSame` are the answer. `ModelRegistry` did not note
that a third command crosses the trainers that are already met by a predictor. And `SUBSET S \ {{}}`, in two modules, is read by
TLC as the nonempty subsets and by the prover as all subsets of a difference; it
is now written with parentheses.

**Only model-checked.** Liveness (`QueuedIsSent`), which is out of the prover's reach, as is
everything with `ENABLED`. `CompletedWarmJobPasses` and the other statements that the runs of
section 4 violate.
What recursive definitions compute for every input would need induction over data, for
which the library's theorems take an operator as a parameter. The facts about
maxima and folds over finite sets that are used (`LargestIsMember`, `MinIsMember`,
`LatestIsMember`, `RemoveFirstIsSequence`) are proved by well-founded induction
on a set or without induction.

## 6. Not modelled

Numeric code: the arithmetic of the features, the regression, the evaluation, the
tuning. Formatting and display: charts, layout, log tails. Authentication and request
handlers that only read. Of the DAGs, alerts and the operator's relogin. An intraday
slot is run once: operators do not clear slots in the model. `--start-window`, which no
DAG passes. A cleanup or `rmtree` is one step, although a reader could see it half done.
A run of `fill_gap.py` that reads a CSV while another is in the middle of writing it is left
out (`TickerTables`); one that dies while it writes is there.
The rules for holidays (`market_calendar_utils.py`) are used as the set of trading days.
The ML notebooks are earlier copies of the training script: nothing in the pipeline
reads what they write. `retrain_model.py` imports `train_global_model` from `ml/scripts`,
where it is not any more, so its second task fails in every run. Of a job of the DRAC
training, what it computes is left out, and that a shell whose SSH call has timed out
may write its id later still. The loss of database commits, disk failures and clock skew are outside
what the code handles. One hazard is listed without a property: the failure streak of
the sensors, which is deterministic dead code. The slice that `generate_base_predictions`
writes where `gen_step_predictions.py` does not look is no hazard but a certainty, and is
modelled as the warning it ends in. `PROJECT.json`
lists every component with its status and reason.

## 7. What is left

1. Clears of intraday slots; the download and promotion stages of the dashboard.
2. A stage for the directories that a cleanup or an rsync leaves half done.
