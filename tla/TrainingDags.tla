---------------------------- MODULE TrainingDags ----------------------------
(***************************************************************************)
(* The two nightly Airflow DAGs, nibi_daily_warm_refresh ("daily") and     *)
(* nibi_base_only_training ("baseOnly"), over one NIBI account and one     *)
(* artifact store.  max_active_runs=1 gives each DAG at most one run at a  *)
(* time; nothing keeps the two DAGs apart.  A run is a chain of tasks; a   *)
(* task that raises is retried as often as the DAG allows, and an operator *)
(* may clear a finished run, from its first task or from the failed one.   *)
(***************************************************************************)
EXTENDS ArtifactStore

CONSTANTS DagIds,    \* the DAGs that are switched on
          Days,      \* logical dates (ds), as numbers
          SkipBase,  \* the values operators give to Variable nibi_skip_base
          Clears,    \* what operators clear: TRUE whole runs, FALSE failed tasks
          Retention, \* days promote_model keeps old directories (7)
          RetryCap,  \* bound on the retries of a task (2 in the code)
          Predicted  \* steps the operator's prediction job gets to

ASSUME DagAssumption == /\ DagIds \subseteq {"daily", "baseOnly"}
                        /\ Days \subseteq Dirs /\ Days \subseteq Nat \ {0}
                        /\ Nothing \notin Dirs
                        /\ SkipBase \subseteq BOOLEAN /\ Clears \subseteq BOOLEAN
                        /\ Retention \in Nat
                        /\ RetryCap \in 0..2
                        /\ Predicted \subseteq Steps

VARIABLES
  run,     \* the latest run of each DAG
  record,  \* logs/nibi_job_<ds>.json and logs/nibi_base_job_<ds>.json
  orphans  \* history: jobs sbatch accepted without its answer coming back

dagVars == <<run, record, orphans>>
vars == <<clusterVars, storeVars, dagVars>>

\* Positions in a run: most tasks are one step, clean, rsync and promote more.
Tasks == {"ship", "clean", "wipe", "submit", "poll", "validate", "rsync",
          "rsyncRest", "promote", "promoteEod", "promoteSim", "cleanup",
          "predict", "reload"}

\* Where a retry of the task at position t begins.
TaskStart(t) == CASE t = "wipe" -> "clean"
                  [] t = "rsyncRest" -> "rsync"
                  [] t \in {"promoteEod", "promoteSim", "cleanup"} -> "promote"
                  [] OTHER -> t

\* retries= of the task, or of the DAG's default_args, up to RetryCap.
Retries(t) ==
  LET code == IF t = "submit" THEN 2
              ELSE IF t \in {"promote", "predict", "reload"} THEN 0 ELSE 1
  IN IF code < RetryCap THEN code ELSE RetryCap

FirstTask(g) == IF g = "daily" THEN "ship" ELSE "clean"
Kind(g) == IF g = "daily" THEN "full" ELSE "base"

PipelineTypeOK ==
  /\ TypeOK
  /\ StoreTypeOK
  /\ run \in [DagIds -> [st : {"idle", "running", "failed", "success"},
                         day : Days \cup {0}, task : Tasks,
                         tries : 0..2, jid : Jobs \cup {Nothing}]]
  /\ record \in [DagIds -> [Days -> [jid : Jobs \cup {Nothing},
                                     completed : BOOLEAN]]]
  /\ orphans \subseteq Jobs
  /\ \A g \in DagIds : run[g].st # "idle" => run[g].day \in Days

PipelineInit ==
  /\ Init
  /\ StoreInit
  /\ run = [g \in DagIds |-> [st |-> "idle", day |-> 0, task |-> FirstTask(g),
                              tries |-> 0, jid |-> Nothing]]
  /\ record = [g \in DagIds |-> [d \in Days |-> [jid |-> Nothing,
                                                 completed |-> FALSE]]]
  /\ orphans = {}

Active(g) == run[g].st = "running"
At(g, t) == Active(g) /\ run[g].task = t
Day(g) == run[g].day
Job(g) == run[g].jid
----------------------------------------------------------------------------
(* Scheduling.                                                             *)

\* On to task t.
GoTo(g, t) == run' = [run EXCEPT ![g].task = t, ![g].tries = Retries(t)]

\* On to the next step of the same task.
Continue(g, t) == run' = [run EXCEPT ![g].task = t]

\* Mutant of Raise: one try too many.
RaiseOnceMore(g) == run' = [run EXCEPT ![g].task = TaskStart(@),
                                       ![g].tries = @ - 1,
                                       ![g].st = IF run[g].tries >= 0 THEN @ ELSE "failed"]

\* The task raises: another try, or the run has failed.
Raise(g) == run' = [run EXCEPT ![g].task = TaskStart(@),
                               ![g].tries = IF @ > 0 THEN @ - 1 ELSE 0,
                               ![g].st = IF run[g].tries > 0 THEN @ ELSE "failed"]

\* The scheduler starts the run of the next date; the checks, the export and
\* the uploads that come before the first task here touch nothing shared.
StartRun(g, d) ==
  /\ ~Active(g)
  /\ d > run[g].day
  /\ run' = [run EXCEPT ![g] = [st |-> "running", day |-> d, task |-> FirstTask(g),
                                tries |-> Retries(FirstTask(g)), jid |-> Nothing]]
  /\ UNCHANGED <<clusterVars, storeVars, record, orphans>>

\* An operator clears the run: all of it, which forgets its XComs, or the
\* task that failed and what comes after it.
Clear(g, all) ==
  /\ run[g].st = "failed" \/ (run[g].st = "success" /\ all)
  /\ LET t == IF all THEN FirstTask(g) ELSE run[g].task
     IN run' = [run EXCEPT ![g].st = "running", ![g].task = t,
                           ![g].tries = Retries(t),
                           ![g].jid = IF all THEN Nothing ELSE @]
  /\ UNCHANGED <<clusterVars, storeVars, record, orphans>>

\* An SSH or rsync error, or the task's execution_timeout.  The sensor
\* swallows SSH errors and reload_backend all of them.
TaskFails(g) == /\ Active(g)
                /\ run[g].task \notin {"poll", "predict", "reload"}
                /\ Raise(g)
                /\ UNCHANGED <<clusterVars, storeVars, record, orphans>>
----------------------------------------------------------------------------
(* Before the job.                                                         *)

\* squeue | grep for jobs of these kinds, over SSH: the return code is not
\* looked at, so that a call that failed is an empty answer.
QueueAnswers(kinds) == {FALSE} \cup {\E j \in Jobs : Running(j) /\ job[j].kind \in kinds}

\* task_sync_base_model: only when the base training will be skipped, and
\* not while squeue shows a full-day job running.
ShipBaseModel(g) ==
  /\ At(g, "ship")
  /\ \E skip \in SkipBase, busy \in QueueAnswers({"full"}) :
       IF ~skip THEN GoTo(g, "clean") /\ UNCHANGED clusterVars
       ELSE IF busy THEN Raise(g) /\ UNCHANGED clusterVars
            ELSE ShipBase /\ (GoTo(g, "clean") \/ Raise(g))
  /\ UNCHANGED <<storeVars, record, orphans>>

\* The jobs whose name the squeue | grep of clean_nibi_run_root looks for.
Guarded(g) == IF g = "daily" THEN {"full"} ELSE {"full", "base"}

\* task_clean_nibi_run_root, the look at squeue ...
CheckQueue(g) ==
  /\ At(g, "clean")
  /\ \E busy \in QueueAnswers(Guarded(g)) :
       IF busy THEN Raise(g) ELSE Continue(g, "wipe")
  /\ UNCHANGED <<clusterVars, storeVars, record, orphans>>

\* ... and, in a second SSH call whose answer may be lost, the rm -rf.
WipeRunRoot(g) ==
  /\ At(g, "wipe")
  /\ Wipe
  /\ GoTo(g, "submit") \/ Raise(g)
  /\ UNCHANGED <<storeVars, record, orphans>>

\* A job is on record for the date and not known to be completed.
OnRecord(g) == /\ record[g][Day(g)].jid # Nothing
               /\ ~record[g][Day(g)].completed

\* task_submit_job: reuse the job on record ...
ReuseJob(g) ==
  /\ At(g, "submit")
  /\ OnRecord(g)
  /\ run' = [run EXCEPT ![g].task = "poll", ![g].tries = Retries("poll"),
                        ![g].jid = record[g][Day(g)].jid]
  /\ UNCHANGED <<clusterVars, storeVars, record, orphans>>

\* Mutant of SubmitJob: the record is not looked at.
SubmitAlways(g, j) ==
  /\ At(g, "submit")
  /\ \E skip \in IF g = "daily" THEN SkipBase ELSE {FALSE} : Sbatch(j, Kind(g), skip)
  /\ record' = [record EXCEPT ![g][Day(g)] = [jid |-> j, completed |-> FALSE]]
  /\ run' = [run EXCEPT ![g].task = "poll", ![g].tries = Retries("poll"), ![g].jid = j]
  /\ UNCHANGED <<storeVars, orphans>>

\* ... or submit a new one and put it on record.
SubmitJob(g, j) ==
  /\ At(g, "submit")
  /\ ~OnRecord(g)
  /\ \E skip \in IF g = "daily" THEN SkipBase ELSE {FALSE} : Sbatch(j, Kind(g), skip)
  /\ record' = [record EXCEPT ![g][Day(g)] = [jid |-> j, completed |-> FALSE]]
  /\ run' = [run EXCEPT ![g].task = "poll", ![g].tries = Retries("poll"), ![g].jid = j]
  /\ UNCHANGED <<storeVars, orphans>>

\* sbatch runs, but the SSH call times out before the answer is there; or the
\* task is killed after the answer, before or after the record is written.
SubmitLost(g, j) ==
  /\ At(g, "submit")
  /\ ~OnRecord(g)
  /\ \E skip \in IF g = "daily" THEN SkipBase ELSE {FALSE} : Sbatch(j, Kind(g), skip)
  /\ \/ orphans' = orphans \cup {j} /\ UNCHANGED record
     \/ /\ record' = [record EXCEPT ![g][Day(g)] = [jid |-> j, completed |-> FALSE]]
        /\ UNCHANGED orphans
  /\ Raise(g)
  /\ UNCHANGED storeVars
----------------------------------------------------------------------------
(* The sensor.                                                             *)

\* Mutant of PollCompleted: whatever has left the queue counts as completed.
PollLeftQueue(g) ==
  /\ At(g, "poll")
  /\ ~InFlight(Job(g))
  /\ record' = [record EXCEPT ![g][Day(g)].completed = TRUE]
  /\ GoTo(g, "validate")
  /\ UNCHANGED <<clusterVars, storeVars, orphans>>

\* squeue is silent and sacct says COMPLETED: the record is updated.
PollCompleted(g) ==
  /\ At(g, "poll")
  /\ job[Job(g)].st = "COMPLETED"
  /\ record' = [record EXCEPT ![g][Day(g)].completed = TRUE]
  /\ GoTo(g, "validate")
  /\ UNCHANGED <<clusterVars, storeVars, orphans>>

\* sacct says the job failed: the record is left as it is.
PollFailed(g) ==
  /\ At(g, "poll")
  /\ job[Job(g)].st = "FAILED"
  /\ Raise(g)
  /\ UNCHANGED <<clusterVars, storeVars, record, orphans>>

\* timeout= of the sensor (9 h, 4 h), in the queue or with NIBI out of reach:
\* no retry after that.
PollTimeout(g) ==
  /\ At(g, "poll")
  /\ run' = [run EXCEPT ![g].st = "failed"]
  /\ UNCHANGED <<clusterVars, storeVars, record, orphans>>
----------------------------------------------------------------------------
(* After the job.                                                          *)

\* What the run expects in run_root: a sentinel, whoever wrote it, and a
\* directory for every window (a look that counts as passed when the SSH
\* call fails); or, after a base-only job, a manifest in current/.
Validate(g) ==
  /\ At(g, "validate")
  /\ IF g = "daily"
     THEN \/ done # Nothing /\ GoTo(g, "rsync")
          \/ (done = Nothing \/ \E k \in Steps : step[k] = Nothing) /\ Raise(g)
     ELSE IF current # Nothing THEN GoTo(g, "rsync") ELSE Raise(g)
  /\ UNCHANGED <<clusterVars, storeVars, record, orphans>>

\* task_rsync_artifacts_back: rmtree of the date's directories, whatever
\* points to them, and the first half of the pull; or an rsync that fails at
\* once, for want of a current/ or of SSH.
PullModels(g) ==
  /\ At(g, "rsync")
  /\ \/ /\ current # Nothing
        /\ warm' = PulledHead(Day(g), Job(g))
        /\ Continue(g, "rsyncRest")
     \/ /\ warm' = [warm EXCEPT ![Day(g)] = EmptyDir]
        /\ Raise(g)
  /\ sim' = IF g = "daily" THEN [sim EXCEPT ![Day(g)] = {}] ELSE sim
  /\ UNCHANGED <<clusterVars, link, record, orphans>>

\* The second half; the daily run also pulls the predictions of each step,
\* without looking at rsync's return code.
PullRest(g) ==
  /\ At(g, "rsyncRest")
  /\ IF current = Nothing THEN Raise(g) /\ UNCHANGED warm
     ELSE /\ warm' = PulledRest(Day(g), Job(g))
          /\ GoTo(g, "promote")
  /\ IF g = "daily" /\ current # Nothing
     THEN \E got \in SUBSET preds : sim' = [sim EXCEPT ![Day(g)] = @ \cup got]
     ELSE UNCHANGED sim
  /\ UNCHANGED <<clusterVars, link, record, orphans>>

\* task_promote_model: the manifest is looked for once, then the links move
\* one after the other (SymlinkSwap has the steps of each move).
PromoteBase(g) ==
  /\ At(g, "promote")
  /\ IF HasManifest(Day(g))
     THEN link' = [link EXCEPT !["base"] = Day(g)] /\ Continue(g, "promoteEod")
     ELSE UNCHANGED link /\ Raise(g)
  /\ UNCHANGED <<clusterVars, warm, sim, record, orphans>>

\* Mutant of PromoteEod: the same link twice.
PromoteBaseTwice(g) ==
  /\ At(g, "promoteEod")
  /\ link' = [link EXCEPT !["base"] = Day(g)]
  /\ IF g = "daily" THEN Continue(g, "promoteSim") ELSE GoTo(g, "predict")
  /\ UNCHANGED <<clusterVars, warm, sim, record, orphans>>

PromoteEod(g) ==
  /\ At(g, "promoteEod")
  /\ link' = [link EXCEPT !["eod"] = Day(g)]
  /\ IF g = "daily" THEN Continue(g, "promoteSim") ELSE GoTo(g, "predict")
  /\ UNCHANGED <<clusterVars, warm, sim, record, orphans>>

PromoteSim(g) ==
  /\ At(g, "promoteSim")
  /\ link' = IF sim[Day(g)] = Steps THEN [link EXCEPT !["sim"] = Day(g)] ELSE link
  /\ Continue(g, "cleanup")
  /\ UNCHANGED <<clusterVars, warm, sim, record, orphans>>

\* Mutant of Cleanup: the date's own directories are not left out.
CleanupByAge(g) ==
  /\ At(g, "cleanup")
  /\ \E today \in Days :
       /\ \A h \in DagIds : run[h].day <= today
       /\ LET old == {d \in Days : d + Retention < today} IN
          /\ warm' = [d \in Dirs |-> IF d \in old THEN EmptyDir ELSE warm[d]]
          /\ sim' = [d \in Dirs |-> IF d \in old THEN {} ELSE sim[d]]
  /\ GoTo(g, "reload")
  /\ UNCHANGED <<clusterVars, link, record, orphans>>

\* Directories that are by now older than Retention go, except the date's own.
Cleanup(g) ==
  /\ At(g, "cleanup")
  /\ \E today \in Days :
       /\ \A h \in DagIds : run[h].day <= today
       /\ LET old == {d \in Days \ {Day(g)} : d + Retention < today} IN
          /\ warm' = [d \in Dirs |-> IF d \in old THEN EmptyDir ELSE warm[d]]
          /\ sim' = [d \in Dirs |-> IF d \in old THEN {} ELSE sim[d]]
  /\ GoTo(g, "reload")
  /\ UNCHANGED <<clusterVars, link, record, orphans>>

\* task_generate_base_predictions: the slice is written next to the run_root
\* that gen_step_predictions.py is given, not into it; the script exits 1 and
\* the task only warns.  Nothing is copied and current_simulation stays.
GenerateBasePredictions(g) ==
  /\ At(g, "predict")
  /\ GoTo(g, "reload")
  /\ UNCHANGED <<clusterVars, storeVars, record, orphans>>

\* task_reload_backend never fails.
ReloadBackend(g) ==
  /\ At(g, "reload")
  /\ run' = [run EXCEPT ![g].st = "success"]
  /\ UNCHANGED <<clusterVars, storeVars, record, orphans>>
----------------------------------------------------------------------------
Prologue(g) == \/ ShipBaseModel(g) \/ CheckQueue(g) \/ WipeRunRoot(g) \/ ReuseJob(g)
               \/ \E j \in Jobs : SubmitJob(g, j) \/ SubmitLost(g, j)

Sensor(g) == PollCompleted(g) \/ PollFailed(g) \/ PollTimeout(g)

Epilogue(g) == \/ Validate(g) \/ PullModels(g) \/ PullRest(g)
               \/ PromoteBase(g) \/ PromoteEod(g) \/ PromoteSim(g) \/ Cleanup(g)
               \/ GenerateBasePredictions(g) \/ ReloadBackend(g)

Operator(g) == \E all \in Clears : Clear(g, all)

DagStep(g) == \/ \E d \in Days : StartRun(g, d)
              \/ Prologue(g) \/ Sensor(g) \/ Epilogue(g)
              \/ TaskFails(g) \/ Operator(g)

\* Slurm, and the operator's gen_step_predictions job.
ClusterStep == /\ \/ \E j \in Jobs : Slurm(j)
                  \/ \E k \in Predicted : Predict(k)
               /\ UNCHANGED <<storeVars, dagVars>>

PipelineNext == ClusterStep \/ \E g \in DagIds : DagStep(g)

PipelineSpec == PipelineInit /\ [][PipelineNext]_vars
----------------------------------------------------------------------------
(* A record says "completed" only of a job that Slurm completed: a retry,  *)
(* a cleared run or a record rewritten for a new job never make the next   *)
(* submission believe in a result that is not there.                       *)
RecordIsHonest ==
  \A g \in DagIds, d \in Days :
    record[g][d].completed => /\ record[g][d].jid # Nothing
                              /\ job[record[g][d].jid].st = "COMPLETED"

(* However often tasks are retried, runs cleared and submissions repeated, *)
(* a job in the queue or running is still on its DAG's record for some     *)
(* date, so that the next attempt finds it; except one whose submission    *)
(* was answered to nobody.                                                 *)
NoForgottenJob ==
  \A j \in Jobs : InFlight(j) =>
    \/ j \in orphans
    \/ \E g \in DagIds, d \in Days : record[g][d].jid = j

\* Where a run is about to move the links.
Promoting(g) == Active(g) /\ run[g].task \in {"promote", "promoteEod"}

(* What a run promotes is its own job's bundle of the last stage, in one   *)
(* piece and descending from a base model, as long as no other job or      *)
(* wipe touched run_root since that job started and no other run wrote     *)
(* into the directory: SIMULATION_DONE names no job, current/ no author,   *)
(* and the directory only a date.                                          *)
PromotedIsOwn ==
  \A g \in DagIds :
    LET j == Job(g)
        w == warm[Day(g)]
    IN (Promoting(g) /\ owner = j /\ w.by = j)
         => /\ w.head = w.manifest /\ w.head # Nothing
            /\ w.head.by = j /\ w.head.stage = LastStage(j)
            /\ ~job[j].skip => w.head.rooted

\* No other DAG has had a run.
OnlyDag(g) == \A h \in DagIds \ {g} : run[h].st = "idle"

\* State constraint of a run of the model checker: one of the DAGs is used.
OneDagRuns == \E g \in DagIds : OnlyDag(g)

(* As long as one DAG alone has had runs, a green run means what the       *)
(* operators read into it: both model links point to its date, at a bundle *)
(* with a manifest, whatever was retried, cleared or cleaned up meanwhile. *)
GreenRunIsLive ==
  \A g \in DagIds : OnlyDag(g) /\ run[g].st = "success" =>
    link["base"] = Day(g) /\ link["eod"] = Day(g) /\ HasManifest(Day(g))

(* Nor does the seven-day cleanup then take the models the backend is      *)
(* using.                                                                  *)
CleanupSparesLive ==
  [][\A g \in DagIds : OnlyDag(g) /\ At(g, "cleanup") /\ ~(At(g, "cleanup"))' =>
       \A l \in {"base", "eod"} :
         (link[l] # Nothing /\ HasManifest(link[l])) => warm'[link[l]].manifest # Nothing]_vars
----------------------------------------------------------------------------
(* Statements of the code's comments that the code does not keep.          *)

(* task_clean_nibi_run_root: wiping before the submission, with squeue     *)
(* looked at first, "so we don't delete a live run's output".              *)
CleanSparesLiveRuns ==
  [][\A g \in DagIds : At(g, "wipe") /\ owner' # owner
       => \A j \in Jobs : ~Running(j)]_vars

(* task_submit_job: an existing job id is reused when that job "is still   *)
(* in-flight".                                                             *)
ReusedJobIsInFlight ==
  [][\A g \in DagIds : (At(g, "submit") /\ OnRecord(g) /\ run'[g].task = "poll")
       => InFlight(run'[g].jid)]_vars

(* task_submit_job: "skip_base=True -> reuse existing base model": what is *)
(* promoted is the base model with windows added, not a model trained from *)
(* nothing on one day.                                                     *)
PromotedDescendsFromBase ==
  \A g \in DagIds : Promoting(g) /\ HasManifest(Day(g))
                       => warm[Day(g)].manifest.rooted

(* rsync_artifacts_back: "old artifacts are never overwritten, only new    *)
(* dir is created": the bundle current_base points to stays as it was.     *)
ServedBundleStays ==
  [][\A g \in DagIds : (At(g, "rsync") /\ link["base"] # Nothing)
       => warm'[link["base"]] = warm[link["base"]]]_vars
============================================================================
