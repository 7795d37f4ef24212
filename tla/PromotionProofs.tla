--------------------------- MODULE PromotionProofs --------------------------
(***************************************************************************)
(* Proofs about what the DAGs put live.  Of the nightly runs of            *)
(* TrainingDags: the bundle a run promotes is the one of its own job, and, *)
(* when one DAG is switched on, a green run has moved both model links to  *)
(* it and no cleanup takes them away.  Of TrainingDay, where the nightly   *)
(* runs meet the intraday slots, the catch-up and the fallback: no job is  *)
(* forgotten, and slots and catch-ups too publish their own.               *)
(***************************************************************************)
EXTENDS TrainingDagsProofs, TrainingDay
----------------------------------------------------------------------------
(* Steps of the pipeline, as the jobs, the records and the runs see them.  *)

\* A submitted job stays one, and a completed job completed.
LEMMA UsedStays ==
  ASSUME TypeOK, [Next]_clusterVars, NEW i \in Jobs
  PROVE  /\ job[i].st # "unused" => job'[i].st # "unused"
         /\ job[i].st = "COMPLETED" => job'[i].st = "COMPLETED"
<1> USE DEF TypeOK
<1>1. CASE UNCHANGED job
  BY <1>1
<1>2. ASSUME NEW j \in Jobs, Slurm(j)
      PROVE  job[i].st # "unused" => job'[i].st # "unused"
  BY <1>2 DEF Slurm, Start, Die, Read, Train, Publish, Snapshot, WindowError, WriteDone, Exit,
              ExitFailed, AtEnd, JobRecords, rootVars
<1>3. ASSUME NEW j \in Jobs, NEW kind \in Kinds, NEW skip \in BOOLEAN, Sbatch(j, kind, skip)
      PROVE  job[i].st # "unused" => job'[i].st # "unused"
  BY <1>3 DEF Sbatch, NextId, JobRecords
<1>4. \/ UNCHANGED job \/ \E j \in Jobs : Slurm(j)
      \/ \E j \in Jobs, kind \in Kinds, skip \in BOOLEAN : Sbatch(j, kind, skip)
  BY DEF Next, Environment, Wipe, ShipBase, Predict, clusterVars, Kinds
<1>. QED
  BY <1>1, <1>2, <1>3, <1>4, JobsSettle

\* Only a submission puts another job on record.
LEMMA RecordMoves ==
  ASSUME DagInv, [PipelineNext]_vars
  PROVE  \/ \A f \in DagIds, c \in Days : record'[f][c].jid = record[f][c].jid
         \/ \E f \in DagIds, j \in Jobs, skip \in BOOLEAN :
              /\ Day(f) \in Days /\ Sbatch(j, Kind(f), skip)
              /\ record' = [record EXCEPT ![f][Day(f)] = [jid |-> j, completed |-> FALSE]]
<1>1. CASE UNCHANGED record
  BY <1>1
<1>2. ASSUME NEW g \in DagIds, PollCompleted(g)
      PROVE  \A f \in DagIds, c \in Days : record'[f][c].jid = record[f][c].jid
  BY <1>2 DEF PollCompleted, DagInv, DagTypeOK, JidRecords
<1>3. ASSUME NEW g \in DagIds, NEW j \in Jobs, SubmitJob(g, j) \/ SubmitLost(g, j),
             ~UNCHANGED record
      PROVE  \E skip \in BOOLEAN :
              /\ Day(g) \in Days /\ Sbatch(j, Kind(g), skip)
              /\ record' = [record EXCEPT ![g][Day(g)] = [jid |-> j, completed |-> FALSE]]
  BY <1>3, DagAssumption DEF SubmitJob, SubmitLost, At, Active, Day, DagInv, DagTypeOK
<1>4. \/ UNCHANGED record
      \/ \E g \in DagIds : PollCompleted(g) \/ \E j \in Jobs : SubmitJob(g, j) \/ SubmitLost(g, j)
  BY DEF PipelineNext, ClusterStep, dagVars, vars, DagStep, Prologue, Sensor, Epilogue, Operator,
         StartRun, Clear, TaskFails, ShipBaseModel, CheckQueue, WipeRunRoot, ReuseJob, PollFailed,
         PollTimeout, Validate, PullModels, PullRest, PromoteBase, PromoteEod, PromoteSim, Cleanup,
         GenerateBasePredictions, ReloadBackend
<1>. QED
  BY <1>1, <1>2, <1>3, <1>4
----------------------------------------------------------------------------
(* What a run promotes.                                                    *)

\* No two records name the same job, and none a job that was never submitted.
OneRecordEach ==
  \A g, h \in DagIds, d, e \in Days :
    record[g][d].jid # Nothing
      => /\ job[record[g][d].jid].st # "unused"
         /\ (record[h][e].jid = record[g][d].jid) => (g = h /\ d = e)

\* Behind the sensor, a run's job is completed.
PastPoll == PastSubmit \ {"poll"}
JobIsOver ==
  \A g \in DagIds : (run[g].st # "idle" /\ run[g].task \in PastPoll)
                      => job[Job(g)].st = "COMPLETED"

\* A directory pulled for a job that still has run_root to itself holds what
\* is in current/ to this day, as far as it was pulled.
PulledDirs ==
  \A d \in Dirs :
    (warm[d].by # Nothing)
      => /\ job[warm[d].by].st = "COMPLETED"
         /\ (owner = warm[d].by) => /\ warm[d].head = current
                                    /\ warm[d].manifest \in {Nothing, current}

\* In its promotion a run has the manifest, or someone else wrote there.
PromoteSteps == {"promote", "promoteEod", "promoteSim", "cleanup"}
WholeAtPromote ==
  \A g \in DagIds :
    (run[g].st # "idle" /\ run[g].task \in PromoteSteps /\ warm[Day(g)].by = Job(g))
      => HasManifest(Day(g))

PromoteInv == OneRecordEach /\ JobIsOver /\ PulledDirs /\ WholeAtPromote

\* All that is known of a state.
Known == IndInv /\ JobEnds /\ DagInv /\ StoreTypeOK

LEMMA RecordsStayApart ==
  ASSUME Known, OneRecordEach, [PipelineNext]_vars
  PROVE  OneRecordEach'
<1> USE DEF Known, IndInv
<1> SUFFICES ASSUME NEW g \in DagIds, NEW h \in DagIds, NEW d \in Days, NEW e \in Days,
                    record'[g][d].jid # Nothing
             PROVE  /\ job'[record'[g][d].jid].st # "unused"
                    /\ (record'[h][e].jid = record'[g][d].jid) => (g = h /\ d = e)
  BY DEF OneRecordEach
<1>1. \A i \in Jobs : job[i].st # "unused" => job'[i].st # "unused"
  BY ClusterStepOrNone, UsedStays
<1>2. CASE \A f \in DagIds, c \in Days : record'[f][c].jid = record[f][c].jid
  <2>1. record[g][d].jid \in Jobs
    BY <1>2 DEF DagInv, DagTypeOK, JidRecords
  <2>. QED
    BY <1>1, <1>2, <2>1 DEF OneRecordEach
<1>3. ASSUME NEW f \in DagIds, NEW j \in Jobs, NEW skip \in BOOLEAN, Day(f) \in Days,
             Sbatch(j, Kind(f), skip),
             record' = [record EXCEPT ![f][Day(f)] = [jid |-> j, completed |-> FALSE]]
      PROVE  /\ job'[record'[g][d].jid].st # "unused"
             /\ (record'[h][e].jid = record'[g][d].jid) => (g = h /\ d = e)
  <2>1. job[j].st = "unused" /\ job'[j].st # "unused"
    BY <1>3 DEF Sbatch, NextId, TypeOK, JobRecords
  <2>2. \A b \in DagIds, c \in Days :
          record'[b][c].jid = IF b = f /\ c = Day(f) THEN j ELSE record[b][c].jid
    BY <1>3 DEF DagInv, DagTypeOK
  <2>3. \A b \in DagIds, c \in Days : record[b][c].jid # j /\ record[b][c].jid \in Jobs \cup {Nothing}
    BY <2>1, ClusterAssumption DEF OneRecordEach, DagInv, DagTypeOK, JidRecords
  <2>. QED
    BY <1>1, <2>1, <2>2, <2>3 DEF OneRecordEach
<1>4. \/ \A f \in DagIds, c \in Days : record'[f][c].jid = record[f][c].jid
      \/ \E f \in DagIds, j \in Jobs, skip \in BOOLEAN :
           /\ Day(f) \in Days /\ Sbatch(j, Kind(f), skip)
           /\ record' = [record EXCEPT ![f][Day(f)] = [jid |-> j, completed |-> FALSE]]
  BY RecordMoves
<1>. QED
  BY <1>2, <1>3, <1>4

\* A step of another DAG, or of the cluster, leaves a run alone.
LEMMA OthersRun ==
  ASSUME DagInv, [PipelineNext]_vars, NEW g \in DagIds, ~DagStep(g)
  PROVE  run'[g] = run[g]
<1>1. CASE UNCHANGED run
  BY <1>1
<1>2. ASSUME NEW h \in DagIds \ {g}, DagStep(h) PROVE run'[g] = run[g]
  BY <1>2 DEF DagInv, DagTypeOK, DagStep, StartRun, Operator, Clear, TaskFails, Raise, GoTo,
    Continue, Prologue, ShipBaseModel, CheckQueue, WipeRunRoot, ReuseJob, SubmitJob, SubmitLost,
    Sensor, PollCompleted, PollFailed, PollTimeout, Epilogue, Validate, PullModels, PullRest,
    PromoteBase, PromoteEod, PromoteSim, Cleanup, GenerateBasePredictions, ReloadBackend
<1>. QED
  BY <1>1, <1>2 DEF PipelineNext, ClusterStep, vars, dagVars

\* From which task a run goes on to which, behind the first one.
Follows(g, t, u) ==
  \/ <<t, u>> \in {<<"ship", "clean">>, <<"clean", "wipe">>, <<"wipe", "submit">>,
                   <<"validate", "rsync">>, <<"rsync", "rsyncRest">>,
                   <<"promote", "promoteEod">>, <<"promoteEod", "promoteSim">>,
                   <<"promoteEod", "predict">>, <<"promoteSim", "cleanup">>,
                   <<"cleanup", "reload">>, <<"predict", "reload">>}
  \/ t = "poll" /\ u = "validate" /\ PollCompleted(g)
  \/ t = "rsyncRest" /\ u = "promote" /\ PullRest(g) /\ current # Nothing

LEMMA TaskMoves ==
  ASSUME DagInv, NEW g \in DagIds, DagStep(g)
  PROVE  \/ run'[g].task \in {FirstTask(g), "poll"}
         \/ /\ run[g].st # "idle" /\ run'[g].jid = run[g].jid /\ run'[g].day = run[g].day
            /\ \/ run'[g].task \in {run[g].task, TaskStart(run[g].task)}
               \/ Follows(g, run[g].task, run'[g].task)
<1> USE DEF DagInv, DagTypeOK, RunRecords
<1>1. CASE Raise(g) /\ Active(g)
  BY <1>1 DEF Raise, Active
<1>2. ASSUME NEW t \in Tasks, GoTo(g, t) \/ Continue(g, t), Active(g), Follows(g, run[g].task, t)
      PROVE  /\ run[g].st # "idle" /\ run'[g].jid = run[g].jid /\ run'[g].day = run[g].day
             /\ Follows(g, run[g].task, run'[g].task)
  <2>1. run'[g].task = t
    BY <1>2 DEF GoTo, Continue
  <2>. QED
    BY <1>2, <2>1 DEF GoTo, Continue, Active
<1>3. CASE PollTimeout(g) \/ ReloadBackend(g)
  BY <1>3 DEF PollTimeout, ReloadBackend, At, Active
<1>4. CASE \E d \in Days : StartRun(g, d)
  BY <1>4 DEF StartRun
<1>5. CASE Operator(g)
  <2>1. PICK all \in BOOLEAN : Clear(g, all)
    BY <1>5, DagAssumption DEF Operator
  <2>2. CASE all
    BY <2>1, <2>2 DEF Clear
  <2>3. CASE ~all
    BY <2>1, <2>3 DEF Clear
  <2>. QED
    BY <2>2, <2>3
<1>6. CASE ReuseJob(g) \/ \E j \in Jobs : SubmitJob(g, j)
  <2>1. CASE ReuseJob(g)
    BY <2>1 DEF ReuseJob
  <2>2. ASSUME NEW j \in Jobs, SubmitJob(g, j) PROVE run'[g].task = "poll"
    BY <2>2 DEF SubmitJob
  <2>. QED
    BY <1>6, <2>1, <2>2
<1>7. CASE Prologue(g) \/ Sensor(g) \/ TaskFails(g)
  <2>1. \/ Raise(g) /\ Active(g)
        \/ /\ Active(g)
           /\ \E t \in Tasks : (GoTo(g, t) \/ Continue(g, t)) /\ Follows(g, run[g].task, t)
        \/ ReuseJob(g) \/ PollTimeout(g) \/ \E j \in Jobs : SubmitJob(g, j)
    BY <1>7 DEF Prologue, ShipBaseModel, CheckQueue, WipeRunRoot, SubmitLost, Sensor,
                PollCompleted, PollFailed, TaskFails, At, Tasks, Follows
  <2>. QED
    BY <1>1, <1>2, <1>3, <1>6, <2>1
<1>8. CASE Epilogue(g)
  <2>1. \/ Raise(g) /\ Active(g)
        \/ /\ Active(g)
           /\ \E t \in Tasks : (GoTo(g, t) \/ Continue(g, t)) /\ Follows(g, run[g].task, t)
        \/ ReloadBackend(g)
    BY <1>8 DEF Epilogue, Validate, PullModels, PullRest, PromoteBase, PromoteEod, PromoteSim,
                Cleanup, GenerateBasePredictions, Tasks, At, Follows
  <2>. QED
    BY <1>1, <1>2, <1>3, <2>1
<1>. QED
  BY <1>4, <1>5, <1>7, <1>8 DEF DagStep

\* Past the sensor a run keeps its date and its job, and it comes there only
\* when sacct says COMPLETED.
LEMMA PastPollMoves ==
  ASSUME DagInv, NEW g \in DagIds, DagStep(g), run'[g].task \in PastPoll
  PROVE  /\ run[g].st # "idle" /\ run'[g].jid = run[g].jid /\ run'[g].day = run[g].day
         /\ run[g].task \in PastPoll \/ PollCompleted(g)
<1>1. FirstTask(g) \notin PastPoll /\ "poll" \notin PastPoll
  BY DEF FirstTask, PastPoll, PastSubmit
<1>2. run[g].task \in Tasks
  BY DEF DagInv, DagTypeOK, RunRecords
<1>3. TaskStart(run[g].task) \in PastPoll => run[g].task \in PastPoll
  BY <1>2 DEF TaskStart, PastPoll, PastSubmit, Tasks
<1>4. Follows(g, run[g].task, run'[g].task) => run[g].task \in PastPoll \/ PollCompleted(g)
  BY <1>2 DEF Follows, PastPoll, PastSubmit, Tasks
<1>. QED
  BY <1>1, <1>3, <1>4, TaskMoves

\* A run comes to its promotion with both halves of the pull done.
LEMMA Promotes ==
  ASSUME Known, [PipelineNext]_vars, NEW g \in DagIds, Day(g) \in Dirs,
         run[g].task \notin PromoteSteps, run'[g].task \in PromoteSteps
  PROVE  warm'[Day(g)].manifest # Nothing
<1>1. DagInv /\ DagStep(g)
  BY OthersRun DEF Known
<1>2. FirstTask(g) \notin PromoteSteps /\ "poll" \notin PromoteSteps
  BY DEF FirstTask, PromoteSteps
<1>3. TaskStart(run[g].task) \notin PromoteSteps
  BY DEF TaskStart, PromoteSteps
<1>4. Follows(g, run[g].task, run'[g].task)
  BY <1>1, <1>2, <1>3, TaskMoves
<1>5. PullRest(g) /\ current # Nothing
  BY <1>4 DEF Follows, PromoteSteps
<1>. QED
  BY <1>5 DEF PullRest, PulledRest, Known, StoreTypeOK

LEMMA JobStaysOver ==
  ASSUME Known, JobIsOver, [PipelineNext]_vars
  PROVE  JobIsOver'
<1> USE DEF Known, IndInv
<1> SUFFICES ASSUME NEW g \in DagIds, run'[g].st # "idle", run'[g].task \in PastPoll
             PROVE  job'[run'[g].jid].st = "COMPLETED"
  BY DEF JobIsOver, Job
<1>1. CASE ~DagStep(g) \/ run[g].task \in PastPoll
  <2>1. run[g].st # "idle" /\ run[g].task \in PastPoll /\ run'[g].jid = Job(g)
    BY <1>1, PastPollMoves, OthersRun DEF Job
  <2>2. Job(g) \in Jobs /\ job[Job(g)].st = "COMPLETED"
    BY <2>1 DEF JobIsOver, DagInv, RunKnowsItsJob, HasJob, PastPoll
  <2>. QED
    BY <2>1, <2>2, ClusterStepOrNone, UsedStays
<1>2. CASE DagStep(g) /\ run[g].task \notin PastPoll
  BY <1>2, PastPollMoves DEF PollCompleted, Job, clusterVars
<1>. QED
  BY <1>1, <1>2

\* What happens to a directory.
LEMMA DirMoves ==
  ASSUME Known, [PipelineNext]_vars, NEW d \in Dirs
  PROVE  \/ warm'[d] = warm[d]
         \/ UNCHANGED clusterVars /\ warm'[d].by = Nothing
         \/ \E g \in DagIds :
              /\ d = Day(g) /\ UNCHANGED clusterVars /\ run[g].st # "idle"
              /\ warm'[d].by \in {Nothing, Job(g)}
              /\ \/ /\ run[g].task = "rsync" /\ warm'[d].by = Job(g)
                    /\ warm'[d].head = current /\ warm'[d].manifest = Nothing
                 \/ /\ run[g].task = "rsyncRest" /\ warm'[d].by \in {Nothing, warm[d].by}
                    /\ warm'[d].head = warm[d].head /\ warm'[d].manifest = current
                    /\ current # Nothing
<1> USE DEF Known, StoreTypeOK
<1>1. CASE UNCHANGED warm
  BY <1>1
<1>2. ASSUME NEW g \in DagIds, PullModels(g) \/ PullRest(g) \/ Cleanup(g), ~UNCHANGED warm
      PROVE  \/ warm'[d] = warm[d]
             \/ UNCHANGED clusterVars /\ warm'[d].by = Nothing
             \/ /\ d = Day(g) /\ UNCHANGED clusterVars /\ run[g].st # "idle"
                /\ warm'[d].by \in {Nothing, Job(g)}
                /\ \/ /\ run[g].task = "rsync" /\ warm'[d].by = Job(g)
                      /\ warm'[d].head = current /\ warm'[d].manifest = Nothing
                   \/ /\ run[g].task = "rsyncRest" /\ warm'[d].by \in {Nothing, warm[d].by}
                      /\ warm'[d].head = warm[d].head /\ warm'[d].manifest = current
                      /\ current # Nothing
  <2>1. CASE PullModels(g)
    BY <2>1 DEF PullModels, PulledHead, EmptyDir, At, Active
  <2>2. CASE PullRest(g)
    <3>1. /\ UNCHANGED clusterVars /\ run[g].st # "idle" /\ run[g].task = "rsyncRest"
          /\ current # Nothing
          /\ warm' = [warm EXCEPT ![Day(g)] =
                        [warm[Day(g)] EXCEPT !.manifest = current,
                                             !.by = IF @ = Job(g) THEN Job(g) ELSE Nothing]]
      BY <1>2, <2>2 DEF PullRest, PulledRest, At, Active
    <3>. QED
      BY <3>1
  <2>3. CASE Cleanup(g)
    BY <2>3 DEF Cleanup, EmptyDir
  <2>. QED
    BY <1>2, <2>1, <2>2, <2>3
<1>3. UNCHANGED warm \/ \E g \in DagIds : PullModels(g) \/ PullRest(g) \/ Cleanup(g)
  BY DEF PipelineNext, ClusterStep, vars, storeVars, DagStep, Prologue, Sensor, Epilogue, Operator,
         StartRun, Clear, TaskFails, ShipBaseModel, CheckQueue, WipeRunRoot, ReuseJob, SubmitJob,
         SubmitLost, PollCompleted, PollFailed, PollTimeout, Validate, PromoteBase, PromoteEod,
         PromoteSim, GenerateBasePredictions, ReloadBackend
<1>. QED
  BY <1>1, <1>2, <1>3

\* A directory nobody writes to stays the copy it was.
LEMMA PulledStays ==
  ASSUME IndInv, StoreTypeOK, PulledDirs, [Next]_clusterVars,
         NEW d \in Dirs, warm'[d] = warm[d], warm'[d].by # Nothing
  PROVE  /\ job'[warm'[d].by].st = "COMPLETED"
         /\ (owner' = warm'[d].by) => /\ warm'[d].head = current'
                                      /\ warm'[d].manifest \in {Nothing, current'}
<1>1. warm[d].by \in Jobs /\ job[warm[d].by].st = "COMPLETED"
  BY DEF PulledDirs, StoreTypeOK
<1>2. job'[warm[d].by].st = "COMPLETED"
  BY <1>1, UsedStays DEF IndInv
<1>3. (owner' = warm[d].by) => owner = warm[d].by /\ UNCHANGED current
  BY <1>1, CompletedStays
<1>. QED
  BY <1>2, <1>3 DEF PulledDirs

LEMMA DirsStayPulled ==
  ASSUME Known, JobIsOver, PulledDirs, [PipelineNext]_vars
  PROVE  PulledDirs'
<1> SUFFICES ASSUME NEW d \in Dirs, warm'[d].by # Nothing
             PROVE  /\ job'[warm'[d].by].st = "COMPLETED"
                    /\ (owner' = warm'[d].by) => /\ warm'[d].head = current'
                                                 /\ warm'[d].manifest \in {Nothing, current'}
  BY DEF PulledDirs
<1> USE DEF Known
<1>1. CASE warm'[d] = warm[d]
  BY <1>1, PulledStays, ClusterStepOrNone
<1>2. ASSUME NEW g \in DagIds, d = Day(g), UNCHANGED clusterVars, run[g].st # "idle",
             run[g].task = "rsync", warm'[d].by = Job(g), warm'[d].head = current,
             warm'[d].manifest = Nothing
      PROVE  /\ job'[warm'[d].by].st = "COMPLETED"
             /\ (owner' = warm'[d].by) => /\ warm'[d].head = current'
                                          /\ warm'[d].manifest \in {Nothing, current'}
  BY <1>2 DEF JobIsOver, PastPoll, PastSubmit, Tasks, clusterVars, rootVars
<1>3. CASE UNCHANGED clusterVars /\ warm'[d].by = warm[d].by /\ warm'[d].head = warm[d].head
           /\ warm'[d].manifest = current
  BY <1>3 DEF PulledDirs, clusterVars, rootVars
<1>. QED
  BY <1>1, <1>2, <1>3, DirMoves

LEMMA StaysWhole ==
  ASSUME Known, OneRecordEach, WholeAtPromote, [PipelineNext]_vars
  PROVE  WholeAtPromote'
<1> SUFFICES ASSUME NEW g \in DagIds, run'[g].st # "idle", run'[g].task \in PromoteSteps,
                    warm'[run'[g].day].by = run'[g].jid
             PROVE  warm'[run'[g].day].manifest # Nothing
  BY DEF WholeAtPromote, Day, Job, HasManifest
<1> USE DEF Known
<1>1. /\ run'[g].jid = Job(g) /\ run'[g].day = Day(g) /\ Day(g) \in Days /\ Day(g) \in Dirs
      /\ HasJob(g) /\ Job(g) \in Jobs /\ record[g][Day(g)].jid = Job(g)
  <2>1. /\ run'[g].jid = run[g].jid /\ run'[g].day = run[g].day /\ HasJob(g)
    BY PastPollMoves, OthersRun
    DEF PromoteSteps, PastPoll, PastSubmit, Tasks, HasJob, PollCompleted, At, Active
  <2>. QED
    BY <2>1, DagAssumption DEF Job, Day, HasJob, DagInv, DagTypeOK, RunKnowsItsJob
<1>2. CASE run[g].task \in PromoteSteps /\ warm'[Day(g)] = warm[Day(g)]
  BY <1>1, <1>2 DEF WholeAtPromote, HasManifest, HasJob
<1>3. ASSUME NEW h \in DagIds, Day(g) = Day(h), run[h].st # "idle",
             run[h].task \in {"rsync", "rsyncRest"}, warm'[Day(g)].by = Job(h)
      PROVE  h = g
  <2>1. HasJob(h)
    BY <1>3 DEF HasJob, PastSubmit, Tasks
  <2>2. record[h][Day(h)].jid = Job(h)
    BY <2>1 DEF DagInv, RunKnowsItsJob
  <2>. QED
    BY <1>1, <1>3, <2>2, ClusterAssumption DEF OneRecordEach
<1>4. CASE run[g].task \in PromoteSteps /\ warm'[Day(g)] # warm[Day(g)]
  BY <1>1, <1>3, <1>4, DirMoves, ClusterAssumption DEF PromoteSteps
<1>5. CASE run[g].task \notin PromoteSteps
  BY <1>1, <1>5, Promotes
<1>. QED
  BY <1>2, <1>4, <1>5

LEMMA PromoteInvHolds == PipelineSpec => []PromoteInv
<1>1. PipelineInit => PromoteInv
  BY DEF PipelineInit, StoreInit, PromoteInv, OneRecordEach, JobIsOver, PulledDirs,
         WholeAtPromote, EmptyDir
<1>2. Known /\ PromoteInv /\ [PipelineNext]_vars => PromoteInv'
  BY RecordsStayApart, JobStaysOver, DirsStayPulled, StaysWhole DEF PromoteInv
<1>3. IndInv /\ JobEnds /\ DagInv /\ StoreTypeOK => Known
  BY DEF Known
<1>. QED
  BY <1>1, <1>2, <1>3, DagInvHolds, StoreHolds, PipelineRefinesCluster, IndInvHolds, JobEndsHolds,
     PTL DEF PipelineSpec

\* A run's copy, whole and of a job that is over, is what that job ended with.
LEMMA PromoteIsOwn ==
  ASSUME IndInv, JobEnds, DagInv, StoreTypeOK, PromoteInv
  PROVE  PromotedIsOwn
<1>1. ASSUME NEW g \in DagIds, Promoting(g), owner = Job(g), warm[Day(g)].by = Job(g)
      PROVE  LET j == Job(g)
                 w == warm[Day(g)]
             IN /\ w.head = w.manifest /\ w.head # Nothing
                /\ w.head.by = j /\ w.head.stage = LastStage(j)
                /\ ~job[j].skip => w.head.rooted
  <2>1. HasJob(g) /\ run[g].task \in PastPoll \cap PromoteSteps /\ Day(g) \in Dirs
    BY <1>1, DagAssumption DEF Promoting, Active, HasJob, PastPoll, PastSubmit, Tasks,
                               PromoteSteps, Day, DagInv, DagTypeOK
  <2>2. Job(g) \in Jobs /\ job[Job(g)].st = "COMPLETED"
    BY <1>1, <2>1 DEF DagInv, RunKnowsItsJob, PromoteInv, JobIsOver, HasJob
  <2>3. warm[Day(g)].head = current /\ warm[Day(g)].manifest = current
    BY <1>1, <2>1, <2>2, ClusterAssumption
    DEF PromoteInv, PulledDirs, WholeAtPromote, HasManifest, HasJob
  <2>. QED
    BY <1>1, <2>2, <2>3, CompletedOwner DEF Own
<1>. QED
  BY <1>1 DEF PromotedIsOwn

\* What task_promote_model puts live is the run's own bundle of the last
\* stage, in one piece, as long as its job alone wrote to run_root and its run
\* alone to the directory.
THEOREM PromotedTheorem == PipelineSpec => []PromotedIsOwn
<1>1. IndInv /\ JobEnds /\ DagInv /\ StoreTypeOK /\ PromoteInv => PromotedIsOwn
  BY PromoteIsOwn
<1>. QED
  BY <1>1, PromoteInvHolds, DagInvHolds, StoreHolds, PipelineRefinesCluster, IndInvHolds,
     JobEndsHolds, PTL
----------------------------------------------------------------------------
(* One DAG alone: what its green runs mean.                                *)

\* Whatever a DAG does, it has a run.
LEMMA StepsAreRuns ==
  ASSUME DagInv, NEW g \in DagIds, DagStep(g)
  PROVE  run'[g].st # "idle"
<1> USE DEF DagInv, DagTypeOK, RunRecords, Active, At
<1>1. CASE (\E d \in Days : StartRun(g, d)) \/ \E all \in BOOLEAN : Clear(g, all)
  <2>1. ASSUME NEW d \in Days, StartRun(g, d) PROVE run'[g].st # "idle"
    BY <2>1 DEF StartRun
  <2>2. ASSUME NEW all \in BOOLEAN, Clear(g, all) PROVE run'[g].st # "idle"
    BY <2>2 DEF Clear
  <2>. QED
    BY <1>1, <2>1, <2>2
<1>2. ASSUME Active(g), Raise(g) PROVE run'[g].st # "idle"
  BY <1>2 DEF Raise
<1>3. ASSUME Active(g), NEW t, GoTo(g, t) \/ Continue(g, t) PROVE run'[g].st # "idle"
  BY <1>3 DEF GoTo, Continue
<1>4. CASE ReuseJob(g) \/ PollTimeout(g) \/ \E j \in Jobs : SubmitJob(g, j)
  <2>1. ASSUME NEW j \in Jobs, SubmitJob(g, j) PROVE run'[g].st # "idle"
    BY <2>1 DEF SubmitJob
  <2>. QED
    BY <1>4, <2>1 DEF ReuseJob, PollTimeout
<1>5. CASE Prologue(g) \/ Sensor(g) \/ TaskFails(g)
  BY <1>2, <1>3, <1>4, <1>5
  DEF Prologue, ShipBaseModel, CheckQueue, WipeRunRoot, SubmitLost, Sensor, PollCompleted, PollFailed,
      TaskFails
<1>6. CASE ReloadBackend(g)
  BY <1>6 DEF ReloadBackend
<1>7. CASE Epilogue(g)
  BY <1>2, <1>3, <1>6, <1>7
  DEF Epilogue, Validate, PullModels, PullRest, PromoteBase, PromoteEod, PromoteSim, Cleanup,
      GenerateBasePredictions
<1>. QED
  BY <1>1, <1>5, <1>7, DagAssumption DEF DagStep, Operator

\* The only DAG that has had runs was the only one before, and took the step.
LEMMA OnlyDagSteps ==
  ASSUME DagInv, [PipelineNext]_vars, NEW g \in DagIds, OnlyDag(g)'
  PROVE  OnlyDag(g) /\ \A h \in DagIds \ {g} : ~DagStep(h)
<1>1. \A h \in DagIds \ {g} : ~DagStep(h)
  BY StepsAreRuns DEF OnlyDag
<1>. QED
  BY <1>1, OthersRun DEF OnlyDag

\* The links a run has moved point to its date, and the manifest it looked
\* for before is still there.
MovedSoFar ==
  \A g \in DagIds : OnlyDag(g) /\ run[g].st # "idle" =>
    /\ run[g].task \in {"promoteEod", "promoteSim", "cleanup", "predict", "reload"}
         => link["base"] = Day(g) /\ HasManifest(Day(g))
    /\ run[g].task \in {"promoteSim", "cleanup", "predict", "reload"} => link["eod"] = Day(g)
    /\ run[g].st = "success" => run[g].task = "reload"

LEMMA MovedStep ==
  ASSUME DagInv, StoreTypeOK, MovedSoFar, [PipelineNext]_vars
  PROVE  MovedSoFar'
<1> SUFFICES ASSUME NEW g \in DagIds, OnlyDag(g)'
             PROVE  run'[g].st # "idle" =>
                      /\ run'[g].task \in {"promoteEod", "promoteSim", "cleanup", "predict", "reload"}
                           => link'["base"] = run'[g].day /\ warm'[run'[g].day].manifest # Nothing
                      /\ run'[g].task \in {"promoteSim", "cleanup", "predict", "reload"}
                           => link'["eod"] = run'[g].day
                      /\ run'[g].st = "success" => run'[g].task = "reload"
  BY DEF MovedSoFar, Day, HasManifest
<1>0. OnlyDag(g) /\ \A h \in DagIds \ {g} : ~DagStep(h)
  BY OnlyDagSteps
<1> USE <1>0 DEF MovedSoFar, Day, HasManifest, DagInv, DagTypeOK, RunRecords
<1>1. CASE UNCHANGED <<storeVars, run>>
  BY <1>1 DEF storeVars
<1>2. CASE DagStep(g)
  <2>1. CASE \E d \in Days : StartRun(g, d)
    BY <2>1 DEF StartRun, FirstTask
  <2>2. CASE \E all \in BOOLEAN : Clear(g, all)
    BY <2>2 DEF Clear, FirstTask, storeVars
  <2>3. CASE Raise(g) /\ Active(g) /\ run[g].task \notin {"predict", "reload"}
    <3>1. TaskStart(run[g].task)
            \notin {"promoteEod", "promoteSim", "cleanup", "predict", "reload"}
      BY <2>3 DEF TaskStart
    <3>. QED
      BY <2>3, <3>1 DEF Raise, Active
  <2>4. CASE Prologue(g) \/ Sensor(g)
    <3>1. \/ Raise(g) /\ Active(g) /\ run[g].task \notin {"predict", "reload"}
          \/ \E t \in {"clean", "wipe", "submit", "validate"} :
               Active(g) /\ (GoTo(g, t) \/ Continue(g, t))
          \/ ReuseJob(g) \/ PollTimeout(g) \/ \E j \in Jobs : SubmitJob(g, j)
      BY <2>4 DEF Prologue, ShipBaseModel, CheckQueue, WipeRunRoot, SubmitLost, Sensor,
                  PollCompleted, PollFailed, At
    <3>2. ASSUME NEW t \in {"clean", "wipe", "submit", "validate"}, Active(g),
                 GoTo(g, t) \/ Continue(g, t)
          PROVE  run'[g].task = t /\ run'[g].st = "running"
      BY <3>2 DEF GoTo, Continue, Active
    <3>3. ASSUME ReuseJob(g) \/ PollTimeout(g) \/ \E j \in Jobs : SubmitJob(g, j)
          PROVE  run'[g].task = "poll" /\ run'[g].st # "success"
      <4>1. CASE ReuseJob(g)
        BY <4>1 DEF ReuseJob, At, Active
      <4>2. CASE PollTimeout(g)
        BY <4>2 DEF PollTimeout, At
      <4>3. ASSUME NEW j \in Jobs, SubmitJob(g, j)
            PROVE  run'[g].task = "poll" /\ run'[g].st # "success"
        BY <4>3 DEF SubmitJob, At, Active
      <4>. QED
        BY <3>3, <4>1, <4>2, <4>3
    <3>. QED
      BY <2>3, <3>1, <3>2, <3>3
  <2>5. CASE Validate(g) \/ PullModels(g) \/ PullRest(g)
    BY <2>3, <2>5 DEF Validate, PullModels, PullRest, GoTo, Continue, At, Active
  <2>6. CASE PromoteBase(g) \/ PromoteEod(g) \/ PromoteSim(g)
    <3>1. CASE PromoteBase(g)
      BY <2>3, <3>1 DEF PromoteBase, Continue, At, Active, StoreTypeOK, Links
    <3>2. CASE PromoteEod(g)
      <4>1. /\ run'[g].task \in {"promoteSim", "predict"} /\ run'[g].st = "running"
            /\ run'[g].day = run[g].day
        BY <3>2 DEF PromoteEod, GoTo, Continue, At, Active
      <4>2. link'["base"] = link["base"] /\ link'["eod"] = Day(g) /\ UNCHANGED warm
        BY <3>2 DEF PromoteEod, StoreTypeOK, Links
      <4>. QED
        BY <3>2, <4>1, <4>2 DEF PromoteEod, At, Active
    <3>3. CASE PromoteSim(g)
      BY <3>3 DEF PromoteSim, Continue, At, Active, StoreTypeOK, Links
    <3>. QED
      BY <2>6, <3>1, <3>2, <3>3
  <2>7. CASE Cleanup(g)
    BY <2>7, DagAssumption DEF Cleanup, GoTo, At, Active, StoreTypeOK, storeVars
  <2>8. CASE GenerateBasePredictions(g) \/ ReloadBackend(g)
    BY <2>8 DEF GenerateBasePredictions, ReloadBackend, GoTo, At, Active, storeVars
  <2>9. CASE TaskFails(g)
    BY <2>3, <2>9 DEF TaskFails
  <2>. QED
    BY <1>2, <2>1, <2>2, <2>4, <2>5, <2>6, <2>7, <2>8, <2>9, DagAssumption
    DEF DagStep, Epilogue, Operator
<1>3. UNCHANGED <<storeVars, run>> \/ DagStep(g)
  BY DEF PipelineNext, ClusterStep, vars, dagVars
<1>. QED
  BY <1>1, <1>2, <1>3

LEMMA MovedHolds == PipelineSpec => []MovedSoFar
<1>1. PipelineInit => MovedSoFar
  BY DEF PipelineInit, MovedSoFar
<1>2. DagInv /\ StoreTypeOK /\ MovedSoFar /\ [PipelineNext]_vars => MovedSoFar'
  BY MovedStep
<1>. QED
  BY <1>1, <1>2, DagInvHolds, StoreHolds, PTL DEF PipelineSpec

\* As long as one DAG alone has had runs, a green run has both model links on
\* its date, at a bundle with a manifest, for any retries, clears and retention.
THEOREM GreenTheorem == PipelineSpec => []GreenRunIsLive
<1>1. MovedSoFar => GreenRunIsLive
  BY DEF MovedSoFar, GreenRunIsLive
<1>. QED
  BY <1>1, MovedHolds, PTL

\* Nor does the cleanup of promote_model then empty the directory a model link
\* points to.
THEOREM SparesTheorem == PipelineSpec => CleanupSparesLive
<1>1. ASSUME DagInv, StoreTypeOK, MovedSoFar, [PipelineNext]_vars,
             NEW g \in DagIds, OnlyDag(g), At(g, "cleanup"), ~(At(g, "cleanup"))',
             NEW l \in {"base", "eod"}, link[l] # Nothing, HasManifest(link[l])
      PROVE  warm'[link[l]].manifest # Nothing
  <2>1. link[l] = Day(g)
    BY <1>1 DEF MovedSoFar, At, Active
  <2>2. UNCHANGED warm \/ Cleanup(g)
    <3>1. DagStep(g)
      BY <1>1, OthersRun DEF At, Active
    <3>. QED
      BY <1>1, <3>1 DEF At, Active, storeVars, DagStep, Prologue,
        ShipBaseModel, CheckQueue, WipeRunRoot, ReuseJob, SubmitJob, SubmitLost, Sensor,
        PollCompleted, PollFailed, PollTimeout, Epilogue, Validate, PullModels, PullRest,
        PromoteBase, PromoteEod, PromoteSim, GenerateBasePredictions, ReloadBackend, StartRun,
        TaskFails, Operator, Clear
  <2>3. Day(g) \in Dirs
    BY <1>1, DagAssumption DEF At, Active, Day, DagInv, DagTypeOK
  <2>. QED
    BY <1>1, <2>1, <2>2, <2>3 DEF Cleanup, HasManifest, StoreTypeOK
<1>2. DagInv /\ StoreTypeOK /\ MovedSoFar /\ [PipelineNext]_vars
        => [\A g \in DagIds : OnlyDag(g) /\ At(g, "cleanup") /\ ~(At(g, "cleanup"))' =>
              \A l \in {"base", "eod"} :
                (link[l] # Nothing /\ HasManifest(link[l])) => warm'[link[l]].manifest # Nothing]_vars
  BY <1>1
<1>. QED
  BY <1>2, MovedHolds, DagInvHolds, StoreHolds, PTL DEF PipelineSpec, CleanupSparesLive
-----------------------------------------------------------------------------
(* The training day: the nightly runs beside the intraday slots, and in    *)
(* the evening beside the catch-up and the fallback.                       *)

\* Both DAGs are switched on, and what the module assumes.
DayAssumptions == /\ SlotAssumption /\ CatchAssumption /\ NamesAssumption
                  /\ CatchDays \cap Slots = {} /\ DagIds = {"daily", "baseOnly"}

trainingVars == <<dayVars, eveningVars, part>>

\* The job of a catch-up, from its submission on.
CatchKnowsItsJob == /\ catch.task = "submit" => catch.jid = Nothing
                    /\ catch.task # "submit" => catch.jid \in Jobs

\* The slots' jobs are those of sim_warm_windows.sbatch.
WarmIn(f, j) == j \in Jobs /\ f[j].st # "unused" /\ f[j].kind = "warm"

SlotKnowsItsJob ==
  /\ \A s \in Slots : slotRecord[s] # Nothing => WarmIn(job, slotRecord[s])
  /\ slotRun.task = "submit" => slotRun.jid = Nothing
  /\ slotRun.pulled => slotRun.task \in {"promote", "promoteSim", "reload"}
  /\ slotRun.task = "promoteSim" => slotRun.pulled
  /\ slotRun.task \in {"poll", "validate", "rsync", "rsyncRest"} \/ slotRun.pulled
       => WarmIn(job, slotRun.jid)
  /\ slotRun.task \in {"validate", "rsync", "rsyncRest"} \/ slotRun.pulled
       => job[slotRun.jid].st = "COMPLETED"

\* Nobody but its own run has written to a slot's directory.
SlotDirs ==
  /\ \A s \in Slots : s > Slot => warm[s].by = Nothing /\ warm[s].manifest = Nothing
  /\ slotRun.st # "idle" =>
       /\ warm[Slot].by \in {Nothing, slotRun.jid}
       /\ warm[Slot].by = Nothing => warm[Slot].manifest = Nothing
       /\ slotRun.task = "rsyncRest" => warm[Slot].by = slotRun.jid
       /\ slotRun.pulled => HasManifest(Slot)

\* A replay that went live is the one of a slot whose pulls are over.
ReplaysAreOver ==
  link["sim"] \in Slots => /\ link["sim"] <= Slot
                           /\ link["sim"] = Slot => slotRun.task = "reload"

\* The catch-up's job is a base training that no record names; behind the
\* sensor it is completed, and both halves of its pull came.
CatchHolds ==
  catch.task # "submit" =>
    /\ catch.st # "idle"
    /\ job[catch.jid].st # "unused" /\ job[catch.jid].kind = "base" /\ ~job[catch.jid].skip
    /\ \A g \in DagIds, d \in Days : record[g][d].jid # catch.jid
    /\ catch.task # "poll" => job[catch.jid].st = "COMPLETED"
    /\ catch.task \in {"base", "eod"} /\ warm[catch.day].by = catch.jid
         => HasManifest(catch.day)
-----------------------------------------------------------------------------
(* Its steps: those of the nightly runs, and those of the others.          *)

LEMMA TrainingMoves ==
  ASSUME DayAssumptions, [TrainingNext]_trainingVars
  PROVE  \/ [PipelineNext]_vars /\ UNCHANGED <<slotVars, catchVars>>
         \/ SlotStep /\ UNCHANGED <<dagVars, catchVars>>
         \/ CatchStep /\ UNCHANGED <<dagVars, slotVars>>
         \/ (\E d \in Days : StartTriggered(d)) /\ UNCHANGED <<slotVars, catchVars>>
<1>1. CASE UNCHANGED trainingVars
  BY <1>1 DEF trainingVars, dayVars, eveningVars
<1>2. CASE DayPart
  BY <1>2 DEF DayPart, DayAssumptions, PipelineNext, eveningVars
<1>3. CASE NightPart
  BY <1>3 DEF NightPart, eveningVars
<1>4. CASE EveningPart
  <2>1. CASE (ClusterStep \/ DagStep("baseOnly")) /\ UNCHANGED <<eveningVars, slotVars>>
    BY <2>1 DEF DayAssumptions, PipelineNext, eveningVars
  <2>2. CASE FallbackStep /\ UNCHANGED slotVars
    BY <2>2 DEF FallbackStep, CheckBundle, TriggerTraining, StartTriggered
  <2>. QED
    BY <1>4, <2>1, <2>2 DEF EveningPart
<1>. QED
  BY <1>1, <1>2, <1>3, <1>4 DEF TrainingNext

\* What a slot's run does to jobs and records.
LEMMA SlotSubmits ==
  ASSUME SlotStep
  PROVE  \/ UNCHANGED <<clusterVars, slotRecord, strays>>
         \/ \E j \in Jobs :
              /\ slotRun.st = "running" /\ slotRecord[Slot] = Nothing
              /\ Sbatch(j, "warm", TRUE)
              /\ \/ strays' = strays \cup {j} /\ UNCHANGED slotRecord
                 \/ slotRecord' = [slotRecord EXCEPT ![Slot] = j] /\ UNCHANGED strays
<1>1. CASE \E s \in Slots : StartSlot(s)
  BY <1>1 DEF StartSlot
<1>2. CASE \E j \in Jobs : SubmitWarm(j)
  BY <1>2 DEF SubmitWarm, SlotAt
<1>3. CASE SubmitWarmFails
  BY <1>3 DEF SubmitWarmFails, SlotAt
<1>. QED
  BY <1>1, <1>2, <1>3
  DEF SlotStep, WarmCompleted, WarmPollRaises, WarmPollTimeout, ValidateOrFlag,
      ValidateUnreachable, PullWarm, PullWarmRest, PromoteIntraday, PromoteReplay, PromoteFails,
      ReloadWarm

\* What a catch-up does to jobs: it submits one, or leaves its old one to itself.
LEMMA CatchSubmits ==
  ASSUME CatchStep, CatchTypeOK
  PROVE  \/ UNCHANGED <<clusterVars, loose>> /\ catch'.jid = catch.jid
         \/ /\ UNCHANGED clusterVars /\ catch'.jid = Nothing
            /\ loose' = loose \cup ({catch.jid} \ {Nothing})
         \/ \E j \in Jobs :
              /\ catch.task = "submit" /\ Sbatch(j, "base", FALSE)
              /\ \/ catch'.jid = j /\ UNCHANGED loose
                 \/ catch'.jid = catch.jid /\ loose' = loose \cup {j}
<1> USE DEF CatchTypeOK
<1>1. ASSUME CatchRaise PROVE catch'.jid = catch.jid
  BY <1>1 DEF CatchRaise
<1>2. ASSUME NEW t \in CatchTasks, CatchGoTo(t) PROVE catch'.jid = catch.jid
  BY <1>2 DEF CatchGoTo
<1>3. CASE \E d \in CatchDays : TriggerCatchup(d)
  BY <1>3 DEF TriggerCatchup
<1>4. ASSUME NEW j \in Jobs, SubmitCatchup(j)
      PROVE  /\ catch.task = "submit" /\ Sbatch(j, "base", FALSE)
             /\ \/ catch'.jid = j /\ UNCHANGED loose
                \/ catch'.jid = catch.jid /\ loose' = loose \cup {j}
  BY <1>4, <1>1 DEF SubmitCatchup, CatchAt
<1>5. CASE \/ CatchupCompleted \/ CatchupPollEnds \/ PullCatchup \/ PullCatchupRest
           \/ LinkBase \/ LinkEod \/ CatchupFails \/ FinishCatchup
  <2>1. UNCHANGED <<clusterVars, loose>>
    BY <1>5 DEF CatchupCompleted, CatchupPollEnds, PullCatchup, PullCatchupRest, LinkBase, LinkEod,
                CatchupFails, FinishCatchup
  <2>2. \/ CatchRaise \/ CatchGoTo("pull") \/ CatchGoTo("predict")
        \/ catch' = [catch EXCEPT !.st = "failed"] \/ catch' = [catch EXCEPT !.st = "success"]
        \/ \E t \in CatchTasks : catch' = [catch EXCEPT !.task = t]
    BY <1>5 DEF CatchupCompleted, CatchupPollEnds, PullCatchup, PullCatchupRest, LinkBase, LinkEod,
                CatchupFails, FinishCatchup, CatchTasks
  <2>3. catch'.jid = catch.jid
    BY <1>1, <1>2, <2>2 DEF CatchTasks
  <2>. QED
    BY <2>1, <2>3
<1>. QED
  BY <1>3, <1>4, <1>5 DEF CatchStep

\* Every step uses the cluster as NibiCluster allows.
LEMMA TrainingCluster ==
  ASSUME DayAssumptions, CatchTypeOK, [TrainingNext]_trainingVars
  PROVE  [Next]_clusterVars
<1>1. CASE SlotStep
  BY <1>1, SlotSubmits DEF Next, Environment
<1>2. CASE CatchStep
  BY <1>2, CatchSubmits DEF Next, Environment
<1>. QED
  BY <1>1, <1>2, TrainingMoves, ClusterStepOrNone DEF StartTriggered

\* Steps of the others leave the records of the nightly runs alone.
LEMMA OthersKeepRecords ==
  ASSUME TypeOK, DagInv, [Next]_clusterVars, UNCHANGED dagVars
  PROVE  DagInv'
<1> USE DEF dagVars
<1>1. DagTypeOK' /\ RunKnowsItsJob'
  BY DEF DagInv, DagTypeOK, RunKnowsItsJob, HasJob, Job, Day
<1>2. RecordIsHonest'
  <2> SUFFICES ASSUME NEW g \in DagIds, NEW d \in Days, record[g][d].completed
               PROVE  /\ record[g][d].jid # Nothing
                      /\ job'[record[g][d].jid].st = "COMPLETED"
    BY DEF RecordIsHonest
  <2>1. record[g][d].jid # Nothing /\ job[record[g][d].jid].st = "COMPLETED"
    BY DEF DagInv, RecordIsHonest
  <2>2. record[g][d].jid \in Jobs
    BY <2>1 DEF DagInv, DagTypeOK, JidRecords
  <2>. QED
    BY <2>1, <2>2, UsedStays
<1>. QED
  BY <1>1, <1>2 DEF DagInv

LEMMA TriggeredStep ==
  ASSUME TypeOK, DagInv, DayAssumptions, NEW d \in Days, StartTriggered(d)
  PROVE  DagInv' /\ NoneDropped
<1>1. "baseOnly" \in DagIds
  BY DEF DayAssumptions
<1>2. UNCHANGED <<job, record, orphans>>
  BY DEF StartTriggered, clusterVars
<1>. QED
  BY <1>1, <1>2, BeginStep, NewRunIs DEF StartTriggered
-----------------------------------------------------------------------------
(* A slot's run.                                                           *)

SlotRuns == [st : {"idle", "running", "done"}, slot : Slots \cup {0}, task : SlotTasks,
             tries : 0..1, jid : Jobs \cup {Nothing}, pulled : BOOLEAN]

\* From one task of a slot's run to the next.
SlotFollows(t, u) ==
  \/ t = u
  \/ t # "reload" /\ u = "promote"
  \/ <<t, u>> \in {<<"validate", "rsync">>, <<"rsyncRest", "rsync">>, <<"promote", "reload">>,
                   <<"promoteSim", "reload">>}
  \/ t = "poll" /\ u = "validate" /\ job[slotRun.jid].st = "COMPLETED"
  \/ t = "rsync" /\ u = "rsyncRest" /\ PullWarm
  \/ t = "promote" /\ u = "promoteSim" /\ slotRun.pulled

SlotGoesOn ==
  /\ slotRun.st = "running" /\ slotRun'.st \in {"running", "done"}
  /\ slotRun'.slot = Slot /\ slotRun'.jid = slotRun.jid
  /\ SlotFollows(slotRun.task, slotRun'.task)
  /\ \/ slotRun'.pulled = slotRun.pulled
     \/ slotRun.task = "rsyncRest" /\ slotRun'.task = "promote" /\ PullWarmRest

\* The job and the pull of a run, when nothing but its task changes.
SameRun == slotRun'.slot = Slot /\ slotRun'.jid = slotRun.jid /\ slotRun'.pulled = slotRun.pulled

LEMMA SlotWays ==
  ASSUME DayAssumptions, slotRun \in SlotRuns, slotRun.st = "running"
  PROVE  /\ \A t \in SlotTasks : SlotGoTo(t) =>
              /\ slotRun' \in SlotRuns /\ SameRun
              /\ slotRun'.st = "running" /\ slotRun'.task = t
         /\ Tail => /\ slotRun' \in SlotRuns /\ SameRun
                    /\ slotRun'.st = "running" /\ slotRun'.task = "promote"
         /\ SlotRaise => /\ slotRun' \in SlotRuns /\ SameRun
                         /\ slotRun'.st = "running"
                         /\ slotRun'.task \in {slotRun.task, "promote"}
<1> USE DEF DayAssumptions, SlotAssumption, SlotRuns, SameRun, Slot
<1>1. ASSUME NEW t \in SlotTasks, SlotGoTo(t)
      PROVE  slotRun' \in SlotRuns /\ SameRun /\ slotRun'.st = "running" /\ slotRun'.task = t
  BY <1>1 DEF SlotGoTo
<1>2. ASSUME Tail
      PROVE  /\ slotRun' \in SlotRuns /\ SameRun
             /\ slotRun'.st = "running" /\ slotRun'.task = "promote"
  BY <1>2 DEF Tail, SlotTasks
<1>3. ASSUME SlotRaise
      PROVE  /\ slotRun' \in SlotRuns /\ SameRun /\ slotRun'.st = "running"
             /\ slotRun'.task \in {slotRun.task, "promote"}
  <2>1. CASE slotRun.tries > 0
    <3>1. slotRun' = [slotRun EXCEPT !.tries = slotRun.tries - 1]
      BY <1>3, <2>1 DEF SlotRaise
    <3>2. slotRun.tries - 1 \in 0..1
      BY <2>1
    <3>. QED
      BY <3>1, <3>2
  <2>2. CASE ~(slotRun.tries > 0)
    BY <1>2, <1>3, <2>2 DEF SlotRaise
  <2>. QED
    BY <2>1, <2>2
<1>. QED
  BY <1>1, <1>2, <1>3

LEMMA SlotMoves ==
  ASSUME DayAssumptions, slotRun \in SlotRuns, SlotStep
  PROVE  /\ slotRun' \in SlotRuns
         /\ \/ \E s \in Slots : StartSlot(s)
            \/ \E j \in Jobs : SubmitWarm(j)
            \/ SlotGoesOn
<1> USE DEF SlotAt
<1>1. ASSUME NEW s \in Slots, StartSlot(s) PROVE slotRun' \in SlotRuns
  BY <1>1 DEF StartSlot, SlotRuns, SlotTasks, DayAssumptions, SlotAssumption
<1>2. ASSUME NEW j \in Jobs, SubmitWarm(j) PROVE slotRun' \in SlotRuns
  BY <1>2 DEF SubmitWarm, SlotRuns, SlotTasks, DayAssumptions, SlotAssumption
<1>3. CASE SubmitWarmFails
  <2>1. SlotRaise /\ slotRun.st = "running" /\ slotRun.task = "submit"
    BY <1>3 DEF SubmitWarmFails
  <2>. QED
    BY <2>1, SlotWays DEF SlotGoesOn, SlotFollows, SameRun
<1>4. CASE WarmCompleted \/ WarmPollRaises \/ WarmPollTimeout
  <2>1. /\ slotRun.st = "running" /\ slotRun.task = "poll"
        /\ \/ SlotGoTo("validate") /\ job[slotRun.jid].st = "COMPLETED"
           \/ SlotRaise \/ Tail
    BY <1>4 DEF WarmCompleted, WarmPollRaises, WarmPollTimeout
  <2>. QED
    BY <2>1, SlotWays DEF SlotGoesOn, SlotFollows, SameRun, SlotTasks
<1>5. CASE ValidateOrFlag \/ ValidateUnreachable
  <2>1. /\ slotRun.st = "running" /\ slotRun.task = "validate"
        /\ SlotGoTo("rsync") \/ Tail
    BY <1>5 DEF ValidateOrFlag, ValidateUnreachable
  <2>. QED
    BY <2>1, SlotWays DEF SlotGoesOn, SlotFollows, SameRun, SlotTasks
<1>6. CASE PullWarm
  <2>1. slotRun.st = "running" /\ slotRun.task = "rsync"
    BY <1>6 DEF PullWarm
  <2>2. CASE SlotRaise
    BY <2>1, <2>2, SlotWays DEF SlotGoesOn, SlotFollows, SameRun
  <2>3. CASE slotRun' = [slotRun EXCEPT !.task = "rsyncRest"]
    BY <1>6, <2>1, <2>3 DEF SlotGoesOn, SlotFollows, SlotRuns, SlotTasks, Slot
  <2>. QED
    BY <1>6, <2>2, <2>3 DEF PullWarm
<1>7. CASE PullWarmRest
  <2>1. slotRun.st = "running" /\ slotRun.task = "rsyncRest"
    BY <1>7 DEF PullWarmRest
  <2>2. CASE Tail
    BY <2>1, <2>2, SlotWays DEF SlotGoesOn, SlotFollows, SameRun
  <2>3. CASE slotRun.tries > 0 /\ slotRun' = [slotRun EXCEPT !.task = "rsync", !.tries = @ - 1]
    <3>1. slotRun.tries - 1 \in 0..1
      BY <2>3 DEF SlotRuns
    <3>2. slotRun' = [slotRun EXCEPT !.task = "rsync", !.tries = slotRun.tries - 1]
      BY <2>3
    <3>. QED
      BY <2>1, <3>1, <3>2 DEF SlotGoesOn, SlotFollows, SlotRuns, SlotTasks, Slot
  <2>4. CASE slotRun' = [slotRun EXCEPT !.task = "promote", !.tries = SlotRetry, !.pulled = TRUE]
    BY <1>7, <2>1, <2>4
    DEF SlotGoesOn, SlotFollows, SlotRuns, SlotTasks, Slot, DayAssumptions, SlotAssumption
  <2>. QED
    BY <1>7, <2>2, <2>3, <2>4 DEF PullWarmRest
<1>8. CASE PromoteIntraday
  <2>1. slotRun.st = "running" /\ slotRun.task = "promote"
    BY <1>8 DEF PromoteIntraday
  <2>2. CASE SlotGoTo("reload")
    BY <2>1, <2>2, SlotWays DEF SlotGoesOn, SlotFollows, SameRun, SlotTasks
  <2>3. CASE slotRun.pulled /\ slotRun' = [slotRun EXCEPT !.task = "promoteSim"]
    BY <2>1, <2>3 DEF SlotGoesOn, SlotFollows, SlotRuns, SlotTasks, Slot
  <2>. QED
    BY <1>8, <2>2, <2>3 DEF PromoteIntraday
<1>9. CASE PromoteReplay
  BY <1>9, SlotWays DEF PromoteReplay, SlotGoesOn, SlotFollows, SameRun, SlotTasks
<1>10. CASE PromoteFails
  <2>1. slotRun.st = "running" /\ slotRun.task \in {"promote", "promoteSim"}
    BY <1>10 DEF PromoteFails
  <2>2. CASE slotRun.tries > 0
    <3>1. slotRun.tries - 1 \in 0..1
      BY <2>2 DEF SlotRuns
    <3>2. slotRun' = [slotRun EXCEPT !.task = "promote", !.tries = slotRun.tries - 1]
      BY <1>10, <2>2 DEF PromoteFails
    <3>. QED
      BY <2>1, <3>1, <3>2 DEF SlotGoesOn, SlotFollows, SlotRuns, SlotTasks, Slot
  <2>3. CASE ~(slotRun.tries > 0)
    <3>1. slotRun' = [slotRun EXCEPT !.task = "reload"]
      BY <1>10, <2>3 DEF PromoteFails
    <3>. QED
      BY <2>1, <3>1 DEF SlotGoesOn, SlotFollows, SlotRuns, SlotTasks, Slot
  <2>. QED
    BY <2>2, <2>3
<1>11. CASE ReloadWarm
  BY <1>11 DEF ReloadWarm, SlotGoesOn, SlotFollows, SlotRuns, SlotTasks, Slot
<1>. QED
  BY <1>1, <1>2, <1>3, <1>4, <1>5, <1>6, <1>7, <1>8, <1>9, <1>10, <1>11 DEF SlotStep

\* A job that was submitted stays what it is.
LEMMA KindStays ==
  ASSUME TypeOK, [Next]_clusterVars, NEW i \in Jobs, job[i].st # "unused"
  PROVE  job'[i].kind = job[i].kind /\ job'[i].skip = job[i].skip
<1> USE DEF TypeOK
<1>1. CASE UNCHANGED job
  BY <1>1
<1>2. ASSUME NEW j \in Jobs, Slurm(j)
      PROVE  job'[i].kind = job[i].kind /\ job'[i].skip = job[i].skip
  BY <1>2 DEF Slurm, Start, Die, Read, Train, Publish, Snapshot, WindowError, WriteDone, Exit,
              ExitFailed, AtEnd, JobRecords, rootVars
<1>3. ASSUME NEW j \in Jobs, NEW kind \in Kinds, NEW skip \in BOOLEAN, Sbatch(j, kind, skip)
      PROVE  job'[i].kind = job[i].kind /\ job'[i].skip = job[i].skip
  BY <1>3 DEF Sbatch, NextId, JobRecords
<1>4. \/ UNCHANGED job \/ \E j \in Jobs : Slurm(j)
      \/ \E j \in Jobs, kind \in Kinds, skip \in BOOLEAN : Sbatch(j, kind, skip)
  BY DEF Next, Environment, Wipe, ShipBase, Predict, clusterVars, Kinds
<1>. QED
  BY <1>1, <1>2, <1>3, <1>4

LEMMA WarmJobsStay ==
  ASSUME TypeOK, [Next]_clusterVars, NEW j, WarmIn(job, j)
  PROVE  WarmIn(job', j) /\ (job[j].st = "COMPLETED" => job'[j].st = "COMPLETED")
BY UsedStays, KindStays DEF WarmIn

LEMMA SubmittedIs ==
  ASSUME TypeOK, NEW j \in Jobs, NEW kind \in Kinds, NEW skip \in BOOLEAN, Sbatch(j, kind, skip)
  PROVE  /\ job[j].st = "unused" /\ job'[j].st = "PENDING"
         /\ job'[j].kind = kind /\ job'[j].skip = skip
BY DEF Sbatch, NextId, TypeOK, JobRecords

\* Other steps leave a slot's run with its job.
LEMMA SlotKnowsStays ==
  ASSUME TypeOK, SlotTypeOK, SlotKnowsItsJob, [Next]_clusterVars, UNCHANGED slotVars
  PROVE  SlotTypeOK' /\ SlotKnowsItsJob'
<1> USE DEF slotVars
<1>1. SlotTypeOK'
  BY DEF SlotTypeOK, Slot
<1>2. \A s \in Slots : slotRecord'[s] # Nothing => WarmIn(job', slotRecord'[s])
  BY WarmJobsStay DEF SlotKnowsItsJob
<1>3. WarmIn(job, slotRun.jid) => /\ WarmIn(job', slotRun'.jid)
                                  /\ job[slotRun.jid].st = "COMPLETED"
                                       => job'[slotRun'.jid].st = "COMPLETED"
  BY WarmJobsStay
<1>. QED
  BY <1>1, <1>2, <1>3 DEF SlotKnowsItsJob

LEMMA SlotKnowsStep ==
  ASSUME DayAssumptions, TypeOK, SlotTypeOK, SlotKnowsItsJob, [Next]_clusterVars, SlotStep
  PROVE  SlotTypeOK' /\ SlotKnowsItsJob'
<1> USE DEF SlotTypeOK
<1>1. slotRun \in SlotRuns
  BY DEF SlotRuns
<1>2. slotRun.st = "running" => Slot \in Slots
  BY DEF Slot
<1>3. \A j : WarmIn(job, j) => /\ WarmIn(job', j)
                               /\ job[j].st = "COMPLETED" => job'[j].st = "COMPLETED"
  BY WarmJobsStay
<1>4. \A j \in Jobs : Sbatch(j, "warm", TRUE) => WarmIn(job', j)
  BY SubmittedIs DEF WarmIn, Kinds
<1>5. slotRecord' \in [Slots -> Jobs \cup {Nothing}] /\ strays' \subseteq Jobs
  BY <1>2, SlotSubmits
<1>6. \A s \in Slots : slotRecord'[s] # Nothing => WarmIn(job', slotRecord'[s])
  <2>1. CASE UNCHANGED slotRecord
    BY <1>3, <2>1 DEF SlotKnowsItsJob
  <2>2. ASSUME NEW j \in Jobs, Sbatch(j, "warm", TRUE),
               slotRecord' = [slotRecord EXCEPT ![Slot] = j]
        PROVE  \A s \in Slots : slotRecord'[s] # Nothing => WarmIn(job', slotRecord'[s])
    <3>1. WarmIn(job', j)
      BY <1>4, <2>2
    <3>2. \A s \in Slots : slotRecord'[s] = IF s = Slot THEN j ELSE slotRecord[s]
      BY <2>2
    <3>. QED
      BY <1>3, <3>1, <3>2 DEF SlotKnowsItsJob
  <2>. QED
    BY <2>1, <2>2, SlotSubmits
<1>7. slotRun' \in SlotRuns
  BY <1>1, SlotMoves
<1>8. ASSUME NEW s \in Slots, StartSlot(s)
      PROVE  /\ slotRun'.st = "running" /\ slotRun'.slot = s /\ slotRun'.jid = Nothing
             /\ slotRun'.pulled = FALSE /\ slotRun'.task \in {"submit", "promote"}
  BY <1>8 DEF StartSlot
<1>9. ASSUME NEW j \in Jobs, SubmitWarm(j)
      PROVE  /\ slotRun'.slot = Slot /\ slotRun'.jid = j /\ slotRun'.task = "poll"
             /\ slotRun'.pulled = slotRun.pulled /\ slotRun.task = "submit"
             /\ slotRun.st = "running" /\ WarmIn(job', j)
  <2>1. /\ slotRun.st = "running" /\ slotRun.task = "submit"
        /\ slotRun' = [slotRun EXCEPT !.task = "poll", !.tries = SlotRetry, !.jid = j]
    BY <1>9 DEF SubmitWarm, SlotAt
  <2>2. WarmIn(job', j)
    <3>1. CASE slotRecord[Slot] # Nothing /\ j = slotRecord[Slot]
      BY <1>2, <1>3, <2>1, <3>1 DEF SlotKnowsItsJob
    <3>2. CASE Sbatch(j, "warm", TRUE)
      BY <1>4, <3>2
    <3>. QED
      BY <1>9, <3>1, <3>2 DEF SubmitWarm
  <2>. QED
    BY <2>1, <2>2 DEF Slot
<1>10. SlotTypeOK'
  <2>1. slotRun'.st # "idle" => slotRun'.slot \in Slots
    BY <1>1, <1>2, <1>8, <1>9, SlotMoves DEF SlotGoesOn
  <2>. QED
    BY <1>5, <1>7, <2>1 DEF SlotRuns, Slot
<1>11. /\ slotRun'.task = "submit" => slotRun'.jid = Nothing
       /\ slotRun'.pulled => slotRun'.task \in {"promote", "promoteSim", "reload"}
       /\ slotRun'.task = "promoteSim" => slotRun'.pulled
       /\ slotRun'.task \in {"poll", "validate", "rsync", "rsyncRest"} \/ slotRun'.pulled
            => WarmIn(job', slotRun'.jid)
       /\ slotRun'.task \in {"validate", "rsync", "rsyncRest"} \/ slotRun'.pulled
            => job'[slotRun'.jid].st = "COMPLETED"
  <2>1. CASE \E s \in Slots : StartSlot(s)
    BY <1>8, <2>1
  <2>2. CASE \E j \in Jobs : SubmitWarm(j)
    BY <1>9, <2>2 DEF SlotKnowsItsJob
  <2>3. CASE SlotGoesOn
    <3>1. slotRun'.jid = slotRun.jid
      BY <2>3 DEF SlotGoesOn
    <3>2. WarmIn(job, slotRun.jid) => /\ WarmIn(job', slotRun'.jid)
                                      /\ job[slotRun.jid].st = "COMPLETED"
                                       => job'[slotRun'.jid].st = "COMPLETED"
      BY <1>3, <3>1
    <3>3. /\ SlotFollows(slotRun.task, slotRun'.task)
          /\ \/ slotRun'.pulled = slotRun.pulled
             \/ slotRun.task = "rsyncRest" /\ slotRun'.task = "promote"
      BY <2>3 DEF SlotGoesOn
    <3>. QED
      BY <3>1, <3>2, <3>3 DEF SlotKnowsItsJob, SlotFollows
  <2>. QED
    BY <1>1, <2>1, <2>2, <2>3, SlotMoves
<1>. QED
  BY <1>6, <1>10, <1>11 DEF SlotKnowsItsJob
-----------------------------------------------------------------------------
(* A catch-up's run.                                                       *)

CatchRuns == [st : {"idle", "running", "failed", "success"}, day : CatchDays \cup {0},
              task : CatchTasks, tries : 0..1, jid : Jobs \cup {Nothing}]

CatchFollows(t, u) ==
  \/ u \in {t, CatchStart(t)}
  \/ <<t, u>> \in {<<"pull", "pullRest">>, <<"base", "eod">>, <<"eod", "predict">>}
  \/ t = "poll" /\ u = "pull" /\ job[catch.jid].st = "COMPLETED"
  \/ t = "pullRest" /\ u = "base" /\ PullCatchupRest /\ current # Nothing
       /\ warm' = PulledRest(catch.day, catch.jid)

CatchGoesOn == /\ catch.st # "idle" /\ catch'.day = catch.day /\ catch'.jid = catch.jid
               /\ CatchFollows(catch.task, catch'.task)

LEMMA CatchWays ==
  ASSUME DayAssumptions, catch \in CatchRuns, catch.st = "running"
  PROVE  /\ CatchRaise => /\ catch' \in CatchRuns /\ catch'.st # "idle" /\ catch'.day = catch.day
                          /\ catch'.jid = catch.jid /\ catch'.task = CatchStart(catch.task)
         /\ \A t \in CatchTasks : CatchGoTo(t) =>
              /\ catch' \in CatchRuns /\ catch'.st # "idle" /\ catch'.day = catch.day
              /\ catch'.jid = catch.jid /\ catch'.task = t
<1> USE DEF DayAssumptions, CatchAssumption, CatchRuns
<1>1. ASSUME CatchRaise
      PROVE  /\ catch' \in CatchRuns /\ catch'.st # "idle" /\ catch'.day = catch.day
             /\ catch'.jid = catch.jid /\ catch'.task = CatchStart(catch.task)
  <2> DEFINE left == IF catch.tries > 0 THEN catch.tries - 1 ELSE 0
  <2>1. left \in 0..1
    OBVIOUS
  <2>2. CatchStart(catch.task) \in CatchTasks
    BY DEF CatchStart, CatchTasks
  <2>3. catch' = [catch EXCEPT !.task = CatchStart(catch.task), !.tries = left,
                               !.st = IF catch.tries > 0 THEN catch.st ELSE "failed"]
    BY <1>1 DEF CatchRaise
  <2> HIDE DEF left
  <2>. QED
    BY <2>1, <2>2, <2>3
<1>2. ASSUME NEW t \in CatchTasks, CatchGoTo(t)
      PROVE  /\ catch' \in CatchRuns /\ catch'.st # "idle" /\ catch'.day = catch.day
             /\ catch'.jid = catch.jid /\ catch'.task = t
  BY <1>2 DEF CatchGoTo
<1>. QED
  BY <1>1, <1>2

LEMMA CatchMoves ==
  ASSUME DayAssumptions, CatchTypeOK, CatchStep
  PROVE  /\ catch' \in CatchRuns /\ catch'.st # "idle" /\ catch'.day \in CatchDays
         /\ \/ (\E d \in CatchDays : TriggerCatchup(d)) /\ catch'.task = "submit"
               /\ catch'.jid = Nothing
            \/ \E j \in Jobs : /\ SubmitCatchup(j) /\ Sbatch(j, "base", FALSE)
                               /\ catch.task = "submit" /\ catch'.task = "poll"
                               /\ catch'.jid = j /\ catch'.day = catch.day
            \/ CatchGoesOn
<1> USE DEF CatchAt
<1>1. catch \in CatchRuns /\ (catch.st # "idle" => catch.day \in CatchDays)
  BY DEF CatchTypeOK, CatchRuns
<1>2. ASSUME NEW d \in CatchDays, TriggerCatchup(d)
      PROVE  /\ catch' \in CatchRuns /\ catch'.st # "idle" /\ catch'.day = d
             /\ catch'.task = "submit" /\ catch'.jid = Nothing
  BY <1>2 DEF TriggerCatchup, CatchRuns, CatchTasks, DayAssumptions, CatchAssumption
<1>3. ASSUME NEW j \in Jobs, SubmitCatchup(j)
      PROVE  /\ catch' \in CatchRuns /\ catch'.st # "idle" /\ catch'.day \in CatchDays
             /\ \/ /\ Sbatch(j, "base", FALSE) /\ catch.task = "submit" /\ catch'.task = "poll"
                   /\ catch'.jid = j /\ catch'.day = catch.day
                \/ CatchGoesOn
  <2>1. catch.st = "running" /\ catch.task = "submit" /\ Sbatch(j, "base", FALSE)
    BY <1>3 DEF SubmitCatchup
  <2>2. CASE CatchRaise
    BY <1>1, <2>1, <2>2, CatchWays DEF CatchGoesOn, CatchFollows
  <2>3. CASE catch' = [catch EXCEPT !.task = "poll", !.tries = CatchRetry, !.jid = j]
    BY <1>1, <2>1, <2>3 DEF CatchRuns, CatchTasks, DayAssumptions, CatchAssumption
  <2>. QED
    BY <1>3, <2>2, <2>3 DEF SubmitCatchup
<1>4. CASE CatchupCompleted \/ CatchupPollEnds
  <2>1. catch.st = "running" /\ catch.task = "poll"
    BY <1>4 DEF CatchupCompleted, CatchupPollEnds
  <2>2. CASE CatchRaise
    BY <1>1, <2>1, <2>2, CatchWays DEF CatchGoesOn, CatchFollows
  <2>3. CASE CatchGoTo("pull") /\ job[catch.jid].st = "COMPLETED"
    BY <1>1, <2>1, <2>3, CatchWays DEF CatchGoesOn, CatchFollows, CatchTasks
  <2>4. CASE catch' = [catch EXCEPT !.st = "failed"]
    BY <1>1, <2>1, <2>4 DEF CatchGoesOn, CatchFollows, CatchRuns
  <2>. QED
    BY <1>4, <2>2, <2>3, <2>4 DEF CatchupCompleted, CatchupPollEnds
<1>5. CASE PullCatchup
  <2>1. catch.st = "running" /\ catch.task = "pull"
    BY <1>5 DEF PullCatchup
  <2>2. CASE CatchRaise
    BY <1>1, <2>1, <2>2, CatchWays DEF CatchGoesOn, CatchFollows
  <2>3. CASE catch' = [catch EXCEPT !.task = "pullRest"]
    BY <1>1, <2>1, <2>3 DEF CatchGoesOn, CatchFollows, CatchRuns, CatchTasks
  <2>. QED
    BY <1>5, <2>2, <2>3 DEF PullCatchup
<1>6. CASE PullCatchupRest
  <2>1. catch.st = "running" /\ catch.task = "pullRest"
    BY <1>6 DEF PullCatchupRest
  <2>2. CASE CatchRaise
    BY <1>1, <2>1, <2>2, CatchWays DEF CatchGoesOn, CatchFollows
  <2>3. CASE /\ catch' = [catch EXCEPT !.task = "base"] /\ current # Nothing
             /\ warm' = PulledRest(catch.day, catch.jid)
    BY <1>1, <1>6, <2>1, <2>3 DEF CatchGoesOn, CatchFollows, CatchRuns, CatchTasks
  <2>. QED
    BY <1>6, <2>2, <2>3 DEF PullCatchupRest
<1>7. CASE LinkBase
  BY <1>1, <1>7 DEF LinkBase, CatchGoesOn, CatchFollows, CatchRuns, CatchTasks
<1>8. CASE LinkEod
  BY <1>1, <1>8, CatchWays DEF LinkEod, CatchGoesOn, CatchFollows, CatchTasks
<1>9. CASE CatchupFails
  BY <1>1, <1>9, CatchWays DEF CatchupFails, CatchGoesOn, CatchFollows
<1>10. CASE FinishCatchup
  BY <1>1, <1>10 DEF FinishCatchup, CatchGoesOn, CatchFollows, CatchRuns
<1>. QED
  BY <1>2, <1>3, <1>4, <1>5, <1>6, <1>7, <1>8, <1>9, <1>10 DEF CatchStep

LEMMA CatchKnowsStep ==
  ASSUME DayAssumptions, CatchTypeOK, CatchKnowsItsJob, CatchStep
  PROVE  CatchTypeOK' /\ CatchKnowsItsJob'
<1>1. CatchTypeOK'
  <2>1. loose' \subseteq Jobs
    BY CatchSubmits DEF CatchTypeOK
  <2>. QED
    BY <2>1, CatchMoves DEF CatchTypeOK, CatchRuns
<1>2. CatchKnowsItsJob'
  <2>1. CASE CatchGoesOn
    <3>1. catch'.jid = catch.jid /\ CatchFollows(catch.task, catch'.task)
      BY <2>1 DEF CatchGoesOn
    <3>2. catch'.task = "submit" <=> catch.task = "submit"
      BY <3>1 DEF CatchFollows, CatchStart
    <3>. QED
      BY <3>1, <3>2 DEF CatchKnowsItsJob
  <2>. QED
    BY <2>1, CatchMoves DEF CatchKnowsItsJob
<1>. QED
  BY <1>1, <1>2
-----------------------------------------------------------------------------
(* The jobs nobody forgets.                                                *)

TrainingInd == /\ IndInv /\ DagInv /\ SlotTypeOK /\ SlotKnowsItsJob
               /\ CatchTypeOK /\ CatchKnowsItsJob

LEMMA TrainingIndStep ==
  ASSUME DayAssumptions, TrainingInd, [TrainingNext]_trainingVars
  PROVE  TrainingInd'
<1> USE DEF TrainingInd
<1>1. [Next]_clusterVars /\ TypeOK
  BY TrainingCluster DEF IndInv
<1>2. IndInv'
  BY <1>1, TypeStep, ShapeStep, FreshStep, WriterStep, AloneStep, ProgressStep, RootedStep
  DEF IndInv
<1>3. CASE [PipelineNext]_vars /\ UNCHANGED <<slotVars, catchVars>>
  <2>1. DagInv'
    BY <1>1, <1>3, DagStepKeeps
  <2>2. CatchTypeOK' /\ CatchKnowsItsJob'
    BY <1>3 DEF catchVars, CatchTypeOK, CatchKnowsItsJob
  <2>. QED
    BY <1>1, <1>2, <1>3, <2>1, <2>2, SlotKnowsStays
<1>4. CASE SlotStep /\ UNCHANGED <<dagVars, catchVars>>
  <2>1. CatchTypeOK' /\ CatchKnowsItsJob'
    BY <1>4 DEF catchVars, CatchTypeOK, CatchKnowsItsJob
  <2>. QED
    BY <1>1, <1>2, <1>4, <2>1, SlotKnowsStep, OthersKeepRecords
<1>5. CASE CatchStep /\ UNCHANGED <<dagVars, slotVars>>
  BY <1>1, <1>2, <1>5, CatchKnowsStep, SlotKnowsStays, OthersKeepRecords
<1>6. ASSUME NEW d \in Days, StartTriggered(d), UNCHANGED <<slotVars, catchVars>>
      PROVE  TrainingInd'
  <2>1. CatchTypeOK' /\ CatchKnowsItsJob'
    BY <1>6 DEF catchVars, CatchTypeOK, CatchKnowsItsJob
  <2>. QED
    BY <1>1, <1>2, <1>6, <2>1, TriggeredStep, SlotKnowsStays
<1>. QED
  BY <1>3, <1>4, <1>5, <1>6, TrainingMoves

LEMMA TrainingIndStarts == TrainingInit => TrainingInd
<1> SUFFICES ASSUME TrainingInit PROVE TrainingInd
  OBVIOUS
<1> USE DEF TrainingInit, DayInit
<1>1. IndInv
  BY IndInvStarts DEF PipelineInit
<1>2. DagInv
  BY DagInvStarts
<1>3. SlotTypeOK /\ CatchTypeOK
  BY DEF SlotInit, SlotTypeOK, SlotTasks, CatchInit, CatchTypeOK, CatchTasks
<1>. QED
  BY <1>1, <1>2, <1>3 DEF SlotInit, SlotKnowsItsJob, CatchInit, CatchKnowsItsJob, TrainingInd

LEMMA NoneForgottenStep ==
  ASSUME DayAssumptions, TrainingInd, NoForgottenTraining, [TrainingNext]_trainingVars
  PROVE  NoForgottenTraining'
<1> USE DEF TrainingInd
<1> SUFFICES ASSUME NEW i \in Jobs, InFlight(i)'
             PROVE  \/ i \in orphans' \cup strays' \cup loose' \cup {catch'.jid}
                    \/ \E g \in DagIds, d \in Days : record'[g][d].jid = i
                    \/ \E s \in Slots : slotRecord'[s] = i
  BY DEF NoForgottenTraining
<1> DEFINE Before == \/ i \in orphans \cup strays \cup loose \cup {catch.jid}
                     \/ \E g \in DagIds, d \in Days : record[g][d].jid = i
                     \/ \E s \in Slots : slotRecord[s] = i
<1>1. TypeOK /\ (InFlight(i) => Before)
  BY DEF IndInv, NoForgottenTraining
<1>2. ASSUME NEW j \in Jobs, NEW kind \in Kinds, NEW skip \in BOOLEAN, Sbatch(j, kind, skip)
      PROVE  i = j \/ Before
  BY <1>1, <1>2, SbatchJobs
<1>3. UNCHANGED clusterVars => Before
  BY <1>1 DEF clusterVars, InFlight
<1> HIDE DEF Before
<1>4. CASE NoneDropped /\ UNCHANGED <<slotVars, catchVars>>
  <2>1. Recorded(i)' \/ (InFlight(i) /\ ~Recorded(i))
    BY <1>4 DEF NoneDropped
  <2>. QED
    BY <1>1, <1>4, <2>1 DEF Recorded, slotVars, catchVars, Before
<1>5. CASE [PipelineNext]_vars /\ UNCHANGED <<slotVars, catchVars>>
  BY <1>1, <1>4, <1>5, DagStepKeeps
<1>6. ASSUME NEW d \in Days, StartTriggered(d), UNCHANGED <<slotVars, catchVars>>
      PROVE  NoneDropped
  BY <1>1, <1>6, TriggeredStep
<1>7. CASE SlotStep /\ UNCHANGED <<dagVars, catchVars>>
  <2>1. CASE UNCHANGED <<clusterVars, slotRecord, strays>>
    BY <1>3, <1>7, <2>1 DEF dagVars, catchVars, Before
  <2>2. ASSUME NEW j \in Jobs, slotRun.st = "running", slotRecord[Slot] = Nothing,
               Sbatch(j, "warm", TRUE),
               \/ strays' = strays \cup {j} /\ UNCHANGED slotRecord
               \/ slotRecord' = [slotRecord EXCEPT ![Slot] = j] /\ UNCHANGED strays
        PROVE  \/ i \in orphans' \cup strays' \cup loose' \cup {catch'.jid}
               \/ \E g \in DagIds, d \in Days : record'[g][d].jid = i
               \/ \E s \in Slots : slotRecord'[s] = i
    <3>1. i = j \/ Before
      BY <1>2, <2>2 DEF Kinds
    <3>2. Slot \in Slots /\ slotRecord \in [Slots -> Jobs \cup {Nothing}] /\ i # Nothing
      BY <2>2, ClusterAssumption DEF SlotTypeOK, Slot
    <3>. QED
      BY <1>7, <2>2, <3>1, <3>2 DEF dagVars, catchVars, Before
  <2>. QED
    BY <1>7, <2>1, <2>2, SlotSubmits
<1>8. CASE CatchStep /\ UNCHANGED <<dagVars, slotVars>>
  <2>1. i # Nothing
    BY ClusterAssumption
  <2>2. CASE /\ UNCHANGED clusterVars
             /\ \/ UNCHANGED loose /\ catch'.jid = catch.jid
                \/ loose' = loose \cup ({catch.jid} \ {Nothing})
    BY <1>3, <1>8, <2>1, <2>2 DEF dagVars, slotVars, Before
  <2>3. ASSUME NEW j \in Jobs, catch.task = "submit", Sbatch(j, "base", FALSE),
               \/ catch'.jid = j /\ UNCHANGED loose
               \/ catch'.jid = catch.jid /\ loose' = loose \cup {j}
        PROVE  \/ i \in orphans' \cup strays' \cup loose' \cup {catch'.jid}
               \/ \E g \in DagIds, d \in Days : record'[g][d].jid = i
               \/ \E s \in Slots : slotRecord'[s] = i
    <3>1. i = j \/ Before
      BY <1>2, <2>3 DEF Kinds
    <3>2. catch.jid = Nothing
      BY <2>3 DEF CatchKnowsItsJob
    <3>. QED
      BY <1>8, <2>1, <2>3, <3>1, <3>2 DEF dagVars, slotVars, Before
  <2>. QED
    BY <1>8, <2>2, <2>3, CatchSubmits
<1>. QED
  BY <1>4, <1>5, <1>6, <1>7, <1>8, TrainingMoves

\* Whatever four DAGs retry, clear and start again, every job that is queued or
\* running is on some record, except those whose submission was answered to
\* nobody, and the catch-up's, which only its own run knows.
THEOREM ForgottenOfTheDay ==
  ASSUME DagIds = {"daily", "baseOnly"} PROVE TrainingSpec => []NoForgottenTraining
<1>0. DayAssumptions
  BY DayAssumption DEF DayAssumptions
<1>1. TrainingInit => TrainingInd /\ NoForgottenTraining
  BY <1>0, TrainingIndStarts DEF TrainingInit, DayInit, PipelineInit, Init, NoForgottenTraining, InFlight
<1>2. /\ TrainingInd /\ NoForgottenTraining
      /\ [TrainingNext]_<<dayVars, eveningVars, part>>
      => (TrainingInd /\ NoForgottenTraining)'
  BY <1>0, TrainingIndStep, NoneForgottenStep DEF trainingVars
<1>. QED
  BY <1>1, <1>2, PTL DEF TrainingSpec
-----------------------------------------------------------------------------
(* What the others write into the store.                                   *)

SlotPullsHead ==
  /\ slotRun.st = "running" /\ slotRun.task = "rsync" /\ slotRun'.task = "rsyncRest"
  /\ UNCHANGED <<clusterVars, sim, link>>
  /\ warm' = [warm EXCEPT ![Slot] = [warm[Slot] EXCEPT !.head = current,
                !.by = IF warm[Slot].by \in {Nothing, slotRun.jid} THEN slotRun.jid ELSE Nothing]]

SlotPullsRest ==
  /\ slotRun.st = "running" /\ slotRun.task = "rsyncRest" /\ slotRun'.task = "promote"
  /\ UNCHANGED <<clusterVars, link>> /\ current # Nothing
  /\ warm' = [warm EXCEPT ![Slot] = [warm[Slot] EXCEPT !.manifest = current,
                !.by = IF warm[Slot].by = slotRun.jid THEN slotRun.jid ELSE Nothing]]
  /\ sim' = [sim EXCEPT ![Slot] = preds]

SlotLinks ==
  /\ slotRun.st = "running" /\ UNCHANGED <<clusterVars, warm, sim>>
  /\ \/ /\ slotRun.task = "promote" /\ HasManifest(Slot)
        /\ link' = [link EXCEPT !["base"] = Slot]
     \/ /\ slotRun.task = "promoteSim" /\ slotRun'.task = "reload" /\ sim[Slot] = Steps
        /\ link' = [link EXCEPT !["sim"] = Slot]

\* What a slot's step adds to its run without writing.
SlotGainsNothing == /\ slotRun'.pulled => slotRun.pulled
                    /\ slotRun'.task = "rsyncRest" => slotRun.task = "rsyncRest"

LEMMA SlotWrites ==
  ASSUME DayAssumptions, SlotTypeOK, StoreTypeOK, SlotStep
  PROVE  \/ UNCHANGED storeVars /\ SlotGainsNothing
         \/ SlotPullsHead /\ slotRun'.pulled = slotRun.pulled
         \/ SlotPullsRest
         \/ SlotLinks /\ SlotGainsNothing
<1> USE DEF SlotAt, SlotGainsNothing
<1>1. slotRun \in SlotRuns /\ (slotRun.st = "running" => Slot \in Slots /\ Slot \in Dirs)
  BY DEF SlotTypeOK, SlotRuns, Slot, DayAssumptions, SlotAssumption
<1>2. CASE \E s \in Slots : StartSlot(s)
  <2>1. UNCHANGED storeVars /\ slotRun'.pulled = FALSE /\ slotRun'.task # "rsyncRest"
    BY <1>2 DEF StartSlot
  <2>. QED
    BY <2>1
<1>3. CASE \E j \in Jobs : SubmitWarm(j)
  BY <1>1, <1>3 DEF SubmitWarm, SlotRuns
<1>4. ASSUME slotRun.st = "running",
             \/ SlotRaise \/ Tail \/ SlotGoTo("validate") \/ SlotGoTo("rsync") \/ SlotGoTo("reload")
      PROVE  SlotGainsNothing
  BY <1>1, <1>4, SlotWays DEF SameRun, SlotTasks
<1>5. CASE \/ SubmitWarmFails \/ WarmCompleted \/ WarmPollRaises \/ WarmPollTimeout
           \/ ValidateOrFlag \/ ValidateUnreachable
  BY <1>4, <1>5 DEF SubmitWarmFails, WarmCompleted, WarmPollRaises, WarmPollTimeout,
                    ValidateOrFlag, ValidateUnreachable
<1>6. CASE PullWarm
  <2>1. slotRun.st = "running" /\ slotRun.task = "rsync" /\ UNCHANGED <<clusterVars, sim, link>>
    BY <1>6 DEF PullWarm
  <2>2. CASE SlotRaise /\ UNCHANGED warm
    BY <1>4, <2>1, <2>2 DEF storeVars
  <2>3. CASE /\ warm' = [warm EXCEPT ![Slot].head = current,
                                     ![Slot].by = IF @ \in {Nothing, slotRun.jid}
                                                  THEN slotRun.jid ELSE Nothing]
             /\ slotRun' = [slotRun EXCEPT !.task = "rsyncRest"]
    <3>1. slotRun'.task = "rsyncRest" /\ slotRun'.pulled = slotRun.pulled
      BY <1>1, <2>3 DEF SlotRuns
    <3>. QED
      BY <1>1, <2>1, <2>3, <3>1 DEF SlotPullsHead, StoreTypeOK
  <2>. QED
    BY <1>6, <2>2, <2>3 DEF PullWarm
<1>7. CASE PullWarmRest
  <2>1. slotRun.st = "running" /\ slotRun.task = "rsyncRest" /\ UNCHANGED <<clusterVars, link>>
    BY <1>7 DEF PullWarmRest
  <2>2. CASE Tail /\ UNCHANGED <<warm, sim>>
    BY <1>4, <2>1, <2>2 DEF storeVars
  <2>3. CASE /\ slotRun' = [slotRun EXCEPT !.task = "rsync", !.tries = @ - 1]
             /\ UNCHANGED <<warm, sim>>
    BY <1>1, <2>1, <2>3 DEF storeVars, SlotRuns
  <2>4. CASE /\ current # Nothing /\ warm' = PulledRest(Slot, slotRun.jid)
             /\ sim' = [sim EXCEPT ![Slot] = preds]
             /\ slotRun' = [slotRun EXCEPT !.task = "promote", !.tries = SlotRetry,
                                           !.pulled = TRUE]
    <3>1. slotRun'.task = "promote"
      BY <1>1, <2>4 DEF SlotRuns
    <3>. QED
      BY <1>1, <2>1, <2>4, <3>1 DEF SlotPullsRest, PulledRest, StoreTypeOK
  <2>. QED
    BY <1>7, <2>2, <2>3, <2>4 DEF PullWarmRest
<1>8. CASE PromoteIntraday
  <2>1. slotRun.st = "running" /\ slotRun.task = "promote" /\ UNCHANGED <<clusterVars, warm, sim>>
    BY <1>8 DEF PromoteIntraday
  <2>2. CASE SlotGoTo("reload") /\ UNCHANGED link
    BY <1>4, <2>1, <2>2 DEF storeVars
  <2>3. CASE /\ HasManifest(Slot) /\ link' = [link EXCEPT !["base"] = Slot]
             /\ slotRun' = [slotRun EXCEPT !.task = "promoteSim"]
    <3>1. SlotGainsNothing
      BY <1>1, <2>3 DEF SlotRuns
    <3>. QED
      BY <2>1, <2>3, <3>1 DEF SlotLinks
  <2>. QED
    BY <1>8, <2>2, <2>3 DEF PromoteIntraday
<1>9. CASE PromoteReplay
  <2>1. /\ slotRun.st = "running" /\ slotRun.task = "promoteSim" /\ UNCHANGED <<clusterVars, warm, sim>>
        /\ SlotGoTo("reload")
        /\ link' = IF sim[Slot] = Steps THEN [link EXCEPT !["sim"] = Slot] ELSE link
    BY <1>9 DEF PromoteReplay
  <2>2. slotRun'.task = "reload" /\ SlotGainsNothing
    BY <1>1, <2>1, SlotWays DEF SameRun, SlotTasks
  <2>. QED
    BY <2>1, <2>2 DEF SlotLinks, storeVars
<1>10. CASE PromoteFails \/ ReloadWarm
  <2>1. /\ UNCHANGED storeVars
        /\ \/ slotRun' = [slotRun EXCEPT !.task = "promote", !.tries = @ - 1]
           \/ slotRun' = [slotRun EXCEPT !.task = "reload"]
           \/ slotRun' = [slotRun EXCEPT !.st = "done"]
    BY <1>10 DEF PromoteFails, ReloadWarm
  <2>. QED
    BY <1>1, <2>1 DEF SlotRuns
<1>. QED
  BY <1>2, <1>3, <1>5, <1>6, <1>7, <1>8, <1>9, <1>10 DEF SlotStep

LEMMA CatchWrites ==
  ASSUME CatchStep
  PROVE  \/ UNCHANGED storeVars
         \/ /\ UNCHANGED <<clusterVars, warm, sim>> /\ catch.st = "running"
            /\ \E l \in {"base", "eod"} : link' = [link EXCEPT ![l] = catch.day]
         \/ /\ UNCHANGED <<clusterVars, sim, link>> /\ catch.st = "running"
            /\ \/ catch.task = "pull" /\ warm' = PulledHead(catch.day, catch.jid)
               \/ catch.task = "pull" /\ warm' = [warm EXCEPT ![catch.day] = EmptyDir]
               \/ catch.task = "pullRest" /\ warm' = PulledRest(catch.day, catch.jid)
<1> USE DEF CatchAt, storeVars
<1>1. CASE (\E d \in CatchDays : TriggerCatchup(d)) \/ \E j \in Jobs : SubmitCatchup(j)
  BY <1>1 DEF TriggerCatchup, SubmitCatchup
<1>2. CASE CatchupCompleted \/ CatchupPollEnds \/ CatchupFails \/ FinishCatchup
  BY <1>2 DEF CatchupCompleted, CatchupPollEnds, CatchupFails, FinishCatchup
<1>3. CASE PullCatchup \/ PullCatchupRest
  BY <1>3 DEF PullCatchup, PullCatchupRest
<1>4. CASE LinkBase \/ LinkEod
  BY <1>4 DEF LinkBase, LinkEod
<1>. QED
  BY <1>1, <1>2, <1>3, <1>4 DEF CatchStep
-----------------------------------------------------------------------------
(* What each DAG leaves to the others.                                     *)

DayInd == /\ TrainingInd /\ JobEnds /\ StoreTypeOK
          /\ OneRecordEach /\ JobIsOver /\ PulledDirs /\ WholeAtPromote
          /\ SlotDirs /\ ReplaysAreOver /\ SlotTargetsStay /\ CatchHolds

\* The nightly runs write to directories of dates.
LEMMA NightsWrite ==
  ASSUME DagInv, StoreTypeOK, [PipelineNext]_vars
  PROVE  /\ \A d \in Dirs \ Days : warm'[d] = warm[d] /\ sim'[d] = sim[d]
         /\ \A l \in Links : link'[l] = link[l] \/ link'[l] \in Days
<1> USE DEF StoreTypeOK
<1>1. CASE UNCHANGED storeVars
  BY <1>1 DEF storeVars
<1>2. ASSUME NEW g \in DagIds, Epilogue(g), ~UNCHANGED storeVars
      PROVE  /\ \A d \in Dirs \ Days : warm'[d] = warm[d] /\ sim'[d] = sim[d]
             /\ \A l \in Links : link'[l] = link[l] \/ link'[l] \in Days
  <2>1. Day(g) \in Days
    BY <1>2
    DEF Epilogue, Validate, PullModels, PullRest, PromoteBase, PromoteEod, PromoteSim, Cleanup,
        GenerateBasePredictions, ReloadBackend, At, Active, Day, DagInv, DagTypeOK, storeVars
  <2>2. CASE PullModels(g)
    BY <2>1, <2>2 DEF PullModels, PulledHead
  <2>3. CASE PullRest(g)
    BY <2>1, <2>3 DEF PullRest, PulledRest
  <2>4. CASE PromoteBase(g) \/ PromoteEod(g) \/ PromoteSim(g)
    BY <2>1, <2>4 DEF PromoteBase, PromoteEod, PromoteSim, Links
  <2>5. CASE Cleanup(g)
    BY <2>5 DEF Cleanup
  <2>. QED
    BY <1>2, <2>2, <2>3, <2>4, <2>5
    DEF Epilogue, Validate, GenerateBasePredictions, ReloadBackend
<1>3. UNCHANGED storeVars \/ \E g \in DagIds : Epilogue(g)
  BY DEF PipelineNext, ClusterStep, DagStep, Prologue, Sensor, Operator, vars, StartRun, Clear,
         TaskFails, ShipBaseModel, CheckQueue, WipeRunRoot, ReuseJob, SubmitJob, SubmitLost,
         PollCompleted, PollFailed, PollTimeout
<1>. QED
  BY <1>1, <1>2, <1>3

\* So does the catch-up.
LEMMA CatchupWrites ==
  ASSUME DayAssumptions, TypeOK, StoreTypeOK, CatchTypeOK, CatchStep
  PROVE  /\ StoreTypeOK'
         /\ \A d \in Dirs \ {catch.day} : warm'[d] = warm[d]
         /\ UNCHANGED sim
         /\ \A l \in Links : link'[l] = link[l] \/ (link'[l] = catch.day /\ catch.day \in CatchDays)
<1> USE DEF StoreTypeOK
<1>1. CASE UNCHANGED storeVars
  BY <1>1 DEF storeVars
<1>2. ASSUME catch.st = "running"
      PROVE  catch.day \in CatchDays /\ catch.day \in Dirs /\ catch.jid \in Jobs \cup {Nothing}
  BY <1>2 DEF CatchTypeOK, DayAssumptions, CatchAssumption
<1>3. ASSUME UNCHANGED <<clusterVars, warm, sim>>, catch.st = "running", NEW l \in {"base", "eod"},
             link' = [link EXCEPT ![l] = catch.day]
      PROVE  StoreTypeOK' /\ \A k \in Links : link'[k] = link[k] \/ link'[k] = catch.day
  BY <1>2, <1>3 DEF Links
<1>4. ASSUME UNCHANGED <<clusterVars, sim, link>>, catch.st = "running",
             NEW w \in [head : Bundles \cup {Nothing}, manifest : Bundles \cup {Nothing},
                        by : Jobs \cup {Nothing}],
             warm' = [warm EXCEPT ![catch.day] = w]
      PROVE  StoreTypeOK' /\ \A d \in Dirs \ {catch.day} : warm'[d] = warm[d]
  BY <1>2, <1>4
<1>5. CASE catch.st = "running" /\ warm' = PulledHead(catch.day, catch.jid)
           /\ UNCHANGED <<clusterVars, sim, link>>
  BY <1>2, <1>4, <1>5 DEF PulledHead, TypeOK
<1>6. CASE catch.st = "running" /\ warm' = [warm EXCEPT ![catch.day] = EmptyDir]
           /\ UNCHANGED <<clusterVars, sim, link>>
  BY <1>4, <1>6 DEF EmptyDir
<1>7. CASE catch.st = "running" /\ warm' = PulledRest(catch.day, catch.jid)
           /\ UNCHANGED <<clusterVars, sim, link>>
  BY <1>2, <1>7 DEF PulledRest, TypeOK
<1>. QED
  BY <1>1, <1>2, <1>3, <1>5, <1>6, <1>7, CatchWrites

\* Slots and dates of catch-ups are not each other's.
LEMMA DirsApart ==
  ASSUME DayAssumptions, SlotTypeOK, CatchTypeOK
  PROVE  /\ \A s \in Slots : s \in Dirs /\ s \in Nat /\ s > 0 /\ s \notin Days
                             /\ s \notin CatchDays /\ s # catch.day
         /\ Slot \in Nat
         /\ slotRun.st # "idle" => Slot \in Slots
<1>1. ASSUME NEW s \in Slots
      PROVE  /\ s \in Dirs /\ s \in Nat /\ s > 0 /\ s \notin Days
             /\ s \notin CatchDays /\ s # catch.day
  <2>1. s \in Dirs /\ s \in Nat \ {0}
    BY DEF DayAssumptions, SlotAssumption
  <2>2. s > 0
    BY <2>1
  <2>3. s \notin Days /\ s \notin CatchDays
    BY DEF DayAssumptions, NamesAssumption
  <2>4. catch.day \in CatchDays \cup {0}
    BY DEF CatchTypeOK
  <2>. QED
    BY <2>1, <2>2, <2>3, <2>4
<1>2. Slot \in Slots \cup {0} /\ (slotRun.st # "idle" => Slot \in Slots)
  BY DEF SlotTypeOK, Slot
<1>3. Slot \in Nat
  BY <1>1, <1>2
<1>. QED
  BY <1>1, <1>2, <1>3

\* Nobody else's jobs are dropped from the records by the other DAGs.
LEMMA OthersKeepApart ==
  ASSUME IndInv, DagInv, OneRecordEach, JobIsOver, [Next]_clusterVars, UNCHANGED record,
         UNCHANGED run \/ \E d \in Days : StartTriggered(d), DayAssumptions
  PROVE  OneRecordEach' /\ JobIsOver'
<1>1. OneRecordEach'
  <2> SUFFICES ASSUME NEW g \in DagIds, NEW h \in DagIds, NEW d \in Days, NEW e \in Days,
                      record[g][d].jid # Nothing
               PROVE  /\ job'[record[g][d].jid].st # "unused"
                      /\ (record[h][e].jid = record[g][d].jid) => (g = h /\ d = e)
    BY DEF OneRecordEach
  <2>1. record[g][d].jid \in Jobs
    BY DEF DagInv, DagTypeOK, JidRecords
  <2>. QED
    BY <2>1, UsedStays DEF OneRecordEach, IndInv
<1>2. JobIsOver'
  <2> SUFFICES ASSUME NEW g \in DagIds, run'[g].st # "idle", run'[g].task \in PastPoll
               PROVE  job'[run'[g].jid].st = "COMPLETED"
    BY DEF JobIsOver, Job
  <2>1. run'[g] = run[g]
    <3>1. CASE UNCHANGED run
      BY <3>1
    <3>2. ASSUME NEW d \in Days, StartTriggered(d) PROVE run'[g] = run[g]
      <4>1. FirstTask("baseOnly") \notin PastPoll
        BY DEF FirstTask, PastPoll, PastSubmit
      <4>2. g # "baseOnly"
        BY <3>2, <4>1 DEF StartTriggered, DagInv, DagTypeOK
      <4>. QED
        BY <3>2, <4>2 DEF StartTriggered, DagInv, DagTypeOK
    <3>. QED
      BY <3>1, <3>2
  <2>2. Job(g) \in Jobs /\ job[Job(g)].st = "COMPLETED" /\ run'[g].jid = Job(g)
    BY <2>1 DEF JobIsOver, DagInv, RunKnowsItsJob, HasJob, PastPoll, Job
  <2>. QED
    BY <2>2, UsedStays DEF IndInv
<1>. QED
  BY <1>1, <1>2
-----------------------------------------------------------------------------
(* What a slot's run finds where it wrote.                                 *)

\* Others do not write there.
LEMMA SlotsSpared ==
  ASSUME DayAssumptions, TypeOK, StoreTypeOK, SlotTypeOK, CatchTypeOK, DagInv,
         \/ [PipelineNext]_vars
         \/ CatchStep
         \/ \E d \in Days : StartTriggered(d)
  PROVE  /\ \A s \in Slots : warm'[s] = warm[s] /\ sim'[s] = sim[s]
         /\ \A l \in Links : link'[l] = link[l] \/ link'[l] \notin Slots
<1>1. CASE [PipelineNext]_vars
  BY <1>1, NightsWrite, DirsApart
<1>2. CASE CatchStep
  BY <1>2, CatchupWrites, DirsApart
<1>3. CASE \E d \in Days : StartTriggered(d)
  BY <1>3 DEF StartTriggered, storeVars
<1>. QED
  BY <1>1, <1>2, <1>3

SlotInd == SlotDirs /\ ReplaysAreOver /\ SlotTargetsStay

LEMMA SlotsSparedStep ==
  ASSUME SlotInd, UNCHANGED slotVars,
         \A s \in Slots : warm'[s] = warm[s] /\ sim'[s] = sim[s],
         \A l \in Links : link'[l] = link[l] \/ link'[l] \notin Slots,
         slotRun.st # "idle" => Slot \in Slots
  PROVE  SlotInd'
<1> USE DEF slotVars, Slot, SlotInd
<1>1. SlotDirs'
  BY DEF SlotDirs, HasManifest
<1>2. ReplaysAreOver'
  BY DEF ReplaysAreOver, Links
<1>3. SlotTargetsStay'
  BY DEF SlotTargetsStay, HasManifest, Links
<1>. QED
  BY <1>1, <1>2, <1>3

LEMMA SlotIndStep ==
  ASSUME DayAssumptions, TypeOK, StoreTypeOK, SlotTypeOK, CatchTypeOK, SlotKnowsItsJob, SlotInd,
         SlotStep
  PROVE  SlotInd' /\ StoreTypeOK'
<1> USE DEF SlotInd
<1>1. /\ \A s \in Slots : s \in Dirs /\ s \in Nat /\ s > 0
      /\ Slot \in Nat /\ (slotRun.st # "idle" => Slot \in Slots)
  BY DirsApart
<1>2. slotRun \in SlotRuns /\ slotRun.jid \in Jobs \cup {Nothing}
  BY DEF SlotTypeOK, SlotRuns
<1>3. ASSUME NEW s \in Slots, StartSlot(s)
      PROVE  /\ UNCHANGED storeVars /\ s > Slot /\ slotRun'.slot = s /\ ~slotRun'.pulled
             /\ slotRun'.task \in {"submit", "promote"}
  BY <1>3 DEF StartSlot
<1>4. ASSUME NEW j \in Jobs, SubmitWarm(j)
      PROVE  /\ UNCHANGED storeVars /\ slotRun'.slot = Slot /\ slotRun'.task = "poll"
             /\ slotRun'.pulled = slotRun.pulled
             /\ slotRun.st # "idle" /\ slotRun.task = "submit" /\ slotRun.jid = Nothing
             /\ ~slotRun.pulled
  BY <1>2, <1>4 DEF SubmitWarm, SlotAt, SlotRuns, Slot, SlotKnowsItsJob
<1>5. ASSUME SlotPullsHead
      PROVE  /\ \A d \in Dirs \ {Slot} : warm'[d] = warm[d]
             /\ Slot \in Slots /\ slotRun.jid \in Jobs /\ ~slotRun.pulled
             /\ warm'[Slot].head = current /\ warm'[Slot].manifest = warm[Slot].manifest
             /\ warm'[Slot].by = slotRun.jid /\ UNCHANGED <<sim, link>>
  <2>1. Slot \in Slots /\ Slot \in Dirs /\ warm[Slot].by \in {Nothing, slotRun.jid}
    BY <1>1, <1>5 DEF SlotPullsHead, SlotDirs
  <2>2. slotRun.jid \in Jobs /\ ~slotRun.pulled
    BY <1>5 DEF SlotPullsHead, SlotKnowsItsJob, WarmIn
  <2>. QED
    BY <1>5, <2>1, <2>2 DEF SlotPullsHead, StoreTypeOK
<1>6. ASSUME SlotPullsRest
      PROVE  /\ \A d \in Dirs \ {Slot} : warm'[d] = warm[d]
             /\ Slot \in Slots /\ slotRun.jid \in Jobs
             /\ warm'[Slot].head = warm[Slot].head /\ warm'[Slot].manifest = current
             /\ warm'[Slot].by = slotRun.jid /\ current # Nothing /\ UNCHANGED link
             /\ \A d \in Dirs \ {Slot} : sim'[d] = sim[d]
  <2>1. Slot \in Slots /\ Slot \in Dirs /\ warm[Slot].by = slotRun.jid
    BY <1>1, <1>6 DEF SlotPullsRest, SlotDirs
  <2>2. slotRun.jid \in Jobs
    BY <1>6 DEF SlotPullsRest, SlotKnowsItsJob, WarmIn
  <2>. QED
    BY <1>6, <2>1, <2>2 DEF SlotPullsRest, StoreTypeOK
<1>7. StoreTypeOK'
  <2>1. CASE UNCHANGED storeVars
    BY <2>1 DEF StoreTypeOK, storeVars
  <2>2. CASE SlotPullsHead
    BY <1>1, <1>2, <2>2 DEF SlotPullsHead, StoreTypeOK, TypeOK
  <2>3. CASE SlotPullsRest
    BY <1>1, <1>2, <2>3 DEF SlotPullsRest, StoreTypeOK, TypeOK
  <2>4. CASE SlotLinks
    BY <1>1, <2>4 DEF SlotLinks, StoreTypeOK, Links
  <2>. QED
    BY <2>1, <2>2, <2>3, <2>4, SlotWrites
<1>8. SlotDirs'
  <2>1. ASSUME UNCHANGED warm, NEW s \in Slots, StartSlot(s)
        PROVE  SlotDirs'
    <3>1. \A t \in Slots : t > s => t > Slot
      BY <1>1, <1>3, <2>1
    <3>. QED
      BY <1>3, <2>1, <3>1 DEF SlotDirs, Slot, HasManifest
  <2>2. ASSUME UNCHANGED warm, NEW j \in Jobs, SubmitWarm(j)
        PROVE  SlotDirs'
    BY <1>4, <2>2, ClusterAssumption DEF SlotDirs, Slot, HasManifest
  <2>3. CASE UNCHANGED warm /\ SlotGoesOn /\ SlotGainsNothing
    BY <2>3 DEF SlotDirs, SlotGoesOn, SlotGainsNothing, Slot, HasManifest
  <2>4. CASE SlotPullsHead /\ SlotGoesOn /\ slotRun'.pulled = slotRun.pulled
    <3>1. \A s \in Slots : s > Slot => s # Slot
      BY <1>1
    <3>. QED
      BY <1>1, <1>5, <2>4, <3>1, ClusterAssumption DEF SlotDirs, SlotGoesOn, Slot, HasManifest
  <2>5. CASE SlotPullsRest /\ SlotGoesOn
    <3>1. \A s \in Slots : s > Slot => s # Slot
      BY <1>1
    <3>2. slotRun'.task = "promote"
      BY <2>5 DEF SlotPullsRest
    <3>. QED
      BY <1>1, <1>6, <2>5, <3>1, <3>2, ClusterAssumption DEF SlotDirs, SlotGoesOn, Slot, HasManifest
  <2>6. \/ UNCHANGED warm /\ SlotGainsNothing
        \/ SlotPullsHead /\ slotRun'.pulled = slotRun.pulled
        \/ SlotPullsRest
    BY SlotWrites DEF storeVars, SlotLinks
  <2>7. (\E s \in Slots : StartSlot(s)) \/ (\E j \in Jobs : SubmitWarm(j)) => UNCHANGED warm
    BY <1>3, <1>4 DEF storeVars
  <2>. QED
    BY <1>2, <2>1, <2>2, <2>3, <2>4, <2>5, <2>6, <2>7, SlotMoves
<1>9. ReplaysAreOver'
  <2>1. ASSUME NEW s \in Slots, StartSlot(s) PROVE ReplaysAreOver'
    <3>1. UNCHANGED link /\ slotRun'.slot = s /\ s > Slot
      BY <1>3, <2>1 DEF storeVars
    <3>2. link["sim"] \in Slots => link["sim"] \in Nat /\ link["sim"] <= Slot
      BY <1>1 DEF ReplaysAreOver
    <3>3. link["sim"] \in Slots => link["sim"] <= s /\ link["sim"] # s
      BY <1>1, <3>1, <3>2
    <3>. QED
      BY <3>1, <3>3 DEF ReplaysAreOver, Slot
  <2>2. ASSUME NEW j \in Jobs, SubmitWarm(j) PROVE ReplaysAreOver'
    BY <1>4, <2>2 DEF ReplaysAreOver, Slot, storeVars
  <2>3. CASE SlotGoesOn
    <3>1. slotRun'.slot = Slot /\ (slotRun.task = "reload" => slotRun'.task = "reload")
      BY <2>3 DEF SlotGoesOn, SlotFollows
    <3>2. \/ link'["sim"] = link["sim"]
          \/ link'["sim"] = Slot /\ slotRun'.task = "reload"
      BY SlotWrites DEF SlotPullsHead, SlotPullsRest, SlotLinks, storeVars, StoreTypeOK, Links
    <3>3. Slot <= Slot
      BY <1>1
    <3>. QED
      BY <3>1, <3>2, <3>3 DEF ReplaysAreOver, Slot
  <2>. QED
    BY <1>2, <2>1, <2>2, <2>3, SlotMoves
<1>10. SlotTargetsStay'
  <2>1. CASE UNCHANGED storeVars
    BY <2>1 DEF SlotTargetsStay, HasManifest, storeVars
  <2>2. CASE SlotPullsHead
    BY <1>1, <1>5, <2>2 DEF SlotTargetsStay, HasManifest
  <2>3. CASE SlotPullsRest
    <3>1. link["sim"] # Slot
      BY <1>6, <2>3 DEF ReplaysAreOver, SlotPullsRest
    <3>. QED
      BY <1>1, <1>6, <2>3, <3>1 DEF SlotTargetsStay, HasManifest
  <2>4. CASE SlotLinks
    BY <1>1, <2>4 DEF SlotLinks, SlotTargetsStay, HasManifest, StoreTypeOK, Links
  <2>. QED
    BY <2>1, <2>2, <2>3, <2>4, SlotWrites
<1>. QED
  BY <1>7, <1>8, <1>9, <1>10
-----------------------------------------------------------------------------
(* Copies stay copies, and the catch-up's job its own.                     *)

LEMMA CopiesStay ==
  ASSUME DayAssumptions, DayInd, [TrainingNext]_trainingVars
  PROVE  PulledDirs'
<1> USE DEF DayInd, TrainingInd
<1>1. [Next]_clusterVars
  BY TrainingCluster
<1>2. Known
  BY DEF Known
<1>3. ASSUME NEW e \in Dirs, \A d \in Dirs \ {e} : warm'[d] = warm[d], UNCHANGED clusterVars,
             \/ warm'[e].by = Nothing
             \/ /\ job[warm'[e].by].st = "COMPLETED"
                /\ (owner = warm'[e].by) => /\ warm'[e].head = current
                                            /\ warm'[e].manifest \in {Nothing, current}
      PROVE  PulledDirs'
  <2> SUFFICES ASSUME NEW d \in Dirs, warm'[d].by # Nothing
               PROVE  /\ job'[warm'[d].by].st = "COMPLETED"
                      /\ (owner' = warm'[d].by) => /\ warm'[d].head = current'
                                                   /\ warm'[d].manifest \in {Nothing, current'}
    BY DEF PulledDirs
  <2>1. CASE d = e
    BY <1>3, <2>1 DEF clusterVars, rootVars
  <2>2. CASE d # e
    BY <1>1, <1>3, <2>2, PulledStays
  <2>. QED
    BY <2>1, <2>2
<1>4. ASSUME \A d \in Dirs : warm'[d] = warm[d] PROVE PulledDirs'
  BY <1>1, <1>4, PulledStays DEF PulledDirs
<1>5. CASE [PipelineNext]_vars
  BY <1>2, <1>5, DirsStayPulled
<1>6. CASE SlotStep
  <2>1. /\ slotRun.st # "idle" => Slot \in Slots
        /\ \A s \in Slots : s \in Dirs
    BY DirsApart
  <2>2. CASE SlotPullsHead
    <3>1. Slot \in Slots /\ Slot \in Dirs
      BY <2>1, <2>2 DEF SlotPullsHead
    <3>2. /\ warm[Slot].by \in {Nothing, slotRun.jid}
          /\ (warm[Slot].by = Nothing => warm[Slot].manifest = Nothing)
      BY <2>2 DEF SlotPullsHead, SlotDirs, HasManifest
    <3>3. slotRun.jid \in Jobs /\ job[slotRun.jid].st = "COMPLETED"
      BY <2>2 DEF SlotPullsHead, SlotKnowsItsJob, WarmIn
    <3>4. /\ \A d \in Dirs \ {Slot} : warm'[d] = warm[d]
          /\ UNCHANGED clusterVars
          /\ warm'[Slot].by = slotRun.jid
          /\ warm'[Slot].head = current /\ warm'[Slot].manifest = warm[Slot].manifest
      BY <2>2, <3>1, <3>2 DEF SlotPullsHead, StoreTypeOK
    <3>5. owner = slotRun.jid => warm[Slot].manifest \in {Nothing, current}
      BY <3>1, <3>2, <3>3, ClusterAssumption DEF PulledDirs
    <3>. QED
      BY <1>3, <3>1, <3>3, <3>4, <3>5
  <2>3. CASE SlotPullsRest
    <3>1. Slot \in Slots /\ Slot \in Dirs
      BY <2>1, <2>3 DEF SlotPullsRest
    <3>2. warm[Slot].by = slotRun.jid
      BY <2>3 DEF SlotPullsRest, SlotDirs
    <3>3. slotRun.jid \in Jobs /\ job[slotRun.jid].st = "COMPLETED"
      BY <2>3 DEF SlotPullsRest, SlotKnowsItsJob, WarmIn
    <3>4. /\ \A d \in Dirs \ {Slot} : warm'[d] = warm[d]
          /\ UNCHANGED clusterVars
          /\ warm'[Slot].by = slotRun.jid
          /\ warm'[Slot].head = warm[Slot].head /\ warm'[Slot].manifest = current
      BY <2>3, <3>1, <3>2 DEF SlotPullsRest, StoreTypeOK
    <3>5. owner = slotRun.jid => warm[Slot].head = current
      BY <3>1, <3>2, <3>3, ClusterAssumption DEF PulledDirs
    <3>. QED
      BY <1>3, <3>1, <3>3, <3>4, <3>5
  <2>4. UNCHANGED warm \/ SlotPullsHead \/ SlotPullsRest
    BY <1>6, SlotWrites DEF storeVars, SlotLinks
  <2>. QED
    BY <1>4, <2>2, <2>3, <2>4
<1>7. CASE CatchStep
  <2>1. CASE UNCHANGED warm
    BY <1>4, <2>1
  <2>2. CASE UNCHANGED clusterVars /\ catch.st = "running" /\ catch.task \in {"pull", "pullRest"}
    <3>1. catch.day \in Dirs
      BY <2>2 DEF CatchTypeOK, DayAssumptions, CatchAssumption
    <3>2. catch.jid \in Jobs /\ job[catch.jid].st = "COMPLETED"
      BY <2>2 DEF CatchKnowsItsJob, CatchHolds
    <3>3. \A d \in Dirs \ {catch.day} : warm'[d] = warm[d]
      BY <1>7, CatchupWrites DEF IndInv
    <3>4. CASE warm' = PulledHead(catch.day, catch.jid)
      BY <1>3, <2>2, <3>1, <3>2, <3>3, <3>4 DEF PulledHead, StoreTypeOK
    <3>5. CASE warm' = [warm EXCEPT ![catch.day] = EmptyDir]
      BY <1>3, <2>2, <3>1, <3>2, <3>3, <3>5 DEF EmptyDir, StoreTypeOK
    <3>6. CASE warm' = PulledRest(catch.day, catch.jid)
      <4>1. /\ warm'[catch.day].by \in {Nothing, warm[catch.day].by}
            /\ warm'[catch.day].head = warm[catch.day].head
            /\ warm'[catch.day].manifest = current
        BY <3>1, <3>6 DEF PulledRest, StoreTypeOK
      <4>. QED
        BY <1>3, <2>2, <3>1, <3>3, <4>1 DEF PulledDirs
    <3>7. \/ UNCHANGED warm
          \/ warm' = PulledHead(catch.day, catch.jid)
          \/ warm' = [warm EXCEPT ![catch.day] = EmptyDir]
          \/ warm' = PulledRest(catch.day, catch.jid)
      BY <1>7, CatchWrites DEF storeVars
    <3>. QED
      BY <2>1, <3>4, <3>5, <3>6, <3>7
  <2>. QED
    BY <1>7, <2>1, <2>2, CatchWrites DEF storeVars
<1>8. CASE \E d \in Days : StartTriggered(d)
  BY <1>4, <1>8 DEF StartTriggered, storeVars
<1>. QED
  BY <1>5, <1>6, <1>7, <1>8, TrainingMoves

\* The job of a catch-up, told as CatchHolds tells it.
CatchJob == /\ job[catch.jid].st # "unused"
            /\ job[catch.jid].kind = "base" /\ ~job[catch.jid].skip
            /\ \A g \in DagIds, d \in Days : record[g][d].jid # catch.jid

\* As long as a catch-up keeps its job, that stays what it is.
LEMMA CatchJobStays ==
  ASSUME TypeOK, DagInv, [Next]_clusterVars, CatchJob, catch.jid \in Jobs,
         UNCHANGED record \/ [PipelineNext]_vars, catch'.jid = catch.jid
  PROVE  CatchJob' /\ (job[catch.jid].st = "COMPLETED" => job'[catch.jid].st = "COMPLETED")
<1>1. /\ job'[catch.jid].st # "unused"
      /\ job'[catch.jid].kind = "base" /\ ~job'[catch.jid].skip
      /\ job[catch.jid].st = "COMPLETED" => job'[catch.jid].st = "COMPLETED"
  BY UsedStays, KindStays DEF CatchJob
<1>2. \A g \in DagIds, d \in Days : record'[g][d].jid # catch.jid
  <2>1. CASE \A f \in DagIds, c \in Days : record'[f][c].jid = record[f][c].jid
    BY <2>1 DEF CatchJob
  <2>2. ASSUME NEW f \in DagIds, NEW j \in Jobs, NEW skip \in BOOLEAN, Day(f) \in Days,
               Sbatch(j, Kind(f), skip),
               record' = [record EXCEPT ![f][Day(f)] = [jid |-> j, completed |-> FALSE]]
        PROVE  \A g \in DagIds, d \in Days : record'[g][d].jid # catch.jid
    <3>1. job[j].st = "unused"
      BY <2>2 DEF Sbatch, NextId
    <3>2. \A b \in DagIds, c \in Days :
            record'[b][c].jid = IF b = f /\ c = Day(f) THEN j ELSE record[b][c].jid
      BY <2>2 DEF DagInv, DagTypeOK
    <3>. QED
      BY <3>1, <3>2 DEF CatchJob
  <2>. QED
    BY <2>1, <2>2, RecordMoves
<1>. QED
  BY <1>1, <1>2 DEF CatchJob

LEMMA CatchHoldsStep ==
  ASSUME DayAssumptions, DayInd, [TrainingNext]_trainingVars
  PROVE  CatchHolds'
<1> USE DEF DayInd, TrainingInd
<1>1. [Next]_clusterVars /\ TypeOK /\ Known
  BY TrainingCluster DEF IndInv, Known
<1>2. catch.task # "submit" => /\ catch.st # "idle" /\ catch.day \in CatchDays
                               /\ catch.day \in Dirs /\ catch.jid \in Jobs /\ CatchJob
  BY DEF CatchHolds, CatchJob, CatchTypeOK, CatchKnowsItsJob, DayAssumptions, CatchAssumption
<1>3. ASSUME UNCHANGED catch, UNCHANGED record \/ [PipelineNext]_vars,
             catch.task # "submit" /\ warm'[catch.day].by = catch.jid
               => warm'[catch.day] = warm[catch.day]
      PROVE  CatchHolds'
  <2>1. catch.task # "submit" =>
          CatchJob' /\ (job[catch.jid].st = "COMPLETED" => job'[catch.jid].st = "COMPLETED")
    BY <1>1, <1>2, <1>3, CatchJobStays
  <2>. QED
    BY <1>2, <1>3, <2>1 DEF CatchHolds, CatchJob, HasManifest
<1>4. CASE [PipelineNext]_vars /\ UNCHANGED catchVars
  <2> SUFFICES ASSUME catch.task # "submit", warm'[catch.day].by = catch.jid
               PROVE  warm'[catch.day] = warm[catch.day]
    BY <1>3, <1>4 DEF catchVars
  <2>1. ASSUME NEW g \in DagIds, catch.day = Day(g), run[g].st # "idle",
               run[g].task \in {"rsync", "rsyncRest"}, warm'[catch.day].by \in {Nothing, Job(g)}
        PROVE  FALSE
    <3>1. HasJob(g)
      BY <2>1 DEF HasJob, PastSubmit, Tasks
    <3>2. record[g][Day(g)].jid = Job(g) /\ Day(g) \in Days
      BY <2>1, <3>1 DEF DagInv, RunKnowsItsJob, DagTypeOK, Day
    <3>. QED
      BY <1>2, <2>1, <3>2, ClusterAssumption DEF CatchJob
  <2>. QED
    BY <1>1, <1>2, <1>4, <2>1, DirMoves, ClusterAssumption
<1>5. CASE SlotStep /\ UNCHANGED <<dagVars, catchVars>>
  <2>1. catch.task # "submit" => warm'[catch.day] = warm[catch.day]
    <3> SUFFICES ASSUME catch.task # "submit" PROVE warm'[catch.day] = warm[catch.day]
      OBVIOUS
    <3>1. catch.day # Slot \/ slotRun.st = "idle"
      BY DirsApart
    <3>. QED
      BY <1>2, <1>5, <3>1, SlotWrites DEF SlotPullsHead, SlotPullsRest, SlotLinks, storeVars,
                                          StoreTypeOK
  <2>. QED
    BY <1>3, <1>5, <2>1 DEF dagVars, catchVars
<1>6. CASE \E d \in Days : StartTriggered(d) /\ UNCHANGED catchVars
  BY <1>3, <1>6 DEF StartTriggered, storeVars, catchVars
<1>7. CASE CatchStep /\ UNCHANGED <<dagVars, slotVars>>
  <2>1. ASSUME NEW j \in Jobs, Sbatch(j, "base", FALSE), catch'.task = "poll", catch'.jid = j,
               catch'.st # "idle"
        PROVE  CatchHolds'
    <3>1. /\ job[j].st = "unused" /\ job'[j].st = "PENDING"
          /\ job'[j].kind = "base" /\ ~job'[j].skip
      BY <1>1, <2>1, SubmittedIs DEF Kinds
    <3>2. \A g \in DagIds, d \in Days : record[g][d].jid # j
      BY <3>1, ClusterAssumption DEF OneRecordEach
    <3>. QED
      BY <1>7, <2>1, <3>1, <3>2 DEF CatchHolds, dagVars
  <2>2. CASE CatchGoesOn /\ catch'.task # "submit"
    <3>1. /\ catch.st # "idle" /\ catch'.day = catch.day /\ catch'.jid = catch.jid
          /\ CatchFollows(catch.task, catch'.task)
      BY <2>2 DEF CatchGoesOn
    <3>2. catch.task # "submit"
      BY <2>2, <3>1 DEF CatchFollows, CatchStart
    <3>3. CatchJob' /\ (job[catch.jid].st = "COMPLETED" => job'[catch.jid].st = "COMPLETED")
      BY <1>1, <1>2, <1>7, <3>1, <3>2, CatchJobStays DEF dagVars
    <3>4. catch'.task # "poll" => job[catch.jid].st = "COMPLETED"
      BY <3>1, <3>2 DEF CatchFollows, CatchStart, CatchHolds
    <3>5. (catch'.task \in {"base", "eod"} /\ warm'[catch.day].by = catch.jid)
            => warm'[catch.day].manifest # Nothing
      <4> SUFFICES ASSUME catch'.task \in {"base", "eod"}, warm'[catch.day].by = catch.jid
                   PROVE  warm'[catch.day].manifest # Nothing
        OBVIOUS
      <4>1. CASE catch.task \in {"base", "eod"}
        <5>1. UNCHANGED warm
          BY <1>7, <4>1, CatchWrites DEF storeVars
        <5>. QED
          BY <4>1, <5>1 DEF CatchHolds, HasManifest
      <4>2. CASE current # Nothing /\ warm' = PulledRest(catch.day, catch.jid)
        BY <1>2, <3>2, <4>2 DEF PulledRest, StoreTypeOK
      <4>. QED
        BY <3>1, <4>1, <4>2 DEF CatchFollows, CatchStart
    <3>6. catch'.st # "idle"
      BY <1>7, CatchMoves
    <3>. QED
      BY <3>1, <3>3, <3>4, <3>5, <3>6 DEF CatchHolds, CatchJob, HasManifest
  <2>3. CASE catch'.task = "submit"
    BY <2>3 DEF CatchHolds
  <2>. QED
    BY <1>7, <2>1, <2>2, <2>3, CatchMoves
<1>. QED
  BY <1>4, <1>5, <1>6, <1>7, TrainingMoves
-----------------------------------------------------------------------------
(* What slots and catch-ups publish.                                       *)

\* The others write to no nightly run's directory in its job's name.
LEMMA PromoteStaysWhole ==
  ASSUME DayAssumptions, DayInd, [TrainingNext]_trainingVars
  PROVE  WholeAtPromote'
<1> USE DEF DayInd, TrainingInd
<1>1. ASSUME NEW g \in DagIds, run[g].st # "idle", run[g].task \in PromoteSteps
      PROVE  /\ Day(g) \in Days /\ Day(g) \in Dirs /\ Job(g) \in Jobs
             /\ record[g][Day(g)].jid = Job(g)
  <2>1. HasJob(g)
    BY <1>1 DEF HasJob, PastSubmit, Tasks, PromoteSteps
  <2>. QED
    BY <2>1, DagAssumption DEF HasJob, DagInv, DagTypeOK, RunKnowsItsJob, Job, Day
<1>2. ASSUME \A g \in DagIds : run'[g] = run[g] \/ run'[g].task \notin PromoteSteps,
             \A g \in DagIds : run[g].st # "idle" /\ run[g].task \in PromoteSteps
               => \/ warm'[Day(g)] = warm[Day(g)]
                  \/ warm'[Day(g)].by # Job(g)
      PROVE  WholeAtPromote'
  <2> SUFFICES ASSUME NEW g \in DagIds, run'[g].st # "idle", run'[g].task \in PromoteSteps,
                      warm'[run'[g].day].by = run'[g].jid
               PROVE  warm'[run'[g].day].manifest # Nothing
    BY DEF WholeAtPromote, Day, Job, HasManifest
  <2>. QED
    BY <1>2 DEF WholeAtPromote, Day, Job, HasManifest
<1>3. CASE [PipelineNext]_vars /\ UNCHANGED <<slotVars, catchVars>>
  BY <1>3, StaysWhole DEF Known
<1>4. CASE SlotStep /\ UNCHANGED <<dagVars, catchVars>>
  <2>1. \A d \in Days : d \in Dirs => warm'[d] = warm[d]
    <3>1. UNCHANGED warm \/ (Slot \in Slots /\ \A d \in Dirs \ {Slot} : warm'[d] = warm[d])
      BY <1>4, SlotWrites, DirsApart
      DEF SlotPullsHead, SlotPullsRest, SlotLinks, storeVars, StoreTypeOK
    <3>. QED
      BY <3>1, DirsApart
  <2>. QED
    BY <1>1, <1>2, <1>4, <2>1 DEF dagVars
<1>5. CASE CatchStep /\ UNCHANGED <<dagVars, slotVars>>
  <2> SUFFICES ASSUME NEW g \in DagIds, run[g].st # "idle", run[g].task \in PromoteSteps
               PROVE  warm'[Day(g)] = warm[Day(g)] \/ warm'[Day(g)].by # Job(g)
    BY <1>2, <1>5 DEF dagVars
  <2>1. Day(g) \in Days /\ Day(g) \in Dirs /\ Job(g) \in Jobs /\ record[g][Day(g)].jid = Job(g)
    BY <1>1
  <2>2. catch.task # "submit" => Job(g) # catch.jid
    BY <2>1 DEF CatchHolds
  <2>3. Job(g) # Nothing
    BY <2>1, ClusterAssumption
  <2>. QED
    BY <1>5, <2>1, <2>2, <2>3, CatchWrites
    DEF PulledHead, PulledRest, EmptyDir, storeVars, StoreTypeOK
<1>6. CASE (\E d \in Days : StartTriggered(d)) /\ UNCHANGED <<slotVars, catchVars>>
  <2>1. FirstTask("baseOnly") \notin PromoteSteps
    BY DEF FirstTask, PromoteSteps
  <2>2. UNCHANGED warm /\ \A g \in DagIds : run'[g] = run[g] \/ run'[g].task \notin PromoteSteps
    BY <1>6, <2>1 DEF StartTriggered, DagInv, DagTypeOK, storeVars
  <2>. QED
    BY <1>2, <2>2
<1>. QED
  BY <1>3, <1>4, <1>5, <1>6, TrainingMoves

LEMMA DayIndStep ==
  ASSUME DayAssumptions, DayInd, [TrainingNext]_trainingVars
  PROVE  DayInd'
<1> USE DEF DayInd
<1>1. TrainingInd' /\ PulledDirs' /\ CatchHolds' /\ WholeAtPromote'
  BY TrainingIndStep, CopiesStay, CatchHoldsStep, PromoteStaysWhole
<1>2. [Next]_clusterVars /\ IndInv /\ TypeOK /\ DagInv /\ SlotTypeOK /\ CatchTypeOK /\ Known
  BY TrainingCluster DEF TrainingInd, IndInv, Known
<1>3. JobEnds'
  BY <1>2, EndsStep
<1>4. SlotInd
  BY DEF SlotInd
<1>5. CASE [PipelineNext]_vars /\ UNCHANGED <<slotVars, catchVars>>
  <2>1. StoreTypeOK'
    BY <1>2, <1>5, StoreStep
  <2>2. OneRecordEach' /\ JobIsOver'
    BY <1>2, <1>5, RecordsStayApart, JobStaysOver
  <2>3. SlotInd'
    BY <1>2, <1>4, <1>5, SlotsSpared, SlotsSparedStep, DirsApart
  <2>. QED
    BY <1>1, <1>3, <2>1, <2>2, <2>3 DEF SlotInd
<1>6. CASE SlotStep /\ UNCHANGED <<dagVars, catchVars>>
  <2>1. SlotInd' /\ StoreTypeOK'
    BY <1>2, <1>4, <1>6, SlotIndStep DEF TrainingInd
  <2>2. OneRecordEach' /\ JobIsOver'
    BY <1>2, <1>6, OthersKeepApart DEF dagVars
  <2>. QED
    BY <1>1, <1>3, <2>1, <2>2 DEF SlotInd
<1>7. CASE CatchStep /\ UNCHANGED <<dagVars, slotVars>>
  <2>1. StoreTypeOK'
    BY <1>2, <1>7, CatchupWrites
  <2>2. OneRecordEach' /\ JobIsOver'
    BY <1>2, <1>7, OthersKeepApart DEF dagVars
  <2>3. SlotInd'
    BY <1>2, <1>4, <1>7, SlotsSpared, SlotsSparedStep, DirsApart
  <2>. QED
    BY <1>1, <1>3, <2>1, <2>2, <2>3 DEF SlotInd
<1>8. CASE (\E d \in Days : StartTriggered(d)) /\ UNCHANGED <<slotVars, catchVars>>
  <2>1. UNCHANGED storeVars /\ UNCHANGED record
    BY <1>8 DEF StartTriggered
  <2>2. StoreTypeOK'
    BY <2>1 DEF StoreTypeOK, storeVars
  <2>3. OneRecordEach' /\ JobIsOver'
    BY <1>2, <1>8, <2>1, OthersKeepApart
  <2>4. SlotInd'
    BY <1>2, <1>4, <1>8, SlotsSpared, SlotsSparedStep, DirsApart
  <2>. QED
    BY <1>1, <1>3, <2>2, <2>3, <2>4 DEF SlotInd
<1>. QED
  BY <1>5, <1>6, <1>7, <1>8, TrainingMoves

LEMMA DayIndStarts ==
  ASSUME DayAssumptions, TrainingInit
  PROVE  DayInd
<1> USE DEF TrainingInit, DayInit, PipelineInit
<1>1. TrainingInd
  BY TrainingIndStarts
<1>2. JobEnds
  <2>1. ASSUME NEW j \in Jobs PROVE job[j].st = "unused"
    <3> DEFINE r == [kind |-> "full", skip |-> FALSE, st |-> "unused", stage |-> 0,
                     err |-> FALSE, root |-> FALSE, phase |-> "train"]
    <3>1. job[j] = r
      BY DEF Init
    <3>. QED
      BY <3>1
  <2>. QED
    BY <2>1 DEF JobEnds, Ends
<1>3. StoreTypeOK /\ PulledDirs
  BY DEF StoreInit, StoreTypeOK, PulledDirs, EmptyDir
<1>4. OneRecordEach /\ JobIsOver
  BY DEF OneRecordEach, JobIsOver
<1>5. \A d \in Dirs : warm[d].by = Nothing /\ warm[d].manifest = Nothing
  BY DEF StoreInit, EmptyDir
<1>6. \A s \in Slots : s \in Dirs
  BY DEF DayAssumptions, SlotAssumption
<1>7. SlotDirs
  BY <1>5, <1>6 DEF SlotDirs, SlotInit
<1>8. \A l \in Links : link[l] \notin Slots
  BY <1>6, DagAssumption DEF StoreInit
<1>9. ReplaysAreOver /\ SlotTargetsStay
  BY <1>8 DEF ReplaysAreOver, SlotTargetsStay, Links
<1>10. CatchHolds /\ WholeAtPromote
  BY DEF CatchInit, CatchHolds, WholeAtPromote
<1>. QED
  BY <1>1, <1>2, <1>3, <1>4, <1>7, <1>9, <1>10 DEF DayInd

\* A copy that is complete, of a job that still has run_root to itself, is the
\* bundle that job ended with.
LEMMA WholeCopyIsOwn ==
  ASSUME DayInd, NEW d \in Dirs, NEW j \in Jobs, owner = j, warm[d].by = j, HasManifest(d)
  PROVE  LET w == warm[d]
         IN /\ w.head = w.manifest /\ w.head # Nothing
            /\ w.head.by = j /\ w.head.stage = LastStage(j)
            /\ ~job[j].skip => w.head.rooted
<1>1. job[j].st = "COMPLETED" /\ warm[d].head = current /\ warm[d].manifest = current
  BY ClusterAssumption DEF DayInd, PulledDirs, HasManifest
<1>. QED
  BY <1>1, CompletedOwner DEF DayInd, TrainingInd, Own

LEMMA DayIndHolds ==
  ASSUME DagIds = {"daily", "baseOnly"} PROVE TrainingSpec => []DayInd
<1>1. DayAssumptions
  BY DayAssumption DEF DayAssumptions
<1>2. TrainingInit => DayInd
  BY <1>1, DayIndStarts
<1>3. DayInd /\ [TrainingNext]_<<dayVars, eveningVars, part>> => DayInd'
  BY <1>1, DayIndStep DEF trainingVars
<1>. QED
  BY <1>2, <1>3, PTL DEF TrainingSpec

\* Beside slots, catch-ups and triggered runs, too, the nightly runs call a job
\* completed only when it is, and promote what their own job trained.
THEOREM NightsOfTheDay ==
  ASSUME DagIds = {"daily", "baseOnly"} PROVE TrainingSpec => [](RecordIsHonest /\ PromotedIsOwn)
<1>1. DayInd => RecordIsHonest /\ PromotedIsOwn
  BY PromoteIsOwn DEF DayInd, TrainingInd, DagInv, PromoteInv
<1>. QED
  BY <1>1, DayIndHolds, PTL

\* What an intraday run and a catch-up put live is their own job's bundle, in
\* one piece, as long as nobody else touched run_root or the directory since;
\* and what a link of a slot points to stays complete, whatever the nightly
\* rmtree, the seven-day cleanup and the catch-up remove.
THEOREM PublishedOfTheDay ==
  ASSUME DagIds = {"daily", "baseOnly"} PROVE TrainingSpec => []DayPublishesItsOwn
<1>0. DayAssumptions
  BY DayAssumption DEF DayAssumptions
<1>1. ASSUME DayInd, SlotAt("promoteSim"), owner = slotRun.jid, warm[Slot].by = slotRun.jid
      PROVE  LET w == warm[Slot]
             IN /\ w.head = w.manifest /\ w.head # Nothing
                /\ w.head.by = slotRun.jid /\ w.head.stage = Windows
  <2>1. WarmIn(job, slotRun.jid) /\ slotRun.pulled
    BY <1>1 DEF SlotAt, DayInd, TrainingInd, SlotKnowsItsJob
  <2>2. HasManifest(Slot)
    BY <1>1, <2>1 DEF SlotAt, DayInd, SlotDirs
  <2>3. Slot \in Dirs
    BY <1>0, <1>1 DEF SlotAt, DayInd, TrainingInd, SlotTypeOK, Slot, DayAssumptions, SlotAssumption
  <2>. QED
    BY <1>1, <2>1, <2>2, <2>3, WholeCopyIsOwn DEF WarmIn, LastStage
<1>2. ASSUME DayInd, CatchAt("base") \/ CatchAt("eod"), owner = catch.jid,
             warm[catch.day].by = catch.jid
      PROVE  LET w == warm[catch.day]
             IN /\ w.head = w.manifest /\ w.head # Nothing
                /\ w.head.by = catch.jid /\ w.head.rooted
  <2>1. catch.jid \in Jobs /\ ~job[catch.jid].skip
    BY <1>2 DEF CatchAt, DayInd, TrainingInd, CatchKnowsItsJob, CatchHolds
  <2>2. HasManifest(catch.day)
    BY <1>2 DEF CatchAt, DayInd, CatchHolds
  <2>3. catch.day \in Dirs
    BY <1>0, <1>2 DEF CatchAt, DayInd, TrainingInd, CatchTypeOK, DayAssumptions, CatchAssumption
  <2>. QED
    BY <1>2, <2>1, <2>2, <2>3, WholeCopyIsOwn
<1>3. DayInd => DayPublishesItsOwn
  BY <1>1, <1>2
  DEF DayPublishesItsOwn, IntradayPublishesItsOwn, CatchupPublishesItsOwn, DayInd
<1>. QED
  BY <1>3, DayIndHolds, PTL
=============================================================================
