------------------------- MODULE TrainingDagsProofs -------------------------
(***************************************************************************)
(* Proofs about TrainingDags, for any jobs, windows, dates and retries:    *)
(* the DAGs use the cluster as NibiCluster allows, so that what is proved  *)
(* of run_root holds under them; every variable keeps its type; and the    *)
(* job records are honest and forget no job.                               *)
(***************************************************************************)
EXTENDS TrainingDags, NibiClusterProofs

RunRecords == [st : {"idle", "running", "failed", "success"}, day : Days \cup {0},
               task : Tasks, tries : 0..2, jid : Jobs \cup {Nothing}]

JidRecords == [jid : Jobs \cup {Nothing}, completed : BOOLEAN]

DagTypeOK == /\ run \in [DagIds -> RunRecords]
             /\ record \in [DagIds -> [Days -> JidRecords]]
             /\ orphans \subseteq Jobs
             /\ \A g \in DagIds : run[g].st # "idle" => run[g].day \in Days

\* Positions at which a run has its job.
PastSubmit == Tasks \ {"ship", "clean", "wipe", "submit"}
HasJob(g) == run[g].st # "idle" /\ run[g].task \in PastSubmit

\* The job a run has is the one on record for its date.
RunKnowsItsJob ==
  \A g \in DagIds : HasJob(g) => /\ Job(g) \in Jobs
                                 /\ record[g][Day(g)].jid = Job(g)

DagInv == DagTypeOK /\ RunKnowsItsJob /\ RecordIsHonest

\* A job is on a record, or its submission was answered to nobody.
Recorded(i) == \/ i \in orphans
               \/ \E g \in DagIds, d \in Days : record[g][d].jid = i

\* A step neither puts a job in flight nor strikes one out without a record.
NoneDropped ==
  \A i \in Jobs : InFlight(i)' => Recorded(i)' \/ (InFlight(i) /\ ~Recorded(i))
----------------------------------------------------------------------------
(* The cluster under the DAGs.                                             *)

\* Each step of the pipeline is a step of the cluster, or none.
LEMMA ClusterStepOrNone == [PipelineNext]_vars => [Next]_clusterVars
<1> SUFFICES ASSUME [PipelineNext]_vars PROVE [Next]_clusterVars
  OBVIOUS
<1>1. CASE UNCHANGED vars
  BY <1>1 DEF vars
<1>2. CASE ClusterStep
  BY <1>2, DagAssumption DEF ClusterStep, Next, Environment
<1>3. ASSUME NEW g \in DagIds, DagStep(g) PROVE [Next]_clusterVars
  <2>1. CASE \E d \in Days : StartRun(g, d)
    BY <2>1 DEF StartRun
  <2>2. CASE TaskFails(g) \/ Operator(g)
    BY <2>2 DEF TaskFails, Operator, Clear
  <2>3. CASE Sensor(g)
    BY <2>3 DEF Sensor, PollCompleted, PollFailed, PollTimeout
  <2>4. CASE Epilogue(g)
    BY <2>4 DEF Epilogue, Validate, PullModels, PullRest, PromoteBase, PromoteEod, PromoteSim,
                Cleanup, GenerateBasePredictions, ReloadBackend
  <2>5. CASE Prologue(g)
    <3>1. CASE ShipBaseModel(g)
      <4>1. UNCHANGED clusterVars \/ ShipBase
        BY <3>1 DEF ShipBaseModel
      <4>. QED
        BY <4>1 DEF Next, Environment
    <3>2. CASE CheckQueue(g) \/ ReuseJob(g)
      BY <3>2 DEF CheckQueue, ReuseJob
    <3>3. CASE WipeRunRoot(g)
      BY <3>3 DEF WipeRunRoot, Next, Environment
    <3>4. ASSUME NEW j \in Jobs, SubmitJob(g, j) \/ SubmitLost(g, j) PROVE Next
      <4>1. \E skip \in BOOLEAN : Sbatch(j, Kind(g), skip) /\ (Kind(g) = "base" => skip = FALSE)
        BY <3>4, DagAssumption DEF SubmitJob, SubmitLost, Kind
      <4>2. Kind(g) \in {"full", "base"}
        BY DEF Kind
      <4>. QED
        BY <4>1, <4>2 DEF Next, Environment
    <3>. QED
      BY <2>5, <3>1, <3>2, <3>3, <3>4 DEF Prologue
  <2>. QED
    BY <1>3, <2>1, <2>2, <2>3, <2>4, <2>5 DEF DagStep
<1>. QED
  BY <1>1, <1>2, <1>3 DEF PipelineNext

\* The pipeline implements NibiCluster: whatever the DAGs and their operators
\* do, run_root is used as that module says.
THEOREM PipelineRefinesCluster == PipelineSpec => Spec
<1>1. PipelineInit => Init
  BY DEF PipelineInit
<1>. QED
  BY <1>1, ClusterStepOrNone, PTL DEF PipelineSpec, Spec
----------------------------------------------------------------------------
(* Jobs, as the records see them.                                          *)

\* Only sbatch puts a job in flight, and a completed job stays completed.
LEMMA JobsSettle ==
  ASSUME TypeOK, NEW i \in Jobs
  PROVE  /\ (UNCHANGED job \/ \E j \in Jobs : Slurm(j))
              => (InFlight(i)' => InFlight(i))
         /\ (UNCHANGED job \/ (\E j \in Jobs : Slurm(j))
             \/ \E j \in Jobs, kind \in Kinds, skip \in BOOLEAN : Sbatch(j, kind, skip))
              => (job[i].st = "COMPLETED" => job'[i].st = "COMPLETED")
<1> USE DEF TypeOK, InFlight, Running
<1>1. CASE UNCHANGED job
  BY <1>1 DEF JobRecords
<1>2. ASSUME NEW j \in Jobs, Slurm(j)
      PROVE  (InFlight(i)' => InFlight(i)) /\ (job[i].st = "COMPLETED" => job'[i].st = "COMPLETED")
  BY <1>2 DEF Slurm, Start, Die, Read, Train, Publish, Snapshot, WindowError, WriteDone, Exit,
              ExitFailed, AtEnd, JobRecords, rootVars
<1>3. ASSUME NEW j \in Jobs, NEW kind \in Kinds, NEW skip \in BOOLEAN, Sbatch(j, kind, skip)
      PROVE  job[i].st = "COMPLETED" => job'[i].st = "COMPLETED"
  BY <1>3 DEF Sbatch, NextId, JobRecords
<1>. QED
  BY <1>1, <1>2, <1>3
----------------------------------------------------------------------------
(* Runs, as they go from task to task.                                     *)

\* A run goes on, or fails, with the date and the job it had; it comes past
\* the submission only when it was there.
RunGoesOn(g) ==
  /\ run' \in [DagIds -> RunRecords]
  /\ \A h \in DagIds \ {g} : run'[h] = run[h]
  /\ run[g].st # "idle" /\ run'[g].st # "idle"
  /\ run'[g].day = run[g].day /\ run'[g].jid = run[g].jid
  /\ run'[g].task \in PastSubmit => run[g].task \in PastSubmit

LEMMA RetriesRange == \A t \in Tasks : Retries(t) \in 0..2
BY DagAssumption DEF Retries

LEMMA TaskStartStays ==
  \A t \in Tasks : TaskStart(t) \in Tasks /\ (TaskStart(t) \in PastSubmit => t \in PastSubmit)
BY DEF TaskStart, Tasks, PastSubmit

\* The three ways to go on.
LEMMA GoesOn ==
  ASSUME DagTypeOK, NEW g \in DagIds, Active(g), NEW t \in Tasks,
         GoTo(g, t) \/ Continue(g, t), t \in PastSubmit => run[g].task \in PastSubmit
  PROVE  RunGoesOn(g)
<1>1. CASE GoTo(g, t)
  <2>1. Retries(t) \in 0..2
    BY RetriesRange
  <2>2. run' = [run EXCEPT ![g] = [run[g] EXCEPT !.task = t, !.tries = Retries(t)]]
    BY <1>1 DEF GoTo, DagTypeOK, RunRecords
  <2>. QED
    BY <2>1, <2>2 DEF DagTypeOK, RunRecords, Active, RunGoesOn
<1>2. CASE Continue(g, t)
  BY <1>2 DEF DagTypeOK, RunRecords, Active, Continue, RunGoesOn
<1>. QED
  BY <1>1, <1>2

LEMMA RaiseGoesOn ==
  ASSUME DagTypeOK, NEW g \in DagIds, Active(g), Raise(g)
  PROVE  RunGoesOn(g)
<1>1. run[g].task \in Tasks
  BY DEF DagTypeOK, RunRecords
<1>2. TaskStart(run[g].task) \in Tasks
      /\ (TaskStart(run[g].task) \in PastSubmit => run[g].task \in PastSubmit)
  BY <1>1, TaskStartStays
<1>. QED
  BY <1>2 DEF DagTypeOK, RunRecords, Active, Raise, RunGoesOn

LEMMA ClearedGoesOn ==
  ASSUME DagTypeOK, NEW g \in DagIds, Clear(g, FALSE)
  PROVE  RunGoesOn(g)
<1>1. run[g].task \in Tasks
  BY DEF DagTypeOK, RunRecords
<1>2. Retries(run[g].task) \in 0..2
  BY <1>1, RetriesRange
<1>3. run[g].st = "failed"
      /\ run' = [run EXCEPT ![g] = [run[g] EXCEPT !.st = "running",
                                                 !.tries = Retries(run[g].task)]]
  BY DEF Clear, DagTypeOK, RunRecords
<1>. QED
  BY <1>2, <1>3 DEF DagTypeOK, RunRecords, RunGoesOn

LEMMA EndsGoOn ==
  ASSUME DagTypeOK, NEW g \in DagIds, PollTimeout(g) \/ ReloadBackend(g)
  PROVE  RunGoesOn(g)
<1>1. PICK st \in {"failed", "success"} : /\ run[g].st # "idle"
                                         /\ run' = [run EXCEPT ![g] = [run[g] EXCEPT !.st = st]]
  BY DEF PollTimeout, ReloadBackend, At, Active, DagTypeOK
<1>2. [run[g] EXCEPT !.st = st] \in RunRecords
  BY DEF DagTypeOK, RunRecords
<1>. QED
  BY <1>1, <1>2 DEF DagTypeOK, RunRecords, RunGoesOn
----------------------------------------------------------------------------
(* The invariant, step by step.                                            *)

\* A step that leaves records and jobs alone.
LEMMA QuietStep ==
  ASSUME TypeOK, DagInv, NEW g \in DagIds, RunGoesOn(g), UNCHANGED <<job, record, orphans>>
  PROVE  DagInv' /\ NoneDropped
<1>1. DagTypeOK'
  BY DEF DagInv, DagTypeOK, RunGoesOn
<1>2. RunKnowsItsJob'
  <2> SUFFICES ASSUME NEW h \in DagIds, HasJob(h)'
               PROVE  Job(h)' \in Jobs /\ record'[h][Day(h)'].jid = Job(h)'
    BY DEF RunKnowsItsJob
  <2>1. HasJob(h) /\ Job(h)' = Job(h) /\ Day(h)' = Day(h)
    BY DEF HasJob, Job, Day, RunGoesOn
  <2>. QED
    BY <2>1 DEF DagInv, RunKnowsItsJob
<1>3. RecordIsHonest' /\ NoneDropped
  BY DEF DagInv, RecordIsHonest, NoneDropped, Recorded, InFlight
<1>. QED
  BY <1>1, <1>2, <1>3 DEF DagInv

\* A step of a job, or of nothing the DAGs keep.
LEMMA ClusterQuiet ==
  ASSUME TypeOK, DagInv, UNCHANGED job \/ \E j \in Jobs : Slurm(j), UNCHANGED dagVars
  PROVE  DagInv' /\ NoneDropped
<1> USE DEF dagVars
<1>1. DagTypeOK' /\ RunKnowsItsJob'
  BY DEF DagInv, DagTypeOK, RunKnowsItsJob, HasJob, Job, Day
<1>2. RecordIsHonest'
  <2> SUFFICES ASSUME NEW g \in DagIds, NEW d \in Days, record[g][d].completed
               PROVE  /\ record[g][d].jid # Nothing
                      /\ job'[record[g][d].jid].st = "COMPLETED"
    BY DEF RecordIsHonest
  <2>1. record[g][d].jid # Nothing /\ job[record[g][d].jid].st = "COMPLETED"
    BY DEF DagInv, RecordIsHonest
  <2>2. record[g][d].jid \in Jobs
    BY <2>1 DEF DagInv, DagTypeOK, JidRecords
  <2>. QED
    BY <2>1, <2>2, JobsSettle
<1>3. NoneDropped
  <2>1. \A j \in Jobs : InFlight(j)' => InFlight(j)
    BY JobsSettle
  <2>. QED
    BY <2>1 DEF NoneDropped, Recorded
<1>. QED
  BY <1>1, <1>2, <1>3 DEF DagInv

\* A run begins anew at its first task.
LEMMA BeginStep ==
  ASSUME TypeOK, DagInv, NEW g \in DagIds, NEW r \in RunRecords, r.day \in Days,
         r.task = FirstTask(g), run' = [run EXCEPT ![g] = r], UNCHANGED <<job, record, orphans>>
  PROVE  DagInv' /\ NoneDropped
<1>1. FirstTask(g) \in Tasks \ PastSubmit
  BY DEF FirstTask, Tasks, PastSubmit
<1>2. DagTypeOK'
  BY <1>1 DEF DagInv, DagTypeOK, RunRecords
<1>3. RunKnowsItsJob'
  BY <1>1 DEF DagInv, DagTypeOK, RunKnowsItsJob, HasJob, Job, Day
<1>4. RecordIsHonest' /\ NoneDropped
  BY DEF DagInv, RecordIsHonest, NoneDropped, Recorded, InFlight
<1>. QED
  BY <1>2, <1>3, <1>4 DEF DagInv

\* What a new run is like.
LEMMA NewRunIs ==
  ASSUME NEW g \in DagIds, NEW d \in Days
  PROVE  [st |-> "running", day |-> d, task |-> FirstTask(g),
          tries |-> Retries(FirstTask(g)), jid |-> Nothing] \in RunRecords
<1>1. FirstTask(g) \in Tasks
  BY DEF FirstTask, Tasks
<1>2. Retries(FirstTask(g)) \in 0..2
  BY <1>1, RetriesRange
<1>. QED
  BY <1>1, <1>2 DEF RunRecords

\* A run that starts, or is cleared as a whole, has no job.
LEMMA StartStep ==
  ASSUME TypeOK, DagInv, NEW g \in DagIds,
         (\E d \in Days : StartRun(g, d)) \/ Clear(g, TRUE)
  PROVE  DagInv' /\ NoneDropped
<1>1. UNCHANGED <<job, record, orphans>>
  BY DEF StartRun, Clear, clusterVars
<1>2. CASE Clear(g, TRUE)
  <2>1. run[g].day \in Days
    BY <1>2 DEF Clear, DagInv, DagTypeOK
  <2> DEFINE r == [run[g] EXCEPT !.st = "running", !.task = FirstTask(g),
                                 !.tries = Retries(FirstTask(g)), !.jid = Nothing]
  <2>2. run' = [run EXCEPT ![g] = r]
    BY <1>2 DEF Clear, DagInv, DagTypeOK, RunRecords
  <2>3. FirstTask(g) \in Tasks /\ Retries(FirstTask(g)) \in 0..2
    BY RetriesRange DEF FirstTask, Tasks
  <2>4. r \in RunRecords /\ r.day = run[g].day /\ r.task = FirstTask(g)
    BY <2>3 DEF DagInv, DagTypeOK, RunRecords
  <2>. QED
    BY <1>1, <2>1, <2>2, <2>4, BeginStep
<1>3. ASSUME NEW d \in Days, StartRun(g, d) PROVE DagInv' /\ NoneDropped
  BY <1>1, <1>3, BeginStep, NewRunIs DEF StartRun
<1>. QED
  BY <1>2, <1>3

\* What is on record is the job the run goes on with.
LEMMA ReuseStep ==
  ASSUME TypeOK, DagInv, NEW g \in DagIds, ReuseJob(g)
  PROVE  DagInv' /\ NoneDropped
<1>1. Day(g) \in Days /\ record[g][Day(g)].jid \in Jobs
  BY DEF ReuseJob, At, Active, OnRecord, Day, DagInv, DagTypeOK, JidRecords
<1>2. Retries("poll") \in 0..2
  BY RetriesRange DEF Tasks
<1>3. run' = [run EXCEPT ![g] = [run[g] EXCEPT !.task = "poll", !.tries = Retries("poll"),
                                               !.jid = record[g][Day(g)].jid]]
  BY DEF ReuseJob, DagInv, DagTypeOK, RunRecords
<1>4. UNCHANGED <<job, record, orphans>>
  BY DEF ReuseJob, clusterVars
<1>5. DagTypeOK'
  BY <1>1, <1>2, <1>3, <1>4 DEF DagInv, DagTypeOK, RunRecords, Tasks
<1>6. RunKnowsItsJob'
  BY <1>1, <1>3, <1>4 DEF DagInv, DagTypeOK, RunKnowsItsJob, HasJob, Job, Day
<1>7. RecordIsHonest' /\ NoneDropped
  BY <1>4 DEF DagInv, RecordIsHonest, NoneDropped, Recorded, InFlight
<1>. QED
  BY <1>5, <1>6, <1>7 DEF DagInv

\* What sbatch does to the jobs.
LEMMA SbatchJobs ==
  ASSUME TypeOK, NEW j \in Jobs, NEW kind \in Kinds, NEW skip \in BOOLEAN,
         Sbatch(j, kind, skip), NEW i \in Jobs
  PROVE  InFlight(i)' => i = j \/ InFlight(i)
BY DEF TypeOK, Sbatch, NextId, InFlight, JobRecords

\* Submitting where nothing, or a completed job, is on record: whatever part
\* of it the task lives to see.
LEMMA SubmitStep ==
  ASSUME TypeOK, DagInv, NEW g \in DagIds, NEW j \in Jobs, SubmitJob(g, j) \/ SubmitLost(g, j)
  PROVE  DagInv' /\ NoneDropped
<1> DEFINE Put == record' = [record EXCEPT ![g][Day(g)] = [jid |-> j, completed |-> FALSE]]
<1>1. At(g, "submit") /\ ~OnRecord(g) /\ Day(g) \in Days
  BY DEF SubmitJob, SubmitLost, At, Active, Day, DagInv, DagTypeOK
<1>2. PICK skip \in BOOLEAN : Sbatch(j, Kind(g), skip)
  BY DagAssumption DEF SubmitJob, SubmitLost
<1>3. Kind(g) \in Kinds
  BY DEF Kind, Kinds
<1>4. \/ Put /\ UNCHANGED orphans
      \/ orphans' = orphans \cup {j} /\ UNCHANGED record
  BY DEF SubmitJob, SubmitLost
<1>5. /\ run' \in [DagIds -> RunRecords]
      /\ \A h \in DagIds \ {g} : run'[h] = run[h]
      /\ run'[g].day = Day(g)
      /\ run'[g].task \in PastSubmit => run'[g].jid = j /\ Put
  <2>1. CASE SubmitJob(g, j)
    <3>1. Retries("poll") \in 0..2
      BY RetriesRange DEF Tasks
    <3>2. run' = [run EXCEPT ![g] = [run[g] EXCEPT !.task = "poll",
                                                   !.tries = Retries("poll"), !.jid = j]]
      BY <2>1 DEF SubmitJob, DagInv, DagTypeOK, RunRecords
    <3>3. Put
      BY <2>1 DEF SubmitJob
    <3>. QED
      BY <1>1, <3>1, <3>2, <3>3 DEF DagInv, DagTypeOK, RunRecords, Tasks, Day
  <2>2. CASE SubmitLost(g, j)
    <3>1. RunGoesOn(g)
      BY <1>1, <2>2, RaiseGoesOn DEF SubmitLost, At, DagInv
    <3>. QED
      BY <1>1, <3>1 DEF RunGoesOn, At, PastSubmit, Day
  <2>. QED
    BY <2>1, <2>2
<1>6. DagTypeOK'
  <2>1. [jid |-> j, completed |-> FALSE] \in JidRecords
    BY DEF JidRecords
  <2>2. record' \in [DagIds -> [Days -> JidRecords]]
    <3>1. CASE Put
      <4>1. record' = [record EXCEPT ![g] = [record[g] EXCEPT ![Day(g)] =
                                               [jid |-> j, completed |-> FALSE]]]
        BY <3>1 DEF DagInv, DagTypeOK
      <4>2. [record[g] EXCEPT ![Day(g)] = [jid |-> j, completed |-> FALSE]]
              \in [Days -> JidRecords]
        BY <2>1 DEF DagInv, DagTypeOK
      <4>. QED
        BY <4>1, <4>2 DEF DagInv, DagTypeOK
    <3>. QED
      BY <1>4, <3>1 DEF DagInv, DagTypeOK
  <2>3. orphans' \subseteq Jobs
    BY <1>4 DEF DagInv, DagTypeOK
  <2>4. \A h \in DagIds : run'[h].st # "idle" => run'[h].day \in Days
    BY <1>1, <1>5 DEF DagInv, DagTypeOK
  <2>. QED
    BY <1>5, <2>2, <2>3, <2>4 DEF DagTypeOK
<1>7. RunKnowsItsJob'
  <2> SUFFICES ASSUME NEW h \in DagIds, HasJob(h)'
               PROVE  Job(h)' \in Jobs /\ record'[h][Day(h)'].jid = Job(h)'
    BY DEF RunKnowsItsJob
  <2>1. CASE h = g
    BY <1>1, <1>5, <2>1 DEF HasJob, Job, Day, DagInv, DagTypeOK
  <2>2. CASE h # g
    <3>1. HasJob(h) /\ Job(h)' = Job(h) /\ Day(h)' = Day(h)
      BY <1>5, <2>2 DEF HasJob, Job, Day
    <3>2. record'[h] = record[h]
      BY <1>4, <2>2 DEF DagInv, DagTypeOK
    <3>. QED
      BY <3>1, <3>2 DEF DagInv, RunKnowsItsJob
  <2>. QED
    BY <2>1, <2>2
<1>8. RecordIsHonest'
  <2> SUFFICES ASSUME NEW h \in DagIds, NEW d \in Days, record'[h][d].completed
               PROVE  /\ record'[h][d].jid # Nothing
                      /\ job'[record'[h][d].jid].st = "COMPLETED"
    BY DEF RecordIsHonest
  <2>1. record'[h][d] = record[h][d]
    BY <1>1, <1>4 DEF DagInv, DagTypeOK
  <2>2. record[h][d].jid \in Jobs /\ job[record[h][d].jid].st = "COMPLETED"
    BY <2>1 DEF DagInv, RecordIsHonest, DagTypeOK, JidRecords
  <2>. QED
    BY <1>2, <1>3, <2>1, <2>2, JobsSettle, ClusterAssumption
<1>9. NoneDropped
  <2> SUFFICES ASSUME NEW i \in Jobs, InFlight(i)', i \notin orphans',
                      ~InFlight(i) \/ Recorded(i)
               PROVE  \E h \in DagIds, d \in Days : record'[h][d].jid = i
    BY DEF NoneDropped, Recorded
  <2>1. CASE i = j
    <3>1. Put
      BY <1>4, <2>1
    <3>. QED
      BY <1>1, <2>1, <3>1 DEF DagInv, DagTypeOK
  <2>2. CASE i # j
    <3>1. InFlight(i)
      BY <1>2, <1>3, <2>2, SbatchJobs
    <3>2. PICK h \in DagIds, d \in Days : record[h][d].jid = i
      BY <1>4, <3>1 DEF Recorded
    <3>3. ~(h = g /\ d = Day(g))
      BY <1>1, <3>1, <3>2, ClusterAssumption DEF OnRecord, DagInv, RecordIsHonest, InFlight
    <3>4. record'[h][d] = record[h][d]
      BY <1>1, <1>4, <3>3 DEF DagInv, DagTypeOK
    <3>. QED
      BY <3>2, <3>4
  <2>. QED
    BY <2>1, <2>2
<1>. QED
  BY <1>6, <1>7, <1>8, <1>9 DEF DagInv

\* sacct's COMPLETED goes into the record of the very job it is about.
LEMMA PollCompletedStep ==
  ASSUME TypeOK, DagInv, NEW g \in DagIds, PollCompleted(g)
  PROVE  DagInv' /\ NoneDropped
<1>1. /\ Active(g) /\ HasJob(g) /\ Day(g) \in Days
      /\ job[Job(g)].st = "COMPLETED" /\ UNCHANGED <<job, orphans>>
      /\ record' = [record EXCEPT ![g][Day(g)].completed = TRUE]
  BY DEF PollCompleted, At, Active, HasJob, PastSubmit, Tasks, Day, DagInv, DagTypeOK, clusterVars
<1>2. Job(g) \in Jobs /\ record[g][Day(g)].jid = Job(g)
  BY <1>1 DEF DagInv, RunKnowsItsJob
<1>3. RunGoesOn(g)
  BY <1>1, GoesOn DEF PollCompleted, HasJob, Tasks, DagInv
<1>4. \A h \in DagIds, d \in Days :
        /\ record'[h][d] \in JidRecords
        /\ record'[h][d].jid = record[h][d].jid
        /\ record'[h][d].completed => record[h][d].completed \/ (h = g /\ d = Day(g))
  <2>1. record[g][Day(g)] \in JidRecords
    BY <1>1 DEF DagInv, DagTypeOK
  <2>2. record' = [record EXCEPT ![g] =
                     [record[g] EXCEPT ![Day(g)] = [record[g][Day(g)] EXCEPT !.completed = TRUE]]]
    BY <1>1 DEF DagInv, DagTypeOK
  <2> DEFINE r == [record[g][Day(g)] EXCEPT !.completed = TRUE]
  <2>3. r \in JidRecords /\ r.jid = record[g][Day(g)].jid
    BY <2>1 DEF JidRecords
  <2> SUFFICES ASSUME NEW h \in DagIds, NEW d \in Days
               PROVE  /\ record'[h][d] \in JidRecords
                      /\ record'[h][d].jid = record[h][d].jid
                      /\ record'[h][d].completed
                           => record[h][d].completed \/ (h = g /\ d = Day(g))
    OBVIOUS
  <2>4. record[h][d] \in JidRecords
    BY DEF DagInv, DagTypeOK
  <2>5. CASE h = g /\ d = Day(g)
    <3>1. record'[h][d] = r
      BY <2>2, <2>5 DEF DagInv, DagTypeOK
    <3>. QED
      BY <2>3, <2>5, <3>1
  <2>6. CASE ~(h = g /\ d = Day(g))
    <3>1. record'[h][d] = record[h][d]
      BY <2>2, <2>6 DEF DagInv, DagTypeOK
    <3>. QED
      BY <2>4, <3>1
  <2>. QED
    BY <2>5, <2>6
<1>5. DagTypeOK'
  BY <1>1, <1>3, <1>4 DEF DagInv, DagTypeOK, RunGoesOn
<1>6. RunKnowsItsJob'
  <2> SUFFICES ASSUME NEW h \in DagIds, HasJob(h)'
               PROVE  Job(h)' \in Jobs /\ record'[h][Day(h)'].jid = Job(h)'
    BY DEF RunKnowsItsJob
  <2>1. HasJob(h) /\ Job(h)' = Job(h) /\ Day(h)' = Day(h) /\ Day(h) \in Days
    BY <1>3 DEF HasJob, Job, Day, RunGoesOn, DagInv, DagTypeOK
  <2>. QED
    BY <1>4, <2>1 DEF DagInv, RunKnowsItsJob
<1>7. RecordIsHonest'
  BY <1>1, <1>2, <1>4, ClusterAssumption DEF DagInv, RecordIsHonest
<1>8. NoneDropped
  BY <1>1, <1>4 DEF NoneDropped, Recorded, InFlight
<1>. QED
  BY <1>5, <1>6, <1>7, <1>8 DEF DagInv

\* Any other step of a task keeps the date's record.
LEMMA TaskStep ==
  ASSUME TypeOK, DagInv, NEW g \in DagIds,
         \/ ShipBaseModel(g) \/ CheckQueue(g) \/ WipeRunRoot(g)
         \/ PollFailed(g) \/ PollTimeout(g)
         \/ Epilogue(g) \/ TaskFails(g) \/ Clear(g, FALSE)
  PROVE  DagInv' /\ NoneDropped
<1>1. UNCHANGED <<job, record, orphans>>
  BY DEF ShipBaseModel, ShipBase, CheckQueue, WipeRunRoot, Wipe, PollFailed, PollTimeout,
         Epilogue, Validate, PullModels, PullRest, PromoteBase, PromoteEod, PromoteSim, Cleanup,
         GenerateBasePredictions, ReloadBackend, TaskFails, Clear, clusterVars
<1>2. RunGoesOn(g)
  <2> USE DEF DagInv, At
  <2>1. CASE ShipBaseModel(g) \/ CheckQueue(g) \/ WipeRunRoot(g)
    <3>1. Active(g) /\ (Raise(g) \/ \E t \in {"clean", "wipe", "submit"} :
                                      GoTo(g, t) \/ Continue(g, t))
      BY <2>1 DEF ShipBaseModel, CheckQueue, WipeRunRoot
    <3>. QED
      BY <3>1, GoesOn, RaiseGoesOn DEF Tasks, PastSubmit
  <2>2. CASE PollFailed(g) \/ TaskFails(g)
    BY <2>2, RaiseGoesOn DEF PollFailed, TaskFails
  <2>3. CASE PollTimeout(g) \/ ReloadBackend(g) \/ Clear(g, FALSE)
    BY <2>3, EndsGoOn, ClearedGoesOn
  <2>4. CASE Epilogue(g) /\ ~ReloadBackend(g)
    <3>1. /\ Active(g) /\ run[g].task \in PastSubmit
          /\ Raise(g) \/ \E t \in Tasks : GoTo(g, t) \/ Continue(g, t)
      BY <2>4 DEF Epilogue, Validate, PullModels, PullRest, PromoteBase, PromoteEod, PromoteSim,
                  Cleanup, GenerateBasePredictions, Tasks, PastSubmit
    <3>. QED
      BY <3>1, GoesOn, RaiseGoesOn
  <2>. QED
    BY <2>1, <2>2, <2>3, <2>4 DEF Epilogue
<1>. QED
  BY <1>1, <1>2, QuietStep

LEMMA DagStepKeeps == TypeOK /\ DagInv /\ [PipelineNext]_vars => DagInv' /\ NoneDropped
<1> SUFFICES ASSUME TypeOK, DagInv, [PipelineNext]_vars PROVE DagInv' /\ NoneDropped
  OBVIOUS
<1>1. CASE UNCHANGED vars
  BY <1>1, ClusterQuiet DEF vars, clusterVars
<1>2. CASE ClusterStep
  BY <1>2, ClusterQuiet DEF ClusterStep, Predict
<1>3. ASSUME NEW g \in DagIds, DagStep(g) PROVE DagInv' /\ NoneDropped
  <2>1. CASE Operator(g)
    <3>1. Clear(g, TRUE) \/ Clear(g, FALSE)
      BY <2>1, DagAssumption DEF Operator
    <3>. QED
      BY <3>1, StartStep, TaskStep
  <2>2. CASE \E d \in Days : StartRun(g, d)
    BY <2>2, StartStep
  <2>3. CASE Prologue(g)
    BY <2>3, TaskStep, ReuseStep, SubmitStep DEF Prologue
  <2>4. CASE Sensor(g)
    BY <2>4, TaskStep, PollCompletedStep DEF Sensor
  <2>5. CASE Epilogue(g) \/ TaskFails(g)
    BY <2>5, TaskStep
  <2>. QED
    BY <1>3, <2>1, <2>2, <2>3, <2>4, <2>5 DEF DagStep
<1>. QED
  BY <1>1, <1>2, <1>3 DEF PipelineNext

LEMMA DagInvStarts == PipelineInit => DagInv
<1> SUFFICES ASSUME PipelineInit PROVE DagInv
  OBVIOUS
<1>1. \A g \in DagIds : FirstTask(g) \in Tasks
  BY DEF FirstTask, Tasks
<1>2. DagTypeOK
  BY <1>1 DEF PipelineInit, DagTypeOK, RunRecords, JidRecords
<1>3. RunKnowsItsJob /\ RecordIsHonest
  BY DEF PipelineInit, RunKnowsItsJob, HasJob, RecordIsHonest
<1>. QED
  BY <1>2, <1>3 DEF DagInv

LEMMA DagInvHolds == PipelineSpec => []DagInv
<1>. QED
  BY DagInvStarts, DagStepKeeps, PipelineRefinesCluster, TypeCorrect, PTL DEF PipelineSpec
----------------------------------------------------------------------------
(* The store.                                                              *)

LEMMA StoreStep ==
  ASSUME TypeOK, DagInv, StoreTypeOK, [PipelineNext]_vars
  PROVE  StoreTypeOK'
<1> USE DEF StoreTypeOK
<1>1. CASE UNCHANGED storeVars
  BY <1>1 DEF storeVars
<1>2. ASSUME NEW g \in DagIds, Epilogue(g), ~UNCHANGED storeVars PROVE StoreTypeOK'
  <2>1. Day(g) \in Days /\ Day(g) \in Dirs /\ Job(g) \in Jobs \cup {Nothing}
    BY <1>2, DagAssumption
    DEF Epilogue, Validate, PullModels, PullRest, PromoteBase, PromoteEod, PromoteSim, Cleanup,
        GenerateBasePredictions, ReloadBackend, At, Active, Day, Job, DagInv, DagTypeOK, RunRecords
  <2>2. CASE PullModels(g)
    BY <2>1, <2>2 DEF PullModels, PulledHead, EmptyDir, TypeOK
  <2>3. CASE PullRest(g)
    BY <2>1, <2>3 DEF PullRest, PulledRest, TypeOK
  <2>4. CASE PromoteBase(g) \/ PromoteEod(g) \/ PromoteSim(g)
    BY <2>1, <2>4 DEF PromoteBase, PromoteEod, PromoteSim, Links
  <2>5. CASE Cleanup(g)
    BY <2>5 DEF Cleanup, EmptyDir
  <2>. QED
    BY <1>2, <2>2, <2>3, <2>4, <2>5
    DEF Epilogue, Validate, GenerateBasePredictions, ReloadBackend
<1>3. UNCHANGED storeVars \/ \E g \in DagIds : Epilogue(g)
  BY DEF PipelineNext, ClusterStep, DagStep, Prologue, Sensor, Operator, vars, StartRun, Clear,
         TaskFails, ShipBaseModel, CheckQueue, WipeRunRoot, ReuseJob, SubmitJob, SubmitLost,
         PollCompleted, PollFailed, PollTimeout
<1>. QED
  BY <1>1, <1>2, <1>3

LEMMA StoreHolds == PipelineSpec => []StoreTypeOK
<1>1. PipelineInit => StoreTypeOK
  BY DEF PipelineInit, StoreInit, StoreTypeOK, EmptyDir
<1>2. TypeOK /\ DagInv /\ StoreTypeOK /\ [PipelineNext]_vars => StoreTypeOK'
  BY StoreStep
<1>. QED
  BY <1>1, <1>2, DagInvHolds, PipelineRefinesCluster, TypeCorrect, PTL DEF PipelineSpec
----------------------------------------------------------------------------
(* What the records are good for.                                          *)

\* Every variable of the pipeline keeps its type.
THEOREM PipelineTypeCorrect == PipelineSpec => []PipelineTypeOK
<1>1. TypeOK /\ StoreTypeOK /\ DagInv => PipelineTypeOK
  BY DEF DagInv, DagTypeOK, RunRecords, JidRecords, PipelineTypeOK
<1>. QED
  BY <1>1, DagInvHolds, StoreHolds, PipelineRefinesCluster, TypeCorrect, PTL

\* nibi_job_<ds>.json says "completed" only of a job that Slurm completed.
THEOREM RecordTheorem == PipelineSpec => []RecordIsHonest
<1>1. DagInv => RecordIsHonest
  BY DEF DagInv
<1>. QED
  BY <1>1, DagInvHolds, PTL

\* task_submit_job never drops the record of a job that is queued or running.
THEOREM ForgottenTheorem == PipelineSpec => []NoForgottenJob
<1>1. PipelineInit => NoForgottenJob
  BY DEF PipelineInit, Init, NoForgottenJob, InFlight
<1>2. TypeOK /\ DagInv /\ NoForgottenJob /\ [PipelineNext]_vars => NoForgottenJob'
  BY DagStepKeeps DEF NoForgottenJob, NoneDropped, Recorded
<1>. QED
  BY <1>1, <1>2, DagInvHolds, PipelineRefinesCluster, TypeCorrect, PTL DEF PipelineSpec
============================================================================
