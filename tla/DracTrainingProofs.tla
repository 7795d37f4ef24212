-------------------------- MODULE DracTrainingProofs --------------------------
(***************************************************************************)
(* What a training may believe of its files.  A green run of the DRAC      *)
(* training vouches for its artifacts, for any number of days, jobs,       *)
(* retries and cleared runs; and the jobs of ClusterInputs read one whole  *)
(* snapshot and one code, for any days, kills and versions and however     *)
(* many of the five flows are under way.                                   *)
(***************************************************************************)
EXTENDS DracTraining, ClusterInputs, FiniteSetTheorems, WellFoundedInduction, TLAPS

\* A job has a date from its start on, and never before.
Dated == \A j \in DracJobs :
           /\ dracJobs[j].state \in {"none", "pending"} =>
                dracJobs[j].date = 0 /\ dracJobs[j].at = 0
           /\ dracJobs[j].state = "running" => dracJobs[j].date # 0

\* What lies under a date was made by a job of that date.
Sourced ==
  \A d \in DracDays :
    /\ scratch[d] # 0 => dracJobs[scratch[d]].date = d
    /\ \A f \in Artifacts : registry[d][f] # 0 => dracJobs[registry[d][f]].date = d

\* A running job has left behind what its script is past.
Progress ==
  \A j \in DracJobs : dracJobs[j].state = "running" =>
    /\ dracJobs[j].at >= 1 => scratch[dracJobs[j].date] # 0
    /\ dracJobs[j].at >= 2 => registry[dracJobs[j].date]["encoder"] # 0
    /\ dracJobs[j].at >= 3 => registry[dracJobs[j].date]["metrics"] # 0
    /\ dracJobs[j].at >= 4 => registry[dracJobs[j].date]["model"] # 0

Whole(d) == \A f \in Artifacts : registry[d][f] # 0

\* The link leads to a whole directory, and is about to.
Linked == /\ latestLink # 0 => Whole(latestLink)
          /\ \A d \in DracDays : dracRuns[d].task = "relink" => Whole(d)

\* A run that is to read its id will read its own, or has been crossed.
Polls ==
  \A d \in DracDays : LET r == dracRuns[d] IN
    /\ r.task \in {"poll", "wait"} => lastId = r.own \/ r.crossed
    /\ r.task \in {"wait", "verify", "relink", "green"} => r.polled = r.own \/ r.crossed

\* The files a run verified are of its date.
Found ==
  \A d \in DracDays : dracRuns[d].task \in {"relink", "green"} =>
    \A f \in Artifacts : /\ dracRuns[d].found[f] # 0
                         /\ dracJobs[dracRuns[d].found[f]].date = d

\* A failed task is at its start again.
Waiting == \A d \in DracDays :
             dracRuns[d].failed => dracRuns[d].task \in {"submit", "poll", "verify"}

DracInd == DracTypeOK /\ Waiting /\ Dated /\ Sourced /\ Progress /\ Linked /\ Polls /\ Found

LEMMA DracInitially == DracInit => DracInd
<1> SUFFICES ASSUME DracInit PROVE DracInd
  OBVIOUS
<1> USE DracAssumption DEF DracInit
<1>1. DracTypeOK
  BY DEF DracTypeOK, DracRunRecords, DracJobRecords, DracDays, Absent
<1>2. Dated /\ Progress
  BY DEF Dated, Progress
<1>3. Sourced /\ Linked
  BY DEF Sourced, Linked, Absent
<1>4. Polls /\ Found /\ Waiting
  BY DEF Polls, Found, Waiting
<1> QED BY <1>1, <1>2, <1>3, <1>4 DEF DracInd

\* Replacing fields of a record by values of their kinds.
LEMMA RunFields ==
  ASSUME NEW r \in DracRunRecords,
         NEW task \in {"submit", "echo", "poll", "wait", "verify", "relink", "green"}
  PROVE  /\ [r EXCEPT !.task = task] \in DracRunRecords
         /\ \A b \in BOOLEAN : [r EXCEPT !.crossed = b] \in DracRunRecords
         /\ \A b \in BOOLEAN : [r EXCEPT !.failed = b] \in DracRunRecords
         /\ \A j \in 0 .. MaxDracJobs : [r EXCEPT !.own = j] \in DracRunRecords
         /\ \A j \in 0 .. MaxDracJobs : [r EXCEPT !.polled = j] \in DracRunRecords
         /\ \A g \in [Artifacts -> 0 .. MaxDracJobs] :
              [r EXCEPT !.found = g] \in DracRunRecords
BY DEF DracRunRecords

LEMMA JobFields ==
  ASSUME NEW r \in DracJobRecords
  PROVE  /\ \A x \in {"pending", "running", "completed", "failed"} :
              [r EXCEPT !.state = x] \in DracJobRecords
         /\ \A d \in 0 .. NumDays : [r EXCEPT !.date = d] \in DracJobRecords
         /\ \A n \in 0 .. 5 : [r EXCEPT !.at = n] \in DracJobRecords
BY DEF DracJobRecords

LEMMA JobEndFields ==
  ASSUME NEW r \in DracJobRecords, NEW x \in {"completed", "failed"}
  PROVE  [r EXCEPT !.state = x, !.at = 0] \in DracJobRecords
<1>1. [r EXCEPT !.state = x] \in DracJobRecords
  BY JobFields
<1>2. 0 \in 0 .. 5
  OBVIOUS
<1> QED BY <1>1, <1>2, JobFields

LEMMA FailedType ==
  ASSUME NEW d \in DracDays, dracRuns[d] \in DracRunRecords,
         dracRuns[d].task \notin {"none", "green"}
  PROVE  /\ Failed(d) \in DracRunRecords
         /\ Failed(d).failed = TRUE
         /\ Failed(d).task \in {"submit", "poll", "verify"}
<1> DEFINE r == dracRuns[d]
<1>0. 0 \in 0 .. MaxDracJobs /\ Absent \in [Artifacts -> 0 .. MaxDracJobs]
  BY DracAssumption DEF Absent
<1>1. CASE r.task \in {"submit", "echo"}
  <2>1. Failed(d) = [r EXCEPT !.task = "submit", !.failed = TRUE, !.own = 0]
    BY <1>1 DEF Failed
  <2>2. Failed(d) \in DracRunRecords
    BY <1>0, <2>1 DEF DracRunRecords
  <2> QED BY <2>1, <2>2 DEF DracRunRecords
<1>2. CASE r.task \in {"poll", "wait"}
  <2>1. Failed(d) = [r EXCEPT !.task = "poll", !.failed = TRUE, !.polled = 0]
    BY <1>2 DEF Failed
  <2>2. Failed(d) \in DracRunRecords
    BY <1>0, <2>1 DEF DracRunRecords
  <2> QED BY <2>1, <2>2 DEF DracRunRecords
<1>3. CASE r.task \in {"verify", "relink"}
  <2>1. Failed(d) = [r EXCEPT !.task = "verify", !.failed = TRUE, !.found = Absent]
    BY <1>3 DEF Failed
  <2>2. Failed(d) \in DracRunRecords
    BY <1>0, <2>1 DEF DracRunRecords
  <2> QED BY <2>1, <2>2 DEF DracRunRecords
<1> QED BY <1>1, <1>2, <1>3 DEF DracRunRecords

LEMMA RunBecomesType ==
  ASSUME DracTypeOK, NEW d \in DracDays, NEW r \in DracRunRecords, RunBecomes(d, r)
  PROVE  /\ dracRuns' \in [DracDays -> DracRunRecords] /\ dracRuns'[d] = r
         /\ \A e \in DracDays \ {d} : dracRuns'[e] = dracRuns[e]
BY DEF DracTypeOK, RunBecomes

LEMMA JobBecomesType ==
  ASSUME DracTypeOK, NEW j \in DracJobs, NEW r \in DracJobRecords, JobBecomes(j, r)
  PROVE  /\ dracJobs' \in [DracJobs -> DracJobRecords] /\ dracJobs'[j] = r
         /\ \A k \in DracJobs \ {j} : dracJobs'[k] = dracJobs[k]
BY DEF DracTypeOK, JobBecomes

LEMMA WrittenType ==
  ASSUME DracTypeOK, NEW d \in DracDays, NEW r \in DracRunRecords
  PROVE  /\ Written(d, r) \in [DracDays -> DracRunRecords] /\ Written(d, r)[d] = r
         /\ \A e \in DracDays \ {d} :
              Written(d, r)[e] = [dracRuns[e] EXCEPT !.crossed =
                                    @ \/ dracRuns[e].task \in {"poll", "wait"}]
<1>1. \A e \in DracDays : dracRuns[e] \in DracRunRecords /\ dracRuns[e].crossed \in BOOLEAN
  BY DEF DracTypeOK, DracRunRecords
<1>2. \A e \in DracDays : [dracRuns[e] EXCEPT !.crossed =
          @ \/ dracRuns[e].task \in {"poll", "wait"}] \in DracRunRecords
  BY <1>1, RunFields
<1> QED BY <1>2 DEF Written

\* What each action of a run makes of its record and of the others'.
LEMMA RunSteps ==
  ASSUME DracTypeOK, NEW d \in DracDays,
         \/ DracSbatch(d) \/ WriteId(d) \/ ReadId(d) \/ JobDone(d)
         \/ Verify(d) \/ Relink(d) \/ TaskFails(d) \/ Again(d)
  PROVE  dracRuns' \in [DracDays -> DracRunRecords]
<1>0. /\ dracRuns[d] \in DracRunRecords /\ lastId \in 0 .. MaxDracJobs
      /\ registry[d] \in [Artifacts -> 0 .. MaxDracJobs]
      /\ Absent \in [Artifacts -> 0 .. MaxDracJobs]
  BY DracAssumption DEF DracTypeOK, Absent
<1>1. CASE DracSbatch(d)
  <2>1. PICK j \in 0 .. MaxDracJobs :
          RunBecomes(d, [dracRuns[d] EXCEPT !.task = "echo", !.own = j])
    BY <1>1 DEF DracSbatch
  <2>2. [dracRuns[d] EXCEPT !.task = "echo", !.own = j] \in DracRunRecords
    BY <1>0, RunFields
  <2> QED BY <2>1, <2>2, RunBecomesType
<1>2. CASE WriteId(d)
  <2>1. [dracRuns[d] EXCEPT !.task = "poll", !.crossed = FALSE] \in DracRunRecords
    BY <1>0, RunFields
  <2> QED BY <1>2, <2>1, WrittenType DEF WriteId
<1>3. CASE ReadId(d)
  <2>1. [dracRuns[d] EXCEPT !.task = "wait", !.polled = lastId] \in DracRunRecords
    BY <1>0, RunFields
  <2> QED BY <1>3, <2>1, RunBecomesType DEF ReadId
<1>4. CASE JobDone(d)
  <2>1. [dracRuns[d] EXCEPT !.task = "verify"] \in DracRunRecords
    BY <1>0, RunFields
  <2> QED BY <1>4, <2>1, RunBecomesType DEF JobDone
<1>5. CASE Verify(d)
  <2>1. [dracRuns[d] EXCEPT !.task = "relink", !.found = registry[d]] \in DracRunRecords
    BY <1>0, RunFields
  <2> QED BY <1>5, <2>1, RunBecomesType DEF Verify
<1>6. CASE Relink(d)
  <2>1. [dracRuns[d] EXCEPT !.task = "green"] \in DracRunRecords
    BY <1>0, RunFields
  <2>2. dracRuns[d].task \notin {"none", "green"}
    BY <1>6 DEF Relink, DracAt
  <2>3. Failed(d) \in DracRunRecords
    BY <1>0, <2>2, FailedType
  <2> QED BY <1>6, <2>1, <2>3, RunBecomesType DEF Relink
<1>7. CASE TaskFails(d)
  <2>1. Failed(d) \in DracRunRecords
    BY <1>0, <1>7, FailedType DEF TaskFails
  <2> QED BY <1>7, <2>1, RunBecomesType, WrittenType DEF TaskFails
<1>8. CASE Again(d)
  <2>1. PICK task \in {"submit", dracRuns[d].task} \ {"green"} :
          RunBecomes(d, [dracRuns[d] EXCEPT !.task = task, !.failed = FALSE,
                                            !.found = Absent])
    BY <1>8 DEF Again
  <2>2. [dracRuns[d] EXCEPT !.task = task, !.failed = FALSE, !.found = Absent]
          \in DracRunRecords
    BY <1>0, <2>1 DEF DracRunRecords
  <2> QED BY <2>1, <2>2, RunBecomesType
<1> QED BY <1>1, <1>2, <1>3, <1>4, <1>5, <1>6, <1>7, <1>8

\* What each action of a job makes of the jobs and their files.
LEMMA JobSteps ==
  ASSUME DracTypeOK, Dated, NEW j \in DracJobs,
         JobStarts(j) \/ SaveModel(j) \/ CopyFile(j) \/ PointLatest(j) \/ JobEnds(j)
  PROVE  /\ dracJobs' \in [DracJobs -> DracJobRecords]
         /\ scratch' \in [DracDays -> 0 .. MaxDracJobs]
         /\ registry' \in [DracDays -> [Artifacts -> 0 .. MaxDracJobs]]
         /\ latestLink' \in 0 .. NumDays
<1>0. /\ dracJobs[j] \in DracJobRecords /\ clusterDay \in 0 .. NumDays
      /\ dracJobs[j].state = "running" => dracJobs[j].date \in DracDays
  BY DracAssumption DEF DracTypeOK, Dated, DracJobRecords, DracDays
<1>1. CASE JobStarts(j)
  <2>1. [dracJobs[j] EXCEPT !.state = "running", !.date = clusterDay] \in DracJobRecords
    BY <1>0, JobFields
  <2> QED BY <1>1, <2>1, JobBecomesType DEF JobStarts, DracTypeOK
<1>2. ASSUME Running(j, 0, 4) PROVE [dracJobs[j] EXCEPT !.at = @ + 1] \in DracJobRecords
  BY <1>0, <1>2 DEF DracJobRecords, Running
<1>3. CASE SaveModel(j)
  <2>1. Running(j, 0, 4) /\ dracJobs[j].date \in DracDays /\ j \in 0 .. MaxDracJobs
    BY <1>0, <1>3 DEF SaveModel, Running, DracJobs
  <2>2. dracJobs' \in [DracJobs -> DracJobRecords]
    BY <1>2, <1>3, <2>1, JobBecomesType DEF SaveModel, Advances
  <2> QED BY <1>3, <2>1, <2>2 DEF SaveModel, DracTypeOK
<1>4. CASE CopyFile(j)
  <2>1. /\ Running(j, 0, 4) /\ dracJobs[j].date \in DracDays
        /\ Copied[dracJobs[j].at] \in Artifacts
    BY <1>0, <1>4 DEF CopyFile, Running, Copied, Artifacts
  <2>2. dracJobs' \in [DracJobs -> DracJobRecords]
    BY <1>2, <1>4, <2>1, JobBecomesType DEF CopyFile, Advances
  <2>3. registry' = [registry EXCEPT ![dracJobs[j].date] =
          [registry[dracJobs[j].date] EXCEPT
             ![Copied[dracJobs[j].at]] = scratch[dracJobs[j].date]]]
    BY <1>4 DEF CopyFile, SyncDate
  <2>4. [registry[dracJobs[j].date] EXCEPT
           ![Copied[dracJobs[j].at]] = scratch[dracJobs[j].date]]
             \in [Artifacts -> 0 .. MaxDracJobs]
    BY <2>1 DEF DracTypeOK
  <2>5. registry' \in [DracDays -> [Artifacts -> 0 .. MaxDracJobs]]
    BY <2>1, <2>3, <2>4 DEF DracTypeOK
  <2> QED BY <1>4, <2>2, <2>5 DEF CopyFile, DracTypeOK
<1>5. CASE PointLatest(j)
  <2>1. Running(j, 0, 4) /\ dracJobs[j].date \in 0 .. NumDays
    BY <1>0, <1>5 DEF PointLatest, Running, DracJobRecords
  <2>2. dracJobs' \in [DracJobs -> DracJobRecords]
    BY <1>2, <1>5, <2>1, JobBecomesType DEF PointLatest, Advances
  <2> QED BY <1>5, <2>1, <2>2 DEF PointLatest, SyncDate, DracTypeOK
<1>6. CASE JobEnds(j)
  <2>1. PICK s \in {"failed", "completed"} :
          JobBecomes(j, [dracJobs[j] EXCEPT !.state = s, !.at = 0])
    BY <1>6 DEF JobEnds
  <2>2. [dracJobs[j] EXCEPT !.state = s, !.at = 0] \in DracJobRecords
    BY <1>0, JobEndFields
  <2> QED BY <1>6, <2>1, <2>2, JobBecomesType DEF JobEnds, DracTypeOK
<1> QED BY <1>1, <1>3, <1>4, <1>5, <1>6

\* sbatch brings a job into the queue, the other tasks leave the jobs alone.
LEMMA RunLeavesJobs ==
  ASSUME DracTypeOK, NEW d \in DracDays,
         \/ DracSbatch(d) \/ WriteId(d) \/ ReadId(d) \/ JobDone(d)
         \/ Verify(d) \/ Relink(d) \/ TaskFails(d) \/ Again(d)
  PROVE  /\ UNCHANGED <<clusterDay, due, scratch, registry>>
         /\ dracJobs' \in [DracJobs -> DracJobRecords]
         /\ \A j \in DracJobs :
              \/ dracJobs'[j] = dracJobs[j]
              \/ /\ dracJobs[j].state = "none" /\ dracJobs'[j].state = "pending"
                 /\ dracJobs'[j].date = dracJobs[j].date
                 /\ dracJobs'[j].at = dracJobs[j].at
<1>1. CASE DracSbatch(d)
  <2>1. PICK j \in 0 .. MaxDracJobs :
          IF j = 0 THEN UNCHANGED dracJobs
          ELSE /\ dracJobs[j].state = "none"
               /\ JobBecomes(j, [dracJobs[j] EXCEPT !.state = "pending"])
    BY <1>1 DEF DracSbatch
  <2>2. CASE j = 0
    BY <1>1, <2>1, <2>2 DEF DracTypeOK, DracSbatch
  <2>3. CASE j # 0
    <3>1. j \in DracJobs /\ dracJobs[j] \in DracJobRecords
      BY <2>3 DEF DracJobs, DracTypeOK
    <3>2. [dracJobs[j] EXCEPT !.state = "pending"] \in DracJobRecords
      BY <3>1 DEF DracJobRecords
    <3>3. /\ [dracJobs[j] EXCEPT !.state = "pending"].state = "pending"
          /\ [dracJobs[j] EXCEPT !.state = "pending"].date = dracJobs[j].date
          /\ [dracJobs[j] EXCEPT !.state = "pending"].at = dracJobs[j].at
      BY <3>1 DEF DracJobRecords
    <3>4. /\ dracJobs' \in [DracJobs -> DracJobRecords]
          /\ dracJobs'[j] = [dracJobs[j] EXCEPT !.state = "pending"]
          /\ \A k \in DracJobs \ {j} : dracJobs'[k] = dracJobs[k]
      BY <2>1, <2>3, <3>1, <3>2, JobBecomesType
    <3>5. UNCHANGED <<clusterDay, due, scratch, registry>>
      BY <1>1 DEF DracSbatch
    <3> QED BY <2>1, <2>3, <3>3, <3>4, <3>5
  <2> QED BY <2>2, <2>3
<1>2. CASE ~DracSbatch(d)
  <2>1. UNCHANGED <<clusterDay, due, dracJobVars>>
    BY <1>2 DEF WriteId, ReadId, JobDone, Verify, Relink, TaskFails, Again
  <2> QED BY <2>1 DEF dracJobVars, DracTypeOK
<1> QED BY <1>1, <1>2

\* The types hold in every step.
LEMMA DracTypes == DracTypeOK /\ Dated /\ [DracNext]_dracVars => DracTypeOK'
<1> SUFFICES ASSUME DracTypeOK, Dated, [DracNext]_dracVars PROVE DracTypeOK'
  OBVIOUS
<1>1. CASE CrossMidnight
  BY <1>1, DracAssumption
  DEF CrossMidnight, DracTypeOK, DracDays, dagVars, dracJobVars
<1>2. CASE Due
  <2>1. due + 1 \in DracDays /\ dracRuns[due + 1] \in DracRunRecords
    BY <1>2, DracAssumption DEF Due, DracTypeOK, DracDays
  <2>2. [dracRuns[due + 1] EXCEPT !.task = "submit"] \in DracRunRecords
    BY <2>1, RunFields
  <2>3. dracRuns' \in [DracDays -> DracRunRecords]
    BY <1>2, <2>1, <2>2, RunBecomesType DEF Due
  <2> QED BY <1>2, <2>1, <2>3 DEF Due, DracTypeOK, DracDays, dracJobVars
<1>3. ASSUME NEW d \in DracDays,
             \/ DracSbatch(d) \/ WriteId(d) \/ ReadId(d) \/ JobDone(d)
             \/ Verify(d) \/ Relink(d) \/ TaskFails(d) \/ Again(d)
      PROVE  DracTypeOK'
  <2>1. dracRuns' \in [DracDays -> DracRunRecords]
    BY <1>3, RunSteps
  <2>2. /\ UNCHANGED <<clusterDay, due, scratch, registry>>
        /\ dracJobs' \in [DracJobs -> DracJobRecords]
    BY <1>3, RunLeavesJobs
  <2>3. lastId' \in 0 .. MaxDracJobs
    <3>1. dracRuns[d].own \in 0 .. MaxDracJobs
      BY DEF DracTypeOK, DracRunRecords
    <3> QED BY <1>3, <3>1 DEF DracTypeOK, DracSbatch, WriteId, ReadId, JobDone, Verify,
                              Relink, TaskFails, Again
  <2>4. dracAgain' \in 0 .. MaxAgain
    <3>1. \/ dracAgain' = dracAgain
          \/ dracAgain < MaxAgain /\ dracAgain' = dracAgain + 1
      BY <1>3 DEF DracSbatch, WriteId, ReadId, JobDone, Verify, Relink, TaskFails, Again
    <3> QED BY <3>1, DracAssumption DEF DracTypeOK
  <2>5. latestLink' \in 0 .. NumDays
    <3>1. {0, d} \subseteq 0 .. NumDays
      BY DracAssumption DEF DracDays
    <3> QED BY <1>3, <3>1 DEF DracTypeOK, DracSbatch, WriteId, ReadId, JobDone, Verify,
                              Relink, TaskFails, Again
  <2> QED BY <2>1, <2>2, <2>3, <2>4, <2>5 DEF DracTypeOK
<1>4. ASSUME NEW j \in DracJobs,
             JobStarts(j) \/ SaveModel(j) \/ CopyFile(j) \/ PointLatest(j) \/ JobEnds(j)
      PROVE  DracTypeOK'
  <2>1. UNCHANGED <<clusterDay, due, dracRuns, lastId, dracAgain>>
    BY <1>4 DEF JobStarts, SaveModel, CopyFile, PointLatest, JobEnds, dagVars
  <2> QED BY <1>4, <2>1, JobSteps DEF DracTypeOK
<1>5. CASE UNCHANGED dracVars
  BY <1>5 DEF DracTypeOK, dracVars, dagVars, dracJobVars
<1> QED BY <1>1, <1>2, <1>3, <1>4, <1>5 DEF DracNext

-----------------------------------------------------------------------------
\* A job action moves one job on; no action takes a date back.
Moved(j) ==
  /\ \A k \in DracJobs \ {j} : dracJobs'[k] = dracJobs[k]
  /\ \/ /\ dracJobs[j].state = "pending" /\ dracJobs'[j].state = "running"
        /\ dracJobs'[j].date = clusterDay /\ dracJobs'[j].at = dracJobs[j].at
     \/ /\ dracJobs[j].state = "running" /\ dracJobs'[j].state = "running"
        /\ dracJobs'[j].date = dracJobs[j].date /\ dracJobs'[j].at = dracJobs[j].at + 1
     \/ /\ dracJobs'[j].state \in {"failed", "completed"}
        /\ dracJobs'[j].date = dracJobs[j].date

LEMMA JobMoves ==
  ASSUME DracTypeOK, NEW j \in DracJobs,
         JobStarts(j) \/ SaveModel(j) \/ CopyFile(j) \/ PointLatest(j) \/ JobEnds(j)
  PROVE  Moved(j)
<1>0. dracJobs[j] \in DracJobRecords
  BY DEF DracTypeOK
<1>1. CASE JobStarts(j)
  <2>1. dracJobs[j].state = "pending" /\ dracJobs' = [dracJobs EXCEPT ![j] =
          [dracJobs[j] EXCEPT !.state = "running", !.date = clusterDay]]
    BY <1>1 DEF JobStarts, JobBecomes
  <2> QED BY <1>0, <2>1 DEF Moved, DracTypeOK, DracJobRecords
<1>2. CASE SaveModel(j) \/ CopyFile(j) \/ PointLatest(j)
  <2>1. dracJobs[j].state = "running" /\ dracJobs' = [dracJobs EXCEPT ![j] =
          [dracJobs[j] EXCEPT !.at = dracJobs[j].at + 1]]
    BY <1>2 DEF SaveModel, CopyFile, PointLatest, Running, Advances, JobBecomes
  <2> QED BY <1>0, <2>1 DEF Moved, DracTypeOK, DracJobRecords
<1>3. CASE JobEnds(j)
  <2>1. PICK s \in {"failed", "completed"} : dracJobs' = [dracJobs EXCEPT ![j] =
          [dracJobs[j] EXCEPT !.state = s, !.at = 0]]
    BY <1>3 DEF JobEnds, JobBecomes
  <2> QED BY <1>0, <2>1 DEF Moved, DracTypeOK, DracJobRecords
<1> QED BY <1>1, <1>2, <1>3

DatesStay == \A j \in DracJobs :
               dracJobs[j].date # 0 => dracJobs'[j].date = dracJobs[j].date

LEMMA DatedStays ==
  ASSUME DracTypeOK, Dated, [DracNext]_dracVars
  PROVE  Dated' /\ DatesStay
<1>1. CASE UNCHANGED dracJobs
  BY <1>1 DEF Dated, DatesStay
<1>2. ASSUME NEW d \in DracDays,
             \/ DracSbatch(d) \/ WriteId(d) \/ ReadId(d) \/ JobDone(d)
             \/ Verify(d) \/ Relink(d) \/ TaskFails(d) \/ Again(d)
      PROVE  Dated' /\ DatesStay
  BY <1>2, RunLeavesJobs DEF Dated, DatesStay
<1>3. ASSUME NEW j \in DracJobs,
             JobStarts(j) \/ SaveModel(j) \/ CopyFile(j) \/ PointLatest(j) \/ JobEnds(j)
      PROVE  Dated' /\ DatesStay
  <2>1. Moved(j)
    BY <1>3, JobMoves
  <2>2. clusterDay # 0
    BY DracAssumption DEF DracTypeOK, DracDays
  <2>3. ASSUME NEW k \in DracJobs
        PROVE  /\ dracJobs'[k].state \in {"none", "pending"} =>
                    dracJobs'[k].date = 0 /\ dracJobs'[k].at = 0
               /\ dracJobs'[k].state = "running" => dracJobs'[k].date # 0
               /\ dracJobs[k].date # 0 => dracJobs'[k].date = dracJobs[k].date
    BY <2>1, <2>2 DEF Moved, Dated
  <2> QED BY <2>3 DEF Dated, DatesStay
<1> QED BY <1>1, <1>2, <1>3
        DEF DracNext, CrossMidnight, Due, dracVars, dracJobVars, dagVars

\* Files are replaced, never removed, and by those of a job of the date.
FilesStay ==
  \A d \in DracDays :
    /\ scratch[d] # 0 => scratch'[d] # 0
    /\ \A f \in Artifacts : registry[d][f] # 0 => registry'[d][f] # 0

LEMMA SourcedStays ==
  ASSUME DracTypeOK, Dated, Sourced, Progress, [DracNext]_dracVars
  PROVE  Sourced' /\ FilesStay
<1>0. /\ DatesStay
      /\ scratch \in [DracDays -> 0 .. MaxDracJobs]
      /\ registry \in [DracDays -> [Artifacts -> 0 .. MaxDracJobs]]
      /\ \A n \in 0 .. MaxDracJobs : n # 0 => n \in DracJobs
      /\ \A d \in DracDays : d # 0
  BY DatedStays, DracAssumption DEF DracTypeOK, DracJobs, DracDays
<1>1. CASE UNCHANGED <<scratch, registry>>
  <2>1. ASSUME NEW d \in DracDays
        PROVE  /\ scratch[d] # 0 => dracJobs'[scratch[d]].date = d
               /\ \A f \in Artifacts :
                    registry[d][f] # 0 => dracJobs'[registry[d][f]].date = d
    BY <1>0 DEF Sourced, DatesStay
  <2> QED BY <1>1, <2>1 DEF Sourced, FilesStay
<1>2. ASSUME NEW j \in DracJobs, SaveModel(j) PROVE Sourced' /\ FilesStay
  <2>1. /\ dracJobs[j].date \in DracDays /\ j # 0
        /\ scratch' = [scratch EXCEPT ![dracJobs[j].date] = j]
        /\ registry' = registry
    BY <1>2 DEF SaveModel, Running, Dated, DracTypeOK, DracJobRecords, DracDays, DracJobs
  <2>2. ASSUME NEW d \in DracDays
        PROVE  /\ scratch'[d] # 0 => dracJobs'[scratch'[d]].date = d
               /\ scratch[d] # 0 => scratch'[d] # 0
               /\ \A f \in Artifacts :
                    registry[d][f] # 0 => dracJobs'[registry[d][f]].date = d
    BY <1>0, <2>1 DEF Sourced, DatesStay
  <2> QED BY <2>1, <2>2 DEF Sourced, FilesStay
<1>3. ASSUME NEW j \in DracJobs, CopyFile(j) PROVE Sourced' /\ FilesStay
  <2> DEFINE D == dracJobs[j].date
             F == Copied[dracJobs[j].at]
  <2>1. /\ D \in DracDays /\ F \in Artifacts /\ scratch' = scratch /\ scratch[D] # 0
        /\ registry' = [registry EXCEPT ![D] = [registry[D] EXCEPT ![F] = scratch[D]]]
    BY <1>3 DEF CopyFile, SyncDate, Running, Copied, Artifacts, Dated, Progress,
                DracTypeOK, DracJobRecords, DracDays
  <2>2. ASSUME NEW d \in DracDays
        PROVE  /\ scratch[d] # 0 => dracJobs'[scratch[d]].date = d
               /\ \A f \in Artifacts :
                    /\ registry'[d][f] # 0 => dracJobs'[registry'[d][f]].date = d
                    /\ registry[d][f] # 0 => registry'[d][f] # 0
    <3>1. scratch[d] # 0 => dracJobs'[scratch[d]].date = d
      BY <1>0 DEF Sourced, DatesStay
    <3>2. ASSUME NEW f \in Artifacts
          PROVE  /\ registry'[d][f] # 0 => dracJobs'[registry'[d][f]].date = d
                 /\ registry[d][f] # 0 => registry'[d][f] # 0
      <4>1. registry'[d][f] = IF d = D /\ f = F THEN scratch[D] ELSE registry[d][f]
        BY <1>0, <2>1
      <4>2. registry[d][f] # 0 => dracJobs'[registry[d][f]].date = d
        BY <1>0 DEF Sourced, DatesStay
      <4> QED BY <2>1, <3>1, <4>1, <4>2
    <3> QED BY <3>1, <3>2
  <2> QED BY <2>1, <2>2 DEF Sourced, FilesStay
<1>4. ASSUME NEW d \in DracDays,
             \/ DracSbatch(d) \/ WriteId(d) \/ ReadId(d) \/ JobDone(d)
             \/ Verify(d) \/ Relink(d) \/ TaskFails(d) \/ Again(d)
      PROVE  UNCHANGED <<scratch, registry>>
  BY <1>4, RunLeavesJobs
<1> QED BY <1>1, <1>2, <1>3, <1>4
        DEF DracNext, CrossMidnight, Due, JobStarts, PointLatest, JobEnds, dracVars,
            dracJobVars, dagVars

-----------------------------------------------------------------------------
\* A step of d's run, as far as the other runs and its own record go.
OthersStay(d) ==
  \A e \in DracDays \ {d} :
    /\ dracRuns'[e].task = dracRuns[e].task /\ dracRuns'[e].own = dracRuns[e].own
    /\ dracRuns'[e].polled = dracRuns[e].polled /\ dracRuns'[e].found = dracRuns[e].found
    /\ dracRuns'[e].failed = dracRuns[e].failed
    /\ dracRuns[e].crossed => dracRuns'[e].crossed

OthersCrossed(d) ==
  \A e \in DracDays \ {d} : dracRuns[e].task \in {"poll", "wait"} => dracRuns'[e].crossed

SameIds(d) == /\ dracRuns'[d].own = dracRuns[d].own
              /\ dracRuns'[d].crossed = dracRuns[d].crossed

RunStep(d) ==
  /\ OthersStay(d)
  /\ lastId' = lastId \/ OthersCrossed(d)
  /\ dracRuns'[d].failed => dracRuns'[d].task \in {"submit", "poll", "verify"}
  /\ \/ dracRuns'[d].task \in {"submit", "echo"}
     \/ dracRuns'[d].task = "poll" /\ lastId' = dracRuns'[d].own
     \/ /\ dracRuns[d].task \in {"poll", "wait"} /\ dracRuns'[d].task \in {"poll", "wait"}
        /\ SameIds(d) /\ lastId' = lastId
        /\ dracRuns'[d].task = "wait" => dracRuns'[d].polled = lastId
     \/ /\ dracRuns[d].task \in {"wait", "verify", "relink"}
        /\ dracRuns'[d].task \in {"verify", "relink", "green"}
        /\ SameIds(d) /\ dracRuns'[d].polled = dracRuns[d].polled
        /\ dracRuns'[d].task = "relink" =>
             Whole(d) /\ dracRuns'[d].found = registry[d]
        /\ dracRuns'[d].task = "green" =>
             dracRuns[d].task = "relink" /\ dracRuns'[d].found = dracRuns[d].found

LEMMA RunBecomesStep ==
  ASSUME DracTypeOK, NEW d \in DracDays, NEW r, RunBecomes(d, r)
  PROVE  OthersStay(d) /\ dracRuns'[d] = r
BY DEF DracTypeOK, RunBecomes, OthersStay

LEMMA WrittenStep ==
  ASSUME DracTypeOK, NEW d \in DracDays, NEW r, dracRuns' = Written(d, r)
  PROVE  OthersStay(d) /\ OthersCrossed(d) /\ dracRuns'[d] = r
<1>1. \A e \in DracDays \ {d} :
        dracRuns'[e] = [dracRuns[e] EXCEPT !.crossed =
                          dracRuns[e].crossed \/ dracRuns[e].task \in {"poll", "wait"}]
  BY DEF Written
<1>2. ASSUME NEW e \in DracDays \ {d}
      PROVE  /\ dracRuns'[e].task = dracRuns[e].task
             /\ dracRuns'[e].own = dracRuns[e].own
             /\ dracRuns'[e].polled = dracRuns[e].polled
             /\ dracRuns'[e].found = dracRuns[e].found
             /\ dracRuns'[e].failed = dracRuns[e].failed
             /\ dracRuns'[e].crossed =
                  (dracRuns[e].crossed \/ dracRuns[e].task \in {"poll", "wait"})
  <2>1. dracRuns[e] \in DracRunRecords
    BY DEF DracTypeOK
  <2> QED BY <1>1, <2>1 DEF DracRunRecords
<1>3. dracRuns'[d] = r
  BY DEF Written
<1> QED BY <1>2, <1>3 DEF OthersStay, OthersCrossed

\* The record of a failed task, field by field.
LEMMA FailedFields ==
  ASSUME DracTypeOK, NEW d \in DracDays, dracRuns[d].task \notin {"none", "green"}
  PROVE  /\ Failed(d).task \in {"submit", "poll", "verify"}
         /\ Failed(d).task = "poll" =>
              /\ dracRuns[d].task \in {"poll", "wait"}
              /\ Failed(d).own = dracRuns[d].own /\ Failed(d).crossed = dracRuns[d].crossed
         /\ Failed(d).task = "verify" =>
              /\ dracRuns[d].task \in {"verify", "relink"}
              /\ Failed(d).own = dracRuns[d].own /\ Failed(d).crossed = dracRuns[d].crossed
              /\ Failed(d).polled = dracRuns[d].polled
<1>0. dracRuns[d] \in DracRunRecords
  BY DEF DracTypeOK
<1>1. CASE dracRuns[d].task \in {"submit", "echo"}
  BY <1>0, <1>1 DEF Failed, DracRunRecords
<1>2. CASE dracRuns[d].task \in {"poll", "wait"}
  BY <1>0, <1>2 DEF Failed, DracRunRecords
<1>3. CASE dracRuns[d].task \in {"verify", "relink"}
  BY <1>0, <1>3 DEF Failed, DracRunRecords
<1> QED BY <1>0, <1>1, <1>2, <1>3 DEF DracRunRecords

LEMMA FailedStep ==
  ASSUME DracTypeOK, NEW d \in DracDays, dracRuns[d].task \notin {"none", "green"},
         OthersStay(d), dracRuns'[d] = Failed(d),
         lastId' = lastId \/ (OthersCrossed(d) /\ Failed(d).task = "submit")
  PROVE  RunStep(d)
BY FailedFields DEF RunStep, SameIds

LEMMA RunMoves ==
  ASSUME DracTypeOK, Waiting, NEW d \in DracDays,
         \/ DracSbatch(d) \/ WriteId(d) \/ ReadId(d) \/ JobDone(d)
         \/ Verify(d) \/ Relink(d) \/ TaskFails(d) \/ Again(d)
  PROVE  RunStep(d)
<1>0. dracRuns[d] \in DracRunRecords
  BY DEF DracTypeOK
<1>1. CASE DracSbatch(d)
  <2>1. PICK j : RunBecomes(d, [dracRuns[d] EXCEPT !.task = "echo", !.own = j])
    BY <1>1 DEF DracSbatch
  <2>2. lastId' = lastId /\ dracRuns[d].failed = FALSE
    BY <1>0, <1>1 DEF DracSbatch, DracAt, DracRunRecords
  <2>3. OthersStay(d) /\ dracRuns'[d] = [dracRuns[d] EXCEPT !.task = "echo", !.own = j]
    BY <2>1, RunBecomesStep
  <2>4. dracRuns'[d].task = "echo" /\ dracRuns'[d].failed = FALSE
    BY <1>0, <2>2, <2>3 DEF DracRunRecords
  <2> QED BY <2>2, <2>3, <2>4 DEF RunStep
<1>2. CASE WriteId(d)
  <2>1. /\ dracRuns' = Written(d, [dracRuns[d] EXCEPT !.task = "poll", !.crossed = FALSE])
        /\ lastId' = dracRuns[d].own /\ dracRuns[d].failed = FALSE
    BY <1>0, <1>2 DEF WriteId, DracAt, DracRunRecords
  <2>2. /\ OthersStay(d) /\ OthersCrossed(d)
        /\ dracRuns'[d] = [dracRuns[d] EXCEPT !.task = "poll", !.crossed = FALSE]
    BY <2>1, WrittenStep
  <2>3. /\ dracRuns'[d].task = "poll" /\ dracRuns'[d].failed = FALSE
        /\ dracRuns'[d].own = dracRuns[d].own
    BY <1>0, <2>1, <2>2 DEF DracRunRecords
  <2> QED BY <2>1, <2>2, <2>3 DEF RunStep
<1>3. CASE ReadId(d)
  <2>1. /\ RunBecomes(d, [dracRuns[d] EXCEPT !.task = "wait", !.polled = lastId])
        /\ lastId' = lastId /\ dracRuns[d].failed = FALSE /\ dracRuns[d].task = "poll"
    BY <1>0, <1>3 DEF ReadId, DracAt, DracRunRecords
  <2>2. /\ OthersStay(d)
        /\ dracRuns'[d] = [dracRuns[d] EXCEPT !.task = "wait", !.polled = lastId]
    BY <2>1, RunBecomesStep
  <2>3. /\ dracRuns'[d].task = "wait" /\ dracRuns'[d].polled = lastId /\ SameIds(d)
        /\ dracRuns'[d].failed = FALSE
    BY <1>0, <2>1, <2>2 DEF SameIds, DracRunRecords
  <2> QED BY <2>1, <2>2, <2>3 DEF RunStep
<1>4. CASE JobDone(d)
  <2>1. /\ RunBecomes(d, [dracRuns[d] EXCEPT !.task = "verify"])
        /\ lastId' = lastId /\ dracRuns[d].failed = FALSE /\ dracRuns[d].task = "wait"
    BY <1>0, <1>4 DEF JobDone, DracAt, DracRunRecords
  <2> QED BY <1>0, <2>1, RunBecomesStep DEF RunStep, SameIds, DracRunRecords
<1>5. CASE Verify(d)
  <2>1. /\ RunBecomes(d, [dracRuns[d] EXCEPT !.task = "relink", !.found = registry[d]])
        /\ lastId' = lastId /\ dracRuns[d].failed = FALSE /\ dracRuns[d].task = "verify"
        /\ Whole(d)
    BY <1>0, <1>5 DEF Verify, DracAt, DracRunRecords, Whole
  <2>2. /\ OthersStay(d)
        /\ dracRuns'[d] = [dracRuns[d] EXCEPT !.task = "relink", !.found = registry[d]]
    BY <2>1, RunBecomesStep
  <2>3. /\ dracRuns'[d].task = "relink" /\ dracRuns'[d].found = registry[d] /\ SameIds(d)
        /\ dracRuns'[d].failed = FALSE /\ dracRuns'[d].polled = dracRuns[d].polled
    BY <1>0, <2>1, <2>2 DEF SameIds, DracRunRecords
  <2> QED BY <2>1, <2>2, <2>3 DEF RunStep
<1>6. CASE Relink(d)
  <2>1. /\ lastId' = lastId /\ dracRuns[d].failed = FALSE /\ dracRuns[d].task = "relink"
        /\ \/ RunBecomes(d, [dracRuns[d] EXCEPT !.task = "green"])
           \/ RunBecomes(d, Failed(d))
    BY <1>0, <1>6 DEF Relink, DracAt, DracRunRecords
  <2>2. CASE RunBecomes(d, [dracRuns[d] EXCEPT !.task = "green"])
    BY <1>0, <2>1, <2>2, RunBecomesStep DEF RunStep, SameIds, DracRunRecords
  <2>3. CASE RunBecomes(d, Failed(d))
    BY <2>1, <2>3, RunBecomesStep, FailedStep
  <2> QED BY <2>1, <2>2, <2>3
<1>7. CASE TaskFails(d)
  <2>1. CASE RunBecomes(d, Failed(d)) /\ lastId' = lastId
    BY <1>7, <2>1, RunBecomesStep, FailedStep DEF TaskFails
  <2>2. CASE dracRuns[d].task = "echo" /\ dracRuns' = Written(d, Failed(d))
    <3>1. Failed(d).task = "submit"
      BY <1>0, <2>2 DEF Failed, DracRunRecords
    <3> QED BY <1>7, <2>2, <3>1, WrittenStep, FailedStep DEF TaskFails
  <2> QED BY <1>7, <2>1, <2>2 DEF TaskFails
<1>8. CASE Again(d)
  <2>1. PICK task \in {"submit", dracRuns[d].task} \ {"green"} :
          RunBecomes(d, [dracRuns[d] EXCEPT !.task = task, !.failed = FALSE,
                                            !.found = Absent])
    BY <1>8 DEF Again
  <2>2. lastId' = lastId /\ task \in {"submit", "poll", "verify"}
    BY <1>8, <2>1 DEF Again, Waiting
  <2>3. /\ dracRuns'[d].task = task /\ SameIds(d) /\ dracRuns'[d].failed = FALSE
        /\ dracRuns'[d].polled = dracRuns[d].polled
    <3>1. dracRuns'[d] = [dracRuns[d] EXCEPT !.task = task, !.failed = FALSE,
                                             !.found = Absent]
      BY <2>1, RunBecomesStep
    <3> QED BY <1>0, <3>1 DEF SameIds, DracRunRecords
  <2>4. OthersStay(d)
    BY <2>1, RunBecomesStep
  <2> QED BY <2>1, <2>2, <2>3, <2>4 DEF RunStep
<1> QED BY <1>1, <1>2, <1>3, <1>4, <1>5, <1>6, <1>7, <1>8

\* The day's run becomes due: a record of its own, and nothing else of note.
LEMMA DueStep ==
  ASSUME DracTypeOK, Waiting, Due
  PROVE  \E d \in DracDays : RunStep(d)
<1>1. due + 1 \in DracDays /\ dracRuns[due + 1] \in DracRunRecords
  BY DracAssumption DEF Due, DracTypeOK, DracDays
<1>2. /\ OthersStay(due + 1)
      /\ dracRuns'[due + 1] = [dracRuns[due + 1] EXCEPT !.task = "submit"]
  BY <1>1, RunBecomesStep DEF Due
<1>3. lastId' = lastId /\ dracRuns'[due + 1].task = "submit"
  BY <1>1, <1>2 DEF Due, DracRunRecords
<1> QED BY <1>1, <1>2, <1>3 DEF RunStep

LEMMA RunsStep ==
  ASSUME DracTypeOK, Waiting, [DracNext]_dracVars
  PROVE  UNCHANGED <<dracRuns, lastId>> \/ \E d \in DracDays : RunStep(d)
BY RunMoves, DueStep
DEF DracNext, dracVars, dagVars, CrossMidnight, JobStarts, SaveModel, CopyFile, PointLatest,
    JobEnds

LEMMA PollsStay ==
  ASSUME DracTypeOK, Waiting, Polls, [DracNext]_dracVars
  PROVE  Waiting' /\ Polls'
<1>1. CASE UNCHANGED <<dracRuns, lastId>>
  BY <1>1 DEF Waiting, Polls
<1>2. ASSUME NEW d \in DracDays, RunStep(d) PROVE Waiting' /\ Polls'
  <2>1. ASSUME NEW e \in DracDays \ {d}
        PROVE  /\ dracRuns'[e].failed => dracRuns'[e].task \in {"submit", "poll", "verify"}
               /\ dracRuns'[e].task \in {"poll", "wait"} =>
                    lastId' = dracRuns'[e].own \/ dracRuns'[e].crossed
               /\ dracRuns'[e].task \in {"wait", "verify", "relink", "green"} =>
                    dracRuns'[e].polled = dracRuns'[e].own \/ dracRuns'[e].crossed
    BY <1>2, <2>1 DEF RunStep, OthersStay, OthersCrossed, Waiting, Polls
  <2>2. /\ dracRuns'[d].failed => dracRuns'[d].task \in {"submit", "poll", "verify"}
        /\ dracRuns'[d].task \in {"poll", "wait"} =>
             lastId' = dracRuns'[d].own \/ dracRuns'[d].crossed
        /\ dracRuns'[d].task \in {"wait", "verify", "relink", "green"} =>
             dracRuns'[d].polled = dracRuns'[d].own \/ dracRuns'[d].crossed
    BY <1>2 DEF RunStep, SameIds, Polls
  <2> QED BY <2>1, <2>2 DEF Waiting, Polls
<1> QED BY <1>1, <1>2, RunsStep

LEMMA FoundStays ==
  ASSUME DracTypeOK, Waiting, Dated, Sourced, Found, [DracNext]_dracVars
  PROVE  Found'
<1>0. /\ DatesStay
      /\ \A n \in 0 .. MaxDracJobs : n # 0 => n \in DracJobs
      /\ \A d \in DracDays : d # 0
      /\ registry \in [DracDays -> [Artifacts -> 0 .. MaxDracJobs]]
      /\ \A d \in DracDays : dracRuns[d].found \in [Artifacts -> 0 .. MaxDracJobs]
  <2>1. DatesStay
    BY DatedStays
  <2>2. \A d \in DracDays : dracRuns[d].found \in [Artifacts -> 0 .. MaxDracJobs]
    BY DEF DracTypeOK, DracRunRecords
  <2>3. /\ \A n \in 0 .. MaxDracJobs : n # 0 => n \in DracJobs
        /\ \A d \in DracDays : d # 0
    BY DracAssumption DEF DracJobs, DracDays
  <2> QED BY <2>1, <2>2, <2>3 DEF DracTypeOK
<1>1. ASSUME NEW e \in DracDays, dracRuns[e].task \in {"relink", "green"},
             NEW f \in Artifacts
      PROVE  dracRuns[e].found[f] # 0 /\ dracJobs'[dracRuns[e].found[f]].date = e
  BY <1>0, <1>1 DEF Found, DatesStay
<1>2. ASSUME NEW e \in DracDays, Whole(e), NEW f \in Artifacts
      PROVE  registry[e][f] # 0 /\ dracJobs'[registry[e][f]].date = e
  BY <1>0, <1>2 DEF Whole, Sourced, DatesStay
<1>3. CASE UNCHANGED <<dracRuns, lastId>>
  BY <1>1, <1>3 DEF Found
<1>4. ASSUME NEW d \in DracDays, RunStep(d) PROVE Found'
  <2>1. ASSUME NEW e \in DracDays, dracRuns'[e].task \in {"relink", "green"}
        PROVE  \/ Whole(e) /\ dracRuns'[e].found = registry[e]
               \/ /\ dracRuns[e].task \in {"relink", "green"}
                  /\ dracRuns'[e].found = dracRuns[e].found
    BY <1>4, <2>1 DEF RunStep, OthersStay
  <2> QED BY <1>1, <1>2, <2>1 DEF Found
<1> QED BY <1>3, <1>4, RunsStep

\* The files a running job is past are there.
LEMMA ProgressStays ==
  ASSUME DracTypeOK, Dated, Sourced, Progress, [DracNext]_dracVars
  PROVE  Progress'
<1>0. /\ FilesStay
      /\ \A j \in DracJobs : dracJobs[j] \in DracJobRecords
      /\ \A j \in DracJobs : dracJobs[j].state = "running" => dracJobs[j].date \in DracDays
  BY SourcedStays DEF DracTypeOK, DracJobRecords, Dated, DracDays
<1>1. ASSUME NEW k \in DracJobs, dracJobs[k].state = "running"
      PROVE  /\ dracJobs[k].at >= 1 => scratch'[dracJobs[k].date] # 0
             /\ dracJobs[k].at >= 2 => registry'[dracJobs[k].date]["encoder"] # 0
             /\ dracJobs[k].at >= 3 => registry'[dracJobs[k].date]["metrics"] # 0
             /\ dracJobs[k].at >= 4 => registry'[dracJobs[k].date]["model"] # 0
  BY <1>0, <1>1 DEF Progress, FilesStay, Artifacts
<1>2. ASSUME \A k \in DracJobs : \/ dracJobs'[k] = dracJobs[k]
                                 \/ dracJobs'[k].state # "running"
                                 \/ dracJobs'[k].at = 0
      PROVE  Progress'
  BY <1>1, <1>2 DEF Progress
<1>3. ASSUME NEW d \in DracDays,
             \/ DracSbatch(d) \/ WriteId(d) \/ ReadId(d) \/ JobDone(d)
             \/ Verify(d) \/ Relink(d) \/ TaskFails(d) \/ Again(d)
      PROVE  Progress'
  BY <1>2, <1>3, RunLeavesJobs
<1>4. ASSUME NEW j \in DracJobs, JobStarts(j) \/ JobEnds(j) PROVE Progress'
  <2>1. Moved(j)
    BY <1>4, JobMoves
  <2>2. dracJobs[j].state = "running" => JobEnds(j)
    BY <1>4 DEF JobStarts
  <2>3. JobEnds(j) => dracJobs'[j].state \in {"failed", "completed"}
    <3>1. SUFFICES ASSUME JobEnds(j) PROVE dracJobs'[j].state \in {"failed", "completed"}
      OBVIOUS
    <3>2. PICK s \in {"failed", "completed"} : dracJobs' = [dracJobs EXCEPT ![j] =
            [dracJobs[j] EXCEPT !.state = s, !.at = 0]]
      BY <3>1 DEF JobEnds, JobBecomes
    <3> QED BY <1>0, <3>2 DEF DracTypeOK, DracJobRecords
  <2> QED BY <1>2, <2>1, <2>2, <2>3 DEF Moved, Dated
<1>5. ASSUME NEW j \in DracJobs, SaveModel(j) \/ CopyFile(j) \/ PointLatest(j)
      PROVE  Progress'
  <2> DEFINE D == dracJobs[j].date
             n == dracJobs[j].at
  <2>1. /\ dracJobs[j].state = "running" /\ D \in DracDays /\ n \in 0 .. 4
        /\ \A k \in DracJobs \ {j} : dracJobs'[k] = dracJobs[k]
        /\ dracJobs'[j].date = D /\ dracJobs'[j].at = n + 1
    <3>1. dracJobs[j].state = "running" /\ n \in 0 .. 4
      BY <1>5 DEF SaveModel, CopyFile, PointLatest, Running
    <3>2. dracJobs' = [dracJobs EXCEPT ![j] = [dracJobs[j] EXCEPT !.at = n + 1]]
      BY <1>5 DEF SaveModel, CopyFile, PointLatest, Advances, JobBecomes
    <3> QED BY <1>0, <3>1, <3>2 DEF DracTypeOK, DracJobRecords
  <2>2. /\ n = 0 => scratch'[D] # 0
        /\ n = 1 => registry'[D]["encoder"] # 0
        /\ n = 2 => registry'[D]["metrics"] # 0
        /\ n = 3 => registry'[D]["model"] # 0
    <3>1. CASE SaveModel(j)
      <4>1. n = 0 /\ scratch' = [scratch EXCEPT ![D] = j] /\ j # 0
        BY <3>1 DEF SaveModel, Running, DracJobs
      <4> QED BY <2>1, <4>1 DEF DracTypeOK
    <3>2. CASE CopyFile(j)
      <4>1. /\ n \in 1 .. 3 /\ scratch[D] # 0 /\ Copied[n] \in Artifacts
            /\ registry' = [registry EXCEPT ![D] =
                              [registry[D] EXCEPT ![Copied[n]] = scratch[D]]]
        BY <2>1, <3>2 DEF CopyFile, SyncDate, Running, Progress, Copied, Artifacts
      <4>2. registry'[D][Copied[n]] # 0
        BY <2>1, <4>1 DEF DracTypeOK
      <4> QED BY <4>1, <4>2 DEF Copied
    <3>3. CASE PointLatest(j)
      BY <3>3 DEF PointLatest, Running
    <3> QED BY <1>5, <3>1, <3>2, <3>3
  <2>3. ASSUME NEW k \in DracJobs \ {j}, dracJobs'[k].state = "running"
        PROVE  /\ dracJobs'[k].at >= 1 => scratch'[dracJobs'[k].date] # 0
               /\ dracJobs'[k].at >= 2 => registry'[dracJobs'[k].date]["encoder"] # 0
               /\ dracJobs'[k].at >= 3 => registry'[dracJobs'[k].date]["metrics"] # 0
               /\ dracJobs'[k].at >= 4 => registry'[dracJobs'[k].date]["model"] # 0
    BY <1>1, <2>1, <2>3
  <2>4. /\ dracJobs'[j].at >= 1 => scratch'[D] # 0
        /\ dracJobs'[j].at >= 2 => registry'[D]["encoder"] # 0
        /\ dracJobs'[j].at >= 3 => registry'[D]["metrics"] # 0
        /\ dracJobs'[j].at >= 4 => registry'[D]["model"] # 0
    BY <1>1, <2>1, <2>2
  <2> QED BY <2>1, <2>3, <2>4 DEF Progress
<1>6. CASE UNCHANGED dracJobs
  BY <1>2, <1>6
<1> QED BY <1>3, <1>4, <1>5, <1>6
        DEF DracNext, CrossMidnight, Due, dracVars, dracJobVars

\* The link is made by a job that is through with its files, or by a run that
\* has seen them.
LEMMA LinkedStays ==
  ASSUME DracTypeOK, Waiting, Dated, Sourced, Progress, Linked, [DracNext]_dracVars
  PROVE  Linked'
<1>0. FilesStay /\ \A l \in 0 .. NumDays : l # 0 => l \in DracDays
  BY SourcedStays, DracAssumption DEF DracDays
<1>1. ASSUME NEW d \in DracDays, Whole(d)
      PROVE  \A f \in Artifacts : registry'[d][f] # 0
  BY <1>0, <1>1 DEF Whole, FilesStay
<1>2. ASSUME NEW e \in DracDays, dracRuns'[e].task = "relink"
      PROVE  \A f \in Artifacts : registry'[e][f] # 0
  <2>1. CASE UNCHANGED <<dracRuns, lastId>>
    BY <1>1, <1>2, <2>1 DEF Linked
  <2>2. ASSUME NEW d \in DracDays, RunStep(d) PROVE Whole(e)
    BY <1>2, <2>2 DEF RunStep, OthersStay, Linked
  <2> QED BY <1>1, <2>1, <2>2, RunsStep
<1>3. latestLink' # 0 => \A f \in Artifacts : registry'[latestLink'][f] # 0
  <2>1. CASE latestLink' = latestLink
    BY <1>0, <1>1, <2>1 DEF Linked, DracTypeOK
  <2>2. ASSUME NEW d \in DracDays, Verify(d) \/ Relink(d)
        PROVE  latestLink' # 0 => \A f \in Artifacts : registry'[latestLink'][f] # 0
    <3>1. CASE Verify(d)
      BY <3>1 DEF Verify
    <3>2. CASE Relink(d)
      BY <1>1, <2>1, <3>2 DEF Relink, DracAt, Linked
    <3> QED BY <2>2, <3>1, <3>2
  <2>3. ASSUME NEW j \in DracJobs, PointLatest(j)
        PROVE  latestLink' # 0 => \A f \in Artifacts : registry'[latestLink'][f] # 0
    <3>1. /\ latestLink' = dracJobs[j].date /\ dracJobs[j].date \in DracDays
          /\ Whole(dracJobs[j].date)
      BY <2>3 DEF PointLatest, SyncDate, Running, Progress, Dated, Whole, Artifacts,
                  DracTypeOK, DracJobRecords, DracDays
    <3> QED BY <1>1, <3>1
  <2> QED BY <2>1, <2>2, <2>3
          DEF DracNext, CrossMidnight, Due, DracSbatch, WriteId, ReadId, JobDone, TaskFails,
              Again, JobStarts, SaveModel, CopyFile, JobEnds, dracVars
<1> QED BY <1>2, <1>3 DEF Linked, Whole

LEMMA DracStep == DracInd /\ [DracNext]_dracVars => DracInd'
BY DracTypes, DatedStays, SourcedStays, ProgressStays, LinkedStays, PollsStay, FoundStays
DEF DracInd

\* The inductive invariant holds for any number of days, jobs and retries.
THEOREM DracIndHolds == DracSpec => []DracInd
<1>1. DracInit => DracInd
  BY DracInitially
<1>2. DracInd /\ [DracNext]_dracVars => DracInd'
  BY DracStep
<1> QED BY <1>1, <1>2, PTL DEF DracSpec

LEMMA DracIndVouches == DracInd => DracVouches
<1> SUFFICES ASSUME DracInd PROVE DracVouches
  OBVIOUS
<1>1. latestLink # 0 => \A f \in Artifacts : registry[latestLink][f] # 0
  BY DEF DracInd, Linked, Whole
<1>2. ASSUME NEW d \in DracDays, DracAt(d, "green")
      PROVE  LET r == dracRuns[d] IN
             /\ r.polled = r.own \/ r.crossed
             /\ r.own # 0 /\ r.polled = r.own /\ AloneOn(d, r.own)
                  => r.found = [f \in Artifacts |-> r.own]
  <2> DEFINE r == dracRuns[d]
  <2>1. r.task = "green" /\ r.found \in [Artifacts -> 0 .. MaxDracJobs]
    BY <1>2 DEF DracInd, DracAt, DracTypeOK, DracRunRecords
  <2>2. r.polled = r.own \/ r.crossed
    BY <2>1 DEF DracInd, Polls
  <2>3. ASSUME AloneOn(d, r.own) PROVE r.found = [f \in Artifacts |-> r.own]
    <3>1. ASSUME NEW f \in Artifacts PROVE r.found[f] = r.own
      <4>1. r.found[f] \in DracJobs /\ dracJobs[r.found[f]].date = d
        BY <2>1, DracAssumption DEF DracInd, Found, DracJobs
      <4> QED BY <2>3, <4>1 DEF AloneOn
    <3> QED BY <2>1, <3>1
  <2> QED BY <2>2, <2>3
<1> QED BY <1>1, <1>2 DEF DracVouches

(* What a green run vouches for, and that latest leads to a whole          *)
(* directory, for any number of days, jobs, retries and cleared runs.      *)
THEOREM DracVouchesTheorem == DracSpec => []DracVouches
<1>1. DracInd => DracVouches
  BY DracIndVouches
<1> QED BY <1>1, DracIndHolds, PTL

-----------------------------------------------------------------------------
(* What the jobs read.                                                     *)

\* The steps of a flow are done in the order of their needs, the submission last.
InOrder(f) ==
  /\ \A s \in ready[f] : s \in DOMAIN Needs[f] /\ Needs[f][s] \subseteq ready[f]
  /\ doing[f] # "none" =>
       doing[f] \in DOMAIN Needs[f] \ ready[f] /\ Needs[f][doing[f]] \subseteq ready[f]
  /\ jobs[f] > 0 => "submit" \in ready[f]

\* A file is in pieces only while it is open, if nobody has spoiled one.
PiecesAreOpen ==
  ~spoiled =>
    /\ \A p \in Files : local[p].state # "torn"
    /\ remote.state # "torn"
    /\ local["snapshot"].state = "part" =>
         doing["orchestrator"] = "export" /\ handle["orchestrator"].file = "snapshot"
    /\ local["training"].state = "part" => doing["prepare"] = "export"
    /\ \A f \in Flows : Sending(f) =>
         /\ remote.state = "part" /\ sending[f].state # "torn"
         /\ \A g \in Flows \ {f} : ~Sending(g)

PrepareOpensItsOwn == doing["prepare"] = "export" => handle["prepare"].file = "training"

Live(f) == f \notin crossed /\ jobs[f] < 3

\* What a flow that nobody crossed has sent, found and read.
HasSent(f) ==
  /\ f \notin crossed /\ Sending(f) => sending[f].state = "whole" \/ spoiled
  /\ Live(f) /\ "upload" \in ready[f] => remote.state = "whole" \/ spoiled
HasCode(f) ==
  /\ f \notin crossed /\ doing[f] = "code" => code.version = source
  /\ Live(f) /\ "code" \in ready[f] =>
       code.whole /\ \A g \in Flows \ {f} : doing[g] = "none"
HasRead(f) ==
  /\ jobs[f] <= 1 => got[f].file = {} /\ got[f].code = {}
  /\ f \notin crossed /\ jobs[f] = 2 => got[f].file = {remote} /\ got[f].code = {code}
  /\ f \notin crossed /\ jobs[f] = 3 =>
       \E x \in got[f].file, c \in got[f].code : got[f].file = {x} /\ got[f].code = {c}
  /\ f \notin crossed =>
       /\ \A x \in got[f].file : x.state = "whole" \/ spoiled
       /\ "code" \in DOMAIN Needs[f] => \A c \in got[f].code : c.whole

\* The cutoff of the base flow, from the table to what its job has read.
CutoffKnown ==
  /\ "cover" \in ready["base"] => cutoff \in days
  /\ doing["base"] = "export" => cutoff \in handle["base"].rows
CutoffKept ==
  "base" \notin crossed \cup reused =>
    /\ "export" \in ready["base"] /\ jobs["base"] < 3 => cutoff \in local["snapshot"].rows
    /\ Sending("base") => cutoff \in sending["base"].rows
    /\ "upload" \in ready["base"] /\ jobs["base"] < 3 => cutoff \in remote.rows
    /\ \A x \in got["base"].file : cutoff \in x.rows

OwnInputs(f) == HasSent(f) /\ HasCode(f) /\ HasRead(f)

InputsInd == /\ InputsTypeOK /\ \A f \in Flows : InOrder(f)
             /\ PiecesAreOpen /\ PrepareOpensItsOwn
             /\ \A f \in Flows : OwnInputs(f)
             /\ CutoffKnown /\ CutoffKept

LEMMA LatestIsMember ==
  ASSUME NEW D, IsFiniteSet(D), D \subseteq Nat, D # {}
  PROVE  Max(D) \in D
<1> DEFINE HasTop(S) == \E x \in S : \A y \in S : x >= y
           Topless == {S \in SUBSET D : S # {} /\ ~HasTop(S)}
           Sizes == {Cardinality(S) : S \in Topless}
<1>1. \A S \in SUBSET D : IsFiniteSet(S) /\ Cardinality(S) \in Nat
  BY FS_Subset, FS_CardinalityType
<1>2. ASSUME Topless # {} PROVE FALSE
  <2>1. Sizes \subseteq Nat /\ Sizes # {}
    BY <1>1, <1>2
  <2>2. PICK n \in Sizes : \A k \in Sizes : ~ (<<k, n>> \in OpToRel(<, Nat))
    <3> HIDE DEF Sizes
    <3> QED BY <2>1, NatLessThanWellFounded, WFMin
  <2>3. PICK S \in Topless : n = Cardinality(S)
    BY <2>2
  <2>4. PICK a \in S : TRUE
    BY <2>3
  <2> DEFINE R == S \ {a}
  <2>5. Cardinality(R) = n - 1 /\ n \in Nat
    BY <1>1, <2>3, <2>4, FS_RemoveElement
  <2>6. R \notin Topless
    <3>1. SUFFICES ASSUME R \in Topless PROVE FALSE
      OBVIOUS
    <3>2. n - 1 \in Sizes /\ n - 1 \in Nat
      BY <1>1, <2>5, <3>1
    <3>3. <<n - 1, n>> \in Nat \X Nat /\ <<n - 1, n>>[1] = n - 1 /\ <<n - 1, n>>[2] = n
      BY <2>5, <3>2
    <3>4. ~ (n - 1 < n)
      BY <2>2, <3>2, <3>3 DEF OpToRel
    <3> QED BY <2>5, <3>4
  <2>7. CASE R = {}
    <3>1. \A y \in S : y = a
      BY <2>7
    <3>2. a \in Nat
      BY <2>3
    <3> QED BY <2>3, <3>1, <3>2
  <2>8. CASE R # {}
    <3>1. R \in SUBSET D /\ S \in SUBSET D
      BY <2>3
    <3>2. PICK m \in R : \A y \in R : m >= y
      BY <2>6, <2>8, <3>1
    <3>3. m \in Nat /\ a \in Nat /\ \A y \in S : y \in Nat /\ (y = a \/ m >= y)
      BY <3>1, <3>2
    <3>4. HasTop(S)
      <4>1. CASE a >= m
        BY <3>3, <4>1
      <4>2. CASE ~ (a >= m)
        BY <3>2, <3>3, <4>2
      <4> QED BY <4>1, <4>2
    <3> QED BY <2>3, <3>4
  <2> QED BY <2>7, <2>8
<1>3. HasTop(D)
  BY <1>2
<1> QED BY <1>3 DEF Max

LEMMA InputsInitially == InputsInit => InputsInd
<1> SUFFICES ASSUME InputsInit PROVE InputsInd
  OBVIOUS
<1> USE DEF InputsInit
<1>1. InputsTypeOK
  <2>1. NoSnapshot \in FileSet
    BY DEF NoSnapshot, FileSet
  <2>2. /\ [file |-> "none", rows |-> {}] \in Handles
        /\ [file |-> {}, code |-> {}] \in GotSet
    BY DEF Handles, GotSet
  <2>3. MaxVersions \in Nat \ {0} /\ MaxKills \in Nat
    BY InputsAssumption
  <2>4. source \in 1 .. MaxVersions /\ code \in CodeSet /\ kills \in 0 .. MaxKills
    BY <2>3 DEF CodeSet
  <2>5. active \subseteq Flows /\ days \subseteq Window /\ cutoff \in Window \cup {0}
    OBVIOUS
  <2>6. ready \in [Flows -> SUBSET FlowSteps] /\ doing \in [Flows -> FlowSteps \cup {"none"}]
    OBVIOUS
  <2>7. /\ local \in [Files -> FileSet] /\ remote \in FileSet /\ handle \in [Flows -> Handles]
        /\ sending \in [Flows -> FileSet] /\ jobs \in [Flows -> 0 .. 3]
        /\ got \in [Flows -> GotSet]
    BY <2>1, <2>2
  <2> QED BY <2>4, <2>5, <2>6, <2>7 DEF InputsTypeOK
<1>2. \A f \in Flows : InOrder(f) /\ OwnInputs(f)
  BY DEF InOrder, OwnInputs, HasSent, HasCode, HasRead, Sending
<1>3. PiecesAreOpen /\ PrepareOpensItsOwn
  <2>1. \A f \in Flows : doing[f] = "none"
    OBVIOUS
  <2>2. "prepare" \in Flows
    BY DEF Flows
  <2> QED BY <2>1, <2>2 DEF PiecesAreOpen, PrepareOpensItsOwn, NoSnapshot, Sending, Files
<1>4. CutoffKnown /\ CutoffKept
  <2>1. "base" \in Flows
    BY DEF Flows, DagFlows
  <2> QED BY <2>1 DEF CutoffKnown, CutoffKept, Sending
<1> QED BY <1>1, <1>2, <1>3, <1>4 DEF InputsInd

(* The order of the steps.                                                 *)

LEMMA StepsNeeded ==
  /\ \A f \in Flows : DOMAIN Needs[f] \subseteq FlowSteps
  /\ "none" \notin FlowSteps
  /\ {"export", "upload", "code", "cover", "submit", "health"} \subseteq FlowSteps
  BY DEF Flows, DagFlows, Needs, DagNeeds, FlowSteps

LEMMA SubmitIsLast ==
  ASSUME NEW f \in Flows, NEW R, \A s \in R : s \in DOMAIN Needs[f] /\ Needs[f][s] \subseteq R
  PROVE  /\ "upload" \in R => "export" \in R
         /\ "upload" \in R /\ "code" \in DOMAIN Needs[f] => "code" \in R
         /\ "submit" \in R => DOMAIN Needs[f] \subseteq R
<1>1. CASE f \in {"daily", "base"}
  <2>1. Needs[f] = DagNeeds
    BY <1>1 DEF Needs
  <2> QED BY <2>1 DEF DagNeeds
<1>2. CASE f = "orchestrator"
  BY <1>2 DEF Needs
<1>3. CASE f = "pipeline"
  BY <1>3 DEF Needs
<1>4. CASE f = "prepare"
  BY <1>4 DEF Needs
<1> QED BY <1>1, <1>2, <1>3, <1>4 DEF Flows, DagFlows

LEMMA JobsAreDone ==
  ASSUME NEW f \in Flows, InOrder(f), jobs[f] > 0
  PROVE  DOMAIN Needs[f] \subseteq ready[f] /\ doing[f] = "none"
  BY SubmitIsLast DEF InOrder

\* What a step does to the record of its flow.
Steps(f) ==
  \/ ready' = ready /\ doing' = doing
  \/ \E s \in FlowSteps : (Ready(f, s) \/ doing[f] = s) /\ Finish(f, s)
  \/ \E s \in FlowSteps : Ready(f, s) /\ Begin(f, s)
  \/ ready' = ready /\ doing' = [doing EXCEPT ![f] = "none"]
  \/ doing[f] = "none" /\ doing' = doing /\ ready' = [ready EXCEPT ![f] = {}] /\ jobs'[f] = 0

LEMMA OrderStep ==
  ASSUME InputsTypeOK, NEW f \in Flows, InOrder(f), Steps(f),
         jobs'[f] > 0 => jobs[f] > 0 \/ "submit" \in ready'[f]
  PROVE  InOrder(f)'
<1>0. /\ ready \in [Flows -> SUBSET FlowSteps] /\ doing \in [Flows -> FlowSteps \cup {"none"}]
      /\ "none" \notin FlowSteps
  BY StepsNeeded DEF InputsTypeOK
<1>1. CASE ready' = ready /\ doing' = doing
  BY <1>1 DEF InOrder
<1>2. ASSUME NEW s \in FlowSteps, Ready(f, s) \/ doing[f] = s, Finish(f, s)
      PROVE  InOrder(f)'
  <2>1. s \in DOMAIN Needs[f] /\ Needs[f][s] \subseteq ready[f]
    BY <1>0, <1>2 DEF Ready, InOrder
  <2>2. ready'[f] = ready[f] \cup {s} /\ doing'[f] = "none"
    BY <1>0, <1>2 DEF Finish
  <2> QED BY <2>1, <2>2 DEF InOrder
<1>3. ASSUME NEW s \in FlowSteps, Ready(f, s), Begin(f, s)
      PROVE  InOrder(f)'
  <2>1. /\ s \in DOMAIN Needs[f] \ ready[f] /\ Needs[f][s] \subseteq ready[f]
        /\ ready' = ready /\ doing'[f] = s
    BY <1>0, <1>3 DEF Ready, Begin
  <2> QED BY <2>1 DEF InOrder
<1>4. CASE ready' = ready /\ doing' = [doing EXCEPT ![f] = "none"]
  BY <1>0, <1>4 DEF InOrder
<1>5. CASE /\ doing[f] = "none" /\ doing' = doing /\ ready' = [ready EXCEPT ![f] = {}]
           /\ jobs'[f] = 0
  BY <1>0, <1>5 DEF InOrder
<1> QED BY <1>1, <1>2, <1>3, <1>4, <1>5 DEF Steps

FlowStep(f) ==
  \/ Check(f) \/ Cover(f) \/ Reuse(f) \/ Export(f) \/ Exported(f) \/ SyncCode(f)
  \/ Upload(f) \/ Uploaded(f) \/ KillStep(f) \/ Rerun(f) \/ SubmitFlow(f) \/ JobReads(f)

LEMMA StepsOfFlow ==
  ASSUME InputsTypeOK, NEW f \in Flows, FlowStep(f)
  PROVE  /\ Steps(f)
         /\ jobs'[f] > 0 => jobs[f] > 0 \/ "submit" \in ready'[f]
         /\ \A g \in Flows \ {f} :
              ready'[g] = ready[g] /\ doing'[g] = doing[g] /\ jobs'[g] = jobs[g] /\ got'[g] = got[g]
<1> USE DEF runVars, coverageVars, fileVars, jobVars, causeVars
<1>0. /\ ready \in [Flows -> SUBSET FlowSteps] /\ doing \in [Flows -> FlowSteps \cup {"none"}]
      /\ jobs \in [Flows -> 0 .. 3] /\ got \in [Flows -> GotSet]
      /\ {"export", "upload", "code", "cover", "submit", "health"} \subseteq FlowSteps
  BY StepsNeeded DEF InputsTypeOK
<1>f. ASSUME NEW s, Finish(f, s)
      PROVE  \A g \in Flows \ {f} : ready'[g] = ready[g] /\ doing'[g] = doing[g]
  BY <1>0, <1>f DEF Finish
<1>b. ASSUME NEW s, Begin(f, s)
      PROVE  \A g \in Flows \ {f} : ready'[g] = ready[g] /\ doing'[g] = doing[g]
  BY <1>0, <1>b DEF Begin
<1>1. CASE Check(f) \/ Cover(f) \/ Reuse(f)
  BY <1>0, <1>1, <1>f DEF Check, Cover, Reuse, Steps
<1>2. CASE Export(f)
  BY <1>0, <1>2, <1>b DEF Export, Steps
<1>3. CASE Exported(f)
  <2>1. CASE Finish(f, "export")
    BY <1>0, <1>3, <2>1, <1>f DEF Exported, Steps
  <2>2. CASE ready' = ready /\ doing' = [doing EXCEPT ![f] = "none"]
    BY <1>0, <1>3, <2>2 DEF Exported, Steps
  <2> QED BY <1>3, <2>1, <2>2 DEF Exported
<1>4. CASE SyncCode(f)
  BY <1>0, <1>4, <1>f, <1>b DEF SyncCode, Steps
<1>5. CASE Upload(f)
  BY <1>0, <1>5, <1>f, <1>b DEF Upload, Steps
<1>6. CASE Uploaded(f)
  BY <1>0, <1>6, <1>f DEF Uploaded, Sending, Steps
<1>7. CASE KillStep(f)
  BY <1>0, <1>7 DEF KillStep, Steps
<1>8. CASE Rerun(f)
  BY <1>0, <1>8 DEF Rerun, Steps
<1>9. CASE SubmitFlow(f)
  <2>1. "submit" \in ready'[f]
    BY <1>0, <1>9 DEF SubmitFlow, Finish
  <2> QED BY <1>0, <1>9, <2>1, <1>f DEF SubmitFlow, Steps
<1>10. CASE JobReads(f)
  BY <1>0, <1>10 DEF JobReads, Steps
<1> QED BY <1>1, <1>2, <1>3, <1>4, <1>5, <1>6, <1>7, <1>8, <1>9, <1>10 DEF FlowStep

(* The types.                                                              *)

LEMMA RecordsTypes ==
  ASSUME InputsTypeOK, NEW f \in Flows, Steps(f)
  PROVE  ready' \in [Flows -> SUBSET FlowSteps] /\ doing' \in [Flows -> FlowSteps \cup {"none"}]
  BY DEF InputsTypeOK, Steps, Finish, Begin

LEMMA WrittenIsFile ==
  ASSUME InputsTypeOK, NEW f \in Flows, NEW p \in Files
  PROVE  WrittenBy(f, p) \subseteq FileSet /\ \A w \in WrittenBy(f, p) : w.rows = handle[f].rows
<1>1. handle[f].rows \in SUBSET Window
  BY DEF InputsTypeOK, Handles
<1> QED BY <1>1 DEF WrittenBy, FileSet

\* The three endings of an export.
LEMMA ExportedCases ==
  ASSUME NEW f \in Flows, Exported(f)
  PROVE  \/ /\ handle[f].file = "tmp" /\ Finish(f, "export")
            /\ \E w \in WrittenBy(f, "tmp") :
                 local' = [local EXCEPT !.snapshot = w, !.tmp = NoSnapshot]
            /\ handle' = [g \in Flows |->
                 IF g = f THEN [handle[g] EXCEPT !.file = "none"]
                 ELSE IF handle[g].file = "tmp" THEN [handle[g] EXCEPT !.file = "snapshot"]
                 ELSE IF handle[g].file = "snapshot" THEN [handle[g] EXCEPT !.file = "gone"]
                 ELSE handle[g]]
         \/ /\ handle[f].file \in {"snapshot", "training"} /\ f \notin DagFlows
            /\ Finish(f, "export")
            /\ \E w \in WrittenBy(f, handle[f].file) :
                 local' = [local EXCEPT ![handle[f].file] = w]
            /\ handle' = [handle EXCEPT ![f].file = "none"]
         \/ /\ handle[f].file = "training" => f \in DagFlows
            /\ handle[f].file = "snapshot" => f \in DagFlows
            /\ handle' = [handle EXCEPT ![f].file = "none"]
            /\ doing' = [doing EXCEPT ![f] = "none"]
            /\ f \in DagFlows \/ f = "orchestrator"
            /\ UNCHANGED <<local, active, ready, kills>>
<1>1. CASE handle[f].file = "tmp"
  BY <1>1 DEF Exported
<1>2. CASE handle[f].file \in {"snapshot", "training"} /\ f \notin DagFlows
  BY <1>2 DEF Exported
<1>3. CASE handle[f].file # "tmp" /\ ~(handle[f].file \in {"snapshot", "training"} /\ f \notin DagFlows)
  BY <1>3 DEF Exported
<1> QED BY <1>1, <1>2, <1>3

LEMMA HandleTypes ==
  ASSUME InputsTypeOK, NEW h \in Handles, NEW x \in Files \cup {"none", "gone"}
  PROVE  [h EXCEPT !.file = x] \in Handles
  BY DEF Handles

LEMMA FileTypes ==
  ASSUME InputsTypeOK, NEW f \in Flows,
         Export(f) \/ Exported(f) \/ KillStep(f) \/ Upload(f) \/ Uploaded(f)
  PROVE  /\ local' \in [Files -> FileSet] /\ handle' \in [Flows -> Handles]
         /\ sending' \in [Flows -> FileSet] /\ remote' \in FileSet
<1> USE DEF fileVars, coverageVars, jobVars, runVars
<1>0. /\ local \in [Files -> FileSet] /\ handle \in [Flows -> Handles]
      /\ sending \in [Flows -> FileSet] /\ remote \in FileSet /\ days \in SUBSET Window
      /\ \A g \in Flows : handle[g] \in Handles
      /\ Files = {"snapshot", "tmp", "training"}
  BY DEF InputsTypeOK, Files
<1>1. /\ NoSnapshot \in FileSet
      /\ \A s \in {"part", "torn"}, r \in SUBSET Window : [state |-> s, rows |-> r] \in FileSet
      /\ \A x \in FileSet : [x EXCEPT !.state = "torn"] \in FileSet
  BY DEF NoSnapshot, FileSet
<1>2. /\ \A x \in {"none", "gone", "snapshot"}, g \in Flows :
            [handle[g] EXCEPT !.file = x] \in Handles
  BY <1>0 DEF Handles
<1>3. CASE Export(f)
  <2> DEFINE cleared == IF f = "daily" /\ local["snapshot"].state # "none"
                        THEN {"snapshot", "tmp"} ELSE {}
             shared == OpenOn(Target(f)) # {} /\ Target(f) \notin cleared
  <2>1. local' = [q \in Files |->
                    IF q = Target(f)
                    THEN [state |-> IF shared THEN "torn" ELSE "part", rows |-> days]
                    ELSE IF q \in cleared THEN NoSnapshot ELSE local[q]]
    BY <1>3 DEF Export
  <2>2. handle' = [g \in Flows |->
               IF g = f THEN [file |-> Target(f), rows |-> days]
               ELSE IF handle[g].file \in cleared THEN [handle[g] EXCEPT !.file = "gone"]
               ELSE handle[g]]
    BY <1>3 DEF Export
  <2>3. [file |-> Target(f), rows |-> days] \in Handles
    BY <1>0 DEF Target, Handles
  <2>4. [state |-> IF shared THEN "torn" ELSE "part", rows |-> days] \in FileSet
    BY <1>0, <1>1
  <2> HIDE DEF cleared, shared
  <2>5. local' \in [Files -> FileSet]
    BY <1>0, <1>1, <2>1, <2>4
  <2>6. handle' \in [Flows -> Handles]
    BY <1>0, <1>2, <2>2, <2>3
  <2> QED BY <1>0, <1>3, <2>5, <2>6 DEF Export
<1>4. CASE Exported(f)
  <2>1. /\ WrittenBy(f, "tmp") \subseteq FileSet
        /\ handle[f].file \in Files => WrittenBy(f, handle[f].file) \subseteq FileSet
    BY <1>0, WrittenIsFile
  <2>2. local' \in [Files -> FileSet]
    BY <1>0, <1>1, <1>4, <2>1, ExportedCases
  <2>3. handle' \in [Flows -> Handles]
    <3>1. CASE handle' = [handle EXCEPT ![f].file = "none"]
      BY <1>0, <1>2, <3>1
    <3>2. CASE handle' = [g \in Flows |->
                 IF g = f THEN [handle[g] EXCEPT !.file = "none"]
                 ELSE IF handle[g].file = "tmp" THEN [handle[g] EXCEPT !.file = "snapshot"]
                 ELSE IF handle[g].file = "snapshot" THEN [handle[g] EXCEPT !.file = "gone"]
                 ELSE handle[g]]
      <4>1. \A g \in Flows : handle'[g] \in Handles
        BY <1>0, <1>2, <3>2
      <4> QED BY <3>2, <4>1
    <3> QED BY <1>4, <3>1, <3>2, ExportedCases
  <2> QED BY <1>0, <1>4, <2>2, <2>3 DEF Exported
<1>5. CASE KillStep(f)
  BY <1>0, <1>1, <1>2, <1>5 DEF KillStep
<1>6. CASE Upload(f)
  <2>1. LocalOf(f) \in FileSet
    BY <1>0 DEF LocalOf
  <2> QED BY <1>0, <1>1, <1>6, <2>1 DEF Upload
<1>7. CASE Uploaded(f)
  BY <1>0, <1>1, <1>7 DEF Uploaded
<1> QED BY <1>3, <1>4, <1>5, <1>6, <1>7

LEMMA CrossesTypes ==
  ASSUME crossed \subseteq Flows, NEW f \in Flows, Crosses(f)
  PROVE  crossed' \subseteq Flows
  BY DEF Crosses

LEMMA TypesStep ==
  ASSUME InputsTypeOK, NEW f \in Flows, FlowStep(f)
  PROVE  InputsTypeOK'
<1> USE DEF fileVars, coverageVars, jobVars, runVars, causeVars
<1>0. /\ ready' \in [Flows -> SUBSET FlowSteps] /\ doing' \in [Flows -> FlowSteps \cup {"none"}]
  BY RecordsTypes, StepsOfFlow
<1>1. CASE Check(f)
  BY <1>0, <1>1 DEF Check, Finish, InputsTypeOK
<1>2. CASE Cover(f)
  <2>1. days' \subseteq Window
    BY <1>2 DEF Cover, InputsTypeOK
  <2>2. cutoff' \in Window \cup {0}
    <3>1. CASE days # {} /\ cutoff' = Max(days)
      <4>1. days \subseteq Nat /\ IsFiniteSet(days)
        BY InputsAssumption, FS_Subset DEF InputsTypeOK
      <4> QED BY <3>1, <4>1, LatestIsMember DEF InputsTypeOK
    <3>2. CASE cutoff' = cutoff
      BY <3>2 DEF InputsTypeOK
    <3> QED BY <1>2, <3>1, <3>2 DEF Cover, CutoffDate
  <2>3. backfill' \in BOOLEAN
    BY <1>2 DEF Cover, InputsTypeOK
  <2> QED BY <1>0, <1>2, <2>1, <2>2, <2>3 DEF Cover, Finish, InputsTypeOK
<1>3. CASE Reuse(f)
  BY <1>0, <1>3 DEF Reuse, Finish, InputsTypeOK
<1>4. CASE Export(f)
  <2>1. spoiled' \in BOOLEAN /\ crossed' \subseteq Flows
    BY <1>4, CrossesTypes DEF Export, InputsTypeOK
  <2> QED BY <1>0, <1>4, <2>1, FileTypes DEF Export, Begin, InputsTypeOK
<1>5. CASE Exported(f)
  <2>1. crossed' \subseteq Flows /\ kills' = kills /\ active' = active
    BY <1>5, CrossesTypes, ExportedCases DEF Exported, Finish, InputsTypeOK
  <2> QED BY <1>0, <1>5, <2>1, FileTypes DEF Exported, InputsTypeOK
<1>6. CASE SyncCode(f)
  <2>1. code' \in CodeSet
    <3>1. source \in 1 .. MaxVersions
      BY DEF InputsTypeOK
    <3>2. \A b \in BOOLEAN : [version |-> source, whole |-> b] \in CodeSet
      BY <3>1 DEF CodeSet
    <3>3. PICK b \in BOOLEAN : code' = [version |-> source, whole |-> b]
      BY <1>6 DEF SyncCode
    <3> QED BY <3>2, <3>3
  <2>2. crossed' \subseteq Flows /\ kills' = kills /\ active' = active
    BY <1>6, CrossesTypes DEF SyncCode, Finish, Begin, InputsTypeOK
  <2> QED BY <1>0, <1>6, <2>1, <2>2 DEF SyncCode, InputsTypeOK
<1>7. CASE Upload(f)
  <2>1. spoiled' \in BOOLEAN /\ crossed' \subseteq Flows /\ kills' = kills /\ active' = active
    BY <1>7, CrossesTypes DEF Upload, Finish, Begin, InputsTypeOK
  <2> QED BY <1>0, <1>7, <2>1, FileTypes DEF Upload, InputsTypeOK
<1>8. CASE Uploaded(f)
  <2>1. crossed' \subseteq Flows /\ kills' = kills /\ active' = active
    BY <1>8, CrossesTypes DEF Uploaded, Finish, InputsTypeOK
  <2> QED BY <1>0, <1>8, <2>1, FileTypes DEF Uploaded, InputsTypeOK
<1>9. CASE KillStep(f)
  <2>1. kills' \in 0 .. MaxKills /\ spoiled' \in BOOLEAN
    BY <1>9, InputsAssumption DEF KillStep, InputsTypeOK
  <2> QED BY <1>0, <1>9, <2>1, FileTypes DEF KillStep, InputsTypeOK
<1>10. CASE Rerun(f)
  <2>1. kills' \in 0 .. MaxKills /\ reused' \subseteq Flows
    BY <1>10, InputsAssumption DEF Rerun, InputsTypeOK
  <2>2. jobs' \in [Flows -> 0 .. 3]
    BY <1>10 DEF Rerun, InputsTypeOK
  <2>3. got' \in [Flows -> GotSet]
    <3>1. [file |-> {}, code |-> {}] \in GotSet
      BY DEF GotSet
    <3> QED BY <1>10, <3>1 DEF Rerun, InputsTypeOK
  <2> QED BY <1>0, <1>10, <2>1, <2>2, <2>3 DEF Rerun, InputsTypeOK
<1>11. CASE SubmitFlow(f)
  <2>1. jobs' \in [Flows -> 0 .. 3]
    BY <1>11 DEF SubmitFlow, InputsTypeOK
  <2> QED BY <1>0, <1>11, <2>1 DEF SubmitFlow, Finish, InputsTypeOK
<1>12. CASE JobReads(f)
  <2>1. jobs' \in [Flows -> 0 .. 3]
    BY <1>12 DEF JobReads, InputsTypeOK
  <2>2. got' \in [Flows -> GotSet]
    <3>1. got[f] \in GotSet /\ remote \in FileSet /\ code \in CodeSet
      BY DEF InputsTypeOK
    <3>3. got' = [got EXCEPT ![f] = [file |-> got[f].file \cup {remote},
                                     code |-> got[f].code \cup {code}]]
      BY <1>12 DEF JobReads, InputsTypeOK
    <3>4. [file |-> got[f].file \cup {remote}, code |-> got[f].code \cup {code}] \in GotSet
      BY <3>1 DEF GotSet
    <3> QED BY <3>3, <3>4 DEF InputsTypeOK
  <2> QED BY <1>0, <1>12, <2>1, <2>2 DEF JobReads, InputsTypeOK
<1> QED BY <1>1, <1>2, <1>3, <1>4, <1>5, <1>6, <1>7, <1>8, <1>9, <1>10, <1>11, <1>12
        DEF FlowStep

(* The files in pieces.                                                    *)

LEMMA SpoiledStays ==
  ASSUME InputsTypeOK, NEW f \in Flows, FlowStep(f), spoiled
  PROVE  spoiled'
<1> USE DEF fileVars, coverageVars, jobVars, runVars, causeVars
<1>1. CASE Check(f) \/ Cover(f) \/ Reuse(f) \/ Export(f) \/ Exported(f) \/ SyncCode(f)
  BY <1>1 DEF Check, Cover, Reuse, Export, Exported, SyncCode
<1>2. CASE Upload(f) \/ Uploaded(f) \/ KillStep(f) \/ Rerun(f) \/ SubmitFlow(f) \/ JobReads(f)
  BY <1>2 DEF Upload, Uploaded, KillStep, Rerun, SubmitFlow, JobReads
<1> QED BY <1>1, <1>2 DEF FlowStep

\* A step that neither exports nor uploads.
Besides(f) ==
  /\ UNCHANGED <<local, remote, handle, sending, spoiled>>
  /\ \A g \in Flows : /\ doing'[g] = "export" <=> doing[g] = "export"
                      /\ doing'[g] = "upload" <=> doing[g] = "upload"

LEMMA BesidesSteps ==
  ASSUME InputsTypeOK, NEW f \in Flows,
         \/ Check(f) \/ Cover(f) \/ Reuse(f) \/ SyncCode(f) \/ Rerun(f) \/ SubmitFlow(f)
         \/ JobReads(f)
  PROVE  Besides(f)
<1> USE DEF fileVars, coverageVars, jobVars, runVars, causeVars, Besides
<1>0. doing \in [Flows -> FlowSteps \cup {"none"}]
  BY DEF InputsTypeOK
<1>1. CASE Check(f) \/ Cover(f) \/ Reuse(f) \/ SubmitFlow(f)
  BY <1>0, <1>1 DEF Check, Cover, Reuse, SubmitFlow, Ready, Finish
<1>2. CASE SyncCode(f)
  BY <1>0, <1>2 DEF SyncCode, Ready, Begin, Finish
<1>3. CASE Rerun(f) \/ JobReads(f)
  BY <1>3 DEF Rerun, JobReads
<1> QED BY <1>1, <1>2, <1>3

LEMMA PiecesBesides ==
  ASSUME PiecesAreOpen, PrepareOpensItsOwn, NEW f \in Flows, Besides(f)
  PROVE  PiecesAreOpen' /\ PrepareOpensItsOwn'
<1>1. "orchestrator" \in Flows /\ "prepare" \in Flows
  BY DEF Flows
<1> QED BY <1>1 DEF Besides, PiecesAreOpen, PrepareOpensItsOwn, Sending

LEMMA PiecesExport ==
  ASSUME InputsTypeOK, PiecesAreOpen, PrepareOpensItsOwn, NEW f \in Flows, Export(f)
  PROVE  PiecesAreOpen' /\ PrepareOpensItsOwn'
<1> DEFINE cleared == IF f = "daily" /\ local["snapshot"].state # "none"
                      THEN {"snapshot", "tmp"} ELSE {}
           shared == OpenOn(Target(f)) # {} /\ Target(f) \notin cleared
<1>0. /\ doing \in [Flows -> FlowSteps \cup {"none"}] /\ handle \in [Flows -> Handles]
      /\ local \in [Files -> FileSet]
      /\ "orchestrator" \in Flows /\ "prepare" \in Flows
      /\ \A g \in Flows : handle[g] \in Handles
  BY DEF InputsTypeOK, Flows
<1>1. local' = [q \in Files |->
                  IF q = Target(f)
                  THEN [state |-> IF shared THEN "torn" ELSE "part", rows |-> days]
                  ELSE IF q \in cleared THEN NoSnapshot ELSE local[q]]
  BY DEF Export
<1>2. handle' = [g \in Flows |->
             IF g = f THEN [file |-> Target(f), rows |-> days]
             ELSE IF handle[g].file \in cleared THEN [handle[g] EXCEPT !.file = "gone"]
             ELSE handle[g]]
  BY DEF Export
<1>3. /\ spoiled' = (spoiled \/ shared) /\ remote' = remote
      /\ doing[f] = "none" /\ doing' = [doing EXCEPT ![f] = "export"]
      /\ f # "pipeline"
      /\ f = "orchestrator" => local["snapshot"].state = "none"
  BY DEF Export, Ready, Begin
<1>4. /\ f = "prepare" => Target(f) = "training"
      /\ f = "orchestrator" => Target(f) = "snapshot"
      /\ f \notin {"prepare", "orchestrator"} => Target(f) = "tmp"
  BY <1>3 DEF Target, DagFlows, Flows
<1>5. "training" \notin cleared
  OBVIOUS
<1> HIDE DEF cleared, shared
<1>6. PrepareOpensItsOwn'
  <2>1. CASE f = "prepare"
    BY <1>0, <1>2, <1>4, <2>1 DEF PrepareOpensItsOwn
  <2>2. CASE f # "prepare"
    BY <1>0, <1>2, <1>3, <1>5, <2>2 DEF PrepareOpensItsOwn
  <2> QED BY <2>1, <2>2
<1>7. ASSUME ~spoiled' PROVE ~spoiled /\ ~shared
  BY <1>3, <1>7
<1>8. ASSUME ~spoiled', NEW p \in Files PROVE local'[p].state # "torn"
  <2>1. local[p].state # "torn"
    BY <1>7, <1>8 DEF PiecesAreOpen
  <2> QED BY <1>1, <1>7, <1>8, <2>1 DEF NoSnapshot
<1>9. ASSUME ~spoiled', local'["snapshot"].state = "part"
      PROVE  doing'["orchestrator"] = "export" /\ handle'["orchestrator"].file = "snapshot"
  <2>1. CASE f = "orchestrator"
    BY <1>0, <1>2, <1>3, <1>4, <2>1
  <2>2. CASE f # "orchestrator"
    <3>1. Target(f) # "snapshot" /\ "snapshot" \in Files
      BY <1>4, <2>2 DEF Files
    <3>2. "snapshot" \notin cleared /\ local["snapshot"].state = "part"
      BY <1>1, <1>9, <3>1 DEF NoSnapshot
    <3>3. doing["orchestrator"] = "export" /\ handle["orchestrator"].file = "snapshot"
      BY <1>7, <1>9, <3>2 DEF PiecesAreOpen
    <3> QED BY <1>0, <1>2, <1>3, <2>2, <3>2, <3>3
  <2> QED BY <2>1, <2>2
<1>10. ASSUME ~spoiled', local'["training"].state = "part"
       PROVE  doing'["prepare"] = "export"
  <2>1. CASE f = "prepare"
    BY <1>0, <1>3, <2>1
  <2>2. CASE f # "prepare"
    <3>1. Target(f) # "training" /\ "training" \in Files
      BY <1>4, <2>2 DEF Files
    <3>2. local["training"].state = "part"
      BY <1>1, <1>5, <1>10, <3>1
    <3> QED BY <1>0, <1>3, <1>7, <1>10, <2>2, <3>2 DEF PiecesAreOpen
  <2> QED BY <2>1, <2>2
<1>11. ASSUME ~spoiled'
       PROVE  /\ remote'.state # "torn"
              /\ \A g \in Flows : Sending(g)' =>
                   /\ remote'.state = "part" /\ sending'[g].state # "torn"
                   /\ \A h \in Flows \ {g} : ~Sending(h)'
  <2>1. sending' = sending /\ \A g \in Flows : doing'[g] = "upload" => doing[g] = "upload"
    BY <1>0, <1>3 DEF Export
  <2> QED BY <1>3, <1>7, <1>11, <2>1 DEF PiecesAreOpen, Sending
<1>12. PiecesAreOpen'
  BY <1>8, <1>9, <1>10, <1>11 DEF PiecesAreOpen
<1> QED BY <1>6, <1>12

LEMMA PiecesExported ==
  ASSUME InputsTypeOK, PiecesAreOpen, PrepareOpensItsOwn, NEW f \in Flows, Exported(f)
  PROVE  PiecesAreOpen' /\ PrepareOpensItsOwn'
<1>0. /\ doing \in [Flows -> FlowSteps \cup {"none"}] /\ handle \in [Flows -> Handles]
      /\ local \in [Files -> FileSet]
      /\ "orchestrator" \in Flows /\ "prepare" \in Flows
      /\ \A g \in Flows : handle[g] \in Handles
      /\ Files = {"snapshot", "tmp", "training"}
  BY DEF InputsTypeOK, Flows, Files
<1>1. doing[f] = "export" /\ spoiled' = spoiled /\ remote' = remote
  BY DEF Exported
<1>2. doing' = [doing EXCEPT ![f] = "none"]
  BY ExportedCases DEF Finish
<1>3. \A g \in Flows \ {f} : handle'[g].file = handle[g].file
                             \/ (handle[g].file = "tmp" /\ handle'[g].file = "snapshot")
                             \/ (handle[g].file = "snapshot" /\ handle[f].file = "tmp")
  <2>1. CASE handle' = [handle EXCEPT ![f].file = "none"]
    BY <1>0, <2>1
  <2>2. ASSUME handle[f].file = "tmp",
               handle' = [g \in Flows |->
                 IF g = f THEN [handle[g] EXCEPT !.file = "none"]
                 ELSE IF handle[g].file = "tmp" THEN [handle[g] EXCEPT !.file = "snapshot"]
                 ELSE IF handle[g].file = "snapshot" THEN [handle[g] EXCEPT !.file = "gone"]
                 ELSE handle[g]],
               NEW g \in Flows \ {f}
        PROVE  \/ handle'[g].file = handle[g].file
               \/ handle[g].file = "tmp" /\ handle'[g].file = "snapshot"
               \/ handle[g].file = "snapshot" /\ handle[f].file = "tmp"
    <3>1. CASE handle[g].file = "tmp"
      BY <1>0, <2>2, <3>1 DEF Handles
    <3>2. CASE handle[g].file # "tmp"
      BY <1>0, <2>2, <3>2
    <3> QED BY <3>1, <3>2
  <2> QED BY <2>1, <2>2, ExportedCases
<1>4. PrepareOpensItsOwn'
  <2>1. CASE f = "prepare"
    BY <1>0, <1>2, <2>1 DEF PrepareOpensItsOwn
  <2>2. CASE f # "prepare"
    BY <1>0, <1>2, <1>3, <2>2 DEF PrepareOpensItsOwn
  <2> QED BY <2>1, <2>2
<1>5. \A p \in Files : ~spoiled => \A w \in WrittenBy(f, p) : w.state = "whole"
  BY DEF WrittenBy, PiecesAreOpen
\* The file an export ends in is whole, the others stay or are gone.
<1>w. ASSUME ~spoiled, NEW p \in Files
      PROVE  \/ local'[p].state \in {"whole", "none"}
             \/ /\ local'[p] = local[p]
                /\ p = "snapshot" => handle[f].file # "tmp"
                /\ f \notin DagFlows => handle[f].file # p
  <2>1. ASSUME handle[f].file = "tmp", NEW w \in WrittenBy(f, "tmp"),
               local' = [local EXCEPT !.snapshot = w, !.tmp = NoSnapshot]
        PROVE  \/ local'[p].state \in {"whole", "none"}
               \/ /\ local'[p] = local[p]
                  /\ p = "snapshot" => handle[f].file # "tmp"
                  /\ f \notin DagFlows => handle[f].file # p
    <3>1. w.state = "whole" /\ NoSnapshot.state = "none"
      BY <1>0, <1>5, <1>w, <2>1 DEF NoSnapshot
    <3> QED BY <1>0, <2>1, <3>1
  <2>2. ASSUME handle[f].file \in {"snapshot", "training"},
               NEW w \in WrittenBy(f, handle[f].file),
               local' = [local EXCEPT ![handle[f].file] = w]
        PROVE  \/ local'[p].state \in {"whole", "none"}
               \/ /\ local'[p] = local[p]
                  /\ p = "snapshot" => handle[f].file # "tmp"
                  /\ f \notin DagFlows => handle[f].file # p
    <3>1. w.state = "whole"
      BY <1>0, <1>5, <1>w, <2>2
    <3> QED BY <1>0, <2>2, <3>1
  <2>3. CASE /\ handle[f].file = "training" => f \in DagFlows
             /\ handle[f].file = "snapshot" => f \in DagFlows
             /\ handle[f].file # "tmp" /\ local' = local
    BY <1>0, <2>3
  <2>4. \/ /\ handle[f].file = "tmp"
           /\ \E w \in WrittenBy(f, "tmp") :
                local' = [local EXCEPT !.snapshot = w, !.tmp = NoSnapshot]
        \/ /\ handle[f].file \in {"snapshot", "training"}
           /\ \E w \in WrittenBy(f, handle[f].file) :
                local' = [local EXCEPT ![handle[f].file] = w]
        \/ /\ handle[f].file = "training" => f \in DagFlows
           /\ handle[f].file = "snapshot" => f \in DagFlows
           /\ handle[f].file # "tmp" /\ local' = local
    BY DEF Exported
  <2> QED BY <2>1, <2>2, <2>3, <2>4
<1>6. ASSUME ~spoiled', NEW p \in Files PROVE local'[p].state # "torn"
  BY <1>1, <1>6, <1>w DEF PiecesAreOpen
<1>7. ASSUME ~spoiled', local'["snapshot"].state = "part"
      PROVE  doing'["orchestrator"] = "export" /\ handle'["orchestrator"].file = "snapshot"
  <2>1. /\ handle[f].file # "tmp" /\ local["snapshot"].state = "part"
        /\ f \notin DagFlows => handle[f].file # "snapshot"
    BY <1>0, <1>1, <1>7, <1>w
  <2>3. doing["orchestrator"] = "export" /\ handle["orchestrator"].file = "snapshot"
    BY <1>1, <1>7, <2>1 DEF PiecesAreOpen
  <2>4. f # "orchestrator"
    BY <2>1, <2>3 DEF DagFlows
  <2> QED BY <1>0, <1>2, <1>3, <2>1, <2>3, <2>4
<1>8. ASSUME ~spoiled', local'["training"].state = "part"
      PROVE  doing'["prepare"] = "export"
  <2>1. /\ local["training"].state = "part"
        /\ f \notin DagFlows => handle[f].file # "training"
    BY <1>0, <1>1, <1>8, <1>w
  <2>2. doing["prepare"] = "export"
    BY <1>1, <1>8, <2>1 DEF PiecesAreOpen
  <2>3. f # "prepare"
    BY <2>1, <2>2 DEF DagFlows, PrepareOpensItsOwn
  <2> QED BY <1>0, <1>2, <2>2, <2>3
<1>9. ASSUME ~spoiled'
      PROVE  /\ remote'.state # "torn"
             /\ \A g \in Flows : Sending(g)' =>
                  /\ remote'.state = "part" /\ sending'[g].state # "torn"
                  /\ \A h \in Flows \ {g} : ~Sending(h)'
  <2>1. sending' = sending /\ \A g \in Flows : doing'[g] = "upload" => doing[g] = "upload"
    BY <1>0, <1>2 DEF Exported
  <2> QED BY <1>1, <1>9, <2>1 DEF PiecesAreOpen, Sending
<1>10. PiecesAreOpen'
  BY <1>6, <1>7, <1>8, <1>9 DEF PiecesAreOpen
<1> QED BY <1>4, <1>10

LEMMA PiecesSend ==
  ASSUME InputsTypeOK, PiecesAreOpen, PrepareOpensItsOwn, NEW f \in Flows,
         Upload(f) \/ Uploaded(f) \/ KillStep(f)
  PROVE  PiecesAreOpen' /\ PrepareOpensItsOwn'
<1>0. /\ doing \in [Flows -> FlowSteps \cup {"none"}] /\ handle \in [Flows -> Handles]
      /\ "orchestrator" \in Flows /\ "prepare" \in Flows
      /\ \A g \in Flows : handle[g] \in Handles
  BY DEF InputsTypeOK, Flows
<1>1. CASE Upload(f)
  <2>1. CASE Finish(f, "upload") /\ UNCHANGED <<remote, sending, crossed, spoiled>>
    <3>1. Besides(f)
      BY <1>0, <1>1, <2>1 DEF Upload, Besides, Finish, Ready
    <3> QED BY <3>1, PiecesBesides
  <2>2. CASE ~(Finish(f, "upload") /\ UNCHANGED <<remote, sending, crossed, spoiled>>)
    <3> DEFINE shared == \E g \in Flows : Sending(g)
    <3>1. /\ doing[f] = "none" /\ doing' = [doing EXCEPT ![f] = "upload"]
          /\ remote' = [state |-> IF shared THEN "torn" ELSE "part", rows |-> {}]
          /\ spoiled' = (spoiled \/ shared) /\ local' = local /\ handle' = handle
          /\ sending' = [sending EXCEPT ![f] = LocalOf(f)]
      BY <1>1, <2>2 DEF Upload, Begin, Ready
    <3>2. /\ \A g \in Flows : doing'[g] = "export" <=> doing[g] = "export"
          /\ \A g \in Flows \ {f} : doing'[g] = doing[g]
      BY <1>0, <3>1
    <3>3. ASSUME ~spoiled'
          PROVE  /\ remote'.state = "part"
                 /\ \A g \in Flows : Sending(g)' =>
                      /\ sending'[g].state # "torn"
                      /\ \A h \in Flows \ {g} : ~Sending(h)'
      <4>1. ~spoiled /\ \A g \in Flows : ~Sending(g)
        BY <3>1, <3>3
      <4>2. LocalOf(f).state # "torn"
        BY <4>1 DEF PiecesAreOpen, LocalOf, Files
      <4>3. sending'[f].state # "torn"
        BY <3>1, <4>2 DEF InputsTypeOK
      <4> QED BY <3>1, <3>2, <4>1, <4>3 DEF Sending
    <3>4. spoiled => spoiled'
      BY <3>1
    <3> HIDE DEF shared
    <3> QED BY <1>0, <3>1, <3>2, <3>3, <3>4 DEF PiecesAreOpen, PrepareOpensItsOwn, Sending
  <2> QED BY <2>1, <2>2
<1>2. CASE Uploaded(f)
  <2>1. /\ doing[f] = "upload" /\ doing' = [doing EXCEPT ![f] = "none"]
        /\ local' = local /\ handle' = handle /\ spoiled' = spoiled
        /\ remote.state = "part" => remote' = sending[f]
    BY <1>2 DEF Uploaded, Finish, Sending
  <2>2. /\ doing'[f] = "none" /\ \A g \in Flows \ {f} : doing'[g] = doing[g]
    BY <1>0, <2>1
  <2>3. ASSUME ~spoiled
        PROVE  /\ remote'.state # "torn" /\ \A g \in Flows : ~Sending(g)'
    <3>1. /\ remote.state = "part" /\ sending[f].state # "torn"
          /\ \A g \in Flows \ {f} : doing[g] # "upload"
      BY <2>1, <2>3 DEF PiecesAreOpen, Sending
    <3>2. \A g \in Flows : doing'[g] # "upload"
      BY <2>2, <3>1
    <3> QED BY <2>1, <3>1, <3>2 DEF Sending
  <2>4. PrepareOpensItsOwn'
    BY <1>0, <2>1, <2>2 DEF PrepareOpensItsOwn
  <2>5. /\ doing["orchestrator"] = "export" => doing'["orchestrator"] = "export"
        /\ doing["prepare"] = "export" => doing'["prepare"] = "export"
    BY <1>0, <2>1, <2>2
  <2> QED BY <2>1, <2>3, <2>4, <2>5 DEF PiecesAreOpen
<1>3. CASE KillStep(f)
  <2>1. /\ doing' = [doing EXCEPT ![f] = "none"] /\ local' = local /\ remote' = remote
        /\ handle' = [handle EXCEPT ![f].file = "none"]
        /\ sending' = [sending EXCEPT ![f] = NoSnapshot]
        /\ spoiled' = (spoiled \/ (doing[f] = "export" /\ f \notin DagFlows))
    BY <1>3 DEF KillStep
  <2>2. /\ doing'[f] = "none"
        /\ \A g \in Flows \ {f} :
             doing'[g] = doing[g] /\ handle'[g] = handle[g] /\ sending'[g] = sending[g]
    BY <1>0, <2>1 DEF InputsTypeOK
  <2>3. ASSUME ~spoiled', NEW g \in {"orchestrator", "prepare"}, doing[g] = "export"
        PROVE  g # f
    BY <2>1, <2>3 DEF DagFlows
  <2>4. PrepareOpensItsOwn'
    BY <1>0, <2>2 DEF PrepareOpensItsOwn
  <2>5. ASSUME ~spoiled'
        PROVE  \A g \in Flows : Sending(g)' =>
                  /\ remote'.state = "part" /\ sending'[g].state # "torn"
                  /\ \A h \in Flows \ {g} : ~Sending(h)'
    BY <2>1, <2>2, <2>5 DEF PiecesAreOpen, Sending
  <2>6. ASSUME ~spoiled'
        PROVE  /\ \A p \in Files : local'[p].state # "torn"
               /\ remote'.state # "torn"
               /\ local'["snapshot"].state = "part" =>
                    doing'["orchestrator"] = "export" /\ handle'["orchestrator"].file = "snapshot"
               /\ local'["training"].state = "part" => doing'["prepare"] = "export"
    BY <1>0, <2>1, <2>2, <2>3, <2>6 DEF PiecesAreOpen
  <2> QED BY <2>4, <2>5, <2>6 DEF PiecesAreOpen
<1> QED BY <1>1, <1>2, <1>3

(* What a flow has of its own, while others take their steps.              *)

LEMMA OwnStays ==
  ASSUME NEW f \in Flows, OwnInputs(f),
         f \in crossed => f \in crossed', spoiled => spoiled',
         remote' = remote, code' = code, source' = source,
         got'[f] = got[f], jobs'[f] = jobs[f],
         "upload" \in ready'[f] => "upload" \in ready[f],
         "code" \in ready'[f] => "code" \in ready[f],
         doing'[f] = "upload" => doing[f] = "upload" /\ sending'[f] = sending[f],
         doing'[f] = "code" => doing[f] = "code",
         \A g \in Flows \ {f} : doing'[g] \in {doing[g], "none"}
  PROVE  OwnInputs(f)'
<1>1. HasSent(f)'
  BY DEF OwnInputs, HasSent, Live, Sending
<1>2. HasCode(f)'
  BY DEF OwnInputs, HasCode, Live
<1>3. HasRead(f)'
  BY DEF OwnInputs, HasRead
<1> QED BY <1>1, <1>2, <1>3 DEF OwnInputs

LEMMA CrossedByOthers ==
  ASSUME NEW f \in Flows, NEW g \in Flows \ {f}, Crosses(g), UnderWay(f)
  PROVE  f \in crossed'
  BY DEF Crosses

LEMMA AloneIfUncrossed ==
  ASSUME NEW f \in Flows, Crosses(f), f \notin crossed', NEW g \in Flows \ {f}
  PROVE  ~UnderWay(g)
<1> DEFINE others == {h \in Flows \ {f} : UnderWay(h)}
<1>1. crossed' = crossed \cup others \cup (IF others = {} THEN {} ELSE {f})
  BY DEF Crosses
<1>2. others = {}
  BY <1>1
<1> QED BY <1>2

LEMMA AtRestIfNotUnderWay ==
  ASSUME InputsTypeOK, NEW f \in Flows, InOrder(f), ~UnderWay(f)
  PROVE  doing[f] = "none" /\ (jobs[f] = 3 \/ (ready[f] = {} /\ jobs[f] = 0))
<1>1. jobs[f] \in 0 .. 3
  BY DEF InputsTypeOK
<1>2. CASE jobs[f] = 3
  BY <1>2, JobsAreDone
<1>3. CASE jobs[f] # 3
  <2>1. ready[f] = {} /\ doing[f] = "none"
    BY <1>1, <1>3 DEF UnderWay
  <2>2. ~(jobs[f] > 0)
    BY <2>1 DEF InOrder
  <2> QED BY <1>1, <2>1, <2>2
<1> QED BY <1>2, <1>3

\* A step that writes no file others use.
Quietly(g) ==
  /\ UNCHANGED <<local, remote, code, source, crossed>>
  /\ doing'[g] \in {doing[g], "none"}

LEMMA CrossesOrQuietly ==
  ASSUME InputsTypeOK, NEW g \in Flows, FlowStep(g)
  PROVE  /\ Crosses(g) \/ Quietly(g)
         /\ source' = source /\ crossed \subseteq crossed'
         /\ \A f \in Flows \ {g} : sending'[f] = sending[f]
<1> USE DEF fileVars, coverageVars, jobVars, runVars, causeVars
<1>0. doing \in [Flows -> FlowSteps \cup {"none"}] /\ sending \in [Flows -> FileSet]
  BY DEF InputsTypeOK
<1>x. Crosses(g) => crossed \subseteq crossed'
  BY DEF Crosses
<1>1. CASE Check(g) \/ Cover(g) \/ Reuse(g) \/ SubmitFlow(g)
  BY <1>0, <1>1 DEF Check, Cover, Reuse, SubmitFlow, Finish, Quietly
<1>2. CASE Rerun(g) \/ JobReads(g)
  BY <1>2 DEF Rerun, JobReads, Quietly
<1>3. CASE Export(g) \/ Exported(g) \/ SyncCode(g)
  BY <1>3, <1>x DEF Export, Exported, SyncCode
<1>4. CASE Upload(g)
  BY <1>0, <1>4, <1>x DEF Upload, Finish, Quietly
<1>5. CASE Uploaded(g)
  BY <1>0, <1>5, <1>x DEF Uploaded
<1>6. CASE KillStep(g)
  BY <1>0, <1>6 DEF KillStep, Quietly
<1> QED BY <1>1, <1>2, <1>3, <1>4, <1>5, <1>6 DEF FlowStep

LEMMA OwnByOthers ==
  ASSUME InputsTypeOK, NEW f \in Flows, InOrder(f), OwnInputs(f),
         NEW g \in Flows \ {f}, FlowStep(g)
  PROVE  OwnInputs(f)'
<1>1. /\ ready'[f] = ready[f] /\ doing'[f] = doing[f] /\ jobs'[f] = jobs[f] /\ got'[f] = got[f]
      /\ \A h \in Flows \ {g} : doing'[h] = doing[h]
  BY StepsOfFlow
<1>2. /\ source' = source /\ crossed \subseteq crossed' /\ sending'[f] = sending[f]
      /\ spoiled => spoiled'
  BY CrossesOrQuietly, SpoiledStays
<1>3. CASE Quietly(g)
  <2>1. \A h \in Flows \ {f} : doing'[h] \in {doing[h], "none"}
    BY <1>1, <1>3 DEF Quietly
  <2> QED BY <1>1, <1>2, <1>3, <2>1, OwnStays DEF Quietly
<1>4. CASE Crosses(g) /\ UnderWay(f)
  <2>1. f \in crossed'
    BY <1>4, CrossedByOthers
  <2> QED BY <1>1, <2>1 DEF OwnInputs, HasSent, HasCode, HasRead, Live
<1>5. CASE ~UnderWay(f)
  <2>1. doing[f] = "none" /\ (jobs[f] = 3 \/ (ready[f] = {} /\ jobs[f] = 0))
    BY <1>5, AtRestIfNotUnderWay
  <2>2. HasSent(f)' /\ HasCode(f)'
    BY <1>1, <2>1 DEF HasSent, HasCode, Live, Sending
  <2>3. HasRead(f)'
    BY <1>1, <1>2, <2>1 DEF OwnInputs, HasRead
  <2> QED BY <2>2, <2>3 DEF OwnInputs
<1> QED BY <1>3, <1>4, <1>5, CrossesOrQuietly

\* A flow that is still to upload has no job.
LEMMA NoJobBefore ==
  ASSUME InputsTypeOK, NEW f \in Flows, InOrder(f), HasRead(f), NEW s \in DOMAIN Needs[f],
         s \notin ready[f]
  PROVE  jobs[f] = 0 /\ got[f].file = {} /\ got[f].code = {}
<1>1. jobs[f] \in 0 .. 3
  BY DEF InputsTypeOK
<1>2. ~(jobs[f] > 0)
  BY JobsAreDone
<1> QED BY <1>1, <1>2 DEF HasRead

\* What an uncrossed flow is about to send is whole.
LEMMA LocalIsWhole ==
  ASSUME InputsTypeOK, PiecesAreOpen, NEW f \in Flows, InOrder(f), HasCode(f),
         Ready(f, "upload"), LocalOf(f).state # "none", f \notin crossed, jobs[f] = 0
  PROVE  LocalOf(f).state = "whole" \/ spoiled
<1> SUFFICES ASSUME ~spoiled PROVE LocalOf(f).state = "whole"
  OBVIOUS
<1>1. LocalOf(f).state \in {"part", "torn", "whole"}
  BY DEF InputsTypeOK, LocalOf, FileSet, Files
<1>2. LocalOf(f).state # "torn"
  BY DEF PiecesAreOpen, LocalOf, Files
<1>3. LocalOf(f).state # "part"
  <2>1. CASE f = "prepare"
    <3>1. doing["prepare"] = "none"
      BY <2>1 DEF Ready
    <3> QED BY <2>1, <3>1 DEF PiecesAreOpen, LocalOf
  <2>2. CASE f = "orchestrator"
    <3>1. doing["orchestrator"] = "none"
      BY <2>2 DEF Ready
    <3> QED BY <2>2, <3>1 DEF PiecesAreOpen, LocalOf
  <2>3. CASE f \in {"daily", "base", "pipeline"}
    <3>1. "code" \in Needs[f]["upload"]
      BY <2>3 DEF Needs, DagNeeds
    <3>2. "code" \in ready[f]
      BY <3>1 DEF Ready
    <3>3. doing["orchestrator"] = "none"
      BY <2>3, <3>2 DEF HasCode, Live, Flows
    <3> QED BY <2>3, <3>3 DEF PiecesAreOpen, LocalOf
  <2> QED BY <2>1, <2>2, <2>3 DEF Flows, DagFlows
<1> QED BY <1>1, <1>2, <1>3

LEMMA OwnStep ==
  ASSUME InputsTypeOK, PiecesAreOpen, \A g \in Flows : InOrder(g),
         NEW f \in Flows, OwnInputs(f), FlowStep(f)
  PROVE  OwnInputs(f)'
<1> USE DEF fileVars, coverageVars, jobVars, runVars, causeVars
<1>0. /\ ready \in [Flows -> SUBSET FlowSteps] /\ doing \in [Flows -> FlowSteps \cup {"none"}]
      /\ jobs \in [Flows -> 0 .. 3] /\ got \in [Flows -> GotSet] /\ sending \in [Flows -> FileSet]
      /\ got[f] \in GotSet
  BY DEF InputsTypeOK
<1>s. /\ source' = source /\ crossed \subseteq crossed'
      /\ spoiled => spoiled'
  BY CrossesOrQuietly, SpoiledStays
<1>g. \A g \in Flows \ {f} : doing'[g] = doing[g]
  BY StepsOfFlow
<1>n. \A s \in DOMAIN Needs[f] : s \notin ready[f] =>
        jobs[f] = 0 /\ got[f].file = {} /\ got[f].code = {}
  BY NoJobBefore DEF OwnInputs
<1>1. CASE Check(f) \/ Cover(f) \/ Reuse(f)
  <2>1. PICK s \in {"health", "cover", "export"} : Finish(f, s)
    BY <1>1 DEF Check, Cover, Reuse
  <2>2. ready'[f] = ready[f] \cup {s} /\ doing'[f] = "none"
    BY <1>0, <2>1 DEF Finish
  <2>3. remote' = remote /\ code' = code /\ got' = got /\ jobs' = jobs
    BY <1>1 DEF Check, Cover, Reuse
  <2> QED BY <1>s, <1>g, <2>1, <2>2, <2>3, OwnStays
<1>2. CASE Export(f)
  <2>1. /\ ready' = ready /\ doing'[f] = "export"
        /\ remote' = remote /\ code' = code /\ got' = got /\ jobs' = jobs
    BY <1>0, <1>2 DEF Export, Begin
  <2> QED BY <1>s, <1>g, <2>1, OwnStays
<1>3. CASE Exported(f)
  <2>1. /\ ready'[f] \in {ready[f], ready[f] \cup {"export"}} /\ doing'[f] = "none"
        /\ remote' = remote /\ code' = code /\ got' = got /\ jobs' = jobs
    <3>1. ready' = ready \/ ready' = [ready EXCEPT ![f] = @ \cup {"export"}]
      BY <1>3, ExportedCases DEF Finish
    <3>2. doing' = [doing EXCEPT ![f] = "none"]
      BY <1>3, ExportedCases DEF Finish
    <3> QED BY <1>0, <1>3, <3>1, <3>2 DEF Exported
  <2> QED BY <1>s, <1>g, <2>1, OwnStays
<1>4. CASE KillStep(f)
  <2>1. /\ ready' = ready /\ doing'[f] = "none"
        /\ remote' = remote /\ code' = code /\ got' = got /\ jobs' = jobs
    BY <1>0, <1>4 DEF KillStep
  <2> QED BY <1>s, <1>g, <2>1, OwnStays
<1>5. CASE Rerun(f)
  <2>1. /\ ready'[f] = {} /\ doing'[f] = "none" /\ jobs'[f] = 0
        /\ got'[f].file = {} /\ got'[f].code = {}
    BY <1>0, <1>5 DEF Rerun
  <2> QED BY <2>1 DEF OwnInputs, HasSent, HasCode, HasRead, Sending
<1>6. CASE SyncCode(f)
  <2>1. /\ remote' = remote /\ got' = got /\ jobs' = jobs /\ Crosses(f)
        /\ "code" \in DOMAIN Needs[f] \ ready[f]
    BY <1>6 DEF SyncCode, Ready, InOrder
  <2>2. jobs[f] = 0 /\ got[f].file = {} /\ got[f].code = {}
    BY <1>n, <2>1
  <2>3. HasRead(f)'
    BY <2>1, <2>2 DEF HasRead
  <2>4. CASE Ready(f, "code") /\ Begin(f, "code") /\ code' = [version |-> source, whole |-> FALSE]
    <3>1. ready' = ready /\ doing'[f] = "code" /\ code'.version = source'
      BY <1>0, <1>s, <2>4 DEF Begin
    <3>2. HasSent(f)' /\ HasCode(f)'
      BY <1>s, <2>1, <3>1 DEF OwnInputs, HasSent, HasCode, Live, Sending
    <3> QED BY <2>3, <3>2 DEF OwnInputs
  <2>5. CASE /\ doing[f] = "code" /\ Finish(f, "code")
             /\ code' = [version |-> source, whole |-> code.version = source]
    <3>1. ready'[f] = ready[f] \cup {"code"} /\ doing'[f] = "none"
      BY <1>0, <2>5 DEF Finish
    <3>2. f \notin crossed' => code'.whole
      BY <1>s, <2>5 DEF OwnInputs, HasCode
    <3>3. ASSUME f \notin crossed', NEW g \in Flows \ {f} PROVE doing'[g] = "none"
      BY <1>g, <2>1, <3>3, AloneIfUncrossed, AtRestIfNotUnderWay
    <3>4. HasCode(f)'
      BY <3>1, <3>2, <3>3 DEF HasCode, Live
    <3>5. HasSent(f)'
      BY <1>s, <2>1, <3>1 DEF OwnInputs, HasSent, Live, Sending
    <3> QED BY <2>3, <3>4, <3>5 DEF OwnInputs
  <2> QED BY <1>6, <2>4, <2>5 DEF SyncCode
<1>7. CASE Upload(f)
  <2>1. /\ code' = code /\ got' = got /\ jobs' = jobs /\ Ready(f, "upload")
        /\ LocalOf(f).state # "none"
        /\ "upload" \in DOMAIN Needs[f] \ ready[f]
    BY <1>7 DEF Upload, Ready
  <2>2. jobs[f] = 0 /\ got[f].file = {} /\ got[f].code = {}
    BY <1>n, <2>1
  <2>3. HasRead(f)'
    BY <2>1, <2>2 DEF HasRead
  <2>4. f \notin crossed => LocalOf(f).state = "whole" \/ spoiled
    BY <2>1, <2>2, LocalIsWhole DEF OwnInputs
  <2>5. CASE /\ MaySeemSame(f) /\ Finish(f, "upload")
             /\ UNCHANGED <<remote, sending, crossed, spoiled>>
    <3>1. ready'[f] = ready[f] \cup {"upload"} /\ doing'[f] = "none"
      BY <1>0, <2>5 DEF Finish
    <3>2. HasCode(f)'
      BY <1>s, <1>g, <2>1, <2>5, <3>1 DEF OwnInputs, HasCode, Live
    <3>3. f \notin crossed => remote.state = "whole" \/ spoiled
      BY <2>4, <2>5 DEF MaySeemSame, SameSize, PiecesAreOpen
    <3>4. HasSent(f)'
      BY <2>5, <3>1, <3>3 DEF HasSent, Live, Sending
    <3> QED BY <2>3, <3>2, <3>4 DEF OwnInputs
  <2>6. CASE Begin(f, "upload") /\ sending' = [sending EXCEPT ![f] = LocalOf(f)]
    <3>1. ready' = ready /\ doing'[f] = "upload" /\ sending'[f] = LocalOf(f)
      BY <1>0, <2>6 DEF Begin
    <3>2. HasCode(f)'
      BY <1>s, <1>g, <2>1, <3>1 DEF OwnInputs, HasCode, Live
    <3>3. HasSent(f)'
      BY <1>s, <2>1, <2>4, <3>1 DEF HasSent, Live, Sending
    <3> QED BY <2>3, <3>2, <3>3 DEF OwnInputs
  <2> QED BY <1>7, <2>5, <2>6 DEF Upload
<1>8. CASE Uploaded(f)
  <2>1. /\ code' = code /\ got' = got /\ jobs' = jobs /\ doing[f] = "upload"
        /\ spoiled' = spoiled
        /\ "upload" \in DOMAIN Needs[f] \ ready[f]
    BY <1>8 DEF Uploaded, Sending, InOrder
  <2>2. jobs[f] = 0 /\ got[f].file = {} /\ got[f].code = {}
    BY <1>n, <2>1
  <2>3. HasRead(f)'
    BY <2>1, <2>2 DEF HasRead
  <2>4. ready'[f] = ready[f] \cup {"upload"} /\ doing'[f] = "none"
    BY <1>0, <1>8 DEF Uploaded, Finish
  <2>5. HasCode(f)'
    BY <1>s, <1>g, <2>1, <2>4 DEF OwnInputs, HasCode, Live
  <2>6. f \notin crossed => remote'.state = "whole" \/ spoiled
    <3>1. SUFFICES ASSUME f \notin crossed, ~spoiled PROVE remote'.state = "whole"
      OBVIOUS
    <3>2. remote.state = "part" /\ sending[f].state = "whole"
      BY <2>1, <3>1 DEF OwnInputs, HasSent, PiecesAreOpen, Sending
    <3> QED BY <1>8, <3>2 DEF Uploaded
  <2>7. HasSent(f)'
    BY <1>s, <2>1, <2>4, <2>6 DEF HasSent, Live, Sending
  <2> QED BY <2>3, <2>5, <2>7 DEF OwnInputs
<1>9. CASE SubmitFlow(f)
  <2>1. /\ ready'[f] = ready[f] \cup {"submit"} /\ doing'[f] = "none" /\ jobs'[f] = 1
        /\ remote' = remote /\ code' = code /\ got' = got /\ spoiled' = spoiled
        /\ "submit" \in DOMAIN Needs[f] \ ready[f]
    BY <1>0, <1>9 DEF SubmitFlow, Finish, Ready
  <2>2. jobs[f] = 0 /\ got[f].file = {} /\ got[f].code = {}
    BY <1>n, <2>1
  <2>3. HasRead(f)'
    BY <2>1, <2>2 DEF HasRead
  <2>4. HasSent(f)' /\ HasCode(f)'
    BY <1>s, <1>g, <2>1, <2>2 DEF OwnInputs, HasSent, HasCode, Live, Sending
  <2> QED BY <2>3, <2>4 DEF OwnInputs
<1>10. CASE JobReads(f)
  <2>1. /\ ready' = ready /\ doing' = doing /\ remote' = remote /\ code' = code
        /\ sending' = sending /\ crossed' = crossed /\ spoiled' = spoiled
        /\ jobs[f] \in {1, 2} /\ jobs'[f] = jobs[f] + 1
        /\ jobs'[f] < 3 => jobs[f] < 3
    BY <1>0, <1>10 DEF JobReads
  <2>2. /\ got'[f].file = got[f].file \cup {remote} /\ got'[f].code = got[f].code \cup {code}
    <3>1. got' = [got EXCEPT ![f] = [file |-> got[f].file \cup {remote},
                                     code |-> got[f].code \cup {code}]]
      BY <1>10 DEF JobReads, InputsTypeOK
    <3> QED BY <1>0, <3>1
  <2>3. /\ DOMAIN Needs[f] \subseteq ready[f] /\ "upload" \in DOMAIN Needs[f]
        /\ doing[f] = "none"
    <3>1. "upload" \in DOMAIN Needs[f]
      BY DEF Needs, DagNeeds, Flows, DagFlows
    <3> QED BY <2>1, <3>1, JobsAreDone
  <2>4. f \notin crossed => /\ remote.state = "whole" \/ spoiled
                            /\ "code" \in DOMAIN Needs[f] => code.whole
    BY <2>1, <2>3 DEF OwnInputs, HasSent, HasCode, Live
  <2>5. HasSent(f)' /\ HasCode(f)'
    <3>1. Live(f)' => Live(f)
      BY <2>1 DEF Live
    <3> QED BY <1>s, <2>1, <3>1 DEF OwnInputs, HasSent, HasCode, Sending
  <2>6. HasRead(f)'
    <3>1. CASE jobs[f] = 1
      <4>1. got'[f].file = {remote} /\ got'[f].code = {code} /\ jobs'[f] = 2
        BY <2>1, <2>2, <3>1 DEF OwnInputs, HasRead
      <4> QED BY <2>1, <2>4, <4>1 DEF HasRead
    <3>2. CASE jobs[f] = 2
      <4>1. jobs'[f] = 3 /\ (f \notin crossed => got'[f].file = {remote} /\ got'[f].code = {code})
        BY <2>1, <2>2, <3>2 DEF OwnInputs, HasRead
      <4> QED BY <2>1, <2>4, <4>1 DEF HasRead
    <3> QED BY <2>1, <3>1, <3>2
  <2> QED BY <2>5, <2>6 DEF OwnInputs
<1> QED BY <1>1, <1>2, <1>3, <1>4, <1>5, <1>6, <1>7, <1>8, <1>9, <1>10 DEF FlowStep

(* The cutoff.                                                             *)

LEMMA DaysGrow ==
  ASSUME InputsTypeOK, NEW g \in Flows, FlowStep(g)
  PROVE  /\ days \subseteq days'
         /\ g # "base" => cutoff' = cutoff
         /\ \A f \in Flows \ {g} : handle'[f].rows = handle[f].rows
<1> USE DEF fileVars, coverageVars, jobVars, runVars, causeVars
<1>0. handle \in [Flows -> Handles] /\ \A f \in Flows : handle[f] \in Handles
  BY DEF InputsTypeOK
<1>1. CASE Cover(g)
  BY <1>1 DEF Cover, InputsTypeOK
<1>2. CASE Export(g)
  BY <1>0, <1>2 DEF Export, Handles
<1>3. CASE Exported(g)
  <2>1. CASE handle' = [handle EXCEPT ![g].file = "none"]
    BY <1>0, <1>3, <2>1 DEF Exported
  <2>2. CASE handle' = [f \in Flows |->
                 IF f = g THEN [handle[f] EXCEPT !.file = "none"]
                 ELSE IF handle[f].file = "tmp" THEN [handle[f] EXCEPT !.file = "snapshot"]
                 ELSE IF handle[f].file = "snapshot" THEN [handle[f] EXCEPT !.file = "gone"]
                 ELSE handle[f]]
    BY <1>0, <1>3, <2>2 DEF Exported, Handles
  <2> QED BY <1>3, <2>1, <2>2, ExportedCases
<1>4. CASE KillStep(g)
  BY <1>0, <1>4 DEF KillStep
<1>5. CASE Check(g) \/ Reuse(g) \/ SyncCode(g) \/ Rerun(g) \/ SubmitFlow(g) \/ JobReads(g)
  BY <1>5 DEF Check, Reuse, SyncCode, Rerun, SubmitFlow, JobReads
<1>6. CASE Upload(g) \/ Uploaded(g)
  BY <1>6 DEF Upload, Uploaded
<1> QED BY <1>1, <1>2, <1>3, <1>4, <1>5, <1>6 DEF FlowStep

LEMMA CutoffByOthers ==
  ASSUME InputsTypeOK, InOrder("base"), OwnInputs("base"), CutoffKnown, CutoffKept,
         NEW g \in Flows \ {"base"}, FlowStep(g)
  PROVE  CutoffKnown' /\ CutoffKept'
<1> DEFINE f == "base"
<1>0. f \in Flows /\ f # g
  BY DEF Flows, DagFlows
<1>1. ready'[f] = ready[f] /\ doing'[f] = doing[f] /\ jobs'[f] = jobs[f] /\ got'[f] = got[f]
  BY <1>0, StepsOfFlow
<1>2. crossed \subseteq crossed' /\ sending'[f] = sending[f]
  BY <1>0, CrossesOrQuietly
<1>3. days \subseteq days' /\ cutoff' = cutoff /\ handle'[f].rows = handle[f].rows
  BY <1>0, DaysGrow
<1>4. f \in reused => f \in reused'
  <2> USE DEF fileVars, coverageVars, jobVars, runVars, causeVars
  <2>1. CASE Check(g) \/ Cover(g) \/ Reuse(g) \/ Export(g) \/ Exported(g) \/ SyncCode(g)
    BY <2>1 DEF Check, Cover, Reuse, Export, Exported, SyncCode
  <2>2. CASE Upload(g) \/ Uploaded(g) \/ KillStep(g) \/ Rerun(g) \/ SubmitFlow(g) \/ JobReads(g)
    BY <1>0, <2>2 DEF Upload, Uploaded, KillStep, Rerun, SubmitFlow, JobReads
  <2> QED BY <2>1, <2>2 DEF FlowStep
<1>5. CutoffKnown'
  BY <1>1, <1>3 DEF CutoffKnown
<1>6. CASE Quietly(g)
  BY <1>1, <1>2, <1>3, <1>4, <1>5, <1>6 DEF Quietly, CutoffKept, Sending
<1>7. CASE Crosses(g) /\ UnderWay(f)
  <2>1. f \in crossed'
    BY <1>0, <1>7, CrossedByOthers
  <2> QED BY <1>5, <2>1 DEF CutoffKept
<1>8. CASE ~UnderWay(f)
  <2>1. doing[f] = "none" /\ (jobs[f] = 3 \/ (ready[f] = {} /\ jobs[f] = 0))
    BY <1>0, <1>8, AtRestIfNotUnderWay
  <2> QED BY <1>1, <1>2, <1>3, <1>4, <1>5, <2>1 DEF CutoffKept, Sending
<1> QED BY <1>6, <1>7, <1>8, CrossesOrQuietly

LEMMA CutoffStep ==
  ASSUME InputsTypeOK, InOrder("base"), OwnInputs("base"), CutoffKnown, CutoffKept,
         FlowStep("base")
  PROVE  CutoffKnown' /\ CutoffKept'
<1> USE DEF fileVars, coverageVars, jobVars, runVars, causeVars
<1> DEFINE f == "base"
<1>0. /\ ready \in [Flows -> SUBSET FlowSteps] /\ doing \in [Flows -> FlowSteps \cup {"none"}]
      /\ jobs \in [Flows -> 0 .. 3] /\ got \in [Flows -> GotSet] /\ sending \in [Flows -> FileSet]
      /\ handle \in [Flows -> Handles] /\ local \in [Files -> FileSet]
      /\ f \in Flows /\ f \in DagFlows /\ "snapshot" \in Files
  BY DEF InputsTypeOK, Flows, DagFlows, Files
<1>n. \A s \in DOMAIN Needs[f] : s \notin ready[f] => jobs[f] = 0 /\ got[f].file = {}
  BY <1>0, NoJobBefore DEF OwnInputs
<1>o. /\ {"cover", "export", "upload", "submit"} \subseteq DOMAIN Needs[f]
      /\ Needs[f]["export"] = {"cover"} /\ "export" \in Needs[f]["upload"]
      /\ "upload" \in Needs[f]["submit"]
  BY DEF Needs, DagNeeds
<1>c. crossed \subseteq crossed'
  BY <1>0, CrossesOrQuietly
<1>p. /\ "export" \in ready[f] => "cover" \in ready[f]
      /\ "upload" \in ready[f] => "export" \in ready[f]
      /\ doing[f] = "export" => "cover" \in ready[f] /\ "export" \notin ready[f]
      /\ doing[f] = "upload" => "export" \in ready[f] /\ "upload" \notin ready[f]
  BY <1>o DEF InOrder
<1>1. CASE Check(f) \/ SubmitFlow(f)
  <2>1. /\ \A s \in {"cover", "export", "upload"} : s \in ready'[f] <=> s \in ready[f]
        /\ doing'[f] = "none" /\ local' = local /\ remote' = remote /\ got' = got
        /\ days' = days /\ cutoff' = cutoff /\ crossed' = crossed /\ reused' = reused
    BY <1>0, <1>1 DEF Check, SubmitFlow, Finish
  <2>2. jobs'[f] < 3 => jobs[f] < 3
    <3>1. CASE Check(f)
      BY <3>1 DEF Check
    <3>2. CASE SubmitFlow(f)
      <4>1. jobs[f] = 0
        BY <1>n, <1>o, <3>2 DEF SubmitFlow, Ready
      <4> QED BY <4>1
    <3> QED BY <1>1, <3>1, <3>2
  <2> QED BY <2>1, <2>2 DEF CutoffKnown, CutoffKept, Sending
<1>2. CASE Cover(f)
  <2>1. /\ days # {} /\ cutoff' = Max(days) /\ days' = days
        /\ "cover" \in DOMAIN Needs[f] \ ready[f] /\ got' = got
    BY <1>2 DEF Cover, Ready, CutoffDate
  <2>2. cutoff' \in days
    <3>1. days \subseteq Nat /\ IsFiniteSet(days)
      BY InputsAssumption, FS_Subset DEF InputsTypeOK
    <3> QED BY <2>1, <3>1, LatestIsMember
  <2>3. /\ ready'[f] = ready[f] \cup {"cover"} /\ doing'[f] = "none"
    BY <1>0, <1>2 DEF Cover, Finish
  <2>4. "export" \notin ready'[f] /\ "upload" \notin ready'[f] /\ got'[f].file = {}
    BY <1>n, <1>p, <2>1, <2>3
  <2> QED BY <2>1, <2>2, <2>3, <2>4 DEF CutoffKnown, CutoffKept, Sending
<1>3. CASE Reuse(f)
  <2>1. /\ "cover" \in ready'[f] => "cover" \in ready[f]
        /\ doing'[f] = "none" /\ days' = days /\ cutoff' = cutoff /\ f \in reused'
    BY <1>0, <1>3 DEF Reuse, Finish
  <2> QED BY <2>1 DEF CutoffKnown, CutoffKept
<1>4. CASE Export(f)
  <2>1. /\ ready' = ready /\ doing'[f] = "export" /\ days' = days /\ cutoff' = cutoff
        /\ got' = got /\ "export" \in DOMAIN Needs[f] \ ready[f] /\ "cover" \in ready[f]
        /\ handle'[f].rows = days
    BY <1>0, <1>4, <1>o DEF Export, Begin, Ready
  <2>2. cutoff' \in handle'[f].rows
    BY <2>1 DEF CutoffKnown
  <2>3. got'[f].file = {} /\ "upload" \notin ready'[f]
    BY <1>n, <1>p, <2>1
  <2> QED BY <2>1, <2>2, <2>3 DEF CutoffKnown, CutoffKept, Sending
<1>5. CASE Exported(f)
  <2>1. /\ doing[f] = "export" /\ days' = days /\ cutoff' = cutoff /\ got' = got
        /\ jobs' = jobs
    BY <1>5 DEF Exported
  <2>2. /\ doing'[f] = "none"
        /\ \/ ready'[f] = ready[f]
           \/ /\ ready'[f] = ready[f] \cup {"export"}
              /\ local'["snapshot"].rows = handle[f].rows
    <3>1. CASE /\ handle[f].file = "tmp" /\ Finish(f, "export")
               /\ \E w \in WrittenBy(f, "tmp") :
                    local' = [local EXCEPT !.snapshot = w, !.tmp = NoSnapshot]
      <4>1. PICK w \in WrittenBy(f, "tmp") :
              local' = [local EXCEPT !.snapshot = w, !.tmp = NoSnapshot]
        BY <3>1
      <4>2. w.rows = handle[f].rows
        BY <1>0, WrittenIsFile DEF Files
      <4>3. local'["snapshot"] = w
        BY <1>0, <4>1
      <4> QED BY <1>0, <3>1, <4>2, <4>3 DEF Finish
    <3>2. CASE doing' = [doing EXCEPT ![f] = "none"] /\ ready' = ready
      BY <1>0, <3>2
    <3> QED BY <1>0, <1>5, <3>1, <3>2, ExportedCases
  <2>3. "export" \notin ready[f] /\ "upload" \notin ready[f] /\ "cover" \in ready[f]
    BY <1>p, <2>1
  <2>4. got'[f].file = {} /\ cutoff \in handle[f].rows
    BY <1>n, <1>o, <2>1, <2>3 DEF CutoffKnown
  <2> QED BY <2>1, <2>2, <2>3, <2>4 DEF CutoffKnown, CutoffKept, Sending
<1>6. CASE SyncCode(f)
  <2>1. /\ \A s \in {"cover", "export", "upload"} : s \in ready'[f] <=> s \in ready[f]
        /\ doing'[f] \in {"none", "code"} /\ local' = local /\ remote' = remote /\ got' = got
        /\ days' = days /\ cutoff' = cutoff /\ reused' = reused /\ jobs' = jobs
    BY <1>0, <1>6 DEF SyncCode, Finish, Begin
  <2> QED BY <1>c, <2>1 DEF CutoffKnown, CutoffKept, Sending
<1>7. CASE Upload(f)
  <2>1. /\ "upload" \notin ready[f] /\ "export" \in ready[f] /\ local' = local
        /\ got' = got /\ jobs' = jobs
        /\ days' = days /\ cutoff' = cutoff /\ reused' = reused
    BY <1>7, <1>o DEF Upload, Ready
  <2>2. jobs[f] = 0 /\ got[f].file = {}
    BY <1>n, <1>o, <2>1
  <2>3. f \notin crossed \cup reused => cutoff \in LocalOf(f).rows
    BY <2>1, <2>2 DEF CutoffKept, LocalOf
  <2>4. CASE /\ MaySeemSame(f) /\ Finish(f, "upload")
             /\ UNCHANGED <<remote, sending, crossed, spoiled>>
    <3>1. ready'[f] = ready[f] \cup {"upload"} /\ doing'[f] = "none"
      BY <1>0, <2>4 DEF Finish
    <3>2. f \notin crossed \cup reused => cutoff \in remote.rows
      BY <2>3, <2>4 DEF MaySeemSame, SameSize
    <3> QED BY <1>c, <2>1, <2>2, <2>4, <3>1, <3>2 DEF CutoffKnown, CutoffKept, Sending
  <2>5. CASE Begin(f, "upload") /\ sending' = [sending EXCEPT ![f] = LocalOf(f)]
    <3>1. ready' = ready /\ doing'[f] = "upload" /\ sending'[f] = LocalOf(f)
      BY <1>0, <2>5 DEF Begin
    <3> QED BY <1>c, <2>1, <2>2, <2>3, <3>1 DEF CutoffKnown, CutoffKept, Sending
  <2> QED BY <1>7, <2>4, <2>5 DEF Upload
<1>8. CASE Uploaded(f)
  <2>1. /\ doing[f] = "upload" /\ local' = local /\ got' = got /\ jobs' = jobs
        /\ days' = days /\ cutoff' = cutoff /\ reused' = reused
        /\ ready'[f] = ready[f] \cup {"upload"} /\ doing'[f] = "none"
    BY <1>0, <1>8 DEF Uploaded, Sending, Finish
  <2>2. remote'.rows = sending[f].rows
    <3>1. sending[f] \in FileSet
      BY <1>0
    <3> QED BY <1>8, <3>1 DEF Uploaded, FileSet
  <2>3. got[f].file = {}
    BY <1>n, <1>o, <1>p, <2>1
  <2> QED BY <1>c, <2>1, <2>2, <2>3 DEF CutoffKnown, CutoffKept, Sending
<1>9. CASE KillStep(f)
  <2>1. /\ ready' = ready /\ doing'[f] = "none" /\ local' = local /\ remote' = remote
        /\ got' = got /\ jobs' = jobs /\ days' = days /\ cutoff' = cutoff
        /\ reused' = reused /\ crossed' = crossed
    BY <1>0, <1>9 DEF KillStep
  <2> QED BY <2>1 DEF CutoffKnown, CutoffKept, Sending
<1>10. CASE Rerun(f)
  <2>1. ready'[f] = {} /\ doing'[f] = "none" /\ got'[f].file = {}
    BY <1>0, <1>10 DEF Rerun
  <2> QED BY <2>1 DEF CutoffKnown, CutoffKept, Sending
<1>11. CASE JobReads(f)
  <2>1. /\ ready' = ready /\ doing' = doing /\ local' = local /\ remote' = remote
        /\ days' = days /\ cutoff' = cutoff /\ handle' = handle /\ sending' = sending
        /\ reused' = reused /\ crossed' = crossed
        /\ jobs[f] \in {1, 2} /\ jobs'[f] = jobs[f] + 1
    BY <1>0, <1>11 DEF JobReads
  <2>2. got'[f].file = got[f].file \cup {remote}
    <3>1. got' = [got EXCEPT ![f] = [file |-> got[f].file \cup {remote},
                                     code |-> got[f].code \cup {code}]]
      BY <1>0, <1>11 DEF JobReads, InputsTypeOK
    <3> QED BY <1>0, <3>1
  <2>3. "upload" \in ready[f] /\ jobs[f] < 3 /\ (jobs'[f] < 3 => jobs[f] < 3)
    BY <1>0, <1>o, <2>1, JobsAreDone
  <2> QED BY <2>1, <2>2, <2>3 DEF CutoffKnown, CutoffKept, Sending
<1> QED BY <1>1, <1>2, <1>3, <1>4, <1>5, <1>6, <1>7, <1>8, <1>9, <1>10, <1>11 DEF FlowStep

LEMMA InputsBesides ==
  ASSUME InputsInd,
         (\E d \in Window : Arrive(d)) \/ Deploy \/ UNCHANGED inputVars
  PROVE  InputsInd'
<1> USE DEF runVars, coverageVars, fileVars, jobVars, causeVars
<1>1. ASSUME NEW d \in Window, Arrive(d) PROVE InputsInd'
  <2>1. /\ days' = days \cup {d} /\ UNCHANGED <<backfill, cutoff, runVars, fileVars, jobVars, causeVars>>
    BY <1>1 DEF Arrive
  <2>2. InputsTypeOK'
    BY <2>1 DEF InputsInd, InputsTypeOK
  <2>3. \A f \in Flows : InOrder(f)' /\ OwnInputs(f)'
    BY <2>1 DEF InputsInd, InOrder, OwnInputs, HasSent, HasCode, HasRead, Live, Sending
  <2>4. PiecesAreOpen' /\ PrepareOpensItsOwn'
    BY <2>1 DEF InputsInd, PiecesAreOpen, PrepareOpensItsOwn, Sending
  <2>5. CutoffKnown' /\ CutoffKept'
    BY <2>1 DEF InputsInd, CutoffKnown, CutoffKept, Sending
  <2> QED BY <2>2, <2>3, <2>4, <2>5 DEF InputsInd
<1>2. CASE Deploy
  <2>1. /\ source' = source + 1 /\ source < MaxVersions
        /\ crossed' = crossed \cup {f \in Flows : doing[f] = "code"}
        /\ UNCHANGED <<local, handle, remote, code, sending, runVars, coverageVars, jobVars,
                       spoiled, reused>>
    BY <1>2 DEF Deploy
  <2>2. InputsTypeOK'
    <3>1. source' \in 1 .. MaxVersions
      BY <2>1, InputsAssumption DEF InputsInd, InputsTypeOK
    <3>2. crossed' \subseteq Flows
      BY <2>1 DEF InputsInd, InputsTypeOK
    <3> QED BY <2>1, <3>1, <3>2 DEF InputsInd, InputsTypeOK
  <2>3. ASSUME NEW f \in Flows PROVE InOrder(f)' /\ OwnInputs(f)'
    <3>1. InOrder(f) /\ OwnInputs(f)
      BY DEF InputsInd
    <3>2. InOrder(f)' /\ HasSent(f)' /\ HasRead(f)'
      BY <2>1, <3>1 DEF InOrder, OwnInputs, HasSent, HasRead, Live, Sending
    <3>3. HasCode(f)'
      BY <2>1, <3>1 DEF OwnInputs, HasCode, Live
    <3> QED BY <3>2, <3>3 DEF OwnInputs
  <2>4. PiecesAreOpen' /\ PrepareOpensItsOwn'
    BY <2>1 DEF InputsInd, PiecesAreOpen, PrepareOpensItsOwn, Sending
  <2>5. CutoffKnown' /\ CutoffKept'
    BY <2>1 DEF InputsInd, CutoffKnown, CutoffKept, Sending
  <2> QED BY <2>2, <2>3, <2>4, <2>5 DEF InputsInd
<1>3. CASE UNCHANGED inputVars
  <2>1. UNCHANGED <<runVars, coverageVars, fileVars, jobVars, causeVars>>
    BY <1>3 DEF inputVars
  <2>2. InputsTypeOK'
    BY <2>1 DEF InputsInd, InputsTypeOK
  <2>3. \A f \in Flows : InOrder(f)' /\ OwnInputs(f)'
    BY <2>1 DEF InputsInd, InOrder, OwnInputs, HasSent, HasCode, HasRead, Live, Sending
  <2>4. PiecesAreOpen' /\ PrepareOpensItsOwn'
    BY <2>1 DEF InputsInd, PiecesAreOpen, PrepareOpensItsOwn, Sending
  <2>5. CutoffKnown' /\ CutoffKept'
    BY <2>1 DEF InputsInd, CutoffKnown, CutoffKept, Sending
  <2> QED BY <2>2, <2>3, <2>4, <2>5 DEF InputsInd
<1> QED BY <1>1, <1>2, <1>3

LEMMA InputsStep == InputsInd /\ [InputsNext]_inputVars => InputsInd'
<1> SUFFICES ASSUME InputsInd, [InputsNext]_inputVars PROVE InputsInd'
  OBVIOUS
<1>0. /\ InputsTypeOK /\ PiecesAreOpen /\ PrepareOpensItsOwn /\ CutoffKnown /\ CutoffKept
      /\ \A f \in Flows : InOrder(f) /\ OwnInputs(f)
      /\ "base" \in Flows
  BY DEF InputsInd, Flows, DagFlows
<1>1. ASSUME NEW f \in Flows, FlowStep(f) PROVE InputsInd'
  <2>1. InputsTypeOK'
    BY <1>0, <1>1, TypesStep
  <2>2. ASSUME NEW g \in Flows PROVE InOrder(g)' /\ OwnInputs(g)'
    <3>1. CASE g = f
      BY <1>0, <1>1, <3>1, StepsOfFlow, OrderStep, OwnStep
    <3>2. CASE g # f
      <4>1. InOrder(g)'
        BY <1>0, <1>1, <3>2, StepsOfFlow DEF InOrder
      <4>2. OwnInputs(g)'
        BY <1>0, <1>1, <3>2, OwnByOthers
      <4> QED BY <4>1, <4>2
    <3> QED BY <3>1, <3>2
  <2>3. PiecesAreOpen' /\ PrepareOpensItsOwn'
    <3>1. CASE \/ Check(f) \/ Cover(f) \/ Reuse(f) \/ SyncCode(f) \/ Rerun(f) \/ SubmitFlow(f)
               \/ JobReads(f)
      BY <1>0, <3>1, BesidesSteps, PiecesBesides
    <3>2. CASE Export(f)
      BY <1>0, <3>2, PiecesExport
    <3>3. CASE Exported(f)
      BY <1>0, <3>3, PiecesExported
    <3>4. CASE Upload(f) \/ Uploaded(f) \/ KillStep(f)
      BY <1>0, <3>4, PiecesSend
    <3> QED BY <1>1, <3>1, <3>2, <3>3, <3>4 DEF FlowStep
  <2>4. CutoffKnown' /\ CutoffKept'
    <3>1. CASE f = "base"
      BY <1>0, <1>1, <3>1, CutoffStep
    <3>2. CASE f # "base"
      BY <1>0, <1>1, <3>2, CutoffByOthers
    <3> QED BY <3>1, <3>2
  <2> QED BY <2>1, <2>2, <2>3, <2>4 DEF InputsInd
<1>2. \/ \E f \in Flows : FlowStep(f)
      \/ (\E d \in Window : Arrive(d)) \/ Deploy \/ UNCHANGED inputVars
  BY DEF InputsNext, FlowStep
<1> QED BY <1>1, <1>2, InputsBesides

(* For any number of flows at one date, of killed steps, runs started over *)
(* and versions of the code: a job nobody crossed reads one whole snapshot *)
(* and one code in all its windows, but for a spoiled file, and a base job *)
(* finds its cutoff date in it, but for a snapshot it was given.           *)
THEOREM InputsAlwaysSound == InputsSpec => []InputsAreSound
<1>1. InputsInd => InputsAreSound
  <2> SUFFICES ASSUME InputsInd PROVE InputsAreSound
    OBVIOUS
  <2>1. ASSUME NEW f \in Flows \ crossed
        PROVE  /\ Cardinality(got[f].file) <= 1 /\ Cardinality(got[f].code) <= 1
               /\ (\E x \in got[f].file : x.state # "whole") => spoiled
               /\ (\E c \in got[f].code : ~c.whole) => "code" \notin DOMAIN Needs[f]
    <3>1. HasRead(f) /\ jobs[f] \in 0 .. 3
      BY DEF InputsInd, OwnInputs, InputsTypeOK
    <3>2. /\ got[f].file = {} \/ \E x : got[f].file = {x}
          /\ got[f].code = {} \/ \E c : got[f].code = {c}
      <4>1. CASE jobs[f] <= 1
        BY <3>1, <4>1 DEF HasRead
      <4>2. CASE jobs[f] = 2
        BY <3>1, <4>2 DEF HasRead
      <4>3. CASE jobs[f] = 3
        BY <3>1, <4>3 DEF HasRead
      <4> QED BY <3>1, <4>1, <4>2, <4>3
    <3>3. ASSUME NEW S, S = {} \/ \E x : S = {x} PROVE Cardinality(S) <= 1
      <4>1. CASE S = {}
        <5>1. Cardinality({}) = 0
          BY FS_EmptySet
        <5> QED BY <4>1, <5>1
      <4>2. CASE \E x : S = {x}
        <5>1. PICK x : S = {x}
          BY <4>2
        <5>2. Cardinality({x}) = 1
          BY FS_Singleton
        <5> QED BY <5>1, <5>2
      <4> QED BY <3>3, <4>1, <4>2
    <3>4. Cardinality(got[f].file) <= 1
      BY <3>2, <3>3
    <3>5. Cardinality(got[f].code) <= 1
      BY <3>2, <3>3
    <3> QED BY <3>1, <3>4, <3>5 DEF HasRead
  <2>2. InputsAreWhole
    BY <2>1 DEF InputsAreWhole
  <2>3. SnapshotHasCutoff
    BY DEF InputsInd, CutoffKept, SnapshotHasCutoff
  <2> QED BY <2>2, <2>3 DEF InputsAreSound
<1> QED BY InputsInitially, InputsStep, <1>1, PTL DEF InputsSpec
=============================================================================
