----------------------------- MODULE DracTraining -----------------------------
(***************************************************************************)
(* daily_drac_training_dag.py: one run a day submits daily_train.sbatch to *)
(* another cluster, polls the job whose id it left in a file there, and    *)
(* verifies the date's directory of the model registry.  The job takes its *)
(* date from the cluster's clock when it starts, and moves `latest' by     *)
(* itself before the run does.  Days are the cluster's, numbered; the run  *)
(* whose ds is d is due on the evening of day d there.  A job's work is a  *)
(* model saved to scratch, its files copied to the registry one by one,    *)
(* and the link.                                                           *)
(***************************************************************************)
EXTENDS Naturals

CONSTANTS NumDays,      \* bound: runs that become due
          MaxDracJobs,  \* bound: jobs submitted
          MaxAgain      \* bound: tasks retried and runs cleared

ASSUME DracAssumption == NumDays \in Nat \ {0} /\ MaxDracJobs \in Nat /\ MaxAgain \in Nat

DracDays == 1 .. NumDays
DracJobs == 1 .. MaxDracJobs
Artifacts == {"model", "encoder", "metrics"}
Copied == <<"encoder", "metrics", "model">>   \* in rsync's order
Absent == [f \in Artifacts |-> 0]

VARIABLES
  clusterDay,  \* date +%F on the cluster
  due,         \* the last day whose run has begun
  dracRuns,    \* [day -> task; failed in it; job submitted, job polled; the
               \* files it verified; crossed: another run wrote the id since]
  dracJobs,    \* [job -> state, RUN_DATE, how far its script is: 0 training, 1
               \* saved, 2 to 4 files copied, 5 link made]
  lastId,      \* ~/last_train_job_id.txt, 0: empty
  scratch,     \* [date -> the job that saved its model there last]
  registry,    \* [date -> [file -> the job whose it is]], 0: none
  latestLink,  \* latest: the date the link leads to, 0: there is no link
  dracAgain    \* tasks retried and runs cleared so far

dagVars == <<due, dracRuns, lastId, dracAgain>>
dracJobVars == <<dracJobs, scratch, registry>>
dracVars == <<clusterDay, dagVars, dracJobVars, latestLink>>

DracRunRecords ==
  [task : {"none", "submit", "echo", "poll", "wait", "verify", "relink", "green"},
   failed : BOOLEAN, own : 0 .. MaxDracJobs, polled : 0 .. MaxDracJobs,
   crossed : BOOLEAN, found : [Artifacts -> 0 .. MaxDracJobs]]

DracJobRecords ==
  [state : {"none", "pending", "running", "completed", "failed"},
   date : 0 .. NumDays, at : 0 .. 5]

DracTypeOK ==
  /\ clusterDay \in DracDays /\ due \in 0 .. NumDays
  /\ dracRuns \in [DracDays -> DracRunRecords]
  /\ dracJobs \in [DracJobs -> DracJobRecords]
  /\ lastId \in 0 .. MaxDracJobs /\ dracAgain \in 0 .. MaxAgain
  /\ scratch \in [DracDays -> 0 .. MaxDracJobs]
  /\ registry \in [DracDays -> [Artifacts -> 0 .. MaxDracJobs]]
  /\ latestLink \in 0 .. NumDays

DracInit ==
  /\ clusterDay = 1 /\ due = 0 /\ lastId = 0 /\ latestLink = 0 /\ dracAgain = 0
  /\ dracRuns = [d \in DracDays |-> [task |-> "none", failed |-> FALSE, own |-> 0,
                                     polled |-> 0, crossed |-> FALSE, found |-> Absent]]
  /\ dracJobs = [j \in DracJobs |-> [state |-> "none", date |-> 0, at |-> 0]]
  /\ scratch = [d \in DracDays |-> 0]
  /\ registry = [d \in DracDays |-> Absent]
----------------------------------------------------------------------------
CrossMidnight == /\ clusterDay < NumDays /\ clusterDay' = clusterDay + 1
                 /\ UNCHANGED <<dagVars, dracJobVars, latestLink>>

RunBecomes(d, r) == dracRuns' = [dracRuns EXCEPT ![d] = r]
JobBecomes(j, r) == dracJobs' = [dracJobs EXCEPT ![j] = r]
DracAt(d, task) == dracRuns[d].task = task /\ ~dracRuns[d].failed

Due == /\ due < clusterDay /\ due < NumDays /\ due' = due + 1
       /\ RunBecomes(due + 1, [dracRuns[due + 1] EXCEPT !.task = "submit"])
       /\ UNCHANGED <<clusterDay, lastId, dracAgain, dracJobVars, latestLink>>

(* JOB_ID is what awk prints: set -e does not see sbatch fail in the pipe, *)
(* and the id is then empty.                                               *)
DracSbatch(d) ==
  /\ DracAt(d, "submit")
  /\ \E j \in 0 .. MaxDracJobs :
       /\ RunBecomes(d, [dracRuns[d] EXCEPT !.task = "echo", !.own = j])
       /\ IF j = 0 THEN UNCHANGED dracJobs
          ELSE /\ dracJobs[j].state = "none"
               /\ \A k \in DracJobs : k < j => dracJobs[k].state # "none"
               /\ JobBecomes(j, [dracJobs[j] EXCEPT !.state = "pending"])
  /\ UNCHANGED <<clusterDay, due, lastId, dracAgain, scratch, registry, latestLink>>

\* Any run that is still to read its id has been crossed.
Written(d, r) == [e \in DracDays |->
  IF e = d THEN r
  ELSE [dracRuns[e] EXCEPT !.crossed = @ \/ dracRuns[e].task \in {"poll", "wait"}]]

WriteId(d) == /\ DracAt(d, "echo") /\ lastId' = dracRuns[d].own
              /\ dracRuns' = Written(d, [dracRuns[d] EXCEPT !.task = "poll",
                                                            !.crossed = FALSE])
              /\ UNCHANGED <<clusterDay, due, dracAgain, dracJobVars, latestLink>>

ReadId(d) == /\ DracAt(d, "poll")
             /\ RunBecomes(d, [dracRuns[d] EXCEPT !.task = "wait", !.polled = lastId])
             /\ UNCHANGED <<clusterDay, due, lastId, dracAgain, dracJobVars, latestLink>>

(* The job has left the queue and sacct says COMPLETED; asked about no job *)
(* at all, sacct may answer with any.                                      *)
JobDone(d) == /\ DracAt(d, "wait")
              /\ \E j \in DracJobs : /\ dracJobs[j].state = "completed"
                                     /\ dracRuns[d].polled \in {0, j}
              /\ RunBecomes(d, [dracRuns[d] EXCEPT !.task = "verify"])
              /\ UNCHANGED <<clusterDay, due, lastId, dracAgain, dracJobVars, latestLink>>

(* verify_model_synced() takes the old link away and makes the new one.    *)
Verify(d) == /\ DracAt(d, "verify")
             /\ \A f \in Artifacts : registry[d][f] # 0
             /\ RunBecomes(d, [dracRuns[d] EXCEPT !.task = "relink", !.found = registry[d]])
             /\ latestLink' = 0
             /\ UNCHANGED <<clusterDay, due, lastId, dracAgain, dracJobVars>>

\* The task as it waits for a retry, or for good.
Failed(d) ==
  LET r == dracRuns[d] IN
  CASE r.task \in {"submit", "echo"} ->
         [r EXCEPT !.task = "submit", !.failed = TRUE, !.own = 0]
    [] r.task \in {"poll", "wait"} ->
         [r EXCEPT !.task = "poll", !.failed = TRUE, !.polled = 0]
    [] r.task \in {"verify", "relink"} ->
         [r EXCEPT !.task = "verify", !.failed = TRUE, !.found = Absent]

\* A job may have made the link meanwhile: symlink_to() then raises.
Relink(d) == /\ DracAt(d, "relink")
             /\ IF latestLink = 0
                THEN latestLink' = d /\ RunBecomes(d, [dracRuns[d] EXCEPT !.task = "green"])
                ELSE RunBecomes(d, Failed(d)) /\ UNCHANGED latestLink
             /\ UNCHANGED <<clusterDay, due, lastId, dracAgain, dracJobVars>>

(* A task fails: the job's state, a missing file, the three hours of       *)
(* polling, the minute of the submission, SSH, a kill.  The submission may *)
(* have got as far as the id file.                                         *)
TaskFails(d) ==
  /\ ~dracRuns[d].failed /\ dracRuns[d].task \notin {"none", "green"}
  /\ \/ RunBecomes(d, Failed(d)) /\ UNCHANGED lastId
     \/ /\ dracRuns[d].task = "echo" /\ lastId' = dracRuns[d].own
        /\ dracRuns' = Written(d, Failed(d))
  /\ UNCHANGED <<clusterDay, due, dracAgain, dracJobVars, latestLink>>

\* The failed task is retried, or the run is cleared from its beginning.
Again(d) ==
  /\ dracAgain < MaxAgain /\ dracAgain' = dracAgain + 1
  /\ dracRuns[d].failed \/ dracRuns[d].task = "green"
  /\ \E task \in {"submit", dracRuns[d].task} \ {"green"} :
       RunBecomes(d, [dracRuns[d] EXCEPT !.task = task, !.failed = FALSE, !.found = Absent])
  /\ UNCHANGED <<clusterDay, due, lastId, dracJobVars, latestLink>>
----------------------------------------------------------------------------
\* RUN_DATE=$(date +%F), as the job starts.
JobStarts(j) == /\ dracJobs[j].state = "pending"
                /\ JobBecomes(j, [dracJobs[j] EXCEPT !.state = "running", !.date = clusterDay])
                /\ UNCHANGED <<clusterDay, dagVars, scratch, registry, latestLink>>

Running(j, from, to) == dracJobs[j].state = "running" /\ dracJobs[j].at \in from .. to
Advances(j) == JobBecomes(j, [dracJobs[j] EXCEPT !.at = @ + 1])

(* The snapshot is extracted, the model fitted on the date's newest one,   *)
(* and its files are saved to the date's scratch directory.                *)
SaveModel(j) == /\ Running(j, 0, 0)
                /\ scratch' = [scratch EXCEPT ![dracJobs[j].date] = j]
                /\ Advances(j)
                /\ UNCHANGED <<clusterDay, dagVars, registry, latestLink>>

\* Mutant of SyncDate: sync_to_vps.sh is called without its first argument.
SyncToday(j) == clusterDay

SyncDate(j) == dracJobs[j].date

\* rsync, from whatever is in the scratch directory by now.
CopyFile(j) == /\ Running(j, 1, 3)
               /\ registry' = [registry EXCEPT
                    ![SyncDate(j)][Copied[dracJobs[j].at]] = scratch[dracJobs[j].date]]
               /\ Advances(j)
               /\ UNCHANGED <<clusterDay, dagVars, scratch, latestLink>>

PointLatest(j) == /\ Running(j, 4, 4) /\ latestLink' = SyncDate(j)
                  /\ Advances(j)
                  /\ UNCHANGED <<clusterDay, dagVars, scratch, registry>>

JobEnds(j) == /\ dracJobs[j].state \in {"pending", "running"}
              /\ \E s \in {"failed"} \cup (IF Running(j, 5, 5) THEN {"completed"} ELSE {}) :
                   JobBecomes(j, [dracJobs[j] EXCEPT !.state = s, !.at = 0])
              /\ UNCHANGED <<clusterDay, dagVars, scratch, registry, latestLink>>

DracNext ==
  \/ CrossMidnight \/ Due
  \/ \E d \in DracDays : \/ DracSbatch(d) \/ WriteId(d) \/ ReadId(d) \/ JobDone(d)
                         \/ Verify(d) \/ Relink(d) \/ TaskFails(d) \/ Again(d)
  \/ \E j \in DracJobs : \/ JobStarts(j) \/ SaveModel(j) \/ CopyFile(j)
                         \/ PointLatest(j) \/ JobEnds(j)

DracSpec == DracInit /\ [][DracNext]_dracVars
----------------------------------------------------------------------------
\* No other job took the date of d.
AloneOn(d, j) == \A k \in DracJobs \ {j} : dracJobs[k].date # d

(* What a green run vouches for.  It polled the job it submitted, unless   *)
(* another run wrote the id file in between; and if it did, and no other   *)
(* job started on its day, then all three files it verified are that       *)
(* job's, which therefore started before midnight.  Whatever overlaps, is  *)
(* killed or retried, latest leads to a directory with all three files.    *)
DracVouches ==
  /\ latestLink # 0 => \A f \in Artifacts : registry[latestLink][f] # 0
  /\ \A d \in DracDays : DracAt(d, "green") =>
       LET r == dracRuns[d] IN
       /\ r.polled = r.own \/ r.crossed
       /\ r.own # 0 /\ r.polled = r.own /\ AloneOn(d, r.own)
            => r.found = [f \in Artifacts |-> r.own]
=============================================================================
