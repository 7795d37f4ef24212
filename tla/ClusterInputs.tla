---------------------------- MODULE ClusterInputs ----------------------------
(***************************************************************************)
(* What a training job reads on NIBI: a parquet snapshot of the 15-minute   *)
(* table and the training code.  Five flows of one trading date prepare     *)
(* them, each through the same local file, the same remote file and the     *)
(* same remote code directory: the daily and the base-only DAG, the         *)
(* collector's nibi_orchestrator.py, run_nibi_pipeline.sh, and              *)
(* prepare_base_apr21.sh with a local file of its own.  Any step may be     *)
(* killed half-way and tried again.                                         *)
(***************************************************************************)
EXTENDS Naturals, FiniteSets, FiniteSetsExt

CONSTANTS Window,      \* the trading dates the coverage check looks back on
          MaxActive,   \* bound: flows prepared at the same date
          MaxKills,    \* bound: steps killed and flows started over
          MaxVersions  \* bound: versions of the training code

ASSUME InputsAssumption == /\ Window \subseteq Nat /\ IsFiniteSet(Window) /\ Window # {}
                           /\ MaxKills \in Nat /\ MaxVersions \in Nat \ {0}

DagFlows == {"daily", "base"}
Flows == DagFlows \cup {"orchestrator", "pipeline", "prepare"}

\* What each step waits for, as the DAGs wire it and the scripts order it.
\* check_nibi_libraries looks like the health check and is one with it.
DagNeeds == [health |-> {}, cover |-> {"health"}, export |-> {"cover"}, code |-> {"health"},
             upload |-> {"export", "code"}, submit |-> {"upload"}]
Needs == [daily |-> DagNeeds, base |-> DagNeeds,
          orchestrator |-> [health |-> {}, export |-> {"health"}, upload |-> {"export"},
                            submit |-> {"upload"}],
          pipeline |-> [export |-> {}, code |-> {"export"}, upload |-> {"code"},
                        submit |-> {"upload"}],
          prepare |-> [cover |-> {}, export |-> {"cover"}, upload |-> {"export"},
                       submit |-> {"upload"}]]

VARIABLES
  active,    \* the flows started for this date
  days,      \* the trading dates ml.market_data_15m holds in full
  ready,     \* the steps of each flow that are done
  doing,     \* the step each flow is in the middle of
  backfill,  \* whether the daily coverage check repaired the table
  cutoff,    \* the base flow's latest complete date; 0 before its check
  local,     \* the snapshot file, its .tmp, and prepare_base's own file
  handle,    \* the local file each exporting flow has open, and its rows
  remote,    \* the snapshot file on NIBI
  source,    \* the version of ml/ml in the repository
  code,      \* the copy of ml/ml on NIBI
  sending,   \* what each uploading or syncing flow began to send
  jobs,      \* Slurm jobs: how often each has read its inputs
  got,       \* the files and code each job has read
  kills,     \* steps killed and flows started over so far
  crossed,   \* history: flows whose files another flow wrote meanwhile
  spoiled,   \* history: an exporter that writes in place was killed, or two flows
             \* wrote one snapshot file at the same time
  reused     \* history: flows that took a snapshot they found

runVars == <<active, ready, doing, kills>>
coverageVars == <<days, backfill, cutoff>>
fileVars == <<local, handle, remote, source, code, sending>>
jobVars == <<jobs, got>>
causeVars == <<crossed, spoiled, reused>>
inputVars == <<runVars, coverageVars, fileVars, jobVars, causeVars>>

Files == {"snapshot", "tmp", "training"}
NoSnapshot == [state |-> "none", rows |-> {}]
FileSet == [state : {"none", "part", "torn", "whole"}, rows : SUBSET Window]
CodeSet == [version : 1 .. MaxVersions, whole : BOOLEAN]
Handles == [file : Files \cup {"none", "gone"}, rows : SUBSET Window]
GotSet == [file : SUBSET FileSet, code : SUBSET CodeSet]
FlowSteps == DOMAIN DagNeeds

InputsTypeOK ==
  /\ active \subseteq Flows /\ days \subseteq Window
  /\ ready \in [Flows -> SUBSET FlowSteps] /\ doing \in [Flows -> FlowSteps \cup {"none"}]
  /\ backfill \in BOOLEAN /\ cutoff \in Window \cup {0}
  /\ local \in [Files -> FileSet] /\ remote \in FileSet
  /\ handle \in [Flows -> Handles]
  /\ source \in 1 .. MaxVersions /\ code \in CodeSet
  /\ sending \in [Flows -> FileSet]
  /\ jobs \in [Flows -> 0 .. 3] /\ got \in [Flows -> GotSet]
  /\ kills \in 0 .. MaxKills
  /\ crossed \subseteq Flows /\ spoiled \in BOOLEAN /\ reused \subseteq Flows

InputsInit ==
  /\ active \in {a \in SUBSET Flows : Cardinality(a) \in 1 .. MaxActive}
  /\ days \in SUBSET Window
  /\ ready = [f \in Flows |-> {}] /\ doing = [f \in Flows |-> "none"]
  /\ backfill = FALSE /\ cutoff = 0
  /\ local = [p \in Files |-> NoSnapshot] /\ remote = NoSnapshot
  /\ handle = [f \in Flows |-> [file |-> "none", rows |-> {}]]
  /\ source = 1 /\ code = [version |-> 1, whole |-> TRUE]
  /\ sending = [f \in Flows |-> NoSnapshot]
  /\ jobs = [f \in Flows |-> 0] /\ got = [f \in Flows |-> [file |-> {}, code |-> {}]]
  /\ kills = 0 /\ crossed = {} /\ spoiled = FALSE /\ reused = {}
----------------------------------------------------------------------------
Ready(f, s) == /\ f \in active /\ s \in DOMAIN Needs[f]
               /\ s \notin ready[f] /\ doing[f] = "none" /\ Needs[f][s] \subseteq ready[f]
Finish(f, s) == /\ ready' = [ready EXCEPT ![f] = @ \cup {s}]
                /\ doing' = [doing EXCEPT ![f] = "none"]
                /\ UNCHANGED <<active, kills>>
Begin(f, s) == doing' = [doing EXCEPT ![f] = s] /\ UNCHANGED <<active, ready, kills>>

\* A flow is under way from its first step to the last read of its job.
UnderWay(f) == (ready[f] # {} \/ doing[f] # "none") /\ jobs[f] < 3

\* f writes a file others use: whoever is under way is crossed, and f too.
Crosses(f) == LET others == {g \in Flows \ {f} : UnderWay(g)}
              IN crossed' = crossed \cup others \cup (IF others = {} THEN {} ELSE {f})

(* ssh_health_check and check_nibi_libraries: read-only, may fail.         *)
Check(f) == Ready(f, "health") /\ Finish(f, "health")
            /\ UNCHANGED <<coverageVars, fileVars, jobVars, causeVars>>

\* Mutant of CutoffDate: the base flow takes the last expected date, complete or not.
CutoffDateExpected(complete) == Max(Window)

\* latest_complete_date; the job simulates the trading day after it.
CutoffDate(complete) == Max(complete)

(* ensure_training_db_coverage.  The daily DAG repairs the table or fails; *)
(* the base-only DAG looks for the latest complete date, and fails when    *)
(* there is none; prepare_base_apr21.sh backfills two dates and goes on.   *)
Cover(f) ==
  /\ Ready(f, "cover") /\ Finish(f, "cover")
  /\ \/ f = "daily" /\ days' = Window /\ backfill' = (days # Window) /\ UNCHANGED cutoff
     \/ f = "base" /\ days # {} /\ cutoff' = CutoffDate(days) /\ UNCHANGED <<days, backfill>>
     \/ f = "prepare" /\ days' \in {x \in SUBSET Window : days \subseteq x}
        /\ UNCHANGED <<backfill, cutoff>>
  /\ UNCHANGED <<fileVars, jobVars, causeVars>>

\* The collector goes on filling the table.
Arrive(d) == d \in Window \ days /\ days' = days \cup {d}
             /\ UNCHANGED <<backfill, cutoff, runVars, fileVars, jobVars, causeVars>>

\* The DAGs write to a .tmp and rename it; the others open the file itself.
Target(f) == IF f \in DagFlows THEN "tmp" ELSE IF f = "prepare" THEN "training" ELSE "snapshot"
OpenOn(p) == {f \in Flows : handle[f].file = p}

(* export_parquet: a snapshot that is there is taken as it is, unless the  *)
(* daily coverage check repaired the table.  The script's own export goes  *)
(* to another date's file, so that without a snapshot it stops.            *)
Reuse(f) ==
  /\ Ready(f, "export") /\ Finish(f, "export")
  /\ f # "prepare" /\ local["snapshot"].state # "none"
  /\ ~(f = "daily" /\ backfill)
  /\ reused' = reused \cup {f}
  /\ UNCHANGED <<coverageVars, fileVars, jobVars, crossed, spoiled>>

Export(f) ==
  /\ Ready(f, "export") /\ Begin(f, "export") /\ f # "pipeline"
  /\ f \in {"base", "orchestrator"} => local["snapshot"].state = "none"
  /\ f = "daily" => local["snapshot"].state = "none" \/ backfill
  /\ LET cleared == IF f = "daily" /\ local["snapshot"].state # "none"
                    THEN {"snapshot", "tmp"} ELSE {}     \* out_path.unlink()
         p == Target(f)
         shared == OpenOn(p) # {} /\ p \notin cleared
     IN /\ local' = [q \in Files |->
               IF q = p THEN [state |-> IF shared THEN "torn" ELSE "part", rows |-> days]
               ELSE IF q \in cleared THEN NoSnapshot ELSE local[q]]
        /\ handle' = [g \in Flows |->
               IF g = f THEN [file |-> p, rows |-> days]
               ELSE IF handle[g].file \in cleared THEN [handle[g] EXCEPT !.file = "gone"]
               ELSE handle[g]]
        /\ spoiled' = (spoiled \/ shared)
  /\ Crosses(f)
  /\ UNCHANGED <<coverageVars, remote, source, code, sending, jobVars, reused>>

\* Two writers in one file may leave it whole or in pieces.
WrittenBy(f, p) == {[state |-> s, rows |-> handle[f].rows] :
                    s \in IF local[p].state = "torn" THEN {"torn", "whole"}
                          ELSE {"whole"}}

(* The last chunk, and tmp_path.rename(out_path): FileNotFoundError when   *)
(* the other DAG has renamed or removed the .tmp.                          *)
Exported(f) ==
  /\ doing[f] = "export"
  /\ LET p == handle[f].file IN
     CASE p = "tmp" ->
            /\ \E w \in WrittenBy(f, p) :
                 local' = [local EXCEPT !.snapshot = w, !.tmp = NoSnapshot]
            /\ handle' = [g \in Flows |->
                 IF g = f THEN [handle[g] EXCEPT !.file = "none"]
                 ELSE IF handle[g].file = "tmp" THEN [handle[g] EXCEPT !.file = "snapshot"]
                 ELSE IF handle[g].file = "snapshot" THEN [handle[g] EXCEPT !.file = "gone"]
                 ELSE handle[g]]
            /\ Finish(f, "export")
       [] p \in {"snapshot", "training"} /\ f \notin DagFlows ->
            /\ \E w \in WrittenBy(f, p) : local' = [local EXCEPT ![p] = w]
            /\ handle' = [handle EXCEPT ![f].file = "none"]
            /\ Finish(f, "export")
       [] OTHER ->
            /\ handle' = [handle EXCEPT ![f].file = "none"]
            /\ doing' = [doing EXCEPT ![f] = "none"]
            /\ f \in DagFlows \/ f = "orchestrator"
            /\ UNCHANGED <<local, active, ready, kills>>
  /\ Crosses(f)
  /\ UNCHANGED <<coverageVars, remote, source, code, sending, jobVars, spoiled, reused>>

(* rsync -az --delete of ml/ml: the copy is mixed until it is through.     *)
SyncCode(f) ==
  /\ \/ /\ Ready(f, "code") /\ Begin(f, "code")
        /\ code' = [version |-> source, whole |-> FALSE]
     \/ /\ doing[f] = "code" /\ Finish(f, "code")
        /\ code' = [version |-> source, whole |-> code.version = source]
  /\ Crosses(f)
  /\ UNCHANGED <<coverageVars, local, handle, remote, source, sending, jobVars, spoiled, reused>>

\* A git pull in the repository, possibly under an rsync.
Deploy == /\ source < MaxVersions /\ source' = source + 1
          /\ crossed' = crossed \cup {f \in Flows : doing[f] = "code"}
          /\ UNCHANGED <<local, handle, remote, code, sending, runVars, coverageVars, jobVars,
                         spoiled, reused>>

LocalOf(f) == local[IF f = "prepare" THEN "training" ELSE "snapshot"]
Sending(g) == doing[g] = "upload"

\* Mutant of SameSize: any file of that name will do.
SameSizeExists(f) == remote.state # "none"

\* Size equal to the local file's: a file cut short never is.
SameSize(f) == remote = LocalOf(f)

\* One that two uploads wrote may have that size, and it is not looked into.
MaySeemSame(f) == SameSize(f) \/ (remote.state = "torn" /\ remote.rows = LocalOf(f).rows)

(* sync_parquet: skip when the sizes match, else scp into the remote name; *)
(* prepare_base_apr21.sh always sends.                                     *)
Upload(f) ==
  /\ Ready(f, "upload") /\ LocalOf(f).state # "none"
  /\ \/ /\ f # "prepare" /\ MaySeemSame(f) /\ Finish(f, "upload")
        /\ UNCHANGED <<remote, sending, crossed, spoiled>>
     \/ /\ f = "prepare" \/ ~SameSize(f)
        /\ Begin(f, "upload")
        /\ sending' = [sending EXCEPT ![f] = LocalOf(f)]
        /\ LET shared == \E g \in Flows : Sending(g)
           IN /\ remote' = [state |-> IF shared THEN "torn" ELSE "part", rows |-> {}]
              /\ spoiled' = (spoiled \/ shared)
        /\ Crosses(f)
  /\ UNCHANGED <<coverageVars, local, handle, source, code, jobVars, reused>>

Uploaded(f) ==
  /\ Sending(f) /\ Finish(f, "upload")
  /\ remote' \in IF remote.state = "part" THEN {sending[f]}
                 ELSE {sending[f], [sending[f] EXCEPT !.state = "torn"]}
  /\ sending' = [sending EXCEPT ![f] = NoSnapshot]
  /\ Crosses(f)
  /\ UNCHANGED <<coverageVars, local, handle, source, code, jobVars, spoiled, reused>>

(* A step dies half-way: the worker, its execution_timeout, the scp's      *)
(* timeout, ctrl-C.  Retries or an operator begin it again.                *)
KillStep(f) ==
  /\ doing[f] # "none" /\ kills < MaxKills
  /\ kills' = kills + 1
  /\ doing' = [doing EXCEPT ![f] = "none"]
  /\ handle' = [handle EXCEPT ![f].file = "none"]
  /\ sending' = [sending EXCEPT ![f] = NoSnapshot]
  /\ spoiled' = (spoiled \/ (doing[f] = "export" /\ f \notin DagFlows))
  /\ UNCHANGED <<active, ready, coverageVars, local, remote, source, code, jobVars, crossed, reused>>

(* The flow is started over for the same date: what it left is still there. *)
Rerun(f) ==
  /\ ready[f] # {} /\ doing[f] = "none" /\ kills < MaxKills
  /\ kills' = kills + 1
  /\ ready' = [ready EXCEPT ![f] = {}] /\ jobs' = [jobs EXCEPT ![f] = 0]
  /\ got' = [got EXCEPT ![f] = [file |-> {}, code |-> {}]]
  /\ reused' = reused \ {f}
  /\ UNCHANGED <<active, doing, coverageVars, fileVars, crossed, spoiled>>

SubmitFlow(f) == /\ Ready(f, "submit") /\ Finish(f, "submit")
             /\ jobs' = [jobs EXCEPT ![f] = 1]
             /\ UNCHANGED <<got, coverageVars, fileVars, causeVars>>

(* The job starts some time later, and each of its windows is a process of *)
(* its own that reads the snapshot and the code again.                     *)
JobReads(f) ==
  /\ jobs[f] \in {1, 2} /\ jobs' = [jobs EXCEPT ![f] = @ + 1]
  /\ got' = [got EXCEPT ![f] = [file |-> @.file \cup {remote}, code |-> @.code \cup {code}]]
  /\ UNCHANGED <<runVars, coverageVars, fileVars, causeVars>>

InputsNext ==
  \/ \E f \in Flows :
       \/ Check(f) \/ Cover(f) \/ Reuse(f) \/ Export(f) \/ Exported(f) \/ SyncCode(f)
       \/ Upload(f) \/ Uploaded(f) \/ KillStep(f) \/ Rerun(f)
       \/ SubmitFlow(f) \/ JobReads(f)
  \/ \E d \in Window : Arrive(d)
  \/ Deploy

InputsSpec == InputsInit /\ [][InputsNext]_inputVars
----------------------------------------------------------------------------
(* Killed steps and retries never reach a job: it reads one whole snapshot *)
(* and one copy of the code in all its windows, unless another flow wrote  *)
(* a shared file while this one was under way.  The snapshot is whole      *)
(* unless an exporter that writes in place was killed and its half file    *)
(* taken for a snapshot, or two flows once wrote one file together; the    *)
(* code is, if the flow syncs it at all.                                   *)
InputsAreWhole ==
  \A f \in Flows \ crossed :
    /\ Cardinality(got[f].file) <= 1 /\ Cardinality(got[f].code) <= 1
    /\ (\E x \in got[f].file : x.state # "whole") => spoiled
    /\ (\E c \in got[f].code : ~c.whole) => "code" \notin DOMAIN Needs[f]

(* The base job trains up to a cutoff the table had in full: its snapshot  *)
(* has that date too, unless it is an older one found on disk, or one a    *)
(* concurrent flow put there.                                              *)
SnapshotHasCutoff ==
  "base" \notin crossed \cup reused =>
    \A x \in got["base"].file : cutoff \in x.rows

(* A job reads one whole snapshot and one code in all its windows, and a   *)
(* base job finds its cutoff date in it, with the exceptions named above.  *)
InputsAreSound == InputsAreWhole /\ SnapshotHasCutoff
=============================================================================
