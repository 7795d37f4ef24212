------------------------------ MODULE BaseFlow ------------------------------
(***************************************************************************)
(* The operator's base-model pipeline, run_nibi_base_only.sh: one shell     *)
(* script that writes each stage to a status file and may die at any       *)
(* command (set -e, no trap); the Slurm jobs it leaves behind; the SSH      *)
(* master connection it runs over and auto_login.py that restores it; and   *)
(* what the ops dashboard makes of all this.  A date is its number; 0 is    *)
(* no date.  A model is the cutoff date it was trained to.                  *)
(***************************************************************************)
EXTENDS Naturals, Sequences, FiniteSets

CONSTANTS NumDates,   \* bound: trading dates
          MaxJobs,    \* bound: base-train jobs submitted
          Logins      \* auto_login.py processes the backend may have started

ASSUME FlowAssumption == NumDates \in Nat \ {0} /\ MaxJobs \in Nat

VARIABLES
  latest,     \* the last date ml.market_data_15m has bars of
  closed,     \* whether they reach the closing bar
  script,     \* cutoff date, stage and phase of the script; at = 0: not running
  report,     \* nibi_base_only_status.json
  exported,   \* snapshot_<date>.parquet
  meta,       \* snapshot_<date>.meta.json
  slurm,      \* the Slurm jobs: cutoff date and state
  runRoot,    \* the model in run_root/current on NIBI
  warm,       \* the model in warm_<date>
  links,      \* current_base and current_base_eod: the date of their directory
  master,     \* whether the ControlMaster connection is alive
  heartbeat,  \* whether a DAG saw it alive in the last 40 minutes
  login,      \* how far each auto_login.py is
  trained     \* history: cutoff dates some job was trained to

scriptVars == <<script, report>>
localVars == <<exported, meta, warm, links>>
nibiVars == <<slurm, runRoot, trained>>
sshVars == <<master, heartbeat, login>>
flowVars == <<latest, closed, scriptVars, localVars, nibiVars, sshVars>>

Dates == 1 .. NumDates
Maybe == 0 .. NumDates

Stages == <<"init", "export_snapshot", "validate_snapshot", "sync_code", "upload_snapshot",
            "prepare_remote", "submit_base_train", "base_train", "verify_remote_artifacts",
            "download_artifacts", "promote_base", "reload_backend", "completed">>
StageNo(s) == CHOOSE i \in DOMAIN Stages : Stages[i] = s

\* Stages whose command fails when the master connection is gone.
Remote == {"sync_code", "upload_snapshot", "prepare_remote", "submit_base_train",
           "base_train", "verify_remote_artifacts", "download_artifacts"}

Off == [date |-> 0, at |-> 0, open |-> FALSE, job |-> 0]
NoReport == [cutoff |-> 0, stage |-> "", status |-> "", meta |-> "none"]

FlowTypeOK ==
  /\ latest \in Dates /\ closed \in BOOLEAN
  /\ script \in [date : Maybe, at : 0 .. Len(Stages), open : BOOLEAN, job : 0 .. MaxJobs]
  /\ report \in [cutoff : Maybe, stage : {Stages[i] : i \in DOMAIN Stages} \cup {""},
                 status : {"", "running", "ok", "error"}, meta : {"none", "bad", "ok"}]
  /\ exported \in [Dates -> {"none", "short", "full"}]
  /\ meta \in [Dates -> {"none", "bad", "ok"}]
  /\ slurm \in Seq([date : Dates, state : {"queued", "running", "completed", "failed"}])
  /\ runRoot \in Maybe /\ warm \in [Dates -> Maybe]
  /\ links \in [base : Maybe, eod : Maybe]
  /\ master \in BOOLEAN /\ heartbeat \in BOOLEAN
  /\ login \in [Logins -> {"off", "check", "password", "mfa", "eof"}]
  /\ trained \subseteq Dates

FlowInit ==
  /\ latest = 1 /\ closed = FALSE
  /\ script = Off /\ report = NoReport
  /\ exported = [d \in Dates |-> "none"] /\ meta = [d \in Dates |-> "none"]
  /\ slurm = <<>> /\ runRoot = 0 /\ trained = {}
  /\ warm = [d \in Dates |-> 0] /\ links = [base |-> 0, eod |-> 0]
  /\ master = TRUE /\ heartbeat = TRUE /\ login = [g \in Logins |-> "off"]
----------------------------------------------------------------------------
(* write_status: the file takes the stage, the script's date and what the  *)
(* snapshot's meta file says at that moment.                               *)
WriteStatus(d, stage, status, metas) ==
  report' = [cutoff |-> d, stage |-> stage, status |-> status, meta |-> metas[d]]

At(stage) == script.at # 0 /\ Stages[script.at] = stage

Launch(d) ==
  /\ script.at = 0
  /\ script' = [Off EXCEPT !.date = d, !.at = StageNo("export_snapshot")]
  /\ WriteStatus(d, "init", "running", meta)
  /\ UNCHANGED <<latest, closed, localVars, nibiVars, sshVars>>

BeginStage ==
  /\ script.at # 0 /\ ~At("completed") /\ ~script.open
  /\ script' = [script EXCEPT !.open = TRUE]
  /\ WriteStatus(script.date, Stages[script.at], "running", meta)
  /\ UNCHANGED <<latest, closed, localVars, nibiVars, sshVars>>

\* A stage's command has returned: the ok line, and on to the next stage.
Done(stage) ==
  /\ At(stage) /\ script.open
  /\ stage \in Remote => master
  /\ script' = [script EXCEPT !.at = @ + 1, !.open = FALSE,
                              !.job = IF stage = "submit_base_train" THEN Len(slurm) + 1 ELSE @]
  /\ WriteStatus(script.date, stage, "ok", meta)

\* set -e: the script ends at the command that fails and leaves its status line.
Die == /\ script.at # 0
       /\ script' = Off
       /\ UNCHANGED <<latest, closed, report, localVars, nibiVars, sshVars>>

\* What an export of the whole table holds for date d.
Coverage(d) == IF d < latest \/ (d = latest /\ closed) THEN "full" ELSE "short"

\* A snapshot of that date is used again, however old.
ExportSnapshot ==
  /\ Done("export_snapshot")
  /\ exported' = [exported EXCEPT ![script.date] =
                    IF @ = "none" THEN Coverage(script.date) ELSE @]
  /\ UNCHANGED <<latest, closed, meta, warm, links, nibiVars, sshVars>>

\* Mutant of Valid: a snapshot that lacks the closing bar passes.
ValidWithoutClose(d) == exported[d] # "none"

Valid(d) == exported[d] = "full"

\* The opening and the closing bar of the cutoff date, for every symbol.
ValidateSnapshot ==
  /\ At("validate_snapshot") /\ script.open
  /\ meta' = [meta EXCEPT ![script.date] = IF Valid(script.date) THEN "ok" ELSE "bad"]
  /\ IF Valid(script.date)
     THEN /\ script' = [script EXCEPT !.at = @ + 1, !.open = FALSE]
          /\ WriteStatus(script.date, "validate_snapshot", "ok", meta')
     ELSE script' = Off /\ UNCHANGED report
  /\ UNCHANGED <<latest, closed, exported, warm, links, nibiVars, sshVars>>

SyncAndUpload ==
  /\ Done("sync_code") \/ Done("upload_snapshot")
  /\ UNCHANGED <<latest, closed, localVars, nibiVars, sshVars>>

\* rm -rf run_root, whatever Slurm still runs.
PrepareRemote ==
  /\ Done("prepare_remote")
  /\ runRoot' = 0
  /\ UNCHANGED <<latest, closed, localVars, slurm, trained, sshVars>>

Sbatch == /\ Len(slurm) < MaxJobs
          /\ slurm' = Append(slurm, [date |-> script.date, state |-> "queued"])

SubmitBaseTrain ==
  /\ Done("submit_base_train")
  /\ Sbatch
  /\ UNCHANGED <<latest, closed, localVars, runRoot, trained, sshVars>>

\* The connection drops after sbatch took the job: no id, and the script ends.
SubmitLost ==
  /\ At("submit_base_train") /\ script.open /\ master
  /\ Sbatch
  /\ script' = Off /\ master' = FALSE
  /\ UNCHANGED <<latest, closed, report, localVars, runRoot, trained, heartbeat, login>>

\* sacct; while the connection is gone the state is UNKNOWN and polling goes on.
PollCompleted ==
  /\ Done("base_train")
  /\ slurm[script.job].state = "completed"
  /\ UNCHANGED <<latest, closed, localVars, nibiVars, sshVars>>

PollFailed ==
  /\ At("base_train") /\ script.open /\ master
  /\ slurm[script.job].state = "failed"
  /\ script' = Off
  /\ WriteStatus(script.date, "base_train", "error", meta)
  /\ UNCHANGED <<latest, closed, localVars, nibiVars, sshVars>>

VerifyRemote ==
  /\ Done("verify_remote_artifacts")
  /\ runRoot # 0
  /\ UNCHANGED <<latest, closed, localVars, nibiVars, sshVars>>

Download ==
  /\ Done("download_artifacts")
  /\ runRoot # 0
  /\ warm' = [warm EXCEPT ![script.date] = runRoot]
  /\ UNCHANGED <<latest, closed, exported, meta, links, nibiVars, sshVars>>

(* The two links move one after the other; without a manifest neither does. *)
MoveBase ==
  /\ At("promote_base") /\ script.open
  /\ warm[script.date] # 0 /\ links.base # script.date
  /\ links' = [links EXCEPT !.base = script.date]
  /\ UNCHANGED <<latest, closed, scriptVars, exported, meta, warm, nibiVars, sshVars>>

MoveEod ==
  /\ Done("promote_base")
  /\ links.base = script.date /\ warm[script.date] # 0
  /\ links' = [links EXCEPT !.eod = script.date]
  /\ UNCHANGED <<latest, closed, exported, meta, warm, nibiVars, sshVars>>

\* curl's result is not looked at.
ReloadBackend ==
  /\ Done("reload_backend")
  /\ UNCHANGED <<latest, closed, localVars, nibiVars, sshVars>>

Complete ==
  /\ At("completed")
  /\ script' = Off
  /\ WriteStatus(script.date, "completed", "ok", meta)
  /\ UNCHANGED <<latest, closed, localVars, nibiVars, sshVars>>

Script == \/ \E d \in Dates : Launch(d)
          \/ BeginStage \/ Die
          \/ ExportSnapshot \/ ValidateSnapshot \/ SyncAndUpload \/ PrepareRemote
          \/ SubmitBaseTrain \/ SubmitLost \/ PollCompleted \/ PollFailed
          \/ VerifyRemote \/ Download \/ MoveBase \/ MoveEod \/ ReloadBackend \/ Complete
----------------------------------------------------------------------------
\* Slurm: a job trains to the day before its sim-date and publishes to current.
JobStep(j) ==
  /\ slurm[j].state \in {"queued", "running"}
  /\ \E s \in {"running", "completed", "failed"} :
       /\ s # slurm[j].state /\ (s = "completed" => slurm[j].state = "running")
       /\ slurm' = [slurm EXCEPT ![j].state = s]
       /\ runRoot' = IF s = "completed" THEN slurm[j].date ELSE runRoot
       /\ trained' = IF s = "completed" THEN trained \cup {slurm[j].date} ELSE trained
  /\ UNCHANGED <<latest, closed, scriptVars, localVars, sshVars>>

\* The collector brings the close of the date, then the next date.
DataArrives ==
  /\ closed => latest < NumDates
  /\ closed' = ~closed
  /\ latest' = IF closed THEN latest + 1 ELSE latest
  /\ UNCHANGED <<scriptVars, localVars, nibiVars, sshVars>>

MasterExpires == /\ master /\ master' = FALSE
                 /\ UNCHANGED <<latest, closed, scriptVars, localVars, nibiVars, heartbeat, login>>

\* A DAG's health check leaves ssh_alive.json; after 40 minutes it is too old.
Heartbeat == /\ heartbeat' = (~heartbeat /\ master)
             /\ heartbeat' # heartbeat
             /\ UNCHANGED <<latest, closed, scriptVars, localVars, nibiVars, master, login>>

\* POST /nibi/relogin trusts the heartbeat, and starts one more process.
Relogin(g) == /\ ~heartbeat /\ login[g] = "off"
              /\ login' = [login EXCEPT ![g] = "check"]
              /\ UNCHANGED <<latest, closed, scriptVars, localVars, nibiVars, master, heartbeat>>

NextPrompt(stage) == CASE stage = "check" -> "password" [] stage = "password" -> "mfa"
                       [] stage = "mfa" -> "eof" [] OTHER -> "off"

(* auto_login.py: nothing to do when the master answers; else password,    *)
(* second factor, and the end of the session that forked the master.       *)
LoginStep(g) ==
  /\ login[g] # "off"
  /\ login' = [login EXCEPT ![g] = IF @ = "check" /\ master THEN "off" ELSE NextPrompt(@)]
  /\ master' = (master \/ login[g] = "mfa")
  /\ UNCHANGED <<latest, closed, scriptVars, localVars, nibiVars, heartbeat>>

\* Rejected, closed, or no answer to the push in time.
LoginFails(g) == /\ login[g] \notin {"off", "eof"}
                 /\ login' = [login EXCEPT ![g] = "off"]
                 /\ UNCHANGED <<latest, closed, scriptVars, localVars, nibiVars, master, heartbeat>>

FlowNext == \/ Script
            \/ \E j \in DOMAIN slurm : JobStep(j)
            \/ DataArrives \/ MasterExpires \/ Heartbeat
            \/ \E g \in Logins : Relogin(g) \/ LoginStep(g) \/ LoginFails(g)

FlowSpec == FlowInit /\ [][FlowNext]_flowVars
----------------------------------------------------------------------------
(* The dashboard: _build_training_flow over the files, the links, the      *)
(* Slurm queue and the database, which may not answer.                     *)
ActiveCutoff == IF links.base = 0 THEN 0 ELSE warm[links.base]

Cutoff(db) == IF db THEN latest
              ELSE IF report.cutoff # 0 THEN report.cutoff ELSE ActiveCutoff

\* Mutant of Flow: whichever run wrote the status file last.
FlowOfAnyDate(c) == report

Flow(c) == IF report.cutoff = c THEN report ELSE NoReport

Normalized(status) == CASE status = "ok" -> "completed" [] status = "" -> "not_started"
                        [] OTHER -> status

FromFlow(c, stages) == IF Flow(c).stage \in stages THEN Normalized(Flow(c).status) ELSE ""

\* squeue, asked only when the heartbeat is fresh; RUNNING before PENDING.
LiveTrain ==
  LET States == {slurm[j].state : j \in DOMAIN slurm}
  IN IF ~(heartbeat /\ master) THEN "" ELSE IF "running" \in States THEN "running"
     ELSE IF "queued" \in States THEN "pending" ELSE ""

SnapshotShown(c) ==
  LET now == FromFlow(c, {"export_snapshot", "validate_snapshot", "upload_snapshot"})
      known == IF Flow(c).meta # "none" THEN Flow(c).meta ELSE meta[c]
  IN IF now \in {"running", "error"} THEN now
     ELSE IF known = "ok" THEN "completed" ELSE "not_started"

AfterTraining == {"base_train", "verify_remote_artifacts", "download_artifacts",
                  "promote_base", "reload_backend", "completed"}

TrainShown(c) ==
  LET now == FromFlow(c, {"submit_base_train", "base_train"})
  IN IF LiveTrain # "" THEN LiveTrain
     ELSE IF ActiveCutoff = c \/ FromFlow(c, AfterTraining) = "completed" THEN "completed"
     ELSE IF now \in {"running", "pending", "error"} THEN now
     ELSE IF c > ActiveCutoff THEN "pending" ELSE "not_started"

\* What the dashboard shows as completed has been done, and for the date it
\* shows: the snapshot reaches that date's close, a job was trained to it.
ShownIsDone ==
  \A db \in BOOLEAN : LET c == Cutoff(db) IN
    c # 0 => /\ SnapshotShown(c) = "completed" => exported[c] = "full"
             /\ TrainShown(c) = "completed" => c \in trained
=============================================================================
