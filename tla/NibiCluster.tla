---------------------------- MODULE NibiCluster ----------------------------
(***************************************************************************)
(* The NIBI side of the pipeline: Slurm jobs, and the one directory all of *)
(* them share, test_simulation/run_root.  A job is one execution of        *)
(* run_simulation_day.py under one of three sbatch scripts:                *)
(*                                                                         *)
(*   "full"  simulate_full_day.sbatch  base training, then all windows;    *)
(*                                     --skip-base leaves the training out *)
(*   "warm"  sim_warm_windows.sbatch   the windows, always --skip-base     *)
(*   "base"  sim_base_train.sbatch     the base training, --base-only      *)
(*                                                                         *)
(* Stage 0 of a job is the base training, stage k is warm-refresh window   *)
(* k, whose snapshot is run_root/step_XX with XX = k - 1.                  *)
(***************************************************************************)
EXTENDS Naturals

CONSTANTS Jobs,     \* Slurm job ids; Slurm hands them out in increasing order
          Windows,  \* warm-refresh windows of a day (26 in the code)
          Nothing   \* no bundle, no job, no file

Shipped == 0        \* "author" of a base model rsynced from the VM
Steps == 1..Windows

\* A model bundle: who trained it, at which stage, and whether the chain of
\* warm starts it comes from begins with a base model.
Bundles == [by : Jobs \cup {Shipped}, stage : 0..Windows, rooted : BOOLEAN]

ASSUME ClusterAssumption ==
  /\ Jobs \subseteq Nat \ {Shipped}
  /\ Windows \in Nat \ {0}
  /\ Nothing \notin Jobs \cup Bundles

VARIABLES
  job,      \* the Slurm jobs and where their script is
  current,  \* bundle in run_root/current
  tmp,      \* bundle in run_root/.current_tmp, about to become current
  step,     \* bundle in each run_root/step_XX
  preds,    \* the steps that have predictions/predictions.csv
  done,     \* the job that wrote run_root/SIMULATION_DONE
  slice,    \* run_root/slices: "none", "dir", or "full" with slice_1945 in it
  owner,    \* history: the job that alone has written to run_root since its
            \* own start, or Nothing
  torn      \* history: a window of that job failed between the two renames of
            \* copy_bundle()

rootVars == <<current, tmp, step, preds, done, slice, owner, torn>>
clusterVars == <<job, rootVars>>

JobStates == {"unused", "PENDING", "RUNNING", "COMPLETED", "FAILED"}
Kinds == {"full", "warm", "base"}
JobRecords == [kind : Kinds, skip : BOOLEAN, st : JobStates,
               stage : 0..(Windows + 1), err : BOOLEAN, root : BOOLEAN,
               phase : {"train", "fit", "swap", "snap", "exit"}]

TypeOK == /\ job \in [Jobs -> JobRecords]
          /\ current \in Bundles \cup {Nothing}
          /\ tmp \in Bundles \cup {Nothing}
          /\ step \in [Steps -> Bundles \cup {Nothing}]
          /\ preds \subseteq Steps
          /\ done \in Jobs \cup {Nothing}
          /\ slice \in {"none", "dir", "full"}
          /\ owner \in Jobs \cup {Nothing} /\ torn \in BOOLEAN

Init == /\ job = [j \in Jobs |-> [kind |-> "full", skip |-> FALSE,
                                  st |-> "unused", stage |-> 0, err |-> FALSE,
                                  root |-> FALSE, phase |-> "train"]]
        /\ current = Nothing
        /\ tmp = Nothing
        /\ step = [k \in Steps |-> Nothing]
        /\ preds = {}
        /\ done = Nothing
        /\ slice = "none"
        /\ owner = Nothing /\ torn = FALSE

Running(j) == job[j].st = "RUNNING"
InFlight(j) == job[j].st \in {"PENDING", "RUNNING"}

\* The last stage a job's script goes through.
LastStage(j) == IF job[j].kind = "base" THEN 0 ELSE Windows

\* Slurm's ids increase.
NextId(j) == /\ job[j].st = "unused"
             /\ \A i \in Jobs : i < j => job[i].st # "unused"
----------------------------------------------------------------------------
(* What the rest of the pipeline does to the cluster over SSH.             *)

\* sbatch <script>: the job is queued.
Sbatch(j, kind, skip) ==
  /\ NextId(j)
  /\ job' = [job EXCEPT ![j].kind = kind, ![j].skip = skip, ![j].st = "PENDING",
                        ![j].stage = IF skip THEN 1 ELSE 0]
  /\ UNCHANGED rootVars

\* rm -rf run_root && mkdir -p run_root
Wipe == /\ current' = Nothing
        /\ tmp' = Nothing
        /\ step' = [k \in Steps |-> Nothing]
        /\ preds' = {}
        /\ done' = Nothing
        /\ slice' = "none"
        /\ owner' = Nothing /\ torn' = FALSE
        /\ UNCHANGED job

\* rsync of the VM's base model into run_root/current/.
ShipBase == /\ current' = [by |-> Shipped, stage |-> 0, rooted |-> TRUE]
            /\ owner' = Nothing /\ torn' = FALSE
            /\ UNCHANGED <<job, tmp, step, preds, done, slice>>

\* gen_step_predictions.py, started by an operator: one step.  A step that
\* has its csv is skipped, one without a directory too, and nothing can be
\* done before the slice of the last window is there.
Predict(k) == /\ slice = "full"
              /\ step[k] # Nothing
              /\ k \notin preds
              /\ preds' = preds \cup {k}
              /\ UNCHANGED <<job, current, tmp, step, done, slice, owner, torn>>
----------------------------------------------------------------------------
(* The script of a job.                                                    *)

\* The head of the script: sim_warm_windows.sbatch insists on a current/;
\* all of them make run_root/slices.
Start(j) ==
  /\ job[j].st = "PENDING"
  /\ \/ /\ job[j].kind = "warm" /\ current = Nothing
        /\ job' = [job EXCEPT ![j].st = "FAILED"]
        /\ UNCHANGED rootVars
     \/ /\ job[j].kind = "warm" => current # Nothing
        /\ job' = [job EXCEPT ![j].st = "RUNNING"]
        /\ slice' = IF slice = "none" THEN "dir" ELSE slice
        /\ owner' = IF \E i \in Jobs : Running(i) THEN Nothing ELSE j
        /\ torn' = FALSE
        /\ UNCHANGED <<current, tmp, step, preds, done>>

\* Mutant of Read: current/ is moved away when the training begins, not when
\* its candidate is ready.
ReadMovingAway(j) ==
  /\ Running(j) /\ job[j].phase = "train"
  /\ job[j].stage <= LastStage(j)
  /\ job[j].stage > 0 => slice # "none"
  /\ job' = [job EXCEPT ![j].phase = "fit",
                        ![j].root = \/ job[j].stage = 0
                                    \/ current # Nothing /\ current.rooted]
  /\ slice' = IF job[j].stage = Windows THEN "full" ELSE slice
  /\ current' = Nothing
  /\ UNCHANGED <<tmp, step, preds, done, owner, torn>>

\* A stage begins: the slice is written, and a warm refresh takes the models
\* in current/ to start from; without a current/ it trains from scratch, with
\* a warning.
Read(j) ==
  /\ Running(j) /\ job[j].phase = "train"
  /\ job[j].stage <= LastStage(j)
  /\ job[j].stage > 0 => slice # "none"
  /\ job' = [job EXCEPT ![j].phase = "fit",
                        ![j].root = \/ job[j].stage = 0
                                    \/ current # Nothing /\ current.rooted]
  /\ slice' = IF job[j].stage = Windows THEN "full" ELSE slice
  /\ UNCHANGED <<current, tmp, step, preds, done, owner, torn>>

\* Training and validation of the candidate, up to the middle of
\* copy_bundle(): it is in .current_tmp and the old current/, by now maybe not
\* the one it started from, has been renamed away.
Train(j) ==
  /\ Running(j) /\ job[j].phase = "fit"
  /\ tmp' = [by |-> j, stage |-> job[j].stage, rooted |-> job[j].root]
  /\ current' = Nothing
  /\ job' = [job EXCEPT ![j].phase = "swap", ![j].root = FALSE]
  /\ UNCHANGED <<step, preds, done, slice, owner, torn>>

\* The second rename of copy_bundle(), of whatever .current_tmp is by now;
\* it fails when current/ has reappeared (see WindowError).
Publish(j) ==
  /\ Running(j) /\ job[j].phase = "swap"
  /\ tmp # Nothing /\ current = Nothing
  /\ current' = tmp
  /\ tmp' = Nothing
  /\ job' = IF job[j].stage = 0
            THEN [job EXCEPT ![j].phase = "train", ![j].stage = 1]
            ELSE [job EXCEPT ![j].phase = "snap"]
  /\ UNCHANGED <<step, preds, done, slice, owner, torn>>

\* Mutant of Snapshot: the old step directory is not removed first.
SnapshotOverOld(j) ==
  /\ Running(j) /\ job[j].phase = "snap"
  /\ step' = [step EXCEPT ![job[j].stage] = current]
  /\ job' = [job EXCEPT ![j].phase = "train", ![j].stage = @ + 1,
                        ![j].err = @ \/ current = Nothing]
  /\ UNCHANGED <<current, tmp, preds, done, slice, owner, torn>>

\* snapshot_current(): rmtree(step_XX), then a copy of whatever current/ is
\* now; without a current/ the copy raises and the window counts as failed.
Snapshot(j) ==
  /\ Running(j) /\ job[j].phase = "snap"
  /\ step' = [step EXCEPT ![job[j].stage] = current]
  /\ preds' = preds \ {job[j].stage}
  /\ job' = [job EXCEPT ![j].phase = "train", ![j].stage = @ + 1,
                        ![j].err = @ \/ current = Nothing]
  /\ UNCHANGED <<current, tmp, done, slice, owner, torn>>

\* Mutant of WindowError: the failed window is not remembered.
WindowErrorForgotten(j) ==
  /\ Running(j) /\ job[j].stage \in 1..LastStage(j)
  /\ job' = [job EXCEPT ![j].phase = "train", ![j].stage = @ + 1, ![j].root = FALSE]
  /\ UNCHANGED rootVars

\* Any exception inside a window: noted in simulation_progress.json, and on
\* to the next window.
WindowError(j) ==
  /\ Running(j) /\ job[j].stage \in 1..LastStage(j)
  /\ job' = [job EXCEPT ![j].phase = "train", ![j].stage = @ + 1, ![j].err = TRUE,
                        ![j].root = FALSE]
  /\ \/ UNCHANGED slice
     \/ job[j].stage = Windows /\ slice # "none" /\ slice' = "full"
  /\ torn' = (torn \/ (owner = j /\ job[j].phase = "swap"))
  /\ UNCHANGED <<current, tmp, step, preds, done, owner>>

\* All windows are behind the script.
AtEnd(j) == Running(j) /\ job[j].stage = LastStage(j) + 1 /\ job[j].phase = "train"

\* Mutant of WriteDone: the sentinel is written before the errors are looked at.
WriteDoneFirst(j) == /\ AtEnd(j) /\ job[j].kind # "base"
                     /\ done' = j
                     /\ job' = [job EXCEPT ![j].phase = "exit"]
                     /\ UNCHANGED <<current, tmp, step, preds, slice, owner, torn>>

\* The end of main(): SIMULATION_DONE, unless a window failed.
WriteDone(j) == /\ AtEnd(j) /\ job[j].kind # "base" /\ ~job[j].err
                /\ done' = j
                /\ job' = [job EXCEPT ![j].phase = "exit"]
                /\ UNCHANGED <<current, tmp, step, preds, slice, owner, torn>>

\* The script returns: a base-only job without a sentinel.
Exit(j) == /\ \/ Running(j) /\ job[j].phase = "exit"
              \/ AtEnd(j) /\ job[j].kind = "base"
           /\ job' = [job EXCEPT ![j].st = "COMPLETED"]
           /\ UNCHANGED rootVars

\* SystemExit(1) after failed windows.
ExitFailed(j) == /\ AtEnd(j) /\ job[j].err
                 /\ job' = [job EXCEPT ![j].st = "FAILED"]
                 /\ UNCHANGED rootVars

\* CANCELLED, TIMEOUT, NODE_FAIL, OUT_OF_MEMORY, or an exception outside the
\* windows (base training, reading the parquet): at any point.
Die(j) == /\ InFlight(j)
          /\ job' = [job EXCEPT ![j].st = "FAILED"]
          /\ UNCHANGED rootVars

Slurm(j) == \/ Start(j) \/ Die(j)
            \/ Read(j) \/ Train(j) \/ Publish(j) \/ Snapshot(j) \/ WindowError(j)
            \/ WriteDone(j) \/ Exit(j) \/ ExitFailed(j)

Environment == \/ \E j \in Jobs : \/ \E skip \in BOOLEAN : Sbatch(j, "full", skip)
                                  \/ Sbatch(j, "warm", TRUE)
                                  \/ Sbatch(j, "base", FALSE)
               \/ Wipe
               \/ ShipBase
               \/ \E k \in Steps : Predict(k)

Next == Environment \/ \E j \in Jobs : Slurm(j)

Spec == Init /\ [][Next]_clusterVars
----------------------------------------------------------------------------
(* The sentinel is honest: its writer went through every window and none   *)
(* of them failed (what validate_artifacts relies on).                     *)
SentinelIsHonest ==
  done # Nothing => /\ ~job[done].err
                    /\ job[done].stage = Windows + 1
                    /\ job[done].kind # "base"

(* As long as nobody else touched run_root, the sentinel vouches for the   *)
(* whole day: every step holds that job's own bundle of that very window,  *)
(* and current/ the one of the last window.                                *)
SentinelVouches ==
  (done # Nothing /\ owner = done)
    => /\ \A k \in Steps : /\ step[k] # Nothing
                           /\ step[k].by = done /\ step[k].stage = k
       /\ current # Nothing
       /\ current.by = done /\ current.stage = Windows

(* As long as nobody else touched run_root, whatever a job with base       *)
(* training publishes descends from that base model, whichever of its      *)
(* windows fail and wherever it is killed, with one exception: after a     *)
(* window that failed between the two renames of copy_bundle() there is no *)
(* current/, and the next window trains from scratch with only a warning.  *)
OwnLineage ==
  \A j \in Jobs :
    (owner = j /\ ~job[j].skip /\ ~torn)
      => /\ current # Nothing /\ current.by = j => current.rooted
         /\ \A k \in Steps : step[k] # Nothing /\ step[k].by = j => step[k].rooted

(* predictions.csv never outlives the model it was computed with: a step   *)
(* whose bundle changes loses its predictions in the same step.            *)
PredictionsFollowModel ==
  [][\A k \in Steps : step'[k] # step[k] => k \notin preds']_clusterVars
============================================================================
