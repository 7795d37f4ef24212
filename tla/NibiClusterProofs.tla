------------------------- MODULE NibiClusterProofs -------------------------
(***************************************************************************)
(* Proofs about NibiCluster for any set of jobs and any number of windows: *)
(* types, the honesty of the sentinel, what it vouches for when nobody     *)
(* else touched run_root, the lineage of what a job publishes, and that    *)
(* predictions never outlive their model.                                  *)
(***************************************************************************)
EXTENDS NibiCluster, TLAPS

\* A bundle of job j.
Own(b, j) == b # Nothing /\ b.by = j

\* Before it starts, a job has written nothing.
Fresh(j) == /\ job[j].phase = "train" /\ ~job[j].err
            /\ job[j].stage = IF job[j].skip THEN 1 ELSE 0
            /\ ~Own(current, j) /\ ~Own(tmp, j)
            /\ \A k \in Steps : ~Own(step[k], j)
            /\ done # j /\ owner # j

FreshBeforeStart ==
  \A j \in Jobs : job[j].st \in {"unused", "PENDING"} => Fresh(j)

\* Which stages the positions of the script belong to.
Shape ==
  \A j \in Jobs :
    /\ job[j].phase = "exit" => job[j].stage = Windows + 1 /\ ~job[j].err
    /\ job[j].phase = "snap" => job[j].stage \in Steps
    /\ job[j].phase \in {"fit", "swap"} => job[j].stage \in 0..Windows

\* The writer of the sentinel is past the end of its script.
SentinelWriter ==
  done # Nothing => job[done].phase = "exit" /\ job[done].kind # "base"

\* What run_root holds while it is the work of j alone.
Progress(j) ==
  /\ job[j].phase = "swap" => Own(tmp, j) /\ tmp.stage = job[j].stage
  /\ job[j].phase = "snap" => Own(current, j) /\ current.stage = job[j].stage
  /\ (/\ job[j].phase \in {"train", "exit"} /\ ~job[j].err
      /\ job[j].stage > IF job[j].skip THEN 1 ELSE 0)
       => Own(current, j) /\ current.stage = job[j].stage - 1
  /\ ~job[j].err => \A k \in Steps : k < job[j].stage
                      => Own(step[k], j) /\ step[k].stage = k

OwnerAlone == \A j \in Jobs : owner = j => \A i \in Jobs \ {j} : ~Running(i)

OwnerProgress == \A j \in Jobs : owner = j => Progress(j)

\* What a job with base training has written descends from that training, and
\* current/ stands there between two swaps, unless a window failed inside one.
OwnRooted ==
  \A j \in Jobs : owner = j =>
    /\ torn => job[j].err
    /\ (~job[j].skip /\ ~torn)
         => /\ (job[j].stage > 0 /\ job[j].phase # "swap") => Own(current, j)
            /\ job[j].phase = "fit" => job[j].root
            /\ Own(current, j) => current.rooted
            /\ Own(tmp, j) => tmp.rooted
            /\ \A k \in Steps : Own(step[k], j) => step[k].rooted

IndInv == /\ TypeOK /\ FreshBeforeStart /\ Shape /\ SentinelWriter
          /\ OwnerAlone /\ OwnerProgress /\ OwnRooted

\* Moving one job keeps the records well formed.
LEMMA JobMoves ==
  ASSUME NEW f \in [Jobs -> JobRecords], NEW j \in Jobs
  PROVE  /\ \A s \in JobStates : [f EXCEPT ![j].st = s] \in [Jobs -> JobRecords]
         /\ \A p \in {"train", "fit", "swap", "snap", "exit"} :
              [f EXCEPT ![j].phase = p] \in [Jobs -> JobRecords]
         /\ \A p \in {"fit", "swap"}, b \in BOOLEAN :
              [f EXCEPT ![j].phase = p, ![j].root = b] \in [Jobs -> JobRecords]
         /\ \A n \in 0..(Windows + 1), b \in BOOLEAN :
              [f EXCEPT ![j].phase = "train", ![j].stage = n, ![j].err = b]
                \in [Jobs -> JobRecords]
         /\ [f EXCEPT ![j].phase = "train", ![j].stage = 1] \in [Jobs -> JobRecords]
<1>1. ASSUME NEW r \in JobRecords, NEW s \in JobStates PROVE [r EXCEPT !.st = s] \in JobRecords
  BY DEF JobRecords
<1>2. ASSUME NEW r \in JobRecords, NEW p \in {"train", "fit", "swap", "snap", "exit"}
      PROVE  [r EXCEPT !.phase = p] \in JobRecords
  BY DEF JobRecords
<1>3. ASSUME NEW r \in JobRecords
      PROVE  [r EXCEPT !.phase = "train", !.stage = 1] \in JobRecords
  <2>1. 1 \in 0..(Windows + 1)
    BY ClusterAssumption
  <2>. QED
    BY <2>1 DEF JobRecords
<1>4. ASSUME NEW r \in JobRecords, NEW p \in {"fit", "swap"}, NEW b \in BOOLEAN
      PROVE  [r EXCEPT !.phase = p, !.root = b] \in JobRecords
  BY DEF JobRecords
<1>5. ASSUME NEW r \in JobRecords, NEW n \in 0..(Windows + 1), NEW b \in BOOLEAN
      PROVE  [r EXCEPT !.phase = "train", !.stage = n, !.err = b] \in JobRecords
  BY DEF JobRecords
<1>6. f[j] \in JobRecords
  OBVIOUS
<1>. HIDE DEF JobRecords
<1>. QED
  BY <1>1, <1>2, <1>3, <1>4, <1>5, <1>6

\* Types: a snapshot is of a window, which Shape says.
LEMMA TypeStep ==
  TypeOK /\ Shape /\ [Next]_clusterVars => TypeOK'
<1> SUFFICES ASSUME TypeOK, Shape, [Next]_clusterVars PROVE TypeOK'
  OBVIOUS
<1> USE ClusterAssumption DEF TypeOK, JobRecords, JobStates, Kinds, Bundles, Steps, Shipped
<1> USE DEF Running, InFlight, LastStage, AtEnd, rootVars, Shape
<1>1. CASE UNCHANGED clusterVars
  BY <1>1 DEF clusterVars
<1>2. ASSUME NEW j \in Jobs, NEW kind \in Kinds, NEW skip \in BOOLEAN, Sbatch(j, kind, skip)
      PROVE TypeOK'
  <2>1. (IF skip THEN 1 ELSE 0) \in 0..(Windows + 1)
    OBVIOUS
  <2>2. job[j] \in JobRecords
    OBVIOUS
  <2>3. [job[j] EXCEPT !.kind = kind, !.skip = skip, !.st = "PENDING",
                       !.stage = IF skip THEN 1 ELSE 0] \in JobRecords
    BY <2>1, <2>2
  <2>4. job' \in [Jobs -> JobRecords]
    BY <1>2, <2>3 DEF Sbatch
  <2>. QED
    BY <1>2, <2>4 DEF Sbatch
<1>3. CASE Wipe
  BY <1>3 DEF Wipe
<1>4. CASE ShipBase
  <2>1. [by |-> Shipped, stage |-> 0, rooted |-> TRUE] \in Bundles
    OBVIOUS
  <2>2. current' \in Bundles /\ owner' = Nothing /\ torn' = FALSE
    BY <1>4, <2>1 DEF ShipBase
  <2>3. UNCHANGED <<job, tmp, step, preds, done, slice>>
    BY <1>4 DEF ShipBase
  <2>. QED
    BY <2>2, <2>3
<1>5. ASSUME NEW k \in Steps, Predict(k) PROVE TypeOK'
  BY <1>5 DEF Predict
<1>6. ASSUME NEW j \in Jobs, Start(j) PROVE TypeOK'
  <2>1. job' \in [Jobs -> JobRecords]
    <3>1. CASE job' = [job EXCEPT ![j].st = "FAILED"]
      BY <3>1, JobMoves
    <3>2. CASE job' = [job EXCEPT ![j].st = "RUNNING"]
      BY <3>2, JobMoves
    <3>. QED
      BY <1>6, <3>1, <3>2 DEF Start
  <2>2. /\ owner' \in {owner, Nothing, j} /\ slice' \in {"none", "dir", "full"}
        /\ torn' \in {torn, FALSE}
    BY <1>6 DEF Start
  <2>3. UNCHANGED <<current, tmp, step, preds, done>>
    BY <1>6 DEF Start
  <2>. QED
    BY <2>1, <2>2, <2>3
<1>7. ASSUME NEW j \in Jobs, Die(j) PROVE TypeOK'
  <2>1. job' \in [Jobs -> JobRecords]
    BY <1>7, JobMoves DEF Die
  <2>. QED
    BY <1>7, <2>1 DEF Die
<1>8. ASSUME NEW j \in Jobs, Read(j) PROVE TypeOK'
  <2>1. (job[j].stage = 0 \/ (current # Nothing /\ current.rooted)) \in BOOLEAN
    BY DEF Read
  <2>2. job' \in [Jobs -> JobRecords]
    BY <1>8, <2>1, JobMoves DEF Read
  <2>. QED
    BY <1>8, <2>2 DEF Read
<1>9. ASSUME NEW j \in Jobs, Train(j) PROVE TypeOK'
  <2>1. job' \in [Jobs -> JobRecords]
    BY <1>9, JobMoves DEF Train
  <2>2. job[j] \in JobRecords /\ job[j].stage \in 0..Windows
    BY <1>9 DEF Train
  <2>3. tmp' \in Bundles
    BY <1>9, <2>2 DEF Train
  <2>. QED
    BY <1>9, <2>1, <2>3 DEF Train
<1>10. ASSUME NEW j \in Jobs, Publish(j) PROVE TypeOK'
  <2>1. CASE job[j].stage = 0
    <3>1. job' = [job EXCEPT ![j].phase = "train", ![j].stage = 1]
      BY <1>10, <2>1 DEF Publish
    <3>2. job' \in [Jobs -> JobRecords]
      BY <3>1, JobMoves
    <3>. QED
      BY <1>10, <3>2 DEF Publish
  <2>2. CASE job[j].stage # 0
    <3>1. job' \in [Jobs -> JobRecords]
      BY <1>10, <2>2, JobMoves DEF Publish
    <3>. QED
      BY <1>10, <3>1 DEF Publish
  <2>. QED
    BY <2>1, <2>2
<1>11. ASSUME NEW j \in Jobs, Snapshot(j) PROVE TypeOK'
  <2>1. job[j].stage \in Steps /\ job[j] \in JobRecords
    BY <1>11 DEF Snapshot
  <2>2. /\ job[j].stage + 1 \in 0..(Windows + 1)
        /\ (job[j].err \/ current = Nothing) \in BOOLEAN
    BY <2>1
  <2>3. job' = [job EXCEPT ![j].phase = "train", ![j].stage = job[j].stage + 1,
                           ![j].err = job[j].err \/ current = Nothing]
    BY <1>11 DEF Snapshot
  <2>4. job' \in [Jobs -> JobRecords]
    BY <2>2, <2>3, JobMoves
  <2>. QED
    BY <1>11, <2>1, <2>4 DEF Snapshot
<1>12. ASSUME NEW j \in Jobs, WindowError(j) PROVE TypeOK'
  BY <1>12 DEF WindowError
<1>13. ASSUME NEW j \in Jobs, WriteDone(j) PROVE TypeOK'
  BY <1>13 DEF WriteDone
<1>14. ASSUME NEW j \in Jobs, Exit(j) PROVE TypeOK'
  BY <1>14 DEF Exit
<1>15. ASSUME NEW j \in Jobs, ExitFailed(j) PROVE TypeOK'
  <2>1. job' \in [Jobs -> JobRecords]
    BY <1>15, JobMoves DEF ExitFailed
  <2>. QED
    BY <1>15, <2>1 DEF ExitFailed
<1>. HIDE DEF TypeOK, JobRecords, JobStates, Bundles, Shipped, Running, InFlight, LastStage, AtEnd, rootVars, Steps, Shape
<1>. QED
  BY <1>1, <1>2, <1>3, <1>4, <1>5, <1>6, <1>7, <1>8, <1>9, <1>10, <1>11, <1>12,
     <1>13, <1>14, <1>15 DEF Next, Environment, Slurm, Kinds

\* The positions of the script keep to their stages.
LEMMA ShapeStep ==
  TypeOK /\ Shape /\ FreshBeforeStart /\ [Next]_clusterVars => Shape'
<1> SUFFICES ASSUME TypeOK, Shape, FreshBeforeStart, [Next]_clusterVars PROVE Shape'
  OBVIOUS
<1> USE ClusterAssumption DEF TypeOK, JobRecords, JobStates, Kinds, Bundles, Steps, Shipped
<1> USE DEF Running, InFlight, LastStage, AtEnd, rootVars, Shape, FreshBeforeStart, Fresh
<1>1. CASE UNCHANGED clusterVars
  BY <1>1 DEF clusterVars
<1>2. ASSUME NEW j \in Jobs, NEW kind \in Kinds, NEW skip \in BOOLEAN, Sbatch(j, kind, skip)
      PROVE Shape'
  BY <1>2 DEF Sbatch, NextId
<1>3. CASE Wipe
  BY <1>3 DEF Wipe
<1>4. CASE ShipBase
  BY <1>4 DEF ShipBase
<1>5. ASSUME NEW k \in Steps, Predict(k) PROVE Shape'
  BY <1>5 DEF Predict
<1>6. ASSUME NEW j \in Jobs, Start(j) PROVE Shape'
  <2>1. CASE job' = [job EXCEPT ![j].st = "FAILED"]
    BY <2>1
  <2>2. CASE job' = [job EXCEPT ![j].st = "RUNNING"]
    BY <2>2
  <2>. QED
    BY <1>6, <2>1, <2>2 DEF Start
<1>7. ASSUME NEW j \in Jobs, Die(j) PROVE Shape'
  BY <1>7 DEF Die
<1>8. ASSUME NEW j \in Jobs, Read(j) PROVE Shape'
  BY <1>8 DEF Read
<1>9. ASSUME NEW j \in Jobs, Train(j) PROVE Shape'
  BY <1>9 DEF Train
<1>10. ASSUME NEW j \in Jobs, Publish(j) PROVE Shape'
  BY <1>10 DEF Publish
<1>11. ASSUME NEW j \in Jobs, Snapshot(j) PROVE Shape'
  <2>1. \A i \in Jobs \ {j} : job'[i] = job[i]
    BY <1>11 DEF Snapshot
  <2>2. job'[j].phase = "train"
    BY <1>11 DEF Snapshot
  <2>. QED
    BY <2>1, <2>2
<1>12. ASSUME NEW j \in Jobs, WindowError(j) PROVE Shape'
  BY <1>12 DEF WindowError
<1>13. ASSUME NEW j \in Jobs, WriteDone(j) PROVE Shape'
  BY <1>13 DEF WriteDone
<1>14. ASSUME NEW j \in Jobs, Exit(j) PROVE Shape'
  BY <1>14 DEF Exit
<1>15. ASSUME NEW j \in Jobs, ExitFailed(j) PROVE Shape'
  BY <1>15 DEF ExitFailed
<1>. HIDE DEF TypeOK, JobRecords, JobStates, Bundles, Shipped, Running, InFlight, LastStage, AtEnd, rootVars, Steps, Shape, FreshBeforeStart, Fresh
<1>. QED
  BY <1>1, <1>2, <1>3, <1>4, <1>5, <1>6, <1>7, <1>8, <1>9, <1>10, <1>11, <1>12,
     <1>13, <1>14, <1>15 DEF Next, Environment, Slurm, Kinds

\* Nobody writes in the name of a job that has not started.
LEMMA FreshStep ==
  TypeOK /\ Shape /\ FreshBeforeStart /\ [Next]_clusterVars => FreshBeforeStart'
<1> SUFFICES ASSUME TypeOK, Shape, FreshBeforeStart, [Next]_clusterVars PROVE FreshBeforeStart'
  OBVIOUS
<1> USE ClusterAssumption DEF TypeOK, JobRecords, JobStates, Kinds, Bundles, Steps, Shipped
<1> USE DEF Running, InFlight, LastStage, AtEnd, rootVars, FreshBeforeStart, Fresh, Own, Shape
<1>1. CASE UNCHANGED clusterVars
  BY <1>1 DEF clusterVars
<1>2. ASSUME NEW j \in Jobs, NEW kind \in Kinds, NEW skip \in BOOLEAN, Sbatch(j, kind, skip)
      PROVE FreshBeforeStart'
  BY <1>2 DEF Sbatch, NextId
<1>3. CASE Wipe
  BY <1>3 DEF Wipe
<1>4. CASE ShipBase
  BY <1>4 DEF ShipBase
<1>5. ASSUME NEW k \in Steps, Predict(k) PROVE FreshBeforeStart'
  BY <1>5 DEF Predict
<1>6. ASSUME NEW j \in Jobs, Start(j) PROVE FreshBeforeStart'
  BY <1>6 DEF Start
<1>7. ASSUME NEW j \in Jobs, Die(j) PROVE FreshBeforeStart'
  BY <1>7 DEF Die
<1>8. ASSUME NEW j \in Jobs, Read(j) PROVE FreshBeforeStart'
  BY <1>8 DEF Read
<1>9. ASSUME NEW j \in Jobs, Train(j) PROVE FreshBeforeStart'
  BY <1>9 DEF Train
<1>10. ASSUME NEW j \in Jobs, Publish(j) PROVE FreshBeforeStart'
  BY <1>10 DEF Publish
<1>11. ASSUME NEW j \in Jobs, Snapshot(j) PROVE FreshBeforeStart'
  BY <1>11 DEF Snapshot
<1>12. ASSUME NEW j \in Jobs, WindowError(j) PROVE FreshBeforeStart'
  BY <1>12 DEF WindowError
<1>13. ASSUME NEW j \in Jobs, WriteDone(j) PROVE FreshBeforeStart'
  BY <1>13 DEF WriteDone
<1>14. ASSUME NEW j \in Jobs, Exit(j) PROVE FreshBeforeStart'
  BY <1>14 DEF Exit
<1>15. ASSUME NEW j \in Jobs, ExitFailed(j) PROVE FreshBeforeStart'
  BY <1>15 DEF ExitFailed
<1>. HIDE DEF TypeOK, JobRecords, JobStates, Bundles, Shipped, Running, InFlight, LastStage, AtEnd, rootVars, Steps, FreshBeforeStart, Fresh, Own, Shape
<1>. QED
  BY <1>1, <1>2, <1>3, <1>4, <1>5, <1>6, <1>7, <1>8, <1>9, <1>10, <1>11, <1>12,
     <1>13, <1>14, <1>15 DEF Next, Environment, Slurm, Kinds

\* The writer of the sentinel stays at its end.
LEMMA WriterStep ==
  TypeOK /\ Shape /\ FreshBeforeStart /\ SentinelWriter /\ [Next]_clusterVars => SentinelWriter'
<1> SUFFICES ASSUME TypeOK, Shape, FreshBeforeStart, SentinelWriter, [Next]_clusterVars PROVE SentinelWriter'
  OBVIOUS
<1> USE ClusterAssumption DEF TypeOK, JobRecords, JobStates, Kinds, Bundles, Steps, Shipped
<1> USE DEF Running, InFlight, LastStage, AtEnd, rootVars, SentinelWriter, FreshBeforeStart, Fresh, Shape
<1>1. CASE UNCHANGED clusterVars
  BY <1>1 DEF clusterVars
<1>2. ASSUME NEW j \in Jobs, NEW kind \in Kinds, NEW skip \in BOOLEAN, Sbatch(j, kind, skip)
      PROVE SentinelWriter'
  BY <1>2 DEF Sbatch, NextId
<1>3. CASE Wipe
  BY <1>3 DEF Wipe
<1>4. CASE ShipBase
  BY <1>4 DEF ShipBase
<1>5. ASSUME NEW k \in Steps, Predict(k) PROVE SentinelWriter'
  BY <1>5 DEF Predict
<1>6. ASSUME NEW j \in Jobs, Start(j) PROVE SentinelWriter'
  BY <1>6 DEF Start
<1>7. ASSUME NEW j \in Jobs, Die(j) PROVE SentinelWriter'
  BY <1>7 DEF Die
<1>8. ASSUME NEW j \in Jobs, Read(j) PROVE SentinelWriter'
  BY <1>8 DEF Read
<1>9. ASSUME NEW j \in Jobs, Train(j) PROVE SentinelWriter'
  BY <1>9 DEF Train
<1>10. ASSUME NEW j \in Jobs, Publish(j) PROVE SentinelWriter'
  BY <1>10 DEF Publish
<1>11. ASSUME NEW j \in Jobs, Snapshot(j) PROVE SentinelWriter'
  BY <1>11 DEF Snapshot
<1>12. ASSUME NEW j \in Jobs, WindowError(j) PROVE SentinelWriter'
  BY <1>12 DEF WindowError
<1>13. ASSUME NEW j \in Jobs, WriteDone(j) PROVE SentinelWriter'
  BY <1>13 DEF WriteDone
<1>14. ASSUME NEW j \in Jobs, Exit(j) PROVE SentinelWriter'
  BY <1>14 DEF Exit
<1>15. ASSUME NEW j \in Jobs, ExitFailed(j) PROVE SentinelWriter'
  BY <1>15 DEF ExitFailed
<1>. HIDE DEF TypeOK, JobRecords, JobStates, Bundles, Shipped, Running, InFlight, LastStage, AtEnd, rootVars, Steps, SentinelWriter, FreshBeforeStart, Fresh, Shape
<1>. QED
  BY <1>1, <1>2, <1>3, <1>4, <1>5, <1>6, <1>7, <1>8, <1>9, <1>10, <1>11, <1>12,
     <1>13, <1>14, <1>15 DEF Next, Environment, Slurm, Kinds

\* The owner of run_root is the only running job.
LEMMA AloneStep ==
  TypeOK /\ OwnerAlone /\ [Next]_clusterVars => OwnerAlone'
<1> SUFFICES ASSUME TypeOK, OwnerAlone, [Next]_clusterVars PROVE OwnerAlone'
  OBVIOUS
<1> USE ClusterAssumption DEF TypeOK, JobRecords, JobStates, Kinds, Bundles, Steps, Shipped
<1> USE DEF Running, InFlight, LastStage, AtEnd, rootVars, OwnerAlone
<1>1. CASE UNCHANGED clusterVars
  BY <1>1 DEF clusterVars
<1>2. ASSUME NEW j \in Jobs, NEW kind \in Kinds, NEW skip \in BOOLEAN, Sbatch(j, kind, skip)
      PROVE OwnerAlone'
  BY <1>2 DEF Sbatch, NextId
<1>3. CASE Wipe
  BY <1>3 DEF Wipe
<1>4. CASE ShipBase
  BY <1>4 DEF ShipBase
<1>5. ASSUME NEW k \in Steps, Predict(k) PROVE OwnerAlone'
  BY <1>5 DEF Predict
<1>6. ASSUME NEW j \in Jobs, Start(j) PROVE OwnerAlone'
  <2>1. CASE UNCHANGED rootVars /\ job' = [job EXCEPT ![j].st = "FAILED"]
    BY <2>1
  <2>2. CASE job' = [job EXCEPT ![j].st = "RUNNING"] /\ \E i \in Jobs : Running(i)
    <3>1. owner' = Nothing
      BY <1>6, <2>2 DEF Start
    <3>. QED
      BY <3>1
  <2>3. CASE job' = [job EXCEPT ![j].st = "RUNNING"] /\ \A i \in Jobs : ~Running(i)
    <3>1. owner' = j
      BY <1>6, <2>3 DEF Start
    <3>2. \A i \in Jobs \ {j} : job'[i] = job[i]
      BY <2>3
    <3>. QED
      BY <2>3, <3>1, <3>2
  <2>. QED
    BY <1>6, <2>1, <2>2, <2>3 DEF Start
<1>7. ASSUME NEW j \in Jobs, Die(j) PROVE OwnerAlone'
  BY <1>7 DEF Die
<1>8. ASSUME NEW j \in Jobs, Read(j) PROVE OwnerAlone'
  BY <1>8 DEF Read
<1>9. ASSUME NEW j \in Jobs, Train(j) PROVE OwnerAlone'
  BY <1>9 DEF Train
<1>10. ASSUME NEW j \in Jobs, Publish(j) PROVE OwnerAlone'
  BY <1>10 DEF Publish
<1>11. ASSUME NEW j \in Jobs, Snapshot(j) PROVE OwnerAlone'
  BY <1>11 DEF Snapshot
<1>12. ASSUME NEW j \in Jobs, WindowError(j) PROVE OwnerAlone'
  BY <1>12 DEF WindowError
<1>13. ASSUME NEW j \in Jobs, WriteDone(j) PROVE OwnerAlone'
  BY <1>13 DEF WriteDone
<1>14. ASSUME NEW j \in Jobs, Exit(j) PROVE OwnerAlone'
  BY <1>14 DEF Exit
<1>15. ASSUME NEW j \in Jobs, ExitFailed(j) PROVE OwnerAlone'
  BY <1>15 DEF ExitFailed
<1>. HIDE DEF TypeOK, JobRecords, JobStates, Bundles, Shipped, Running, InFlight, LastStage, AtEnd, rootVars, Steps, OwnerAlone
<1>. QED
  BY <1>1, <1>2, <1>3, <1>4, <1>5, <1>6, <1>7, <1>8, <1>9, <1>10, <1>11, <1>12,
     <1>13, <1>14, <1>15 DEF Next, Environment, Slurm, Kinds

\* run_root holds the owner's work up to where its script is.
LEMMA ProgressStep ==
  TypeOK /\ Shape /\ FreshBeforeStart /\ OwnerAlone /\ OwnerProgress /\ [Next]_clusterVars => OwnerProgress'
<1> SUFFICES ASSUME TypeOK, Shape, FreshBeforeStart, OwnerAlone, OwnerProgress, [Next]_clusterVars PROVE OwnerProgress'
  OBVIOUS
<1> USE ClusterAssumption DEF TypeOK, JobRecords, JobStates, Kinds, Bundles, Steps, Shipped
<1> USE DEF Running, InFlight, LastStage, AtEnd, rootVars, OwnerProgress, Progress, Own, OwnerAlone, FreshBeforeStart, Fresh, Shape
<1>1. CASE UNCHANGED clusterVars
  BY <1>1 DEF clusterVars
<1>2. ASSUME NEW j \in Jobs, NEW kind \in Kinds, NEW skip \in BOOLEAN, Sbatch(j, kind, skip)
      PROVE OwnerProgress'
  BY <1>2 DEF Sbatch, NextId
<1>3. CASE Wipe
  BY <1>3 DEF Wipe
<1>4. CASE ShipBase
  BY <1>4 DEF ShipBase
<1>5. ASSUME NEW k \in Steps, Predict(k) PROVE OwnerProgress'
  BY <1>5 DEF Predict
<1>6. ASSUME NEW j \in Jobs, Start(j) PROVE OwnerProgress'
  <2>1. CASE owner' = Nothing
    BY <2>1
  <2>2. CASE owner' # Nothing /\ owner' # j
    <3>1. UNCHANGED rootVars /\ job' = [job EXCEPT ![j].st = "FAILED"]
      BY <1>6, <2>2 DEF Start
    <3>. QED
      BY <3>1
  <2>3. CASE owner' = j
    <3>1. Fresh(j)
      BY <1>6 DEF Start
    <3>2. \/ job' = [job EXCEPT ![j].st = "FAILED"]
          \/ job' = [job EXCEPT ![j].st = "RUNNING"]
      BY <1>6 DEF Start
    <3>3. /\ job'[j].phase = "train" /\ job'[j].err = FALSE
          /\ job'[j].stage = job[j].stage /\ job'[j].skip = job[j].skip
      <4>1. CASE job' = [job EXCEPT ![j].st = "FAILED"]
        BY <3>1, <4>1
      <4>2. CASE job' = [job EXCEPT ![j].st = "RUNNING"]
        BY <3>1, <4>2
      <4>. QED
        BY <3>2, <4>1, <4>2
    <3>4. job'[j].stage = IF job'[j].skip THEN 1 ELSE 0
      BY <3>1, <3>3
    <3>5. Progress(j)'
      BY <3>3, <3>4
    <3>. QED
      BY <2>3, <3>5
  <2>. QED
    BY <2>1, <2>2, <2>3
<1>7. ASSUME NEW j \in Jobs, Die(j) PROVE OwnerProgress'
  BY <1>7 DEF Die
<1>8. ASSUME NEW j \in Jobs, Read(j) PROVE OwnerProgress'
  BY <1>8 DEF Read
<1>9. ASSUME NEW j \in Jobs, Train(j) PROVE OwnerProgress'
  <2>1. SUFFICES ASSUME NEW i \in Jobs, owner' = i PROVE Progress(i)'
    OBVIOUS
  <2>2. i = j /\ owner = j /\ Progress(j)
    BY <1>9, <2>1 DEF Train
  <2>3. /\ job'[j].phase = "swap" /\ job'[j].stage = job[j].stage
        /\ job'[j].err = job[j].err
    BY <1>9 DEF Train
  <2>4. job[j].stage \in 0..Windows
    BY <1>9 DEF Train
  <2>5. tmp' \in Bundles /\ tmp'.by = j /\ tmp'.stage = job[j].stage /\ step' = step
    BY <1>9, <2>4 DEF Train
  <2>. QED
    BY <2>2, <2>3, <2>5
<1>10. ASSUME NEW j \in Jobs, Publish(j) PROVE OwnerProgress'
  BY <1>10 DEF Publish
<1>11. ASSUME NEW j \in Jobs, Snapshot(j) PROVE OwnerProgress'
  BY <1>11 DEF Snapshot
<1>12. ASSUME NEW j \in Jobs, WindowError(j) PROVE OwnerProgress'
  BY <1>12 DEF WindowError
<1>13. ASSUME NEW j \in Jobs, WriteDone(j) PROVE OwnerProgress'
  BY <1>13 DEF WriteDone
<1>14. ASSUME NEW j \in Jobs, Exit(j) PROVE OwnerProgress'
  BY <1>14 DEF Exit
<1>15. ASSUME NEW j \in Jobs, ExitFailed(j) PROVE OwnerProgress'
  BY <1>15 DEF ExitFailed
<1>. HIDE DEF TypeOK, JobRecords, JobStates, Bundles, Shipped, Running, InFlight, LastStage, AtEnd, rootVars, Steps, OwnerProgress, Progress, Own, OwnerAlone, FreshBeforeStart, Fresh, Shape
<1>. QED
  BY <1>1, <1>2, <1>3, <1>4, <1>5, <1>6, <1>7, <1>8, <1>9, <1>10, <1>11, <1>12,
     <1>13, <1>14, <1>15 DEF Next, Environment, Slurm, Kinds

\* Every bundle of the owner descends from its base training.
LEMMA RootedStep ==
  TypeOK /\ FreshBeforeStart /\ OwnerAlone /\ OwnerProgress /\ OwnRooted /\ [Next]_clusterVars => OwnRooted'
<1> SUFFICES ASSUME TypeOK, FreshBeforeStart, OwnerAlone, OwnerProgress, OwnRooted, [Next]_clusterVars PROVE OwnRooted'
  OBVIOUS
<1> USE ClusterAssumption DEF TypeOK, JobRecords, JobStates, Kinds, Bundles, Steps, Shipped
<1> USE DEF Running, InFlight, LastStage, AtEnd, rootVars, OwnRooted, OwnerProgress, Progress, Own, OwnerAlone, FreshBeforeStart, Fresh
<1>1. CASE UNCHANGED clusterVars
  BY <1>1 DEF clusterVars
<1>2. ASSUME NEW j \in Jobs, NEW kind \in Kinds, NEW skip \in BOOLEAN, Sbatch(j, kind, skip)
      PROVE OwnRooted'
  BY <1>2 DEF Sbatch, NextId
<1>3. CASE Wipe
  BY <1>3 DEF Wipe
<1>4. CASE ShipBase
  BY <1>4 DEF ShipBase
<1>5. ASSUME NEW k \in Steps, Predict(k) PROVE OwnRooted'
  BY <1>5 DEF Predict
<1>6. ASSUME NEW j \in Jobs, Start(j) PROVE OwnRooted'
  <2>1. UNCHANGED <<current, tmp, step>> /\ Fresh(j)
    BY <1>6 DEF Start
  <2>2. \A x \in Jobs : /\ job'[x].phase = job[x].phase /\ job'[x].root = job[x].root
                        /\ job'[x].skip = job[x].skip /\ job'[x].err = job[x].err
                        /\ job'[x].stage = job[x].stage
    <3>1. CASE job' = [job EXCEPT ![j].st = "FAILED"]
      BY <3>1
    <3>2. CASE job' = [job EXCEPT ![j].st = "RUNNING"]
      BY <3>2
    <3>. QED
      BY <1>6, <3>1, <3>2 DEF Start
  <2>3. CASE owner' = owner /\ torn' = torn
    BY <2>1, <2>2, <2>3
  <2>4. CASE owner' = Nothing
    BY <2>4
  <2>5. CASE owner' = j /\ ~torn'
    <3>1. ~job[j].skip => job[j].stage = 0
      BY <2>1
    <3>. QED
      BY <2>1, <2>2, <2>5, <3>1
  <2>6. \/ owner' = owner /\ torn' = torn
        \/ owner' = Nothing
        \/ owner' = j /\ ~torn'
    BY <1>6 DEF Start
  <2>. QED
    BY <2>3, <2>4, <2>5, <2>6
<1>7. ASSUME NEW j \in Jobs, Die(j) PROVE OwnRooted'
  BY <1>7 DEF Die
<1>8. ASSUME NEW j \in Jobs, Read(j) PROVE OwnRooted'
  BY <1>8 DEF Read
<1>9. ASSUME NEW j \in Jobs, Train(j) PROVE OwnRooted'
  BY <1>9 DEF Train
<1>10. ASSUME NEW j \in Jobs, Publish(j) PROVE OwnRooted'
  BY <1>10 DEF Publish
<1>11. ASSUME NEW j \in Jobs, Snapshot(j) PROVE OwnRooted'
  BY <1>11 DEF Snapshot
<1>12. ASSUME NEW j \in Jobs, WindowError(j) PROVE OwnRooted'
  BY <1>12 DEF WindowError
<1>13. ASSUME NEW j \in Jobs, WriteDone(j) PROVE OwnRooted'
  BY <1>13 DEF WriteDone
<1>14. ASSUME NEW j \in Jobs, Exit(j) PROVE OwnRooted'
  BY <1>14 DEF Exit
<1>15. ASSUME NEW j \in Jobs, ExitFailed(j) PROVE OwnRooted'
  BY <1>15 DEF ExitFailed
<1>. HIDE DEF TypeOK, JobRecords, JobStates, Bundles, Shipped, Running, InFlight, LastStage, AtEnd, rootVars, Steps, OwnRooted, OwnerProgress, Progress, Own, OwnerAlone, FreshBeforeStart, Fresh
<1>. QED
  BY <1>1, <1>2, <1>3, <1>4, <1>5, <1>6, <1>7, <1>8, <1>9, <1>10, <1>11, <1>12,
     <1>13, <1>14, <1>15 DEF Next, Environment, Slurm, Kinds

\* Nothing has run yet.
LEMMA IndInvStarts == Init => IndInv
<1> SUFFICES ASSUME Init PROVE IndInv
  OBVIOUS
<1> USE ClusterAssumption DEF Init
<1> DEFINE r == [kind |-> "full", skip |-> FALSE, st |-> "unused", stage |-> 0,
                 err |-> FALSE, root |-> FALSE, phase |-> "train"]
<1>0. r \in JobRecords /\ job = [j \in Jobs |-> r]
  BY DEF JobRecords, JobStates, Kinds
<1>1. TypeOK
  <2> HIDE DEF r
  <2>. QED
    BY <1>0 DEF TypeOK
<1>2. /\ FreshBeforeStart /\ Shape /\ SentinelWriter
      /\ OwnerAlone /\ OwnerProgress /\ OwnRooted
  BY DEF FreshBeforeStart, Fresh, Own, Shape, SentinelWriter, OwnerAlone, OwnerProgress,
         OwnRooted, Steps
<1>. QED
  BY <1>1, <1>2 DEF IndInv

\* The strengthened invariant holds.
THEOREM IndInvHolds == Spec => []IndInv
<1>1. Init => IndInv
  BY IndInvStarts
<1>2. IndInv /\ [Next]_clusterVars => IndInv'
  BY TypeStep, ShapeStep, FreshStep, WriterStep, AloneStep, ProgressStep, RootedStep DEF IndInv
<1>. QED
  BY <1>1, <1>2, PTL DEF Spec
----------------------------------------------------------------------------
(* How jobs end.                                                           *)

\* A base-only job stays in stage 0; a job that completed has gone to the
\* end of its script without an error.
Ends(j) ==
  /\ (job[j].kind = "base" /\ job[j].st # "unused") =>
       /\ ~job[j].skip /\ ~job[j].err
       /\ \/ job[j].stage = 0 /\ job[j].phase \in {"train", "fit", "swap"}
          \/ job[j].stage = 1 /\ job[j].phase = "train"
  /\ job[j].st = "COMPLETED" => /\ job[j].phase \in {"train", "exit"} /\ ~job[j].err
                                /\ job[j].stage = LastStage(j) + 1

JobEnds == \A j \in Jobs : Ends(j)

LEMMA EndsStep ==
  IndInv /\ JobEnds /\ [Next]_clusterVars => JobEnds'
<1> SUFFICES ASSUME IndInv, JobEnds, [Next]_clusterVars, NEW i \in Jobs PROVE Ends(i)'
  BY DEF JobEnds
<1>1. TypeOK /\ Shape /\ FreshBeforeStart /\ Ends(i)
  BY DEF IndInv, JobEnds
<1> USE <1>1, ClusterAssumption DEF TypeOK, JobRecords, Ends, LastStage
<1>2. CASE UNCHANGED job
  BY <1>2
<1>3. ASSUME NEW j \in Jobs, NEW kind \in Kinds, NEW skip \in BOOLEAN,
             Sbatch(j, kind, skip), kind = "base" => ~skip
      PROVE  Ends(i)'
  BY <1>3 DEF Sbatch, NextId, FreshBeforeStart, Fresh
<1>4. ASSUME NEW j \in Jobs, Slurm(j) PROVE Ends(i)'
  <2>1. CASE i # j
    <3>1. job'[i] = job[i]
      BY <1>4, <2>1 DEF Slurm, Start, Die, Read, Train, Publish, Snapshot, WindowError, WriteDone,
                        Exit, ExitFailed, rootVars
    <3>. QED
      BY <3>1
  <2>2. CASE i = j
    <3> USE <2>2 DEF Running, InFlight
    <3>1. CASE Start(j) \/ Die(j)
      BY <3>1 DEF Start, Die
    <3>2. CASE Read(j) \/ Train(j)
      BY <3>2 DEF Read, Train
    <3>3. CASE Publish(j)
      BY <3>3 DEF Publish
    <3>4. CASE Snapshot(j) \/ WindowError(j)
      BY <3>4 DEF Snapshot, WindowError
    <3>5. CASE WriteDone(j) \/ ExitFailed(j)
      BY <3>5 DEF WriteDone, ExitFailed, AtEnd
    <3>6. CASE Exit(j)
      BY <3>6 DEF Exit, AtEnd, Shape
    <3>. QED
      BY <1>4, <3>1, <3>2, <3>3, <3>4, <3>5, <3>6 DEF Slurm
  <2>. QED
    BY <2>1, <2>2
<1>5. \/ UNCHANGED job \/ \E j \in Jobs : Slurm(j)
      \/ \E j \in Jobs, kind \in Kinds, skip \in BOOLEAN :
           Sbatch(j, kind, skip) /\ (kind = "base" => ~skip)
  BY DEF Next, Environment, Wipe, ShipBase, Predict, clusterVars, Kinds
<1>. QED
  BY <1>2, <1>3, <1>4, <1>5

\* While run_root is the work of a completed job alone, current/ holds the
\* bundle of the last stage of that job.
LEMMA CompletedOwner ==
  ASSUME IndInv, JobEnds, NEW j \in Jobs, owner = j, job[j].st = "COMPLETED"
  PROVE  /\ Own(current, j) /\ current.stage = LastStage(j)
         /\ ~job[j].skip => current.rooted
<1>1. Progress(j) /\ Ends(j) /\ job[j] \in JobRecords
  BY DEF IndInv, OwnerProgress, JobEnds, TypeOK
<1>2. job[j].stage > IF job[j].skip THEN 1 ELSE 0
  BY <1>1, ClusterAssumption DEF Ends, LastStage, JobRecords
<1>3. LastStage(j) \in 0..Windows
  BY ClusterAssumption DEF LastStage
<1>4. Own(current, j) /\ current.stage = LastStage(j)
  BY <1>1, <1>2, <1>3 DEF Progress, Ends
<1>. QED
  BY <1>1, <1>4 DEF IndInv, OwnRooted, Ends

\* As long as run_root stays the work of a completed job alone, current/ is
\* not touched.
LEMMA CompletedStays ==
  ASSUME IndInv, [Next]_clusterVars, NEW j \in Jobs, owner' = j, job[j].st = "COMPLETED"
  PROVE  owner = j /\ UNCHANGED current
<1> USE ClusterAssumption DEF Running, InFlight
<1>1. CASE owner = j
  <2>1. \A i \in Jobs : ~Running(i)
    BY <1>1 DEF IndInv, OwnerAlone
  <2>. QED
    BY <1>1, <2>1 DEF Next, Environment, Slurm, Start, Die, Read, Train, Publish, Snapshot,
      WindowError, WriteDone, Exit, ExitFailed, AtEnd, Sbatch, Wipe, ShipBase, Predict, rootVars,
      clusterVars
<1>2. CASE owner # j
  BY <1>2 DEF Next, Environment, Slurm, Start, Die, Read, Train, Publish, Snapshot,
      WindowError, WriteDone, Exit, ExitFailed, AtEnd, Sbatch, Wipe, ShipBase, Predict, rootVars,
      clusterVars
<1>. QED
  BY <1>1, <1>2

\* How jobs end, for any number of jobs and windows.
THEOREM JobEndsHolds == Spec => []JobEnds
<1>1. Init => JobEnds
  <2>1. ASSUME Init, NEW j \in Jobs PROVE job[j].st = "unused"
    <3> DEFINE r == [kind |-> "full", skip |-> FALSE, st |-> "unused", stage |-> 0,
                     err |-> FALSE, root |-> FALSE, phase |-> "train"]
    <3>1. job[j] = r
      BY <2>1 DEF Init
    <3>. QED
      BY <3>1
  <2>. QED
    BY <2>1 DEF JobEnds, Ends
<1>. QED
  BY <1>1, EndsStep, IndInvHolds, PTL DEF Spec

----------------------------------------------------------------------------
(* What follows for the properties.                                        *)

\* Types, for any number of jobs and windows.
THEOREM TypeCorrect == Spec => []TypeOK
<1>1. IndInv => TypeOK
  BY DEF IndInv
<1>. QED
  BY <1>1, IndInvHolds, PTL

\* SIMULATION_DONE is written only by a job that went through every window
\* without an error.
THEOREM HonestTheorem == Spec => []SentinelIsHonest
<1>1. IndInv => SentinelIsHonest
  BY ClusterAssumption
     DEF IndInv, SentinelIsHonest, SentinelWriter, Shape, TypeOK
<1>. QED
  BY <1>1, IndInvHolds, PTL

\* What validate_artifacts relies on: when one job alone has written to
\* run_root, its sentinel vouches for every step directory and for current/.
THEOREM VouchesTheorem == Spec => []SentinelVouches
<1>1. IndInv => SentinelVouches
  <2> SUFFICES ASSUME IndInv, done # Nothing, owner = done
               PROVE  /\ \A k \in Steps : /\ step[k] # Nothing
                                          /\ step[k].by = done /\ step[k].stage = k
                      /\ current # Nothing
                      /\ current.by = done /\ current.stage = Windows
    BY DEF SentinelVouches
  <2>1. done \in Jobs /\ job[done] \in JobRecords
    BY DEF IndInv, TypeOK
  <2>2. Progress(done)
    BY <2>1 DEF IndInv, OwnerProgress
  <2>3. job[done].phase = "exit" /\ job[done].stage = Windows + 1 /\ ~job[done].err
    BY <2>1 DEF IndInv, SentinelWriter, Shape
  <2>4. \A k \in Steps : Own(step[k], done) /\ step[k].stage = k
    BY <2>2, <2>3, ClusterAssumption DEF Progress, Steps
  <2>5. Own(current, done) /\ current.stage = Windows
    BY <2>2, <2>3, ClusterAssumption DEF Progress
  <2>. QED
    BY <2>4, <2>5 DEF Own
<1>. QED
  BY <1>1, IndInvHolds, PTL

\* As long as run_root is one job's alone, everything a job with base training
\* publishes there descends from that training.
THEOREM LineageTheorem == Spec => []OwnLineage
<1>1. IndInv => OwnLineage
  BY DEF IndInv, OwnLineage, OwnRooted, Own
<1>. QED
  BY <1>1, IndInvHolds, PTL

\* predictions.csv never outlives the bundle it was computed with.
THEOREM PredictionsTheorem == Spec => PredictionsFollowModel
<1>1. TypeOK /\ [Next]_clusterVars => [\A k \in Steps : step'[k] # step[k] => k \notin preds']_clusterVars
  <2> SUFFICES ASSUME TypeOK, Next, NEW k \in Steps, step'[k] # step[k]
               PROVE  k \notin preds'
    OBVIOUS
  <2>1. CASE Environment
    BY <2>1 DEF Environment, Sbatch, Wipe, ShipBase, Predict, rootVars
  <2>2. ASSUME NEW j \in Jobs, Slurm(j) PROVE k \notin preds'
    BY <2>2 DEF Slurm, Start, Die, Read, Train, Publish, Snapshot, WindowError, WriteDone, Exit,
                ExitFailed, rootVars, TypeOK
  <2>. QED
    BY <2>1, <2>2 DEF Next
<1>. QED
  BY <1>1, TypeCorrect, PTL DEF Spec, PredictionsFollowModel
============================================================================
