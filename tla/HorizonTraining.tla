--------------------------- MODULE HorizonTraining ---------------------------
(***************************************************************************)
(* One process of the training script from within: a model of one bundle   *)
(* is a set of horizons, which a pool of processes or threads fits one by  *)
(* one, each into a file of its own.  Three kinds of runs do this: a       *)
(* candidate for the registry, the replay of a day (a directory per        *)
(* cutoff, all wiped first) and the simulation of a day of warm refreshes  *)
(* (a directory per bar, left as an earlier run has left it, and each set  *)
(* started from the set of the bar before).  A horizon that fails on the   *)
(* GPU and is fitted again on the CPU is a horizon that fits; the static   *)
(* base of a replay is a set in a directory of its own, without which the  *)
(* run dies.                                                               *)
(***************************************************************************)
EXTENDS Integers, FiniteSets

CONSTANTS NumHorizons,   \* 26 in the code
          Pool,          \* --parallel-horizons, or workers on the GPUs
          NumCutoffs,    \* 26 in the code
          MaxTrainings,  \* bound: runs
          MaxLosses      \* bound: fits that raise and processes that die

ASSUME TrainingAssumption ==
  /\ {NumHorizons, Pool, NumCutoffs} \subseteq Nat \ {0}
  /\ {MaxTrainings, MaxLosses} \subseteq Nat

VARIABLES
  models,    \* the file of each horizon in each directory: who fitted it
  manifest,  \* who wrote model_manifest.json, likewise feature_names.json
  shown,     \* the predictions in each directory: whose run, by which models
  kind,      \* what the process is doing
  number,    \* runs so far
  cutoff,    \* the directory it works in
  phase,     \* where it is there
  todo,      \* horizons that are not fitted yet
  broken,    \* a horizon has raised, the pool has not been shut down yet
  init,      \* the directory the models are started from, or -1 for current/
  usable,    \* the newest directory of this run with a complete set, or -1
  skipped,   \* directories passed over for want of rows
  summary,   \* the newest complete run and what it skipped
  losses

trainingFiles == <<models, manifest, shown, summary>>
trainingVars == <<trainingFiles, kind, number, cutoff, phase, todo, broken, init, usable,
                  skipped, losses>>

Horizons == 1 .. NumHorizons
Cutoffs == 0 .. NumCutoffs - 1
RunKinds == {"candidate", "replay", "simulate"}

\* A set of models: the run and the directory that fitted it, and the set it
\* was started from, by run and directory.
NoSet == [run |-> 0, at |-> -1]
Sets == [run : 0 .. MaxTrainings, at : Cutoffs \cup {-1}]
Missing == [set |-> NoSet, from |-> NoSet]
NothingShown == [run |-> 0, by |-> [h \in Horizons |-> Missing]]
NoModels == [h \in Horizons |-> Missing]
ModelSets == [Horizons -> [set : Sets, from : Sets]]

TrainingFilesTypeOK ==
  /\ models \in [Cutoffs -> ModelSets]
  /\ manifest \in [Cutoffs -> Sets]
  /\ shown \in [Cutoffs -> [run : 0 .. MaxTrainings, by : ModelSets]]
  /\ summary \in [run : 0 .. MaxTrainings, skipped : SUBSET Cutoffs]

HorizonTypeOK ==
  /\ TrainingFilesTypeOK
  /\ kind \in RunKinds
  /\ number \in 0 .. MaxTrainings
  /\ cutoff \in Cutoffs
  /\ phase \in {"idle", "step", "fit", "names", "ask"}
  /\ todo \in SUBSET Horizons
  /\ broken \in BOOLEAN
  /\ {init, usable} \subseteq Cutoffs \cup {-1}
  /\ skipped \in SUBSET Cutoffs
  /\ losses \in 0 .. MaxLosses

HorizonInit ==
  /\ models = [c \in Cutoffs |-> NoModels]
  /\ manifest = [c \in Cutoffs |-> NoSet]
  /\ shown = [c \in Cutoffs |-> NothingShown]
  /\ kind = "candidate"
  /\ number = 0
  /\ cutoff = 0
  /\ phase = "idle"
  /\ todo = {}
  /\ broken = FALSE
  /\ init = -1
  /\ usable = -1
  /\ skipped = {}
  /\ summary = [run |-> 0, skipped |-> {}]
  /\ losses = 0

Loss == losses < MaxLosses /\ losses' = losses + 1
Own == [run |-> number, at |-> cutoff]
LastCutoff == cutoff = (IF kind = "candidate" THEN 0 ELSE NumCutoffs - 1)
----------------------------------------------------------------------------
(* A candidate has a new directory, the replay wipes its own; only the     *)
(* simulation finds the files of an earlier run.                           *)
StartRun(k) ==
  /\ phase = "idle"
  /\ number < MaxTrainings
  /\ number' = number + 1
  /\ kind' = k
  /\ cutoff' = 0
  /\ phase' = "step"
  /\ init' = -1
  /\ usable' = -1
  /\ skipped' = {}
  /\ IF k = "simulate" THEN UNCHANGED <<models, manifest, shown>>
     ELSE /\ models' = [c \in Cutoffs |-> NoModels]
          /\ manifest' = [c \in Cutoffs |-> NoSet]
          /\ shown' = [c \in Cutoffs |-> NothingShown]
  /\ UNCHANGED <<todo, broken, summary, losses>>

\* What the summary of a run says of it.
Summary(passed) == [run |-> number, skipped |-> skipped \cup passed]

\* To the next directory, or to the summary of the run.
Advance(passed) ==
  /\ skipped' = skipped \cup passed
  /\ IF LastCutoff
     THEN /\ phase' = "idle"
          /\ summary' = Summary(passed)
          /\ UNCHANGED cutoff
     ELSE /\ phase' = "step"
          /\ cutoff' = cutoff + 1
          /\ UNCHANGED summary

\* Enough rows: train_full_model_set() in the directory of this step.
BeginSet ==
  /\ phase = "step"
  /\ phase' = "fit"
  /\ todo' = Horizons
  /\ broken' = FALSE
  /\ UNCHANGED <<trainingFiles, kind, number, cutoff, init, usable, skipped, losses>>

\* Mutant of SkipStep: the chain is taken on before the rows are counted.
SkipStepOn ==
  /\ phase = "step"
  /\ kind = "simulate"
  /\ init' = cutoff
  /\ Advance({cutoff})
  /\ UNCHANGED <<models, manifest, shown, kind, number, todo, broken, usable, losses>>

\* Too few rows: the simulation passes the bar over.
SkipStep ==
  /\ phase = "step"
  /\ kind = "simulate"
  /\ Advance({cutoff})
  /\ UNCHANGED <<models, manifest, shown, kind, number, todo, broken, init, usable,
                 losses>>

(* The tasks of the pool start in order, Pool of them at a time, and end   *)
(* in any order.                                                           *)
InPool(h) == h \in todo /\ Cardinality({g \in todo : g < h}) < Pool

StartedFrom(h) == IF init = -1 THEN NoSet ELSE models[init][h].set

Fit(h) ==
  /\ phase = "fit"
  /\ InPool(h)
  /\ models' = [models EXCEPT ![cutoff][h] = [set |-> Own, from |-> StartedFrom(h)]]
  /\ todo' = todo \ {h}
  /\ UNCHANGED <<manifest, shown, summary, kind, number, cutoff, phase, broken, init,
                 usable, skipped, losses>>

FitRaises(h) ==
  /\ phase = "fit"
  /\ InPool(h)
  /\ Loss
  /\ todo' = todo \ {h}
  /\ broken' = TRUE
  /\ UNCHANGED <<trainingFiles, kind, number, cutoff, phase, init, usable, skipped>>

\* The exception arrives; what the other tasks have not written stays away.
\* The replay goes on without a model of this cutoff.
SetFails ==
  /\ phase = "fit"
  /\ broken
  /\ broken' = FALSE
  /\ todo' = {}
  /\ phase' = IF kind = "replay" THEN "ask" ELSE "idle"
  /\ UNCHANGED <<trainingFiles, kind, number, cutoff, init, usable, skipped, losses>>

\* The replay, too, when the rows are too few.
NoSetHere ==
  /\ phase = "step"
  /\ kind = "replay"
  /\ phase' = "ask"
  /\ UNCHANGED <<trainingFiles, kind, number, cutoff, todo, broken, init, usable, skipped,
                 losses>>

\* Mutant of WriteManifest: the results are not waited for.
WriteManifestEarly ==
  /\ phase = "fit"
  /\ ~broken
  /\ manifest' = [manifest EXCEPT ![cutoff] = Own]
  /\ phase' = "names"
  /\ UNCHANGED <<models, shown, summary, kind, number, cutoff, todo, broken, init, usable,
                 skipped, losses>>

\* model_manifest.json, once every horizon has come back.
WriteManifest ==
  /\ phase = "fit"
  /\ todo = {}
  /\ ~broken
  /\ manifest' = [manifest EXCEPT ![cutoff] = Own]
  /\ phase' = "names"
  /\ UNCHANGED <<models, shown, summary, kind, number, cutoff, todo, broken, init, usable,
                 skipped, losses>>

\* The feature names and the other files of the bundle, which is now in use.
Complete ==
  /\ phase = "names"
  /\ kind # "candidate"
  /\ phase' = "ask"
  /\ usable' = cutoff
  /\ init' = IF kind = "simulate" THEN cutoff ELSE init
  /\ UNCHANGED <<trainingFiles, kind, number, cutoff, todo, broken, skipped, losses>>

\* Likewise the files of a candidate, with its score and its summary.
CompleteCandidate ==
  /\ phase = "names"
  /\ kind = "candidate"
  /\ phase' = "ask"
  /\ usable' = cutoff
  /\ UNCHANGED <<trainingFiles, kind, number, cutoff, todo, broken, init, skipped, losses>>
----------------------------------------------------------------------------
(* predict_path_matrix(), for the smoke test of a candidate, the replayed  *)
(* cutoff or the simulated bar: the horizons that the manifest names.  The *)
(* replay asks the newest set it has and writes nothing when it has none.  *)

\* The files without which the smoke test fails and nothing can be asked.
IsWhole(d) == manifest[d] # NoSet /\ \A h \in Horizons : models[d][h] # Missing

\* What is written of a step: whose it is and which models it came from.
StepOutput == [run |-> number, by |-> IF usable = -1 THEN NoModels ELSE models[usable]]

PredictWith ==
  /\ phase = "ask"
  /\ usable # -1 => IsWhole(usable)
  /\ shown' = [shown EXCEPT ![cutoff] = StepOutput]
  /\ Advance({})
  /\ UNCHANGED <<models, manifest, kind, number, todo, broken, init, usable, losses>>

\* Killed, or a file that is not there.
RunDies ==
  /\ phase # "idle"
  /\ Loss
  /\ phase' = "idle"
  /\ todo' = {}
  /\ broken' = FALSE
  /\ UNCHANGED <<trainingFiles, kind, number, cutoff, init, usable, skipped>>

HorizonNext ==
  \/ \E k \in RunKinds : StartRun(k)
  \/ BeginSet \/ SkipStep \/ NoSetHere
  \/ \E h \in Horizons : Fit(h) \/ FitRaises(h)
  \/ SetFails \/ WriteManifest \/ Complete \/ CompleteCandidate \/ PredictWith \/ RunDies

HorizonSpec == HorizonInit /\ [][HorizonNext]_trainingVars
----------------------------------------------------------------------------
\* Predictions never come from a set that two trainings have a share in: the
\* models that made them were all fitted in one directory by the run that
\* shows them, all started from one set, whatever an earlier run or a failed
\* horizon has left in the directories.
PredictedByOneSet ==
  \A c \in Cutoffs : shown[c].by # NoModels =>
    \E d \in 0 .. c, from \in Sets :
      shown[c].by = [h \in Horizons |-> [set |-> [run |-> shown[c].run, at |-> d],
                                         from |-> from]]

\* A simulation that reports success has predicted every bar it did not skip,
\* each with models that grew out of those of the bar before that it did not
\* skip, back to the model it began with; what it skipped may be an older
\* run's.
WarmChainUnbroken ==
  summary.run = number /\ phase = "idle" /\ kind = "simulate" =>
    \A c \in Cutoffs \ summary.skipped :
      LET before == {b \in Cutoffs \ summary.skipped : b < c}
      IN /\ shown[c].run = number
         /\ \A h \in Horizons :
              shown[c].by[h] = [set |-> [run |-> number, at |-> c],
                from |-> IF before = {} THEN NoSet
                         ELSE [run |-> number,
                               at |-> CHOOSE b \in before : \A x \in before : x <= b]]
=============================================================================
