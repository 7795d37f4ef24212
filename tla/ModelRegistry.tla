--------------------------- MODULE ModelRegistry ---------------------------
(***************************************************************************)
(* The bundle registry of XG_boost_3_multigpu_final.py, as its modes       *)
(* bootstrap, refresh, warm_refresh, cycle and predict use it: a candidate *)
(* is trained in staging/, then copied over current/ and over base/ or     *)
(* refresh/ through a temporary and a backup directory; predict and cycle  *)
(* write their predictions into the bundle they were made with.  Nothing   *)
(* keeps two commands from running at once, and one may die at any moment. *)
(***************************************************************************)
EXTENDS Integers

CONSTANTS Commands,    \* processes on one run_root
          MaxModels    \* bound: candidates trained

ASSUME RegistryAssumption == MaxModels \in Nat

VARIABLES
  trained,   \* candidates trained so far, each one's number is its id
  staging,   \* the candidates in staging/
  dir,       \* the bundles current, base and refresh
  tmp,       \* .<name>_tmp of each
  bak,       \* .<name>_bak of each
  command,   \* what each process is doing
  status,    \* cycle_status.json of the run_root: refreshed to, predicted with
  crashes,   \* history: commands that died while they promoted, at most 2
  crossed,   \* history: which kinds of commands a trainer has met
  ragged     \* history: the last promotion did not come to its end

registryVars == <<trained, staging, dir, tmp, bak, command, status, crashes, crossed,
                  ragged>>

Ids == 0 .. MaxModels
Names == {"current", "base", "refresh"}

(* A bundle: the model it holds, 0 for a directory without one or with a   *)
(* part of one, and the model that made the predictions in it, 0 for none. *)
Bundles == [id : Ids \cup {-1}, preds : Ids]
Absent == [id |-> -1, preds |-> 0]
Part == [id |-> 0, preds |-> 0]
Fresh(v) == [id |-> v, preds |-> 0]

Modes == {"bootstrap", "refresh", "cycle", "predict"}
CommandSteps == {"idle", "train", "clean", "make", "copy", "aside", "move", "drop",
                 "tidy", "load", "write", "report"}
Promoting == {"clean", "make", "copy", "aside", "move", "drop", "tidy"}
CommandStates == [mode : Modes, step : CommandSteps, name : Names, id : Ids, uses : Ids]
NoCommand == [mode |-> "predict", step |-> "idle", name |-> "current", id |-> 0,
              uses |-> 0]

RegistryTypeOK ==
  /\ trained \in Ids
  /\ staging \in SUBSET (1 .. MaxModels)
  /\ dir \in [Names -> Bundles]
  /\ tmp \in [Names -> Bundles]
  /\ bak \in [Names -> Bundles]
  /\ command \in [Commands -> CommandStates]
  /\ status \in [refresh : Ids, predicted : Ids]
  /\ crashes \in 0 .. 2
  /\ crossed \in SUBSET {"trainer", "predictor"}
  /\ ragged \in BOOLEAN

RegistryInit ==
  /\ trained = 0
  /\ staging = {}
  /\ dir = [n \in Names |-> Absent]
  /\ tmp = [n \in Names |-> Absent]
  /\ bak = [n \in Names |-> Absent]
  /\ command = [p \in Commands |-> NoCommand]
  /\ status = [refresh |-> 0, predicted |-> 0]
  /\ crashes = 0
  /\ crossed = {}
  /\ ragged = FALSE

CommandAt(p, step) == command[p].step = step
CommandGoesTo(p, step) == command' = [command EXCEPT ![p].step = step]
Running == {p \in Commands : ~CommandAt(p, "idle")}
Kind(mode) == IF mode = "predict" THEN "predictor" ELSE "trainer"
----------------------------------------------------------------------------
StartCommand(p, mode) ==
  /\ CommandAt(p, "idle")
  /\ command' = [command EXCEPT ![p] = [NoCommand EXCEPT !.mode = mode,
                   !.step = IF mode = "predict" THEN "load" ELSE "train"]]
  /\ LET met == {Kind(command[q].mode) : q \in Running}
     IN crossed' = crossed \cup IF Kind(mode) = "trainer" THEN met
                                ELSE IF "trainer" \in met THEN {"predictor"} ELSE {}
  /\ UNCHANGED <<trained, staging, dir, tmp, bak, status, crashes, ragged>>

\* train_candidate_bundle(): trained, validated and within its budget.
TrainCandidate(p) ==
  /\ CommandAt(p, "train")
  /\ trained < MaxModels
  /\ trained' = trained + 1
  /\ staging' = staging \cup {trained'}
  /\ command' = [command EXCEPT ![p].step = "clean", ![p].id = trained']
  /\ ragged' = TRUE
  /\ UNCHANGED <<dir, tmp, bak, status, crashes, crossed>>

\* Not so: it goes to failed/, and a cycle goes on with the model it has.
TrainingFails(p) ==
  /\ CommandAt(p, "train")
  /\ command' = [command EXCEPT ![p] = IF @.mode = "cycle" THEN [@ EXCEPT !.step = "load"]
                                       ELSE NoCommand]
  /\ UNCHANGED <<trained, staging, dir, tmp, bak, status, crashes, crossed, ragged>>
----------------------------------------------------------------------------
(* promote_candidate(): copy_bundle() for each of two names.  A step whose *)
(* condition fails raises in the code: see CommandDies and CycleGoesOn.    *)
CleanUp(p) ==
  LET n == command[p].name
  IN /\ CommandAt(p, "clean")
     /\ tmp' = [tmp EXCEPT ![n] = Absent]
     /\ bak' = [bak EXCEPT ![n] = Absent]
     /\ CommandGoesTo(p, "make")
     /\ UNCHANGED <<trained, staging, dir, status, crashes, crossed, ragged>>

MakeTmp(p) ==
  LET n == command[p].name
  IN /\ CommandAt(p, "make")
     /\ tmp[n] = Absent
     /\ tmp' = [tmp EXCEPT ![n] = Part]
     /\ CommandGoesTo(p, "copy")
     /\ UNCHANGED <<trained, staging, dir, bak, status, crashes, crossed, ragged>>

CopyTree(p) ==
  LET n == command[p].name
  IN /\ CommandAt(p, "copy")
     /\ tmp[n] # Absent
     /\ tmp' = [tmp EXCEPT ![n] = Fresh(command[p].id)]
     /\ CommandGoesTo(p, "aside")
     /\ UNCHANGED <<trained, staging, dir, bak, status, crashes, crossed, ragged>>

\* Mutant of SetAside: the old bundle is removed first.
SetAsideRemoving(p) ==
  LET n == command[p].name
  IN /\ CommandAt(p, "aside")
     /\ dir' = [dir EXCEPT ![n] = Absent]
     /\ CommandGoesTo(p, "move")
     /\ UNCHANGED <<trained, staging, tmp, bak, status, crashes, crossed, ragged>>

SetAside(p) ==
  LET n == command[p].name
  IN /\ CommandAt(p, "aside")
     /\ bak[n] = Absent \/ dir[n] = Absent
     /\ bak' = [bak EXCEPT ![n] = IF dir[n] = Absent THEN @ ELSE dir[n]]
     /\ dir' = [dir EXCEPT ![n] = Absent]
     /\ CommandGoesTo(p, "move")
     /\ UNCHANGED <<trained, staging, tmp, status, crashes, crossed, ragged>>

\* Mutant of MoveIn: the new files are laid over what was set aside.
MoveInOver(p) ==
  LET n == command[p].name
  IN /\ CommandAt(p, "move")
     /\ tmp[n] # Absent /\ dir[n] = Absent
     /\ dir' = [dir EXCEPT ![n] = [tmp[n] EXCEPT !.preds = bak[n].preds]]
     /\ tmp' = [tmp EXCEPT ![n] = Absent]
     /\ CommandGoesTo(p, "drop")
     /\ UNCHANGED <<trained, staging, bak, status, crashes, crossed, ragged>>

MoveIn(p) ==
  LET n == command[p].name
  IN /\ CommandAt(p, "move")
     /\ tmp[n] # Absent /\ dir[n] = Absent
     /\ dir' = [dir EXCEPT ![n] = tmp[n]]
     /\ tmp' = [tmp EXCEPT ![n] = Absent]
     /\ CommandGoesTo(p, "drop")
     /\ UNCHANGED <<trained, staging, bak, status, crashes, crossed, ragged>>

Second(mode) == IF mode = "bootstrap" THEN "base" ELSE "refresh"

\* Mutant of DropBackup: a promotion ends with current/.
DropBackupOnce(p) ==
  /\ CommandAt(p, "drop")
  /\ bak' = [bak EXCEPT ![command[p].name] = Absent]
  /\ CommandGoesTo(p, "tidy")
  /\ UNCHANGED <<trained, staging, dir, tmp, status, crashes, crossed, ragged>>

DropBackup(p) ==
  LET n == command[p].name
  IN /\ CommandAt(p, "drop")
     /\ bak' = [bak EXCEPT ![n] = Absent]
     /\ command' = [command EXCEPT ![p] =
          IF n = "current"
          THEN [@ EXCEPT !.step = "clean", !.name = Second(command[p].mode)]
          ELSE [@ EXCEPT !.step = "tidy"]]
     /\ UNCHANGED <<trained, staging, dir, tmp, status, crashes, crossed, ragged>>

TidyUp(p) ==
  /\ CommandAt(p, "tidy")
  /\ staging' = staging \ {command[p].id}
  /\ ragged' = FALSE
  /\ command' = [command EXCEPT
       ![p].step = IF command[p].mode = "cycle" THEN "load" ELSE "report",
       ![p].name = "current"]
  /\ UNCHANGED <<trained, dir, tmp, bak, status, crashes, crossed>>
----------------------------------------------------------------------------
\* run_prediction_bundle(): the bundle is read and applied, ...
LoadBundle(p) ==
  /\ CommandAt(p, "load")
  /\ dir["current"].id > 0
  /\ command' = [command EXCEPT ![p].step = "write", ![p].uses = dir["current"].id]
  /\ UNCHANGED <<trained, staging, dir, tmp, bak, status, crashes, crossed, ragged>>

(* ... then written below the same path, whatever is there by then: a      *)
(* directory that is missing is made anew, with no model in it, and the    *)
(* command fails at the run_summary.json that is not there.                *)
WritePredictions(p) ==
  /\ CommandAt(p, "write")
  /\ dir' = [dir EXCEPT !["current"] =
               [id |-> IF @ = Absent THEN 0 ELSE @.id, preds |-> command[p].uses]]
  /\ IF dir["current"].id > 0
     THEN CommandGoesTo(p, "report")
     ELSE command' = [command EXCEPT ![p] = NoCommand]
  /\ UNCHANGED <<trained, staging, tmp, bak, status, crashes, crossed, ragged>>

\* Mutant of Refreshed: any candidate of the cycle counts.
RefreshedAnyway(c) == trained

\* What a cycle says of its refresh: the candidate's id when it was promoted.
Refreshed(c) == c.id

ReportStatus(p) ==
  LET c == command[p]
  IN /\ CommandAt(p, "report")
     /\ status' = [refresh |-> IF c.mode = "cycle" THEN Refreshed(c) ELSE 0,
                   predicted |-> c.uses]
     /\ command' = [command EXCEPT ![p] = NoCommand]
     /\ UNCHANGED <<trained, staging, dir, tmp, bak, crashes, crossed, ragged>>

\* An exception while it trains or promotes: the cycle notes it and goes on.
CycleGoesOn(p) ==
  /\ command[p].mode = "cycle"
  /\ command[p].step \in Promoting \ {"tidy"}
  /\ command' = [command EXCEPT ![p].step = "load", ![p].name = "current", ![p].id = 0]
  /\ crashes' = IF crashes < 2 THEN crashes + 1 ELSE crashes
  /\ UNCHANGED <<trained, staging, dir, tmp, bak, status, crossed, ragged>>

\* Any other exception, or the death of the process; no candidate is resumed.
CommandDies(p) ==
  /\ ~CommandAt(p, "idle")
  /\ command' = [command EXCEPT ![p] = NoCommand]
  /\ crashes' = IF command[p].step \in Promoting /\ crashes < 2 THEN crashes + 1
                ELSE crashes
  /\ UNCHANGED <<trained, staging, dir, tmp, bak, status, crossed, ragged>>

Promote(p) == \/ CleanUp(p) \/ MakeTmp(p) \/ CopyTree(p) \/ SetAside(p)
              \/ MoveIn(p) \/ DropBackup(p) \/ TidyUp(p)

RegistryNext ==
  \E p \in Commands :
    \/ \E mode \in Modes : StartCommand(p, mode)
    \/ TrainCandidate(p) \/ TrainingFails(p) \/ Promote(p)
    \/ LoadBundle(p) \/ WritePredictions(p) \/ ReportStatus(p)
    \/ CycleGoesOn(p) \/ CommandDies(p)

RegistrySpec == RegistryInit /\ [][RegistryNext]_registryVars
----------------------------------------------------------------------------
Apart == "trainer" \notin crossed

\* Between commands current/ holds the newer of the base and the refresh,
\* when the last promotion came to its end and no two trainers have met.
CurrentIsNewest ==
  Running = {} /\ ~ragged /\ Apart =>
    /\ dir["current"].id \in {dir["base"].id, dir["refresh"].id}
    /\ dir["current"].id >= dir["base"].id
    /\ dir["current"].id >= dir["refresh"].id

\* One promotion that dies, wherever it dies and whoever predicts meanwhile,
\* leaves the model that was served, or its successor, in current/ or in its
\* backup.  A second may lose both: a promotion begins by removing the backup.
OneCrashLosesNothing ==
  crashes <= 1 /\ Apart /\ (dir["base"].id > 0 \/ dir["refresh"].id > 0) =>
    \/ dir["current"].id > 0
    \/ bak["current"].id > 0
    \/ \E p \in Commands : command[p].step \in Promoting

\* The predictions in current/ are those of the model in current/, unless a
\* prediction has met a promotion: it writes to the path it read from.
PredictionsMatchModel ==
  Apart /\ "predictor" \notin crossed => dir["current"].preds \in {0, dir["current"].id}

\* A cycle that reports a refresh has predicted with that refresh.
CycleTellsTruth == Apart /\ status.refresh # 0 => status.predicted = status.refresh

\* The promoted bundle survives: the newer model is in current/ after each
\* whole promotion, and one that dies loses no served model.
CurrentSurvives == CurrentIsNewest /\ OneCrashLosesNothing

\* Predictions and reports tell the truth: neither the files in current/ nor
\* the status of a cycle pass one model's predictions off as another's.
PredictionsTellTruth == PredictionsMatchModel /\ CycleTellsTruth
=============================================================================
