---------------------------- MODULE HandPromotion ----------------------------
(***************************************************************************)
(* Promotion by hand: the shell scripts an operator may start beside the   *)
(* DAGs.  run_nibi_pipeline.sh trains on NIBI, pulls the bundle and the    *)
(* steps back and moves three links; promote_new_base.sh and               *)
(* promote_model.sh pull a finished bundle and move current_base.  Each    *)
(* stops at its first failing command (set -e) and may be killed anywhere; *)
(* none knows of the others, of the DAGs, or of the Slurm queue.           *)
(***************************************************************************)
EXTENDS Integers, Sequences

CONSTANT MaxStarts   \* bound: scripts started

ASSUME HandAssumption == MaxStarts \in Nat

Scripts == {"pipeline", "newbase", "model"}
Links == {"base", "eod", "sim"}       \* current_base, current_base_eod, current_simulation

\* The bundle directory each script fills, the pipeline's simulation
\* directory, and the one the daily DAG promotes.
OwnDir == [pipeline |-> "warm", newbase |-> "nibi", model |-> "fresh"]
HandDirs == {"warm", "nibi", "fresh", "simulation", "daily"}
Targets == HandDirs \cup {"none"}

\* The commands of each script that read or change something.
Commands ==
  [pipeline |-> <<"wipe", "base_train", "poll_base", "verify_base", "warm_windows",
                  "poll_warm", "verify_done", "pull", "pull_steps", "manifest",
                  "new_base", "move_base", "new_eod", "move_eod", "new_sim", "move_sim",
                  "reload_base", "reload_eod", "reload_sim">>,
   newbase |-> <<"verify_done", "pull", "backup", "new_base", "move_base", "reload">>,
   model |-> <<"verify_done", "pull", "new_base", "move_base", "reload">>]

VARIABLES
  at,        \* the command each script is at; 0: not running, -1: ended, -2: failed
  starts,    \* scripts started
  leadsTo,   \* the target of each link
  new,       \* the targets of current_base.new, current_base_eod.new, ...
  stray,     \* a link current_base.new inside a bundle directory
  backup,    \* the target of backup_base
  disk,      \* what each directory holds: nothing, a part, or a whole bundle
  origin,    \* whose job made it: the script's own or another's
  loaded,    \* the directory behind each link when the backend last loaded it;
             \* "none" after a reload that found nothing it could load
  root,      \* the run_root on NIBI each script reads
  nibiJob,   \* the pipeline's Slurm job
  crowded,   \* history: a job of another flow used run_root since the wipe
  disturbed, \* history: scripts during or since whose run someone else moved or made a link
  vacant     \* history: scripts that found current_base leading nowhere, or whose
             \* new link another script moved

artifactVars == <<leadsTo, new, stray, backup, disk, origin, loaded>>
remoteVars == <<root, nibiJob, crowded>>
historyVars == <<disturbed, vacant>>
handVars == <<at, starts, artifactVars, remoteVars, historyVars>>

Whose == {"none", "own", "other"}
RootSet == [model : Whose, steps : Whose, done : BOOLEAN]
EmptyRoot == [model |-> "none", steps |-> "none", done |-> FALSE]

HandTypeOK ==
  /\ at \in [Scripts -> -2 .. 19] /\ starts \in 0 .. MaxStarts
  /\ leadsTo \in [Links -> Targets] /\ new \in [Links -> Targets]
  /\ stray \in [HandDirs -> Targets] /\ backup \in Targets
  /\ disk \in [HandDirs -> {"none", "part", "whole"}]
  /\ origin \in [HandDirs -> Whose]
  /\ loaded \in [Links -> Targets]
  /\ root \in [Scripts -> RootSet]
  /\ nibiJob \in {"none", "running", "completed", "failed"}
  /\ crowded \in BOOLEAN /\ disturbed \subseteq Scripts /\ vacant \subseteq Scripts

HandInit ==
  /\ at = [s \in Scripts |-> 0] /\ starts = 0
  /\ leadsTo = [l \in Links |-> "daily"] /\ new = [l \in Links |-> "none"]
  /\ stray = [d \in HandDirs |-> "none"] /\ backup = "none"
  /\ disk = [d \in HandDirs |-> IF d = "daily" THEN "whole" ELSE "none"]
  /\ origin = [d \in HandDirs |-> IF d = "daily" THEN "own" ELSE "none"]
  /\ loaded = leadsTo
  /\ root = [s \in Scripts |-> EmptyRoot] /\ nibiJob = "none" /\ crowded = FALSE
  /\ disturbed = {} /\ vacant = {}
----------------------------------------------------------------------------
StandsAt(s, command) == at[s] > 0 /\ Commands[s][at[s]] = command
Runs(s) == at[s] > 0

Proceeds(s) == at' = [at EXCEPT ![s] = IF @ = Len(Commands[s]) THEN -1 ELSE @ + 1]
\* set -e: a failing command ends the script where it stands.
FailsAt(s) == at' = [at EXCEPT ![s] = -2]

\* Someone makes or moves a link: every other script that runs or has ended
\* takes note.
Disturbs(who) == disturbed' = disturbed \cup {s \in Scripts \ who : at[s] # 0}

StartScript(s) ==
  /\ ~Runs(s) /\ starts < MaxStarts
  /\ at' = [at EXCEPT ![s] = 1] /\ starts' = starts + 1
  /\ disturbed' = disturbed \ {s}
  /\ UNCHANGED <<artifactVars, remoteVars, vacant>>

KillScript(s) == Runs(s) /\ FailsAt(s)
                 /\ UNCHANGED <<starts, artifactVars, remoteVars, historyVars>>

(* rm -rf run_root: no look at squeue, a job of a DAG may be running there. *)
WipeRoot(s) == StandsAt(s, "wipe") /\ Proceeds(s)
           /\ root' = [root EXCEPT ![s] = EmptyRoot]
           /\ crowded' \in BOOLEAN
           /\ nibiJob' = "none"
           /\ UNCHANGED <<starts, artifactVars, historyVars>>

(* sbatch: the id is cut out of the answer, no id ends the script.         *)
SubmitJob(s) == /\ StandsAt(s, "base_train") \/ StandsAt(s, "warm_windows")
                /\ \/ Proceeds(s) /\ nibiJob' = "running"
                   \/ FailsAt(s) /\ UNCHANGED nibiJob
                /\ UNCHANGED <<starts, artifactVars, root, crowded, historyVars>>

(* The job: the base train leaves current/, the windows leave 26 step      *)
(* directories and SIMULATION_DONE.  It may fail, and nothing polls then.  *)
JobEnds ==
  /\ nibiJob = "running"
  /\ \/ /\ nibiJob' = "completed"
        /\ root' = [root EXCEPT !.pipeline =
             IF at["pipeline"] \in 1 .. 4 THEN [@ EXCEPT !.model = "own"]
             ELSE [model |-> "own", steps |-> "own", done |-> TRUE]]
     \/ nibiJob' = "failed" /\ UNCHANGED root
  /\ UNCHANGED <<at, starts, artifactVars, crowded, historyVars>>

(* Polling: COMPLETED goes on, a failure ends the script, anything else,   *)
(* an unreachable NIBI too, is asked again a minute later, for ever.       *)
Poll(s) == /\ StandsAt(s, "poll_base") \/ StandsAt(s, "poll_warm")
           /\ \/ nibiJob = "completed" /\ Proceeds(s)
              \/ nibiJob = "failed" /\ FailsAt(s)
           /\ UNCHANGED <<starts, artifactVars, remoteVars, historyVars>>

(* ls run_root/current/models; ls SIMULATION_DONE under pipefail; the two  *)
(* other scripts ask for the sentinel and the files of the bundle.         *)
Verify(s) ==
  /\ \/ /\ StandsAt(s, "verify_base")
        /\ IF root[s].model # "none" THEN Proceeds(s) ELSE FailsAt(s)
     \/ /\ StandsAt(s, "verify_done")
        /\ IF /\ root[s].done
              /\ s = "newbase" => root[s].model # "none" /\ root[s].steps # "none"
              /\ s = "model" => root[s].model # "none"
           THEN Proceeds(s) ELSE FailsAt(s)
  /\ UNCHANGED <<starts, artifactVars, remoteVars, historyVars>>

(* mkdir -p, then rsync into the directory, whatever it already holds and  *)
(* whoever reads it: it is in pieces until rsync is through.               *)
Pull(s, d, what) ==
  \/ /\ disk[d] # "part" /\ what # "none"
     /\ disk' = [disk EXCEPT ![d] = "part"]
     /\ UNCHANGED <<at, origin>>
  \/ /\ disk[d] = "part" /\ what # "none"
     /\ disk' = [disk EXCEPT ![d] = "whole"]
     /\ origin' = [origin EXCEPT ![d] = what]
     /\ Proceeds(s)
  \/ /\ what = "none"
     /\ disk' = [disk EXCEPT ![d] = IF @ = "none" THEN "part" ELSE @]
     /\ FailsAt(s) /\ UNCHANGED origin

PullBundle(s) ==
  /\ StandsAt(s, "pull") /\ Pull(s, OwnDir[s], root[s].model)
  /\ UNCHANGED <<starts, leadsTo, new, stray, backup, loaded, remoteVars, historyVars>>

PullSteps(s) ==
  /\ StandsAt(s, "pull_steps") /\ Pull(s, "simulation", root[s].steps)
  /\ UNCHANGED <<starts, leadsTo, new, stray, backup, loaded, remoteVars, historyVars>>

\* models/model_manifest.json in the directory just pulled.
Manifest(s) == /\ StandsAt(s, "manifest")
               /\ IF disk[OwnDir[s]] = "whole" THEN Proceeds(s) ELSE FailsAt(s)
               /\ UNCHANGED <<starts, artifactVars, remoteVars, historyVars>>

(* backup_base takes what current_base says now; readlink of no link       *)
(* answers "(none)".                                                       *)
Backup(s) == StandsAt(s, "backup") /\ Proceeds(s)
             /\ backup' = leadsTo["base"]
             /\ UNCHANGED <<starts, leadsTo, new, stray, disk, origin, loaded, remoteVars,
                            historyVars>>

NewOf == [new_base |-> "base", new_eod |-> "eod", new_sim |-> "sim"]
MoveOf == [move_base |-> "base", move_eod |-> "eod", move_sim |-> "sim"]

(* ln -sfn <directory> current_base.new: replaces a left-over of that name. *)
LinkNew(s) ==
  \E c \in DOMAIN NewOf :
    /\ StandsAt(s, c) /\ Proceeds(s)
    /\ new' = [new EXCEPT ![NewOf[c]] =
                 IF c = "new_sim" THEN "simulation" ELSE OwnDir[s]]
    /\ Disturbs({s})
    /\ UNCHANGED <<starts, leadsTo, stray, backup, disk, origin, loaded, remoteVars, vacant>>

Resolves(l) == leadsTo[l] # "none" /\ disk[leadsTo[l]] # "none"

\* Mutant of Replaces: the pipeline forgets -T.
ReplacesPlain(s, l) == ~Resolves(l)

\* mv -T renames the new link over the old one; plain mv -f follows a link
\* that leads to a directory and moves the new link into it.
Replaces(s, l) == s = "pipeline" \/ ~Resolves(l)

Move(s) ==
  \E c \in DOMAIN MoveOf :
    LET l == MoveOf[c] IN
    /\ StandsAt(s, c)
    /\ IF new[l] = "none"
       THEN FailsAt(s) /\ UNCHANGED <<leadsTo, new, stray, historyVars>>
       ELSE /\ Proceeds(s)
            /\ new' = [new EXCEPT ![l] = "none"]
            /\ IF Replaces(s, l)
               THEN leadsTo' = [leadsTo EXCEPT ![l] = new[l]] /\ UNCHANGED stray
               ELSE stray' = [stray EXCEPT ![leadsTo[l]] = new[l]] /\ UNCHANGED leadsTo
            /\ Disturbs({s})
            /\ vacant' = vacant \cup {r \in Scripts :
                                         IF r = s THEN ~Resolves(l) ELSE new[l] = OwnDir[r]}
    /\ UNCHANGED <<starts, backup, disk, origin, loaded, remoteVars>>

ReloadOf == [reload_base |-> "base", reload_eod |-> "eod", reload_sim |-> "sim"]

\* A reload clears what was loaded, then loads what the link leads to; when
\* that fails nothing is loaded, and the answer is a 500.
Reloads(l) == \/ Resolves(l) /\ loaded' = [loaded EXCEPT ![l] = leadsTo[l]]
              \/ loaded' = [loaded EXCEPT ![l] = "none"]

(* The pipeline posts to the three routes the backend has, and curl -s     *)
(* takes any answer, a 500 too.  No answer ends it, except at the last,    *)
(* whether the backend was down or its answer was lost.  The other two     *)
(* post to /api/v1/admin/..., which no router serves, and only warn.       *)
Reload(s) ==
  /\ \/ \E c \in DOMAIN ReloadOf :
          /\ StandsAt(s, c)
          /\ \/ Proceeds(s) /\ Reloads(ReloadOf[c])
             \/ /\ IF c = "reload_sim" THEN Proceeds(s) ELSE FailsAt(s)
                /\ Reloads(ReloadOf[c]) \/ UNCHANGED loaded
     \/ StandsAt(s, "reload") /\ Proceeds(s) /\ UNCHANGED loaded
  /\ UNCHANGED <<starts, leadsTo, new, stray, backup, disk, origin, remoteVars, historyVars>>

(* The first request after a failed reload of a model tries again.         *)
LoadLate ==
  \E l \in {"base", "eod"} :
    /\ loaded[l] = "none" /\ Resolves(l)
    /\ loaded' = [loaded EXCEPT ![l] = leadsTo[l]]
    /\ UNCHANGED <<at, starts, leadsTo, new, stray, backup, disk, origin, remoteVars,
                   historyVars>>
----------------------------------------------------------------------------
(* What the scripts do not look at: a job of a DAG wipes or fills the      *)
(* shared run_root, the jobs of the two other scripts end, the daily DAG   *)
(* promotes its directory and posts its reloads, which may not reach the   *)
(* backend, and its cleanup or an operator removes one.                    *)
OtherJob ==
  /\ nibiJob # "none" /\ crowded' = TRUE
  /\ root' \in {[root EXCEPT !.pipeline = r] :
                    r \in {EmptyRoot, [model |-> "other", steps |-> "other", done |-> TRUE]}}
  /\ UNCHANGED <<at, starts, artifactVars, nibiJob, historyVars>>

RemoteReady(s) ==
  /\ s # "pipeline" /\ ~root[s].done
  /\ root' = [root EXCEPT ![s] = [model |-> "own", steps |-> "own", done |-> TRUE]]
  /\ UNCHANGED <<at, starts, artifactVars, nibiJob, crowded, historyVars>>

DagPromotes ==
  /\ disk' = [disk EXCEPT !["daily"] = "whole"]
  /\ leadsTo' = [l \in Links |-> "daily"]
  /\ loaded' \in {leadsTo', loaded}
  /\ Disturbs({})
  /\ UNCHANGED <<at, starts, new, stray, backup, origin, remoteVars, vacant>>

RemoveDaily ==
  /\ disk["daily"] # "none"
  /\ disk' = [disk EXCEPT !["daily"] = "none"] /\ stray' = [stray EXCEPT !["daily"] = "none"]
  /\ UNCHANGED <<at, starts, leadsTo, new, backup, origin, loaded, remoteVars, historyVars>>

Command(s) == WipeRoot(s) \/ SubmitJob(s) \/ Poll(s) \/ Verify(s) \/ PullBundle(s) \/ PullSteps(s)
              \/ Manifest(s) \/ Backup(s) \/ LinkNew(s) \/ Move(s) \/ Reload(s)

HandNext == \/ \E s \in Scripts : StartScript(s) \/ KillScript(s) \/ Command(s) \/ RemoteReady(s)
            \/ JobEnds \/ LoadLate \/ OtherJob \/ DagPromotes \/ RemoveDaily

HandSpec == HandInit /\ [][HandNext]_handVars
----------------------------------------------------------------------------
(* What is left when a script has said it is complete.  After the full     *)
(* pipeline, if nobody else moved a link meanwhile, the three links lead   *)
(* to its own directories; the backend has its two models loaded or, when  *)
(* a reload answered 500 and no request has come since, none, but never    *)
(* goes on with the ones before; and the bundle is its own job's unless    *)
(* another job used run_root since the wipe, whatever an earlier script,   *)
(* killed where it stood, left behind.  The two other scripts reach        *)
(* current_base only when it led nowhere: their mv follows the link        *)
(* otherwise.                                                              *)
HandPromotionSettles ==
  /\ at["pipeline"] = -1 /\ "pipeline" \notin disturbed =>
       /\ leadsTo = [base |-> "warm", eod |-> "warm", sim |-> "simulation"]
       /\ {loaded["base"], loaded["eod"]} \subseteq {"warm", "none"}
       /\ origin["warm"] = "other" \/ origin["simulation"] = "other" => crowded
  /\ \A s \in {"newbase", "model"} : leadsTo["base"] = OwnDir[s] => s \in vacant

(* promote_new_base.sh prints PROMOTION COMPLETE and names the new model:  *)
(* its header promises an atomic swap of current_base.                     *)
NewBaseIsPromoted ==
  at["newbase"] = -1 /\ "newbase" \notin disturbed => leadsTo["base"] = OwnDir["newbase"]
=============================================================================
