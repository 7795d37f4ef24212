----------------------------- MODULE CatchupDag -----------------------------
(***************************************************************************)
(* nibi_post_market_catchup_and_base_train: started by hand, it submits a  *)
(* base training onto the run_root as it finds it, keeps no record of the  *)
(* job, and pulls and promotes in one task without a look at the manifest. *)
(***************************************************************************)
EXTENDS ArtifactStore

CONSTANTS CatchDays,  \* logical dates it is started for, as numbers
          CatchRetry  \* retries of a task (1 in the code)

CatchAssumption == /\ CatchDays \subseteq Dirs /\ CatchDays \subseteq Nat \ {0}
                   /\ CatchRetry \in 0..1

VARIABLES
  catch,  \* the latest run
  loose   \* history: jobs that no run waits for, their submission tried again
          \* or their run started anew

catchVars == <<catch, loose>>

CatchTasks == {"submit", "poll", "pull", "pullRest", "base", "eod", "predict"}

CatchTypeOK ==
  /\ catch \in [st : {"idle", "running", "failed", "success"}, day : CatchDays \cup {0},
                task : CatchTasks, tries : 0..1, jid : Jobs \cup {Nothing}]
  /\ loose \subseteq Jobs
  /\ catch.st # "idle" => catch.day \in CatchDays

CatchInit == /\ catch = [st |-> "idle", day |-> 0, task |-> "submit", tries |-> 0,
                         jid |-> Nothing]
             /\ loose = {}

CatchAt(t) == catch.st = "running" /\ catch.task = t
CatchGoTo(t) == catch' = [catch EXCEPT !.task = t, !.tries = CatchRetry]

\* Where a retry begins: promote_and_reload is one task.
CatchStart(t) == IF t \in {"pullRest", "base", "eod"} THEN "pull" ELSE t

\* Mutant of CatchRaise: no end of retries.
CatchRaiseForever == catch' = [catch EXCEPT !.task = CatchStart(@), !.tries = @ - 1]

\* The task raises: another try, or the run has failed.
CatchRaise == catch' = [catch EXCEPT !.task = CatchStart(@),
                                     !.tries = IF @ > 0 THEN @ - 1 ELSE 0,
                                     !.st = IF catch.tries > 0 THEN @ ELSE "failed"]

\* Health check, collection, export, snapshot and upload come before.
TriggerCatchup(d) ==
  /\ catch.st # "running"
  /\ catch' = [st |-> "running", day |-> d, task |-> "submit", tries |-> CatchRetry,
               jid |-> Nothing]
  /\ loose' = loose \cup ({catch.jid} \ {Nothing})
  /\ UNCHANGED <<clusterVars, storeVars>>

SubmitCatchup(j) ==
  /\ CatchAt("submit")
  /\ Sbatch(j, "base", FALSE)
  /\ \/ catch' = [catch EXCEPT !.task = "poll", !.tries = CatchRetry, !.jid = j]
        /\ UNCHANGED loose
     \/ CatchRaise /\ loose' = loose \cup {j}
  /\ UNCHANGED storeVars

\* Mutant of CatchupCompleted: an empty answer counts as completed.
CatchupSilent == /\ CatchAt("poll")
                 /\ ~InFlight(catch.jid)
                 /\ CatchGoTo("pull")
                 /\ UNCHANGED <<clusterVars, storeVars, loose>>

CatchupCompleted == /\ CatchAt("poll")
                    /\ job[catch.jid].st = "COMPLETED"
                    /\ CatchGoTo("pull")
                    /\ UNCHANGED <<clusterVars, storeVars, loose>>

\* A failed state, or an SSH call that runs out of time, raises; four hours
\* end the task for good.
CatchupPollEnds == /\ CatchAt("poll")
                   /\ CatchRaise \/ catch' = [catch EXCEPT !.st = "failed"]
                   /\ UNCHANGED <<clusterVars, storeVars, loose>>

\* rmtree of the date's directory, whatever points to it, then the rsync.
PullCatchup ==
  /\ CatchAt("pull")
  /\ \/ /\ current # Nothing
        /\ warm' = PulledHead(catch.day, catch.jid)
        /\ catch' = [catch EXCEPT !.task = "pullRest"]
     \/ /\ warm' = [warm EXCEPT ![catch.day] = EmptyDir]
        /\ CatchRaise
  /\ UNCHANGED <<clusterVars, sim, link, loose>>

PullCatchupRest ==
  /\ CatchAt("pullRest")
  /\ \/ /\ current # Nothing
        /\ warm' = PulledRest(catch.day, catch.jid)
        /\ catch' = [catch EXCEPT !.task = "base"]
     \/ CatchRaise /\ UNCHANGED warm
  /\ UNCHANGED <<clusterVars, sim, link, loose>>

\* No safety net here: the links move to whatever the directory holds.
LinkBase == /\ CatchAt("base")
            /\ link' = [link EXCEPT !["base"] = catch.day]
            /\ catch' = [catch EXCEPT !.task = "eod"]
            /\ UNCHANGED <<clusterVars, warm, sim, loose>>

LinkEod == /\ CatchAt("eod")
           /\ link' = [link EXCEPT !["eod"] = catch.day]
           /\ CatchGoTo("predict")
           /\ UNCHANGED <<clusterVars, warm, sim, loose>>

\* An OS error, a full disk, the execution_timeout.
CatchupFails == /\ catch.st = "running" /\ catch.task \notin {"poll", "predict"}
                /\ CatchRaise
                /\ UNCHANGED <<clusterVars, storeVars, loose>>

\* Neither the predictions, which never come about, nor the reload can fail.
FinishCatchup == /\ CatchAt("predict")
                 /\ catch' = [catch EXCEPT !.st = "success"]
                 /\ UNCHANGED <<clusterVars, storeVars, loose>>

CatchStep == \/ \E d \in CatchDays : TriggerCatchup(d)
             \/ \E j \in Jobs : SubmitCatchup(j)
             \/ CatchupCompleted \/ CatchupPollEnds \/ PullCatchup \/ PullCatchupRest
             \/ LinkBase \/ LinkEod \/ CatchupFails \/ FinishCatchup
=============================================================================
