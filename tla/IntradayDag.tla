----------------------------- MODULE IntradayDag -----------------------------
(***************************************************************************)
(* nibi_intraday_warmrefresh: every fifteen minutes one run, of which      *)
(* max_active_runs=1 allows one at a time.  It submits sim_warm_windows    *)
(* onto the run_root the nightly jobs use, and never cleans it.  The tasks *)
(* up to validate_or_flag stop at the first failure; those after it have   *)
(* trigger_rule ALL_DONE and run in any case.                              *)
(***************************************************************************)
EXTENDS ArtifactStore

CONSTANTS Slots,     \* the fifteen-minute slots, as numbers
          SlotRetry  \* retries of a task (1 in the code)

SlotAssumption == /\ Slots \subseteq Dirs /\ Slots \subseteq Nat \ {0}
                  /\ SlotRetry \in 0..1

VARIABLES
  slotRun,     \* the latest run
  slotRecord,  \* logs/nibi_warm_<slot>.json: the job submitted for the slot
  strays       \* history: jobs sbatch accepted without its answer coming back

slotVars == <<slotRun, slotRecord, strays>>

SlotTasks == {"submit", "poll", "validate", "rsync", "rsyncRest", "promote",
              "promoteSim", "reload"}

SlotTypeOK ==
  /\ slotRun \in [st : {"idle", "running", "done"}, slot : Slots \cup {0},
                  task : SlotTasks, tries : 0..1, jid : Jobs \cup {Nothing},
                  pulled : BOOLEAN]
  /\ slotRecord \in [Slots -> Jobs \cup {Nothing}]
  /\ strays \subseteq Jobs
  /\ slotRun.st # "idle" => slotRun.slot \in Slots

SlotInit == /\ slotRun = [st |-> "idle", slot |-> 0, task |-> "submit", tries |-> 0,
                          jid |-> Nothing, pulled |-> FALSE]
            /\ slotRecord = [s \in Slots |-> Nothing]
            /\ strays = {}

SlotAt(t) == slotRun.st = "running" /\ slotRun.task = t
Slot == slotRun.slot

SlotGoTo(t) == slotRun' = [slotRun EXCEPT !.task = t, !.tries = SlotRetry]

\* The head of the chain has failed or was skipped: local_prediction_fallback
\* is the next task that runs.  Its slice lies where gen_step_predictions.py
\* does not look, it warns and leaves nothing, and rsync_artifacts_back finds
\* no nibi_ok and returns.
Tail == slotRun' = [slotRun EXCEPT !.task = "promote", !.tries = SlotRetry]

\* A task of the head raises.
SlotRaise == IF slotRun.tries > 0
             THEN slotRun' = [slotRun EXCEPT !.tries = @ - 1]
             ELSE Tail

\* The market and freshness gate, the export and the upload: passed, or not.
StartSlot(s) ==
  /\ slotRun.st # "running"
  /\ s > Slot
  /\ \E t \in {"submit", "promote"} :
       slotRun' = [st |-> "running", slot |-> s, task |-> t, tries |-> SlotRetry,
                   jid |-> Nothing, pulled |-> FALSE]
  /\ UNCHANGED <<clusterVars, storeVars, slotRecord, strays>>

\* Mutant of SubmitWarm: the record is not looked at.
SubmitWarmAlways(j) ==
  /\ SlotAt("submit")
  /\ Sbatch(j, "warm", TRUE)
  /\ slotRecord' = [slotRecord EXCEPT ![Slot] = j]
  /\ slotRun' = [slotRun EXCEPT !.task = "poll", !.tries = SlotRetry, !.jid = j]
  /\ UNCHANGED <<storeVars, strays>>

\* task_submit_warm_job: the status on record is never anything but
\* "submitted", so a job on record is always reused ...
SubmitWarm(j) ==
  /\ SlotAt("submit")
  /\ \/ /\ slotRecord[Slot] # Nothing
        /\ j = slotRecord[Slot]
        /\ UNCHANGED <<clusterVars, slotRecord>>
     \/ /\ slotRecord[Slot] = Nothing
        /\ Sbatch(j, "warm", TRUE)
        /\ slotRecord' = [slotRecord EXCEPT ![Slot] = j]
  /\ slotRun' = [slotRun EXCEPT !.task = "poll", !.tries = SlotRetry, !.jid = j]
  /\ UNCHANGED <<storeVars, strays>>

\* ... and here as well the call may fail, sbatch's answer may be lost, or the
\* task may be killed once the record is written.
SubmitWarmFails ==
  /\ SlotAt("submit")
  /\ \/ UNCHANGED <<clusterVars, slotRecord, strays>>
     \/ /\ slotRecord[Slot] = Nothing
        /\ \E j \in Jobs :
             /\ Sbatch(j, "warm", TRUE)
             /\ \/ strays' = strays \cup {j} /\ UNCHANGED slotRecord
                \/ slotRecord' = [slotRecord EXCEPT ![Slot] = j] /\ UNCHANGED strays
  /\ SlotRaise
  /\ UNCHANGED storeVars

\* Mutant of WarmCompleted: whatever has left the queue passes.
WarmLeftQueue == /\ SlotAt("poll")
                 /\ ~InFlight(slotRun.jid)
                 /\ SlotGoTo("validate")
                 /\ UNCHANGED <<clusterVars, storeVars, slotRecord, strays>>

\* The sensor.  An SSH error looks like a job that has left the queue, and
\* sacct's answer for a job that is still there like a failure: only a
\* COMPLETED job passes, everything else may raise.
WarmCompleted == /\ SlotAt("poll")
                 /\ job[slotRun.jid].st = "COMPLETED"
                 /\ SlotGoTo("validate")
                 /\ UNCHANGED <<clusterVars, storeVars, slotRecord, strays>>

WarmPollRaises == /\ SlotAt("poll")
                  /\ SlotRaise
                  /\ UNCHANGED <<clusterVars, storeVars, slotRecord, strays>>

WarmPollTimeout == /\ SlotAt("poll")
                   /\ Tail
                   /\ UNCHANGED <<clusterVars, storeVars, slotRecord, strays>>

\* task_validate_or_flag: nibi_ok when the sentinel and the predictions.csv
\* of every window are there; otherwise, also when SSH fails, on to the tail.
ValidateOrFlag ==
  /\ SlotAt("validate")
  /\ IF done # Nothing /\ preds = Steps THEN SlotGoTo("rsync") ELSE Tail
  /\ UNCHANGED <<clusterVars, storeVars, slotRecord, strays>>

ValidateUnreachable ==
  /\ SlotAt("validate")
  /\ Tail
  /\ UNCHANGED <<clusterVars, storeVars, slotRecord, strays>>

\* rsync_artifacts_back: the bundle in two halves, over what is there; an
\* rsync may always fail, and does without a current/ ...
PullWarm ==
  /\ SlotAt("rsync")
  /\ \/ SlotRaise /\ UNCHANGED warm
     \/ /\ current # Nothing
        /\ warm' = [warm EXCEPT ![Slot].head = current,
                                ![Slot].by = IF @ \in {Nothing, slotRun.jid}
                                             THEN slotRun.jid ELSE Nothing]
        /\ slotRun' = [slotRun EXCEPT !.task = "rsyncRest"]
  /\ UNCHANGED <<clusterVars, sim, link, slotRecord, strays>>

\* ... then the predictions; the XComs promote needs come last.
PullWarmRest ==
  /\ SlotAt("rsyncRest")
  /\ \/ /\ IF slotRun.tries > 0
           THEN slotRun' = [slotRun EXCEPT !.task = "rsync", !.tries = @ - 1]
           ELSE Tail
        /\ UNCHANGED <<warm, sim>>
     \/ /\ current # Nothing
        /\ warm' = PulledRest(Slot, slotRun.jid)
        /\ sim' = [sim EXCEPT ![Slot] = preds]
        /\ slotRun' = [slotRun EXCEPT !.task = "promote", !.tries = SlotRetry,
                                      !.pulled = TRUE]
  /\ UNCHANGED <<clusterVars, link, slotRecord, strays>>

\* task_promote_intraday: nothing without the XComs; with them current_base
\* and then, if every step has predictions, current_simulation.
PromoteIntraday ==
  /\ SlotAt("promote")
  /\ IF ~slotRun.pulled
     THEN SlotGoTo("reload") /\ UNCHANGED link
     ELSE /\ HasManifest(Slot)
          /\ link' = [link EXCEPT !["base"] = Slot]
          /\ slotRun' = [slotRun EXCEPT !.task = "promoteSim"]
  /\ UNCHANGED <<clusterVars, warm, sim, slotRecord, strays>>

PromoteReplay ==
  /\ SlotAt("promoteSim")
  /\ link' = IF sim[Slot] = Steps THEN [link EXCEPT !["sim"] = Slot] ELSE link
  /\ SlotGoTo("reload")
  /\ UNCHANGED <<clusterVars, warm, sim, slotRecord, strays>>

\* A symlink error or a worker's death in between: tried again, then given up.
PromoteFails ==
  /\ slotRun.st = "running" /\ slotRun.task \in {"promote", "promoteSim"}
  /\ slotRun' = IF slotRun.tries > 0
                THEN [slotRun EXCEPT !.task = "promote", !.tries = @ - 1]
                ELSE [slotRun EXCEPT !.task = "reload"]
  /\ UNCHANGED <<clusterVars, storeVars, slotRecord, strays>>

ReloadWarm == /\ SlotAt("reload")
              /\ slotRun' = [slotRun EXCEPT !.st = "done"]
              /\ UNCHANGED <<clusterVars, storeVars, slotRecord, strays>>

SlotStep == \/ \E s \in Slots : StartSlot(s)
            \/ \E j \in Jobs : SubmitWarm(j)
            \/ SubmitWarmFails
            \/ WarmCompleted \/ WarmPollRaises \/ WarmPollTimeout
            \/ ValidateOrFlag \/ ValidateUnreachable \/ PullWarm \/ PullWarmRest
            \/ PromoteIntraday \/ PromoteReplay \/ PromoteFails \/ ReloadWarm
============================================================================
