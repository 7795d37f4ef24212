---------------------------- MODULE TrainingDay ----------------------------
(***************************************************************************)
(* The DAGs that meet on one run_root and one artifact store: at night the *)
(* two nightly DAGs; by day the daily one and the intraday slots; in the   *)
(* evening base trainings by schedule, by the post-market catch-up and by  *)
(* nibi_base_model_fallback, which at midnight triggers                    *)
(* nibi_base_only_training when a served bundle is missing.                *)
(***************************************************************************)
EXTENDS NibiPipeline, CatchupDag

VARIABLES
  fallback,  \* the fallback run: it has checked, it has asked for a run
  part       \* which of the three combinations: "night", "day" or "evening"

Parts == {"night", "day", "evening"}

\* The DAGs' dates and slots name directories, and no date a slot's.
ASSUME DayAssumption == /\ SlotAssumption /\ CatchAssumption /\ NamesAssumption
                        /\ CatchDays \cap Slots = {}

eveningVars == <<catchVars, fallback>>

TrainingTypeOK == /\ DayTypeOK /\ CatchTypeOK
                  /\ fallback \in {"off", "checked", "triggered"}
                  /\ part \in Parts

TrainingInit == /\ part \in Parts
                /\ DayInit /\ CatchInit
                /\ fallback = "off"
----------------------------------------------------------------------------
BundleReady(l) == link[l] # Nothing /\ HasManifest(link[l])

\* task_check_base_bundle: one of the two links has no bundle.
CheckBundle == /\ fallback = "off"
               /\ ~BundleReady("base") \/ ~BundleReady("eod")
               /\ fallback' = "checked"
               /\ UNCHANGED <<vars, catchVars>>

\* task_skip_if_training_active, and the trigger.
TriggerTraining == /\ fallback = "checked"
                   /\ fallback' = IF Active("baseOnly") THEN "off" ELSE "triggered"
                   /\ UNCHANGED <<vars, catchVars>>

\* max_active_runs=1: the run starts when the scheduled one is over, for the
\* date on which it was asked for.
StartTriggered(d) ==
  /\ fallback = "triggered" /\ ~Active("baseOnly")
  /\ d >= Day("baseOnly")
  /\ run' = [run EXCEPT !["baseOnly"] = [st |-> "running", day |-> d, task |-> FirstTask("baseOnly"),
                                         tries |-> Retries(FirstTask("baseOnly")), jid |-> Nothing]]
  /\ fallback' = "off"
  /\ UNCHANGED <<clusterVars, storeVars, record, orphans, catchVars>>

FallbackStep == CheckBundle \/ TriggerTraining \/ \E d \in Days : StartTriggered(d)

\* At night nothing is kept from the two nightly DAGs and their operators.
NightPart == part = "night" /\ PipelineNext /\ UNCHANGED <<slotVars, part, eveningVars>>

DayPart == /\ part = "day"
           /\ \/ (ClusterStep \/ DagStep("daily")) /\ UNCHANGED slotVars
              \/ SlotStep /\ UNCHANGED dagVars
           /\ UNCHANGED <<part, eveningVars>>

EveningPart == /\ part = "evening"
               /\ \/ (ClusterStep \/ DagStep("baseOnly")) /\ UNCHANGED eveningVars
                  \/ CatchStep /\ UNCHANGED <<dagVars, fallback>>
                  \/ FallbackStep
               /\ UNCHANGED <<part, slotVars>>

TrainingNext == NightPart \/ DayPart \/ EveningPart

TrainingSpec == TrainingInit /\ [][TrainingNext]_<<dayVars, eveningVars, part>>
----------------------------------------------------------------------------
(* The catch-up, without record, wipe or manifest check, still publishes   *)
(* its own job's base model, in one piece, as long as no other job and no  *)
(* wipe touched run_root since that job started and no other run wrote     *)
(* into the directory.                                                     *)
CatchupPublishesItsOwn ==
  LET j == catch.jid
      w == warm[catch.day]
  IN ((CatchAt("base") \/ CatchAt("eod")) /\ owner = j /\ w.by = j)
       => /\ w.head = w.manifest /\ w.head # Nothing
          /\ w.head.by = j /\ w.head.rooted

(* Intraday and catch-up runs publish their own job's bundle in one piece, *)
(* as long as nobody else touched run_root or the directory meanwhile; and *)
(* a slot's bundle stays once a link points to it, whatever the nightly    *)
(* pull and the cleanup remove.                                            *)
DayPublishesItsOwn ==
  IntradayPublishesItsOwn /\ CatchupPublishesItsOwn /\ SlotTargetsStay

(* Whatever the DAGs retry, clear and start again, every job that is       *)
(* queued or running is on some record, except those whose submission was  *)
(* answered to nobody, and the catch-up's, which only its own run knows.   *)
NoForgottenTraining ==
  \A j \in Jobs : InFlight(j) =>
    \/ j \in orphans \cup strays \cup loose \cup {catch.jid}
    \/ \E g \in DagIds, d \in Days : record[g][d].jid = j
    \/ \E s \in Slots : slotRecord[s] = j
=============================================================================
