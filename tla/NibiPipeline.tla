---------------------------- MODULE NibiPipeline ----------------------------
(***************************************************************************)
(* The training day: the nightly DAGs and the intraday DAG over the same   *)
(* NIBI run_root and the same model_artifacts/.  Airflow runs their tasks  *)
(* in any order; Slurm runs their jobs in any order.                       *)
(***************************************************************************)
EXTENDS TrainingDags, IntradayDag

dayVars == <<vars, slotVars>>

DayTypeOK == PipelineTypeOK /\ SlotTypeOK

DayInit == PipelineInit /\ SlotInit

DayNext == \/ PipelineNext /\ UNCHANGED slotVars
           \/ SlotStep /\ UNCHANGED dagVars

DaySpec == DayInit /\ [][DayNext]_dayVars
----------------------------------------------------------------------------
(* No date and no slot shares a directory.                                 *)
NamesAssumption == Days \cap Slots = {}

(* What the intraday run publishes is its own job's bundle of the last     *)
(* window, in one piece, as long as nobody else touched run_root since     *)
(* that job started.                                                       *)
IntradayPublishesItsOwn ==
  LET j == slotRun.jid
      w == warm[Slot]
  IN (SlotAt("promoteSim") /\ owner = j /\ w.by = j)
       => /\ w.head = w.manifest /\ w.head # Nothing
          /\ w.head.by = j /\ w.head.stage = Windows

(* A slot's bundle, once current_base or current_simulation points to it,  *)
(* stays: neither the nightly rmtree nor the seven-day cleanup reaches it. *)
SlotTargetsStay ==
  /\ link["base"] \in Slots => HasManifest(link["base"])
  /\ link["sim"] \in Slots => sim[link["sim"]] = Steps

(* What validate_or_flag asks for is what a job leaves behind: a warm job  *)
(* that completed, and whose run_root nobody else touched, passes, so that *)
(* its slot gets the model trained for it.                                 *)
CompletedWarmJobPasses ==
  (SlotAt("validate") /\ done = slotRun.jid /\ owner = done) => preds = Steps
============================================================================
